----------------------------- MODULE MCThreads -----------------------------
(***************************************************************************)
(* Threads for TLC: nothing tells one PI lock from another.                *)
(***************************************************************************)
EXTENDS Threads, TLC

LockSymmetry == Permutations(Locks)

(* At most one thread has other registers than the rest, which is enough   *)
(* to tell whose registers are where.                                      *)
OneDiffers == Cardinality({t \in DOMAIN frame : frame[t] # 0}) <= 1

=============================================================================
