------------------------------- MODULE MCHost -------------------------------
(* Small instances of the host and of its process for TLC.                 *)
EXTENDS Host

(* Hosts 1, 2 and 3 have memory of their own, host 4 overlaps host 1.      *)
Regions == [h \in Hosts |-> IF h = 4 THEN {1, 4} ELSE {h}]

(* Once a state has been saved, no other host is there and no thunk.       *)
SavesApart == saved # {} => g_blocks \in {<<>>, <<self>>} /\ given[self] = {} /\ ~aborted

=============================================================================
