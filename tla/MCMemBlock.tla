----------------------------- MODULE MCMemBlock -----------------------------
(* Small instances of the memory block for TLC.                            *)
EXTENDS MemBlockInv

(* Every range, valid or not, that starts or ends on a page boundary of    *)
(* the block.                                                              *)
PageRanges ==
  {r \in [start : {Base + i * PageSize : i \in 0 .. NPages},
          size : {n * PageSize : n \in 0 .. NPages}] :
     range_end(r) <= Base + (NPages + 1) * PageSize}

WholeBlock == [start |-> Base, size |-> NPages * PageSize]

(* Explore no further once a load has failed.                              *)
UntilPoisoned == ~poisoned

=============================================================================
