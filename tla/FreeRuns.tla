------------------------------ MODULE FreeRuns ------------------------------
(***************************************************************************)
(* Best fit among the free pages F of an arena: the declarative reading of *)
(* find_free_pages (source/host/memblock.c), which the memory block uses   *)
(* and FindFreePages, the scanning loop itself, is shown to compute.       *)
(***************************************************************************)
EXTENDS Integers

(* i..j is a longest run of pages of F.                                    *)
FreeRun(F, i, j) == i <= j /\ i .. j \subseteq F /\ i - 1 \notin F /\ j + 1 \notin F

(* The start of the first of the shortest runs that hold n pages.          *)
FreePlaces(F, n) ==
  {i \in F : \E j \in F :
     /\ FreeRun(F, i, j)
     /\ j - i + 1 >= n
     /\ \A k, l \in F :
          FreeRun(F, k, l) /\ l - k + 1 >= n =>
            j - i < l - k \/ (j - i = l - k /\ i <= k)}

=============================================================================
