---------------------------- MODULE FindFreePages ---------------------------
(***************************************************************************)
(* The scanning loop of find_free_pages (source/host/memblock.c): one pass *)
(* over the pages of the arena that remembers the shortest free run it has *)
(* met that is long enough.                                                *)
(***************************************************************************)
EXTENDS FreeRuns

CONSTANTS
  ArenaStart, ArenaCount,   \* the arena, in pages of the block
  Lengths                   \* lengths that callers ask for

ASSUME ArenaAssumption ==
  /\ ArenaStart \in Nat
  /\ ArenaCount \in Nat \ {0}
  /\ Lengths \subseteq Nat \ {0}

end == ArenaStart + ArenaCount
ArenaPages == ArenaStart .. end - 1
NotFound == -1     \* (size_t)-1, which is also larger than any length

VARIABLES
  free,       \* the pages of the arena whose status is MB_ST_FREE
  npages,     \* how many are asked for
  pc,         \* "scan" and "run": the outer and the inner loop; "done"
  i, j, best, best_len

vars == <<free, npages, pc, i, j, best, best_len>>

Init ==
  /\ free \in SUBSET ArenaPages
  /\ npages \in Lengths
  /\ pc = "scan"
  /\ i = ArenaStart /\ j = ArenaStart
  /\ best = NotFound /\ best_len = NotFound

Scan ==
  /\ pc = "scan" /\ i < end
  /\ IF i \in free THEN pc' = "run" /\ j' = i /\ i' = i
                   ELSE pc' = pc /\ i' = i + 1 /\ j' = j
  /\ UNCHANGED <<free, npages, best, best_len>>

Extend ==
  /\ pc = "run" /\ j < end /\ j \in free
  /\ j' = j + 1
  /\ UNCHANGED <<free, npages, pc, i, best, best_len>>

(* Faulty variant: a later run of the same length wins.                    *)
Better_Last(len) == len >= npages /\ (best_len = NotFound \/ len <= best_len)

Better(len) == len >= npages /\ (best_len = NotFound \/ len < best_len)

(* Faulty variant: the scan does not move on past the run.                 *)
EndRun_Stay ==
  /\ pc = "run" /\ ~(j < end /\ j \in free)
  /\ IF Better(j - i) THEN best' = i /\ best_len' = j - i
                      ELSE UNCHANGED <<best, best_len>>
  /\ pc' = "scan"
  /\ UNCHANGED <<free, npages, i, j>>

EndRun ==
  /\ pc = "run" /\ ~(j < end /\ j \in free)
  /\ IF Better(j - i) THEN best' = i /\ best_len' = j - i
                      ELSE UNCHANGED <<best, best_len>>
  /\ i' = j
  /\ pc' = "scan"
  /\ UNCHANGED <<free, npages, j>>

Return ==
  /\ pc = "scan" /\ i >= end
  /\ pc' = "done"
  /\ UNCHANGED <<free, npages, i, j, best, best_len>>

Next == Scan \/ Extend \/ EndRun \/ Return

Spec == Init /\ [][Next]_vars /\ WF_vars(Next)

-----------------------------------------------------------------------------

(* The type of the state.                                                  *)
TypeOK ==
  /\ free \in SUBSET ArenaPages
  /\ npages \in Lengths
  /\ pc \in {"scan", "run", "done"}
  /\ i \in ArenaStart .. end /\ j \in ArenaStart .. end
  /\ best \in ArenaPages \cup {NotFound}
  /\ best_len \in Nat \cup {NotFound}

(* The loop returns the start of the first of the shortest free runs that  *)
(* hold npages pages, and -1 exactly if there is none.                     *)
BestFit ==
  pc = "done" =>
    FreePlaces(free, npages) = IF best = NotFound THEN {} ELSE {best}

(* The loop ends.                                                          *)
Terminates == <>(pc = "done")

(* i..j-1 is the part measured so far of the run that starts at i.         *)
Measuring ==
  /\ i < end /\ i <= j
  /\ i \in free /\ i - 1 \notin free
  /\ i .. j - 1 \subseteq free

(* best is the best fit among the runs that end before page k.             *)
BestBefore(k) ==
  /\ best = NotFound <=> best_len = NotFound
  /\ best # NotFound => /\ best_len >= npages
                        /\ FreeRun(free, best, best + best_len - 1)
                        /\ best + best_len <= k
  /\ \A a, b \in free :
       FreeRun(free, a, b) /\ b < k /\ b - a + 1 >= npages =>
         /\ best # NotFound
         /\ best_len < b - a + 1 \/ (best_len = b - a + 1 /\ best <= a)

(* The scan has judged every run that ends before i, and stands at the     *)
(* edge of a run or outside of any (find_free_pages).                      *)
ScanInv ==
  /\ TypeOK
  /\ BestBefore(i)
  /\ pc = "scan" => i \notin free \/ i - 1 \notin free
  /\ pc = "run" => Measuring
  /\ pc = "done" => i = end

(* The loop fails only if no npages consecutive pages of the arena are     *)
(* free, and otherwise returns the first of npages free ones: a mapping    *)
(* for which there is room is never refused, and none is placed over a     *)
(* page in use (find_free_pages).                                          *)
RoomIsFound ==
  pc = "done" =>
    IF best = NotFound
    THEN \A a \in ArenaPages : ~(a .. a + npages - 1 \subseteq free)
    ELSE best .. best + npages - 1 \subseteq free

(* A bound on the steps that are left: three for each page, and one for    *)
(* the return.                                                             *)
Work ==
  CASE pc = "scan" -> 3 * (end - i) + 1
    [] pc = "run"  -> 3 * (end - i) - (j - i)
    [] pc = "done" -> 0

(* Every step leaves less to do, so that the pass is linear in the arena   *)
(* (find_free_pages: the scan moves on past the run that it has measured). *)
WorkShrinks == [][Work' \in Nat /\ Work' < Work]_vars

=============================================================================
