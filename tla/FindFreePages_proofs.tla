------------------------ MODULE FindFreePages_proofs ------------------------
(***************************************************************************)
(* The scanning loop of find_free_pages returns the best fit, fails only   *)
(* if there is no room, and takes a bounded number of steps, for every     *)
(* arena, every set of free pages and every length.                        *)
(***************************************************************************)
EXTENDS FindFreePages, TLAPS, WellFoundedInduction

-----------------------------------------------------------------------------
(* The loop.                                                               *)

(* The scan starts with nothing judged: no run ends before the arena.      *)
LEMMA ScanInit == Init => ScanInv
  BY ArenaAssumption
  DEF Init, ScanInv, TypeOK, BestBefore, ArenaPages, end, NotFound

(* A page that is not free lets the scan move on: no run ends there.       *)
LEMMA ScanStep == ScanInv /\ Scan => ScanInv'
<1> SUFFICES ASSUME ScanInv, Scan PROVE ScanInv'
  OBVIOUS
<1>1. CASE i \in free
  BY <1>1, ArenaAssumption
  DEF ScanInv, Scan, TypeOK, BestBefore, Measuring, FreeRun, ArenaPages, end, NotFound
<1>2. CASE i \notin free
  BY <1>2, ArenaAssumption
  DEF ScanInv, Scan, TypeOK, BestBefore, FreeRun, ArenaPages, end, NotFound
<1> QED
  BY <1>1, <1>2

(* One more free page belongs to the run being measured.                   *)
LEMMA ExtendStep == ScanInv /\ Extend => ScanInv'
  BY ArenaAssumption
  DEF ScanInv, Extend, TypeOK, BestBefore, Measuring, ArenaPages, end, NotFound

(* The only run that ends in i..j-1 is i..j-1 itself.                      *)
LEMMA OneRun ==
  ASSUME ScanInv, EndRun, NEW a \in free, NEW b \in free,
         FreeRun(free, a, b), b < j, ~(b < i)
  PROVE  a = i /\ b = j - 1
<1>1. i \in Int /\ j \in Int /\ a \in Int /\ b \in Int
  BY ArenaAssumption DEF ScanInv, TypeOK, ArenaPages, end
<1>2. i .. j - 1 \subseteq free /\ i - 1 \notin free
  BY DEF ScanInv, EndRun, Measuring
<1>3. b = j - 1
  <2>1. b + 1 \notin free
    BY DEF FreeRun
  <2> QED
    BY <1>1, <1>2, <2>1
<1>4. ~(a < i)
  <2>1. SUFFICES ASSUME a < i PROVE FALSE
    OBVIOUS
  <2>2. i - 1 \in a .. b
    BY <1>1, <2>1
  <2> QED
    BY <1>2, <2>2 DEF FreeRun
<1>5. ~(a > i)
  <2>1. a - 1 \notin free
    BY DEF FreeRun
  <2> QED
    BY <1>1, <1>2, <1>3, <2>1 DEF FreeRun
<1> QED
  BY <1>1, <1>3, <1>4, <1>5

(* The measured run is a longest one, and is not empty.                    *)
LEMMA MeasuredRun ==
  ASSUME ScanInv, EndRun
  PROVE  i < j /\ j \notin free /\ FreeRun(free, i, j - 1)
  BY ArenaAssumption
  DEF ScanInv, EndRun, TypeOK, Measuring, FreeRun, ArenaPages, end

(* A run that ends is judged against the best so far.                      *)
LEMMA EndRunStep == ScanInv /\ EndRun => ScanInv'
<1> SUFFICES ASSUME ScanInv, EndRun PROVE ScanInv'
  OBVIOUS
<1>1. /\ i \in ArenaStart .. end /\ j \in ArenaStart .. end
      /\ best \in ArenaPages \cup {NotFound} /\ best_len \in Nat \cup {NotFound}
      /\ npages \in Nat \ {0} /\ free \subseteq ArenaPages /\ end \in Nat
  BY ArenaAssumption DEF ScanInv, TypeOK, end
<1>2. i < j /\ j \notin free /\ FreeRun(free, i, j - 1)
  BY MeasuredRun
<1>3. i' = j /\ pc' = "scan" /\ UNCHANGED <<free, npages, j>>
  BY DEF EndRun
<1>4. TypeOK'
  BY <1>1, <1>2, <1>3, ArenaAssumption
  DEF ScanInv, EndRun, TypeOK, Measuring, ArenaPages, end
<1>5. BestBefore(i)
  BY DEF ScanInv
<1>6. \A a, b \in free : FreeRun(free, a, b) /\ b < j /\ ~(b < i) => a = i /\ b = j - 1
  BY OneRun
<1>7. CASE Better(j - i)
  <2>1. best' = i /\ best_len' = j - i
    BY <1>7 DEF EndRun
  <2>2. i # NotFound /\ j - i # NotFound /\ j - i >= npages
    BY <1>1, <1>2, <1>7, ArenaAssumption DEF Better, NotFound
  <2>3. ASSUME NEW a \in free, NEW b \in free,
               FreeRun(free, a, b), b < j, b - a + 1 >= npages
        PROVE  j - i < b - a + 1 \/ (j - i = b - a + 1 /\ i <= a)
    <3>1. a \in Int /\ b \in Int
      BY <1>1, ArenaAssumption DEF ArenaPages
    <3>2. CASE b < i
      BY <1>1, <1>5, <1>7, <2>3, <3>1, <3>2, ArenaAssumption
      DEF BestBefore, Better, NotFound, ArenaPages
    <3>3. CASE ~(b < i)
      BY <1>1, <1>6, <2>3, <3>1, <3>3
    <3> QED
      BY <3>2, <3>3
  <2>4. BestBefore(i)'
    BY <1>1, <1>2, <1>3, <2>1, <2>2, <2>3 DEF BestBefore, FreeRun
  <2> QED
    BY <1>2, <1>3, <1>4, <2>4 DEF ScanInv
<1>8. CASE ~Better(j - i)
  <2>1. best' = best /\ best_len' = best_len
    BY <1>8 DEF EndRun
  <2>2. ASSUME NEW a \in free, NEW b \in free,
               FreeRun(free, a, b), b < j, b - a + 1 >= npages
        PROVE  /\ best # NotFound
               /\ best_len < b - a + 1 \/ (best_len = b - a + 1 /\ best <= a)
    <3>1. a \in Int /\ b \in Int
      BY <1>1, ArenaAssumption DEF ArenaPages
    <3>2. CASE b < i
      BY <1>5, <2>2, <3>2 DEF BestBefore
    <3>3. CASE ~(b < i)
      <4>1. a = i /\ b = j - 1
        BY <1>6, <2>2, <3>3
      <4>2. best_len # NotFound /\ best_len <= j - i
        BY <1>1, <1>8, <2>2, <4>1, ArenaAssumption DEF Better, NotFound
      <4>3. best # NotFound /\ best + best_len <= i /\ best_len >= npages
        BY <1>5, <4>2 DEF BestBefore
      <4> QED
        BY <1>1, <4>1, <4>2, <4>3, ArenaAssumption DEF ArenaPages, NotFound
    <3> QED
      BY <3>2, <3>3
  <2>3. best # NotFound => best + best_len <= j
    BY <1>1, <1>2, <1>5, ArenaAssumption DEF BestBefore, ArenaPages, NotFound
  <2>4. BestBefore(i)'
    BY <1>3, <1>5, <2>1, <2>2, <2>3 DEF BestBefore
  <2> QED
    BY <1>2, <1>3, <1>4, <2>4 DEF ScanInv
<1> QED
  BY <1>7, <1>8

(* The loop has seen the whole arena when it ends.                         *)
LEMMA ReturnStep == ScanInv /\ Return => ScanInv'
  BY ArenaAssumption
  DEF ScanInv, Return, TypeOK, BestBefore, ArenaPages, end, NotFound

(* The loop's invariant holds throughout (find_free_pages).                *)
THEOREM ScanInvariance == Spec => []ScanInv
<1>1. ScanInv /\ [Next]_vars => ScanInv'
  <2> SUFFICES ASSUME ScanInv, [Next]_vars PROVE ScanInv'
    OBVIOUS
  <2>1. CASE Scan
    BY <2>1, ScanStep
  <2>2. CASE Extend
    BY <2>2, ExtendStep
  <2>3. CASE EndRun
    BY <2>3, EndRunStep
  <2>4. CASE Return
    BY <2>4, ReturnStep
  <2>5. CASE UNCHANGED vars
    BY <2>5 DEF vars, ScanInv, TypeOK, BestBefore, Measuring
  <2> QED
    BY <2>1, <2>2, <2>3, <2>4, <2>5 DEF Next
<1> QED
  BY <1>1, ScanInit, PTL DEF Spec

(* The page that find_free_pages returns starts the first of the shortest  *)
(* free runs that are long enough, and it fails only if no run is.         *)
THEOREM FindsBestFit == Spec => []BestFit
<1>1. ScanInv => BestFit
  <2> SUFFICES ASSUME ScanInv, pc = "done"
               PROVE  FreePlaces(free, npages) = IF best = NotFound THEN {} ELSE {best}
    BY DEF BestFit
  <2>1. BestBefore(end) /\ free \subseteq ArenaPages /\ npages \in Nat
    BY ArenaAssumption DEF ScanInv, TypeOK
  <2>2. best \in ArenaPages \cup {NotFound} /\ best_len \in Nat \cup {NotFound}
    BY DEF ScanInv, TypeOK
  <2>3. \A b \in free : b < end /\ b \in Int
    BY <2>1, ArenaAssumption DEF ArenaPages, end
  <2>4. CASE best = NotFound
    BY <2>1, <2>3, <2>4 DEF FreePlaces, BestBefore
  <2>5. CASE best # NotFound
    <3>1. best \in Int /\ best_len \in Nat /\ best_len >= npages
      BY <2>1, <2>2, <2>5, ArenaAssumption DEF BestBefore, ArenaPages
    <3> DEFINE last == best + best_len - 1
    <3>2. FreeRun(free, best, last) /\ best \in free /\ last \in free
      BY <2>1, <2>5, <3>1 DEF BestBefore, FreeRun
    <3>3. \A a, b \in free : FreeRun(free, a, b) /\ b - a + 1 >= npages =>
            best_len < b - a + 1 \/ (best_len = b - a + 1 /\ best <= a)
      BY <2>1, <2>3 DEF BestBefore
    <3>4. best \in FreePlaces(free, npages)
      <4>1. last - best + 1 >= npages
        BY <3>1, <2>1
      <4>2. \A k, l \in free : FreeRun(free, k, l) /\ l - k + 1 >= npages =>
              last - best < l - k \/ (last - best = l - k /\ best <= k)
        BY <2>3, <3>1, <3>3
      <4> HIDE DEF last
      <4> QED
        BY <3>2, <4>1, <4>2 DEF FreePlaces
    <3>5. ASSUME NEW a \in FreePlaces(free, npages) PROVE a = best
      <4>1. PICK b \in free :
              /\ FreeRun(free, a, b)
              /\ b - a + 1 >= npages
              /\ \A k, l \in free :
                   FreeRun(free, k, l) /\ l - k + 1 >= npages =>
                     b - a < l - k \/ (b - a = l - k /\ a <= k)
        BY DEF FreePlaces
      <4>2. a \in free
        BY DEF FreePlaces
      <4>3. b - a < last - best \/ (b - a = last - best /\ a <= best)
        BY <2>1, <3>1, <3>2, <4>1
      <4>4. best_len < b - a + 1 \/ (best_len = b - a + 1 /\ best <= a)
        BY <3>3, <4>1, <4>2
      <4> QED
        BY <2>3, <3>1, <4>1, <4>2, <4>3, <4>4
    <3> QED
      BY <2>5, <3>4, <3>5
  <2> QED
    BY <2>4, <2>5
<1> QED
  BY <1>1, ScanInvariance, PTL

-----------------------------------------------------------------------------
(* Room.                                                                   *)

(* Among finitely many pages there is a first and a last one.              *)
LEMMA FirstAndLast ==
  ASSUME NEW lo \in Int, NEW hi \in Int, NEW T \in SUBSET (lo .. hi), T # {}
  PROVE  /\ \E m \in T : \A y \in T : m <= y
         /\ \E m \in T : \A y \in T : y <= m
<1>1. ASSUME NEW S \in SUBSET Nat, S # {} PROVE \E m \in S : \A y \in S : m <= y
  <2>1. PICK m \in S : \A y \in S : ~(<<y, m>> \in OpToRel(<, Nat))
    BY <1>1, NatLessThanWellFounded, WFMin, Zenon
  <2>2. ASSUME NEW y \in S PROVE m <= y
    <3>1. y \in Nat /\ m \in Nat /\ ~(y < m)
      BY <2>1, Zenon DEF OpToRel
    <3> QED
      BY <3>1
  <2> QED
    BY <2>2
<1> DEFINE Up   == {y - lo : y \in T}
           Down == {hi - y : y \in T}
<1>2. Up \in SUBSET Nat /\ Up # {} /\ Down \in SUBSET Nat /\ Down # {}
  <2>1. ASSUME NEW y \in T PROVE y - lo \in Nat /\ hi - y \in Nat
    OBVIOUS
  <2>2. PICK y : y \in T
    OBVIOUS
  <2>3. y - lo \in Up /\ hi - y \in Down
    BY <2>2
  <2> QED
    BY <2>1, <2>3, Zenon
<1>3. PICK u \in Up : \A y \in Up : u <= y
  <2> HIDE DEF Up
  <2> QED
    BY <1>1, <1>2
<1>4. PICK d \in Down : \A y \in Down : d <= y
  <2> HIDE DEF Down
  <2> QED
    BY <1>1, <1>2
<1>5. lo + u \in T /\ \A y \in T : lo + u <= y
  BY <1>3
<1>6. hi - d \in T /\ \A y \in T : y <= hi - d
  BY <1>4
<1> QED
  BY <1>5, <1>6

(* Free pages in a row are part of a run.                                  *)
LEMMA RunAround ==
  ASSUME NEW lo \in Int, NEW hi \in Int, NEW F \in SUBSET (lo .. hi),
         NEW s \in F, NEW t \in F, s <= t, s .. t \subseteq F
  PROVE  \E a, b \in F : FreeRun(F, a, b) /\ a <= s /\ t <= b
<1> DEFINE A == {a \in F : a <= s /\ a .. s \subseteq F}
           B == {b \in F : t <= b /\ t .. b \subseteq F}
<1>1. s \in A /\ t \in B /\ A \in SUBSET (lo .. hi) /\ B \in SUBSET (lo .. hi)
  <2>1. s \in Int /\ t \in Int
    OBVIOUS
  <2>2. s .. s \subseteq F /\ t .. t \subseteq F /\ s <= s /\ t <= t
    BY <2>1
  <2> QED
    BY <2>2, Zenon
<1>2. PICK a \in A : \A y \in A : a <= y
  <2> HIDE DEF A
  <2> QED
    BY <1>1, FirstAndLast, Zenon
<1>3. PICK b \in B : \A y \in B : y <= b
  <2> HIDE DEF B
  <2> QED
    BY <1>1, FirstAndLast, Zenon
<1>4. a - 1 \notin F
  <2> SUFFICES ASSUME a - 1 \in F PROVE FALSE
    OBVIOUS
  <2>1. a - 1 <= s /\ (a - 1) .. s \subseteq F
    OBVIOUS
  <2> QED
    BY <1>2, <2>1
<1>5. b + 1 \notin F
  <2> SUFFICES ASSUME b + 1 \in F PROVE FALSE
    OBVIOUS
  <2>1. t <= b + 1 /\ t .. (b + 1) \subseteq F
    OBVIOUS
  <2> QED
    BY <1>3, <2>1
<1>6. a .. b \subseteq F
  OBVIOUS
<1> QED
  BY <1>4, <1>5, <1>6 DEF FreeRun

(* There is a place for n pages exactly if n pages in a row are free, and  *)
(* it starts n such pages (find_free_pages, for which FreePlaces stands in *)
(* the block's mmap).                                                      *)
THEOREM PlaceWhereRoom ==
  ASSUME NEW lo \in Int, NEW hi \in Int, NEW F \in SUBSET (lo .. hi), NEW n \in Nat \ {0}
  PROVE  /\ \A a \in FreePlaces(F, n) : a .. a + n - 1 \subseteq F
         /\ FreePlaces(F, n) # {} <=> \E a \in F : a .. a + n - 1 \subseteq F
<1>1. ASSUME NEW a \in FreePlaces(F, n) PROVE a \in F /\ a .. a + n - 1 \subseteq F
  BY DEF FreePlaces, FreeRun
<1>2. ASSUME NEW s \in F, s .. s + n - 1 \subseteq F PROVE FreePlaces(F, n) # {}
  <2> DEFINE Fits(k, l) == FreeRun(F, k, l) /\ l - k + 1 >= n
             T == {d \in 0 .. hi - lo : \E k, l \in F : Fits(k, l) /\ l - k = d}
  <2>1. s + n - 1 \in F /\ s <= s + n - 1
    BY <1>2
  <2>2. PICK a, b \in F : FreeRun(F, a, b) /\ a <= s /\ s + n - 1 <= b
    BY <1>2, <2>1, RunAround
  <2>3. Fits(a, b) /\ b - a \in 0 .. hi - lo
    BY <2>2 DEF FreeRun
  <2>4. PICK d \in T : \A y \in T : d <= y
    <3>1. T # {} /\ T \in SUBSET (0 .. hi - lo)
      BY <2>3, Zenon
    <3>2. 0 \in Int /\ hi - lo \in Int
      OBVIOUS
    <3> HIDE DEF T
    <3> QED
      BY <3>1, <3>2, FirstAndLast, Zenon
  <2> DEFINE K == {k \in F : \E l \in F : Fits(k, l) /\ l - k = d}
  <2>5. PICK k \in K : \A y \in K : k <= y
    <3>1. K # {} /\ K \in SUBSET (lo .. hi)
      BY <2>4
    <3> HIDE DEF K
    <3> QED
      BY <3>1, FirstAndLast, Zenon
  <2>6. PICK l \in F : Fits(k, l) /\ l - k = d
    BY <2>5
  <2>7. ASSUME NEW x \in F, NEW y \in F, Fits(x, y)
        PROVE  l - k < y - x \/ (l - k = y - x /\ k <= x)
    <3>1. y - x \in 0 .. hi - lo
      BY <2>7 DEF FreeRun
    <3>2. y - x \in T /\ d <= y - x
      BY <2>4, <2>7, <3>1
    <3>3. CASE d = y - x
      BY <2>5, <2>6, <2>7, <3>3
    <3>4. CASE d # y - x
      BY <2>6, <3>1, <3>2, <3>4
    <3> QED
      BY <3>3, <3>4
  <2>8. k \in FreePlaces(F, n)
    BY <2>6, <2>7 DEF FreePlaces
  <2> QED
    BY <2>8
<1> QED
  BY <1>1, <1>2

(* There is one place: where the block puts a mapping is determined by     *)
(* which pages are free (find_free_pages: a replayed guest gets the same   *)
(* addresses).                                                             *)
THEOREM PlaceIsUnique ==
  ASSUME NEW F \in SUBSET Int, NEW n \in Nat,
         NEW a \in FreePlaces(F, n), NEW b \in FreePlaces(F, n)
  PROVE  a = b
<1>1. a \in F /\ b \in F
  BY DEF FreePlaces
<1>2. PICK c \in F :
        /\ FreeRun(F, a, c) /\ c - a + 1 >= n
        /\ \A k, l \in F : FreeRun(F, k, l) /\ l - k + 1 >= n =>
                             c - a < l - k \/ (c - a = l - k /\ a <= k)
  BY DEF FreePlaces
<1>3. PICK d \in F :
        /\ FreeRun(F, b, d) /\ d - b + 1 >= n
        /\ \A k, l \in F : FreeRun(F, k, l) /\ l - k + 1 >= n =>
                             d - b < l - k \/ (d - b = l - k /\ b <= k)
  BY DEF FreePlaces
<1>4. c - a < d - b \/ (c - a = d - b /\ a <= b)
  BY <1>1, <1>2, <1>3
<1>5. d - b < c - a \/ (d - b = c - a /\ b <= a)
  BY <1>1, <1>2, <1>3
<1> QED
  BY <1>1, <1>4, <1>5

(* The loop refuses only what does not fit, and returns free pages.        *)
THEOREM FindsRoom == Spec => []RoomIsFound
<1>1. ScanInv /\ BestFit => RoomIsFound
  <2> SUFFICES ASSUME ScanInv, BestFit, pc = "done"
               PROVE  IF best = NotFound
                      THEN \A a \in ArenaPages : ~(a .. a + npages - 1 \subseteq free)
                      ELSE best .. best + npages - 1 \subseteq free
    BY DEF RoomIsFound
  <2>1. free \in SUBSET (ArenaStart .. end - 1) /\ npages \in Nat \ {0}
    BY ArenaAssumption DEF ScanInv, TypeOK, ArenaPages
  <2>2. ArenaStart \in Int /\ end - 1 \in Int
    BY ArenaAssumption DEF end
  <2>3. /\ \A a \in FreePlaces(free, npages) : a .. a + npages - 1 \subseteq free
        /\ FreePlaces(free, npages) # {} <=> \E a \in free : a .. a + npages - 1 \subseteq free
    BY <2>1, <2>2, PlaceWhereRoom
  <2>4. FreePlaces(free, npages) = IF best = NotFound THEN {} ELSE {best}
    BY DEF BestFit
  <2>5. ASSUME NEW a \in ArenaPages, a .. a + npages - 1 \subseteq free PROVE a \in free
    BY <2>1, <2>2, <2>5 DEF ArenaPages
  <2> QED
    BY <2>3, <2>4, <2>5
<1> QED
  BY <1>1, ScanInvariance, FindsBestFit, PTL

(* The loop takes at most three steps for each page of the arena, and one  *)
(* more: what remains to do is a natural number that every step lessens.   *)
THEOREM ScanIsBounded == Spec => WorkShrinks /\ [](Work <= 3 * ArenaCount + 1)
<1>1. ScanInv => Work \in Nat /\ Work <= 3 * ArenaCount + 1
  BY ArenaAssumption DEF ScanInv, TypeOK, Work, Measuring, end
<1>2. ScanInv /\ ScanInv' /\ [Next]_vars => [Work' \in Nat /\ Work' < Work]_vars
  <2> SUFFICES ASSUME ScanInv, ScanInv', Next PROVE Work' \in Nat /\ Work' < Work
    OBVIOUS
  <2>1. i \in Int /\ j \in Int /\ end \in Int /\ end' = end
    BY ArenaAssumption DEF ScanInv, TypeOK, end
  <2>2. Work' \in Nat
    BY <2>1, ArenaAssumption DEF ScanInv, TypeOK, Work, Measuring, end
  <2>3. CASE Scan
    BY <2>1, <2>2, <2>3 DEF Scan, Work
  <2>4. CASE Extend
    BY <2>1, <2>2, <2>4 DEF Extend, Work
  <2>5. CASE EndRun
    <3>1. j > i
      BY <2>1, <2>5 DEF EndRun, ScanInv, Measuring
    <3> QED
      BY <2>1, <2>2, <2>5, <3>1 DEF EndRun, Work
  <2>6. CASE Return
    BY <2>1, <2>2, <2>6 DEF Return, Work, ScanInv
  <2> QED
    BY <2>2, <2>3, <2>4, <2>5, <2>6 DEF Next
<1> QED
  BY <1>1, <1>2, ScanInvariance, PTL DEF Spec, WorkShrinks

=============================================================================
