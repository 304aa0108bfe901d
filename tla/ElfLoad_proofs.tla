--------------------------- MODULE ElfLoad_proofs ---------------------------
(***************************************************************************)
(* Loading and sealing, for images, areas and pages of every size: no call *)
(* on the block is refused, the image ends up as it was linked, the seal   *)
(* takes exactly the pages that it should, and the block is used as        *)
(* MemBlock allows.                                                        *)
(***************************************************************************)
EXTENDS ElfLoadSteps_proofs, MemBlock_proofs

-----------------------------------------------------------------------------
(* The guest, and the steps of the seal.                                   *)

Heap(s) == PagesOf(Layout(s).sealed)

SealedAre(pg, s, p, n) ==
  /\ \A i \in Pages \ Heap(s) : pg[i].status = SealedStatus(s, p, n, i)
  /\ \E h \in {MB_ST_FREE, IF p \in {"started", "heap"} THEN MB_ST_RW ELSE MB_ST_R} :
       \A i \in Heap(s) : pg[i].status = h

LEMMA WhileSealing ==
  ASSUME BootInv, pc \in Sealing
  PROVE  /\ TypeOK /\ setup \in Setups /\ Place(setup, pc, idx) /\ ~ignored
         /\ phase = "live" /\ sealed = (pc = "sealed")
         /\ SealedAre(pages, setup, pc, idx)
<1>1. pc # "refused"
  BY DEF Sealing
<1>2. phase = "live"
  BY <1>1, Zenon DEF BootInv, BootState
<1>3. SealedAre(pages, setup, pc, idx)
  BY Zenon DEF BootInv, BootState, SealedAre, Heap, layout
<1>4. /\ TypeOK /\ setup \in Setups /\ Place(setup, pc, idx) /\ ~ignored
      /\ sealed = (pc = "sealed")
  BY Zenon DEF BootInv, BootState
<1>5. QED
  BY <1>2, <1>3, <1>4, Zenon

LEMMA StillSealing ==
  ASSUME setup \in Setups, ~ignored', phase' = "live",
         NEW p \in Sealing, sealed' = (p = "sealed"), NEW n, Goto(p, n), Place(setup, p, n),
         SealedAre(pages', setup, p, n)
  PROVE  BootState'
<1>1. setup' = setup /\ pc' = p /\ idx' = n
  BY DEF Goto
<1>2. p # "refused" /\ p # "new" /\ p \notin Setting \cup Segments \cup Stacks \cup {"loaded"}
  BY DEF Setting, Segments, Stacks, Sealing
<1>3. /\ phase' = IF pc' = "refused" THEN "freed" ELSE "live"
      /\ sealed' = (pc' = "sealed") /\ SealedAre(pages', setup', pc', idx')
  BY <1>1, <1>2, Zenon
<1>4. /\ \A i \in Pages \ PagesOf(layout'.sealed) :
           pages'[i].status = SealedStatus(setup', pc', idx', i)
      /\ \E h \in {MB_ST_FREE, IF pc' \in {"started", "heap"} THEN MB_ST_RW ELSE MB_ST_R} :
           \A i \in PagesOf(layout'.sealed) : pages'[i].status = h
  BY <1>3, Zenon DEF SealedAre, Heap, layout
<1>5. /\ setup' \in Setups /\ Place(setup', pc', idx')
      /\ pc' # "new" /\ pc' \notin Setting \cup Segments \cup Stacks \cup {"loaded"}
  BY <1>1, <1>2, Zenon
<1>6. QED
  BY <1>3, <1>4, <1>5, Zenon DEF BootState

(* Nothing is linked to the heap, and what is linked to the image has the  *)
(* protection of its segment.                                              *)
LEMMA LinkedIs ==
  ASSUME NEW s \in Setups, NEW i \in Pages
  PROVE  /\ i \in Heap(s) => LinkedStatus(s, i) = MB_ST_FREE
         /\ i \in PagesOf(Layout(s).elf) =>
              LinkedStatus(s, i) = SegmentStatus(s.image, Len(s.image.phdrs), i)
<1> DEFINE seg == SegmentStatus(s.image, Len(s.image.phdrs), i)
<1>1. \A n \in 1 .. 2 : i \in PagesOf(Guard(Stack(s, n))) => i \in PagesOf(Stack(s, n))
  BY StackIs
<1>2. (\A n \in 1 .. 2 : i \notin PagesOf(Stack(s, n))) => LinkedStatus(s, i) = seg
  BY <1>1, Zenon DEF LinkedStatus
<1>3. i \in Heap(s) => \A n \in 1 .. 2 : i \notin PagesOf(Stack(s, n))
  BY AreasApart, Zenon DEF Heap
<1>4. i \in PagesOf(Layout(s).elf) => \A n \in 1 .. 2 : i \notin PagesOf(Stack(s, n))
  BY AreasApart, Zenon
<1>5. i \in Heap(s) => seg = MB_ST_FREE
  <2>1. WellLinked(s.image)
    BY SetupIs
  <2>2. Len(s.image.phdrs) \in 0 .. Len(s.image.phdrs)
    BY <2>1, HeadersAre
  <2>3. seg # MB_ST_FREE => i \in PagesOf(Layout(s).elf)
    BY <2>2, SegmentsInImage, Zenon
  <2>4. QED
    BY <2>3, AreasApart, Zenon DEF Heap
<1> HIDE DEF seg
<1>6. QED
  BY <1>2, <1>3, <1>4, <1>5, Zenon DEF seg

LEMMA LoadDoneStep ==
  ASSUME BootInv, LoadDone
  PROVE  [Next]_vars /\ BootState'
<1> DEFINE s == setup
<1>1. pc = "loaded" /\ NoCall /\ Goto("started", idx)
  BY DEF LoadDone
<1>2. pc \in Loading /\ "started" \in Sealing /\ "started" # "sealed"
  BY <1>1 DEF Loading, Sealing
<1>3. /\ TypeOK /\ s \in Setups /\ ~ignored /\ phase = "live" /\ ~sealed
      /\ PagesAre(pages, mem, s, "loaded", idx)
  BY <1>1, <1>2, WhileLoading
<1>4. /\ [Next]_vars /\ ~ignored' /\ pages' = pages /\ phase' = phase /\ sealed' = sealed
  BY <1>1, <1>3, NoCallKeeps
<1>5. Place(s, "started", idx)
  BY DEF Place
<1>6. \A i \in Pages : pages'[i].status = LinkedStatus(s, i)
  <2>1. ASSUME NEW i \in Pages
        PROVE  pages[i].status = LinkedStatus(s, i)
    <3>1. pages[i].status = StatusAt(s, "loaded", idx, i)
      BY <1>3, Zenon DEF PagesAre
    <3>2. QED
      BY <1>3, <3>1, BetweenStacks
  <2>2. QED
    BY <1>4, <2>1, Zenon
<1>7. SealedAre(pages', s, "started", idx)
  <2>1. "started" \notin {"section", "sealed"}
    OBVIOUS
  <2>2. \A i \in Pages \ Heap(s) : pages'[i].status = SealedStatus(s, "started", idx, i)
    BY <1>6, <2>1, Zenon DEF SealedStatus
  <2>3. \A i \in Heap(s) : i \in Pages
    BY Zenon DEF Heap, PagesOf
  <2>4. \A i \in Heap(s) : pages'[i].status = MB_ST_FREE
    BY <1>3, <1>6, <2>3, LinkedIs
  <2>5. QED
    BY <2>2, <2>4, Zenon DEF SealedAre
<1>8. sealed' = ("started" = "sealed")
  <2>1. sealed' \in BOOLEAN
    BY <1>3, <1>4 DEF TypeOK
  <2>2. QED
    BY <1>2, <1>3, <1>4, <2>1
<1>9. QED
  BY <1>1, <1>2, <1>3, <1>4, <1>5, <1>7, <1>8, StillSealing

LEMMA SameStatus ==
  ASSUME NEW s, NEW p, NEW n, NEW pg, NEW qg, SealedAre(pg, s, p, n),
         \A i \in Pages : qg[i].status = pg[i].status
  PROVE  SealedAre(qg, s, p, n)
<1>1. \A i \in Heap(s) : i \in Pages
  BY DEF Heap, PagesOf
<1>2. \A i \in Pages \ Heap(s) : qg[i].status = SealedStatus(s, p, n, i)
  BY Zenon DEF SealedAre
<1>3. PICK h \in {MB_ST_FREE, IF p \in {"started", "heap"} THEN MB_ST_RW ELSE MB_ST_R} :
        \A i \in Heap(s) : pg[i].status = h
  BY Zenon DEF SealedAre
<1>4. \A i \in Heap(s) : qg[i].status = h
  BY <1>1, <1>3, Zenon
<1>5. QED
  BY <1>2, <1>4, Zenon DEF SealedAre

LEMMA GuestRunsStep ==
  ASSUME BootInv, GuestRuns
  PROVE  [Next]_vars /\ BootState'
<1> DEFINE s == setup
<1>1. pc \in {"started", "sealed"} /\ ignored' = ignored /\ Goto(pc, idx)
  BY DEF GuestRuns, Goto
<1>2. pc \in Sealing
  BY <1>1 DEF Sealing
<1>3. /\ TypeOK /\ s \in Setups /\ Place(s, pc, idx) /\ ~ignored
      /\ phase = "live" /\ sealed = (pc = "sealed")
      /\ SealedAre(pages, s, pc, idx)
  BY <1>2, WhileSealing
<1>4. ~ignored'
  BY <1>1, <1>3
<1>5. SUFFICES /\ Next /\ phase' = phase /\ sealed' = sealed
               /\ SealedAre(pages', s, pc, idx)
  <2>1. ASSUME Next, phase' = phase, sealed' = sealed, SealedAre(pages', s, pc, idx)
        PROVE  [Next]_vars /\ BootState'
    <3>1. sealed' = (pc = "sealed") /\ phase' = "live"
      BY <1>3, <2>1
    <3>2. QED
      BY <1>1, <1>2, <1>3, <1>4, <2>1, <3>1, StillSealing
  <2>2. QED
    BY <2>1, Zenon
<1>6. CASE \E j \in GuestPages : GuestWrite(j, GuestData) \/ TripWrite(j, GuestData)
  <2>1. PICK j \in GuestPages : GuestWrite(j, GuestData) \/ TripWrite(j, GuestData)
    BY <1>6
  <2>2. j \in Pages /\ GuestData \in Values
    BY ElfLoadAssumption
  <2>3. Next
    BY <2>1, <2>2, Zenon DEF Next, Guest
  <2>4. /\ \A i \in Pages : pages'[i].status = pages[i].status
        /\ phase' = phase /\ sealed' = sealed
    BY <1>3, <2>1, <2>2, WriteEffect, Zenon
  <2>5. QED
    BY <1>3, <2>3, <2>4, SameStatus
<1>7. CASE pc = "started" /\ MmapFixed(layout.sealed, "RW", TRUE)
  <2> DEFINE r == Layout(s).sealed
  <2>1. MmapFixed(r, "RW", TRUE) /\ r \in Ranges /\ "RW" \in Prots
    BY <1>3, <1>7, CallIsRange, ElfLoadAssumption, Zenon DEF layout, MB_PROT
  <2>2. Next
    BY <2>1, Zenon DEF Next, Mapping
  <2>3. set_protections(pages, PagesOf(r), prot_status("RW"))
    BY <2>1, Zenon DEF MmapFixed
  <2>4. /\ \A i \in Pages : pages'[i].status = IF i \in Heap(s) THEN prot_status("RW")
                                               ELSE pages[i].status
        /\ phase' = phase /\ sealed' = sealed
    BY <1>3, <2>3, StatusEffect DEF Heap
  <2>5. prot_status("RW") = MB_ST_RW
    BY DEF prot_status
  <2>6. \A i \in Heap(s) : i \in Pages
    BY DEF Heap, PagesOf
  <2>7. \A i \in Heap(s) : pages'[i].status = MB_ST_RW
    BY <2>4, <2>5, <2>6, Zenon
  <2>8. \A i \in Pages \ Heap(s) : pages'[i].status = SealedStatus(s, pc, idx, i)
    BY <1>3, <2>4, Zenon DEF SealedAre
  <2>9. MB_ST_RW \in {MB_ST_FREE, IF pc \in {"started", "heap"} THEN MB_ST_RW ELSE MB_ST_R}
    BY <1>7
  <2>10. SealedAre(pages', s, pc, idx)
    BY <2>7, <2>8, <2>9, Zenon DEF SealedAre
  <2>11. QED
    BY <2>2, <2>4, <2>10, Zenon
<1>8. CASE Activate \/ Deactivate
  <2>1. pages' = pages /\ phase' = phase /\ sealed' = sealed
    BY <1>8 DEF Activate, Deactivate
  <2>2. Next
    BY <1>8, Zenon DEF Next
  <2>3. QED
    BY <1>3, <2>1, <2>2, Zenon
<1>9. QED
  BY <1>6, <1>7, <1>8, Zenon DEF GuestRuns

LEMMA StartSealingStep ==
  ASSUME BootInv, StartSealing
  PROVE  [Next]_vars /\ BootState'
<1> DEFINE s == setup
<1>1. pc = "started" /\ ignored' = ignored /\ Goto("heap", 1)
  BY DEF StartSealing
<1>2. pc \in Sealing /\ "heap" \in Sealing
  BY <1>1 DEF Sealing
<1>3. /\ TypeOK /\ s \in Setups /\ ~ignored /\ phase = "live" /\ sealed = (pc = "sealed")
      /\ SealedAre(pages, s, "started", idx)
  BY <1>1, <1>2, WhileSealing
<1>4. ~ignored'
  BY <1>1, <1>3
<1>5. [Next]_vars /\ pages' = pages /\ phase' = phase /\ sealed' = sealed
  <2>1. CASE active
    <3>1. UNCHANGED vars
      BY <2>1, Zenon DEF StartSealing
    <3>2. QED
      BY <3>1 DEF vars
  <2>2. CASE ~active
    <3>1. Activate
      BY <2>2, Zenon DEF StartSealing
    <3>2. Next
      BY <3>1, Zenon DEF Next
    <3>3. QED
      BY <3>1, <3>2 DEF Activate
  <2>3. QED
    BY <2>1, <2>2, Zenon
<1>6. sealed' = ("heap" = "sealed")
  BY <1>1, <1>3, <1>5
<1>7. Place(s, "heap", 1)
  BY DEF Place
<1>8. SealedAre(pages', s, "heap", 1)
  <2>1. /\ "started" \notin {"section", "sealed"} /\ "heap" \notin {"section", "sealed"}
        /\ "started" \in {"started", "heap"} /\ "heap" \in {"started", "heap"}
    OBVIOUS
  <2>2. \A i \in Pages \ Heap(s) : pages'[i].status = SealedStatus(s, "heap", 1, i)
    BY <1>3, <1>5, <2>1, Zenon DEF SealedAre, SealedStatus
  <2>3. PICK h \in {MB_ST_FREE, MB_ST_RW} : \A i \in Heap(s) : pages[i].status = h
    BY <1>3, <2>1, Zenon DEF SealedAre
  <2>4. QED
    BY <1>5, <2>1, <2>2, <2>3, Zenon DEF SealedAre
<1>9. QED
  BY <1>2, <1>1, <1>3, <1>4, <1>5, <1>6, <1>7, <1>8, StillSealing

LEMMA SectionsAre ==
  ASSUME NEW im, WellLinked(im)
  PROVE  /\ Len(im.sections) \in Nat /\ DOMAIN im.sections = 1 .. Len(im.sections)
         /\ ReadOnly(im) \subseteq Kept(im) /\ Kept(im) \subseteq 1 .. Len(im.sections)
<1> DEFINE Section == [name : STRING, nobits : BOOLEAN, addr : Area]
<1>1. im.sections \in Seq(Section)
  BY Zenon DEF WellLinked
<1> HIDE DEF Section
<1>2. Len(im.sections) \in Nat /\ DOMAIN im.sections = 1 .. Len(im.sections)
  BY <1>1
<1>3. ReadOnly(im) \subseteq Kept(im) /\ Kept(im) \subseteq DOMAIN im.sections
  BY Zenon DEF ReadOnly, Kept
<1>4. QED
  BY <1>2, <1>3, Zenon

LEMMA NoSection ==
  ASSUME NEW im, WellLinked(im)
  PROVE  SealedPages(im, 1) = {}
<1>1. \A j \in ReadOnly(im) : ~(j < 1)
  BY SectionsAre
<1>2. {j \in ReadOnly(im) : j < 1} = {}
  BY <1>1, Zenon
<1>3. QED
  BY <1>2, Zenon DEF SealedPages

(* One section more.                                                       *)
LEMMA NextSection ==
  ASSUME NEW im, WellLinked(im), NEW n \in 1 .. Len(im.sections), NEW i
  PROVE  /\ n \in ReadOnly(im) =>
              (i \in SealedPages(im, n + 1) <=> i \in SealedPages(im, n) \/ i \in PagesOf(SealPages(im, n)))
         /\ n \notin ReadOnly(im) => SealedPages(im, n + 1) = SealedPages(im, n)
<1>1. ReadOnly(im) \subseteq Int /\ n \in Int
  BY SectionsAre
<1>2. \A j \in ReadOnly(im) : j < n + 1 <=> (j < n \/ j = n)
  BY <1>1
<1>3. n \notin ReadOnly(im) => {j \in ReadOnly(im) : j < n + 1} = {j \in ReadOnly(im) : j < n}
  BY <1>2, Zenon
<1>4. n \notin ReadOnly(im) => SealedPages(im, n + 1) = SealedPages(im, n)
  BY <1>3, Zenon DEF SealedPages
<1>5. \A k : i \in SealedPages(im, k) <=> \E j \in ReadOnly(im) : j < k /\ i \in PagesOf(SealPages(im, j))
  BY Zenon DEF SealedPages
<1>6. n \in ReadOnly(im) =>
        (i \in SealedPages(im, n + 1) <=> i \in SealedPages(im, n) \/ i \in PagesOf(SealPages(im, n)))
  BY <1>2, <1>5, Zenon
<1>7. QED
  BY <1>4, <1>6, Zenon

LEMMA SealHeapStep ==
  ASSUME BootInv, SealHeap
  PROVE  [Next]_vars /\ BootState'
<1> DEFINE s == setup
           r == Layout(s).sealed
<1>1. /\ pc = "heap" /\ Goto("section", 1)
      /\ IF r.size # 0 /\ NoneFree(Heap(s)) THEN Protects(r, "R") ELSE NoCall
  BY DEF SealHeap, layout, Heap
<1>2. /\ pc \in Sealing /\ "section" \in Sealing /\ "section" # "sealed"
      /\ "heap" \notin {"section", "sealed"} /\ "heap" \in {"started", "heap"}
      /\ "section" \notin {"started", "heap"}
  BY <1>1 DEF Sealing
<1>3. /\ TypeOK /\ s \in Setups /\ ~ignored /\ phase = "live" /\ sealed = (pc = "sealed")
      /\ SealedAre(pages, s, "heap", idx)
  BY <1>1, <1>2, WhileSealing, Zenon
<1>4. WellLinked(s.image)
  BY <1>3, SetupIs
<1>5. Place(s, "section", 1)
  <2>1. 1 \in 1 .. Len(s.image.sections) + 1
    BY <1>4, SectionsAre
  <2>2. QED
    BY <2>1, Zenon DEF Place
<1>6. /\ \A i \in Pages \ Heap(s) : pages[i].status = LinkedStatus(s, i)
      /\ \A i \in Pages : SealedStatus(s, "section", 1, i) = LinkedStatus(s, i)
  <2>1. SealedPages(s.image, 1) = {}
    BY <1>4, NoSection
  <2>2. \A i : i \notin SealedPages(s.image, 1)
    BY <2>1, Zenon
  <2>3. \A i \in Pages : SealedStatus(s, "section", 1, i) = LinkedStatus(s, i)
    BY <2>2, Zenon DEF SealedStatus
  <2>4. \A i \in Pages : SealedStatus(s, "heap", idx, i) = LinkedStatus(s, i)
    BY <1>2, Zenon DEF SealedStatus
  <2>5. QED
    BY <1>3, <2>3, <2>4, Zenon DEF SealedAre
<1>7. PICK h \in {MB_ST_FREE, MB_ST_RW} : \A i \in Heap(s) : pages[i].status = h
  BY <1>2, <1>3, Zenon DEF SealedAre
<1>8. \A i \in Heap(s) : i \in Pages
  BY DEF Heap, PagesOf
<1>9. r \in Ranges /\ Whole(r) /\ InBlock(r) /\ r \in Area
  BY <1>3, LayoutIs, CallIsRange, Zenon DEF Whole
<1>10. /\ [Next]_vars /\ ~ignored' /\ phase' = phase /\ sealed' = sealed
       /\ \A i \in Pages \ Heap(s) : pages'[i].status = pages[i].status
       /\ \/ \A i \in Heap(s) : pages'[i].status = MB_ST_FREE
          \/ \A i \in Heap(s) : pages'[i].status = MB_ST_R
  <2>1. CASE r.size # 0 /\ NoneFree(Heap(s))
    <3>1. Protects(r, "R") /\ NoneFree(PagesOf(r))
      BY <1>1, <2>1, Zenon DEF Heap
    <3>2. "R" \in MB_PROT /\ prot_status("R") = MB_ST_R
      BY DEF MB_PROT, prot_status
    <3>3. /\ [Next]_vars /\ ~ignored' /\ phase' = phase /\ sealed' = sealed
          /\ \A i \in Pages : pages'[i].status = IF i \in Heap(s) THEN prot_status("R")
                                                 ELSE pages[i].status
      BY <1>3, <1>9, <2>1, <3>1, <3>2, ProtectsTaken, Zenon DEF Heap
    <3>4. \A i \in Heap(s) : pages'[i].status = MB_ST_R
      BY <1>8, <3>2, <3>3, Zenon
    <3>5. \A i \in Pages \ Heap(s) : pages'[i].status = pages[i].status
      BY <3>3, Zenon
    <3>6. QED
      BY <3>3, <3>4, <3>5, Zenon
  <2>2. CASE ~(r.size # 0 /\ NoneFree(Heap(s)))
    <3>1. NoCall
      BY <1>1, <2>2, Zenon
    <3>2. [Next]_vars /\ ~ignored' /\ phase' = phase /\ sealed' = sealed /\ pages' = pages
      BY <1>3, <3>1, NoCallKeeps
    <3>3. \A i \in Heap(s) : pages[i].status = MB_ST_FREE
      <4>1. CASE r.size = 0
        BY <1>9, <4>1, EmptyHasNoPages, Zenon DEF Heap
      <4>2. CASE ~NoneFree(Heap(s))
        <5>1. h = MB_ST_FREE
          BY <1>7, <4>2, Zenon DEF NoneFree
        <5>2. QED
          BY <1>7, <5>1
      <4>3. QED
        BY <2>2, <4>1, <4>2, Zenon
    <3>4. QED
      BY <3>2, <3>3, Zenon
  <2>3. QED
    BY <2>1, <2>2, Zenon
<1>11. SealedAre(pages', s, "section", 1)
  <2>1. \A i \in Pages \ Heap(s) : pages'[i].status = SealedStatus(s, "section", 1, i)
    BY <1>6, <1>10, Zenon
  <2>2. QED
    BY <1>2, <1>10, <2>1, Zenon DEF SealedAre
<1>12. sealed' = ("section" = "sealed") /\ phase' = "live"
  BY <1>1, <1>3, <1>10
<1>13. QED
  BY <1>1, <1>2, <1>3, <1>5, <1>10, <1>11, <1>12, StillSealing

LEMMA SealSectionStep ==
  ASSUME BootInv, SealSection
  PROVE  [Next]_vars /\ BootState'
<1> DEFINE s == setup
           im == s.image
           n == idx
           r == SealPages(im, n)
<1>1. /\ pc = "section" /\ n \in DOMAIN im.sections /\ Goto("section", n + 1)
      /\ IF n \in ReadOnly(im) THEN Protects(r, "R") ELSE NoCall
  BY DEF SealSection, image
<1>2. pc \in Sealing /\ "section" \in Sealing /\ "section" \in {"section", "sealed"}
  BY <1>1 DEF Sealing
<1>3. /\ TypeOK /\ s \in Setups /\ ~ignored /\ phase = "live" /\ sealed = (pc = "sealed")
      /\ SealedAre(pages, s, "section", n)
  BY <1>1, <1>2, WhileSealing
<1>4. WellLinked(im)
  BY <1>3, SetupIs
<1>5. n \in 1 .. Len(im.sections) /\ n + 1 \in 1 .. Len(im.sections) + 1
  <2>1. Len(im.sections) \in Nat /\ n \in 1 .. Len(im.sections)
    BY <1>1, <1>4, SectionsAre
  <2> HIDE DEF n, im
  <2>2. QED
    BY <2>1
<1>6. Place(s, "section", n + 1)
  BY <1>5, Zenon DEF Place
<1>7. CASE n \in ReadOnly(im)
  <2>1. n \in Kept(im)
    BY <1>4, <1>7, SectionsAre
  <2>2. /\ r \in Ranges /\ Whole(r) /\ InBlock(r) /\ r.size # 0
        /\ PagesOf(r) \subseteq PagesOf(Layout(s).elf)
        /\ \A i \in PagesOf(r) : SegmentsOf(im, Len(im.phdrs), i) # {}
    BY <1>3, <2>1, SectionIs, Zenon DEF SealPages
  <2>3. \A i \in PagesOf(r) : i \in Pages
    BY DEF PagesOf
  <2>4. \A i \in PagesOf(r) : i \notin Heap(s)
    BY <1>3, <2>2, <2>3, AreasApart, Zenon DEF Heap
  <2>5. "R" \in MB_PROT /\ prot_status("R") = MB_ST_R /\ MB_ST_R # MB_ST_FREE
    BY DEF MB_PROT, prot_status, MB_ST_R, MB_ST_FREE
  <2>6. NoneFree(PagesOf(r))
    <3>1. ASSUME NEW i \in PagesOf(r)
          PROVE  pages[i].status # MB_ST_FREE
      <4>1. pages[i].status = SealedStatus(s, "section", n, i)
        BY <1>3, <2>3, <2>4, Zenon DEF SealedAre
      <4>2. SealedStatus(s, "section", n, i) \in {MB_ST_R, LinkedStatus(s, i)}
        BY Zenon DEF SealedStatus
      <4>3. LinkedStatus(s, i) = SegmentStatus(im, Len(im.phdrs), i)
        BY <1>3, <2>2, <2>3, LinkedIs, Zenon
      <4>4. Len(im.phdrs) \in 0 .. Len(im.phdrs)
        BY <1>4, HeadersAre
      <4>5. SegmentStatus(im, Len(im.phdrs), i) # MB_ST_FREE
        BY <1>4, <2>2, <4>4, SegmentIsMapped, Zenon
      <4>6. QED
        BY <2>5, <4>1, <4>2, <4>3, <4>5, Zenon
    <3>2. QED
      BY <3>1, Zenon DEF NoneFree
  <2>7. Protects(r, "R")
    BY <1>1, <1>7, Zenon
  <2> HIDE DEF r
  <2>8. /\ [Next]_vars /\ ~ignored' /\ phase' = phase /\ sealed' = sealed
        /\ \A i \in Pages : pages'[i].status = IF i \in PagesOf(r) THEN prot_status("R")
                                               ELSE pages[i].status
    BY <1>3, <2>2, <2>5, <2>6, <2>7, ProtectsTaken, Zenon
  <2>9. SealedAre(pages', s, "section", n + 1)
    <3>1. ASSUME NEW i \in Pages \ Heap(s)
          PROVE  pages'[i].status = SealedStatus(s, "section", n + 1, i)
      <4>1. pages[i].status = SealedStatus(s, "section", n, i)
        BY <1>3, Zenon DEF SealedAre
      <4>2. i \in SealedPages(im, n + 1) <=> i \in SealedPages(im, n) \/ i \in PagesOf(r)
        BY <1>4, <1>5, <1>7, NextSection, Zenon DEF r
      <4>3. SealedStatus(s, "section", n + 1, i) = IF i \in PagesOf(r) THEN MB_ST_R
                                                   ELSE SealedStatus(s, "section", n, i)
        BY <1>2, <4>2, Zenon DEF SealedStatus
      <4>4. QED
        BY <2>5, <2>8, <4>1, <4>3, Zenon
    <3>2. PICK h \in {MB_ST_FREE, IF "section" \in {"started", "heap"} THEN MB_ST_RW ELSE MB_ST_R} :
            \A i \in Heap(s) : pages[i].status = h
      BY <1>3, Zenon DEF SealedAre
    <3>3. \A i \in Heap(s) : i \in Pages /\ i \notin PagesOf(r)
      <4>1. \A i \in Heap(s) : i \in Pages
        BY DEF Heap, PagesOf
      <4>2. QED
        BY <2>4, <4>1, Zenon
    <3>4. \A i \in Heap(s) : pages'[i].status = h
      BY <2>8, <3>2, <3>3, Zenon
    <3>5. QED
      BY <3>1, <3>4, Zenon DEF SealedAre
  <2>10. sealed' = ("section" = "sealed") /\ phase' = "live"
    BY <1>1, <1>3, <2>8
  <2>11. QED
    BY <1>1, <1>2, <1>3, <1>6, <2>8, <2>9, <2>10, StillSealing
<1>8. CASE n \notin ReadOnly(im)
  <2>1. NoCall
    BY <1>1, <1>8, Zenon
  <2>2. [Next]_vars /\ ~ignored' /\ phase' = phase /\ sealed' = sealed /\ pages' = pages
    BY <1>3, <2>1, NoCallKeeps
  <2>3. SealedPages(im, n + 1) = SealedPages(im, n)
    BY <1>4, <1>5, <1>8, NextSection, Zenon
  <2>4. \A i : SealedStatus(s, "section", n + 1, i) = SealedStatus(s, "section", n, i)
    BY <2>3, Zenon DEF SealedStatus
  <2>5. SealedAre(pages', s, "section", n + 1)
    BY <1>3, <2>2, <2>4, Zenon DEF SealedAre
  <2>6. sealed' = ("section" = "sealed") /\ phase' = "live"
    BY <1>1, <1>3, <2>2
  <2>7. QED
    BY <1>1, <1>2, <1>3, <1>6, <2>2, <2>5, <2>6, StillSealing
<1>9. QED
  BY <1>7, <1>8, Zenon

LEMMA EndSealingStep ==
  ASSUME BootInv, EndSealing
  PROVE  [Next]_vars /\ BootState'
<1> DEFINE s == setup
           n == idx
<1>1. /\ pc = "section" /\ n \notin DOMAIN s.image.sections /\ Seal /\ ignored' = ignored
      /\ Goto("sealed", n)
  BY DEF EndSealing, image
<1>2. /\ pc \in Sealing /\ "sealed" \in Sealing
      /\ \A p \in {"section", "sealed"} : p \notin {"started", "heap"}
  BY <1>1 DEF Sealing
<1>3. /\ TypeOK /\ s \in Setups /\ ~ignored /\ phase = "live" /\ Place(s, "section", n)
      /\ SealedAre(pages, s, "section", n)
  BY <1>1, <1>2, WhileSealing
<1>4. Next
  BY <1>1, Zenon DEF Next, Loader
<1>5. /\ \A i \in Pages : pages'[i].status = pages[i].status
      /\ phase' = phase /\ sealed' = TRUE
  BY <1>1, <1>3, SealEffect
<1>6. Place(s, "sealed", n)
  <2> DEFINE N == Len(s.image.sections)
  <2>1. WellLinked(s.image)
    BY <1>3, SetupIs
  <2>2. N \in Nat /\ n \notin 1 .. N
    BY <1>1, <2>1, SectionsAre
  <2>3. n \in 1 .. N + 1
    BY <1>3 DEF Place, Setting, Stacks
  <2> HIDE DEF N, n
  <2>4. n = N + 1
    BY <2>2, <2>3
  <2>5. QED
    BY <2>4, Zenon DEF Place, N
<1>7. SealedAre(pages', s, "section", n)
  BY <1>3, <1>5, SameStatus
<1>8. \A i : SealedStatus(s, "section", n, i) = SealedStatus(s, "sealed", n, i)
  BY Zenon DEF SealedStatus
<1>9. SealedAre(pages', s, "sealed", n)
  BY <1>2, <1>7, <1>8, Zenon DEF SealedAre
<1>10. ~ignored' /\ phase' = "live" /\ sealed' = ("sealed" = "sealed")
  BY <1>1, <1>3, <1>5, Zenon
<1>11. QED
  BY <1>1, <1>2, <1>3, <1>4, <1>6, <1>9, <1>10, StillSealing

-----------------------------------------------------------------------------
(* The theorems.                                                           *)

LEMMA InitType ==
  ASSUME Init
  PROVE  TypeOK
<1>1. Zero \in Values /\ MB_ST_FREE \in MB_ST
  BY MemBlockAssumption DEF MB_ST
<1>2. QED
  BY <1>1, Zenon DEF Init, TypeOK, PageRecord, MB_PROT

LEMMA BootInvInit ==
  ASSUME BootInit
  PROVE  BootInv
<1>1. Init /\ setup \in Setups /\ pc = "new" /\ idx = 1 /\ ~ignored
  BY DEF BootInit
<1>2. TypeOK
  BY <1>1, InitType
<1>3. pc \in Setting /\ pc \notin Sealing /\ pc # "refused" /\ pc # "sealed" /\ pc \in {"new", "invis"}
  BY <1>1 DEF Setting, Sealing
<1>4. phase = "live" /\ sealed = FALSE /\ active = FALSE
  BY <1>1 DEF Init
<1>5. ASSUME NEW i \in Pages
      PROVE  /\ pages[i].status = StatusAt(setup, pc, idx, i)
             /\ pages[i].invisible = HiddenAt(setup, pc, idx, i)
             /\ mem[i] = ContentAt(setup, pc, idx, i)
  <2>1. pages[i].status = MB_ST_FREE /\ pages[i].invisible = FALSE /\ mem[i] = Zero
    BY <1>1 DEF Init
  <2>2. HiddenAt(setup, pc, idx, i) = FALSE
    <3>1. HiddenAt(setup, "new", idx, i) = FALSE
      BY HiddenSoFar, Zenon
    <3>2. QED
      BY <1>1, <3>1
  <2>3. QED
    BY <1>3, <2>1, <2>2, AtSetting, Zenon
<1>6. sealed = (pc = "sealed")
  BY <1>3, <1>4, Zenon
<1>7. ~active /\ Place(setup, pc, idx)
  BY <1>3, <1>4 DEF Place
<1>8. phase = IF pc = "refused" THEN "freed" ELSE "live"
  BY <1>3, <1>4, Zenon
<1>9. QED
  BY <1>1, <1>2, <1>3, <1>5, <1>6, <1>7, <1>8, Zenon DEF BootInv, BootState

LEMMA BootStep ==
  ASSUME BootInv, [BootNext]_bvars
  PROVE  [Next]_vars /\ BootInv'
<1>1. [Next]_vars /\ BootState'
  <2>1. CASE BootNext
    BY <2>1, StartLoadingStep, HideInvisStep, HideArenaStep, SkipHeaderStep, MapSegmentStep,
       CopySegmentStep, ProtectSegmentStep, FillInfoStep, MapStackStep, GuardStackStep,
       HideStackStep, LoadRefusedStep, LoadDoneStep, GuestRunsStep, StartSealingStep,
       SealHeapStep, SealSectionStep, EndSealingStep, Zenon DEF BootNext
  <2>2. CASE UNCHANGED bvars
    <3>1. /\ UNCHANGED vars /\ setup' = setup /\ pc' = pc /\ idx' = idx /\ ignored' = ignored
          /\ pages' = pages /\ mem' = mem /\ phase' = phase /\ sealed' = sealed /\ active' = active
      BY <2>2 DEF bvars, vars
    <3>2. BootState'
      BY <3>1, Zenon DEF BootInv, BootState, layout
    <3>3. QED
      BY <3>1, <3>2
  <2>3. QED
    BY <2>1, <2>2
<1>2. TypeOK'
  BY <1>1, TypeStep, Zenon DEF BootInv
<1>3. QED
  BY <1>1, <1>2, Zenon DEF BootInv

(* BootInv is an invariant: in every state of mb_host_new, mb_elf_load,    *)
(* the guest and mb_elf_seal the pages are what the place that the loader  *)
(* has come to says.                                                       *)
THEOREM BootInvariance == BootSpec => []BootInv
<1>1. BootInit => BootInv
  BY BootInvInit
<1>2. BootInv /\ [BootNext]_bvars => BootInv'
  BY BootStep
<1>3. QED
  BY <1>1, <1>2, PTL DEF BootSpec

(* None of the calls whose result mb_elf_load and mb_elf_seal throw away   *)
(* is refused, for any well-linked image and any sizes.                    *)
THEOREM NoCallIsLost == BootSpec => []CallsAreTaken
<1>1. BootInv => CallsAreTaken
  BY Zenon DEF BootInv, BootState, CallsAreTaken
<1>2. QED
  BY <1>1, BootInvariance, PTL

(* When mb_elf_load is done, status, visibility and content of every page  *)
(* are those that the image was linked with.                               *)
THEOREM LoadsAsLinked == BootSpec => []LoadedAsLinked
<1>1. ASSUME BootInv PROVE LoadedAsLinked
  <2>1. SUFFICES ASSUME pc = "loaded", NEW i \in Pages
                 PROVE  /\ pages[i].status = LinkedStatus(setup, i)
                        /\ pages[i].invisible = HiddenPage(setup, i)
                        /\ mem[i] = LinkedContent(setup.image, i)
    BY Zenon DEF LoadedAsLinked, image
  <2>2. pc \in Loading
    BY <2>1 DEF Loading
  <2>3. setup \in Setups /\ PagesAre(pages, mem, setup, "loaded", idx)
    BY <1>1, <2>1, <2>2, WhileLoading
  <2>4. /\ pages[i].status = StatusAt(setup, "loaded", idx, i)
        /\ pages[i].invisible = HiddenAt(setup, "loaded", idx, i)
        /\ mem[i] = ContentAt(setup, "loaded", idx, i)
    BY <2>3, Zenon DEF PagesAre
  <2>5. StatusAt(setup, "loaded", idx, i) = LinkedStatus(setup, i)
    BY <2>3, BetweenStacks
  <2>6. HiddenAt(setup, "loaded", idx, i) = HiddenPage(setup, i)
    BY HiddenSoFar, Zenon
  <2>7. ContentAt(setup, "loaded", idx, i) = LinkedContent(setup.image, i)
    BY ContentDone, Zenon
  <2>8. QED
    BY <2>4, <2>5, <2>6, <2>7, Zenon
<1>2. QED
  BY <1>1, BootInvariance, PTL

(* After the seal the read-only sections and the sealed heap cannot be     *)
(* written, and no other page has lost what it was linked to grant.        *)
THEOREM SealIsExact == BootSpec => []SealTakesExactly
<1>1. ASSUME BootInv, pc = "sealed"
      PROVE  LET ro == UNION {Holding(image.sections[j].addr) : j \in ReadOnly(image)}
                 heap == PagesOf(layout.sealed)
             IN  /\ \A i \in heap : pages[i].status \in {MB_ST_FREE, MB_ST_R}
                 /\ \A i \in Pages \ heap :
                      pages[i].status = IF i \in ro THEN MB_ST_R ELSE LinkedStatus(setup, i)
                 /\ \A j \in Kept(image) \ ReadOnly(image) : \A i \in Holding(image.sections[j].addr) :
                      pages[i].status = LinkedStatus(setup, i)
  <2> DEFINE s == setup
             im == s.image
             n == idx
             ro == UNION {Holding(im.sections[j].addr) : j \in ReadOnly(im)}
  <2>1. pc \in Sealing /\ "sealed" \notin {"started", "heap"} /\ "sealed" \in {"section", "sealed"}
    BY <1>1 DEF Sealing
  <2>2. s \in Setups /\ SealedAre(pages, s, "sealed", n) /\ Place(s, "sealed", n)
    BY <1>1, <2>1, WhileSealing
  <2>3. WellLinked(im)
    BY <2>2, SetupIs
  <2>4. n = Len(im.sections) + 1
    BY <2>2 DEF Place, Setting, Stacks
  <2>5. /\ ReadOnly(im) \subseteq Kept(im)
        /\ \A j \in ReadOnly(im) : j < n
    BY <2>3, <2>4, SectionsAre
  <2>6. \A j \in Kept(im) : Holding(im.sections[j].addr) = PagesOf(SectionPages(im, j))
    BY <2>2, SectionIs, HoldingIs, Zenon DEF SectionPages
  <2>7. ro = SealedPages(im, n)
    <3>1. {j \in ReadOnly(im) : j < n} = ReadOnly(im)
      BY <2>5, Zenon
    <3>2. \A i : i \in ro <=> \E j \in ReadOnly(im) : i \in PagesOf(SectionPages(im, j))
      BY <2>5, <2>6, Zenon
    <3>3. \A i : i \in SealedPages(im, n) <=> \E j \in ReadOnly(im) : i \in PagesOf(SectionPages(im, j))
      BY <3>1, Zenon DEF SealedPages, SealPages
    <3> HIDE DEF ro
    <3>4. QED
      BY <3>2, <3>3, Zenon
  <2> HIDE DEF ro
  <2>8. \A i \in Heap(s) : pages[i].status \in {MB_ST_FREE, MB_ST_R}
    BY <2>1, <2>2, Zenon DEF SealedAre
  <2>9. \A i \in Pages \ Heap(s) :
          pages[i].status = IF i \in ro THEN MB_ST_R ELSE LinkedStatus(s, i)
    BY <2>1, <2>2, <2>7, Zenon DEF SealedAre, SealedStatus
  <2>10. ASSUME NEW j \in Kept(im) \ ReadOnly(im), NEW i \in Holding(im.sections[j].addr)
         PROVE  pages[i].status = LinkedStatus(s, i)
    <3>1. i \in PagesOf(SectionPages(im, j)) /\ i \in Pages
      BY <2>6 DEF PagesOf
    <3>2. i \notin Heap(s)
      BY <2>2, <3>1, SectionIs, AreasApart, Zenon DEF Heap
    <3>3. i \notin ro
      <4>1. SUFFICES ASSUME NEW k \in ReadOnly(im), i \in PagesOf(SectionPages(im, k))
                     PROVE  FALSE
        BY <2>5, <2>6, Zenon DEF ro
      <4>2. SectionPages(im, k) \in Area /\ SectionPages(im, j) \in Area
        BY <2>2, <2>5, SectionIs, Zenon DEF Whole
      <4>3. Overlap(SectionPages(im, k), SectionPages(im, j))
        BY <3>1, <4>1, <4>2, PagesOverlap
      <4>4. QED
        BY <2>3, <4>3, Zenon DEF WellLinked
    <3>4. QED
      BY <2>9, <3>1, <3>2, <3>3, Zenon
  <2>11. QED
    BY <2>8, <2>9, <2>10, Zenon DEF ro, Heap, layout, image
<1>2. BootInv => SealTakesExactly
  BY <1>1, Zenon DEF SealTakesExactly
<1>3. QED
  BY <1>2, BootInvariance, PTL

(* The loader makes no call that the block's specification leaves out, so  *)
(* every theorem about MemBlock holds of a block that a guest is loaded    *)
(* into and sealed.                                                        *)
THEOREM LoaderKeepsToBlock == BootSpec => KeepsToBlock
<1>1. BootInit => Init
  BY DEF BootInit
<1>2. BootInv /\ [BootNext]_bvars => [Next]_vars
  BY BootStep
<1>3. QED
  BY <1>1, <1>2, BootInvariance, PTL DEF BootSpec, KeepsToBlock

(* So loading and sealing a guest are steps of the machine that the block  *)
(* implements: throughout, no page can be written without its being seen,  *)
(* what is clean is as the baseline has it, and what was restorable stays  *)
(* restorable.                                                             *)
THEOREM LoadingKeepsTheBlock ==
  ASSUME StackDiscipline
  PROVE  BootSpec => /\ ImplementsMachine
                     /\ [](NoUntrackedWrite /\ CleanIsBaseline /\ BaselineKept)
<1>1. BootSpec => Spec
  BY LoaderKeepsToBlock, PTL DEF Spec, KeepsToBlock
<1>2. Spec => /\ ImplementsMachine
              /\ []NoUntrackedWrite /\ []CleanIsBaseline /\ []BaselineKept
  BY BlockImplementsMachine, NoWriteIsMissed, CleanPagesAreBaseline, BaselinesSurvive
<1>3. QED
  BY <1>1, <1>2, PTL
====
