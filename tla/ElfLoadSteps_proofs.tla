------------------------ MODULE ElfLoadSteps_proofs -------------------------
(***************************************************************************)
(* Each step of the loader is a step of the block that is not refused, and *)
(* leaves the pages as the place in the program says.                      *)
(***************************************************************************)
EXTENDS ElfLoadParts_proofs

-----------------------------------------------------------------------------
(* The steps of the loader.                                                *)

Loading == Setting \cup Segments \cup Stacks \cup {"loaded"}

PagesAre(pg, m, s, p, n) ==
  \A i \in Pages :
    /\ pg[i].status = StatusAt(s, p, n, i)
    /\ pg[i].invisible = HiddenAt(s, p, n, i)
    /\ m[i] = ContentAt(s, p, n, i)

LEMMA WhileLoading ==
  ASSUME BootInv, pc \in Loading
  PROVE  /\ TypeOK /\ setup \in Setups /\ Place(setup, pc, idx) /\ ~ignored
         /\ phase = "live" /\ ~sealed
         /\ PagesAre(pages, mem, setup, pc, idx)
<1>1. pc # "refused" /\ pc # "sealed"
  BY DEF Loading, Setting, Segments, Stacks
<1>2. phase = "live"
  BY <1>1, Zenon DEF BootInv, BootState
<1>3. sealed = (pc = "sealed")
  BY Zenon DEF BootInv, BootState
<1>4. ~sealed
  BY <1>1, <1>3, Zenon
<1>5. PagesAre(pages, mem, setup, pc, idx)
  BY Zenon DEF BootInv, BootState, PagesAre, Loading
<1>6. TypeOK /\ setup \in Setups /\ Place(setup, pc, idx) /\ ~ignored
  BY Zenon DEF BootInv, BootState
<1>7. QED
  BY <1>2, <1>4, <1>5, <1>6, Zenon

LEMMA StillLoading ==
  ASSUME TypeOK, setup \in Setups, ~ignored', phase' = "live", ~sealed, sealed' = sealed,
         NEW p \in Loading \ {"new"}, NEW n, Goto(p, n), Place(setup, p, n),
         PagesAre(pages', mem', setup, p, n)
  PROVE  BootState'
<1>1. setup' = setup /\ pc' = p /\ idx' = n
  BY DEF Goto
<1>2. p # "refused" /\ p # "sealed" /\ p # "new" /\ p \notin Sealing
  BY DEF Loading, Setting, Segments, Stacks, Sealing
<1>3. phase' = IF pc' = "refused" THEN "freed" ELSE "live"
  BY <1>1, <1>2, Zenon
<1>4. sealed' = (pc' = "sealed")
  BY <1>1, <1>2 DEF TypeOK
<1>5. \A i \in Pages :
        /\ pages'[i].status = StatusAt(setup', pc', idx', i)
        /\ pages'[i].invisible = HiddenAt(setup', pc', idx', i)
        /\ mem'[i] = ContentAt(setup', pc', idx', i)
  BY <1>1, Zenon DEF PagesAre
<1>6. /\ setup' \in Setups /\ Place(setup', pc', idx')
      /\ pc' # "new" /\ pc' \notin Sealing
  BY <1>1, <1>2, Zenon
<1>7. QED
  BY <1>3, <1>4, <1>5, <1>6, Zenon DEF BootState

LEMMA StartLoadingStep ==
  ASSUME BootInv, StartLoading
  PROVE  [Next]_vars /\ BootState'
<1>1. pc = "new" /\ Activate /\ ignored' = ignored /\ Goto("invis", 1)
  BY DEF StartLoading
<1>2. pc \in Loading /\ "new" \in Setting /\ "invis" \in Setting /\ "invis" \in Loading \ {"new"}
  BY <1>1 DEF Loading, Setting
<1>3. /\ TypeOK /\ setup \in Setups /\ ~ignored /\ phase = "live" /\ ~sealed
      /\ PagesAre(pages, mem, setup, "new", idx)
  BY <1>1, <1>2, WhileLoading
<1>4. Next
  BY <1>1, Zenon DEF Next
<1>5. pages' = pages /\ mem' = mem /\ phase' = "live" /\ sealed' = sealed /\ ~ignored'
  BY <1>1, <1>3 DEF Activate
<1>6. PagesAre(pages', mem', setup, "invis", 1)
  <2>1. ASSUME NEW i \in Pages
        PROVE  /\ pages'[i].status = StatusAt(setup, "invis", 1, i)
               /\ pages'[i].invisible = HiddenAt(setup, "invis", 1, i)
               /\ mem'[i] = ContentAt(setup, "invis", 1, i)
    <3>1. /\ pages[i].status = StatusAt(setup, "new", idx, i)
          /\ pages[i].invisible = HiddenAt(setup, "new", idx, i)
          /\ mem[i] = ContentAt(setup, "new", idx, i)
      BY <1>3, Zenon DEF PagesAre
    <3>2. HiddenAt(setup, "new", idx, i) = FALSE /\ HiddenAt(setup, "invis", 1, i) = FALSE
      BY HiddenSoFar, Zenon
    <3>3. QED
      BY <1>2, <1>5, <3>1, <3>2, AtSetting, Zenon
  <2>2. QED
    BY <2>1, Zenon DEF PagesAre
<1>7. Place(setup, "invis", 1)
  BY <1>2 DEF Place
<1>8. QED
  BY <1>1, <1>2, <1>3, <1>4, <1>5, <1>6, <1>7, StillLoading

(* Sections lie in segments.                                               *)
LEMMA SectionIs ==
  ASSUME NEW s \in Setups, NEW j \in Kept(s.image)
  PROVE  /\ s.image.sections[j].addr \in Area /\ s.image.sections[j].addr.size # 0
         /\ Whole(SectionPages(s.image, j)) /\ InBlock(SectionPages(s.image, j))
         /\ SectionPages(s.image, j).size # 0 /\ SectionPages(s.image, j) \in Ranges
         /\ PagesOf(SectionPages(s.image, j)) \subseteq PagesOf(Layout(s).elf)
         /\ \A i \in PagesOf(SectionPages(s.image, j)) :
              SegmentsOf(s.image, Len(s.image.phdrs), i) # {}
<1> DEFINE a == s.image.sections[j].addr
<1>1. WellLinked(s.image)
  BY SetupIs
<1>2. j \in DOMAIN s.image.sections
  BY Zenon DEF Kept
<1>3. a \in Area
  <2> DEFINE Section == [name : STRING, nobits : BOOLEAN, addr : Area]
  <2>1. s.image.sections \in Seq(Section)
    BY <1>1, Zenon DEF WellLinked
  <2>2. \A x \in Section : x.addr \in Area
    OBVIOUS
  <2> HIDE DEF Section
  <2>3. s.image.sections[j] \in Section
    BY <1>2, <2>1
  <2>4. QED
    BY <2>2, <2>3
<1>4. InSegment(s.image, a)
  BY <1>1, Zenon DEF WellLinked
<1>5. a.size # 0
  BY <1>4, Zenon DEF InSegment
<1>6. SectionPages(s.image, j) = align_expand(a)
  BY Zenon DEF SectionPages
<1>7. SectionPages(s.image, j) \in Ranges
  BY CallIsRange
<1> HIDE DEF a
<1>8. QED
  BY <1>3, <1>4, <1>5, <1>6, <1>7, InSegmentIs, Zenon DEF a

LEMMA HideInvisStep ==
  ASSUME BootInv, HideInvis
  PROVE  [Next]_vars /\ BootState'
<1> DEFINE s == setup
<1>1. pc = "invis" /\ Goto("arena", 1)
  BY DEF HideInvis
<1>2. /\ pc \in Loading /\ "invis" \in Setting /\ "arena" \in Setting
      /\ "arena" \in Loading \ {"new"}
  BY <1>1 DEF Loading, Setting
<1>3. /\ TypeOK /\ s \in Setups /\ ~ignored /\ phase = "live" /\ ~sealed
      /\ PagesAre(pages, mem, s, "invis", idx)
  BY <1>1, <1>2, WhileLoading
<1>4. Place(s, "arena", 1)
  BY <1>2 DEF Place
<1>5. CASE Invis(image) = {} /\ NoCall
  <2>1. /\ [Next]_vars /\ ~ignored' /\ pages' = pages /\ mem' = mem /\ phase' = phase
        /\ sealed' = sealed
    BY <1>3, <1>5, NoCallKeeps
  <2>2. Invis(s.image) = {}
    BY <1>5 DEF image
  <2>3. PagesAre(pages', mem', s, "arena", 1)
    <3>1. ASSUME NEW i \in Pages
          PROVE  /\ pages'[i].status = StatusAt(s, "arena", 1, i)
                 /\ pages'[i].invisible = HiddenAt(s, "arena", 1, i)
                 /\ mem'[i] = ContentAt(s, "arena", 1, i)
      <4>1. /\ pages[i].status = StatusAt(s, "invis", idx, i)
            /\ pages[i].invisible = HiddenAt(s, "invis", idx, i)
            /\ mem[i] = ContentAt(s, "invis", idx, i)
        BY <1>3, Zenon DEF PagesAre
      <4>2. ~InInvis(s, i)
        BY <2>2, Zenon DEF InInvis
      <4>3. HiddenAt(s, "invis", idx, i) = FALSE /\ HiddenAt(s, "arena", 1, i) = InInvis(s, i)
        BY HiddenSoFar, Zenon
      <4>4. QED
        BY <1>2, <2>1, <4>1, <4>2, <4>3, AtSetting, InInvisType, Zenon
    <3>2. QED
      BY <3>1, Zenon DEF PagesAre
  <2>4. QED
    BY <1>1, <1>2, <1>3, <1>4, <2>1, <2>3, StillLoading
<1>6. CASE \E j \in Invis(image) : Hides(SectionPages(image, j))
  <2>1. PICK j \in Invis(s.image) : Hides(SectionPages(s.image, j))
    BY <1>6 DEF image
  <2>2. j \in Kept(s.image) /\ Invis(s.image) = {j}
    <3>1. s.image.sections \in Seq([name : STRING, nobits : BOOLEAN, addr : Area])
      BY <1>3, SetupIs, Zenon DEF WellLinked
    <3>2. Invis(s.image) \subseteq Int
      <4>1. DOMAIN s.image.sections \subseteq Int
        BY <3>1
      <4>2. QED
        BY <4>1, Zenon DEF Invis, Kept
    <3>3. \A k, l \in Invis(s.image) : k <= l
      BY DEF Invis
    <3>4. QED
      BY <2>1, <3>2, <3>3 DEF Invis
  <2> DEFINE r == SectionPages(s.image, j)
  <2>3. r \in Ranges /\ Whole(r) /\ InBlock(r)
    BY <1>3, <2>2, SectionIs, Zenon
  <2> HIDE DEF r
  <2>4. /\ [Next]_vars /\ ~ignored'
        /\ \A i \in Pages : /\ pages'[i].status = pages[i].status
                            /\ pages'[i].invisible = (pages[i].invisible \/ i \in PagesOf(r))
        /\ mem' = mem /\ phase' = phase /\ sealed' = sealed
    BY <1>3, <2>1, <2>3, HidesTaken, Zenon DEF r
  <2>5. PagesAre(pages', mem', s, "arena", 1)
    <3>1. ASSUME NEW i \in Pages
          PROVE  /\ pages'[i].status = StatusAt(s, "arena", 1, i)
                 /\ pages'[i].invisible = HiddenAt(s, "arena", 1, i)
                 /\ mem'[i] = ContentAt(s, "arena", 1, i)
      <4>1. /\ pages[i].status = StatusAt(s, "invis", idx, i)
            /\ pages[i].invisible = HiddenAt(s, "invis", idx, i)
            /\ mem[i] = ContentAt(s, "invis", idx, i)
        BY <1>3, Zenon DEF PagesAre
      <4>2. InInvis(s, i) <=> i \in PagesOf(r)
        BY <2>2, Zenon DEF InInvis, r
      <4>3. HiddenAt(s, "invis", idx, i) = FALSE /\ HiddenAt(s, "arena", 1, i) = InInvis(s, i)
        BY HiddenSoFar, Zenon
      <4>4. QED
        BY <1>2, <2>4, <4>1, <4>2, <4>3, AtSetting, InInvisType
    <3>2. QED
      BY <3>1, Zenon DEF PagesAre
  <2>6. QED
    BY <1>1, <1>2, <1>3, <1>4, <2>4, <2>5, StillLoading
<1>7. QED
  BY <1>5, <1>6, Zenon DEF HideInvis

LEMMA HideArenaStep ==
  ASSUME BootInv, HideArena
  PROVE  [Next]_vars /\ BootState'
<1> DEFINE s == setup
           r == Layout(s).invis
<1>1. pc = "arena" /\ Goto("map", 1) /\ Hides(r)
  BY DEF HideArena, layout
<1>2. pc \in Loading /\ "arena" \in Setting /\ "map" \in Segments /\ "map" \in Loading \ {"new"}
  BY <1>1 DEF Loading, Setting, Segments
<1>3. /\ TypeOK /\ s \in Setups /\ ~ignored /\ phase = "live" /\ ~sealed
      /\ PagesAre(pages, mem, s, "arena", idx)
  BY <1>1, <1>2, WhileLoading
<1>4. Place(s, "map", 1)
  <2>1. Len(s.image.phdrs) \in Nat
    BY <1>3, SetupIs, HeadersAre, Zenon
  <2>2. 1 \in 1 .. Len(s.image.phdrs) + 1
    BY <2>1
  <2>3. QED
    BY <2>2, Zenon DEF Place
<1>5. r \in Ranges /\ Whole(r) /\ InBlock(r)
  BY <1>3, LayoutIs, CallIsRange, Zenon
<1> HIDE DEF r
<1>6. /\ [Next]_vars /\ ~ignored'
      /\ \A i \in Pages : /\ pages'[i].status = pages[i].status
                          /\ pages'[i].invisible = (pages[i].invisible \/ i \in PagesOf(r))
      /\ mem' = mem /\ phase' = phase /\ sealed' = sealed
  BY <1>1, <1>3, <1>5, HidesTaken, Zenon
<1>7. PagesAre(pages', mem', s, "map", 1)
  <2>1. ASSUME NEW i \in Pages
        PROVE  /\ pages'[i].status = StatusAt(s, "map", 1, i)
               /\ pages'[i].invisible = HiddenAt(s, "map", 1, i)
               /\ mem'[i] = ContentAt(s, "map", 1, i)
    <3>1. /\ pages[i].status = StatusAt(s, "arena", idx, i)
          /\ pages[i].invisible = HiddenAt(s, "arena", idx, i)
          /\ mem[i] = ContentAt(s, "arena", idx, i)
      BY <1>3, Zenon DEF PagesAre
    <3>2. StatusAt(s, "map", 1, i) = MB_ST_FREE /\ ContentAt(s, "map", 1, i) = Zero
      <4>1. /\ StatusAt(s, "map", 1, i) = SegmentStatus(s.image, 1 - 1, i)
            /\ ContentAt(s, "map", 1, i) = FileContent(s.image, 1 - 1, i)
        BY AtSegments, Zenon
      <4>2. QED
        BY <4>1, NoHeader
    <3>3. /\ HiddenAt(s, "arena", idx, i) = InInvis(s, i)
          /\ HiddenAt(s, "map", 1, i) = (InInvis(s, i) \/ i \in PagesOf(Layout(s).invis))
      BY <1>2, HiddenSoFar, Zenon
    <3>4. QED
      BY <1>2, <1>6, <3>1, <3>2, <3>3, AtSetting, Zenon DEF r
  <2>2. QED
    BY <2>1, Zenon DEF PagesAre
<1>8. QED
  BY <1>1, <1>2, <1>3, <1>4, <1>6, <1>7, StillLoading

LEMMA SkipHeaderStep ==
  ASSUME BootInv, SkipHeader
  PROVE  [Next]_vars /\ BootState'
<1> DEFINE s == setup
           im == s.image
           n == idx
<1>1. /\ pc = "map" /\ n \in DOMAIN im.phdrs /\ ~Loaded(im.phdrs[n])
      /\ NoCall /\ Goto("map", n + 1)
  BY DEF SkipHeader, AtHeader, header, image
<1>2. pc \in Loading /\ "map" \in Segments /\ "map" \in Loading \ {"new"}
  BY <1>1 DEF Loading, Setting, Segments
<1>3. /\ TypeOK /\ s \in Setups /\ ~ignored /\ phase = "live" /\ ~sealed
      /\ PagesAre(pages, mem, s, "map", n)
  BY <1>1, <1>2, WhileLoading, Zenon
<1>4. WellLinked(im) /\ n \in 1 .. Len(im.phdrs) /\ Len(im.phdrs) \in Nat /\ n + 1 - 1 = n
  <2>1. WellLinked(im)
    BY <1>3, SetupIs
  <2>2. Len(im.phdrs) \in Nat /\ DOMAIN im.phdrs = 1 .. Len(im.phdrs)
    BY <2>1, HeadersAre
  <2> HIDE DEF n, im
  <2>3. QED
    BY <1>1, <2>1, <2>2
<1>5. Place(s, "map", n + 1)
  <2>1. n + 1 \in 1 .. Len(im.phdrs) + 1
    BY <1>4
  <2>2. QED
    BY <2>1, Zenon DEF Place
<1>6. /\ [Next]_vars /\ ~ignored' /\ pages' = pages /\ mem' = mem /\ phase' = phase
      /\ sealed' = sealed
  BY <1>1, <1>3, NoCallKeeps
<1>7. PagesAre(pages', mem', s, "map", n + 1)
  <2>1. ASSUME NEW i \in Pages
        PROVE  /\ pages'[i].status = StatusAt(s, "map", n + 1, i)
               /\ pages'[i].invisible = HiddenAt(s, "map", n + 1, i)
               /\ mem'[i] = ContentAt(s, "map", n + 1, i)
    <3>1. /\ pages[i].status = StatusAt(s, "map", n, i)
          /\ pages[i].invisible = HiddenAt(s, "map", n, i)
          /\ mem[i] = ContentAt(s, "map", n, i)
      BY <1>3, Zenon DEF PagesAre
    <3>2. HiddenAt(s, "map", n + 1, i) = HiddenAt(s, "map", n, i)
      BY <1>2, HiddenSame
    <3>3. /\ StatusAt(s, "map", n, i) = SegmentStatus(im, n - 1, i)
          /\ ContentAt(s, "map", n, i) = FileContent(im, n - 1, i)
      BY AtSegments, Zenon
    <3>4. /\ StatusAt(s, "map", n + 1, i) = SegmentStatus(im, n, i)
          /\ ContentAt(s, "map", n + 1, i) = FileContent(im, n, i)
      BY <1>4, NextPlace
    <3>5. /\ SegmentStatus(im, n, i) = SegmentStatus(im, n - 1, i)
          /\ FileContent(im, n, i) = FileContent(im, n - 1, i)
      BY <1>1, <1>4, SkippedHeader, Zenon
    <3>6. QED
      BY <1>6, <3>1, <3>2, <3>3, <3>4, <3>5, Zenon
  <2>2. QED
    BY <2>1, Zenon DEF PagesAre
<1>8. QED
  BY <1>1, <1>2, <1>3, <1>5, <1>6, <1>7, StillLoading

LEMMA MapSegmentStep ==
  ASSUME BootInv, MapSegment
  PROVE  [Next]_vars /\ BootState'
<1> DEFINE s == setup
           im == s.image
           n == idx
           h == im.phdrs[n]
           r == SegmentPages(h)
           p == IF h.filesz # 0 THEN "copy" ELSE "protect"
<1>1. /\ pc = "map" /\ n \in DOMAIN im.phdrs /\ Loaded(h)
      /\ Maps(r, "RW", FALSE) /\ Goto(p, n)
  BY Zenon DEF MapSegment, AtHeader, header, image
<1>2. /\ pc \in Loading /\ "map" \in Segments
      /\ p \in Segments /\ p \in Loading \ {"new"} /\ p \in {"copy", "protect"}
  BY <1>1 DEF Loading, Setting, Segments
<1>3. /\ TypeOK /\ s \in Setups /\ ~ignored /\ phase = "live" /\ ~sealed
      /\ PagesAre(pages, mem, s, "map", n)
  BY <1>1, <1>2, WhileLoading, Zenon
<1>4. WellLinked(im)
  BY <1>3, SetupIs
<1>5. Place(s, p, n)
  BY <1>1, <1>2, Zenon DEF Place
<1>6. r \in Ranges /\ Whole(r) /\ InBlock(r) /\ r.size # 0
  <2>1. h.vaddr # 0 /\ r.size # 0
    BY <1>1, Zenon DEF Loaded
  <2>2. QED
    BY <1>1, <1>3, <2>1, SegmentIs, CallIsRange, Zenon
<1>7. h.filesz = 0 <=> p = "protect"
  BY Zenon
<1> HIDE DEF r, p
<1>8. /\ [Next]_vars /\ ~ignored'
      /\ \A i \in Pages :
           /\ pages'[i].status = IF i \in PagesOf(r) THEN prot_status("RW") ELSE pages[i].status
           /\ pages'[i].invisible = pages[i].invisible
      /\ mem' = mem /\ phase' = phase /\ sealed' = sealed
  <2>1. "RW" \in MB_PROT
    BY DEF MB_PROT
  <2>2. QED
    BY <1>1, <1>3, <1>6, <2>1, MapsTaken, Zenon
<1>9. PagesAre(pages', mem', s, p, n)
  <2>1. ASSUME NEW i \in Pages
        PROVE  /\ pages'[i].status = StatusAt(s, p, n, i)
               /\ pages'[i].invisible = HiddenAt(s, p, n, i)
               /\ mem'[i] = ContentAt(s, p, n, i)
    <3>1. /\ pages[i].status = StatusAt(s, "map", n, i)
          /\ pages[i].invisible = HiddenAt(s, "map", n, i)
          /\ mem[i] = ContentAt(s, "map", n, i)
      BY <1>3, Zenon DEF PagesAre
    <3>2. HiddenAt(s, p, n, i) = HiddenAt(s, "map", n, i)
      BY <1>2, HiddenSame
    <3>3. /\ StatusAt(s, "map", n, i) = SegmentStatus(im, n - 1, i)
          /\ ContentAt(s, "map", n, i) = FileContent(im, n - 1, i)
      BY AtSegments, Zenon
    <3>4. StatusAt(s, p, n, i) = IF i \in PagesOf(r) THEN MB_ST_RW ELSE SegmentStatus(im, n - 1, i)
      BY <1>2, AtSegments, Zenon DEF r
    <3>5. ContentAt(s, p, n, i) = FileContent(im, n - 1, i)
      <4>1. CASE p = "copy"
        BY <4>1, AtSegments, Zenon
      <4>2. CASE p = "protect"
        <5>1. ContentAt(s, p, n, i) = FileContent(im, n, i)
          BY <4>2, AtSegments, Zenon
        <5>2. FileContent(im, n, i) = FileContent(im, n - 1, i)
          BY <1>1, <1>4, <1>7, <4>2, NextFile, Zenon
        <5>3. QED
          BY <5>1, <5>2, Zenon
      <4>3. QED
        BY <1>2, <4>1, <4>2, Zenon
    <3>6. prot_status("RW") = MB_ST_RW
      BY DEF prot_status
    <3>7. QED
      BY <1>8, <3>1, <3>2, <3>3, <3>4, <3>5, <3>6, Zenon
  <2>2. QED
    BY <2>1, Zenon DEF PagesAre
<1>10. QED
  BY <1>1, <1>2, <1>3, <1>5, <1>8, <1>9, StillLoading

LEMMA CopySegmentStep ==
  ASSUME BootInv, CopySegment
  PROVE  [Next]_vars /\ BootState'
<1> DEFINE s == setup
           im == s.image
           n == idx
           h == im.phdrs[n]
           f == FileBytes(h)
<1>1. pc = "copy" /\ Copies(f, h.data) /\ Goto("protect", n)
  BY DEF CopySegment, header, image
<1>2. /\ pc \in Loading /\ "copy" \in Segments /\ "protect" \in Segments
      /\ "protect" \in Loading \ {"new"}
  BY <1>1 DEF Loading, Setting, Segments
<1>3. /\ TypeOK /\ s \in Setups /\ ~ignored /\ phase = "live" /\ ~sealed
      /\ PagesAre(pages, mem, s, "copy", n) /\ Place(s, "copy", n)
  BY <1>1, <1>2, WhileLoading
<1>4. WellLinked(im)
  BY <1>3, SetupIs
<1>5. n \in DOMAIN im.phdrs /\ Loaded(h) /\ h.filesz # 0
  BY <1>3, Zenon DEF Place, Setting, Stacks
<1>6. Place(s, "protect", n)
  BY <1>5 DEF Place
<1>7. f \in Area /\ f.size # 0 /\ Inside(f, Segment(h)) /\ h.data \in Values
  <2>1. h \in Header /\ f \in Area /\ Inside(f, Segment(h))
    BY <1>4, <1>5, HeaderIs
  <2>2. f.size = h.filesz /\ h.data \in Values
    BY <2>1, Zenon DEF FileBytes, Header
  <2>3. QED
    BY <1>5, <2>1, <2>2, Zenon
<1>8. InSegment(im, f)
  BY <1>5, <1>7, Zenon DEF InSegment
<1>9. h.vaddr # 0
  BY <1>5 DEF Loaded
<1>10. PagesOf(align_expand(f)) \subseteq PagesOf(SegmentPages(h)) /\ f \in Ranges
  BY <1>3, <1>5, <1>9, SegmentIs, CallIsRange, Zenon
<1>11. Whole(align_expand(f)) /\ InBlock(align_expand(f)) /\ align_expand(f).size # 0
  BY <1>3, <1>7, <1>8, InSegmentIs, Zenon
<1>12. NoneFree(PagesOf(align_expand(f)))
  <2>1. ASSUME NEW i \in PagesOf(align_expand(f))
        PROVE  pages[i].status # MB_ST_FREE
    <3>1. i \in Pages /\ i \in PagesOf(SegmentPages(h))
      BY <1>10 DEF PagesOf
    <3>2. pages[i].status = StatusAt(s, "copy", n, i)
      BY <1>3, <3>1, Zenon DEF PagesAre
    <3>3. StatusAt(s, "copy", n, i) = MB_ST_RW
      BY <3>1, AtSegments, Zenon
    <3>4. QED
      BY <3>2, <3>3 DEF MB_ST_RW, MB_ST_FREE
  <2>2. QED
    BY <2>1, Zenon DEF NoneFree
<1>13. /\ [Next]_vars /\ ~ignored'
       /\ \A i \in Pages : /\ pages'[i].status = pages[i].status
                           /\ pages'[i].invisible = pages[i].invisible
                           /\ mem'[i] = IF i \in PagesOf(align_expand(f)) THEN h.data ELSE mem[i]
       /\ phase' = phase /\ sealed' = sealed
  BY <1>1, <1>3, <1>7, <1>10, <1>11, <1>12, CopiesTaken, Zenon
<1>14. PagesAre(pages', mem', s, "protect", n)
  <2>1. ASSUME NEW i \in Pages
        PROVE  /\ pages'[i].status = StatusAt(s, "protect", n, i)
               /\ pages'[i].invisible = HiddenAt(s, "protect", n, i)
               /\ mem'[i] = ContentAt(s, "protect", n, i)
    <3>1. /\ pages[i].status = StatusAt(s, "copy", n, i)
          /\ pages[i].invisible = HiddenAt(s, "copy", n, i)
          /\ mem[i] = ContentAt(s, "copy", n, i)
      BY <1>3, Zenon DEF PagesAre
    <3>2. HiddenAt(s, "protect", n, i) = HiddenAt(s, "copy", n, i)
      BY <1>2, HiddenSame
    <3>3. /\ StatusAt(s, "protect", n, i) = StatusAt(s, "copy", n, i)
          /\ ContentAt(s, "copy", n, i) = FileContent(im, n - 1, i)
          /\ ContentAt(s, "protect", n, i) = FileContent(im, n, i)
      BY AtSegments, Zenon
    <3>4. FileContent(im, n, i) = IF i \in PagesOf(align_expand(f)) THEN h.data
                                  ELSE FileContent(im, n - 1, i)
      BY <1>4, <1>5, <1>10, NextFile, Zenon
    <3>5. QED
      BY <1>13, <3>1, <3>2, <3>3, <3>4, Zenon
  <2>2. QED
    BY <2>1, Zenon DEF PagesAre
<1>15. QED
  BY <1>1, <1>2, <1>3, <1>6, <1>13, <1>14, StillLoading, Zenon

LEMMA ProtectSegmentStep ==
  ASSUME BootInv, ProtectSegment
  PROVE  [Next]_vars /\ BootState'
<1> DEFINE s == setup
           im == s.image
           n == idx
           h == im.phdrs[n]
           r == SegmentPages(h)
           prot == segment_prot(h.flags)
<1>1. pc = "protect" /\ Protects(r, prot) /\ Goto("map", n + 1)
  BY DEF ProtectSegment, header, image
<1>2. /\ pc \in Loading /\ "protect" \in Segments /\ "map" \in Segments
      /\ "map" \in Loading \ {"new"}
  BY <1>1 DEF Loading, Setting, Segments
<1>3. /\ TypeOK /\ s \in Setups /\ ~ignored /\ phase = "live" /\ ~sealed
      /\ PagesAre(pages, mem, s, "protect", n) /\ Place(s, "protect", n)
  BY <1>1, <1>2, WhileLoading, Zenon
<1>4. WellLinked(im) /\ n \in DOMAIN im.phdrs /\ Loaded(h)
  BY <1>3, SetupIs DEF Place, Setting, Stacks
<1>5. n \in Int /\ n + 1 \in 1 .. Len(im.phdrs) + 1
  <2>1. Len(im.phdrs) \in Nat /\ n \in 1 .. Len(im.phdrs)
    BY <1>4, HeadersAre
  <2> HIDE DEF n, im
  <2>2. QED
    BY <2>1
<1>6. Place(s, "map", n + 1)
  BY <1>5, Zenon DEF Place
<1>7. prot \in MB_PROT
  <2>1. h \in Header
    BY <1>4, HeaderIs
  <2>2. h.flags \in SUBSET {"r", "w", "x"}
    BY <2>1 DEF Header
  <2>3. QED
    BY <2>2, SegmentProtType
<1>8. r \in Ranges /\ Whole(r) /\ InBlock(r) /\ r.size # 0
  <2>1. h.vaddr # 0 /\ r.size # 0
    BY <1>4 DEF Loaded
  <2>2. QED
    BY <1>3, <1>4, <2>1, SegmentIs, CallIsRange, Zenon
<1>9. NoneFree(PagesOf(r))
  <2>1. ASSUME NEW i \in PagesOf(r)
        PROVE  pages[i].status # MB_ST_FREE
    <3>1. i \in Pages
      BY DEF PagesOf
    <3>2. pages[i].status = StatusAt(s, "protect", n, i)
      BY <1>3, <3>1, Zenon DEF PagesAre
    <3>3. StatusAt(s, "protect", n, i) = MB_ST_RW
      BY AtSegments, Zenon
    <3>4. QED
      BY <3>2, <3>3 DEF MB_ST_RW, MB_ST_FREE
  <2>2. QED
    BY <2>1, Zenon DEF NoneFree
<1> HIDE DEF r, prot
<1>10. /\ [Next]_vars /\ ~ignored'
       /\ \A i \in Pages :
            /\ pages'[i].status = IF i \in PagesOf(r) THEN prot_status(prot) ELSE pages[i].status
            /\ pages'[i].invisible = pages[i].invisible
       /\ mem' = mem /\ phase' = phase /\ sealed' = sealed
  BY <1>1, <1>3, <1>7, <1>8, <1>9, ProtectsTaken, Zenon
<1>11. PagesAre(pages', mem', s, "map", n + 1)
  <2>1. ASSUME NEW i \in Pages
        PROVE  /\ pages'[i].status = StatusAt(s, "map", n + 1, i)
               /\ pages'[i].invisible = HiddenAt(s, "map", n + 1, i)
               /\ mem'[i] = ContentAt(s, "map", n + 1, i)
    <3>1. /\ pages[i].status = StatusAt(s, "protect", n, i)
          /\ pages[i].invisible = HiddenAt(s, "protect", n, i)
          /\ mem[i] = ContentAt(s, "protect", n, i)
      BY <1>3, Zenon DEF PagesAre
    <3>2. HiddenAt(s, "protect", n, i) = HiddenAt(s, "map", n + 1, i)
      BY <1>2, HiddenSame
    <3>3. /\ StatusAt(s, "protect", n, i) = IF i \in PagesOf(r) THEN MB_ST_RW
                                            ELSE SegmentStatus(im, n - 1, i)
          /\ ContentAt(s, "protect", n, i) = FileContent(im, n, i)
      BY AtSegments DEF r
    <3>4. /\ StatusAt(s, "map", n + 1, i) = SegmentStatus(im, n, i)
          /\ ContentAt(s, "map", n + 1, i) = FileContent(im, n, i)
      BY <1>5, NextPlace
    <3>5. SegmentStatus(im, n, i) = IF i \in PagesOf(r) THEN prot_status(prot)
                                    ELSE SegmentStatus(im, n - 1, i)
      BY <1>4, NextSegment DEF r, prot
    <3>6. QED
      BY <1>10, <3>1, <3>2, <3>3, <3>4, <3>5, Zenon
  <2>2. QED
    BY <2>1, Zenon DEF PagesAre
<1>12. QED
  BY <1>1, <1>2, <1>3, <1>6, <1>10, <1>11, StillLoading

LEMMA FillInfoStep ==
  ASSUME BootInv, FillInfo
  PROVE  [Next]_vars /\ BootState'
<1> DEFINE s == setup
           im == s.image
           N == Len(im.phdrs)
           a == im.info
           R == PagesOf(align_expand(a))
<1>1. /\ pc = "map" /\ idx \notin DOMAIN im.phdrs /\ Goto("stack", 1)
      /\ \/ a.start = 0 /\ NoCall
         \/ a.start # 0 /\ Copies(a, InfoData)
  BY DEF FillInfo, AtHeader, image
<1>2. /\ pc \in Loading /\ "map" \in Segments /\ "stack" \in Stacks
      /\ "stack" \in Loading \ {"new"}
  BY <1>1 DEF Loading, Setting, Segments, Stacks
<1>3. /\ TypeOK /\ s \in Setups /\ ~ignored /\ phase = "live" /\ ~sealed
      /\ PagesAre(pages, mem, s, "map", idx) /\ Place(s, "map", idx)
  BY <1>1, <1>2, WhileLoading
<1>4. WellLinked(im)
  BY <1>3, SetupIs
<1>5. N \in Nat /\ DOMAIN im.phdrs = 1 .. N
  BY <1>4, HeadersAre
<1>6. idx \in 1 .. N + 1
  BY <1>3 DEF Place, Setting, Stacks
<1>7. idx = N + 1
  <2> HIDE DEF N, im
  <2>1. QED
    BY <1>1, <1>5, <1>6
<1>8. Place(s, "stack", 1)
  BY <1>2 DEF Place
<1>9. ASSUME NEW i \in Pages
      PROVE  /\ pages[i].status = SegmentStatus(im, N, i)
             /\ pages[i].status = StatusAt(s, "stack", 1, i)
             /\ pages[i].invisible = HiddenAt(s, "stack", 1, i)
             /\ mem[i] = FileContent(im, N, i)
             /\ ContentAt(s, "stack", 1, i) = IF a.start # 0 /\ i \in R THEN InfoData
                                              ELSE FileContent(im, N, i)
  <2>1. /\ pages[i].status = StatusAt(s, "map", N + 1, i)
        /\ pages[i].invisible = HiddenAt(s, "map", N + 1, i)
        /\ mem[i] = ContentAt(s, "map", N + 1, i)
    BY <1>3, <1>7, Zenon DEF PagesAre
  <2>2. /\ StatusAt(s, "map", N + 1, i) = SegmentStatus(im, N, i)
        /\ ContentAt(s, "map", N + 1, i) = FileContent(im, N, i)
    BY <1>5, NextPlace
  <2>3. StatusAt(s, "stack", 1, i) = SegmentStatus(im, N, i)
    BY <1>3, BetweenStacks
  <2>4. HiddenAt(s, "map", N + 1, i) = (InInvis(s, i) \/ i \in PagesOf(Layout(s).invis))
    BY <1>2, HiddenInSegments, Zenon
  <2>5. HiddenAt(s, "stack", 1, i) = (InInvis(s, i) \/ i \in PagesOf(Layout(s).invis))
    BY <1>2, HiddenSoFar, Zenon
  <2>6. ContentAt(s, "stack", 1, i) = LinkedContent(im, i)
    BY <1>2, ContentDone
  <2>7. LinkedContent(im, i) = IF a.start # 0 /\ i \in R THEN InfoData ELSE FileContent(im, N, i)
    BY Zenon DEF LinkedContent
  <2>8. HiddenAt(s, "map", N + 1, i) = HiddenAt(s, "stack", 1, i)
    BY <2>4, <2>5
  <2>9. QED
    BY <2>1, <2>2, <2>3, <2>6, <2>7, <2>8, Zenon
<1>10. CASE a.start = 0 /\ NoCall
  <2>1. /\ [Next]_vars /\ ~ignored' /\ pages' = pages /\ mem' = mem /\ phase' = phase
        /\ sealed' = sealed
    BY <1>3, <1>10, NoCallKeeps, Zenon
  <2>2. PagesAre(pages', mem', s, "stack", 1)
    <3>1. ASSUME NEW i \in Pages
          PROVE  /\ pages'[i].status = StatusAt(s, "stack", 1, i)
                 /\ pages'[i].invisible = HiddenAt(s, "stack", 1, i)
                 /\ mem'[i] = ContentAt(s, "stack", 1, i)
      BY <1>9, <1>10, <2>1, Zenon
    <3>2. QED
      BY <3>1, Zenon DEF PagesAre
  <2>3. QED
    BY <1>1, <1>2, <1>3, <1>8, <2>1, <2>2, StillLoading, Zenon
<1>11. CASE a.start # 0 /\ Copies(a, InfoData)
  <2>1. InSegment(im, a) /\ a \in Area
    BY <1>4, <1>11, Zenon DEF WellLinked
  <2>2. /\ Whole(align_expand(a)) /\ InBlock(align_expand(a)) /\ align_expand(a).size # 0
        /\ \A i \in R : SegmentsOf(im, N, i) # {}
    BY <1>3, <2>1, InSegmentIs, Zenon
  <2>3. a \in Ranges /\ InfoData \in Values
    BY <1>3, CallIsRange, ElfLoadAssumption, Zenon
  <2>4. NoneFree(R)
    <3>1. ASSUME NEW i \in R
          PROVE  pages[i].status # MB_ST_FREE
      <4>1. i \in Pages
        BY DEF PagesOf
      <4>2. N \in 0 .. N
        BY <1>5
      <4>3. SegmentStatus(im, N, i) # MB_ST_FREE
        BY <1>4, <2>2, <4>2, SegmentIsMapped
      <4>4. QED
        BY <1>9, <4>1, <4>3, Zenon
    <3>2. QED
      BY <3>1, Zenon DEF NoneFree
  <2>5. /\ [Next]_vars /\ ~ignored'
        /\ \A i \in Pages : /\ pages'[i].status = pages[i].status
                            /\ pages'[i].invisible = pages[i].invisible
                            /\ mem'[i] = IF i \in R THEN InfoData ELSE mem[i]
        /\ phase' = phase /\ sealed' = sealed
    BY <1>3, <1>11, <2>2, <2>3, <2>4, CopiesTaken, Zenon
  <2>6. PagesAre(pages', mem', s, "stack", 1)
    <3>1. ASSUME NEW i \in Pages
          PROVE  /\ pages'[i].status = StatusAt(s, "stack", 1, i)
                 /\ pages'[i].invisible = HiddenAt(s, "stack", 1, i)
                 /\ mem'[i] = ContentAt(s, "stack", 1, i)
      BY <1>9, <1>11, <2>5, Zenon
    <3>2. QED
      BY <3>1, Zenon DEF PagesAre
  <2>7. QED
    BY <1>1, <1>2, <1>3, <1>8, <2>5, <2>6, StillLoading, Zenon
<1>12. QED
  BY <1>1, <1>10, <1>11, Zenon

LEMMA MapStackStep ==
  ASSUME BootInv, MapStack
  PROVE  [Next]_vars /\ BootState'
<1> DEFINE s == setup
           n == idx
           r == Stack(s, n)
<1>1. pc = "stack" /\ Maps(r, "RWSTACK", TRUE) /\ Goto("guard", n)
  BY Zenon DEF MapStack
<1>2. /\ pc \in Loading /\ "stack" \in Stacks /\ "guard" \in Stacks
      /\ "guard" \in Loading \ {"new"}
  BY <1>1 DEF Loading, Setting, Segments, Stacks
<1>3. /\ TypeOK /\ s \in Setups /\ ~ignored /\ phase = "live" /\ ~sealed
      /\ PagesAre(pages, mem, s, "stack", n) /\ Place(s, "stack", n)
  BY <1>1, <1>2, WhileLoading
<1>4. n \in 1 .. 2
  BY <1>3, Zenon DEF Place, Setting
<1>5. Place(s, "guard", n)
  BY <1>2, <1>4 DEF Place
<1>6. r \in Ranges /\ Whole(r) /\ InBlock(r) /\ r.size # 0
  BY <1>3, <1>4, StackIs, CallIsRange, Zenon
<1>7. AllFree(PagesOf(r))
  <2>1. ASSUME NEW i \in PagesOf(r)
        PROVE  pages[i].status = MB_ST_FREE
    <3>1. i \in Pages
      BY DEF PagesOf
    <3>2. pages[i].status = StatusAt(s, "stack", n, i)
      BY <1>3, <3>1, Zenon DEF PagesAre
    <3>3. QED
      BY <1>3, <1>4, <3>1, <3>2, AtStacks, Zenon
  <2>2. QED
    BY <2>1, Zenon DEF AllFree
<1>8. "RWSTACK" \in MB_PROT /\ prot_status("RWSTACK") = MB_ST_RWSTACK
  BY DEF MB_PROT, prot_status
<1> HIDE DEF r
<1>9. /\ [Next]_vars /\ ~ignored'
      /\ \A i \in Pages :
           /\ pages'[i].status = IF i \in PagesOf(r) THEN prot_status("RWSTACK") ELSE pages[i].status
           /\ pages'[i].invisible = pages[i].invisible
      /\ mem' = mem /\ phase' = phase /\ sealed' = sealed
  BY <1>1, <1>3, <1>6, <1>7, <1>8, MapsTaken, Zenon
<1>10. PagesAre(pages', mem', s, "guard", n)
  <2>1. ASSUME NEW i \in Pages
        PROVE  /\ pages'[i].status = StatusAt(s, "guard", n, i)
               /\ pages'[i].invisible = HiddenAt(s, "guard", n, i)
               /\ mem'[i] = ContentAt(s, "guard", n, i)
    <3>1. /\ pages[i].status = StatusAt(s, "stack", n, i)
          /\ pages[i].invisible = HiddenAt(s, "stack", n, i)
          /\ mem[i] = ContentAt(s, "stack", n, i)
      BY <1>3, Zenon DEF PagesAre
    <3>2. HiddenAt(s, "guard", n, i) = HiddenAt(s, "stack", n, i)
      BY <1>2, <1>4, HiddenAtStack
    <3>3. ContentAt(s, "guard", n, i) = ContentAt(s, "stack", n, i)
      BY <1>2, ContentDone, Zenon
    <3>4. StatusAt(s, "guard", n, i) = IF i \in PagesOf(r) THEN MB_ST_RWSTACK
                                       ELSE StatusAt(s, "stack", n, i)
      BY <1>3, <1>4, AtStacks, Zenon DEF r
    <3>5. QED
      BY <1>8, <1>9, <3>1, <3>2, <3>3, <3>4, Zenon
  <2>2. QED
    BY <2>1, Zenon DEF PagesAre
<1>11. QED
  BY <1>1, <1>2, <1>3, <1>5, <1>9, <1>10, StillLoading

LEMMA GuardStackStep ==
  ASSUME BootInv, GuardStack
  PROVE  [Next]_vars /\ BootState'
<1> DEFINE s == setup
           n == idx
           r == Guard(Stack(s, n))
<1>1. pc = "guard" /\ Protects(r, "NONE") /\ Goto("hide", n)
  BY DEF GuardStack
<1>2. /\ pc \in Loading /\ "hide" \in Stacks /\ "guard" \in Stacks
      /\ "hide" \in Loading \ {"new"}
  BY <1>1 DEF Loading, Setting, Segments, Stacks
<1>3. /\ TypeOK /\ s \in Setups /\ ~ignored /\ phase = "live" /\ ~sealed
      /\ PagesAre(pages, mem, s, "guard", n) /\ Place(s, "guard", n)
  BY <1>1, <1>2, WhileLoading
<1>4. n \in 1 .. 2
  BY <1>3 DEF Place, Setting
<1>5. Place(s, "hide", n)
  BY <1>2, <1>4 DEF Place
<1>6. /\ r \in Ranges /\ Whole(r) /\ InBlock(r) /\ r.size # 0
      /\ PagesOf(r) \subseteq PagesOf(Stack(s, n))
  BY <1>3, <1>4, StackIs, CallIsRange, Zenon
<1>7. NoneFree(PagesOf(r))
  <2>1. ASSUME NEW i \in PagesOf(r)
        PROVE  pages[i].status # MB_ST_FREE
    <3>1. i \in Pages /\ i \in PagesOf(Stack(s, n))
      BY <1>6 DEF PagesOf
    <3>2. pages[i].status = StatusAt(s, "guard", n, i)
      BY <1>3, <3>1, Zenon DEF PagesAre
    <3>3. StatusAt(s, "guard", n, i) = MB_ST_RWSTACK
      BY <1>3, <1>4, <3>1, AtStacks, Zenon
    <3>4. QED
      BY <3>2, <3>3 DEF MB_ST_RWSTACK, MB_ST_FREE
  <2>2. QED
    BY <2>1, Zenon DEF NoneFree
<1>8. "NONE" \in MB_PROT /\ prot_status("NONE") = MB_ST_NONE
  BY DEF MB_PROT, prot_status
<1> HIDE DEF r
<1>9. /\ [Next]_vars /\ ~ignored'
      /\ \A i \in Pages :
           /\ pages'[i].status = IF i \in PagesOf(r) THEN prot_status("NONE") ELSE pages[i].status
           /\ pages'[i].invisible = pages[i].invisible
      /\ mem' = mem /\ phase' = phase /\ sealed' = sealed
  BY <1>1, <1>3, <1>6, <1>7, <1>8, ProtectsTaken, Zenon
<1>10. PagesAre(pages', mem', s, "hide", n)
  <2>1. ASSUME NEW i \in Pages
        PROVE  /\ pages'[i].status = StatusAt(s, "hide", n, i)
               /\ pages'[i].invisible = HiddenAt(s, "hide", n, i)
               /\ mem'[i] = ContentAt(s, "hide", n, i)
    <3>1. /\ pages[i].status = StatusAt(s, "guard", n, i)
          /\ pages[i].invisible = HiddenAt(s, "guard", n, i)
          /\ mem[i] = ContentAt(s, "guard", n, i)
      BY <1>3, Zenon DEF PagesAre
    <3>2. HiddenAt(s, "hide", n, i) = HiddenAt(s, "guard", n, i)
      BY <1>2, <1>4, HiddenAtStack
    <3>3. ContentAt(s, "hide", n, i) = ContentAt(s, "guard", n, i)
      BY <1>2, ContentDone, Zenon
    <3>4. StatusAt(s, "hide", n, i) = IF i \in PagesOf(r) THEN MB_ST_NONE
                                      ELSE StatusAt(s, "guard", n, i)
      BY <1>3, <1>4, AtStacks, Zenon DEF r
    <3>5. QED
      BY <1>8, <1>9, <3>1, <3>2, <3>3, <3>4, Zenon
  <2>2. QED
    BY <2>1, Zenon DEF PagesAre
<1>11. QED
  BY <1>1, <1>2, <1>3, <1>5, <1>9, <1>10, StillLoading

LEMMA HideStackStep ==
  ASSUME BootInv, HideStack
  PROVE  [Next]_vars /\ BootState'
<1> DEFINE s == setup
           n == idx
           r == Stack(s, n)
           p == IF n = 1 THEN "stack" ELSE "loaded"
<1>1. pc = "hide" /\ Hides(r) /\ Goto(p, n + 1)
  BY DEF HideStack
<1>2. /\ pc \in Loading /\ "hide" \in Stacks /\ "stack" \in Stacks
      /\ p \in Loading \ {"new"} /\ p \in Stacks \cup {"loaded"}
  BY <1>1 DEF Loading, Setting, Segments, Stacks
<1>3. /\ TypeOK /\ s \in Setups /\ ~ignored /\ phase = "live" /\ ~sealed
      /\ PagesAre(pages, mem, s, "hide", n) /\ Place(s, "hide", n)
  BY <1>1, <1>2, WhileLoading
<1>4. n \in 1 .. 2
  BY <1>3, Zenon DEF Place, Setting
<1>5. (n = 1 /\ n + 1 = 2 /\ p = "stack") \/ (n = 2 /\ p = "loaded")
  BY <1>4
<1>6. Place(s, p, n + 1)
  BY <1>2, <1>5 DEF Place
<1>7. r \in Ranges /\ Whole(r) /\ InBlock(r)
  BY <1>3, <1>4, StackIs, CallIsRange, Zenon
<1> HIDE DEF p
<1>8. /\ [Next]_vars /\ ~ignored'
      /\ \A i \in Pages : /\ pages'[i].status = pages[i].status
                          /\ pages'[i].invisible = (pages[i].invisible \/ i \in PagesOf(r))
      /\ mem' = mem /\ phase' = phase /\ sealed' = sealed
  BY <1>1, <1>3, <1>7, HidesTaken, Zenon
<1>9. PagesAre(pages', mem', s, p, n + 1)
  <2>1. ASSUME NEW i \in Pages
        PROVE  /\ pages'[i].status = StatusAt(s, p, n + 1, i)
               /\ pages'[i].invisible = HiddenAt(s, p, n + 1, i)
               /\ mem'[i] = ContentAt(s, p, n + 1, i)
    <3>1. /\ pages[i].status = StatusAt(s, "hide", n, i)
          /\ pages[i].invisible = HiddenAt(s, "hide", n, i)
          /\ mem[i] = ContentAt(s, "hide", n, i)
      BY <1>3, Zenon DEF PagesAre
    <3>2. StatusAt(s, p, n + 1, i) = StatusAt(s, "hide", n, i)
      BY <1>3, <1>5, BetweenStacks
    <3>3. HiddenAt(s, p, n + 1, i) = (HiddenAt(s, "hide", n, i) \/ i \in PagesOf(r))
      <4>1. CASE n = 1 /\ n + 1 = 2 /\ p = "stack"
        <5>1. HiddenAt(s, "stack", 2, i) = (HiddenAt(s, "hide", 1, i) \/ i \in PagesOf(Stack(s, 1)))
          BY <1>2, HiddenSoFar, Zenon
        <5>2. QED
          BY <4>1, <5>1
      <4>2. CASE n = 2 /\ p = "loaded"
        BY <4>2, HiddenSoFar, Zenon
      <4>3. QED
        BY <1>5, <4>1, <4>2, Zenon
    <3>4. ContentAt(s, p, n + 1, i) = LinkedContent(s.image, i)
      BY <1>2, ContentDone
    <3>5. ContentAt(s, "hide", n, i) = LinkedContent(s.image, i)
      BY <1>2, ContentDone
    <3>6. pages'[i].invisible = HiddenAt(s, p, n + 1, i)
      BY <1>8, <3>1, <3>3, Zenon
    <3>7. QED
      BY <1>8, <3>1, <3>2, <3>4, <3>5, <3>6, Zenon
  <2>2. QED
    BY <2>1, Zenon DEF PagesAre
<1>10. QED
  BY <1>1, <1>2, <1>3, <1>6, <1>8, <1>9, StillLoading

(* A loader that fails leaves a block that is freed.                       *)
LEMMA LoadRefusedStep ==
  ASSUME BootInv, LoadRefused
  PROVE  [Next]_vars /\ BootState'
<1>1. pc \in {"invis", "map"} /\ Free /\ ignored' = ignored /\ Goto("refused", idx)
  BY DEF LoadRefused
<1>2. pc \in Loading
  BY <1>1 DEF Loading, Setting, Segments
<1>3. TypeOK /\ setup \in Setups /\ ~ignored /\ ~sealed
  BY <1>2, WhileLoading
<1>4. Next
  BY <1>1, Zenon DEF Next
<1>5. setup' = setup /\ pc' = "refused" /\ idx' = idx /\ phase' = "freed" /\ ~ignored'
  BY <1>1, <1>3 DEF Goto, Free
<1>6. sealed' = (pc' = "sealed")
  BY <1>1, <1>3, <1>5 DEF TypeOK, Free
<1>7. /\ setup' \in Setups /\ Place(setup', pc', idx')
      /\ phase' = IF pc' = "refused" THEN "freed" ELSE "live"
  BY <1>3, <1>5, Zenon DEF Place
<1>8. /\ pc' \notin Setting \cup Segments \cup Stacks \cup {"loaded"} /\ pc' \notin Sealing
      /\ pc' # "new"
  BY <1>5 DEF Setting, Segments, Stacks, Sealing
<1>9. QED
  BY <1>4, <1>5, <1>6, <1>7, <1>8, Zenon DEF BootState

=============================================================================
