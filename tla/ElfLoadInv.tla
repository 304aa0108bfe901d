----------------------------- MODULE ElfLoadInv -----------------------------
(***************************************************************************)
(* The inductive invariant of loading and sealing: what every page is when *)
(* the loader of setup s has come to p, at header, stack or section n.     *)
(***************************************************************************)
EXTENDS ElfLoad

Setting == {"new", "invis", "arena"}
Segments == {"map", "copy", "protect"}
Stacks == {"stack", "guard", "hide"}
Sealing == {"started", "heap", "section", "sealed"}

(* The headers done so far.                                                *)
HeadersDone(s, p, n) ==
  IF p \in Setting THEN 0 ELSE IF p \in Segments THEN n - 1 ELSE Len(s.image.phdrs)

(* The stacks that are mapped, that have their guard, and that are hidden. *)
MappedStacks(p, n) == {m \in 1 .. 2 : p = "loaded" \/ (p \in Stacks /\ (m < n \/ (m = n /\ p # "stack")))}
GuardedStacks(p, n) == {m \in 1 .. 2 : p = "loaded" \/ (p \in Stacks /\ (m < n \/ (m = n /\ p = "hide")))}
HiddenStacks(p, n) == {m \in 1 .. 2 : p = "loaded" \/ (p \in Stacks /\ m < n)}

StatusAt(s, p, n, i) ==
  IF \E m \in GuardedStacks(p, n) : i \in PagesOf(Guard(Stack(s, m))) THEN MB_ST_NONE
  ELSE IF \E m \in MappedStacks(p, n) : i \in PagesOf(Stack(s, m)) THEN MB_ST_RWSTACK
  ELSE IF p \in {"copy", "protect"} /\ i \in PagesOf(SegmentPages(s.image.phdrs[n])) THEN MB_ST_RW
  ELSE SegmentStatus(s.image, HeadersDone(s, p, n), i)

HiddenAt(s, p, n, i) ==
  \/ p \notin {"new", "invis"} /\ \E j \in Invis(s.image) : i \in PagesOf(SectionPages(s.image, j))
  \/ p \notin Setting /\ i \in PagesOf(Layout(s).invis)
  \/ \E m \in HiddenStacks(p, n) : i \in PagesOf(Stack(s, m))

ContentAt(s, p, n, i) ==
  IF p \in Setting \cup Segments
  THEN FileContent(s.image, IF p = "protect" THEN n ELSE HeadersDone(s, p, n), i)
  ELSE LinkedContent(s.image, i)

(* The pages of the sections up to n that are to be read-only.             *)
SealedPages(im, n) == UNION {PagesOf(SealPages(im, j)) : j \in {j \in ReadOnly(im) : j < n}}

SealedStatus(s, p, n, i) ==
  IF p \in {"section", "sealed"} /\ i \in SealedPages(s.image, n) THEN MB_ST_R
  ELSE LinkedStatus(s, i)

(* Where the loader can be.                                                *)
Place(s, p, n) ==
  \/ p \in Setting \cup {"refused"}
  \/ p = "map" /\ n \in 1 .. Len(s.image.phdrs) + 1
  \/ /\ p \in {"copy", "protect"} /\ n \in DOMAIN s.image.phdrs /\ Loaded(s.image.phdrs[n])
     /\ p = "copy" => s.image.phdrs[n].filesz # 0
  \/ p \in Stacks /\ n \in 1 .. 2
  \/ p \in {"loaded", "started", "heap"}
  \/ p = "section" /\ n \in 1 .. Len(s.image.sections) + 1
  \/ p = "sealed" /\ n = Len(s.image.sections) + 1

BootState ==
  /\ setup \in Setups /\ Place(setup, pc, idx) /\ ~ignored
  /\ phase = IF pc = "refused" THEN "freed" ELSE "live"
  /\ sealed = (pc = "sealed")
  /\ pc = "new" => ~active
  /\ pc \in Setting \cup Segments \cup Stacks \cup {"loaded"} =>
       \A i \in Pages :
         /\ pages[i].status = StatusAt(setup, pc, idx, i)
         /\ pages[i].invisible = HiddenAt(setup, pc, idx, i)
         /\ mem[i] = ContentAt(setup, pc, idx, i)
  /\ pc \in Sealing =>
       /\ \A i \in Pages \ PagesOf(layout.sealed) :
            pages[i].status = SealedStatus(setup, pc, idx, i)
       /\ \E h \in {MB_ST_FREE, IF pc \in {"started", "heap"} THEN MB_ST_RW ELSE MB_ST_R} :
            \A i \in PagesOf(layout.sealed) : pages[i].status = h

BootInv == TypeOK /\ BootState

=============================================================================
