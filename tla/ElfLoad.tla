------------------------------ MODULE ElfLoad -------------------------------
(***************************************************************************)
(* How a guest image gets into its memory block: the layout that           *)
(* mb_host_new computes (source/host/host.c), the ELF loader and its part  *)
(* of the seal (source/host/elf.c).                                        *)
(*                                                                         *)
(* The loader is one loop after another of calls on the block.  A step     *)
(* makes one call; pc is what comes next and idx where its loop is.  The   *)
(* loader looks at no result: `ignored` notes that there was an error.     *)
(* Between load and seal, and after the seal, the guest writes where it    *)
(* may.                                                                    *)
(*                                                                         *)
(* An image is its program headers, its sections and the place of          *)
(* __wbxsysinfo.  The bytes of a file are one value per segment.           *)
(***************************************************************************)
EXTENDS MemBlock, Sequences, FiniteSetsExt

CONSTANTS
  Setups,     \* the images, each with the sizes of the areas that it asks for
  StackSize,  \* size of each of the two stacks (1 MiB)
  GuardSize,  \* inaccessible low end of a stack (4 pages)
  InfoSize,   \* sizeof(mb_layout)
  InfoData,   \* what the loader writes to __wbxsysinfo
  GuestData,  \* what guests write
  GuestPages  \* the pages that guests write to

VARIABLES
  setup,      \* the image being loaded, and the sizes
  pc,         \* what mb_host_new, mb_elf_load or mb_host_seal does next
  idx,        \* the program header, stack or section that it is at
  ignored     \* history: the block refused a call on an area that is not empty

bvars == <<vars, setup, pc, idx, ignored>>

-----------------------------------------------------------------------------
(* The layout.                                                             *)

(* The headers that have an address.                                       *)
Addressed(im) == {j \in DOMAIN im.phdrs : im.phdrs[j].vaddr # 0}

(* From the lowest to the highest address of the program headers.          *)
mb_elf_span(im) ==
  LET lo == Min({im.phdrs[j].vaddr : j \in Addressed(im)})
      hi == Max({im.phdrs[j].vaddr + im.phdrs[j].memsz : j \in Addressed(im)})
  IN  [start |-> lo, size |-> hi - lo]

(* An area of the given size behind area a.                                *)
After(a, size) == [start |-> range_end(a), size |-> align_up(size)]

Layout(s) ==
  LET elf    == align_expand(mb_elf_span(s.image))
      main   == After(elf, StackSize)
      alt    == After(main, StackSize)
      sbrk   == After(alt, s.sbrk)
      sealing == After(sbrk, s.sealed)
      invis  == After(sealing, s.invis)
      plain  == After(invis, s.plain)
  IN  [elf |-> elf, main_thread |-> main, alt_thread |-> alt, sbrk |-> sbrk, sealed |-> sealing,
       invis |-> invis, plain |-> plain, mmap_arena |-> After(plain, s.mmap)]

(* The two stacks, and the low end of one.                                 *)
Stack(s, n) == IF n = 1 THEN Layout(s).main_thread ELSE Layout(s).alt_thread
Guard(r) == [start |-> r.start, size |-> GuardSize]

layout_all(l) == [start |-> l.elf.start, size |-> range_end(l.mmap_arena) - l.elf.start]

-----------------------------------------------------------------------------
(* The parts of an image.                                                  *)

Segment(p) == [start |-> p.vaddr, size |-> p.memsz]
SegmentPages(p) == align_expand(Segment(p))
FileBytes(p) == [start |-> p.vaddr, size |-> p.filesz]
Loaded(p) == p.load /\ p.vaddr # 0 /\ SegmentPages(p).size # 0

segment_prot(flags) ==
  CASE "w" \in flags /\ "x" \in flags -> "RWX"
    [] "w" \in flags /\ "x" \notin flags -> "RW"
    [] "w" \notin flags /\ "x" \in flags -> "RX"
    [] flags = {"r"} -> "R"
    [] flags = {} -> "NONE"

(* The sections that the loader keeps.                                     *)
Kept(im) ==
  {j \in DOMAIN im.sections :
     LET sec == im.sections[j] IN ~sec.nobits /\ sec.name # "" /\ sec.addr.start # 0}

SectionPages(im, j) == align_expand(im.sections[j].addr)

Overlap(r, q) == r.start < range_end(q) /\ q.start < range_end(r)

(* The first section of that name, if there is any.                        *)
Invis(im) ==
  LET I == {j \in Kept(im) : im.sections[j].name = ".invis"}
  IN  {i \in I : \A j \in I : i <= j}

(* Another section has bytes on a page of .invis.                          *)
InvisShared(im) ==
  \E i \in Invis(im), j \in Kept(im) :
    i # j /\ SectionPages(im, j).size # 0 /\ Overlap(SectionPages(im, j), SectionPages(im, i))

section_ro_after_seal(name) ==
  name \in {".data.rel.ro", ".got", ".got.plt", ".init_array", ".fini_array", ".tbss", ".sealed"}

(* The sections that the seal makes read-only.                             *)
ReadOnly(im) ==
  {j \in Kept(im) : SectionPages(im, j).size # 0 /\ section_ro_after_seal(im.sections[j].name)}

(* Faulty variant: the pages after the first are left out.                 *)
SealPages_First(im, j) == [start |-> align_down(im.sections[j].addr.start), size |-> PageSize]

SealPages(im, j) == SectionPages(im, j)

-----------------------------------------------------------------------------
(* What the loader relies on.                                              *)

Inside(r, q) == q.start <= r.start /\ range_end(r) <= range_end(q)

InSegment(im, r) ==
  r.size # 0 /\ \E j \in DOMAIN im.phdrs : Loaded(im.phdrs[j]) /\ Inside(r, Segment(im.phdrs[j]))

Area == [start : Nat, size : Nat]
Header ==
  [load : BOOLEAN, vaddr : Nat, memsz : Nat, filesz : Nat, flags : SUBSET {"r", "w", "x"},
   data : Values]

(* What linkers see to: a file has no more of a segment than there is in   *)
(* memory, sections and __wbxsysinfo lie in segments, and what is to be    *)
(* read-only after the seal has pages of its own.                          *)
WellLinked(im) ==
  /\ im.phdrs \in Seq(Header) /\ Addressed(im) # {}
  /\ im.sections \in Seq([name : STRING, nobits : BOOLEAN, addr : Area])
  /\ im.info \in Area
  /\ \A j \in DOMAIN im.phdrs : im.phdrs[j].filesz <= im.phdrs[j].memsz
  /\ \A j \in Kept(im) : InSegment(im, im.sections[j].addr)
  /\ im.info.start # 0 => InSegment(im, im.info)
  /\ \A i \in ReadOnly(im), j \in Kept(im) \ ReadOnly(im) :
       ~Overlap(SectionPages(im, i), SectionPages(im, j))

(* The areas that are passed to the block.                                 *)
CallAreas(s) ==
  {SegmentPages(s.image.phdrs[j]) : j \in DOMAIN s.image.phdrs}
  \cup {FileBytes(s.image.phdrs[j]) : j \in DOMAIN s.image.phdrs}
  \cup {SectionPages(s.image, j) : j \in Kept(s.image)}
  \cup {Stack(s, n) : n \in 1 .. 2} \cup {Guard(Stack(s, n)) : n \in 1 .. 2}
  \cup {s.image.info, Layout(s).sealed, Layout(s).invis}

(* The block is made for the layout.  This is the Linux build, where a     *)
(* call that fails leaves no trace.                                        *)
ASSUME ElfLoadAssumption ==
  /\ ~Windows /\ Prots = MB_PROT
  /\ \A s \in Setups :
       /\ WellLinked(s.image)
       /\ {s.sbrk, s.sealed, s.invis, s.plain, s.mmap} \subseteq Nat
       /\ layout_all(Layout(s)) = [start |-> Base, size |-> NPages * PageSize]
       /\ CallAreas(s) \subseteq Ranges
  /\ GuardSize \in Nat \ {0} /\ GuardSize % PageSize = 0
  /\ StackSize \in Nat /\ GuardSize <= StackSize
  /\ InfoData \in Values /\ GuestData \in Values /\ GuestPages \subseteq Pages

-----------------------------------------------------------------------------
(* The calls on the block.                                                 *)

(* The call A on area r is taken, or it changes nothing and the loader     *)
(* goes on.                                                                *)
Answer(r, taken, A) ==
  \/ taken /\ A /\ UNCHANGED ignored
  \/ ~taken /\ UNCHANGED vars /\ ignored' = (ignored \/ r.size # 0)

Hides(r) == Answer(r, validate(r) /\ ~sealed, MarkInvisible(r))
Maps(r, prot, no_replace) ==
  Answer(r, validate(r) /\ (no_replace => AllFree(PagesOf(r))), MmapFixed(r, prot, no_replace))
Copies(r, v) == Answer(r, validate(align_expand(r)), copy_from_external(r, v))
Protects(r, prot) == Answer(r, validate(r) /\ NoneFree(PagesOf(r)), Mprotect(r, prot))
NoCall == UNCHANGED <<vars, ignored>>

Goto(p, i) == pc' = p /\ idx' = i /\ UNCHANGED setup

image == setup.image
layout == Layout(setup)

-----------------------------------------------------------------------------
(* Loading.                                                                *)

BootInit ==
  /\ Init
  /\ setup \in Setups
  /\ pc = "new" /\ idx = 1
  /\ ignored = FALSE

(* mb_host_new activates the block and calls the loader.                   *)
StartLoading ==
  /\ pc = "new"
  /\ Activate /\ UNCHANGED ignored
  /\ Goto("invis", 1)

HideInvis ==
  /\ pc = "invis" /\ image.valid /\ ~InvisShared(image)
  /\ \/ Invis(image) = {} /\ NoCall
     \/ \E j \in Invis(image) : Hides(SectionPages(image, j))
  /\ Goto("arena", 1)

HideArena ==
  /\ pc = "arena"
  /\ Hides(layout.invis)
  /\ Goto("map", 1)

header == image.phdrs[idx]
AtHeader == idx \in DOMAIN image.phdrs

SkipHeader ==
  /\ pc = "map" /\ AtHeader /\ ~Loaded(header)
  /\ NoCall
  /\ Goto("map", idx + 1)

(* Faulty variant: only the pages with file content are mapped.            *)
MapSegment_FileSize ==
  /\ pc = "map" /\ AtHeader /\ Loaded(header)
  /\ Maps(align_expand(FileBytes(header)), "RW", FALSE)
  /\ Goto(IF header.filesz # 0 THEN "copy" ELSE "protect", idx)

(* Faulty variant: a mapping that is there already is not replaced.        *)
MapSegment_NoReplace ==
  /\ pc = "map" /\ AtHeader /\ Loaded(header)
  /\ Maps(SegmentPages(header), "RW", TRUE)
  /\ Goto(IF header.filesz # 0 THEN "copy" ELSE "protect", idx)

(* Mapped writable, filled, then protected as the header says.  A segment  *)
(* that shares a page with an earlier one takes the page over.             *)
MapSegment ==
  /\ pc = "map" /\ AtHeader /\ Loaded(header)
  /\ Maps(SegmentPages(header), "RW", FALSE)
  /\ Goto(IF header.filesz # 0 THEN "copy" ELSE "protect", idx)

CopySegment ==
  /\ pc = "copy"
  /\ Copies(FileBytes(header), header.data)
  /\ Goto("protect", idx)

ProtectSegment ==
  /\ pc = "protect"
  /\ Protects(SegmentPages(header), segment_prot(header.flags))
  /\ Goto("map", idx + 1)

FillInfo ==
  /\ pc = "map" /\ ~AtHeader
  /\ \/ image.info.start = 0 /\ NoCall
     \/ image.info.start # 0 /\ image.info.size = InfoSize /\ Copies(image.info, InfoData)
  /\ Goto("stack", 1)

MapStack ==
  /\ pc = "stack"
  /\ Maps(Stack(setup, idx), "RWSTACK", TRUE)
  /\ Goto("guard", idx)

(* Faulty variant: the guard is put up at the high end.                    *)
GuardStack_High ==
  LET r == Stack(setup, idx) IN
  /\ pc = "guard"
  /\ Protects([start |-> range_end(r) - GuardSize, size |-> GuardSize], "NONE")
  /\ Goto("hide", idx)

GuardStack ==
  /\ pc = "guard"
  /\ Protects(Guard(Stack(setup, idx)), "NONE")
  /\ Goto("hide", idx)

(* Faulty variant: the main stack is hidden twice.                         *)
HideStack_Main ==
  /\ pc = "hide"
  /\ Hides(layout.main_thread)
  /\ Goto(IF idx = 1 THEN "stack" ELSE "loaded", idx + 1)

HideStack ==
  /\ pc = "hide"
  /\ Hides(Stack(setup, idx))
  /\ Goto(IF idx = 1 THEN "stack" ELSE "loaded", idx + 1)

(* The loader fails, and mb_host_new frees what it has made.               *)
LoadRefused ==
  /\ \/ pc = "invis" /\ (~image.valid \/ InvisShared(image))
     \/ pc = "map" /\ ~AtHeader /\ image.info.start # 0 /\ image.info.size # InfoSize
  /\ Free /\ UNCHANGED ignored
  /\ Goto("refused", idx)

(* The guest's _start is called.                                           *)
LoadDone ==
  /\ pc = "loaded"
  /\ NoCall
  /\ Goto("started", idx)

-----------------------------------------------------------------------------
(* The guest, and the seal.                                                *)

(* The guest writes, and takes parts of its heaps into use; the client     *)
(* activates and deactivates.                                              *)
GuestRuns ==
  /\ pc \in {"started", "sealed"}
  /\ \/ \E i \in GuestPages : GuestWrite(i, GuestData) \/ TripWrite(i, GuestData)
     \/ pc = "started" /\ MmapFixed(layout.sealed, "RW", TRUE)
     \/ Activate
     \/ Deactivate
  /\ UNCHANGED <<setup, pc, idx, ignored>>

StartSealing ==
  /\ pc = "started"
  /\ IF active THEN UNCHANGED vars ELSE Activate
  /\ UNCHANGED ignored
  /\ Goto("heap", 1)

(* The guest's ecl_seal takes the sealed heap, if there is any.            *)
SealHeap ==
  /\ pc = "heap"
  /\ IF layout.sealed.size # 0 /\ NoneFree(PagesOf(layout.sealed))
     THEN Protects(layout.sealed, "R") ELSE NoCall
  /\ Goto("section", 1)

SealSection ==
  /\ pc = "section" /\ idx \in DOMAIN image.sections
  /\ IF idx \in ReadOnly(image) THEN Protects(SealPages(image, idx), "R") ELSE NoCall
  /\ Goto("section", idx + 1)

EndSealing ==
  /\ pc = "section" /\ idx \notin DOMAIN image.sections
  /\ Seal /\ UNCHANGED ignored
  /\ Goto("sealed", idx)

BootNext ==
  \/ StartLoading \/ HideInvis \/ HideArena
  \/ SkipHeader \/ MapSegment \/ CopySegment \/ ProtectSegment
  \/ FillInfo \/ MapStack \/ GuardStack \/ HideStack
  \/ LoadRefused \/ LoadDone
  \/ GuestRuns
  \/ StartSealing \/ SealHeap \/ SealSection \/ EndSealing

BootSpec == BootInit /\ [][BootNext]_bvars

-----------------------------------------------------------------------------
(* Properties.                                                             *)

(* Every call that the loader and the seal make on an area that is not     *)
(* empty is one that the block takes, though nobody looks at the results   *)
(* (elf.c:136-172, 203): nothing else has taken the stacks' pages, and     *)
(* what is protected has been mapped.                                      *)
CallsAreTaken == ~ignored

(* Those of the first n headers that put bytes, or bytes of the file, on   *)
(* page i.                                                                 *)
SegmentsOf(im, n, i) ==
  {j \in 1 .. n : Loaded(im.phdrs[j]) /\ i \in PagesOf(SegmentPages(im.phdrs[j]))}
FilesOf(im, n, i) ==
  {j \in SegmentsOf(im, n, i) :
     im.phdrs[j].filesz # 0 /\ i \in PagesOf(align_expand(FileBytes(im.phdrs[j])))}

(* What they make of the page: the last one has its way.                   *)
SegmentStatus(im, n, i) ==
  IF SegmentsOf(im, n, i) = {} THEN MB_ST_FREE
  ELSE prot_status(segment_prot(im.phdrs[Max(SegmentsOf(im, n, i))].flags))
FileContent(im, n, i) ==
  IF FilesOf(im, n, i) = {} THEN Zero ELSE im.phdrs[Max(FilesOf(im, n, i))].data

LinkedStatus(s, i) ==
  IF \E n \in 1 .. 2 : i \in PagesOf(Guard(Stack(s, n))) THEN MB_ST_NONE
  ELSE IF \E n \in 1 .. 2 : i \in PagesOf(Stack(s, n)) THEN MB_ST_RWSTACK
  ELSE SegmentStatus(s.image, Len(s.image.phdrs), i)

LinkedContent(im, i) ==
  IF im.info.start # 0 /\ i \in PagesOf(align_expand(im.info)) THEN InfoData
  ELSE FileContent(im, Len(im.phdrs), i)

HiddenPage(s, i) ==
  \/ \E j \in Invis(s.image) : i \in PagesOf(SectionPages(s.image, j))
  \/ i \in PagesOf(Layout(s).invis)
  \/ \E n \in 1 .. 2 : i \in PagesOf(Stack(s, n))

(* When the loader is done, every page is as the image was linked: it has  *)
(* the protection of its segment and the content of the file, the stacks   *)
(* are there with their guards, all else is free, and exactly .invis, the  *)
(* invisible heap and the stacks are outside savestates (mb_elf_load).     *)
LoadedAsLinked ==
  pc = "loaded" =>
    \A i \in Pages :
      /\ pages[i].status = LinkedStatus(setup, i)
      /\ pages[i].invisible = HiddenPage(setup, i)
      /\ mem[i] = LinkedContent(image, i)

(* The pages that hold a byte of area a.                                   *)
Holding(a) ==
  {i \in Pages : \E b \in a.start .. range_end(a) - 1 : PageAddr(i) = align_down(b)}

(* From the seal on, no byte of a section that is to be read-only can be   *)
(* written, nor any of the sealed heap; every other page, and so every     *)
(* byte of the other sections, grants what it was linked to grant, though  *)
(* the seal takes away whole pages (mb_elf_seal; the linker script keeps   *)
(* the two kinds of sections on pages of their own).                       *)
SealTakesExactly ==
  pc = "sealed" =>
    LET ro == UNION {Holding(image.sections[j].addr) : j \in ReadOnly(image)}
        heap == PagesOf(layout.sealed)
    IN  /\ \A i \in heap : pages[i].status \in {MB_ST_FREE, MB_ST_R}
        /\ \A i \in Pages \ heap :
             pages[i].status = IF i \in ro THEN MB_ST_R ELSE LinkedStatus(setup, i)
        /\ \A j \in Kept(image) \ ReadOnly(image) : \A i \in Holding(image.sections[j].addr) :
             pages[i].status = LinkedStatus(setup, i)

(* The loader keeps to what MemBlock says of its callers, so that all that *)
(* is shown of the block holds of a block that a guest is loaded into: it  *)
(* copies only to pages that it has mapped, and before the seal.           *)
KeepsToBlock == Init /\ [][Next]_vars

=============================================================================
