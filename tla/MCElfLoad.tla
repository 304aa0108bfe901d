------------------------------ MODULE MCElfLoad -----------------------------
(***************************************************************************)
(* Small images for TLC, laid out as the linker script lays them out (two  *)
(* units to the page):                                                     *)
(*   2-4   .text     6 .got    7 .init_array   8-9 .sealed                 *)
(*   10    .invis, with __wbxsysinfo    12 .data    13-14 .bss             *)
(* The block has seven pages for the image, two for each stack, and four   *)
(* for the heaps.                                                          *)
(***************************************************************************)
EXTENDS ElfLoadInv

CONSTANTS Text, Data

PT_LOAD(vaddr, memsz, filesz, flags, data) ==
  [load |-> TRUE, vaddr |-> vaddr, memsz |-> memsz, filesz |-> filesz, flags |-> flags, data |-> data]

Section(name, start, size) ==
  [name |-> name, addr |-> [start |-> start, size |-> size], nobits |-> name = ".bss"]

TextSegment == PT_LOAD(2, 3, 3, {"r", "x"}, Text)
DataSegment == PT_LOAD(6, 9, 7, {"r", "w"}, Data)

(* PT_GNU_STACK, which is not loaded and has no address.                   *)
StackHeader == [PT_LOAD(0, 0, 0, {"r", "w"}, Zero) EXCEPT !.load = FALSE]

(* PT_TLS, which lies in the data segment.                                 *)
TlsHeader == [PT_LOAD(6, 1, 1, {"r"}, Data) EXCEPT !.load = FALSE]

Linked ==
  [valid |-> TRUE,
   phdrs |-> <<TextSegment, TlsHeader, DataSegment, StackHeader>>,
   sections |-> <<Section(".text", 2, 3), Section(".got", 6, 1), Section(".init_array", 7, 1),
                  Section(".sealed", 8, 2), Section(".invis", 10, 1), Section(".data", 12, 1),
                  Section(".bss", 13, 2)>>,
   info |-> [start |-> 10, size |-> 1]]

(* No invisible data and no __wbxsysinfo; the text shares a page with      *)
(* read-only data; a segment of .bss alone.                                *)
Plainer ==
  [valid |-> TRUE,
   phdrs |-> <<PT_LOAD(2, 1, 1, {"r"}, Data), PT_LOAD(3, 2, 2, {"x"}, Text),
               PT_LOAD(6, 7, 7, {"r", "w"}, Data), PT_LOAD(14, 1, 0, {"r", "w", "x"}, Data)>>,
   sections |-> <<Section(".rodata", 2, 1), Section(".text", 3, 2), Section(".data.rel.ro", 6, 3),
                  Section(".data", 12, 1), Section(".bss", 14, 1)>>,
   info |-> [start |-> 0, size |-> 0]]

NotElf == [Linked EXCEPT !.valid = FALSE]
SharesInvis == [Linked EXCEPT !.sections[6] = Section(".data", 11, 2)]
OldSysinfo == [Linked EXCEPT !.info.size = 2]

With(im, sealing, invis, plain) ==
  [image |-> im, sbrk |-> 2, sealed |-> sealing, invis |-> invis, plain |-> plain, mmap |-> 2]

SmallSetups ==
  {With(Linked, 1, 1, 0), With(Linked, 0, 0, 4), With(Plainer, 2, 0, 2),
   With(NotElf, 2, 2, 0), With(SharesInvis, 2, 2, 0), With(OldSysinfo, 2, 2, 0)}

(* The ranges of all the calls.                                            *)
CallRanges == UNION {CallAreas(s) : s \in Setups}

NoArena == [start |-> 0, size |-> 0]

=============================================================================
