-------------------------- MODULE MemBlock_proofs ---------------------------
(***************************************************************************)
(* Proofs about the memory block, for any number of pages and any          *)
(* contents: its types, what its mappings leave alone, its inductive       *)
(* invariant, and what follows from that: dirty tracking misses no write,  *)
(* baselines survive, loads restore, and the block implements the guest's  *)
(* machine.                                                                *)
(***************************************************************************)
EXTENDS MemBlockInv, TLAPS

-----------------------------------------------------------------------------
(* Type correctness.                                                       *)

(* Every page record calls for one of the host's protections               *)
(* (mb_page_native_prot).                                                  *)
LEMMA NativeProtType ==
  ASSUME NEW p \in PageRecord
  PROVE  native_prot(p) \in MB_PROT
BY DEF PageRecord, MB_ST, MB_PROT, native_prot, status_prot,
       MB_ST_FREE, MB_ST_NONE, MB_ST_R, MB_ST_RW, MB_ST_RX, MB_ST_RWX, MB_ST_RWSTACK

(* A protection names the status of an allocated page (prot_status).       *)
LEMMA ProtStatusType ==
  ASSUME NEW prot
  PROVE  prot_status(prot) \in MB_ST \ {MB_ST_FREE}
BY DEF MB_ST, prot_status,
       MB_ST_FREE, MB_ST_NONE, MB_ST_R, MB_ST_RW, MB_ST_RX, MB_ST_RWX, MB_ST_RWSTACK

(* The operations on one page record yield page records.                   *)
LEMMA SnapshotType ==
  ASSUME NEW p \in PageRecord, NEW c \in Values
  PROVE  maybe_snapshot(p, c) \in PageRecord
BY Zenon DEF PageRecord, maybe_snapshot

(* Taking the snapshot of a guard page early keeps its record well formed. *)
LEMMA PrecaptureType ==
  ASSUME NEW p \in PageRecord, NEW c \in Values, NEW s \in MB_ST
  PROVE  precapture([p EXCEPT !.status = s], c) \in PageRecord
<1>1. [p EXCEPT !.status = s] \in PageRecord
  BY DEF PageRecord
<1>2. QED
  BY <1>1, SnapshotType DEF precapture

(* The guard-bit scan keeps every page record well formed.                 *)
LEMMA ScanType ==
  ASSUME NEW pg \in [Pages -> PageRecord]
  PROVE  get_stack_dirty(pg) \in [Pages -> PageRecord]
<1>1. ASSUME NEW i \in Pages
      PROVE  [pg[i] EXCEPT !.dirty = TRUE] \in PageRecord
  BY Zenon DEF PageRecord
<1>2. QED
  BY <1>1 DEF get_stack_dirty

(* The record of a page whose content is zeroed is well formed.            *)
LEMMA ZeroedType ==
  ASSUME NEW p \in PageRecord, NEW c \in Values
  PROVE  /\ Zeroed(p, c) \in PageRecord
         /\ [Zeroed(p, c) EXCEPT !.status = MB_ST_FREE] \in PageRecord
<1>1. maybe_snapshot(p, c) \in PageRecord
  BY SnapshotType
<1>2. Zeroed(p, c) \in PageRecord
  BY <1>1, Zenon DEF Zeroed, PageRecord
<1>3. QED
  BY <1>2 DEF PageRecord, MB_ST

(* The record of a sealed page is well formed.                             *)
LEMMA SealedType ==
  ASSUME NEW p \in PageRecord, NEW c \in Values
  PROVE  Sealed(p, c) \in PageRecord
<1> DEFINE q == [p EXCEPT !.dirty = FALSE, !.snap_kind = "NONE", !.snap_data = Zero]
<1>1. q \in PageRecord
  BY MemBlockAssumption, Zenon DEF PageRecord
<1>2. precapture(q, c) \in PageRecord
  BY <1>1, SnapshotType DEF precapture
<1>3. QED
  BY <1>2 DEF Sealed

(* The record of a page that a load has been through is well formed.       *)
LEMMA LoadedType ==
  ASSUME NEW p \in PageRecord, NEW c \in Values, NEW s \in MB_ST, NEW d \in BOOLEAN
  PROVE  LoadedPage(p, c, s, d) \in PageRecord
<1>1. maybe_snapshot(p, c) \in PageRecord
  BY SnapshotType
<1>2. QED
  BY <1>1, Zenon DEF LoadedPage, PageRecord

(* A load leaves a page with a content: its own, the stream's or its       *)
(* baseline.                                                               *)
LEMMA LoadedContentType ==
  ASSUME NEW p \in PageRecord, NEW c \in Values, NEW d \in BOOLEAN, NEW v \in Values
  PROVE  LoadedContent(p, c, d, v) \in Values
BY MemBlockAssumption DEF LoadedContent, PageRecord

(* A refresh installs protections.                                         *)
LEMMA RefreshType ==
  ASSUME TypeOK, pages' \in [Pages -> PageRecord], NEW R, refresh(R)
  PROVE  host' \in [Pages -> MB_PROT]
<1>1. ASSUME NEW i \in Pages
      PROVE  native_prot(pages'[i]) \in MB_PROT
  BY NativeProtType
<1>2. QED
  BY <1>1 DEF refresh, TypeOK

(* The two ways in which mapping operations change pages.                  *)
LEMMA SetProtectionsType ==
  ASSUME TypeOK, NEW pg \in [Pages -> PageRecord], NEW R, NEW s \in MB_ST,
         set_protections(pg, R, s)
  PROVE  TypeOK'
<1>1. ASSUME NEW i \in Pages
      PROVE  precapture([pg[i] EXCEPT !.status = s], mem[i]) \in PageRecord
  BY PrecaptureType DEF TypeOK
<1>2. pages' \in [Pages -> PageRecord]
  BY <1>1 DEF set_protections
<1>3. host' \in [Pages -> MB_PROT]
  BY <1>2, RefreshType DEF set_protections
<1>4. QED
  BY <1>2, <1>3 DEF set_protections, lifecycle, history, TypeOK

(* free_pages keeps the types of the variables it assigns.                 *)
LEMMA FreePagesType ==
  ASSUME TypeOK, NEW pg \in [Pages -> PageRecord], NEW R, NEW advise_only,
         free_pages(pg, R, advise_only)
  PROVE  TypeOK'
<1>1. ASSUME NEW i \in Pages
      PROVE  /\ Zeroed(pg[i], mem[i]) \in PageRecord
             /\ [Zeroed(pg[i], mem[i]) EXCEPT !.status = MB_ST_FREE] \in PageRecord
  BY ZeroedType DEF TypeOK
<1>2. pages' \in [Pages -> PageRecord]
  BY <1>1 DEF free_pages
<1>3. host' \in [Pages -> MB_PROT]
  BY <1>2, RefreshType DEF free_pages
<1>4. mem' \in [Pages -> Values]
  BY MemBlockAssumption DEF free_pages, TypeOK
<1>5. QED
  BY <1>2, <1>3, <1>4 DEF free_pages, lifecycle, history, TypeOK

(* The loading loop yields page records, however far it gets.              *)
LEMMA LoadLoopType ==
  ASSUME TypeOK, NEW s \in SavedState, NEW pg \in [Pages -> PageRecord], NEW n,
         LoadLoop(s, pg, n)
  PROVE  pages' \in [Pages -> PageRecord]
<1>1. ASSUME NEW i \in Pages
      PROVE  /\ LoadedPage(pg[i], mem[i], s.status[i], s.dirty[i]) \in PageRecord
             /\ maybe_snapshot(pg[i], mem[i]) \in PageRecord
  BY LoadedType, SnapshotType DEF TypeOK, SavedState
<1>2. QED
  BY <1>1 DEF LoadLoop

(* Every step keeps the declared shape.                                    *)
LEMMA TypeStep ==
  ASSUME TypeOK, [Next]_vars
  PROVE  TypeOK'
<1>s. pages \in [Pages -> PageRecord] /\ get_stack_dirty(pages) \in [Pages -> PageRecord]
  BY ScanType DEF TypeOK
<1>1. CASE Activate
  <2>1. ASSUME NEW i \in Pages PROVE native_prot(pages[i]) \in MB_PROT
    BY <1>s, NativeProtType
  <2>2. QED
    BY <1>1, <2>1 DEF Activate, TypeOK, history
<1>2. CASE Deactivate \/ Free
  BY <1>2, Zenon DEF Deactivate, Free, TypeOK, history
<1>3. ASSUME NEW r \in Ranges, NEW prot \in Prots, NEW no_replace \in BOOLEAN,
             MmapFixed(r, prot, no_replace)
      PROVE  TypeOK'
  BY <1>3, <1>s, SetProtectionsType, ProtStatusType DEF MmapFixed
<1>4. ASSUME NEW r \in Ranges, NEW prot \in Prots, MmapAnonymous(r.size, prot)
      PROVE  TypeOK'
  BY <1>4, <1>s, SetProtectionsType, ProtStatusType DEF MmapAnonymous
<1>5. ASSUME NEW r \in Ranges, NEW prot \in Prots, Mprotect(r, prot)
      PROVE  TypeOK'
  BY <1>5, <1>s, SetProtectionsType, ProtStatusType DEF Mprotect
<1>6. ASSUME NEW r \in Ranges, NEW advise_only \in BOOLEAN, Munmap(r, advise_only)
      PROVE  TypeOK'
  BY <1>6, <1>s, FreePagesType DEF Munmap
<1>7. ASSUME NEW r \in Ranges, NEW q \in Ranges, MremapGrow(r, q.size)
      PROVE  TypeOK'
  <2>1. PICK first \in Pages :
          set_protections(get_stack_dirty(pages),
            PagesOf([start |-> r.start, size |-> q.size]) \ PagesOf(r),
            pages[first].status)
    BY <1>7, Zenon DEF MremapGrow, PagesOf
  <2>2. pages[first].status \in MB_ST
    BY <1>s DEF PageRecord
  <2>3. QED
    BY <2>1, <2>2, <1>s, SetProtectionsType
<1>8. ASSUME NEW r \in Ranges, NEW q \in Ranges, MremapShrink(r, q.size)
      PROVE  TypeOK'
  BY <1>8, <1>s, FreePagesType, Zenon DEF MremapShrink
<1>9. CASE RefusedAfterScan
  BY <1>9, <1>s DEF RefusedAfterScan, TypeOK, lifecycle, history
<1>10. ASSUME NEW r \in Ranges, MarkInvisible(r)
       PROVE  TypeOK'
  <2>1. ASSUME NEW i \in Pages
        PROVE  [pages[i] EXCEPT !.dirty = TRUE, !.invisible = TRUE] \in PageRecord
    BY <1>s, Zenon DEF PageRecord
  <2>2. pages' \in [Pages -> PageRecord]
    BY <1>10, <1>s, <2>1, Zenon DEF MarkInvisible
  <2>3. host' \in [Pages -> MB_PROT]
    BY <1>10, <2>2, RefreshType, Zenon DEF MarkInvisible
  <2>4. QED
    BY <1>10, <2>2, <2>3, Zenon DEF MarkInvisible, TypeOK, lifecycle, history
<1>11. ASSUME NEW r \in Ranges, NEW v \in Values, CopyFromExternal(r, v)
       PROVE  TypeOK'
  <2>1. pages' \in [Pages -> PageRecord]
    <3>1. ASSUME NEW i \in Pages
          PROVE  [pages[i] EXCEPT !.dirty = TRUE] \in PageRecord
      BY <1>s, Zenon DEF PageRecord
    <3>2. QED
      BY <1>11, <1>s, <3>1 DEF CopyFromExternal, copy_from_external
  <2>2. mem' \in [Pages -> Values]
    BY <1>11 DEF CopyFromExternal, copy_from_external, TypeOK
  <2>3. QED
    BY <1>11, <2>1, <2>2 DEF CopyFromExternal, copy_from_external, TypeOK, lifecycle, history
<1>12. CASE Seal
  <2>1. ASSUME NEW i \in Pages
        PROVE  Sealed(get_stack_dirty(pages)[i], mem[i]) \in PageRecord
    BY <1>s, SealedType DEF TypeOK
  <2>2. pages' \in [Pages -> PageRecord]
    BY <1>12, <2>1 DEF Seal
  <2>3. host' \in [Pages -> MB_PROT]
    BY <1>12, <2>2, RefreshType DEF Seal
  <2>4. base' \in [Pages -> Values]
    BY <1>12, MemBlockAssumption DEF Seal, Image, TypeOK
  <2>5. QED
    BY <1>12, <2>2, <2>3, <2>4 DEF Seal, TypeOK
<1>13. ASSUME NEW i \in Pages, NEW v \in Values, GuestWrite(i, v) \/ GuardTouch(i, v)
       PROVE  TypeOK'
  BY <1>13 DEF GuestWrite, GuardTouch, TypeOK, MB_PROT, lifecycle, history
<1>14. ASSUME NEW i \in Pages, NEW v \in Values, TripWrite(i, v)
       PROVE  TypeOK'
  <2>1. maybe_snapshot(pages[i], mem[i]) \in PageRecord
    BY <1>s, SnapshotType DEF TypeOK
  <2>2. [maybe_snapshot(pages[i], mem[i]) EXCEPT !.dirty = TRUE] \in PageRecord
    BY <2>1, Zenon DEF PageRecord
  <2>3. pages' \in [Pages -> PageRecord]
    BY <1>14, <2>2, <1>s DEF TripWrite
  <2>4. native_prot(pages'[i]) \in MB_PROT
    BY <2>3, NativeProtType
  <2>5. QED
    BY <1>14, <2>3, <2>4 DEF TripWrite, TypeOK, lifecycle, history
<1>15. ASSUME NEW i \in Pages, Fault(i)
       PROVE  TypeOK'
  BY <1>15 DEF Fault, TypeOK, history
<1>16. CASE SaveState
  <2>1. Stream(get_stack_dirty(pages)) \in SavedState
    BY <1>s, MemBlockAssumption DEF Stream, Image, SavedState, PageRecord, TypeOK
  <2>2. QED
    BY <1>16, <2>1, <1>s DEF SaveState, TypeOK, lifecycle
<1>17. ASSUME NEW s \in saved, LoadState(s)
       PROVE  TypeOK'
  <2> DEFINE pg == get_stack_dirty(pages)
  <2>1. s \in SavedState
    BY DEF TypeOK
  <2>2. pages' \in [Pages -> PageRecord]
    BY <1>17, <1>s, <2>1, LoadLoopType DEF LoadState
  <2>3. ASSUME NEW i \in Pages
        PROVE  /\ LoadedContent(pg[i], mem[i], s.dirty[i], s.data[i]) \in Values
               /\ native_prot(pages'[i]) \in MB_PROT
    BY <1>s, <2>1, <2>2, LoadedContentType, NativeProtType DEF TypeOK, SavedState
  <2>4. QED
    BY <1>17, <2>2, <2>3 DEF LoadState, TypeOK, lifecycle, history
<1>18. ASSUME NEW s \in saved, NEW n \in Pages, NEW v \in Values, LoadStateFails(s, n, v)
       PROVE  TypeOK'
  <2> DEFINE pg == get_stack_dirty(pages)
  <2>1. s \in SavedState
    BY DEF TypeOK
  <2>2. pages' \in [Pages -> PageRecord]
    BY <1>18, <1>s, <2>1, LoadLoopType DEF LoadStateFails
  <2>3. ASSUME NEW i \in Pages
        PROVE  /\ LoadedContent(pg[i], mem[i], s.dirty[i], s.data[i]) \in Values
               /\ native_prot(pages'[i]) \in MB_PROT
    BY <1>s, <2>1, <2>2, LoadedContentType, NativeProtType DEF TypeOK, SavedState
  <2>4. mem' \in [Pages -> Values] /\ host' \in [Pages -> MB_PROT]
    BY <1>18, <2>3 DEF LoadStateFails, TypeOK
  <2>5. QED
    BY <1>18, <2>2, <2>4 DEF LoadStateFails, TypeOK, lifecycle
<1>19. CASE UNCHANGED vars
  BY <1>19 DEF vars, TypeOK
<1>20. QED
  BY <1>1, <1>2, <1>3, <1>4, <1>5, <1>6, <1>7, <1>8, <1>9, <1>10, <1>11, <1>12,
     <1>13, <1>14, <1>15, <1>16, <1>17, <1>18, <1>19
  DEF Next, Mapping, Loader, Guest, States

(* Every reachable state has the declared shape.                           *)
THEOREM TypeCorrect == Spec => []TypeOK
<1>1. Init => TypeOK
  <2> SUFFICES ASSUME Init PROVE TypeOK
    OBVIOUS
  <2>1. [status |-> MB_ST_FREE, dirty |-> FALSE, invisible |-> FALSE,
         snap_kind |-> "ZERO", snap_data |-> Zero] \in PageRecord
    BY MemBlockAssumption DEF PageRecord, MB_ST
  <2>2. QED
    BY <2>1, MemBlockAssumption, Zenon DEF Init, TypeOK, MB_PROT
<1>2. TypeOK /\ [Next]_vars => TypeOK'
  BY TypeStep
<1>3. QED
  BY <1>1, <1>2, PTL DEF Spec

(* mmap without an address takes only free pages.                          *)
LEMMA PlacesAreFree ==
  ASSUME NEW F \in SUBSET Pages, NEW n \in Int, NEW k \in FreePlaces(F, n)
  PROVE  k .. k + n - 1 \subseteq F
<1>1. PICK j \in F : FreeRun(F, k, j) /\ j - k + 1 >= n
  BY DEF FreePlaces
<1>2. k \in Int /\ j \in Int
  BY <1>1, MemBlockAssumption DEF FreePlaces, Pages
<1>3. k .. k + n - 1 \subseteq k .. j
  BY <1>1, <1>2
<1>4. QED
  BY <1>1, <1>3 DEF FreeRun

(* An operation that maps only pages outside A leaves A as it is.          *)
LEMMA SetProtectionsKeeps ==
  ASSUME TypeOK, NEW R, NEW s, NEW pg \in {pages, get_stack_dirty(pages)},
         set_protections(pg, R, s), \A i \in R : pages[i].status = MB_ST_FREE,
         NEW i \in Pages, pages[i].status # MB_ST_FREE
  PROVE  pages'[i].status = pages[i].status /\ mem'[i] = mem[i]
<1>1. pg[i].status = pages[i].status
  BY DEF get_stack_dirty, TypeOK, PageRecord
<1>2. QED
  BY <1>1 DEF set_protections

(* mmap without an address, MAP_FIXED_NOREPLACE and a growing mremap take  *)
(* only free pages, whatever the ranges asked for.  This needs no          *)
(* assumption on stacks.                                                   *)
THEOREM NothingIsReplaced == Spec => NothingReplaced
<1> DEFINE Asks ==
      \/ \E r \in Ranges, prot \in Prots : MmapAnonymous(r.size, prot) \/ MmapFixed(r, prot, TRUE)
      \/ \E r, q \in Ranges : MremapGrow(r, q.size)
    Keeps ==
      \A i \in Pages : pages[i].status # MB_ST_FREE =>
        pages'[i].status = pages[i].status /\ mem'[i] = mem[i]
<1>1. ASSUME TypeOK, Asks PROVE Keeps
  <2>1. ASSUME NEW r \in Ranges, NEW prot \in Prots, MmapAnonymous(r.size, prot)
        PROVE  Keeps
    <3> DEFINE n == r.size \div PageSize
               F == {i \in PagesOf(Arena) : pages[i].status = MB_ST_FREE}
    <3>1. PICK k \in FreePlaces(F, n) :
            set_protections(pages, k .. k + n - 1, prot_status(prot))
      BY <2>1, Zenon DEF MmapAnonymous
    <3>2. n \in Int
      BY MemBlockAssumption
    <3>3. k .. k + n - 1 \subseteq F
      BY <3>2, PlacesAreFree DEF PagesOf
    <3>4. \A i \in k .. k + n - 1 : pages[i].status = MB_ST_FREE
      BY <3>3
    <3>5. QED
      BY <1>1, <3>1, <3>4, SetProtectionsKeeps, Zenon
  <2>2. ASSUME NEW r \in Ranges, NEW prot \in Prots, MmapFixed(r, prot, TRUE)
        PROVE  Keeps
    BY <1>1, <2>2, SetProtectionsKeeps DEF MmapFixed, AllFree
  <2>3. ASSUME NEW r \in Ranges, NEW q \in Ranges, MremapGrow(r, q.size)
        PROVE  Keeps
    BY <1>1, <2>3, SetProtectionsKeeps DEF MremapGrow, AllFree
  <2>4. QED
    BY <1>1, <2>1, <2>2, <2>3, Zenon
<1>2. TypeOK => (Asks => Keeps)
  BY <1>1, Zenon
<1>3. QED
  BY <1>2, TypeCorrect, PTL DEF NothingReplaced

-----------------------------------------------------------------------------
(* One page through one operation: p is its record, c its content, b its   *)
(* baseline, h the protection of its guest mapping, isSealed and isMapped  *)
(* the block's flags.                                                      *)

USE DEF MB_ST_FREE, MB_ST_NONE, MB_ST_R, MB_ST_RW, MB_ST_RX, MB_ST_RWX, MB_ST_RWSTACK

(* On Windows the guest maps nothing over a live stack page.               *)
StackDiscipline == Windows => ~GuestReplacesStacks

(* Page i after the guard-bit scan.                                        *)
Scanned(p, h, isMapped) ==
  IF Windows /\ isMapped /\ p.status = MB_ST_RWSTACK /\ h # "RWSTACK"
  THEN [p EXCEPT !.dirty = TRUE]
  ELSE p

(* Records that the loader has hidden, and that the fault handler has      *)
(* taken over.                                                             *)
Hidden(p) == [p EXCEPT !.dirty = TRUE, !.invisible = TRUE]
Tripped(p, c) == [maybe_snapshot(p, c) EXCEPT !.dirty = TRUE]

(* A refresh of one page.                                                  *)
Refreshed(p, h, isMapped) == IF isMapped THEN native_prot(p) ELSE h

-----------------------------------------------------------------------------

(* What the protection of a page says of its record (mb_page_native_prot). *)
LEMMA NativeProt ==
  ASSUME NEW p \in PageRecord
  PROVE  /\ ~p.dirty => \/ native_prot(p) \in {"NONE", "R", "RX"}
                        \/ Windows /\ p.status = MB_ST_RWSTACK /\ native_prot(p) = "RWSTACK"
         /\ native_prot(p) \in {"RW", "RWX"} => p.dirty /\ Writable(p.status)
         /\ Windows /\ p.status = MB_ST_RWSTACK =>
              native_prot(p) = IF p.dirty THEN "RW" ELSE "RWSTACK"
         /\ native_prot(p) = "RWSTACK" =>
              Windows /\ p.status = MB_ST_RWSTACK /\ ~p.dirty
BY DEF PageRecord, MB_ST, native_prot, status_prot, Writable

(* The scan makes the record say what the guard bits know.                 *)
LEMMA ScanPage ==
  ASSUME NEW p \in PageRecord, NEW c \in Values, NEW b \in Values, NEW h \in MB_PROT,
         NEW isSealed \in BOOLEAN, NEW isMapped \in BOOLEAN
  PROVE  LET q == Scanned(p, h, isMapped) IN
         /\ q \in PageRecord
         /\ q.status = p.status /\ q.invisible = p.invisible
         /\ q.snap_kind = p.snap_kind /\ q.snap_data = p.snap_data
         /\ SnapshotOK(p, c, b, h, isSealed) => SnapshotOK(q, c, b, h, isSealed)
         /\ HostOK(p, h, isSealed, isMapped) =>
              /\ HostOK(q, h, isSealed, isMapped)
              /\ q.dirty <=> IsDirty(p, h)
              /\ IsDirty(q, h) => q.dirty
              /\ ContentOK(p, c, b, h) => ContentOK(q, c, b, h)
<1> DEFINE q == Scanned(p, h, isMapped)
<1>1. /\ q \in PageRecord
      /\ q.status = p.status /\ q.invisible = p.invisible
      /\ q.snap_kind = p.snap_kind /\ q.snap_data = p.snap_data
      /\ q.dirty \in BOOLEAN
      /\ q.dirty <=> \/ p.dirty
                     \/ Windows /\ isMapped /\ p.status = MB_ST_RWSTACK /\ h # "RWSTACK"
  BY Zenon DEF Scanned, PageRecord
<1>2. SnapshotOK(p, c, b, h, isSealed) => SnapshotOK(q, c, b, h, isSealed)
  BY <1>1 DEF SnapshotOK
<1>3. ASSUME HostOK(p, h, isSealed, isMapped)
      PROVE  /\ HostOK(q, h, isSealed, isMapped)
             /\ q.dirty <=> IsDirty(p, h)
             /\ IsDirty(q, h) => q.dirty
  <2>1. CASE q = p
    BY <1>1, <1>3, <2>1, NativeProt DEF IsDirty, HostOK, PageRecord
  <2>2. CASE Windows /\ isMapped /\ p.status = MB_ST_RWSTACK /\ h # "RWSTACK"
    <3>1. h = "RW"
      <4> DEFINE w == [p EXCEPT !.dirty = FALSE]
      <4>1. w \in PageRecord /\ w.status = p.status /\ ~w.dirty
        BY Zenon DEF PageRecord
      <4>2. native_prot(w) = "RWSTACK"
        BY <2>2, <4>1, NativeProt, Zenon
      <4>3. native_prot(p) \in {"RW", "RWSTACK"}
        BY <2>2, NativeProt
      <4>4. QED
        BY <1>3, <2>2, <4>2, <4>3 DEF HostOK
    <3>2. native_prot(q) = "RW"
      BY <1>1, <2>2, NativeProt, Zenon
    <3>3. QED
      BY <1>1, <2>2, <3>1, <3>2, Zenon DEF HostOK, IsDirty
  <2>3. QED
    BY <2>1, <2>2 DEF Scanned
<1>4. HostOK(p, h, isSealed, isMapped) /\ ContentOK(p, c, b, h) => ContentOK(q, c, b, h)
  BY <1>1 DEF ContentOK, IsDirty
<1>5. QED
  BY <1>1, <1>2, <1>3, <1>4

(* A page given a status s # FREE, as set_protections does, keeps its      *)
(* invariants if its record knows whether it is dirty.                     *)
LEMMA SetStatusPage ==
  ASSUME NEW p \in PageRecord, NEW c \in Values, NEW b \in Values, NEW h \in MB_PROT,
         NEW isSealed \in BOOLEAN, NEW isMapped \in BOOLEAN, NEW s \in MB_ST \ {MB_ST_FREE},
         SnapshotOK(p, c, b, h, isSealed)
  PROVE  LET q == precapture([p EXCEPT !.status = s], c)
             g == Refreshed(q, h, isMapped) IN
         /\ q.invisible = p.invisible /\ q.status = s
         /\ p.snap_kind # "NONE" => q.snap_kind # "NONE"
         /\ SnapshotOK(q, c, b, g, isSealed)
         /\ /\ HostOK(p, h, isSealed, isMapped)
            /\ IsDirty(p, h) => p.dirty
            /\ ContentOK(p, c, b, h)
            => HostOK(q, g, isSealed, isMapped) /\ ContentOK(q, c, b, g)
<1> DEFINE q == precapture([p EXCEPT !.status = s], c)
           g == Refreshed(q, h, isMapped)
<1>1. /\ q \in PageRecord
      /\ q.invisible = p.invisible /\ q.status = s /\ q.dirty = p.dirty
      /\ IF Windows /\ s = MB_ST_RWSTACK /\ p.snap_kind = "NONE"
         THEN q.snap_kind = "DATA" /\ q.snap_data = c
         ELSE q.snap_kind = p.snap_kind /\ q.snap_data = p.snap_data
  BY Zenon DEF precapture, maybe_snapshot, PageRecord
<1>2. ~q.dirty => \/ native_prot(q) \in {"NONE", "R", "RX"}
                  \/ Windows /\ q.status = MB_ST_RWSTACK
  BY <1>1, NativeProt
<1>3. SnapshotOK(q, c, b, g, isSealed)
  BY <1>1, <1>2 DEF SnapshotOK, Refreshed, PageRecord
<1>4. ASSUME HostOK(p, h, isSealed, isMapped), IsDirty(p, h) => p.dirty, ContentOK(p, c, b, h)
      PROVE  HostOK(q, g, isSealed, isMapped) /\ ContentOK(q, c, b, g)
  BY <1>1, <1>4 DEF HostOK, ContentOK, IsDirty, Refreshed
<1>5. QED
  BY <1>1, <1>3, <1>4

(* A page that munmap or madvise zeroes, whatever its status becomes.      *)
LEMMA ZeroPage ==
  ASSUME NEW p \in PageRecord, NEW c \in Values, NEW b \in Values, NEW h \in MB_PROT,
         NEW isSealed \in BOOLEAN, NEW isMapped \in BOOLEAN,
         NEW s \in MB_ST, SnapshotOK(p, c, b, h, isSealed)
  PROVE  LET q == [Zeroed(p, c) EXCEPT !.status = s]
             g == Refreshed(q, h, isMapped) IN
         /\ q.invisible = p.invisible
         /\ q.snap_kind # "NONE"
         /\ SnapshotOK(q, Zero, b, g, isSealed)
         /\ HostOK(p, h, isSealed, isMapped) =>
              HostOK(q, g, isSealed, isMapped) /\ ContentOK(q, Zero, b, g)
<1> DEFINE q == [Zeroed(p, c) EXCEPT !.status = s]
           g == Refreshed(q, h, isMapped)
<1>1. /\ q.invisible = p.invisible /\ q.status = s
      /\ IF p.snap_kind = "NONE"
         THEN q.snap_kind = "DATA" /\ q.snap_data = c
         ELSE q.snap_kind = p.snap_kind /\ q.snap_data = p.snap_data
      /\ q.dirty = (~q.invisible /\ q.snap_kind # "ZERO")
  BY DEF Zeroed, maybe_snapshot, PageRecord
<1>2. SnapshotOK(q, Zero, b, g, isSealed)
  BY <1>1 DEF SnapshotOK
<1>3. HostOK(p, h, isSealed, isMapped) => HostOK(q, g, isSealed, isMapped)
  BY DEF HostOK, Refreshed
<1>4. ContentOK(q, Zero, b, g)
  BY <1>1, <1>2 DEF ContentOK, IsDirty, SnapshotOK, PageRecord
<1>5. QED
  BY <1>1, <1>2, <1>3, <1>4 DEF PageRecord

(* A page that the loader copies v to.                                     *)
LEMMA CopyPage ==
  ASSUME NEW p \in PageRecord, NEW c \in Values, NEW b \in Values, NEW h \in MB_PROT,
         NEW isSealed \in BOOLEAN, NEW isMapped \in BOOLEAN,
         NEW v \in Values,
         SnapshotOK(p, c, b, h, isSealed), HostOK(p, h, isSealed, isMapped),
         ~isSealed, p.status # MB_ST_FREE
  PROVE  LET q == [p EXCEPT !.dirty = TRUE] IN
         /\ SnapshotOK(q, v, b, h, isSealed)
         /\ HostOK(q, h, isSealed, isMapped)
         /\ ContentOK(q, v, b, h)
<1> DEFINE q == [p EXCEPT !.dirty = TRUE]
<1>1. /\ q.invisible = p.invisible /\ q.status = p.status /\ q.dirty
      /\ q.snap_kind = p.snap_kind /\ q.snap_data = p.snap_data
      /\ p.dirty => q = p
      /\ ~p.dirty => [q EXCEPT !.dirty = FALSE] = p
      /\ p.dirty \in BOOLEAN
  BY Zenon DEF PageRecord
<1>2. SnapshotOK(q, v, b, h, isSealed) /\ ContentOK(q, v, b, h)
  BY <1>1 DEF SnapshotOK, ContentOK, IsDirty
<1>3. HostOK(q, h, isSealed, isMapped)
  <2>1. CASE p.dirty
    BY <1>1, <2>1, Zenon
  <2>2. CASE ~p.dirty
    BY <1>1, <2>2 DEF HostOK
  <2>3. QED
    BY <2>1, <2>2
<1>4. QED
  BY <1>2, <1>3

(* A page that the loader hides from the savestates.                       *)
LEMMA HidePage ==
  ASSUME NEW p \in PageRecord, NEW c \in Values, NEW b \in Values, NEW h \in MB_PROT,
         NEW isMapped \in BOOLEAN,
         SnapshotOK(p, c, b, h, FALSE), HostOK(p, h, FALSE, isMapped)
  PROVE  /\ SnapshotOK(Hidden(p), c, b, Refreshed(Hidden(p), h, isMapped), FALSE)
         /\ HostOK(Hidden(p), Refreshed(Hidden(p), h, isMapped), FALSE, isMapped)
         /\ ContentOK(Hidden(p), c, b, Refreshed(Hidden(p), h, isMapped))
<1>1. Hidden(p).invisible /\ Hidden(p).snap_kind = p.snap_kind
  BY DEF Hidden, PageRecord
<1>2. QED
  BY <1>1 DEF SnapshotOK, HostOK, ContentOK, Refreshed

(* A page at the seal: its content becomes its baseline.                   *)
LEMMA SealPage ==
  ASSUME NEW p \in PageRecord, NEW c \in Values, NEW b \in Values, NEW h \in MB_PROT,
         NEW isMapped \in BOOLEAN,
         SnapshotOK(p, c, b, h, FALSE), HostOK(p, h, FALSE, isMapped),
         ContentOK(p, c, b, h), IsDirty(p, h) => p.dirty
  PROVE  LET q == Sealed(p, c)
             g == Refreshed(q, h, isMapped)
             w == IF p.invisible THEN Zero ELSE c IN
         /\ SnapshotOK(q, c, w, g, TRUE)
         /\ HostOK(q, g, TRUE, isMapped)
         /\ ContentOK(q, c, w, g)
<1> DEFINE q == Sealed(p, c)
           g == Refreshed(q, h, isMapped)
           w == IF p.invisible THEN Zero ELSE c
<1>1. q \in PageRecord
  BY SealedType
<1>2. /\ q.invisible = p.invisible /\ q.status = p.status
      /\ IF p.dirty /\ ~p.invisible
         THEN /\ ~q.dirty
              /\ IF Windows /\ p.status = MB_ST_RWSTACK
                 THEN q.snap_kind = "DATA" /\ q.snap_data = c
                 ELSE q.snap_kind = "NONE"
         ELSE q = p
  BY DEF Sealed, precapture, maybe_snapshot, PageRecord
<1>3. ~q.dirty => \/ native_prot(q) \in {"NONE", "R", "RX"}
                  \/ Windows /\ q.status = MB_ST_RWSTACK
  BY <1>1, NativeProt
<1>4. HostOK(q, g, TRUE, isMapped)
  BY DEF HostOK, Refreshed
<1>5. ContentOK(q, c, w, g)
  BY <1>2 DEF ContentOK
<1>6. SnapshotOK(q, c, w, g, TRUE)
  <2>1. CASE p.dirty /\ ~p.invisible
    BY <1>2, <1>3, <1>4, <2>1 DEF SnapshotOK, HostOK, Refreshed
  <2>2. CASE ~(p.dirty /\ ~p.invisible)
    BY <1>2, <2>2 DEF SnapshotOK, ContentOK, IsDirty
  <2>3. QED
    BY <2>1, <2>2, Zenon
<1>7. QED
  BY <1>4, <1>5, <1>6, Zenon

(* A mapping that lets writes through is that of a dirty writable page.    *)
LEMMA WritePage ==
  ASSUME NEW p \in PageRecord, NEW h \in MB_PROT,
         NEW isSealed \in BOOLEAN, NEW isMapped \in BOOLEAN,
         HostOK(p, h, isSealed, isMapped)
  PROVE  h \in {"RW", "RWX"} => Writable(p.status) /\ IsDirty(p, h)
<1> DEFINE w == [p EXCEPT !.dirty = FALSE]
<1>1. w \in PageRecord /\ ~w.dirty
  BY Zenon DEF PageRecord
<1>2. native_prot(w) \notin {"RW", "RWX"}
  BY <1>1, NativeProt, Zenon
<1>3. QED
  BY <1>2, NativeProt DEF HostOK, IsDirty, Writable

(* A page that a write fault hands to the handler (trip).                  *)
LEMMA TripPage ==
  ASSUME NEW p \in PageRecord, NEW c, NEW b, NEW h, NEW isSealed, NEW v,
         SnapshotOK(p, c, b, h, isSealed), Writable(p.status)
  PROVE  /\ Tripped(p, c).invisible = p.invisible
         /\ Tripped(p, c).snap_kind # "NONE"
         /\ SnapshotOK(Tripped(p, c), v, b, native_prot(Tripped(p, c)), isSealed)
         /\ HostOK(Tripped(p, c), native_prot(Tripped(p, c)), isSealed, TRUE)
         /\ ContentOK(Tripped(p, c), v, b, native_prot(Tripped(p, c)))
<1> DEFINE q == Tripped(p, c)
<1>1. /\ q.invisible = p.invisible /\ q.status = p.status /\ q.dirty
      /\ IF p.snap_kind = "NONE"
         THEN q.snap_kind = "DATA" /\ q.snap_data = c
         ELSE q.snap_kind = p.snap_kind /\ q.snap_data = p.snap_data
  BY DEF Tripped, maybe_snapshot, PageRecord
<1>2. QED
  BY <1>1 DEF SnapshotOK, HostOK, ContentOK, IsDirty, Writable

(* A guard page whose guard bit the kernel clears.                         *)
LEMMA TouchPage ==
  ASSUME NEW p \in PageRecord, NEW h \in MB_PROT,
         NEW isSealed \in BOOLEAN, NEW isMapped \in BOOLEAN,
         HostOK(p, h, isSealed, isMapped)
  PROVE  h = "RWSTACK" => isMapped /\ Windows /\ p.status = MB_ST_RWSTACK
<1> DEFINE w == [p EXCEPT !.dirty = FALSE]
<1>1. w \in PageRecord /\ w.status = p.status
  BY Zenon DEF PageRecord
<1>2. native_prot(w) = "RWSTACK" => Windows /\ p.status = MB_ST_RWSTACK
  BY <1>1, NativeProt, Zenon
<1>3. QED
  BY <1>2, NativeProt DEF HostOK

(* The record of a page that has been through the loading loop: s and d    *)
(* are the status and the dirty flag that the stream holds for it.         *)
LEMMA LoadShape ==
  ASSUME NEW p \in PageRecord, NEW c \in Values, NEW s \in MB_ST, NEW d \in BOOLEAN
  PROVE  LET q == LoadedPage(p, c, s, d) IN
         /\ q \in PageRecord
         /\ q.invisible = p.invisible /\ q.status = s
         /\ IF ~p.invisible /\ ~p.dirty /\ d /\ p.snap_kind = "NONE"
            THEN q.snap_kind = "DATA" /\ q.snap_data = c
            ELSE q.snap_kind = p.snap_kind /\ q.snap_data = p.snap_data
         /\ q.dirty = IF p.invisible THEN p.dirty ELSE d
<1>1. LoadedPage(p, c, s, d) \in PageRecord
  BY LoadedType
<1>2. QED
  BY <1>1 DEF LoadedPage, maybe_snapshot, PageRecord

(* Hence what a load takes from the state and what it keeps.               *)
LEMMA LoadKeeps ==
  ASSUME NEW p \in PageRecord, NEW c \in Values, NEW s \in MB_ST, NEW d \in BOOLEAN
  PROVE  /\ LoadedPage(p, c, s, d).invisible = p.invisible
         /\ LoadedPage(p, c, s, d).status = s
         /\ p.snap_kind # "NONE" => LoadedPage(p, c, s, d).snap_kind # "NONE"
         /\ ~p.invisible => LoadedPage(p, c, s, d).dirty = d
BY LoadShape

(* It keeps its snapshot discipline, whether its protection is refreshed   *)
(* or not; v is its content in the stream.                                 *)
LEMMA LoadSnapshot ==
  ASSUME NEW p \in PageRecord, NEW c \in Values, NEW b, NEW h,
         NEW s \in MB_ST, NEW d \in BOOLEAN, NEW v, NEW g,
         SnapshotOK(p, c, b, h, TRUE),
         Windows /\ s = MB_ST_RWSTACK => p.snap_kind # "NONE",
         g = h \/ g = native_prot(LoadedPage(p, c, s, d))
  PROVE  SnapshotOK(LoadedPage(p, c, s, d), LoadedContent(p, c, d, v), b, g, TRUE)
<1> DEFINE q == LoadedPage(p, c, s, d)
           e == LoadedContent(p, c, d, v)
<1>1. /\ q \in PageRecord
      /\ q.invisible = p.invisible /\ q.status = s
      /\ IF ~p.invisible /\ ~p.dirty /\ d /\ p.snap_kind = "NONE"
         THEN q.snap_kind = "DATA" /\ q.snap_data = c
         ELSE q.snap_kind = p.snap_kind /\ q.snap_data = p.snap_data
      /\ q.dirty = IF p.invisible THEN p.dirty ELSE d
  BY LoadShape
<1>2. q.snap_kind = "NONE" => ~p.invisible /\ ~p.dirty /\ ~d
  BY <1>1 DEF SnapshotOK, PageRecord
<1>3. q.snap_kind = "NONE" => e = b
  BY <1>1, <1>2 DEF LoadedContent, SnapshotOK, PageRecord
<1>4. q.snap_kind = "NONE" => g \in {"NONE", "R", "RX"}
  BY <1>1, <1>2, NativeProt DEF SnapshotOK
<1>5. QED
  BY <1>1, <1>2, <1>3, <1>4 DEF SnapshotOK

(* It gets the saved content w: the stream's, or the baseline.             *)
LEMMA LoadContent ==
  ASSUME NEW p \in PageRecord, NEW c, NEW b, NEW h, NEW d \in BOOLEAN, NEW v, NEW w,
         SnapshotOK(p, c, b, h, TRUE), ContentOK(p, c, b, h), IsDirty(p, h) => p.dirty,
         ~p.invisible, d => w = v, ~d => w = b
  PROVE  LoadedContent(p, c, d, v) = w
<1>1. ~MissingSnapshot(p, d)
  BY DEF MissingSnapshot, SnapshotOK
<1>2. QED
  BY <1>1 DEF LoadedContent, MissingSnapshot, SnapshotOK, ContentOK, PageRecord

(* It has the protection it calls for although only changes are refreshed. *)
LEMMA LoadHost ==
  ASSUME NEW p \in PageRecord, NEW h, NEW isMapped \in BOOLEAN, NEW q, NEW g,
         HostOK(p, h, TRUE, isMapped), IsDirty(p, h) => p.dirty,
         ~isMapped => g = h,
         isMapped => g = native_prot(q) \/ (g = h /\ native_prot(q) = native_prot(p))
  PROVE  HostOK(q, g, TRUE, isMapped)
<1>1. isMapped => h = native_prot(p)
  BY NativeProt DEF HostOK, IsDirty
<1>2. QED
  BY <1>1 DEF HostOK

-----------------------------------------------------------------------------
(* From pages to the block.                                                *)

(* Page i comes through a step with its invariants.                        *)
PageKept(i) ==
  /\ sealed => pages'[i].invisible = pages[i].invisible
  /\ pages[i].snap_kind # "NONE" => pages'[i].snap_kind # "NONE"
  /\ SnapshotOK(pages'[i], mem'[i], base[i], host'[i], sealed)
  /\ ~poisoned => /\ HostOK(pages'[i], host'[i], sealed, swapped_in)
                  /\ ContentOK(pages'[i], mem'[i], base[i], host'[i])

(* A step keeps the block's invariant if it keeps every page's.            *)
LEMMA KeptStep ==
  ASSUME IInv, TypeOK', \A i \in Pages : PageKept(i),
         UNCHANGED <<sealed, swapped_in, base, saved, poisoned>>,
         active' => swapped_in
  PROVE  IInv'
<1>1. LifecycleOK'
  BY DEF IInv, LifecycleOK
<1>2. ASSUME NEW i \in Pages
      PROVE  SnapshotOK(pages[i], mem[i], base[i], host[i], sealed)'
  BY DEF PageKept
<1>3. ASSUME NEW s \in saved', NEW i \in Pages PROVE GuardsCaptured(s, i)'
  BY DEF PageKept, GuardsCaptured, IInv
<1>4. ASSUME ~poisoned', NEW i \in Pages
      PROVE  /\ HostOK(pages[i], host[i], sealed, swapped_in)'
             /\ ContentOK(pages[i], mem[i], base[i], host[i])'
  BY <1>4 DEF PageKept
<1>5. ASSUME ~poisoned', NEW s \in saved', NEW i \in Pages PROVE SavedOK(s, i)'
  <2>1. sealed
    BY <1>5 DEF IInv, LifecycleOK
  <2>2. QED
    BY <2>1, <1>5, Zenon DEF PageKept, SavedOK, IInv
<1>6. QED
  BY <1>1, <1>2, <1>3, <1>4, <1>5 DEF IInv

(* The facts the page lemmas ask for, about page i of a block that         *)
(* satisfies the invariant; q is the page's record after a scan.           *)
LEMMA PageFacts ==
  ASSUME IInv, NEW i \in Pages
  PROVE  LET q == get_stack_dirty(pages)[i] IN
         /\ pages[i] \in PageRecord /\ mem[i] \in Values /\ base[i] \in Values
         /\ host[i] \in MB_PROT /\ sealed \in BOOLEAN /\ swapped_in \in BOOLEAN
         /\ SnapshotOK(pages[i], mem[i], base[i], host[i], sealed)
         /\ ~poisoned => /\ HostOK(pages[i], host[i], sealed, swapped_in)
                         /\ ContentOK(pages[i], mem[i], base[i], host[i])
         /\ q \in PageRecord
         /\ q.status = pages[i].status /\ q.invisible = pages[i].invisible
         /\ q.snap_kind = pages[i].snap_kind
         /\ SnapshotOK(q, mem[i], base[i], host[i], sealed)
         /\ ~poisoned => /\ HostOK(q, host[i], sealed, swapped_in)
                         /\ ContentOK(q, mem[i], base[i], host[i])
                         /\ q.dirty <=> IsDirty(pages[i], host[i])
                         /\ IsDirty(q, host[i]) => q.dirty
<1>1. /\ pages[i] \in PageRecord /\ mem[i] \in Values /\ base[i] \in Values
      /\ host[i] \in MB_PROT /\ sealed \in BOOLEAN /\ swapped_in \in BOOLEAN
  BY DEF IInv, TypeOK
<1>2. /\ SnapshotOK(pages[i], mem[i], base[i], host[i], sealed)
      /\ ~poisoned => /\ HostOK(pages[i], host[i], sealed, swapped_in)
                      /\ ContentOK(pages[i], mem[i], base[i], host[i])
  BY DEF IInv
<1>3. get_stack_dirty(pages)[i] = Scanned(pages[i], host[i], swapped_in)
  BY DEF get_stack_dirty, Scanned
<1>4. QED
  BY <1>1, <1>2, <1>3, ScanPage

(* mmap, mprotect and a growing mremap.                                    *)
LEMMA SetProtectionsStep ==
  ASSUME IInv, TypeOK', NEW R, NEW s \in MB_ST \ {MB_ST_FREE},
         NEW pg \in {pages, get_stack_dirty(pages)},
         set_protections(pg, R, s),
         \A i \in Pages : i \in R /\ ~poisoned => (IsDirty(pg[i], host[i]) => pg[i].dirty)
  PROVE  IInv'
<1>1. ASSUME NEW i \in Pages PROVE PageKept(i)
  <2>1. /\ pg[i] \in PageRecord /\ mem[i] \in Values /\ base[i] \in Values
        /\ host[i] \in MB_PROT /\ sealed \in BOOLEAN /\ swapped_in \in BOOLEAN
        /\ pg[i].invisible = pages[i].invisible /\ pg[i].snap_kind = pages[i].snap_kind
        /\ SnapshotOK(pg[i], mem[i], base[i], host[i], sealed)
        /\ ~poisoned => /\ HostOK(pg[i], host[i], sealed, swapped_in)
                        /\ ContentOK(pg[i], mem[i], base[i], host[i])
    BY PageFacts
  <2>2. mem'[i] = mem[i]
    BY DEF set_protections
  <2>3. CASE i \in R
    <3>1. /\ pages'[i] = precapture([pg[i] EXCEPT !.status = s], mem[i])
          /\ host'[i] = Refreshed(pages'[i], host[i], swapped_in)
      BY <2>3 DEF set_protections, refresh, Refreshed
    <3>2. ~poisoned => (IsDirty(pg[i], host[i]) => pg[i].dirty)
      BY <2>3
    <3>3. QED
      BY <2>1, <2>2, <3>1, <3>2, SetStatusPage DEF PageKept
  <2>4. CASE i \notin R
    BY <2>1, <2>2, <2>4 DEF set_protections, refresh, PageKept
  <2>5. QED
    BY <2>3, <2>4
<1>2. UNCHANGED <<sealed, swapped_in, base, saved, poisoned, active>>
  BY DEF set_protections, lifecycle, history
<1>3. QED
  BY <1>1, <1>2, KeptStep DEF IInv, LifecycleOK

(* munmap, madvise and a shrinking mremap.                                 *)
LEMMA FreePagesStep ==
  ASSUME IInv, TypeOK', NEW R, NEW advise_only \in BOOLEAN,
         free_pages(get_stack_dirty(pages), R, advise_only)
  PROVE  IInv'
<1> DEFINE pg == get_stack_dirty(pages)
<1>1. ASSUME NEW i \in Pages PROVE PageKept(i)
  <2>1. CASE i \in R
    <3>1. PICK s \in MB_ST : pages'[i] = [Zeroed(pg[i], mem[i]) EXCEPT !.status = s]
      <4>1. CASE advise_only
        <5>1. Zeroed(pg[i], mem[i]) \in PageRecord
          BY PageFacts, ZeroedType, Zenon
        <5>2. pages'[i] = Zeroed(pg[i], mem[i])
          BY <2>1, <4>1 DEF free_pages
        <5>3. QED
          BY <5>1, <5>2 DEF PageRecord
      <4>2. CASE ~advise_only
        BY <2>1, <4>2 DEF free_pages, MB_ST
      <4>3. QED
        BY <4>1, <4>2
    <3>2. /\ host'[i] = Refreshed(pages'[i], host[i], swapped_in)
          /\ mem'[i] = Zero
      BY <2>1 DEF free_pages, refresh, Refreshed
    <3>3. QED
      BY <3>1, <3>2, PageFacts, ZeroPage DEF PageKept
  <2>2. CASE i \notin R
    <3>1. pages'[i] = pg[i] /\ host'[i] = host[i] /\ mem'[i] = mem[i]
      BY <2>2 DEF free_pages, refresh
    <3>2. QED
      BY <3>1, PageFacts DEF PageKept
  <2>3. QED
    BY <2>1, <2>2
<1>2. UNCHANGED <<sealed, swapped_in, base, saved, poisoned, active>>
  BY DEF free_pages, lifecycle, history
<1>3. QED
  BY <1>1, <1>2, KeptStep DEF IInv, LifecycleOK

(* The first activation installs every protection.                         *)
LEMMA ActivateStep ==
  ASSUME IInv, TypeOK', Activate
  PROVE  IInv'
<1>1. CASE swapped_in
  <2>1. UNCHANGED <<pages, mem, host, sealed, swapped_in, base, saved, poisoned>>
    BY <1>1 DEF Activate, history
  <2>2. ASSUME NEW i \in Pages PROVE PageKept(i)
    BY <2>1, PageFacts DEF PageKept
  <2>3. QED
    BY <1>1, <2>1, <2>2, KeptStep
<1>2. CASE ~swapped_in
  <2>1. /\ UNCHANGED <<pages, mem, sealed, base, saved, poisoned>>
        /\ swapped_in'
        /\ \A i \in Pages : host'[i] = native_prot(pages[i])
    BY <1>2 DEF Activate, history
  <2>2. ASSUME NEW i \in Pages
        PROVE  /\ SnapshotOK(pages[i], mem[i], base[i], native_prot(pages[i]), sealed)
               /\ ~poisoned => /\ HostOK(pages[i], native_prot(pages[i]), sealed, TRUE)
                               /\ ContentOK(pages[i], mem[i], base[i], native_prot(pages[i]))
    <3>1. ~pages[i].dirty =>
            \/ native_prot(pages[i]) \in {"NONE", "R", "RX"}
            \/ Windows /\ pages[i].status = MB_ST_RWSTACK
      BY PageFacts, NativeProt
    <3>2. SnapshotOK(pages[i], mem[i], base[i], native_prot(pages[i]), sealed)
      BY <3>1, PageFacts DEF SnapshotOK
    <3>3. ~poisoned => host[i] = "NONE"
      BY <1>2, PageFacts DEF HostOK
    <3>4. ~poisoned => ContentOK(pages[i], mem[i], base[i], native_prot(pages[i]))
      BY <3>3, PageFacts DEF ContentOK, IsDirty
    <3>5. QED
      BY <3>2, <3>4 DEF HostOK
  <2>3. LifecycleOK'
    BY <2>1 DEF IInv, LifecycleOK
  <2>4. ASSUME NEW t \in saved', NEW i \in Pages
        PROVE  GuardsCaptured(t, i)' /\ (~poisoned' => SavedOK(t, i)')
    BY <2>1 DEF IInv, GuardsCaptured, SavedOK
  <2>5. QED
    BY <2>1, <2>2, <2>3, <2>4, Zenon DEF IInv
<1>3. QED
  BY <1>1, <1>2

(* mmap without an address keeps the invariant: it only maps free pages.   *)
LEMMA MmapAnonymousStep ==
  ASSUME IInv, TypeOK', NEW r \in Ranges, NEW prot \in Prots, MmapAnonymous(r.size, prot)
  PROVE  IInv'
<1> DEFINE n == r.size \div PageSize
           F == {i \in PagesOf(Arena) : pages[i].status = MB_ST_FREE}
<1>1. n \in Int
  BY MemBlockAssumption
<1>2. PICK k \in FreePlaces(F, n) :
        set_protections(pages, k .. k + n - 1, prot_status(prot))
  BY Zenon DEF MmapAnonymous
<1>3. k .. k + n - 1 \subseteq F
  BY <1>1, PlacesAreFree DEF PagesOf
<1>4. ASSUME NEW i \in Pages, i \in k .. k + n - 1
      PROVE  IsDirty(pages[i], host[i]) => pages[i].dirty
  BY <1>3, <1>4 DEF IsDirty
<1>5. QED
  BY <1>2, <1>4, ProtStatusType, SetProtectionsStep, Zenon

(* A live stack page is the only one whose record may not know that it is  *)
(* dirty.                                                                  *)
LEMMA MmapFixedStep ==
  ASSUME StackDiscipline, IInv, TypeOK', NEW r \in Ranges, NEW prot \in Prots,
         NEW no_replace \in BOOLEAN, MmapFixed(r, prot, no_replace)
  PROVE  IInv'
<1>1. ASSUME NEW i \in Pages, i \in PagesOf(r)
      PROVE  IsDirty(pages[i], host[i]) => pages[i].dirty
  BY <1>1 DEF MmapFixed, StackDiscipline, NoLiveStack, IsDirty
<1>2. QED
  BY <1>1, ProtStatusType, SetProtectionsStep DEF MmapFixed

(* A growing mremap keeps the invariant: the pages it adds were free.      *)
LEMMA MremapGrowStep ==
  ASSUME IInv, TypeOK', NEW r \in Ranges, NEW q \in Ranges, MremapGrow(r, q.size)
  PROVE  IInv'
<1> DEFINE R == PagesOf([start |-> r.start, size |-> q.size]) \ PagesOf(r)
<1>1. PICK first \in PagesOf(r) :
        set_protections(get_stack_dirty(pages), R, pages[first].status)
  BY DEF MremapGrow
<1>2. pages[first].status \in MB_ST \ {MB_ST_FREE}
  <2>1. first \in Pages
    BY DEF PagesOf
  <2>2. pages[first] \in PageRecord
    BY <2>1, PageFacts
  <2>3. QED
    BY <2>2 DEF MremapGrow, NoneFree, PageRecord
<1>3. ASSUME NEW i \in Pages
      PROVE  ~poisoned => LET q1 == get_stack_dirty(pages)[i] IN
                          IsDirty(q1, host[i]) => q1.dirty
  BY PageFacts
<1>4. QED
  BY <1>1, <1>2, <1>3, SetProtectionsStep

(* The seal.                                                               *)
LEMMA SealStep ==
  ASSUME IInv, TypeOK', Seal
  PROVE  IInv'
<1>1. ~sealed /\ ~poisoned /\ saved = {}
  BY DEF Seal, IInv, LifecycleOK
<1>2. sealed' /\ UNCHANGED <<mem, swapped_in, active, saved, poisoned>>
  BY DEF Seal
<1>3. ASSUME NEW i \in Pages
      PROVE  /\ SnapshotOK(pages[i], mem[i], base[i], host[i], sealed)'
             /\ HostOK(pages[i], host[i], sealed, swapped_in)'
             /\ ContentOK(pages[i], mem[i], base[i], host[i])'
  <2> DEFINE q == get_stack_dirty(pages)[i]
  <2>1. /\ pages'[i] = Sealed(q, mem[i])
        /\ host'[i] = Refreshed(pages'[i], host[i], swapped_in)
        /\ base'[i] = IF q.invisible THEN Zero ELSE mem[i]
    BY PageFacts DEF Seal, refresh, Refreshed, Image
  <2>2. /\ SnapshotOK(q, mem[i], base[i], host[i], FALSE)
        /\ HostOK(q, host[i], FALSE, swapped_in)
        /\ ContentOK(q, mem[i], base[i], host[i])
        /\ IsDirty(q, host[i]) => q.dirty
    <3>1. sealed = FALSE
      BY <1>1 DEF IInv, TypeOK
    <3>2. QED
      BY <1>1, <3>1, PageFacts, Zenon
  <2>3. sealed' = TRUE
    BY DEF Seal
  <2>4. /\ SnapshotOK(pages'[i], mem[i], base'[i], host'[i], TRUE)
        /\ HostOK(pages'[i], host'[i], TRUE, swapped_in)
        /\ ContentOK(pages'[i], mem[i], base'[i], host'[i])
    <3>1. q \in PageRecord /\ mem[i] \in Values /\ base[i] \in Values
          /\ host[i] \in MB_PROT /\ swapped_in \in BOOLEAN
      BY PageFacts
    <3>2. QED
      BY <2>1, <2>2, <3>1, SealPage, ZenonT(40)
  <2>5. QED
    BY <1>2, <2>3, <2>4, Zenon
<1>4. QED
  BY <1>1, <1>2, <1>3, Zenon DEF IInv, LifecycleOK

(* The loader's other operations.                                          *)
LEMMA LoaderStep ==
  ASSUME IInv, TypeOK', NEW r \in Ranges, NEW v \in Values,
         MarkInvisible(r) \/ CopyFromExternal(r, v)
  PROVE  IInv'
<1>1. sealed = FALSE /\ ~poisoned
  BY Zenon DEF MarkInvisible, CopyFromExternal, copy_from_external, IInv, LifecycleOK, TypeOK
<1>2. UNCHANGED <<sealed, swapped_in, base, saved, poisoned, active>>
  BY Zenon DEF MarkInvisible, CopyFromExternal, copy_from_external, lifecycle, history
<1>3. ASSUME NEW i \in Pages, MarkInvisible(r) PROVE PageKept(i)
  <2>1. CASE i \in PagesOf(r)
    <3>1. /\ pages'[i] = Hidden(pages[i])
          /\ host'[i] = Refreshed(Hidden(pages[i]), host[i], swapped_in)
          /\ mem'[i] = mem[i]
      BY <1>3, <2>1, Zenon DEF MarkInvisible, refresh, Refreshed, Hidden
    <3>2. pages'[i].snap_kind = pages[i].snap_kind
      BY <3>1, PageFacts DEF PageRecord, Hidden
    <3>3. /\ pages[i] \in PageRecord /\ mem[i] \in Values /\ base[i] \in Values
          /\ host[i] \in MB_PROT /\ sealed \in BOOLEAN /\ swapped_in \in BOOLEAN
          /\ SnapshotOK(pages[i], mem[i], base[i], host[i], FALSE)
          /\ HostOK(pages[i], host[i], FALSE, swapped_in)
      BY <1>1, PageFacts, Zenon
    <3>4. /\ SnapshotOK(pages'[i], mem[i], base[i], host'[i], FALSE)
          /\ HostOK(pages'[i], host'[i], FALSE, swapped_in)
          /\ ContentOK(pages'[i], mem[i], base[i], host'[i])
      BY <3>1, <3>3, HidePage, Zenon
    <3>5. QED
      BY <1>1, <3>1, <3>2, <3>4, Zenon DEF PageKept
  <2>2. CASE i \notin PagesOf(r)
    <3>1. pages'[i] = pages[i] /\ host'[i] = host[i] /\ mem'[i] = mem[i]
      BY <1>3, <2>2, Zenon DEF MarkInvisible, refresh
    <3>2. QED
      BY <3>1, PageFacts DEF PageKept
  <2>3. QED
    BY <2>1, <2>2
<1>4. ASSUME NEW i \in Pages, CopyFromExternal(r, v) PROVE PageKept(i)
  <2>1. CASE i \in PagesOf(align_expand(r))
    <3>1. /\ pages'[i] = [pages[i] EXCEPT !.dirty = TRUE]
          /\ host'[i] = host[i] /\ mem'[i] = v
          /\ pages[i].status # MB_ST_FREE
      BY <1>4, <2>1 DEF CopyFromExternal, copy_from_external, NoneFree
    <3>2. pages'[i].snap_kind = pages[i].snap_kind
      BY <3>1, PageFacts DEF PageRecord
    <3>3. QED
      BY <1>1, <3>1, <3>2, PageFacts, CopyPage DEF PageKept
  <2>2. CASE i \notin PagesOf(align_expand(r))
    <3>1. pages'[i] = pages[i] /\ host'[i] = host[i] /\ mem'[i] = mem[i]
      BY <1>4, <2>2 DEF CopyFromExternal, copy_from_external
    <3>2. QED
      BY <3>1, PageFacts DEF PageKept
  <2>3. QED
    BY <2>1, <2>2
<1>5. QED
  BY <1>2, <1>3, <1>4, KeptStep DEF IInv, LifecycleOK

(* The guest's writes.                                                     *)
LEMMA GuestStep ==
  ASSUME IInv, TypeOK', NEW k \in Pages, NEW v \in Values,
         GuestWrite(k, v) \/ TripWrite(k, v) \/ GuardTouch(k, v)
  PROVE  IInv'
<1>1. swapped_in
  BY DEF GuestWrite, TripWrite, GuardTouch, IInv, LifecycleOK
<1>2. UNCHANGED <<sealed, swapped_in, base, saved, poisoned, active>>
  BY DEF GuestWrite, TripWrite, GuardTouch, lifecycle, history
<1>3. ASSUME NEW i \in Pages, i # k PROVE PageKept(i)
  <2>1. pages'[i] = pages[i] /\ host'[i] = host[i] /\ mem'[i] = mem[i]
    BY <1>3 DEF GuestWrite, TripWrite, GuardTouch, IInv, TypeOK
  <2>2. QED
    BY <2>1, PageFacts DEF PageKept
<1>4. /\ pages[k] \in PageRecord /\ mem[k] \in Values /\ base[k] \in Values
      /\ host[k] \in MB_PROT /\ sealed \in BOOLEAN /\ swapped_in = TRUE
      /\ SnapshotOK(pages[k], mem[k], base[k], host[k], sealed)
      /\ ~poisoned => HostOK(pages[k], host[k], sealed, TRUE)
      /\ mem'[k] = v
  <2>1. swapped_in = TRUE /\ mem'[k] = v
    BY <1>1 DEF GuestWrite, TripWrite, GuardTouch, IInv, TypeOK
  <2>2. QED
    BY <2>1, PageFacts, Zenon
<1>5. PageKept(k)
  <2>1. CASE GuestWrite(k, v)
    <3>1. pages'[k] = pages[k] /\ host'[k] = host[k] /\ host[k] \in {"RW", "RWX"}
      BY <2>1 DEF GuestWrite
    <3>2. SnapshotOK(pages[k], v, base[k], host[k], sealed)
      BY <1>4, <3>1 DEF SnapshotOK
    <3>3. ~poisoned => Writable(pages[k].status) /\ IsDirty(pages[k], host[k])
      BY <1>4, <3>1, WritePage, Zenon
    <3>4. ~poisoned => ContentOK(pages[k], v, base[k], host[k])
      BY <3>3 DEF ContentOK, Writable
    <3>5. QED
      BY <1>4, <3>1, <3>2, <3>4, Zenon DEF PageKept
  <2>2. CASE TripWrite(k, v)
    <3> DEFINE q == Tripped(pages[k], mem[k])
    <3>1. /\ pages'[k] = q
          /\ host'[k] = native_prot(q)
          /\ Writable(pages[k].status)
      BY <2>2 DEF TripWrite, IInv, TypeOK, Tripped
    <3>2. /\ q.invisible = pages[k].invisible
          /\ q.snap_kind # "NONE"
          /\ SnapshotOK(q, v, base[k], native_prot(q), sealed)
          /\ HostOK(q, native_prot(q), sealed, TRUE)
          /\ ContentOK(q, v, base[k], native_prot(q))
      BY <1>4, <3>1, TripPage, Zenon
    <3> HIDE DEF q
    <3>3. QED
      BY <1>4, <3>1, <3>2, Zenon DEF PageKept
  <2>3. CASE GuardTouch(k, v)
    <3>1. pages'[k] = pages[k] /\ host'[k] = "RW" /\ host[k] = "RWSTACK"
      BY <2>3 DEF GuardTouch, IInv, TypeOK
    <3>2. SnapshotOK(pages[k], v, base[k], "RW", sealed)
      BY <1>4, <3>1 DEF SnapshotOK
    <3>3. ~poisoned => Windows /\ pages[k].status = MB_ST_RWSTACK
      BY <1>4, <3>1, TouchPage, Zenon
    <3>4. ~poisoned => /\ HostOK(pages[k], "RW", sealed, TRUE)
                       /\ ContentOK(pages[k], v, base[k], "RW")
      BY <3>3 DEF HostOK, ContentOK, IsDirty
    <3>5. QED
      BY <1>4, <3>1, <3>2, <3>4, Zenon DEF PageKept
  <2>4. QED
    BY <2>1, <2>2, <2>3
<1>6. QED
  BY <1>2, <1>3, <1>5, KeptStep DEF IInv, LifecycleOK

(* Taking a savestate.                                                     *)
LEMMA SaveStep ==
  ASSUME IInv, TypeOK', SaveState
  PROVE  IInv'
<1> DEFINE pg == get_stack_dirty(pages)
           new == Stream(pg)
<1>1. /\ sealed /\ pages' = pg /\ saved' = saved \cup {new}
      /\ UNCHANGED <<mem, host, sealed, swapped_in, active, base, poisoned>>
  BY DEF SaveState, lifecycle
<1>2. ASSUME NEW i \in Pages
      PROVE  /\ new.status[i] = pg[i].status
             /\ new.dirty[i] = pg[i].dirty
             /\ new.data[i] = IF ~pg[i].invisible /\ pg[i].dirty THEN mem[i] ELSE Zero
             /\ new.image[i] = IF pg[i].invisible THEN Zero ELSE mem[i]
  BY DEF Stream, Image
<1>3. ASSUME NEW i \in Pages
      PROVE  /\ SnapshotOK(pages[i], mem[i], base[i], host[i], sealed)'
             /\ ~poisoned' => /\ HostOK(pages[i], host[i], sealed, swapped_in)'
                              /\ ContentOK(pages[i], mem[i], base[i], host[i])'
  BY <1>1, PageFacts, Zenon
<1>4. ASSUME NEW t \in saved', NEW i \in Pages
      PROVE  GuardsCaptured(t, i)' /\ (~poisoned' => SavedOK(t, i)')
  <2>1. CASE t \in saved
    <3>1. pg[i].snap_kind = pages[i].snap_kind /\ pg[i].invisible = pages[i].invisible
      BY PageFacts
    <3>2. GuardsCaptured(t, i) /\ (~poisoned => SavedOK(t, i))
      BY <2>1 DEF IInv
    <3>3. QED
      BY <1>1, <3>1, <3>2 DEF GuardsCaptured, SavedOK
  <2>2. CASE t = new
    <3>1. GuardsCaptured(t, i)'
      BY <1>1, <1>2, <2>2, PageFacts, Zenon DEF GuardsCaptured, SnapshotOK
    <3>2. ASSUME ~poisoned
          PROVE  /\ ContentOK(pg[i], mem[i], base[i], host[i])
                 /\ IsDirty(pg[i], host[i]) => pg[i].dirty
      BY <3>2, PageFacts
    <3>3. ~poisoned => SavedOK(t, i)'
      BY <1>1, <1>2, <2>2, <3>2 DEF SavedOK, ContentOK
    <3>4. QED
      BY <1>1, <3>1, <3>3
  <2>3. QED
    BY <1>1, <2>1, <2>2
<1>5. LifecycleOK'
  BY <1>1 DEF IInv, LifecycleOK
<1>6. QED
  BY <1>3, <1>4, <1>5 DEF IInv

(* What the stream says of page i.                                         *)
LEMMA StreamFacts ==
  ASSUME IInv, NEW t \in saved, NEW i \in Pages
  PROVE  /\ t.status[i] \in MB_ST /\ t.dirty[i] \in BOOLEAN
         /\ t.data[i] \in Values /\ t.image[i] \in Values
         /\ Windows /\ t.status[i] = MB_ST_RWSTACK =>
              get_stack_dirty(pages)[i].snap_kind # "NONE"
         /\ ~poisoned /\ ~get_stack_dirty(pages)[i].invisible =>
              /\ t.image[i] = IF t.dirty[i] THEN t.data[i] ELSE base[i]
              /\ t.status[i] = MB_ST_FREE => t.image[i] = Zero
<1>1. t \in SavedState
  BY DEF IInv, TypeOK
<1>2. GuardsCaptured(t, i) /\ (~poisoned => SavedOK(t, i))
  BY DEF IInv
<1>3. /\ get_stack_dirty(pages)[i].snap_kind = pages[i].snap_kind
      /\ get_stack_dirty(pages)[i].invisible = pages[i].invisible
  BY PageFacts
<1>4. QED
  BY <1>1, <1>2, <1>3 DEF SavedState, GuardsCaptured, SavedOK

(* What a successful load does to page i (the body of the loading loop).   *)
LEMMA LoadedState ==
  ASSUME IInv, TypeOK', NEW t \in saved, LoadState(t), NEW i \in Pages
  PROVE  /\ PageKept(i)
         /\ pages'[i].status = t.status[i]
         /\ ~poisoned =>
              /\ mem'[i] = IF pages[i].invisible THEN mem[i] ELSE t.image[i]
              /\ ~pages[i].invisible => pages'[i].dirty = t.dirty[i]
<1> DEFINE p == get_stack_dirty(pages)[i]
           s == t.status[i]
           d == t.dirty[i]
           v == t.data[i]
           w == t.image[i]
           q == LoadedPage(p, mem[i], s, d)
           e == LoadedContent(p, mem[i], d, v)
           g == IF swapped_in /\ native_prot(q) # native_prot(p)
                THEN native_prot(q) ELSE host[i]
<1>1. pages'[i] = q
  <2>1. i < NPages
    BY MemBlockAssumption DEF Pages
  <2>2. QED
    BY <2>1 DEF LoadState, LoadLoop
<1>2. mem'[i] = e /\ host'[i] = g
  BY <1>1 DEF LoadState, Reprotected
<1>3. sealed = TRUE
  BY DEF LoadState, IInv, TypeOK
<1>4. /\ p \in PageRecord /\ mem[i] \in Values /\ base[i] \in Values
      /\ host[i] \in MB_PROT /\ swapped_in \in BOOLEAN
      /\ p.invisible = pages[i].invisible /\ p.snap_kind = pages[i].snap_kind
      /\ SnapshotOK(p, mem[i], base[i], host[i], TRUE)
      /\ ~poisoned => /\ HostOK(p, host[i], TRUE, swapped_in)
                      /\ ContentOK(p, mem[i], base[i], host[i])
                      /\ IsDirty(p, host[i]) => p.dirty
  BY <1>3, PageFacts, Zenon
<1>5. /\ s \in MB_ST /\ d \in BOOLEAN
      /\ v \in Values /\ w \in Values
      /\ Windows /\ s = MB_ST_RWSTACK => p.snap_kind # "NONE"
      /\ ~poisoned /\ ~p.invisible =>
           /\ w = IF d THEN v ELSE base[i]
           /\ s = MB_ST_FREE => w = Zero
  BY StreamFacts
<1>6. g = host[i] \/ g = native_prot(q)
  OBVIOUS
<1> HIDE DEF p, s, d, v, w
<1>7. SnapshotOK(q, e, base[i], g, TRUE)
  BY <1>4, <1>5, <1>6, LoadSnapshot, Zenon
<1>8. /\ q.invisible = p.invisible /\ q.status = s
      /\ p.snap_kind # "NONE" => q.snap_kind # "NONE"
      /\ ~p.invisible => q.dirty = d
  <2>1. p \in PageRecord /\ mem[i] \in Values /\ s \in MB_ST /\ d \in BOOLEAN
    BY <1>4, <1>5
  <2>2. QED
    BY <2>1, LoadKeeps
<1>9. ASSUME ~poisoned
      PROVE  (~p.invisible => e = w) /\ (p.invisible => e = mem[i])
  <2>1. /\ ContentOK(p, mem[i], base[i], host[i])
        /\ IsDirty(p, host[i]) => p.dirty
        /\ ~p.invisible => (d => w = v) /\ (~d => w = base[i])
    BY <1>4, <1>5, <1>9
  <2>2. ASSUME ~p.invisible PROVE e = w
    BY <1>4, <1>5, <2>1, <2>2, LoadContent, Zenon
  <2>3. ASSUME p.invisible PROVE e = mem[i]
    BY <2>3 DEF LoadedContent
  <2>4. QED
    BY <2>2, <2>3
<1>10. ASSUME ~poisoned PROVE HostOK(q, g, TRUE, swapped_in)
  <2>1. /\ HostOK(p, host[i], TRUE, swapped_in)
        /\ IsDirty(p, host[i]) => p.dirty
    BY <1>4, <1>10, Zenon
  <2>2. /\ ~swapped_in => g = host[i]
        /\ swapped_in => \/ g = native_prot(q)
                         \/ g = host[i] /\ native_prot(q) = native_prot(p)
    OBVIOUS
  <2> HIDE DEF g, q
  <2>3. QED
    BY <1>4, <2>1, <2>2, LoadHost, Zenon
<1> HIDE DEF q, e, g
<1>11. ~poisoned => ContentOK(q, e, base[i], g)
  BY <1>5, <1>8, <1>9 DEF ContentOK, IsDirty
<1>12. PageKept(i)
  BY <1>1, <1>2, <1>3, <1>4, <1>7, <1>8, <1>10, <1>11, Zenon DEF PageKept
<1>13. QED
  BY <1>1, <1>2, <1>4, <1>8, <1>9, <1>12 DEF s, d, w

(* A successful load keeps the invariant, page by page.                    *)
LEMMA LoadStep ==
  ASSUME IInv, TypeOK', NEW t \in saved, LoadState(t)
  PROVE  IInv'
<1>1. UNCHANGED <<sealed, swapped_in, base, saved, poisoned, active>>
  BY Zenon DEF LoadState, lifecycle, history
<1>2. QED
  BY <1>1, LoadedState, KeptStep, Zenon DEF IInv, LifecycleOK

(* A load that stops half-way loses no baseline.                           *)
LEMMA LoadFailsStep ==
  ASSUME IInv, TypeOK', NEW t \in saved, NEW n \in Pages, NEW v \in Values,
         LoadStateFails(t, n, v)
  PROVE  IInv'
<1>1. /\ sealed = TRUE /\ poisoned' = TRUE
      /\ UNCHANGED <<sealed, swapped_in, active, base, saved>>
  BY Zenon DEF LoadStateFails, lifecycle, IInv, TypeOK
<1>2. ASSUME NEW i \in Pages
      PROVE  /\ SnapshotOK(pages'[i], mem'[i], base[i], host'[i], TRUE)
             /\ pages[i].snap_kind # "NONE" => pages'[i].snap_kind # "NONE"
  <2> DEFINE p == get_stack_dirty(pages)[i]
             s == t.status[i]
             d == t.dirty[i]
             w == t.data[i]
             q == LoadedPage(p, mem[i], s, d)
             e == LoadedContent(p, mem[i], d, w)
  <2>1. /\ p \in PageRecord /\ mem[i] \in Values /\ base[i] \in Values
        /\ host[i] \in MB_PROT /\ p.snap_kind = pages[i].snap_kind
        /\ SnapshotOK(p, mem[i], base[i], host[i], TRUE)
    BY <1>1, PageFacts, Zenon
  <2>2. /\ s \in MB_ST /\ d \in BOOLEAN /\ w \in Values
        /\ Windows /\ s = MB_ST_RWSTACK => p.snap_kind # "NONE"
    BY StreamFacts
  <2>3. i \in Int /\ n \in Int /\ (i < n \/ i = n \/ i > n)
    BY MemBlockAssumption DEF Pages
  <2>4. CASE i < n
    <3>1. /\ pages'[i] = q
          /\ mem'[i] = e
      BY <2>4 DEF LoadStateFails, LoadLoop
    <3>2. host'[i] = host[i] \/ host'[i] = native_prot(q)
      BY <3>1 DEF LoadStateFails
    <3> HIDE DEF p, s, d, w
    <3>3. SnapshotOK(q, e, base[i], host'[i], TRUE)
      BY <2>1, <2>2, <3>2, LoadSnapshot, Zenon
    <3>4. p.snap_kind # "NONE" => q.snap_kind # "NONE"
      <4>1. p \in PageRecord /\ mem[i] \in Values /\ s \in MB_ST /\ d \in BOOLEAN
        BY <2>1, <2>2
      <4>2. QED
        BY <4>1, LoadKeeps
    <3>5. QED
      BY <2>1, <3>1, <3>3, <3>4, Zenon
  <2>5. CASE i = n
    <3>0. ~(i < n)
      BY <2>3, <2>5
    <3>1. pages'[i] = IF ~p.dirty /\ d THEN maybe_snapshot(p, mem[i]) ELSE p
      BY <2>5, <3>0 DEF LoadStateFails, LoadLoop
    <3>2. mem'[i] = IF d THEN v ELSE mem[i]
      BY <2>5, <3>0 DEF LoadStateFails
    <3>3. host'[i] = host[i]
      BY <3>0 DEF LoadStateFails
    <3>4. QED
      BY <2>1, <2>2, <3>1, <3>2, <3>3 DEF SnapshotOK, maybe_snapshot, PageRecord
  <2>6. CASE i > n
    <3>0. ~(i < n) /\ i # n
      BY <2>3, <2>6
    <3>1. pages'[i] = p
      BY <3>0 DEF LoadStateFails, LoadLoop
    <3>2. mem'[i] = mem[i] /\ host'[i] = host[i]
      BY <3>0 DEF LoadStateFails
    <3>3. QED
      BY <2>1, <3>1, <3>2, Zenon
  <2>7. QED
    BY <2>3, <2>4, <2>5, <2>6, Zenon
<1>3. ASSUME NEW u \in saved', NEW i \in Pages PROVE GuardsCaptured(u, i)'
  BY <1>1, <1>2, Zenon DEF GuardsCaptured, IInv
<1>4. LifecycleOK'
  BY <1>1, Zenon DEF IInv, LifecycleOK
<1>5. QED
  BY <1>1, <1>2, <1>3, <1>4, Zenon DEF IInv

-----------------------------------------------------------------------------
(* The theorems.                                                           *)

(* A new block satisfies the invariant.                                    *)
LEMMA InvInit ==
  ASSUME Init
  PROVE  IInv
<1>1. TypeOK
  <2>1. [status |-> MB_ST_FREE, dirty |-> FALSE, invisible |-> FALSE,
         snap_kind |-> "ZERO", snap_data |-> Zero] \in PageRecord
    BY MemBlockAssumption DEF PageRecord, MB_ST
  <2>2. QED
    BY <2>1, MemBlockAssumption, Zenon DEF Init, TypeOK, MB_PROT
<1>2. LifecycleOK
  BY DEF Init, LifecycleOK
<1>3. ASSUME NEW i \in Pages
      PROVE  /\ SnapshotOK(pages[i], mem[i], base[i], host[i], sealed)
             /\ HostOK(pages[i], host[i], sealed, swapped_in)
             /\ ContentOK(pages[i], mem[i], base[i], host[i])
  BY DEF Init, SnapshotOK, HostOK, ContentOK, IsDirty
<1>4. saved = {}
  BY DEF Init
<1>5. QED
  BY <1>1, <1>2, <1>3, <1>4 DEF IInv

(* Every step of the block keeps the invariant.                            *)
LEMMA InvStep ==
  ASSUME StackDiscipline, IInv, [Next]_vars
  PROVE  IInv'
<1>t. TypeOK'
  BY TypeStep DEF IInv
<1>1. CASE Activate
  BY <1>1, <1>t, ActivateStep
<1>2. CASE Deactivate \/ Free \/ UNCHANGED vars \/ \E i \in Pages : Fault(i)
  <2>1. /\ UNCHANGED <<pages, mem, host, sealed, swapped_in, base, saved, poisoned>>
        /\ active' => active
    <3>1. CASE Deactivate
      BY <3>1 DEF Deactivate, history
    <3>2. CASE Free
      BY <3>2 DEF Free, history
    <3>3. CASE UNCHANGED vars
      BY <3>3 DEF vars
    <3>4. ASSUME NEW i \in Pages, Fault(i)
          PROVE  /\ UNCHANGED <<pages, mem, host, sealed, swapped_in, base, saved, poisoned>>
                 /\ active' => active
      BY <3>4 DEF Fault, history
    <3>5. QED
      BY <1>2, <3>1, <3>2, <3>3, <3>4
  <2>2. ASSUME NEW i \in Pages PROVE PageKept(i)
    BY <2>1, PageFacts, Zenon DEF PageKept
  <2>3. QED
    BY <1>t, <2>1, <2>2, KeptStep, Zenon DEF IInv, LifecycleOK
<1>3. CASE Mapping
  <2>1. ASSUME NEW r \in Ranges, NEW prot \in Prots, NEW no_replace \in BOOLEAN,
               MmapFixed(r, prot, no_replace)
        PROVE  IInv'
    BY <1>t, <2>1, MmapFixedStep
  <2>2. ASSUME NEW r \in Ranges, NEW prot \in Prots, MmapAnonymous(r.size, prot)
        PROVE  IInv'
    BY <1>t, <2>2, MmapAnonymousStep
  <2>3. ASSUME NEW r \in Ranges, NEW prot \in Prots, Mprotect(r, prot)
        PROVE  IInv'
    <3>1. ASSUME NEW i \in Pages
          PROVE  ~poisoned => LET q == get_stack_dirty(pages)[i] IN
                              IsDirty(q, host[i]) => q.dirty
      BY PageFacts, Zenon
    <3>2. QED
      BY <1>t, <2>3, <3>1, ProtStatusType, SetProtectionsStep DEF Mprotect
  <2>4. ASSUME NEW r \in Ranges, NEW advise_only \in BOOLEAN, Munmap(r, advise_only)
        PROVE  IInv'
    BY <1>t, <2>4, FreePagesStep DEF Munmap
  <2>5. ASSUME NEW r \in Ranges, NEW q \in Ranges, MremapGrow(r, q.size)
        PROVE  IInv'
    BY <1>t, <2>5, MremapGrowStep
  <2>6. ASSUME NEW r \in Ranges, NEW q \in Ranges, MremapShrink(r, q.size)
        PROVE  IInv'
    BY <1>t, <2>6, FreePagesStep, Zenon DEF MremapShrink
  <2>7. CASE RefusedAfterScan
    <3>1. /\ pages' = get_stack_dirty(pages)
          /\ UNCHANGED <<mem, host, sealed, swapped_in, base, saved, poisoned, active>>
      BY <2>7 DEF RefusedAfterScan, lifecycle, history
    <3>2. ASSUME NEW i \in Pages PROVE PageKept(i)
      BY <3>1, PageFacts DEF PageKept
    <3>3. QED
      BY <1>t, <3>1, <3>2, KeptStep, Zenon DEF IInv, LifecycleOK
  <2>8. QED
    BY <1>3, <2>1, <2>2, <2>3, <2>4, <2>5, <2>6, <2>7 DEF Mapping
<1>4. CASE Loader
  <2>1. Zero \in Values
    BY MemBlockAssumption
  <2>2. QED
    BY <1>4, <1>t, <2>1, LoaderStep, SealStep DEF Loader
<1>5. CASE Guest
  BY <1>2, <1>5, <1>t, GuestStep DEF Guest
<1>6. CASE States
  BY <1>6, <1>t, SaveStep, LoadStep, LoadFailsStep DEF States
<1>7. QED
  BY <1>1, <1>2, <1>3, <1>4, <1>5, <1>6 DEF Next

(* The inductive invariant holds in every reachable state.                 *)
THEOREM Invariance ==
  ASSUME StackDiscipline
  PROVE  Spec => []IInv
<1>1. Init => IInv
  BY InvInit
<1>2. IInv /\ [Next]_vars => IInv'
  BY InvStep
<1>3. QED
  BY <1>1, <1>2, PTL DEF Spec

(* Every write the guest can make without a fault goes to a page that is   *)
(* known to be dirty and whose status grants it.                           *)
THEOREM NoWriteIsMissed ==
  ASSUME StackDiscipline
  PROVE  Spec => []NoUntrackedWrite
<1>1. IInv => NoUntrackedWrite
  <2> SUFFICES ASSUME IInv, ~poisoned, NEW i \in Pages, host[i] \in {"RW", "RWX"}
               PROVE  Writable(pages[i].status) /\ KnownDirty(i)
    BY DEF NoUntrackedWrite
  <2>1. Writable(pages[i].status) /\ IsDirty(pages[i], host[i])
    BY PageFacts, WritePage, Zenon
  <2>2. swapped_in
    <3>1. host[i] # "NONE"
      OBVIOUS
    <3>2. QED
      BY <3>1, PageFacts, Zenon DEF HostOK
  <2>3. QED
    BY <2>1, <2>2 DEF IsDirty, KnownDirty, Touched
<1>2. QED
  BY <1>1, Invariance, PTL

(* No sequence of operations, failed loads included, loses a baseline.     *)
THEOREM BaselinesSurvive ==
  ASSUME StackDiscipline
  PROVE  Spec => []BaselineKept
<1>1. IInv => BaselineKept
  BY PageFacts, Zenon DEF BaselineKept, SnapshotOK, PageRecord
<1>2. QED
  BY <1>1, Invariance, PTL

(* A clean page has its baseline content, so a savestate may leave it out. *)
THEOREM CleanPagesAreBaseline ==
  ASSUME StackDiscipline
  PROVE  Spec => []CleanIsBaseline
<1>1. IInv => CleanIsBaseline
  <2> SUFFICES ASSUME IInv, ~poisoned, NEW i \in Pages,
                      ~pages[i].invisible, ~KnownDirty(i)
               PROVE  mem[i] = base[i]
    BY DEF CleanIsBaseline
  <2>1. HostOK(pages[i], host[i], sealed, swapped_in)
        /\ ContentOK(pages[i], mem[i], base[i], host[i])
    BY PageFacts
  <2>2. ~IsDirty(pages[i], host[i])
    BY <2>1 DEF IsDirty, KnownDirty, Touched, HostOK
  <2>3. QED
    BY <2>1, <2>2 DEF ContentOK
<1>2. QED
  BY <1>1, Invariance, PTL

(* A visible free page is zero.                                            *)
THEOREM FreePagesAreZero ==
  ASSUME StackDiscipline
  PROVE  Spec => []FreeReadsZero
<1>1. IInv => FreeReadsZero
  BY PageFacts DEF FreeReadsZero, ContentOK
<1>2. QED
  BY <1>1, Invariance, PTL

(* A load never stops for want of a snapshot.                              *)
THEOREM SnapshotsAreThere ==
  ASSUME StackDiscipline
  PROVE  Spec => []LoadFindsSnapshots
<1>1. IInv => LoadFindsSnapshots
  <2> SUFFICES ASSUME IInv, NEW t \in saved, NEW i \in Pages
               PROVE  ~MissingSnapshot(get_stack_dirty(pages)[i], t.dirty[i])
    BY DEF LoadFindsSnapshots
  <2>1. SnapshotOK(get_stack_dirty(pages)[i], mem[i], base[i], host[i], sealed)
    BY PageFacts
  <2>2. QED
    BY <2>1 DEF MissingSnapshot, SnapshotOK
<1>2. QED
  BY <1>1, Invariance, PTL

(* A load restores the saved image and statuses.                           *)
THEOREM LoadsRestore ==
  ASSUME StackDiscipline
  PROVE  Spec => LoadRestores
<1> DEFINE Restores ==
      \A s \in saved :
        LoadState(s) /\ ~poisoned =>
          \A i \in Pages :
            /\ mem'[i] = IF pages[i].invisible THEN mem[i] ELSE s.image[i]
            /\ pages'[i].status = s.status[i]
            /\ ~pages[i].invisible => pages'[i].dirty = s.dirty[i]
<1>1. IInv /\ [Next]_vars => [Restores]_vars
  <2> SUFFICES ASSUME IInv, [Next]_vars PROVE Restores
    OBVIOUS
  <2>1. TypeOK'
    BY TypeStep DEF IInv
  <2>2. QED
    BY <2>1, LoadedState
<1>2. QED
  BY <1>1, Invariance, PTL DEF Spec, LoadRestores

-----------------------------------------------------------------------------
(* Touched guard pages.                                                    *)

(* The scan finds a touched guard page.                                    *)
LEMMA TouchIsFound ==
  ASSUME TypeOK, NEW i \in Pages, Touched(i)
  PROVE  LET q == get_stack_dirty(pages)[i] IN
         /\ q \in PageRecord /\ q.dirty /\ q.invisible = pages[i].invisible
         /\ q.snap_kind = pages[i].snap_kind /\ q.snap_data = pages[i].snap_data
<1>1. pages[i] \in PageRecord
  BY DEF TypeOK
<1>2. get_stack_dirty(pages)[i] = [pages[i] EXCEPT !.dirty = TRUE]
  BY DEF Touched, get_stack_dirty
<1> QED
  BY <1>1, <1>2 DEF PageRecord

(* A change of status keeps a page dirty, and spares the pages outside.    *)
LEMMA TouchProtected ==
  ASSUME TypeOK, NEW i \in Pages, Touched(i), NEW R, NEW s \in MB_ST,
         \/ set_protections(get_stack_dirty(pages), R, s)
         \/ i \notin R /\ set_protections(pages, R, s)
  PROVE  KnownDirty(i)'
<1>1. CASE set_protections(get_stack_dirty(pages), R, s)
  <2> DEFINE q == get_stack_dirty(pages)[i]
  <2>1. q \in PageRecord /\ q.dirty
    BY TouchIsFound
  <2>2. pages'[i] = IF i \in R THEN precapture([q EXCEPT !.status = s], mem[i]) ELSE q
    BY <1>1 DEF set_protections
  <2> HIDE DEF q
  <2>3. pages'[i].dirty
    BY <2>1, <2>2 DEF precapture, maybe_snapshot, PageRecord
  <2> QED
    BY <2>3 DEF KnownDirty
<1>2. CASE i \notin R /\ set_protections(pages, R, s)
  <2>1. pages'[i] = pages[i] /\ host'[i] = host[i] /\ swapped_in' = swapped_in
    BY <1>2 DEF set_protections, refresh, lifecycle
  <2> QED
    BY <2>1 DEF KnownDirty, Touched
<1> QED
  BY <1>1, <1>2

(* A page that is zeroed and yet keeps its content is zero, which is not   *)
(* its baseline: it stays dirty.                                           *)
LEMMA TouchZeroed ==
  ASSUME IInv, NEW i \in Pages, Touched(i), ~pages[i].invisible,
         mem[i] # base[i], mem'[i] = mem[i],
         NEW R, NEW advise_only, free_pages(get_stack_dirty(pages), R, advise_only)
  PROVE  KnownDirty(i)'
<1> DEFINE q == get_stack_dirty(pages)[i]
<1>1. TypeOK /\ SnapshotOK(pages[i], mem[i], base[i], host[i], sealed)
  BY DEF IInv
<1>2. /\ q \in PageRecord /\ q.dirty /\ ~q.invisible
      /\ q.snap_kind = pages[i].snap_kind /\ q.snap_data = pages[i].snap_data
  BY <1>1, TouchIsFound
<1>3. pages'[i] = IF i \notin R THEN q
                  ELSE IF advise_only THEN Zeroed(q, mem[i])
                  ELSE [Zeroed(q, mem[i]) EXCEPT !.status = MB_ST_FREE]
  BY DEF free_pages
<1>4. i \in R => mem[i] = Zero
  BY DEF free_pages
<1> HIDE DEF q
<1>5. i \in R => q.snap_kind # "ZERO"
  BY <1>1, <1>2, <1>4 DEF SnapshotOK
<1>6. i \in R => Zeroed(q, mem[i]) \in PageRecord /\ Zeroed(q, mem[i]).dirty
  <2>1. mem[i] \in Values
    BY <1>1 DEF TypeOK
  <2>2. i \in R => /\ maybe_snapshot(q, mem[i]) \in PageRecord
                   /\ maybe_snapshot(q, mem[i]).snap_kind # "ZERO"
                   /\ ~maybe_snapshot(q, mem[i]).invisible
    BY <1>2, <1>5, <2>1 DEF maybe_snapshot, PageRecord
  <2> QED
    BY <2>2 DEF Zeroed, PageRecord
<1>7. pages'[i].dirty
  BY <1>2, <1>3, <1>6 DEF PageRecord
<1> QED
  BY <1>7 DEF KnownDirty

(* A load makes the page dirty, as in the state, or gives it its baseline. *)
LEMMA TouchLoaded ==
  ASSUME IInv, NEW i \in Pages, Touched(i), ~pages[i].invisible,
         mem[i] # base[i], mem'[i] = mem[i], NEW s \in saved,
         LoadState(s) \/ \E n \in Pages, v \in Values : LoadStateFails(s, n, v)
  PROVE  KnownDirty(i)'
<1> DEFINE q == get_stack_dirty(pages)[i]
<1>1. TypeOK /\ SnapshotOK(pages[i], mem[i], base[i], host[i], sealed)
  BY DEF IInv
<1>2. /\ q \in PageRecord /\ q.dirty /\ ~q.invisible
      /\ q.snap_kind = pages[i].snap_kind /\ q.snap_data = pages[i].snap_data
  BY <1>1, TouchIsFound
<1>3. s.dirty[i] \in BOOLEAN
  BY <1>1 DEF TypeOK, SavedState
<1>4. \/ /\ pages'[i] = LoadedPage(q, mem[i], s.status[i], s.dirty[i])
         /\ mem'[i] = LoadedContent(q, mem[i], s.dirty[i], s.data[i])
      \/ pages'[i] = q
  <2>1. CASE LoadState(s)
    <3>1. i < NPages
      BY MemBlockAssumption DEF Pages
    <3> QED
      BY <2>1, <3>1 DEF LoadState, LoadLoop
  <2>2. CASE \E n \in Pages, v \in Values : LoadStateFails(s, n, v)
    <3>1. PICK n \in Pages, v \in Values : LoadStateFails(s, n, v)
      BY <2>2
    <3> HIDE DEF q
    <3>2. pages'[i] = IF i < n THEN LoadedPage(q, mem[i], s.status[i], s.dirty[i])
                      ELSE IF i = n /\ ~q.dirty /\ s.dirty[i] THEN maybe_snapshot(q, mem[i])
                      ELSE q
      BY <3>1 DEF LoadStateFails, LoadLoop, q
    <3>3. i < n => mem'[i] = LoadedContent(q, mem[i], s.dirty[i], s.data[i])
      BY <3>1 DEF LoadStateFails, q
    <3> QED
      BY <1>2, <3>2, <3>3
  <2> QED
    BY <2>1, <2>2
<1> HIDE DEF q
<1>5. ~s.dirty[i] => LoadedContent(q, mem[i], s.dirty[i], s.data[i]) = base[i]
  BY <1>1, <1>2 DEF LoadedContent, SnapshotOK, PageRecord
<1>6. s.dirty[i] => LoadedPage(q, mem[i], s.status[i], s.dirty[i]).dirty
  BY <1>2 DEF LoadedPage, PageRecord
<1>7. pages'[i].dirty
  BY <1>2, <1>3, <1>4, <1>5, <1>6
<1> QED
  BY <1>7 DEF KnownDirty

(* No step forgets a touch, if the guest maps nothing over a live stack.   *)
LEMMA TouchStep ==
  ASSUME StackDiscipline, IInv, Next, NEW i \in Pages, Touched(i), ~pages[i].invisible,
         mem[i] # base[i], mem'[i] = mem[i], base' = base
  PROVE  KnownDirty(i)'
<1>1. TypeOK /\ pages[i] \in PageRecord /\ host[i] = "RW" /\ swapped_in
      /\ pages[i].status = MB_ST_RWSTACK
  BY DEF IInv, TypeOK, Touched
<1>2. ASSUME pages'[i] = pages[i], host'[i] = host[i], swapped_in' = swapped_in
      PROVE  KnownDirty(i)'
  BY <1>2 DEF KnownDirty, Touched
<1>3. ASSUME pages'[i].dirty PROVE KnownDirty(i)'
  BY <1>3 DEF KnownDirty
<1>4. CASE Activate \/ Deactivate \/ Free
  BY <1>1, <1>2, <1>4 DEF Activate, Deactivate, Free
<1>5. CASE Mapping
  <2>1. ASSUME NEW r \in Ranges, NEW prot \in Prots, NEW no_replace \in BOOLEAN,
               MmapFixed(r, prot, no_replace)
        PROVE  KnownDirty(i)'
    <3>1. i \notin PagesOf(r)
      BY <1>1, <2>1 DEF MmapFixed, StackDiscipline, NoLiveStack, Touched
    <3>2. set_protections(pages, PagesOf(r), prot_status(prot)) /\ prot_status(prot) \in MB_ST
      BY <2>1, ProtStatusType DEF MmapFixed
    <3> QED
      BY <1>1, <3>1, <3>2, TouchProtected, Zenon
  <2>2. ASSUME NEW r \in Ranges, NEW prot \in Prots, MmapAnonymous(r.size, prot)
        PROVE  KnownDirty(i)'
    <3> DEFINE n == r.size \div PageSize
               F == {k \in PagesOf(Arena) : pages[k].status = MB_ST_FREE}
    <3>1. n \in Int
      BY MemBlockAssumption
    <3>2. PICK k \in FreePlaces(F, n) :
            set_protections(pages, k .. k + n - 1, prot_status(prot))
      BY <2>2, Zenon DEF MmapAnonymous
    <3>3. k .. k + n - 1 \subseteq F
      BY <3>1, PlacesAreFree DEF PagesOf
    <3>4. i \notin k .. k + n - 1
      BY <1>1, <3>3
    <3>5. prot_status(prot) \in MB_ST
      BY ProtStatusType
    <3> QED
      BY <1>1, <3>2, <3>4, <3>5, TouchProtected, Zenon
  <2>3. ASSUME NEW r \in Ranges, NEW prot \in Prots, Mprotect(r, prot) PROVE KnownDirty(i)'
    BY <1>1, <2>3, ProtStatusType, TouchProtected DEF Mprotect
  <2>4. ASSUME NEW r \in Ranges, NEW advise_only \in BOOLEAN, Munmap(r, advise_only)
        PROVE  KnownDirty(i)'
    BY <2>4, TouchZeroed DEF Munmap
  <2>5. ASSUME NEW r \in Ranges, NEW q \in Ranges, MremapGrow(r, q.size) PROVE KnownDirty(i)'
    <3>1. PICK first \in PagesOf(r) :
            set_protections(get_stack_dirty(pages),
                            PagesOf([start |-> r.start, size |-> q.size]) \ PagesOf(r),
                            pages[first].status)
      BY <2>5 DEF MremapGrow
    <3>2. pages[first].status \in MB_ST
      BY <1>1 DEF PagesOf, TypeOK, PageRecord
    <3> QED
      BY <1>1, <3>1, <3>2, TouchProtected
  <2>6. ASSUME NEW r \in Ranges, NEW q \in Ranges, MremapShrink(r, q.size)
        PROVE  KnownDirty(i)'
    BY <2>6, TouchZeroed DEF MremapShrink
  <2>7. CASE RefusedAfterScan
    BY <1>1, <1>3, <2>7, TouchIsFound DEF RefusedAfterScan
  <2> QED
    BY <1>5, <2>1, <2>2, <2>3, <2>4, <2>5, <2>6, <2>7, Zenon DEF Mapping
<1>6. CASE Loader
  <2>1. ASSUME NEW r \in Ranges, MarkInvisible(r) PROVE KnownDirty(i)'
    <3>1. CASE i \in PagesOf(r)
      BY <1>1, <1>3, <2>1, <3>1 DEF MarkInvisible, PageRecord
    <3>2. CASE i \notin PagesOf(r)
      BY <1>2, <2>1, <3>2 DEF MarkInvisible, refresh, lifecycle
    <3> QED
      BY <3>1, <3>2
  <2>2. ASSUME NEW r \in Ranges, NEW v \in Values, CopyFromExternal(r, v)
        PROVE  KnownDirty(i)'
    <3>1. CASE i \in PagesOf(align_expand(r))
      BY <1>1, <1>3, <2>2, <3>1 DEF CopyFromExternal, copy_from_external, PageRecord
    <3>2. CASE i \notin PagesOf(align_expand(r))
      BY <1>2, <2>2, <3>2 DEF CopyFromExternal, copy_from_external, lifecycle
    <3> QED
      BY <3>1, <3>2
  <2>3. CASE Seal
    <3>1. base'[i] = mem[i]
      BY <2>3 DEF Seal, Image
    <3> QED
      BY <3>1
  <2> QED
    BY <1>6, <2>1, <2>2, <2>3, Zenon DEF Loader
<1>7. CASE Guest
  <2>1. ASSUME NEW k \in Pages, NEW v \in Values, GuestWrite(k, v) PROVE KnownDirty(i)'
    BY <1>2, <2>1 DEF GuestWrite, lifecycle
  <2>2. ASSUME NEW k \in Pages, NEW v \in Values, TripWrite(k, v) PROVE KnownDirty(i)'
    <3>1. k # i /\ pages'[i] = pages[i] /\ host'[i] = host[i] /\ swapped_in' = swapped_in
      BY <1>1, <2>2 DEF TripWrite, TypeOK, lifecycle
    <3> QED
      BY <1>2, <3>1
  <2>3. ASSUME NEW k \in Pages, NEW v \in Values, GuardTouch(k, v) PROVE KnownDirty(i)'
    <3>1. pages'[i] = pages[i] /\ host'[i] = host[i] /\ swapped_in' = swapped_in
      BY <1>1, <2>3 DEF GuardTouch, TypeOK, lifecycle
    <3> QED
      BY <1>2, <3>1
  <2>4. ASSUME NEW k \in Pages, Fault(k) PROVE KnownDirty(i)'
    BY <1>2, <2>4 DEF Fault
  <2> QED
    BY <1>7, <2>1, <2>2, <2>3, <2>4, Zenon DEF Guest
<1>8. CASE States
  <2>1. CASE SaveState
    BY <1>1, <1>3, <2>1, TouchIsFound DEF SaveState
  <2>2. ASSUME NEW s \in saved, LoadState(s) PROVE KnownDirty(i)'
    BY <2>2, TouchLoaded
  <2>3. ASSUME NEW s \in saved, NEW n \in Pages, NEW v \in Values, LoadStateFails(s, n, v)
        PROVE  KnownDirty(i)'
    BY <2>3, TouchLoaded
  <2> QED
    BY <1>8, <2>1, <2>2, <2>3, Zenon DEF States
<1> QED
  BY <1>4, <1>5, <1>6, <1>7, <1>8, Zenon DEF Next

(* A touch that no scan has seen yet is not lost in any operation, failed  *)
(* loads included, as long as the guest maps nothing over a live stack     *)
(* page: the one operation that loses it is mb_mmap with a fixed address,  *)
(* which changes an RWStack page's status without a scan.                  *)
THEOREM TouchesAreKept ==
  ASSUME StackDiscipline
  PROVE  Spec => TouchNotForgotten
<1> DEFINE Kept ==
      \A i \in Pages :
        Touched(i) /\ ~pages[i].invisible /\ mem[i] # base[i] /\ mem'[i] = mem[i]
          /\ base' = base => KnownDirty(i)'
<1>1. IInv /\ [Next]_vars => [Kept]_vars
  <2> SUFFICES ASSUME IInv, Next PROVE Kept
    OBVIOUS
  <2> QED
    BY TouchStep
<1>2. QED
  BY <1>1, Invariance, PTL DEF Spec, TouchNotForgotten

-----------------------------------------------------------------------------
(* The memory block implements the guest's machine: every step of the      *)
(* block is a step of GuestMachine, or changes nothing that the guest or   *)
(* the holder of a savestate could tell.                                   *)

USE DEF Machine!MB_ST_FREE, Machine!MB_ST_NONE, Machine!MB_ST_R, Machine!MB_ST_RW,
        Machine!MB_ST_RX, Machine!MB_ST_RWX, Machine!MB_ST_RWSTACK

(* The refinement mapping: what the machine sees of the block.             *)
Status == [i \in Pages |-> pages[i].status]
Invisible == [i \in Pages |-> pages[i].invisible]
SavedImages == {[status |-> s.status, image |-> s.image] : s \in saved}

(* Giving pages a status is the machine's Map.                             *)
LEMMA SetProtectionsMaps ==
  ASSUME IInv, NEW R \in SUBSET Pages, NEW s \in MB_ST \ {MB_ST_FREE},
         NEW pg \in {pages, get_stack_dirty(pages)},
         set_protections(pg, R, s), phase = "live", ~poisoned
  PROVE  Machine!Next
<1>1. ASSUME NEW i \in Pages
      PROVE  /\ pages'[i].status = IF i \in R THEN s ELSE pages[i].status
             /\ pages'[i].invisible = pages[i].invisible
  <2>1. /\ pg[i] \in PageRecord
        /\ pg[i].status = pages[i].status /\ pg[i].invisible = pages[i].invisible
    BY PageFacts, Zenon
  <2>2. pages'[i] = IF i \in R THEN precapture([pg[i] EXCEPT !.status = s], mem[i]) ELSE pg[i]
    BY DEF set_protections
  <2>3. QED
    BY <2>1, <2>2 DEF precapture, maybe_snapshot, PageRecord
<1>2. Machine!Map(R, s)
  BY <1>1 DEF set_protections, lifecycle, history, Machine!Map
<1>3. s \in Machine!MB_ST \ {Machine!MB_ST_FREE}
  BY DEF MB_ST, Machine!MB_ST
<1>4. Machine!Step
  BY <1>2, <1>3, Zenon DEF Machine!Step
<1>5. QED
  BY <1>4 DEF Machine!Next

(* Zeroing pages is the machine's Discard.                                 *)
LEMMA FreePagesDiscards ==
  ASSUME IInv, NEW R \in SUBSET Pages, NEW advise_only \in BOOLEAN,
         free_pages(get_stack_dirty(pages), R, advise_only), phase = "live", ~poisoned
  PROVE  Machine!Next
<1> DEFINE pg == get_stack_dirty(pages)
<1>1. ASSUME NEW i \in Pages
      PROVE  /\ pages'[i].status = IF i \in R /\ ~advise_only THEN MB_ST_FREE
                                   ELSE pages[i].status
             /\ pages'[i].invisible = pages[i].invisible
  <2>1. /\ pg[i] \in PageRecord
        /\ pg[i].status = pages[i].status /\ pg[i].invisible = pages[i].invisible
    BY PageFacts
  <2>2. pages'[i] = IF i \notin R THEN pg[i]
                    ELSE IF advise_only THEN Zeroed(pg[i], mem[i])
                    ELSE [Zeroed(pg[i], mem[i]) EXCEPT !.status = MB_ST_FREE]
    BY DEF free_pages
  <2>3. /\ Zeroed(pg[i], mem[i]).status = pg[i].status
        /\ Zeroed(pg[i], mem[i]).invisible = pg[i].invisible
        /\ [Zeroed(pg[i], mem[i]) EXCEPT !.status = MB_ST_FREE].status = MB_ST_FREE
        /\ [Zeroed(pg[i], mem[i]) EXCEPT !.status = MB_ST_FREE].invisible = pg[i].invisible
    BY <2>1 DEF Zeroed, maybe_snapshot, PageRecord
  <2>4. QED
    BY <2>1, <2>2, <2>3
<1>2. Machine!Discard(R, advise_only)
  <2>1. Status' = [i \in Pages |-> IF i \in R /\ ~advise_only
                                    THEN MB_ST_FREE ELSE Status[i]]
    BY <1>1 DEF Status
  <2>2. Invisible' = Invisible
    BY <1>1 DEF Invisible
  <2>3. /\ mem' = [i \in Pages |-> IF i \in R THEN Zero ELSE mem[i]]
        /\ UNCHANGED <<sealed, active, phase, SavedImages, poisoned>>
    BY DEF free_pages, lifecycle, history, SavedImages
  <2>4. QED
    BY <2>1, <2>2, <2>3, Zenon DEF Machine!Discard, Status, Invisible, SavedImages
<1>3. Machine!Step
  BY <1>2, Zenon DEF Machine!Step
<1>4. QED
  BY <1>3 DEF Machine!Next

(* A page whose mapping denies everything grants nothing to be read.       *)
LEMMA NoAccess ==
  ASSUME NEW p \in PageRecord, NEW isSealed \in BOOLEAN, HostOK(p, "NONE", isSealed, TRUE)
  PROVE  ~Readable(p.status)
<1> DEFINE w == [p EXCEPT !.dirty = FALSE]
<1>1. w \in PageRecord /\ w.status = p.status
  BY Zenon DEF PageRecord
<1>2. ASSUME NEW q \in PageRecord, native_prot(q) = "NONE" PROVE ~Readable(q.status)
  BY <1>2 DEF PageRecord, MB_ST, native_prot, status_prot, Readable
<1>3. QED
  BY <1>1, <1>2, Zenon DEF HostOK

(* A write to a page that grants it is the machine's Write.                *)
LEMMA WriteIsWrite ==
  ASSUME IInv, phase = "live", ~poisoned, active,
         NEW k \in Pages, NEW v \in Values, Writable(pages[k].status),
         mem' = [mem EXCEPT ![k] = v],
         \A i \in Pages : /\ pages'[i].status = pages[i].status
                          /\ pages'[i].invisible = pages[i].invisible,
         UNCHANGED <<sealed, active, phase, saved, poisoned>>
  PROVE  Machine!Next
<1>1. Status' = Status /\ Invisible' = Invisible /\ SavedImages' = SavedImages
  BY DEF Status, Invisible, SavedImages
<1>2. Machine!Write(k, v)
  BY <1>1 DEF Machine!Write, Machine!Writable, Writable, Status, Invisible, SavedImages
<1>3. Machine!Step
  BY <1>2, Zenon DEF Machine!Step
<1>4. QED
  BY <1>3 DEF Machine!Next

(* The guest's steps.                                                      *)
LEMMA GuestRefines ==
  ASSUME IInv, Guest, ~poisoned
  PROVE  Machine!Next
<1>l. phase = "live" /\ active /\ swapped_in = TRUE
  BY DEF Guest, GuestWrite, TripWrite, GuardTouch, Fault, IInv, LifecycleOK, TypeOK
<1>1. ASSUME NEW k \in Pages, NEW v \in Values, GuestWrite(k, v)
      PROVE  Machine!Next
  <2>1. host[k] \in {"RW", "RWX"} /\ pages' = pages
    BY <1>1 DEF GuestWrite
  <2>2. Writable(pages[k].status)
    BY <2>1, PageFacts, WritePage, Zenon
  <2>3. QED
    BY <1>1, <1>l, <2>1, <2>2, WriteIsWrite, Zenon DEF GuestWrite, lifecycle, history
<1>2. ASSUME NEW k \in Pages, NEW v \in Values, TripWrite(k, v)
      PROVE  Machine!Next
  <2>1. ASSUME NEW i \in Pages
        PROVE  /\ pages'[i].status = pages[i].status
               /\ pages'[i].invisible = pages[i].invisible
    <3>1. pages'[i] = IF i = k THEN [maybe_snapshot(pages[k], mem[k]) EXCEPT !.dirty = TRUE]
                      ELSE pages[i]
      BY <1>2 DEF TripWrite, IInv, TypeOK
    <3>2. QED
      BY <3>1, PageFacts DEF maybe_snapshot, PageRecord
  <2>2. QED
    BY <1>2, <1>l, <2>1, WriteIsWrite, Zenon DEF TripWrite, lifecycle, history
<1>3. ASSUME NEW k \in Pages, NEW v \in Values, GuardTouch(k, v)
      PROVE  Machine!Next
  <2>1. host[k] = "RWSTACK" /\ pages' = pages
    BY <1>3 DEF GuardTouch
  <2>2. pages[k].status = MB_ST_RWSTACK
    <3>1. /\ pages[k] \in PageRecord /\ host[k] \in MB_PROT
          /\ sealed \in BOOLEAN /\ swapped_in \in BOOLEAN
          /\ HostOK(pages[k], host[k], sealed, swapped_in)
      BY PageFacts, Zenon
    <3>2. QED
      BY <2>1, <3>1, TouchPage
  <2>3. Writable(pages[k].status)
    BY <2>2 DEF Writable
  <2>4. QED
    BY <1>3, <1>l, <2>1, <2>3, WriteIsWrite, Zenon DEF GuardTouch, lifecycle, history
<1>4. ASSUME NEW k \in Pages, Fault(k)
      PROVE  Machine!Next
  <2>1. ~Readable(pages[k].status) \/ ~Writable(pages[k].status)
    <3>1. CASE host[k] = "NONE"
      <4>1. pages[k] \in PageRecord /\ sealed \in BOOLEAN /\ HostOK(pages[k], "NONE", sealed, TRUE)
        BY <1>l, <3>1, PageFacts, Zenon
      <4>2. QED
        BY <4>1, NoAccess, Zenon
    <3>2. CASE host[k] # "NONE"
      BY <1>4, <3>2 DEF Fault
    <3>3. QED
      BY <3>1, <3>2
  <2>2. Machine!Fault(k)
    BY <1>4, <1>l, <2>1 DEF Fault, history, Machine!Fault, Readable, Writable,
                            Machine!Readable, Machine!Writable
  <2>3. Machine!Step
    BY <2>2, Zenon DEF Machine!Step
  <2>4. QED
    BY <1>l, <2>3 DEF Machine!Next
<1>5. QED
  BY <1>1, <1>2, <1>3, <1>4 DEF Guest

(* Taking and loading a savestate.                                         *)
LEMMA SaveRefines ==
  ASSUME IInv, SaveState, ~poisoned
  PROVE  Machine!Next
<1> DEFINE pg == get_stack_dirty(pages)
           new == [status |-> Status, image |-> [i \in Pages |-> IF Invisible[i] THEN Zero ELSE mem[i]]]
<1>1. /\ phase = "live" /\ sealed /\ pages' = pg /\ saved' = saved \cup {Stream(pg)}
      /\ UNCHANGED <<mem, sealed, active, phase, poisoned>>
  BY DEF SaveState, lifecycle
<1>2. ASSUME NEW i \in Pages
      PROVE  pg[i].status = pages[i].status /\ pg[i].invisible = pages[i].invisible
  BY PageFacts, Zenon
<1>3. Status' = Status /\ Invisible' = Invisible
  BY <1>1, <1>2 DEF Status, Invisible
<1>4. new = [status |-> Stream(pg).status, image |-> Stream(pg).image]
  BY <1>2 DEF Stream, Image, Status, Invisible
<1>5. SavedImages' = SavedImages \cup {new}
  BY <1>1, <1>4 DEF SavedImages
<1>6. Machine!Save
  BY <1>1, <1>3, <1>5 DEF Machine!Save, Status, Invisible, SavedImages
<1>7. Machine!Step
  BY <1>6, Zenon DEF Machine!Step
<1>8. QED
  BY <1>1, <1>7 DEF Machine!Next

(* A successful load is the Load step of the machine for the same state.   *)
LEMMA LoadRefines ==
  ASSUME IInv, TypeOK', NEW t \in saved, LoadState(t), ~poisoned
  PROVE  Machine!Next
<1> DEFINE u == [status |-> t.status, image |-> t.image]
<1>1. /\ phase = "live" /\ sealed
      /\ UNCHANGED <<sealed, active, phase, saved, poisoned>>
  BY Zenon DEF LoadState, lifecycle, history
<1>2. ASSUME NEW i \in Pages
      PROVE  /\ pages'[i].status = t.status[i]
             /\ mem'[i] = IF pages[i].invisible THEN mem[i] ELSE t.image[i]
             /\ pages'[i].invisible = pages[i].invisible
  <2>1. PageKept(i)
    BY LoadedState, Zenon
  <2>2. QED
    BY <1>1, <2>1, LoadedState, Zenon DEF PageKept
<1>3. t.status \in [Pages -> MB_ST]
  BY DEF IInv, TypeOK, SavedState
<1>4. Status' = u.status
  BY <1>2, <1>3 DEF Status
<1>5. Invisible' = Invisible /\ SavedImages' = SavedImages
  BY <1>1, <1>2 DEF Invisible, SavedImages
<1>6. mem' = [i \in Pages |-> IF Invisible[i] THEN mem[i] ELSE u.image[i]]
  BY <1>2 DEF Invisible, TypeOK
<1>7. u \in SavedImages
  BY DEF SavedImages
<1>8. Machine!Load(u)
  BY <1>1, <1>4, <1>5, <1>6, Zenon DEF Machine!Load, Status, Invisible, SavedImages
<1>9. Machine!Step
  BY <1>7, <1>8, Zenon DEF Machine!Step, SavedImages
<1>10. QED
  BY <1>1, <1>9 DEF Machine!Next

(* The loader's steps and the seal.                                        *)
LEMMA LoaderRefines ==
  ASSUME IInv, Loader, ~poisoned
  PROVE  Machine!Next
<1>l. phase = "live" /\ ~sealed
  BY Zenon DEF Loader, MarkInvisible, CopyFromExternal, copy_from_external, Seal
<1>1. ASSUME NEW r \in Ranges, MarkInvisible(r)
      PROVE  Machine!Step
  <2> DEFINE R == PagesOf(r)
  <2>1. ASSUME NEW i \in Pages
        PROVE  /\ pages'[i].status = pages[i].status
               /\ pages'[i].invisible = (i \in R \/ pages[i].invisible)
    <3>1. pages'[i] = IF i \in R THEN [pages[i] EXCEPT !.dirty = TRUE, !.invisible = TRUE]
                      ELSE pages[i]
      BY <1>1, Zenon DEF MarkInvisible
    <3>2. pages[i] \in PageRecord
      BY PageFacts, Zenon
    <3>3. QED
      BY <3>1, <3>2, Zenon DEF PageRecord
  <2>2. Status' = Status
    BY <2>1 DEF Status
  <2>3. Invisible' = [i \in Pages |-> i \in R \/ Invisible[i]]
    BY <2>1 DEF Invisible
  <2>4. UNCHANGED <<mem, sealed, active, phase, SavedImages, poisoned>>
    BY <1>1, Zenon DEF MarkInvisible, lifecycle, history, SavedImages
  <2>5. Machine!Hide(R) /\ R \in SUBSET Pages
    BY <1>l, <2>2, <2>3, <2>4 DEF Machine!Hide, Status, Invisible, SavedImages, PagesOf
  <2>6. QED
    BY <2>5, Zenon DEF Machine!Step
<1>2. ASSUME NEW r \in Ranges, NEW v \in Values, CopyFromExternal(r, v)
      PROVE  Machine!Step
  <2> DEFINE R == PagesOf(align_expand(r))
  <2>1. ASSUME NEW i \in Pages
        PROVE  /\ pages'[i].status = pages[i].status
               /\ pages'[i].invisible = pages[i].invisible
    <3>1. pages'[i] = IF i \in R THEN [pages[i] EXCEPT !.dirty = TRUE] ELSE pages[i]
      BY <1>2 DEF CopyFromExternal, copy_from_external
    <3>2. QED
      BY <3>1, PageFacts DEF PageRecord
  <2>2. Status' = Status /\ Invisible' = Invisible
    BY <2>1 DEF Status, Invisible
  <2>3. /\ mem' = [i \in Pages |-> IF i \in R THEN v ELSE mem[i]]
        /\ UNCHANGED <<sealed, active, phase, SavedImages, poisoned>>
    BY <1>2 DEF CopyFromExternal, copy_from_external, lifecycle, history, SavedImages
  <2>4. Machine!CopyIn(R, v) /\ R \in SUBSET Pages
    BY <1>l, <2>2, <2>3 DEF Machine!CopyIn, Status, Invisible, SavedImages, PagesOf
  <2>5. QED
    BY <2>4, Zenon DEF Machine!Step
<1>3. ASSUME Seal PROVE Machine!Step
  <2>1. ASSUME NEW i \in Pages
        PROVE  /\ pages'[i].status = pages[i].status
               /\ pages'[i].invisible = pages[i].invisible
    <3>1. pages'[i] = Sealed(get_stack_dirty(pages)[i], mem[i])
      BY <1>3 DEF Seal
    <3>2. QED
      BY <3>1, PageFacts DEF Sealed, precapture, maybe_snapshot, PageRecord
  <2>2. Status' = Status /\ Invisible' = Invisible
    BY <2>1 DEF Status, Invisible
  <2>3. sealed' = TRUE /\ UNCHANGED <<mem, active, phase, SavedImages, poisoned>>
    BY <1>3 DEF Seal, SavedImages
  <2>4. Machine!Seal
    BY <1>l, <2>2, <2>3 DEF Machine!Seal, Status, Invisible, SavedImages
  <2>5. QED
    BY <2>4, Zenon DEF Machine!Step
<1>4. Machine!Step
  BY <1>1, <1>2, <1>3 DEF Loader
<1>5. QED
  BY <1>l, <1>4 DEF Machine!Next

(* Every step of the block is one of the machine, or a stutter.            *)
LEMMA StepRefines ==
  ASSUME IInv, [Next]_vars
  PROVE  Machine!Next \/ UNCHANGED Machine!vars
<1>p. CASE poisoned'
  BY <1>p DEF Machine!Next
<1>q. CASE ~poisoned'
  <2>l. ~poisoned
    BY <1>q, Zenon DEF Next, Activate, Deactivate, Free, Mapping, Loader, Guest, States, MmapFixed,
        MmapAnonymous, Mprotect, Munmap, MremapGrow, MremapShrink, RefusedAfterScan,
        MarkInvisible, CopyFromExternal, copy_from_external, Seal, GuestWrite, TripWrite, GuardTouch, Fault,
        SaveState, LoadState, LoadStateFails, set_protections, free_pages, history, vars
  <2>1. CASE Activate \/ Deactivate
    <3>1. phase = "live" /\ active' = ~active
      BY <2>1, Zenon DEF Activate, Deactivate, IInv, TypeOK
    <3>2. UNCHANGED <<mem, pages, sealed, phase, saved, poisoned>>
      BY <2>1 DEF Activate, Deactivate, history
    <3>3. Machine!Switch
      BY <3>1, <3>2 DEF Machine!Switch
    <3>4. QED
      BY <2>l, <3>1, <3>3 DEF Machine!Next, Machine!Step
  <2>2. CASE Free
    <3>1. Machine!End /\ phase = "live"
      BY <2>2 DEF Free, history, Machine!End
    <3>2. QED
      BY <2>l, <3>1 DEF Machine!Next, Machine!Step
  <2>3. CASE Mapping
    <3>1. CASE RefusedAfterScan
      <4>1. ASSUME NEW i \in Pages
            PROVE  /\ pages'[i].status = pages[i].status
                   /\ pages'[i].invisible = pages[i].invisible
        BY <3>1, PageFacts, Zenon DEF RefusedAfterScan
      <4>2. Status' = Status /\ Invisible' = Invisible
        BY <4>1 DEF Status, Invisible
      <4>3. UNCHANGED <<mem, sealed, active, phase, SavedImages, poisoned>>
        BY <3>1 DEF RefusedAfterScan, lifecycle, history, SavedImages
      <4>4. QED
        BY <4>2, <4>3 DEF Machine!vars, Status, Invisible, SavedImages
    <3>2. ASSUME NEW r \in Ranges, NEW prot \in Prots, NEW no_replace \in BOOLEAN,
                 MmapFixed(r, prot, no_replace)
          PROVE  Machine!Next
      BY <2>l, <3>2, ProtStatusType, SetProtectionsMaps DEF MmapFixed, PagesOf
    <3>3. ASSUME NEW r \in Ranges, NEW prot \in Prots, MmapAnonymous(r.size, prot)
          PROVE  Machine!Next
      <4> DEFINE n == r.size \div PageSize
                 F == {i \in PagesOf(Arena) : pages[i].status = MB_ST_FREE}
      <4>1. n \in Int
        BY MemBlockAssumption
      <4>2. PICK k \in FreePlaces(F, n) :
              set_protections(pages, k .. k + n - 1, prot_status(prot))
        BY <3>3, Zenon DEF MmapAnonymous
      <4>3. F \in SUBSET Pages
        BY DEF PagesOf
      <4>4. k .. k + n - 1 \in SUBSET Pages
        BY <4>1, <4>3, PlacesAreFree
      <4>5. phase = "live"
        BY <3>3 DEF MmapAnonymous
      <4>6. QED
        BY <2>l, <4>2, <4>4, <4>5, ProtStatusType, SetProtectionsMaps, Zenon
    <3>4. ASSUME NEW r \in Ranges, NEW prot \in Prots, Mprotect(r, prot)
          PROVE  Machine!Next
      BY <2>l, <3>4, ProtStatusType, SetProtectionsMaps DEF Mprotect, PagesOf
    <3>5. ASSUME NEW r \in Ranges, NEW advise_only \in BOOLEAN, Munmap(r, advise_only)
          PROVE  Machine!Next
      BY <2>l, <3>5, FreePagesDiscards DEF Munmap, PagesOf
    <3>6. ASSUME NEW r \in Ranges, NEW q \in Ranges, MremapGrow(r, q.size)
          PROVE  Machine!Next
      <4> DEFINE R == PagesOf([start |-> r.start, size |-> q.size]) \ PagesOf(r)
      <4>1. PICK first \in PagesOf(r) :
              set_protections(get_stack_dirty(pages), R, pages[first].status)
        BY <3>6 DEF MremapGrow
      <4>2. pages[first].status \in MB_ST \ {MB_ST_FREE}
        <5>1. first \in Pages
          BY DEF PagesOf
        <5>2. pages[first] \in PageRecord
          BY <5>1, PageFacts, Zenon
        <5>3. QED
          BY <3>6, <5>2, Zenon DEF MremapGrow, NoneFree, PageRecord
      <4>3. R \in SUBSET Pages /\ phase = "live"
        BY <3>6 DEF PagesOf, MremapGrow
      <4>4. QED
        BY <2>l, <4>1, <4>2, <4>3, SetProtectionsMaps
    <3>7. ASSUME NEW r \in Ranges, NEW q \in Ranges, MremapShrink(r, q.size)
          PROVE  Machine!Next
      BY <2>l, <3>7, FreePagesDiscards, Zenon DEF MremapShrink, PagesOf
    <3>8. QED
      BY <2>3, <3>1, <3>2, <3>3, <3>4, <3>5, <3>6, <3>7 DEF Mapping
  <2>4. CASE Loader
    BY <2>l, <2>4, LoaderRefines
  <2>5. CASE Guest
    BY <2>l, <2>5, GuestRefines
  <2>6. CASE States
    <3>1. TypeOK'
      BY TypeStep DEF IInv
    <3>2. ASSUME NEW t \in saved, NEW n \in Pages, NEW v \in Values, LoadStateFails(t, n, v)
          PROVE  FALSE
      BY <1>q, <3>2, Zenon DEF LoadStateFails
    <3>3. QED
      BY <2>l, <2>6, <3>1, <3>2, SaveRefines, LoadRefines DEF States
  <2>7. CASE UNCHANGED vars
    BY <2>7 DEF vars, Machine!vars
  <2>8. QED
    BY <2>1, <2>2, <2>3, <2>4, <2>5, <2>6, <2>7 DEF Next
<1>2. QED
  BY <1>p, <1>q

(* The memory block implements the guest's machine (MACHINE-SPEC section   *)
(* 4, the essential guarantee).                                            *)
THEOREM BlockImplementsMachine ==
  ASSUME StackDiscipline
  PROVE  Spec => ImplementsMachine
<1>1. Init => Machine!Init
  BY DEF Init, Machine!Init
<1>2. IInv /\ [Next]_vars => [Machine!Next]_(Machine!vars)
  BY StepRefines
<1>3. QED
  BY <1>1, <1>2, Invariance, PTL DEF Spec, ImplementsMachine, Machine!Spec

=============================================================================
