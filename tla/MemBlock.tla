------------------------------ MODULE MemBlock ------------------------------
(***************************************************************************)
(* The memory block of miniBox (source/host/memblock.c) together with the  *)
(* write-fault handler that feeds it (source/host/tripguard.c).            *)
(*                                                                         *)
(* The block is a row of pages mapped twice: at the guest's fixed address, *)
(* under the protection `host`, and at an always-writable mirror, through  *)
(* which the host reads and writes `mem`.  A writable page that has not    *)
(* been written since the seal is mapped read-only, so that the first      *)
(* write faults: the handler keeps the pre-write content as the page's     *)
(* snapshot, marks it dirty and makes it writable.  A savestate holds the  *)
(* dirty pages; loading one puts every other page back to its baseline.    *)
(*                                                                         *)
(* A page's 4096 bytes are one element of Values.  Addresses are naturals  *)
(* with PageSize units to the page, so that alignment is a real condition. *)
(* An operation that refuses its arguments changes nothing (a stuttering   *)
(* step) except for the guard-bit scan it may already have made on Windows *)
(* (RefusedAfterScan).                                                     *)
(***************************************************************************)
EXTENDS Integers, FiniteSets, PageStatus, FreeRuns

CONSTANTS
  Values,     \* what a page can hold
  Zero,       \* the content of a zero-filled page
  Base,       \* first address of the block
  PageSize,   \* addressable units in a page
  NPages,     \* number of pages
  Windows,    \* TRUE for the _WIN32 build: guard pages instead of faults on stacks
  Prots,      \* protections that callers ask for
  Ranges,     \* address ranges that callers pass
  Arena,      \* the range in which mmap places anonymous mappings
  MaxSaves,   \* bound on the number of different savestates taken
  GuestReplacesStacks \* TRUE if a guest may mmap over a live stack page

Pages == 0 .. NPages - 1

ASSUME MemBlockAssumption ==
  /\ Zero \in Values
  /\ PageSize \in Nat \ {0}
  /\ Base \in Nat \ {0} /\ Base % PageSize = 0
  /\ NPages \in Nat \ {0}
  /\ Windows \in BOOLEAN
  /\ Prots \subseteq MB_PROT
  /\ Ranges \subseteq [start : Nat, size : Nat]
  /\ Arena \in [start : Nat, size : Nat]
  /\ MaxSaves \in Nat
  /\ GuestReplacesStacks \in BOOLEAN

VARIABLES
  pages,      \* the mb_page record of each page
  mem,        \* content of each page, as the mirror shows it
  host,       \* protection installed on the guest mapping of each page
  sealed, swapped_in, active,
  phase,      \* "live", "trapped" (the process died on a fault) or "freed"
  base,       \* history: content of the visible pages when the block was sealed
  saved,      \* the savestates taken so far
  poisoned    \* history: some load failed after it had started on the pages

vars == <<pages, mem, host, sealed, swapped_in, active, phase,
          base, saved, poisoned>>
lifecycle == <<sealed, swapped_in, active, phase>>
history == <<base, saved, poisoned>>

-----------------------------------------------------------------------------
(* Page records.                                                           *)

(* The protection the guest mapping of page record p should have.  The     *)
(* host protection "RWSTACK" is Windows' PAGE_READWRITE | PAGE_GUARD.      *)
native_prot(p) ==
  CASE p.status = MB_ST_FREE                 -> "NONE"
    [] p.status = MB_ST_RW /\ ~p.dirty       -> "R"
    [] p.status = MB_ST_RWX /\ ~p.dirty      -> "RX"
    [] p.status = MB_ST_RWSTACK /\ p.dirty   -> "RW"
    [] p.status = MB_ST_RWSTACK /\ ~p.dirty  -> IF Windows THEN "RWSTACK" ELSE "R"
    [] OTHER                                 -> status_prot(p.status)

(* Keep content c as the snapshot of p unless there is one already.        *)
maybe_snapshot(p, c) ==
  IF p.snap_kind = "NONE"
  THEN [p EXCEPT !.snap_kind = "DATA", !.snap_data = c]
  ELSE p

(* A guard page loses its guard bit before the host can look at it, so its *)
(* snapshot is taken when it becomes one.                                  *)
precapture(p, c) ==
  IF Windows /\ p.status = MB_ST_RWSTACK THEN maybe_snapshot(p, c) ELSE p

(* Windows finds the written stack pages by their cleared guard bits.      *)
get_stack_dirty(pg) ==
  [i \in Pages |->
     IF /\ Windows
        /\ swapped_in
        /\ pg[i].status = MB_ST_RWSTACK
        /\ host[i] # "RWSTACK"
     THEN [pg[i] EXCEPT !.dirty = TRUE]
     ELSE pg[i]]

-----------------------------------------------------------------------------
(* Address ranges.                                                         *)

align_down(a) == a - (a % PageSize)
align_up(a) == align_down(a - 1) + PageSize
range_end(r) == r.start + r.size
align_expand(r) == [start |-> align_down(r.start),
                    size  |-> align_up(range_end(r)) - align_down(r.start)]

PageAddr(i) == Base + i * PageSize

validate(r) ==
  /\ r.start >= Base
  /\ range_end(r) <= Base + NPages * PageSize
  /\ r.size # 0
  /\ r.start = align_down(r.start)
  /\ r.size = align_down(r.size)

PagesOf(r) == {i \in Pages : r.start <= PageAddr(i) /\ PageAddr(i) < range_end(r)}

AllFree(R) == \A i \in R : pages[i].status = MB_ST_FREE
NoneFree(R) == \A i \in R : pages[i].status # MB_ST_FREE

-----------------------------------------------------------------------------
(* Lifecycle.                                                              *)

Init ==
  /\ pages = [i \in Pages |-> [status |-> MB_ST_FREE, dirty |-> FALSE,
                               invisible |-> FALSE, snap_kind |-> "ZERO",
                               snap_data |-> Zero]]
  /\ mem = [i \in Pages |-> Zero]
  /\ host = [i \in Pages |-> "NONE"]
  /\ sealed = FALSE /\ swapped_in = FALSE /\ active = FALSE
  /\ phase = "live"
  /\ base = [i \in Pages |-> Zero]
  /\ saved = {}
  /\ poisoned = FALSE

refresh(R) ==
  host' = [i \in Pages |-> IF swapped_in /\ i \in R
                           THEN native_prot(pages'[i]) ELSE host[i]]

(* The first activation maps the block and protects every page; later ones *)
(* find it resident.                                                       *)
Activate ==
  /\ phase = "live" /\ ~active
  /\ active' = TRUE
  /\ swapped_in' = TRUE
  /\ host' = IF swapped_in THEN host ELSE [i \in Pages |-> native_prot(pages[i])]
  /\ UNCHANGED <<pages, mem, sealed, phase, history>>

Deactivate ==
  /\ phase = "live" /\ active
  /\ active' = FALSE
  /\ UNCHANGED <<pages, mem, host, sealed, swapped_in, phase, history>>

(* The block and everything in it is gone; what the other variables hold   *)
(* can no longer be observed.                                              *)
Free ==
  /\ phase = "live"
  /\ phase' = "freed"
  /\ UNCHANGED <<pages, mem, host, sealed, swapped_in, active, history>>

-----------------------------------------------------------------------------
(* Mapping operations.                                                     *)

(* Give the pages of R, as they are in pg, the status s.                   *)
set_protections(pg, R, s) ==
  /\ pages' = [i \in Pages |-> IF i \in R
                               THEN precapture([pg[i] EXCEPT !.status = s], mem[i])
                               ELSE pg[i]]
  /\ refresh(R)
  /\ UNCHANGED <<mem, lifecycle, history>>

NoLiveStack(R) == \A i \in R : pages[i].status # MB_ST_RWSTACK

MmapFixed(r, prot, no_replace) ==
  /\ phase = "live"
  /\ validate(r)
  /\ no_replace => AllFree(PagesOf(r))
  /\ Windows /\ ~GuestReplacesStacks => NoLiveStack(PagesOf(r))
  /\ set_protections(pages, PagesOf(r), prot_status(prot))

MmapAnonymous(size, prot) ==
  /\ phase = "live"
  /\ size # 0 /\ size = align_down(size)
  /\ validate(Arena)
  /\ LET n == size \div PageSize IN
     \E ps \in FreePlaces({i \in PagesOf(Arena) : pages[i].status = MB_ST_FREE}, n) :
       set_protections(pages, ps .. ps + n - 1, prot_status(prot))

(* Faulty variant: the guard bits are not looked at first.                 *)
Mprotect_NoScan(r, prot) ==
  /\ phase = "live"
  /\ validate(r)
  /\ NoneFree(PagesOf(r))
  /\ set_protections(pages, PagesOf(r), prot_status(prot))

Mprotect(r, prot) ==
  /\ phase = "live"
  /\ validate(r)
  /\ NoneFree(PagesOf(r))
  /\ set_protections(get_stack_dirty(pages), PagesOf(r), prot_status(prot))

(* Faulty variant: the content is zeroed without a snapshot.               *)
Zeroed_NoSnapshot(p, c) == [p EXCEPT !.dirty = ~p.invisible /\ p.snap_kind # "ZERO"]

(* Page record p, of content c, after its content has been zeroed: it is   *)
(* clean again if its baseline is zero.                                    *)
Zeroed(p, c) ==
  LET q == maybe_snapshot(p, c)
  IN  [q EXCEPT !.dirty = ~q.invisible /\ q.snap_kind # "ZERO"]

(* Faulty variant: the pages are given back without being zeroed.          *)
free_pages_Unzeroed(pg, R, advise_only) ==
  /\ pages' = [i \in Pages |->
                 IF i \notin R THEN pg[i]
                 ELSE IF advise_only THEN Zeroed(pg[i], mem[i])
                 ELSE [Zeroed(pg[i], mem[i]) EXCEPT !.status = MB_ST_FREE]]
  /\ refresh(R)
  /\ UNCHANGED <<mem, lifecycle, history>>

free_pages(pg, R, advise_only) ==
  /\ pages' = [i \in Pages |->
                 IF i \notin R THEN pg[i]
                 ELSE IF advise_only THEN Zeroed(pg[i], mem[i])
                 ELSE [Zeroed(pg[i], mem[i]) EXCEPT !.status = MB_ST_FREE]]
  /\ mem' = [i \in Pages |-> IF i \in R THEN Zero ELSE mem[i]]
  /\ refresh(R)
  /\ UNCHANGED <<lifecycle, history>>

(* munmap, or madvise(MADV_DONTNEED) when advise_only.                     *)
Munmap(r, advise_only) ==
  /\ phase = "live"
  /\ validate(r)
  /\ NoneFree(PagesOf(r))
  /\ free_pages(get_stack_dirty(pages), PagesOf(r), advise_only)

(* In place: the pages that follow must be free, and take the status of    *)
(* the first page.                                                         *)
MremapGrow(r, new_size) ==
  LET full == [start |-> r.start, size |-> new_size] IN
  /\ phase = "live"
  /\ validate(r) /\ new_size > r.size /\ validate(full)
  /\ NoneFree(PagesOf(r))
  /\ AllFree(PagesOf(full) \ PagesOf(r))
  /\ \E first \in PagesOf(r) :
       /\ PageAddr(first) = r.start
       /\ set_protections(get_stack_dirty(pages), PagesOf(full) \ PagesOf(r),
                          pages[first].status)

(* Shrinking by nothing is refused: the tail is empty.                     *)
MremapShrink(r, new_size) ==
  LET tail == [start |-> r.start + new_size, size |-> r.size - new_size] IN
  /\ phase = "live"
  /\ validate(r) /\ new_size # 0 /\ new_size <= r.size /\ validate(tail)
  /\ NoneFree(PagesOf(r))
  /\ free_pages(get_stack_dirty(pages), PagesOf(tail), FALSE)

(* mprotect, munmap, madvise and mremap look for dirty stack pages before  *)
(* they check anything, and so do a save whose stream cannot be written    *)
(* and a load whose header cannot be read or does not match.               *)
RefusedAfterScan ==
  /\ phase = "live"
  /\ pages' = get_stack_dirty(pages)
  /\ UNCHANGED <<mem, host, lifecycle, history>>

-----------------------------------------------------------------------------
(* Set-up by the ELF loader, and the seal.                                 *)

MarkInvisible(r) ==
  /\ phase = "live" /\ ~sealed
  /\ validate(r)
  /\ pages' = [i \in Pages |-> IF i \in PagesOf(r)
                 THEN [pages[i] EXCEPT !.dirty = TRUE, !.invisible = TRUE]
                 ELSE pages[i]]
  /\ refresh(PagesOf(r))
  /\ UNCHANGED <<mem, lifecycle, history>>

(* The protections are not refreshed.                                      *)
copy_from_external(r, v) ==
  LET R == PagesOf(align_expand(r)) IN
  /\ phase = "live"
  /\ validate(align_expand(r))
  /\ pages' = [i \in Pages |-> IF i \in R THEN [pages[i] EXCEPT !.dirty = TRUE]
                                          ELSE pages[i]]
  /\ mem' = [i \in Pages |-> IF i \in R THEN v ELSE mem[i]]
  /\ UNCHANGED <<host, lifecycle, history>>

(* Only the loader copies in, before the seal, and onto pages that it has  *)
(* mapped (ElfLoad, KeepsToBlock).                                         *)
CopyFromExternal(r, v) ==
  /\ ~sealed
  /\ NoneFree(PagesOf(align_expand(r)))
  /\ copy_from_external(r, v)

(* The live image becomes the baseline of every dirty visible page.        *)
Sealed(p, c) ==
  IF p.dirty /\ ~p.invisible
  THEN precapture([p EXCEPT !.dirty = FALSE, !.snap_kind = "NONE",
                            !.snap_data = Zero], c)
  ELSE p

(* The content of the visible pages.                                       *)
Image(pg) == [i \in Pages |-> IF pg[i].invisible THEN Zero ELSE mem[i]]

Seal ==
  /\ phase = "live" /\ ~sealed
  /\ sealed' = TRUE
  /\ pages' = [i \in Pages |-> Sealed(get_stack_dirty(pages)[i], mem[i])]
  /\ refresh(Pages)
  /\ base' = Image(pages)
  /\ UNCHANGED <<mem, swapped_in, active, phase, saved, poisoned>>

-----------------------------------------------------------------------------
(* The running guest.                                                      *)

(* The mapping lets the write through: the host does not notice.           *)
GuestWrite(i, v) ==
  /\ phase = "live" /\ active
  /\ host[i] \in {"RW", "RWX"}
  /\ mem' = [mem EXCEPT ![i] = v]
  /\ UNCHANGED <<pages, host, lifecycle, history>>

(* Faulty variant: the handler takes no snapshot.                          *)
TripWrite_NoSnapshot(i, v) ==
  /\ phase = "live" /\ active
  /\ host[i] \in {"NONE", "R", "RX"}
  /\ Writable(pages[i].status)
  /\ pages' = [pages EXCEPT ![i].dirty = TRUE]
  /\ host' = [host EXCEPT ![i] = native_prot(pages'[i])]
  /\ mem' = [mem EXCEPT ![i] = v]
  /\ UNCHANGED <<lifecycle, history>>

(* The write faults, the handler takes the page over, the write is redone. *)
TripWrite(i, v) ==
  /\ phase = "live" /\ active
  /\ host[i] \in {"NONE", "R", "RX"}
  /\ Writable(pages[i].status)
  /\ pages' = [pages EXCEPT ![i] = [maybe_snapshot(pages[i], mem[i])
                                      EXCEPT !.dirty = TRUE]]
  /\ host' = [host EXCEPT ![i] = native_prot(pages'[i])]
  /\ mem' = [mem EXCEPT ![i] = v]
  /\ UNCHANGED <<lifecycle, history>>

(* Windows: the kernel clears the guard bit, on a read (v = mem[i]) as on  *)
(* a write, and the handler only continues.                                *)
GuardTouch(i, v) ==
  /\ phase = "live" /\ active
  /\ host[i] = "RWSTACK"
  /\ host' = [host EXCEPT ![i] = "RW"]
  /\ mem' = [mem EXCEPT ![i] = v]
  /\ UNCHANGED <<pages, lifecycle, history>>

(* A read of an inaccessible page, or a write that the page's status does  *)
(* not allow, ends the process.                                            *)
Fault(i) ==
  /\ phase = "live" /\ active
  /\ \/ host[i] = "NONE"
     \/ host[i] \in {"NONE", "R", "RX"} /\ ~Writable(pages[i].status)
  /\ phase' = "trapped"
  /\ UNCHANGED <<pages, mem, host, sealed, swapped_in, active, history>>

-----------------------------------------------------------------------------
(* Savestates.  `data` is what the stream holds: the visible dirty pages.  *)
(* `image` is history: the visible memory when the state was taken.        *)

Stream(pg) ==
  [status |-> [i \in Pages |-> pg[i].status],
   dirty  |-> [i \in Pages |-> pg[i].dirty],
   data   |-> [i \in Pages |-> IF ~pg[i].invisible /\ pg[i].dirty
                               THEN mem[i] ELSE Zero],
   image  |-> Image(pg)]

(* Faulty variant: the guard bits are not looked at first.                 *)
SaveState_NoScan ==
  /\ phase = "live" /\ sealed
  /\ Cardinality(saved) < MaxSaves
  /\ saved' = saved \cup {Stream(pages)}
  /\ UNCHANGED <<pages, mem, host, lifecycle, base, poisoned>>

SaveState ==
  /\ phase = "live" /\ sealed
  /\ Cardinality(saved) < MaxSaves
  /\ pages' = get_stack_dirty(pages)
  /\ saved' = saved \cup {Stream(get_stack_dirty(pages))}
  /\ UNCHANGED <<mem, host, lifecycle, base, poisoned>>

(* What the loading loop makes of one page record and of its content.      *)
LoadedPage(p, c, status, dirty) ==
  IF p.invisible
  THEN [p EXCEPT !.status = status]
  ELSE [(IF ~p.dirty /\ dirty THEN maybe_snapshot(p, c) ELSE p)
          EXCEPT !.dirty = dirty, !.status = status]

(* Faulty variant: a page that is clean in the stream keeps its content.   *)
LoadedContent_NoRestore(p, c, dirty, data) ==
  IF ~p.invisible /\ dirty THEN data ELSE c

LoadedContent(p, c, dirty, data) ==
  CASE p.invisible \/ (~p.dirty /\ ~dirty)   -> c
    [] ~p.invisible /\ dirty                 -> data
    [] ~p.invisible /\ p.dirty /\ ~dirty     ->
         IF p.snap_kind = "DATA" THEN p.snap_data ELSE Zero

MissingSnapshot(p, dirty) ==
  ~p.invisible /\ p.dirty /\ ~dirty /\ p.snap_kind = "NONE"

(* The pages below n have been through the loop.                           *)
LoadLoop(s, pg, n) ==
  /\ \A i \in Pages : i < n => ~MissingSnapshot(pg[i], s.dirty[i])
  /\ pages' = [i \in Pages |->
       IF i < n THEN LoadedPage(pg[i], mem[i], s.status[i], s.dirty[i])
       ELSE IF i = n /\ ~pg[i].dirty /\ s.dirty[i] THEN maybe_snapshot(pg[i], mem[i])
       ELSE pg[i]]

(* Faulty variant: only a change of status calls for a refresh.            *)
Reprotected_StatusOnly(pg, i) == pages'[i].status # pg[i].status

Reprotected(pg, i) == native_prot(pages'[i]) # native_prot(pg[i])

LoadState(s) ==
  LET pg == get_stack_dirty(pages) IN
  /\ phase = "live" /\ sealed
  /\ LoadLoop(s, pg, NPages)
  /\ mem' = [i \in Pages |-> LoadedContent(pg[i], mem[i], s.dirty[i], s.data[i])]
  /\ host' = [i \in Pages |-> IF swapped_in /\ Reprotected(pg, i)
                              THEN native_prot(pages'[i]) ELSE host[i]]
  /\ UNCHANGED <<lifecycle, history>>

(* The stream ends, or a snapshot is missing, at page n.  The page may be  *)
(* half overwritten (v), and the run of reprotected pages just before it   *)
(* is never refreshed.                                                     *)
LoadStateFails(s, n, v) ==
  LET pg == get_stack_dirty(pages) IN
  /\ phase = "live" /\ sealed
  /\ ~pg[n].invisible
  /\ s.dirty[n] \/ MissingSnapshot(pg[n], s.dirty[n])
  /\ LoadLoop(s, pg, n)
  /\ mem' = [i \in Pages |->
       IF i < n THEN LoadedContent(pg[i], mem[i], s.dirty[i], s.data[i])
       ELSE IF i = n /\ s.dirty[n] THEN v
       ELSE mem[i]]
  /\ host' = [i \in Pages |->
       IF /\ swapped_in /\ i < n /\ Reprotected(pg, i)
          /\ \E j \in i .. n - 1 : ~Reprotected(pg, j)
       THEN native_prot(pages'[i]) ELSE host[i]]
  /\ poisoned' = TRUE
  /\ UNCHANGED <<lifecycle, base, saved>>

-----------------------------------------------------------------------------

Mapping ==
  \/ \E r \in Ranges, prot \in Prots, no_replace \in BOOLEAN : MmapFixed(r, prot, no_replace)
  \/ \E r \in Ranges, prot \in Prots : MmapAnonymous(r.size, prot)
  \/ \E r \in Ranges, prot \in Prots : Mprotect(r, prot)
  \/ \E r \in Ranges, advise_only \in BOOLEAN : Munmap(r, advise_only)
  \/ \E r, q \in Ranges : MremapGrow(r, q.size)
  \/ \E r, q \in Ranges : MremapShrink(r, q.size)
  \/ RefusedAfterScan

Loader ==
  \/ \E r \in Ranges : MarkInvisible(r)
  \/ \E r \in Ranges, v \in Values : CopyFromExternal(r, v)
  \/ Seal

Guest ==
  \/ \E i \in Pages, v \in Values : GuestWrite(i, v)
  \/ \E i \in Pages, v \in Values : TripWrite(i, v)
  \/ \E i \in Pages, v \in Values : GuardTouch(i, v)
  \/ \E i \in Pages : Fault(i)

States ==
  \/ SaveState
  \/ \E s \in saved : LoadState(s)
  \/ \E s \in saved, n \in Pages, v \in Values : LoadStateFails(s, n, v)

Next ==
  \/ Activate
  \/ Deactivate
  \/ Free
  \/ Mapping
  \/ Loader
  \/ Guest
  \/ States

Spec == Init /\ [][Next]_vars

-----------------------------------------------------------------------------
(* Properties.                                                             *)

PageRecord ==
  [status : MB_ST, dirty : BOOLEAN, invisible : BOOLEAN,
   snap_kind : {"NONE", "ZERO", "DATA"}, snap_data : Values]

SavedState ==
  [status : [Pages -> MB_ST], dirty : [Pages -> BOOLEAN],
   data : [Pages -> Values], image : [Pages -> Values]]

(* The type of the state.                                                  *)
TypeOK ==
  /\ pages \in [Pages -> PageRecord]
  /\ mem \in [Pages -> Values]
  /\ host \in [Pages -> MB_PROT]
  /\ sealed \in BOOLEAN /\ swapped_in \in BOOLEAN /\ active \in BOOLEAN
  /\ phase \in {"live", "trapped", "freed"}
  /\ base \in [Pages -> Values]
  /\ saved \subseteq SavedState
  /\ poisoned \in BOOLEAN

(* On Windows a stack page that was touched since the last scan is dirty   *)
(* in fact though not yet in its record.                                   *)
Touched(i) ==
  Windows /\ swapped_in /\ pages[i].status = MB_ST_RWSTACK /\ host[i] = "RW"

KnownDirty(i) == pages[i].dirty \/ Touched(i)

(* Every write the guest can make is seen: as long as no load has failed,  *)
(* the guest mapping lets a write through without a fault only on a page   *)
(* whose status grants it and that is already known to be dirty            *)
(* (mb_page_native_prot, refreshed after every change of a page record).   *)
NoUntrackedWrite ==
  ~poisoned =>
    \A i \in Pages : host[i] \in {"RW", "RWX"} =>
      Writable(pages[i].status) /\ KnownDirty(i)

(* The baseline of a page is never lost, whatever sequence of mappings,    *)
(* frees, loads and even failed loads the page has been through: a zero    *)
(* snapshot means the baseline was zero, a data snapshot holds exactly the *)
(* sealed content, and a page without a snapshot is clean and still holds  *)
(* the sealed content itself (mb_page_maybe_snapshot and its callers).     *)
BaselineKept ==
  \A i \in Pages :
    ~pages[i].invisible =>
      CASE pages[i].snap_kind = "ZERO" -> base[i] = Zero
        [] pages[i].snap_kind = "DATA" -> base[i] = pages[i].snap_data
        [] pages[i].snap_kind = "NONE" -> base[i] = mem[i] /\ ~pages[i].dirty

(* A savestate leaves out only pages that have not changed: a visible page *)
(* that is not known to be dirty has its sealed content (zero before the   *)
(* seal), so restoring the baseline restores it (free_pages and            *)
(* mb_block_load_state are the ones that make a page clean again).         *)
CleanIsBaseline ==
  ~poisoned =>
    \A i \in Pages :
      ~pages[i].invisible /\ ~KnownDirty(i) => mem[i] = base[i]

(* Memory that mmap hands out reads as zero: a visible free page is zero   *)
(* in every state, after munmap, mremap and loads alike.                   *)
FreeReadsZero ==
  ~poisoned =>
    \A i \in Pages :
      ~pages[i].invisible /\ pages[i].status = MB_ST_FREE => mem[i] = Zero

(* Loading a state puts every visible page back to the content, and every  *)
(* page back to the status, that it had when the state was taken, and      *)
(* invisible pages keep their content (mb_block_load_state).               *)
LoadRestores ==
  [][\A s \in saved :
       LoadState(s) /\ ~poisoned =>
         \A i \in Pages :
           /\ mem'[i] = IF pages[i].invisible THEN mem[i] ELSE s.image[i]
           /\ pages'[i].status = s.status[i]
           /\ ~pages[i].invisible => pages'[i].dirty = s.dirty[i]]_vars

(* A load never stops for want of a snapshot ("missing snapshot for dirty  *)
(* region"): a state that was saved can be loaded.                         *)
LoadFindsSnapshots ==
  \A s \in saved, i \in Pages :
    ~MissingSnapshot(get_stack_dirty(pages)[i], s.dirty[i])

(* No operation takes a page away from another mapping unless it was asked *)
(* to replace it: mmap without an address, MAP_FIXED_NOREPLACE and a       *)
(* growing mremap leave every allocated page with the status and the       *)
(* content it has.                                                         *)
NothingReplaced ==
  [][(\/ \E r \in Ranges, prot \in Prots : MmapAnonymous(r.size, prot) \/ MmapFixed(r, prot, TRUE)
      \/ \E r, q \in Ranges : MremapGrow(r, q.size))
     => \A i \in Pages : pages[i].status # MB_ST_FREE =>
          pages'[i].status = pages[i].status /\ mem'[i] = mem[i]]_vars

(* No operation forgets that a stack page was touched: a page that differs *)
(* from its baseline because of a touch not yet scanned for, and keeps     *)
(* that content, is still known to be dirty (memblock.c:184, the scan      *)
(* "Must run before any op that changes an RWStack page's status").        *)
TouchNotForgotten ==
  [][\A i \in Pages :
       Touched(i) /\ ~pages[i].invisible /\ mem[i] # base[i] /\ mem'[i] = mem[i]
         /\ base' = base => KnownDirty(i)']_vars

(* The block implements the guest's machine: dirty tracking, snapshots and *)
(* protections are invisible to the guest, and a saved state holds enough  *)
(* to restore the image bit-exactly (MACHINE-SPEC section 4, "The          *)
(* essential guarantee").                                                  *)
Machine == INSTANCE GuestMachine WITH
  status    <- [i \in Pages |-> pages[i].status],
  invisible <- [i \in Pages |-> pages[i].invisible],
  states    <- {[status |-> s.status, image |-> s.image] : s \in saved}

ImplementsMachine == Machine!Spec

=============================================================================
