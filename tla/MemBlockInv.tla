---------------------------- MODULE MemBlockInv -----------------------------
(***************************************************************************)
(* The inductive invariant of the memory block.  It speaks of one page at  *)
(* a time: p is the page's record, c its content, b its baseline and h the *)
(* protection installed on its guest mapping.                              *)
(***************************************************************************)
EXTENDS MemBlock

(* The snapshot discipline.  It survives failed loads.                     *)
SnapshotOK(p, c, b, h, isSealed) ==
  /\ p.invisible => p.snap_kind = "ZERO"
  /\ ~isSealed => p.snap_kind = "ZERO" /\ b = Zero
  /\ ~p.invisible /\ p.snap_kind = "ZERO" => b = Zero
  /\ ~p.invisible /\ p.snap_kind = "DATA" => b = p.snap_data
  /\ p.snap_kind = "NONE" =>
       /\ b = c /\ ~p.dirty
       /\ h \in {"NONE", "R", "RX"}
       /\ ~(Windows /\ p.status = MB_ST_RWSTACK)

(* The mapping has the protection that the record calls for, but for a     *)
(* page the loader has just copied to and a guard page just touched.       *)
HostOK(p, h, isSealed, isMapped) ==
  IF ~isMapped THEN h = "NONE"
  ELSE \/ h = native_prot(p)
       \/ ~isSealed /\ p.dirty /\ h = native_prot([p EXCEPT !.dirty = FALSE])
       \/ Windows /\ p.status = MB_ST_RWSTACK /\ h = "RW"

(* The page is dirty in its record, or is a touched guard page.            *)
IsDirty(p, h) == p.dirty \/ (Windows /\ p.status = MB_ST_RWSTACK /\ h = "RW")

(* Without a failed load, clean means baseline and free means zero.        *)
ContentOK(p, c, b, h) ==
  ~p.invisible =>
    /\ ~IsDirty(p, h) => c = b
    /\ p.status = MB_ST_FREE => c = Zero

(* A savestate leaves out only pages that had their baseline content.      *)
SavedOK(s, i) ==
  ~pages[i].invisible =>
    /\ s.image[i] = IF s.dirty[i] THEN s.data[i] ELSE base[i]
    /\ s.status[i] = MB_ST_FREE => s.image[i] = Zero

(* A page that some state will make a guard page has its snapshot.         *)
GuardsCaptured(s, i) ==
  Windows /\ s.status[i] = MB_ST_RWSTACK => pages[i].snap_kind # "NONE"

LifecycleOK ==
  /\ active => swapped_in
  /\ ~sealed => saved = {} /\ ~poisoned

IInv ==
  /\ TypeOK
  /\ LifecycleOK
  /\ \A i \in Pages : SnapshotOK(pages[i], mem[i], base[i], host[i], sealed)
  /\ \A s \in saved, i \in Pages : GuardsCaptured(s, i)
  /\ ~poisoned =>
       /\ \A i \in Pages : HostOK(pages[i], host[i], sealed, swapped_in)
       /\ \A i \in Pages : ContentOK(pages[i], mem[i], base[i], host[i])
       /\ \A s \in saved, i \in Pages : SavedOK(s, i)

=============================================================================
