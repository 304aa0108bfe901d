-------------------------------- MODULE Host --------------------------------
(***************************************************************************)
(* One host (source/host/host.c) in the process that Process describes:    *)
(* its activation, its seal, its program break and its savestates.         *)
(*                                                                         *)
(* The calls that activate the host for their own duration (seal, save and *)
(* load) are taken step by step, in the order of the code, and a load may  *)
(* stop at every step: the stream ends, is damaged, or belongs to another  *)
(* image.  The parts that the host puts together are taken as what they    *)
(* promise: the memory block as GuestMachine (MemBlock implements it), the *)
(* thread set as one value, the file system as the position of one file.   *)
(*                                                                         *)
(* Of the memory, the pages of the sbrk area are kept; the program break   *)
(* is a number of them.  Guests change that area by brk alone.             *)
(***************************************************************************)
EXTENDS Process, PageStatus

CONSTANTS
  self,       \* the host
  NHeap,      \* number of pages in the sbrk area
  Values, Zero, \* what a page holds
  ThreadSets, \* what mb_threads holds, registers included
  MaxPos,     \* bound on the position of the file
  MaxSaves    \* bound on the number of different savestates taken

HeapPages == 0 .. NHeap - 1
Breaks == 0 .. NHeap

ASSUME HostAssumption ==
  /\ self \in Hosts
  /\ NHeap \in Nat /\ Zero \in Values
  /\ ThreadSets # {}
  /\ MaxPos \in Nat /\ MaxSaves \in Nat

VARIABLES
  phase,        \* "unborn", "live" or "freed"
  sealed, block_sealed,
  host_ptr,     \* context.host_ptr is set
  program_break,
  status, mem,  \* of the pages of the sbrk area
  threads, main, \* the thread set, and whether its main thread is running
  pos,          \* the position of a file that the guest has open
  call,         \* the call being served
  wanted,       \* history: the client has asked for the host to be active
  saved,        \* the savestates taken so far
  poisoned      \* history: a load has failed after it had changed something

block == <<block_sealed, status, mem>>
guest == <<program_break, threads, main, pos>>
hvars == <<phase, sealed, host_ptr, block, guest, call, wanted, saved, poisoned>>
vars == <<pvars, hvars>>

NoCall == [op |-> "none", at |-> "", was_active |-> FALSE, stream |-> {}]
Call(op, at, stream) ==
  [op |-> op, at |-> at, was_active |-> self \in active, stream |-> stream]
At(op, at) == ~aborted /\ call.op = op /\ call.at = at

Idle == phase = "live" /\ creating # {self} /\ call = NoCall

-----------------------------------------------------------------------------
(* The life of the host.                                                   *)

Init ==
  /\ PInit
  /\ phase = "unborn"
  /\ sealed = FALSE /\ block_sealed = FALSE /\ host_ptr = FALSE
  /\ program_break = 0
  /\ status = [i \in HeapPages |-> MB_ST_FREE]
  /\ mem = [i \in HeapPages |-> Zero]
  /\ threads \in ThreadSets /\ main = TRUE
  /\ pos = 0
  /\ call = NoCall
  /\ wanted = FALSE
  /\ saved = {}
  /\ poisoned = FALSE

mb_host_new ==
  /\ phase = "unborn"
  /\ New(self)
  /\ phase' = "live"
  /\ host_ptr' = TRUE
  /\ UNCHANGED <<sealed, block, guest, call, wanted, saved, poisoned>>

(* The block cannot be mapped, or is one too many.                         *)
mb_host_new_Aborts == phase = "unborn" /\ NewAborts(self) /\ UNCHANGED hvars

(* The host is inactive, but host_ptr stays set.                           *)
mb_host_new_Returns == NewReturns(self) /\ UNCHANGED hvars

mb_host_new_Fails ==
  /\ NewFails(self)
  /\ phase' = "freed"
  /\ UNCHANGED <<sealed, host_ptr, block, guest, call, wanted, saved, poisoned>>

mb_host_destroy ==
  /\ Idle
  /\ Destroy(self)
  /\ phase' = "freed"
  /\ UNCHANGED <<sealed, host_ptr, block, guest, call, wanted, saved, poisoned>>

activate == Activate(self) /\ host_ptr' = TRUE
deactivate == Deactivate(self) /\ host_ptr' = FALSE

mb_host_activate ==
  /\ Idle /\ self \notin active
  /\ activate
  /\ wanted' = TRUE
  /\ UNCHANGED <<phase, sealed, block, guest, call, saved, poisoned>>

mb_host_deactivate ==
  /\ Idle /\ self \in active
  /\ deactivate
  /\ wanted' = FALSE
  /\ UNCHANGED <<phase, sealed, block, guest, call, saved, poisoned>>

mb_host_proc_addr ==
  /\ Idle
  /\ \E e \in Entries : GetThunk(self, e)
  /\ UNCHANGED hvars

-----------------------------------------------------------------------------
(* The guest, which runs in _start, when the client calls it, and in       *)
(* co_clean and ecl_seal.                                                  *)

(* Faulty variant: a guest is entered whether its block is there or not.   *)
Running_Inactive ==
  phase = "live" /\ ~aborted /\ creating \subseteq {self} /\ (call = NoCall \/ call.at = "guest")

Running ==
  /\ phase = "live" /\ ~aborted /\ creating \subseteq {self}
  /\ self \in active
  /\ call = NoCall \/ call.at = "guest"

(* Faulty variant: the break may also be lowered.                          *)
NewBreak_Lower(a) == IF a \in Breaks THEN a ELSE program_break

(* Faulty variant: the end of the area is not looked at.                   *)
NewBreak_Unbounded(a) == IF a > program_break THEN a ELSE program_break

(* The break moves up only, within the area.                               *)
NewBreak(a) == IF a \in Breaks /\ a > program_break THEN a ELSE program_break

(* The result of mmap_fixed is not looked at.                              *)
Brk(a) ==
  LET grown == {i \in HeapPages : program_break <= i /\ i < NewBreak(a)} IN
  /\ Running
  /\ program_break' = NewBreak(a)
  /\ status' = IF \A i \in grown : status[i] = MB_ST_FREE
               THEN [i \in HeapPages |-> IF i \in grown THEN MB_ST_RW ELSE status[i]]
               ELSE status
  /\ UNCHANGED <<pvars, phase, sealed, host_ptr, block_sealed, mem, threads, main, pos,
                 call, wanted, saved, poisoned>>

Write(i, v) ==
  /\ Running
  /\ Writable(status[i])
  /\ mem' = [mem EXCEPT ![i] = v]
  /\ UNCHANGED <<pvars, phase, sealed, host_ptr, block_sealed, status, guest,
                 call, wanted, saved, poisoned>>

(* Threads start, block, run and end; a callback may find any one running. *)
Schedule(t, m) ==
  /\ Running
  /\ threads' = t /\ main' = m
  /\ UNCHANGED <<pvars, phase, sealed, host_ptr, block, program_break, pos,
                 call, wanted, saved, poisoned>>

ReadFile ==
  /\ Running
  /\ pos < MaxPos
  /\ pos' = pos + 1
  /\ UNCHANGED <<pvars, phase, sealed, host_ptr, block, program_break, threads, main,
                 call, wanted, saved, poisoned>>

-----------------------------------------------------------------------------
(* Calls that activate the host and put it back as it was.                 *)

(* Faulty variant: the host is left active.                                *)
Restore_Never == UNCHANGED <<pvars, host_ptr>>

Restore == IF call.was_active THEN UNCHANGED <<pvars, host_ptr>> ELSE deactivate

Enter(op, at, stream) ==
  /\ Idle
  /\ activate
  /\ call' = Call(op, at, stream)
  /\ UNCHANGED <<phase, sealed, block, guest, wanted, saved, poisoned>>

Step(at) == call' = [call EXCEPT !.at = at]

(* The steps of a call leave these alone.                                  *)
InCall == UNCHANGED <<pvars, phase, sealed, host_ptr, block_sealed, main, pos, wanted, saved>>

SealStarts == ~sealed /\ Enter("seal", "guest", {})

(* Were the block sealed already, the call would end here, the host active. *)
Seal ==
  /\ At("seal", "guest")
  /\ IF block_sealed THEN call' = NoCall /\ UNCHANGED <<sealed, block_sealed>>
     ELSE Step("done") /\ sealed' = TRUE /\ block_sealed' = TRUE
  /\ UNCHANGED <<pvars, phase, host_ptr, status, mem, guest, wanted, saved, poisoned>>

SaveStarts == sealed /\ Enter("save", "stream", {})

(* What the stream holds, and `file`, history: what it leaves out.         *)
Stream ==
  [program_break |-> program_break, block |-> [status |-> status, image |-> mem],
   threads |-> threads, file |-> pos]

Save ==
  /\ At("save", "stream") /\ main
  /\ Cardinality(saved) < MaxSaves
  /\ saved' = saved \cup {Stream}
  /\ Step("done")
  /\ UNCHANGED <<pvars, phase, sealed, host_ptr, block, guest, wanted, poisoned>>

(* A write fails, or another thread is running.                            *)
SaveFails ==
  /\ At("save", "stream")
  /\ Step("failed")
  /\ InCall /\ UNCHANGED <<program_break, status, mem, threads, poisoned>>

LoadStarts == sealed /\ \E s \in saved : Enter("load", "break", {s})

(* Faulty variant: the break of the running machine is kept.               *)
LoadBreak_Keeps(s) == program_break

LoadBreak(s) == s.program_break

ReadBreak ==
  /\ At("load", "break")
  /\ \E s \in call.stream : program_break' = LoadBreak(s)
  /\ Step("elf")
  /\ InCall /\ UNCHANGED <<status, mem, threads, poisoned>>

(* The magic strings before it do not match, or the stream ends: the break *)
(* is as it was, or partly overwritten.                                    *)
ReadBreakFails ==
  /\ At("load", "break")
  /\ program_break' \in Breaks
  /\ Step("failed")
  /\ poisoned' = (poisoned \/ program_break' # program_break)
  /\ InCall /\ UNCHANGED <<status, mem, threads>>

CheckElf ==
  /\ At("load", "elf")
  /\ Step("block")
  /\ InCall /\ UNCHANGED <<program_break, status, mem, threads, poisoned>>

LoadBlock ==
  /\ At("load", "block")
  /\ \E s \in call.stream : status' = s.block.status /\ mem' = s.block.image
  /\ Step("threads")
  /\ InCall /\ UNCHANGED <<program_break, threads, poisoned>>

(* The pages below n have been loaded, page n may be half overwritten.     *)
LoadBlockFails(n, v) ==
  /\ At("load", "block")
  /\ \E s \in call.stream :
       /\ status' = [i \in HeapPages |-> IF i < n THEN s.block.status[i] ELSE status[i]]
       /\ mem' = [i \in HeapPages |-> IF i < n THEN s.block.image[i]
                                      ELSE IF i = n THEN v ELSE mem[i]]
  /\ Step("failed")
  /\ poisoned' = TRUE
  /\ InCall /\ UNCHANGED <<program_break, threads>>

LoadThreads ==
  /\ At("load", "threads") /\ main
  /\ \E s \in call.stream : threads' = s.threads
  /\ Step("end")
  /\ InCall /\ UNCHANGED <<program_break, status, mem, poisoned>>

(* Another thread is running, or the stream ends within the thread set.    *)
LoadThreadsFails ==
  /\ At("load", "threads")
  /\ IF main THEN threads' \in ThreadSets ELSE UNCHANGED threads
  /\ Step("failed")
  /\ poisoned' = TRUE
  /\ InCall /\ UNCHANGED <<program_break, status, mem>>

(* The hash is another image's, or the stream ends before the last magic.  *)
StreamRefused ==
  /\ At("load", "elf") \/ At("load", "end")
  /\ Step("failed")
  /\ poisoned' = TRUE
  /\ InCall /\ UNCHANGED <<program_break, status, mem, threads>>

LoadEnds ==
  /\ At("load", "end")
  /\ Step("done")
  /\ InCall /\ UNCHANGED <<program_break, status, mem, threads, poisoned>>

(* The end of all three calls.                                             *)
Return ==
  /\ ~aborted /\ call.at \in {"done", "failed"}
  /\ call' = NoCall
  /\ Restore
  /\ UNCHANGED <<phase, sealed, block, guest, wanted, saved, poisoned>>

-----------------------------------------------------------------------------

Lifecycle ==
  \/ mb_host_new
  \/ mb_host_new_Aborts
  \/ mb_host_new_Returns
  \/ mb_host_new_Fails
  \/ mb_host_destroy
  \/ mb_host_activate
  \/ mb_host_deactivate
  \/ mb_host_proc_addr

Guest ==
  \/ \E a \in -1 .. NHeap + 1 : Brk(a)
  \/ \E i \in HeapPages, v \in Values : Write(i, v)
  \/ \E t \in ThreadSets, m \in BOOLEAN : Schedule(t, m)
  \/ ReadFile

Load ==
  \/ LoadStarts
  \/ ReadBreak \/ ReadBreakFails
  \/ CheckElf
  \/ LoadBlock \/ \E n \in HeapPages, v \in Values : LoadBlockFails(n, v)
  \/ LoadThreads \/ LoadThreadsFails
  \/ StreamRefused
  \/ LoadEnds

(* The other hosts of the process, between the calls of this one.          *)
Others == call = NoCall /\ (\E h \in Hosts \ {self} : Life(h)) /\ UNCHANGED hvars

Next ==
  \/ Lifecycle
  \/ Guest
  \/ SealStarts \/ Seal
  \/ SaveStarts \/ Save \/ SaveFails
  \/ Load
  \/ Return
  \/ Others

Spec == Init /\ [][Next]_vars

-----------------------------------------------------------------------------
(* Properties.                                                             *)

SavedState ==
  [program_break : Breaks, block : [status : [HeapPages -> MB_ST], image : [HeapPages -> Values]],
   threads : ThreadSets, file : 0 .. MaxPos]

(* The type of the state.                                                  *)
TypeOK ==
  /\ PTypeOK
  /\ phase \in {"unborn", "live", "freed"}
  /\ sealed \in BOOLEAN /\ block_sealed \in BOOLEAN /\ host_ptr \in BOOLEAN
  /\ program_break \in Breaks
  /\ status \in [HeapPages -> MB_ST]
  /\ mem \in [HeapPages -> Values]
  /\ threads \in ThreadSets /\ main \in BOOLEAN
  /\ pos \in 0 .. MaxPos
  /\ call.stream \subseteq saved
  /\ saved \subseteq SavedState
  /\ wanted \in BOOLEAN /\ poisoned \in BOOLEAN

(* Between calls the host is active exactly if the client last asked for   *)
(* that, whatever calls were made in between and however they ended, and   *)
(* while it is active the guest's syscalls find it (was_active and         *)
(* host_ptr; the error return of mb_host_seal that would leave the host    *)
(* active is never taken).                                                 *)
ActiveAsAsked ==
  /\ Idle => (self \in active <=> wanted)
  /\ self \in active => host_ptr /\ phase = "live"
  /\ At("seal", "guest") => ~block_sealed

(* The heap that the guest has been told of is there: every page below the *)
(* program break is mapped and none above it, through growth and through   *)
(* loads, which bring back the break and the pages from two parts of the   *)
(* stream.  A load that failed may leave them apart: the break is read     *)
(* before the stream is known to belong to the image (host.c:345).         *)
HeapIsMapped ==
  ~poisoned /\ call.op # "load" =>
    \A i \in HeapPages : status[i] = IF i < program_break THEN MB_ST_RW ELSE MB_ST_FREE

(* A load that succeeds brings back the break, the memory and the threads  *)
(* of one and the same state, though each is read at its own step.         *)
LoadRestoresOneState ==
  [][At("load", "done") /\ Return =>
       \E s \in saved : /\ s \in call.stream
                        /\ program_break' = s.program_break
                        /\ status' = s.block.status /\ mem' = s.block.image
                        /\ threads' = s.threads]_vars

(* A load leaves the guest as it was when the state was saved, as far as   *)
(* the guest can tell (MACHINE-SPEC section 6, "Each host must round-trip  *)
(* its OWN states faithfully").                                            *)
RoundTrip ==
  [][At("load", "done") /\ Return => \E s \in call.stream : pos' = s.file]_vars

(* The host uses the memory block only in ways that GuestMachine, which    *)
(* the block implements, covers: it seals once, saves and loads only after *)
(* the seal, runs the guest only while the block is active, and does       *)
(* nothing after the block is gone.                                        *)
Machine == INSTANCE GuestMachine WITH
  Pages     <- HeapPages,
  invisible <- [i \in HeapPages |-> FALSE],
  sealed    <- block_sealed,
  active    <- self \in active,
  phase     <- IF phase = "freed" THEN "freed" ELSE "live",
  states    <- {s.block : s \in saved}

DrivesMachine == Machine!Spec

=============================================================================
