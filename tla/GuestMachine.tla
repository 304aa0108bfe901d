---------------------------- MODULE GuestMachine ----------------------------
(***************************************************************************)
(* What the memory block promises (docs/MACHINE-SPEC.md sections 2, 4, 6): *)
(* a guest memory whose pages grant exactly their status, that can be      *)
(* saved and restored as a whole.  There are no dirty bits, no snapshots   *)
(* and no host protections here: a saved state is the image itself.        *)
(* Invisible pages are outside the saved image.                            *)
(***************************************************************************)
EXTENDS PageStatus

CONSTANTS Values, Zero, Pages

VARIABLES
  mem, status, invisible,
  sealed, active, phase,
  states,     \* the saved states: statuses and image of the visible pages
  poisoned    \* a load has failed: the machine promises nothing any more

vars == <<mem, status, invisible, sealed, active, phase, states, poisoned>>

Init ==
  /\ mem = [i \in Pages |-> Zero]
  /\ status = [i \in Pages |-> MB_ST_FREE]
  /\ invisible = [i \in Pages |-> FALSE]
  /\ sealed = FALSE /\ active = FALSE /\ phase = "live"
  /\ states = {}
  /\ poisoned = FALSE

Switch ==
  /\ active' = ~active
  /\ UNCHANGED <<mem, status, invisible, sealed, phase, states, poisoned>>

(* The block is gone, whether it was active or not.                        *)
End ==
  /\ phase' = "freed"
  /\ active' \in {active, FALSE}
  /\ UNCHANGED <<mem, status, invisible, sealed, states, poisoned>>

(* mmap, mprotect and a growing mremap: a status changes, no content does. *)
Map(R, s) ==
  /\ status' = [i \in Pages |-> IF i \in R THEN s ELSE status[i]]
  /\ UNCHANGED <<mem, invisible, sealed, active, phase, states, poisoned>>

(* munmap, a shrinking mremap and madvise.                                 *)
Discard(R, advise_only) ==
  /\ mem' = [i \in Pages |-> IF i \in R THEN Zero ELSE mem[i]]
  /\ status' = [i \in Pages |-> IF i \in R /\ ~advise_only
                                THEN MB_ST_FREE ELSE status[i]]
  /\ UNCHANGED <<invisible, sealed, active, phase, states, poisoned>>

Hide(R) ==
  /\ ~sealed
  /\ invisible' = [i \in Pages |-> i \in R \/ invisible[i]]
  /\ UNCHANGED <<mem, status, sealed, active, phase, states, poisoned>>

CopyIn(R, v) ==
  /\ ~sealed
  /\ mem' = [i \in Pages |-> IF i \in R THEN v ELSE mem[i]]
  /\ UNCHANGED <<status, invisible, sealed, active, phase, states, poisoned>>

Seal ==
  /\ ~sealed
  /\ sealed' = TRUE
  /\ UNCHANGED <<mem, status, invisible, active, phase, states, poisoned>>

Write(i, v) ==
  /\ active
  /\ Writable(status[i])
  /\ mem' = [mem EXCEPT ![i] = v]
  /\ UNCHANGED <<status, invisible, sealed, active, phase, states, poisoned>>

(* The guest dies only of an access that its page does not grant.          *)
Fault(i) ==
  /\ active
  /\ ~Readable(status[i]) \/ ~Writable(status[i])
  /\ phase' = "trapped"
  /\ UNCHANGED <<mem, status, invisible, sealed, active, states, poisoned>>

Save ==
  /\ sealed
  /\ states' = states \cup
       {[status |-> status,
         image |-> [i \in Pages |-> IF invisible[i] THEN Zero ELSE mem[i]]]}
  /\ UNCHANGED <<mem, status, invisible, sealed, active, phase, poisoned>>

Load(s) ==
  /\ sealed
  /\ status' = s.status
  /\ mem' = [i \in Pages |-> IF invisible[i] THEN mem[i] ELSE s.image[i]]
  /\ UNCHANGED <<invisible, sealed, active, phase, states, poisoned>>

Step ==
  \/ Switch
  \/ End
  \/ \E R \in SUBSET Pages, s \in MB_ST \ {MB_ST_FREE} : Map(R, s)
  \/ \E R \in SUBSET Pages, advise_only \in BOOLEAN : Discard(R, advise_only)
  \/ \E R \in SUBSET Pages : Hide(R)
  \/ \E R \in SUBSET Pages, v \in Values : CopyIn(R, v)
  \/ Seal
  \/ \E i \in Pages, v \in Values : Write(i, v)
  \/ \E i \in Pages : Fault(i)
  \/ Save
  \/ \E s \in states : Load(s)

Next == poisoned' \/ (phase = "live" /\ ~poisoned /\ Step)

Spec == Init /\ [][Next]_vars

=============================================================================
