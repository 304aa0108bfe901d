------------------------------ MODULE Process -------------------------------
(***************************************************************************)
(* The hosts of one process.  Each has a memory block at a fixed address;  *)
(* all of them share one fault handler, which finds the block that a write *)
(* belongs to in a list (g_blocks of source/host/tripguard.c).  A host     *)
(* gives out thunks, stubs through which the client enters its guest       *)
(* (source/host/context.c).                                                *)
(*                                                                         *)
(* mb_block_deactivate leaves a block mapped, so that only the end of its  *)
(* host takes it out of the list.  The process has one host thread         *)
(* ("Single-threaded host", tripguard.c:14).                               *)
(***************************************************************************)
EXTENDS Integers, Sequences, FiniteSets

CONSTANTS
  Hosts,      \* the hosts that the client may create
  Region,     \* the addresses of each host's block
  MaxBlocks,  \* MAX_BLOCKS, the room in g_blocks
  Entries,    \* guest addresses that the client asks thunks for
  MaxThunks   \* the number of thunks that fit into their page

ASSUME ProcessAssumption ==
  /\ Region \in [Hosts -> SUBSET Nat]
  /\ MaxBlocks \in Nat \ {0}
  /\ MaxThunks \in Nat

VARIABLES
  creating,   \* the host that mb_host_new is working on, as a set
  alive,      \* the hosts that exist, whose blocks are mapped
  active,     \* those that are active
  g_blocks,   \* the list of registered blocks, each named by its host
  thunks,     \* the entry of each thunk of each host
  given,      \* history: the thunks given out, as pairs of place and entry
  aborted     \* the process has called abort

pvars == <<creating, alive, active, g_blocks, thunks, given, aborted>>

PInit ==
  /\ creating = {} /\ alive = {} /\ active = {}
  /\ g_blocks = <<>>
  /\ thunks = [h \in Hosts |-> <<>>]
  /\ given = [h \in Hosts |-> {}]
  /\ aborted = FALSE

-----------------------------------------------------------------------------
(* The list of blocks.                                                     *)

Registered(h) == {i \in DOMAIN g_blocks : g_blocks[i] = h}

register(h) == g_blocks' = Append(g_blocks, h)

(* Faulty variant: the last block is dropped instead of moved.             *)
unregister_Drop(h) ==
  g_blocks' = IF Registered(h) = {} THEN g_blocks
              ELSE SubSeq(g_blocks, 1, Len(g_blocks) - 1)

(* The last block moves into the place of the one that goes.               *)
unregister(h) ==
  IF Registered(h) = {} THEN UNCHANGED g_blocks
  ELSE \E i \in Registered(h) :
         /\ \A j \in Registered(h) : i <= j
         /\ g_blocks' = [j \in 1 .. Len(g_blocks) - 1 |->
                           IF j = i THEN g_blocks[Len(g_blocks)] ELSE g_blocks[j]]

(* The block to which the handler takes a fault at address a, as a set:    *)
(* the first of the list that contains it, if one does.                    *)
trip(a) ==
  {g_blocks[i] : i \in {i \in DOMAIN g_blocks :
                          /\ a \in Region[g_blocks[i]]
                          /\ \A j \in 1 .. i - 1 : a \notin Region[g_blocks[j]]}}

-----------------------------------------------------------------------------
(* The life of a host.                                                     *)

(* Something is mapped where the block has to be.                          *)
Busy(h) == \E g \in alive : Region[g] \cap Region[h] # {}

(* mb_host_new up to the loading of the image: the block is mapped,        *)
(* registered and active.                                                  *)
New(h) ==
  /\ ~aborted /\ creating = {} /\ h \notin alive
  /\ ~Busy(h) /\ Len(g_blocks) < MaxBlocks
  /\ creating' = {h}
  /\ alive' = alive \cup {h}
  /\ active' = active \cup {h}
  /\ register(h)
  /\ UNCHANGED <<thunks, given, aborted>>

(* The image is loaded and its _start has run: the client gets the host.   *)
NewReturns(h) ==
  /\ ~aborted /\ creating = {h}
  /\ creating' = {}
  /\ active' = active \ {h}
  /\ UNCHANGED <<alive, g_blocks, thunks, given, aborted>>

(* The ELF loader refuses the image: the block is freed again.             *)
NewFails(h) ==
  /\ ~aborted /\ creating = {h}
  /\ creating' = {}
  /\ alive' = alive \ {h}
  /\ active' = active \ {h}
  /\ unregister(h)
  /\ UNCHANGED <<thunks, given, aborted>>

(* The first activation cannot map the block, or finds no room for it.     *)
NewAborts(h) ==
  /\ ~aborted /\ creating = {} /\ h \notin alive
  /\ Busy(h) \/ Len(g_blocks) >= MaxBlocks
  /\ aborted' = TRUE
  /\ UNCHANGED <<creating, alive, active, g_blocks, thunks, given>>

Destroy(h) ==
  /\ ~aborted /\ creating = {} /\ h \in alive
  /\ alive' = alive \ {h}
  /\ active' = active \ {h}
  /\ unregister(h)
  /\ thunks' = [thunks EXCEPT ![h] = <<>>]
  /\ given' = [given EXCEPT ![h] = {}]
  /\ UNCHANGED <<creating, aborted>>

Activate(h) ==
  /\ ~aborted /\ creating = {} /\ h \in alive
  /\ active' = active \cup {h}
  /\ UNCHANGED <<creating, alive, g_blocks, thunks, given, aborted>>

Deactivate(h) ==
  /\ ~aborted /\ creating = {} /\ h \in alive
  /\ active' = active \ {h}
  /\ UNCHANGED <<creating, alive, g_blocks, thunks, given, aborted>>

-----------------------------------------------------------------------------
(* Thunks.                                                                 *)

(* The thunk that h already has for entry e, as a set.                     *)
ThunkFor(h, e) == {i \in DOMAIN thunks[h] : thunks[h][i] = e}

(* Faulty variant: nobody looks whether the page is full.                  *)
GetThunk_NoRoom(h, e) ==
  /\ ~aborted /\ creating = {} /\ h \in alive
  /\ ThunkFor(h, e) = {}
  /\ thunks' = [thunks EXCEPT ![h] = Append(@, e)]
  /\ given' = [given EXCEPT ![h] = @ \cup {<<Len(thunks[h]) + 1, e>>}]
  /\ UNCHANGED <<creating, alive, active, g_blocks, aborted>>

(* When the page is full, the client gets 0 and nothing changes.           *)
GetThunk(h, e) ==
  /\ ~aborted /\ creating = {} /\ h \in alive
  /\ IF ThunkFor(h, e) # {} THEN UNCHANGED thunks
     ELSE /\ Len(thunks[h]) < MaxThunks
          /\ thunks' = [thunks EXCEPT ![h] = Append(@, e)]
  /\ given' = [given EXCEPT ![h] = @ \cup
                 {<<i, e>> : i \in IF ThunkFor(h, e) # {} THEN ThunkFor(h, e)
                                   ELSE {Len(thunks[h]) + 1}}]
  /\ UNCHANGED <<creating, alive, active, g_blocks, aborted>>

-----------------------------------------------------------------------------

Life(h) ==
  \/ New(h)
  \/ NewReturns(h)
  \/ NewFails(h)
  \/ NewAborts(h)
  \/ Destroy(h)
  \/ Activate(h)
  \/ Deactivate(h)
  \/ \E e \in Entries : GetThunk(h, e)

PNext == \E h \in Hosts : Life(h)

PSpec == PInit /\ [][PNext]_pvars

-----------------------------------------------------------------------------
(* Properties.                                                             *)

(* The type of the state.                                                  *)
PTypeOK ==
  /\ alive \subseteq Hosts /\ active \subseteq alive /\ creating \subseteq active
  /\ g_blocks \in Seq(Hosts)
  /\ thunks \in [Hosts -> Seq(Entries)]
  /\ given \in [Hosts -> SUBSET (Nat \X Entries)]
  /\ aborted \in BOOLEAN

(* A write fault in the memory of a host is handled by that host's block   *)
(* and by no other, and one outside of all of them is passed on, in        *)
(* whatever order hosts come and go: no freed block is ever looked at, and *)
(* none that is mapped has dropped out of the list (mb_tripguard_register, *)
(* mb_tripguard_unregister, trip).                                         *)
FaultsReachTheirBlock ==
  \A a \in UNION {Region[h] : h \in Hosts} : trip(a) = {h \in alive : a \in Region[h]}

(* A thunk enters the guest function it was given out for as long as its   *)
(* host lives, and a function has one thunk, which clients may compare     *)
(* (mb_thunks_get).                                                        *)
ThunksKeepTheirEntry ==
  \A h \in Hosts : \A p, q \in given[h] :
    /\ p[1] \in DOMAIN thunks[h] /\ p[1] <= MaxThunks
    /\ thunks[h][p[1]] = p[2]
    /\ p[2] = q[2] => p[1] = q[1]

=============================================================================
