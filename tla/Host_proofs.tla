----------------------------- MODULE Host_proofs ----------------------------
(***************************************************************************)
(* The process, for any number of hosts, any room in the list of blocks    *)
(* and any size of the thunk page: faults reach their block and thunks     *)
(* keep their entry.  PInv says that the list holds every living host      *)
(* once, that no two of them overlap, and that every thunk given out is in *)
(* its page, which holds no entry twice.                                   *)
(*                                                                         *)
(* One host among them, with an sbrk area of any size: it is active as     *)
(* asked, its heap is mapped, a load brings back one state, and it drives  *)
(* its memory block as GuestMachine allows.  The host is a part of its     *)
(* process (HostInProcess), so that what is shown of the process holds     *)
(* here too.  CallInv follows the three calls that activate the host       *)
(* through their steps, and HeapInv the two parts of a savestate that have *)
(* to fit together, through a load in progress.                            *)
(***************************************************************************)
EXTENDS Host, TLAPS

-----------------------------------------------------------------------------
(* The process.                                                            *)

(* The list q holds exactly the members of A, each once.                   *)
Lists(q, A) ==
  /\ \A i \in DOMAIN q : q[i] \in A
  /\ \A h \in A : \E i \in DOMAIN q : q[i] = h
  /\ \A i, j \in DOMAIN q : q[i] = q[j] => i = j

Apart == \A g, h \in alive : g # h => Region[g] \cap Region[h] = {}

(* The thunks given out, g, and the page they lie in, t.                   *)
ThunksOK(t, g) ==
  /\ Len(t) <= MaxThunks
  /\ \A i, j \in DOMAIN t : t[i] = t[j] => i = j
  /\ \A p \in g : p[1] \in DOMAIN t /\ t[p[1]] = p[2]

PInv ==
  /\ PTypeOK
  /\ Lists(g_blocks, alive)
  /\ Apart
  /\ \A h \in Hosts : ThunksOK(thunks[h], given[h])

-----------------------------------------------------------------------------

(* mb_tripguard_register adds a block that is not in the list.             *)
LEMMA RegisterLists ==
  ASSUME NEW q \in Seq(Hosts), NEW A \in SUBSET Hosts, NEW h \in Hosts, h \notin A, Lists(q, A)
  PROVE  Append(q, h) \in Seq(Hosts) /\ Lists(Append(q, h), A \cup {h})
<1> DEFINE r == Append(q, h)
<1>1. /\ r \in Seq(Hosts) /\ Len(q) \in Nat
      /\ DOMAIN q = 1 .. Len(q) /\ DOMAIN r = 1 .. Len(q) + 1
      /\ r[Len(q) + 1] = h /\ \A i \in 1 .. Len(q) : r[i] = q[i]
  OBVIOUS
<1> HIDE DEF r
<1>2. \A i \in DOMAIN r : r[i] \in A \cup {h}
  BY <1>1 DEF Lists
<1>3. \A g \in A \cup {h} : \E i \in DOMAIN r : r[i] = g
  <2>1. ASSUME NEW g \in A PROVE \E i \in DOMAIN r : r[i] = g
    <3>1. PICK i \in DOMAIN q : q[i] = g
      BY DEF Lists
    <3>2. i \in DOMAIN r /\ r[i] = g
      BY <1>1, <3>1
    <3>3. QED
      BY <3>2
  <2>2. \E i \in DOMAIN r : r[i] = h
    <3>1. Len(q) + 1 \in DOMAIN r
      BY <1>1
    <3>2. QED
      BY <1>1, <3>1
  <2>3. QED
    BY <2>1, <2>2
<1>4. ASSUME NEW i \in DOMAIN r, NEW j \in DOMAIN r, r[i] = r[j] PROVE i = j
  <2>1. ASSUME NEW k \in DOMAIN r, k # Len(q) + 1
        PROVE  k \in DOMAIN q /\ r[k] = q[k]
    BY <1>1, <2>1
  <2>2. ASSUME NEW k \in DOMAIN q PROVE q[k] # h
    BY DEF Lists
  <2>3. QED
    BY <1>1, <1>4, <2>1, <2>2, Zenon DEF Lists
<1>5. QED
  BY <1>1, <1>2, <1>3, <1>4 DEF Lists, r

(* mb_tripguard_unregister removes a block and keeps all the others.       *)
LEMMA UnregisterLists ==
  ASSUME NEW h \in Hosts, g_blocks \in Seq(Hosts), alive \in SUBSET Hosts,
         Lists(g_blocks, alive), h \in alive, unregister(h)
  PROVE  g_blocks' \in Seq(Hosts) /\ Lists(g_blocks', alive \ {h})
<1> DEFINE n == Len(g_blocks)
<1>1. n \in Nat /\ DOMAIN g_blocks = 1 .. n /\ \A i \in 1 .. n : g_blocks[i] \in Hosts
  OBVIOUS
<1>2. PICK k \in 1 .. n :
        /\ g_blocks[k] = h
        /\ g_blocks' = [j \in 1 .. n - 1 |-> IF j = k THEN g_blocks[n] ELSE g_blocks[j]]
  BY <1>1 DEF unregister, Registered, Lists
<1> HIDE DEF n
<1>n. n \in Nat
  BY <1>1
<1>3. n - 1 \in Nat
  BY <1>n
<1>4. \A j \in 1 .. n - 1 : j \in 1 .. n /\ j # n
  BY <1>n
<1>5. n \in 1 .. n
  BY <1>n
<1>6. g_blocks' \in Seq(Hosts) /\ DOMAIN g_blocks' = 1 .. n - 1
  <2>1. g_blocks' \in [1 .. n - 1 -> Hosts]
    BY <1>1, <1>2, <1>4, <1>5
  <2>2. QED
    BY <1>3, <2>1
<1>7. ASSUME NEW i \in 1 .. n - 1 PROVE g_blocks'[i] = IF i = k THEN g_blocks[n] ELSE g_blocks[i]
  BY <1>2
<1>8. ASSUME NEW i \in 1 .. n - 1 PROVE g_blocks'[i] \in alive \ {h}
  BY <1>1, <1>2, <1>4, <1>5, <1>7 DEF Lists
<1>9. ASSUME NEW g \in alive \ {h} PROVE \E i \in 1 .. n - 1 : g_blocks'[i] = g
  <2>1. PICK i \in 1 .. n : g_blocks[i] = g /\ i # k
    BY <1>1, <1>2 DEF Lists
  <2>2. CASE i = n
    <3>1. k \in 1 .. n - 1
      BY <1>n, <2>1, <2>2
    <3>2. g_blocks'[k] = g
      BY <1>7, <2>1, <2>2, <3>1
    <3>3. QED
      BY <3>1, <3>2
  <2>3. CASE i # n
    <3>1. i \in 1 .. n - 1
      BY <1>n, <2>3
    <3>2. g_blocks'[i] = g
      BY <1>7, <2>1, <3>1
    <3>3. QED
      BY <3>1, <3>2
  <2>4. QED
    BY <2>2, <2>3
<1>10. ASSUME NEW i \in 1 .. n - 1, NEW j \in 1 .. n - 1, g_blocks'[i] = g_blocks'[j] PROVE i = j
  <2>1. i \in 1 .. n /\ j \in 1 .. n /\ i # n /\ j # n
    BY <1>4
  <2>2. \A a, b \in 1 .. n : g_blocks[a] = g_blocks[b] => a = b
    BY <1>1 DEF Lists
  <2>3. QED
    BY <1>5, <1>7, <1>10, <2>1, <2>2
<1>11. QED
  BY <1>6, <1>8, <1>9, <1>10 DEF Lists

(* mb_thunks_get finds the thunk of an entry or appends one.               *)
LEMMA GetThunkKeeps ==
  ASSUME PInv, NEW h \in Hosts, NEW e \in Entries, GetThunk(h, e)
  PROVE  /\ thunks' \in [Hosts -> Seq(Entries)]
         /\ given' \in [Hosts -> SUBSET (Nat \X Entries)]
         /\ \A g \in Hosts : ThunksOK(thunks'[g], given'[g])
<1> DEFINE t == thunks[h]
<1>1. t \in Seq(Entries) /\ Len(t) \in Nat /\ DOMAIN t = 1 .. Len(t) /\ ThunksOK(t, given[h])
  BY DEF PInv, PTypeOK
<1>2. ASSUME NEW g \in Hosts, g # h
      PROVE  thunks'[g] = thunks[g] /\ given'[g] = given[g]
  BY <1>2 DEF GetThunk, PInv, PTypeOK
<1>3. CASE ThunkFor(h, e) # {}
  <2>1. /\ thunks' = thunks
        /\ given' = [given EXCEPT ![h] = @ \cup {<<i, e>> : i \in ThunkFor(h, e)}]
    BY <1>3 DEF GetThunk
  <2>2. {<<i, e>> : i \in ThunkFor(h, e)} \subseteq Nat \X Entries
    BY <1>1 DEF ThunkFor
  <2>3. given' \in [Hosts -> SUBSET (Nat \X Entries)]
    BY <2>1, <2>2 DEF PInv, PTypeOK
  <2>4. given'[h] = given[h] \cup {<<i, e>> : i \in ThunkFor(h, e)}
    BY <2>1 DEF PInv, PTypeOK
  <2>5. ThunksOK(t, given'[h])
    BY <1>1, <2>4 DEF ThunksOK, ThunkFor
  <2>6. QED
    BY <1>2, <2>1, <2>3, <2>5, Zenon DEF PInv, PTypeOK
<1>4. CASE ThunkFor(h, e) = {}
  <2> DEFINE r == Append(t, e)
             new == <<Len(t) + 1, e>>
  <2>1. /\ Len(t) < MaxThunks /\ thunks' = [thunks EXCEPT ![h] = r]
        /\ given' = [given EXCEPT ![h] = @ \cup {<<i, e>> : i \in {Len(t) + 1}}]
    BY <1>4 DEF GetThunk
  <2>2. /\ r \in Seq(Entries) /\ Len(r) = Len(t) + 1 /\ DOMAIN r = 1 .. Len(t) + 1
        /\ r[Len(t) + 1] = e /\ \A i \in 1 .. Len(t) : r[i] = t[i]
    BY <1>1
  <2>3. given'[h] = given[h] \cup {new} /\ thunks'[h] = r
    BY <2>1 DEF PInv, PTypeOK
  <2> HIDE DEF r
  <2>4. new \in Nat \X Entries
    BY <1>1
  <2>5. given' \in [Hosts -> SUBSET (Nat \X Entries)]
    BY <2>1, <2>4 DEF PInv, PTypeOK
  <2>6. thunks' \in [Hosts -> Seq(Entries)]
    BY <2>1, <2>2 DEF PInv, PTypeOK
  <2>7. \A i \in 1 .. Len(t) : t[i] # e
    BY <1>1, <1>4 DEF ThunkFor
  <2>8. ASSUME NEW i \in DOMAIN r, NEW j \in DOMAIN r, r[i] = r[j] PROVE i = j
    <3>1. ASSUME NEW k \in DOMAIN r, k # Len(t) + 1
          PROVE  k \in 1 .. Len(t) /\ k \in DOMAIN t /\ r[k] = t[k] /\ r[k] # r[Len(t) + 1]
      BY <1>1, <2>2, <2>7, <3>1
    <3>2. CASE i = Len(t) + 1 \/ j = Len(t) + 1
      BY <2>8, <3>1, <3>2, Zenon
    <3>3. CASE i # Len(t) + 1 /\ j # Len(t) + 1
      <4>1. i \in DOMAIN t /\ j \in DOMAIN t /\ t[i] = t[j]
        BY <2>8, <3>1, <3>3, Zenon
      <4>2. QED
        BY <1>1, <4>1, Zenon DEF ThunksOK
    <3>4. QED
      BY <3>2, <3>3, Zenon
  <2>9. Len(r) <= MaxThunks
    BY <1>1, <2>1, <2>2, ProcessAssumption
  <2>10. ASSUME NEW p \in given[h] PROVE p[1] \in DOMAIN r /\ r[p[1]] = p[2]
    <3>1. p[1] \in 1 .. Len(t) /\ t[p[1]] = p[2]
      BY <1>1 DEF ThunksOK
    <3>2. QED
      BY <1>1, <2>2, <3>1
  <2>11. new[1] \in DOMAIN r /\ r[new[1]] = new[2]
    BY <1>1, <2>2
  <2>12. ThunksOK(r, given'[h])
    BY <2>3, <2>8, <2>9, <2>10, <2>11 DEF ThunksOK
  <2>13. QED
    BY <1>2, <2>3, <2>5, <2>6, <2>12, Zenon DEF PInv
<1>5. QED
  BY <1>3, <1>4

(* The end of a host, by NewFails or by Destroy.                           *)
LEMMA EndKeeps ==
  ASSUME PInv, NEW h \in Hosts, h \in alive, unregister(h), alive' = alive \ {h}
  PROVE  g_blocks' \in Seq(Hosts) /\ Lists(g_blocks', alive') /\ Apart'
<1>1. g_blocks' \in Seq(Hosts) /\ Lists(g_blocks', alive')
  BY UnregisterLists, Zenon DEF PInv, PTypeOK
<1>2. Apart'
  BY DEF Apart, PInv
<1>3. QED
  BY <1>1, <1>2

(* Every step keeps the invariant.                                         *)
LEMMA ProcessStep ==
  ASSUME PInv, [PNext]_pvars
  PROVE  PInv'
<1>1. CASE UNCHANGED pvars
  BY <1>1 DEF pvars, PInv, PTypeOK, Apart
<1>2. ASSUME NEW h \in Hosts, New(h) PROVE PInv'
  <2>1. g_blocks' \in Seq(Hosts) /\ Lists(g_blocks', alive')
    BY <1>2, RegisterLists DEF New, register, PInv, PTypeOK
  <2>2. Apart'
    BY <1>2 DEF New, Busy, PInv, Apart
  <2>3. PTypeOK'
    BY <1>2, <2>1 DEF New, PInv, PTypeOK
  <2>4. QED
    BY <1>2, <2>1, <2>2, <2>3 DEF New, PInv
<1>3. ASSUME NEW h \in Hosts, NewReturns(h) \/ NewAborts(h) \/ Activate(h) \/ Deactivate(h)
      PROVE  PInv'
  <2>1. PTypeOK'
    BY <1>3, Zenon DEF NewReturns, NewAborts, Activate, Deactivate, PInv, PTypeOK
  <2>2. UNCHANGED <<alive, g_blocks, thunks, given>>
    BY <1>3 DEF NewReturns, NewAborts, Activate, Deactivate
  <2>3. QED
    BY <2>1, <2>2 DEF PInv, Apart
<1>4. ASSUME NEW h \in Hosts, NewFails(h) PROVE PInv'
  <2>1. h \in alive
    BY <1>4 DEF NewFails, PInv, PTypeOK
  <2>2. g_blocks' \in Seq(Hosts) /\ Lists(g_blocks', alive') /\ Apart'
    BY <1>4, <2>1, EndKeeps, Zenon DEF NewFails
  <2>3. PTypeOK'
    BY <1>4, <2>2 DEF NewFails, PInv, PTypeOK
  <2>4. QED
    BY <1>4, <2>2, <2>3 DEF NewFails, PInv
<1>5. ASSUME NEW h \in Hosts, Destroy(h) PROVE PInv'
  <2>1. g_blocks' \in Seq(Hosts) /\ Lists(g_blocks', alive') /\ Apart'
    BY <1>5, EndKeeps, Zenon DEF Destroy
  <2>2. /\ thunks' \in [Hosts -> Seq(Entries)]
        /\ given' \in [Hosts -> SUBSET (Nat \X Entries)]
    BY <1>5 DEF Destroy, PInv, PTypeOK
  <2>3. PTypeOK'
    BY <1>5, <2>1, <2>2 DEF Destroy, PInv, PTypeOK
  <2>4. ASSUME NEW g \in Hosts PROVE ThunksOK(thunks'[g], given'[g])
    <3>1. CASE g = h
      <4>1. thunks'[g] = <<>> /\ given'[g] = {}
        BY <1>5, <3>1 DEF Destroy, PInv, PTypeOK
      <4>2. QED
        BY <4>1, ProcessAssumption DEF ThunksOK
    <3>2. CASE g # h
      BY <1>5, <3>2 DEF Destroy, PInv, PTypeOK
    <3>3. QED
      BY <3>1, <3>2
  <2>5. QED
    BY <2>1, <2>3, <2>4 DEF PInv
<1>6. ASSUME NEW h \in Hosts, NEW e \in Entries, GetThunk(h, e) PROVE PInv'
  <2>1. UNCHANGED <<creating, alive, active, g_blocks, aborted>>
    BY <1>6 DEF GetThunk
  <2>2. /\ thunks' \in [Hosts -> Seq(Entries)]
        /\ given' \in [Hosts -> SUBSET (Nat \X Entries)]
        /\ \A g \in Hosts : ThunksOK(thunks'[g], given'[g])
    BY <1>6, GetThunkKeeps
  <2>3. QED
    BY <2>1, <2>2 DEF PInv, PTypeOK, Apart
<1>7. QED
  BY <1>1, <1>2, <1>3, <1>4, <1>5, <1>6 DEF PNext, Life

(* The invariant holds in every reachable state.                           *)
LEMMA ProcessInit == PInit => PInv
<1> SUFFICES ASSUME PInit PROVE PInv
  OBVIOUS
<1>1. \A h \in Hosts : thunks[h] = <<>> /\ given[h] = {}
  BY DEF PInit
<1>2. \A h \in Hosts : ThunksOK(thunks[h], given[h])
  BY <1>1, ProcessAssumption DEF ThunksOK
<1>3. PTypeOK
  <2>1. <<>> \in Seq(Entries) /\ <<>> \in Seq(Hosts)
    OBVIOUS
  <2>2. QED
    BY <2>1, Zenon DEF PInit, PTypeOK
<1>4. Lists(g_blocks, alive) /\ Apart
  BY DEF PInit, Apart, Lists
<1>5. QED
  BY <1>2, <1>3, <1>4 DEF PInv

(* The list of blocks names the hosts that live, each once, and the thunks *)
(* of each host are those given out, in every state (PInv above).          *)
THEOREM ProcessInvariance == PSpec => []PInv
<1>1. PInv /\ [PNext]_pvars => PInv'
  BY ProcessStep
<1>2. QED
  BY <1>1, ProcessInit, PTL DEF PSpec

(* What the invariant says of faults.                                      *)
LEMMA InvReaches == PInv => FaultsReachTheirBlock
<1> SUFFICES ASSUME PInv, NEW a \in UNION {Region[h] : h \in Hosts}
             PROVE  trip(a) = {h \in alive : a \in Region[h]}
  BY DEF FaultsReachTheirBlock
<1>1. DOMAIN g_blocks = 1 .. Len(g_blocks) /\ Len(g_blocks) \in Nat
  BY DEF PInv, PTypeOK
<1>2. ASSUME NEW h \in alive, a \in Region[h] PROVE h \in trip(a)
  <2>1. PICK i \in DOMAIN g_blocks : g_blocks[i] = h
    BY DEF PInv, Lists
  <2>2. ASSUME NEW j \in 1 .. i - 1 PROVE a \notin Region[g_blocks[j]]
    <3>1. j \in DOMAIN g_blocks /\ j # i
      BY <1>1
    <3>2. g_blocks[j] \in alive /\ g_blocks[j] # h
      BY <2>1, <3>1 DEF PInv, Lists
    <3>3. QED
      BY <1>2, <3>2 DEF PInv, Apart
  <2>3. QED
    BY <1>2, <2>1, <2>2 DEF trip
<1>3. ASSUME NEW h \in trip(a) PROVE h \in alive /\ a \in Region[h]
  BY DEF trip, PInv, Lists
<1>4. QED
  BY <1>2, <1>3

(* What the invariant says of thunks.                                      *)
LEMMA InvThunks == PInv => ThunksKeepTheirEntry
<1> SUFFICES ASSUME PInv, NEW h \in Hosts, NEW p \in given[h], NEW q \in given[h]
             PROVE  /\ p[1] \in DOMAIN thunks[h] /\ p[1] <= MaxThunks
                    /\ thunks[h][p[1]] = p[2]
                    /\ p[2] = q[2] => p[1] = q[1]
  BY DEF ThunksKeepTheirEntry
<1>1. /\ DOMAIN thunks[h] = 1 .. Len(thunks[h]) /\ Len(thunks[h]) \in Nat
      /\ ThunksOK(thunks[h], given[h])
  BY DEF PInv, PTypeOK
<1>2. p[1] \in DOMAIN thunks[h] /\ thunks[h][p[1]] = p[2]
  BY <1>1 DEF ThunksOK
<1>3. q[1] \in DOMAIN thunks[h] /\ thunks[h][q[1]] = q[2]
  BY <1>1 DEF ThunksOK
<1>4. p[1] <= MaxThunks
  BY <1>1, <1>2, ProcessAssumption DEF ThunksOK
<1>5. QED
  BY <1>1, <1>2, <1>3, <1>4 DEF ThunksOK

(* Whatever the order in which hosts come and go, and however many there   *)
(* are, a write fault is handled by the block it happened in, and one that *)
(* belongs to no block by none.                                            *)
THEOREM FaultsReach == PSpec => []FaultsReachTheirBlock
BY ProcessInvariance, InvReaches, PTL

(* A thunk enters the function it was given out for, and a function has    *)
(* one thunk, for any size of the page.                                    *)
THEOREM ThunksKeep == PSpec => []ThunksKeepTheirEntry
BY ProcessInvariance, InvThunks, PTL

-----------------------------------------------------------------------------
(* One host.                                                               *)

(* Every step of the host is one of the process, or does not concern it.   *)
LEMMA StepInProcess ==
  ASSUME [Next]_vars
  PROVE  [PNext]_pvars
<1> USE HostAssumption
<1>1. CASE Lifecycle
  BY <1>1 DEF Lifecycle, mb_host_new, mb_host_new_Aborts, mb_host_new_Returns, mb_host_new_Fails,
       mb_host_destroy, mb_host_activate, mb_host_deactivate, mb_host_proc_addr, activate, deactivate, PNext, Life
<1>2. CASE Guest
  BY <1>2 DEF Guest, Brk, Write, Schedule, ReadFile
<1>3. CASE SealStarts \/ SaveStarts \/ LoadStarts
  <2>1. Activate(self)
    BY <1>3, Zenon DEF SealStarts, SaveStarts, LoadStarts, Enter, activate
  <2>2. QED
    BY <2>1 DEF PNext, Life
<1>4. CASE Seal \/ Save \/ SaveFails
  BY <1>4 DEF Seal, Save, SaveFails, InCall
<1>5. CASE Load /\ ~LoadStarts
  BY <1>5 DEF Load, ReadBreak, ReadBreakFails, CheckElf, LoadBlock, LoadBlockFails, LoadThreads,
       LoadThreadsFails, StreamRefused, LoadEnds, InCall
<1>6. CASE Return
  <2>1. UNCHANGED pvars \/ Deactivate(self)
    BY <1>6 DEF Return, Restore, deactivate
  <2>2. QED
    BY <2>1 DEF PNext, Life
<1>7. CASE Others
  BY <1>7 DEF Others, PNext
<1>8. CASE UNCHANGED vars
  BY <1>8 DEF vars
<1>9. QED
  BY <1>1, <1>2, <1>3, <1>4, <1>5, <1>6, <1>7, <1>8 DEF Next

(* A host runs in the process that Process describes.                      *)
THEOREM HostInProcess == Spec => PSpec
<1>1. Init => PInit
  BY DEF Init
<1>2. [Next]_vars => [PNext]_pvars
  BY StepInProcess
<1>3. QED
  BY <1>1, <1>2, PTL DEF Spec, PSpec

-----------------------------------------------------------------------------
(* The inductive invariant.                                                *)

Stages == {"", "guest", "stream", "break", "elf", "block", "threads", "end", "done", "failed"}

CallType ==
  [op : {"none", "seal", "save", "load"}, at : Stages, was_active : BOOLEAN,
   stream : SUBSET SavedState]

HTypeOK ==
  /\ phase \in {"unborn", "live", "freed"}
  /\ sealed \in BOOLEAN /\ block_sealed \in BOOLEAN /\ host_ptr \in BOOLEAN
  /\ program_break \in Breaks
  /\ status \in [HeapPages -> MB_ST]
  /\ mem \in [HeapPages -> Values]
  /\ threads \in ThreadSets /\ main \in BOOLEAN
  /\ pos \in 0 .. MaxPos
  /\ call \in CallType /\ call.stream \subseteq saved
  /\ saved \subseteq SavedState
  /\ wanted \in BOOLEAN /\ poisoned \in BOOLEAN

(* The host through the calls: was_active is what the client wants, and a  *)
(* call begins and ends with no other host being created.                  *)
CallInv ==
  /\ self \in alive <=> phase = "live"
  /\ phase = "unborn" => ~wanted
  /\ creating = {self} => ~wanted /\ call = NoCall
  /\ phase = "live" /\ call.op = "none" /\ creating # {self} => (self \in active <=> wanted)
  /\ call.op = "none" => call = NoCall
  /\ call.op # "none" =>
       phase = "live" /\ creating = {} /\ self \in active /\ (call.was_active <=> wanted)
  /\ self \in active => host_ptr
  /\ block_sealed = sealed
  /\ call.at = "guest" => call.op = "seal" /\ ~sealed
  /\ call.op \in {"save", "load"} => sealed

Mapped(b, st) == \A i \in HeapPages : st[i] = IF i < b THEN MB_ST_RW ELSE MB_ST_FREE

(* Break and pages fit together, in the machine and in the savestates.     *)
HeapInv ==
  ~poisoned =>
    /\ \A s \in saved : Mapped(s.program_break, s.block.status)
    /\ call.op # "load" \/ call.at \in {"break", "failed"} => Mapped(program_break, status)

(* What a load has brought back so far is all of one state.                *)
LoadInv ==
  call.op = "load" =>
    \E s \in saved :
      /\ call.stream = {s}
      /\ call.at \in {"elf", "block", "threads", "end", "done"} => program_break = s.program_break
      /\ call.at \in {"threads", "end", "done"} => status = s.block.status /\ mem = s.block.image
      /\ call.at \in {"end", "done"} => threads = s.threads

HInv == PInv /\ HTypeOK /\ CallInv /\ HeapInv /\ LoadInv

-----------------------------------------------------------------------------

(* A step of a call keeps the rest of its record.                          *)
LEMMA StepRecord ==
  ASSUME call \in CallType, NEW at \in Stages, Step(at)
  PROVE  /\ call' \in CallType /\ call'.at = at
         /\ call'.op = call.op /\ call'.was_active = call.was_active
         /\ call'.stream = call.stream
BY DEF Step, CallType

(* The record of a call that begins.                                       *)
LEMMA EnterRecord ==
  ASSUME HTypeOK, NEW op \in {"seal", "save", "load"}, NEW at \in Stages,
         NEW stream \in SUBSET saved, call' = Call(op, at, stream)
  PROVE  /\ call' \in CallType /\ call'.at = at /\ call'.op = op
         /\ (call'.was_active <=> self \in active) /\ call'.stream = stream
<1> DEFINE w == self \in active
<1>1. w \in BOOLEAN /\ stream \in SUBSET SavedState
  BY DEF HTypeOK
<1>2. call' = [op |-> op, at |-> at, was_active |-> w, stream |-> stream]
  BY DEF Call
<1> HIDE DEF w
<1>3. call' \in CallType /\ call'.at = at /\ call'.op = op /\ call'.stream = stream
  BY <1>1, <1>2 DEF CallType
<1>4. call'.was_active = w
  BY <1>2
<1>5. QED
  BY <1>3, <1>4, Zenon DEF w

(* No call is under way.                                                   *)
LEMMA NoCallRecord ==
  /\ NoCall \in CallType
  /\ NoCall.op = "none" /\ NoCall.at = "" /\ NoCall.stream = {}
BY DEF NoCall, CallType, Stages

(* Steps of other hosts do not concern this one.                           *)
LEMMA OthersApart ==
  ASSUME PInv, CallInv, NEW h \in Hosts, h # self, Life(h)
  PROVE  /\ self \in active' <=> self \in active
         /\ self \in alive' <=> self \in alive
         /\ creating # {self} /\ creating' # {self}
<1>1. CASE New(h) \/ NewReturns(h) \/ NewFails(h) \/ NewAborts(h)
  BY <1>1 DEF New, NewReturns, NewFails, NewAborts
<1>2. CASE Destroy(h) \/ Activate(h) \/ Deactivate(h) \/ \E e \in Entries : GetThunk(h, e)
  BY <1>2, Zenon DEF Destroy, Activate, Deactivate, GetThunk
<1>3. QED
  BY <1>1, <1>2 DEF Life

(* The life of this host and of the others.                                *)
LEMMA LifeStep ==
  ASSUME HInv, PInv', Lifecycle \/ Others
  PROVE  HInv'
<1>1. /\ UNCHANGED <<sealed, block, guest, call, saved, poisoned>>
      /\ wanted' \in BOOLEAN /\ host_ptr' \in BOOLEAN /\ phase' \in {"unborn", "live", "freed"}
  BY Zenon DEF HInv, HTypeOK, Lifecycle, mb_host_new, mb_host_new_Aborts, mb_host_new_Returns,
       mb_host_new_Fails, mb_host_destroy, mb_host_activate, mb_host_deactivate, mb_host_proc_addr, activate,
       deactivate, Others, hvars
<1>2. HTypeOK' /\ HeapInv' /\ LoadInv'
  BY <1>1 DEF HInv, HTypeOK, HeapInv, LoadInv, Mapped, block, guest
<1>3. CallInv'
  <2> USE HostAssumption
  <2>t. /\ creating \subseteq active /\ active \subseteq alive
        /\ creating' \subseteq active' /\ active' \subseteq alive'
    BY DEF HInv, PInv, PTypeOK
  <2>1. CASE mb_host_new
    BY <1>1, <2>1, <2>t DEF mb_host_new, New, HInv, CallInv, block
  <2>2. CASE mb_host_new_Returns
    BY <1>1, <2>2, <2>t DEF mb_host_new_Returns, NewReturns, HInv, CallInv, hvars, block
  <2>3. CASE mb_host_new_Fails
    BY <1>1, <2>3, <2>t, Zenon DEF mb_host_new_Fails, NewFails, HInv, CallInv, block, NoCall
  <2>4. CASE mb_host_destroy
    BY <1>1, <2>4, <2>t, Zenon DEF mb_host_destroy, Destroy, Idle, HInv, CallInv, block, NoCall
  <2>5. CASE mb_host_activate
    BY <1>1, <2>5, <2>t, Zenon DEF mb_host_activate, activate, Activate, Idle, HInv, CallInv, block, NoCall
  <2>6. CASE mb_host_deactivate
    BY <1>1, <2>6, <2>t, Zenon
    DEF mb_host_deactivate, deactivate, Deactivate, Idle, HInv, CallInv, block, NoCall
  <2>7. CASE mb_host_proc_addr
    BY <1>1, <2>7 DEF mb_host_proc_addr, GetThunk, HInv, CallInv, block, hvars
  <2>8. CASE Others
    <3>1. PICK h \in Hosts : h # self /\ Life(h)
      BY <2>8 DEF Others
    <3>2. /\ self \in active' <=> self \in active
          /\ self \in alive' <=> self \in alive
          /\ creating # {self} /\ creating' # {self}
      BY <3>1, OthersApart DEF HInv
    <3>3. call = NoCall /\ UNCHANGED hvars
      BY <2>8 DEF Others
    <3>4. QED
      BY <3>2, <3>3, NoCallRecord, Zenon DEF HInv, CallInv, hvars, block
  <2>9. CASE mb_host_new_Aborts
    BY <1>1, <2>9 DEF mb_host_new_Aborts, NewAborts, HInv, CallInv, block, hvars
  <2>10. QED
    BY <2>1, <2>2, <2>3, <2>4, <2>5, <2>6, <2>7, <2>8, <2>9 DEF Lifecycle
<1>4. QED
  BY <1>2, <1>3 DEF HInv

(* brk, with the result of mmap_fixed ignored: the pages it asks for are   *)
(* free, so that the break never gets ahead of the mapping.                *)
LEMMA BrkMaps ==
  ASSUME NEW b \in Breaks, NEW st \in [HeapPages -> MB_ST], Mapped(b, st),
         NEW c \in Breaks, b <= c
  PROVE  LET grown == {i \in HeapPages : b <= i /\ i < c} IN
         /\ \A i \in grown : st[i] = MB_ST_FREE
         /\ Mapped(c, [i \in HeapPages |-> IF i \in grown THEN MB_ST_RW ELSE st[i]])
BY HostAssumption DEF Mapped, Breaks, HeapPages

(* The guest.                                                              *)
LEMMA GuestStep ==
  ASSUME HInv, PInv', Guest
  PROVE  HInv'
<1>1. UNCHANGED <<pvars, phase, sealed, host_ptr, block_sealed, call, wanted, saved, poisoned>>
  BY DEF Guest, Brk, Write, Schedule, ReadFile, block
<1>2. call.op # "load"
  <2>1. call = NoCall \/ call.at = "guest"
    BY DEF Guest, Brk, Write, Schedule, ReadFile, Running
  <2>2. QED
    BY <2>1, NoCallRecord, Zenon DEF HInv, CallInv
<1>3. CallInv'
  BY <1>1 DEF HInv, CallInv, pvars
<1>4. LoadInv'
  BY <1>1, <1>2 DEF LoadInv
<1>5. ASSUME NEW a \in -1 .. NHeap + 1, Brk(a)
      PROVE  HTypeOK' /\ HeapInv'
  <2> DEFINE c == NewBreak(a)
             grown == {i \in HeapPages : program_break <= i /\ i < c}
             st == [i \in HeapPages |-> IF i \in grown THEN MB_ST_RW ELSE status[i]]
  <2>1. program_break \in Breaks /\ status \in [HeapPages -> MB_ST]
    BY DEF HInv, HTypeOK
  <2>2. c \in Breaks /\ program_break <= c
    BY <2>1, HostAssumption DEF NewBreak, Breaks
  <2>3. /\ program_break' = c
        /\ status' = IF \A i \in grown : status[i] = MB_ST_FREE THEN st ELSE status
    BY <1>5 DEF Brk
  <2>4. st \in [HeapPages -> MB_ST]
    BY <2>1 DEF MB_ST
  <2>5. HTypeOK'
    BY <1>1, <1>5, <2>1, <2>2, <2>3, <2>4 DEF Brk, HInv, HTypeOK
  <2>6. ASSUME ~poisoned PROVE Mapped(c, status')
    <3>1. Mapped(program_break, status)
      BY <1>2, <2>6 DEF HInv, HeapInv
    <3>2. (\A i \in grown : status[i] = MB_ST_FREE) /\ Mapped(c, st)
      BY <2>1, <2>2, <3>1, BrkMaps
    <3>3. QED
      BY <2>3, <3>2
  <2>7. HeapInv'
    BY <1>1, <2>3, <2>6 DEF HInv, HeapInv
  <2>8. QED
    BY <2>5, <2>7
<1>6. ASSUME NEW i \in HeapPages, NEW v \in Values, Write(i, v)
      PROVE  HTypeOK' /\ HeapInv'
  BY <1>1, <1>6 DEF Write, HInv, HTypeOK, HeapInv, guest
<1>7. ASSUME NEW t \in ThreadSets, NEW m \in BOOLEAN, Schedule(t, m)
      PROVE  HTypeOK' /\ HeapInv'
  BY <1>1, <1>7 DEF Schedule, HInv, HTypeOK, HeapInv, block
<1>8. CASE ReadFile
  <2>1. pos' \in 0 .. MaxPos
    BY <1>8, HostAssumption DEF ReadFile, HInv, HTypeOK
  <2>2. HTypeOK' /\ HeapInv'
    BY <1>1, <1>8, <2>1 DEF ReadFile, HInv, HTypeOK, HeapInv, block
  <2>3. QED
    BY <1>3, <1>4, <2>2 DEF HInv
<1>9. QED
  BY <1>3, <1>4, <1>5, <1>6, <1>7, <1>8 DEF HInv, Guest

(* The start of a call.                                                    *)
LEMMA EnterStep ==
  ASSUME HInv, PInv', SealStarts \/ SaveStarts \/ LoadStarts
  PROVE  HInv'
<1>1. ASSUME NEW op \in {"seal", "save", "load"}, NEW at \in {"guest", "stream", "break"},
             NEW stream \in SUBSET saved, Enter(op, at, stream),
             at = "guest" => op = "seal" /\ ~sealed, op # "seal" => sealed,
             op = "load" => at = "break" /\ \E s \in saved : stream = {s}
      PROVE  HInv'
  <2>1. /\ call' \in CallType /\ call'.at = at /\ call'.op = op
        /\ (call'.was_active <=> self \in active) /\ call'.stream = stream
    <3>1. at \in Stages
      BY Zenon DEF Stages
    <3>2. HTypeOK /\ call' = Call(op, at, stream)
      BY <1>1 DEF Enter, HInv
    <3>3. QED
      BY <3>1, <3>2, EnterRecord, Zenon
  <2>2. /\ UNCHANGED <<phase, sealed, block, guest, wanted, saved, poisoned>>
        /\ UNCHANGED <<creating, alive>> /\ creating = {}
        /\ active' = active \cup {self} /\ host_ptr' = TRUE
        /\ phase = "live" /\ call = NoCall
    BY <1>1 DEF Enter, activate, Activate, Idle
  <2>3. HTypeOK'
    BY <1>1, <2>1, <2>2 DEF HInv, HTypeOK, block, guest
  <2>4. CallInv'
    BY <1>1, <2>1, <2>2, NoCallRecord, Zenon DEF HInv, CallInv, block
  <2>5. HeapInv' /\ LoadInv'
    BY <1>1, <2>1, <2>2, NoCallRecord, Zenon DEF HInv, HeapInv, LoadInv, block, guest
  <2>6. QED
    BY <2>3, <2>4, <2>5 DEF HInv
<1>2. CASE SealStarts
  BY <1>1, <1>2 DEF SealStarts
<1>3. CASE SaveStarts
  BY <1>1, <1>3 DEF SaveStarts
<1>4. CASE LoadStarts
  BY <1>1, <1>4 DEF LoadStarts
<1>5. QED
  BY <1>2, <1>3, <1>4

(* The seal and the steps of a save.                                       *)
LEMMA SealStep ==
  ASSUME HInv, PInv', Seal
  PROVE  HInv'
<1>1. call.op = "seal" /\ call.at = "guest" /\ ~sealed /\ ~block_sealed
  BY DEF Seal, At, HInv, CallInv
<1>2. /\ Step("done") /\ sealed' = TRUE /\ block_sealed' = TRUE
      /\ UNCHANGED <<pvars, phase, host_ptr, status, mem, guest, wanted, saved, poisoned>>
  BY <1>1 DEF Seal
<1>3. /\ call' \in CallType /\ call'.at = "done"
      /\ call'.op = "seal" /\ call'.was_active = call.was_active
      /\ call'.stream = call.stream
  BY <1>1, <1>2, StepRecord, Zenon DEF HInv, HTypeOK, Stages
<1>4. HTypeOK'
  BY <1>2, <1>3 DEF HInv, HTypeOK, guest
<1>5. CallInv'
  BY <1>1, <1>2, <1>3 DEF HInv, CallInv, pvars
<1>6. HeapInv' /\ LoadInv'
  BY <1>1, <1>2, <1>3 DEF HInv, HeapInv, LoadInv, guest
<1>7. QED
  BY <1>4, <1>5, <1>6 DEF HInv

(* A save, which ends well or not.                                         *)
LEMMA SaveStep ==
  ASSUME HInv, PInv', Save \/ SaveFails
  PROVE  HInv'
<1>1. PICK at \in {"done", "failed"} : Step(at)
  BY DEF Save, SaveFails
<1>2. call.op = "save" /\ call.at = "stream"
  BY DEF Save, SaveFails, At
<1>3. /\ call' \in CallType /\ call'.at = at
      /\ call'.op = "save" /\ call'.was_active = call.was_active
      /\ call'.stream = call.stream
  BY <1>1, <1>2, StepRecord, Zenon DEF HInv, HTypeOK, Stages
<1>4. UNCHANGED <<pvars, phase, sealed, host_ptr, block_sealed, status, mem, program_break,
                  threads, main, pos, wanted, poisoned>>
  BY DEF Save, SaveFails, InCall, block, guest
<1>5. saved' \in {saved, saved \cup {Stream}}
  BY Zenon DEF Save, SaveFails, InCall
<1>6. Stream \in SavedState
  BY Zenon DEF Stream, SavedState, HInv, HTypeOK
<1>7. HTypeOK'
  BY <1>3, <1>4, <1>5, <1>6 DEF HInv, HTypeOK
<1>8. CallInv'
  BY <1>2, <1>3, <1>4 DEF HInv, CallInv, pvars
<1>9. HeapInv'
  <2>1. Stream.program_break = program_break /\ Stream.block.status = status
    BY DEF Stream
  <2>2. QED
    BY <1>2, <1>3, <1>4, <1>5, <2>1 DEF HInv, HeapInv
<1>10. LoadInv'
  BY <1>3 DEF LoadInv
<1>11. QED
  BY <1>7, <1>8, <1>9, <1>10 DEF HInv

(* A step of a load.                                                       *)
LEMMA LoadCallStep ==
  ASSUME HInv, PInv', NEW at \in Stages \ {"", "guest", "stream", "break"},
         Step(at), call.op = "load", InCall
  PROVE  /\ CallInv'
         /\ call'.op = "load" /\ call'.at = at /\ call'.stream = call.stream
         /\ program_break' \in Breaks /\ status' \in [HeapPages -> MB_ST]
              /\ mem' \in [HeapPages -> Values] /\ threads' \in ThreadSets
              /\ poisoned' \in BOOLEAN => HTypeOK'
<1>1. /\ call' \in CallType /\ call'.at = at
      /\ call'.op = "load" /\ call'.was_active = call.was_active
      /\ call'.stream = call.stream
  BY StepRecord, Zenon DEF HInv, HTypeOK
<1>2. CallInv'
  BY <1>1, Zenon DEF HInv, CallInv, InCall, pvars
<1>3. QED
  BY <1>1, <1>2, Zenon DEF HInv, HTypeOK, InCall

(* A load.                                                                 *)
LEMMA LoadStep ==
  ASSUME HInv, PInv', Load, ~LoadStarts
  PROVE  HInv'
<1>t. /\ program_break \in Breaks /\ status \in [HeapPages -> MB_ST]
      /\ mem \in [HeapPages -> Values] /\ threads \in ThreadSets /\ poisoned \in BOOLEAN
  BY DEF HInv, HTypeOK
<1>l. /\ call.op = "load" /\ InCall
      /\ \E at \in Stages \ {"", "guest", "stream", "break"} : Step(at)
  BY Zenon DEF Load, ReadBreak, ReadBreakFails, CheckElf, LoadBlock, LoadBlockFails, LoadThreads,
       LoadThreadsFails, StreamRefused, LoadEnds, At, Stages
<1>s. PICK s \in saved :
        /\ call.stream = {s}
        /\ call.at \in {"elf", "block", "threads", "end", "done"} => program_break = s.program_break
        /\ call.at \in {"threads", "end", "done"} => status = s.block.status /\ mem = s.block.image
        /\ call.at \in {"end", "done"} => threads = s.threads
  BY <1>l, Zenon DEF HInv, LoadInv
<1>v. s \in SavedState /\ saved' = saved
  BY <1>l, Zenon DEF HInv, HTypeOK, InCall
<1>w. /\ s.program_break \in Breaks /\ s.block.status \in [HeapPages -> MB_ST]
      /\ s.block.image \in [HeapPages -> Values] /\ s.threads \in ThreadSets
  BY <1>v DEF SavedState
<1>1. CASE ReadBreak
  <2>1. /\ Step("elf") /\ program_break' = s.program_break
        /\ UNCHANGED <<status, mem, threads, poisoned>>
    BY <1>1, <1>s DEF ReadBreak, LoadBreak
  <2>2. CallInv' /\ HTypeOK' /\ call'.op = "load" /\ call'.at = "elf" /\ call'.stream = {s}
    BY <1>l, <1>s, <1>t, <1>w, <2>1, LoadCallStep, Zenon DEF Stages
  <2>3. QED
    BY <1>v, <2>1, <2>2 DEF HInv, HeapInv, LoadInv
<1>2. CASE ReadBreakFails
  <2>1. /\ call.at = "break" /\ Step("failed") /\ program_break' \in Breaks
        /\ UNCHANGED <<status, mem, threads>>
    BY <1>2 DEF ReadBreakFails, At
  <2>p. poisoned' \in BOOLEAN /\ (~poisoned' => ~poisoned /\ program_break' = program_break)
    <3>1. poisoned' = (poisoned \/ program_break' # program_break)
      BY <1>2 DEF ReadBreakFails
    <3>2. CASE poisoned \/ program_break' # program_break
      BY <3>1, <3>2, Zenon
    <3>3. CASE ~(poisoned \/ program_break' # program_break)
      BY <3>1, <3>3, Zenon
    <3>4. QED
      BY <3>2, <3>3
  <2>2. CallInv' /\ HTypeOK' /\ call'.op = "load" /\ call'.at = "failed" /\ call'.stream = {s}
    BY <1>l, <1>s, <1>t, <2>1, <2>p, LoadCallStep, Zenon DEF Stages
  <2>3. HeapInv'
    BY <1>v, <2>1, <2>2, <2>p DEF HInv, HeapInv
  <2>4. LoadInv'
    BY <1>v, <2>2 DEF LoadInv
  <2>5. QED
    BY <2>2, <2>3, <2>4 DEF HInv
<1>3. CASE CheckElf
  <2>1. call.at = "elf" /\ Step("block") /\ UNCHANGED <<program_break, status, mem, threads, poisoned>>
    BY <1>3 DEF CheckElf, At
  <2>2. CallInv' /\ HTypeOK' /\ call'.op = "load" /\ call'.at = "block" /\ call'.stream = {s}
    BY <1>l, <1>s, <1>t, <2>1, LoadCallStep, Zenon DEF Stages
  <2>3. QED
    BY <1>s, <1>v, <2>1, <2>2 DEF HInv, HeapInv, LoadInv
<1>4. CASE LoadBlock
  <2>1. /\ call.at = "block" /\ Step("threads") /\ UNCHANGED <<program_break, threads, poisoned>>
        /\ status' = s.block.status /\ mem' = s.block.image
    BY <1>4, <1>s DEF LoadBlock, At
  <2>2. CallInv' /\ HTypeOK' /\ call'.op = "load" /\ call'.at = "threads" /\ call'.stream = {s}
    BY <1>l, <1>s, <1>t, <1>w, <2>1, LoadCallStep, Zenon DEF Stages
  <2>3. QED
    BY <1>s, <1>v, <2>1, <2>2 DEF HInv, HeapInv, LoadInv
<1>5. ASSUME NEW n \in HeapPages, NEW v \in Values, LoadBlockFails(n, v)
      PROVE  HInv'
  <2>1. /\ Step("failed") /\ poisoned' = TRUE /\ UNCHANGED <<program_break, threads>>
        /\ status' = [i \in HeapPages |-> IF i < n THEN s.block.status[i] ELSE status[i]]
        /\ mem' = [i \in HeapPages |-> IF i < n THEN s.block.image[i]
                                       ELSE IF i = n THEN v ELSE mem[i]]
    BY <1>5, <1>s DEF LoadBlockFails
  <2>2. status' \in [HeapPages -> MB_ST] /\ mem' \in [HeapPages -> Values]
    BY <1>t, <1>w, <2>1
  <2>3. CallInv' /\ HTypeOK' /\ call'.op = "load" /\ call'.at = "failed" /\ call'.stream = {s}
    BY <1>l, <1>s, <1>t, <2>1, <2>2, LoadCallStep, Zenon DEF Stages
  <2>4. QED
    BY <1>v, <2>1, <2>3, Zenon DEF HInv, HeapInv, LoadInv
<1>6. CASE LoadThreads
  <2>1. /\ call.at = "threads" /\ Step("end") /\ UNCHANGED <<program_break, status, mem, poisoned>>
        /\ threads' = s.threads
    BY <1>6, <1>s DEF LoadThreads, At
  <2>2. CallInv' /\ HTypeOK' /\ call'.op = "load" /\ call'.at = "end" /\ call'.stream = {s}
    BY <1>l, <1>s, <1>t, <1>w, <2>1, LoadCallStep, Zenon DEF Stages
  <2>3. QED
    BY <1>s, <1>v, <2>1, <2>2, Zenon DEF HInv, HeapInv, LoadInv
<1>7. CASE LoadThreadsFails \/ StreamRefused
  <2>1. /\ Step("failed") /\ poisoned' = TRUE /\ UNCHANGED <<program_break, status, mem>>
        /\ threads' \in ThreadSets
    BY <1>7, <1>t DEF LoadThreadsFails, StreamRefused
  <2>2. CallInv' /\ HTypeOK' /\ call'.op = "load" /\ call'.at = "failed" /\ call'.stream = {s}
    BY <1>l, <1>s, <1>t, <2>1, LoadCallStep, Zenon DEF Stages
  <2>3. QED
    BY <1>v, <2>1, <2>2, Zenon DEF HInv, HeapInv, LoadInv
<1>8. CASE LoadEnds
  <2>1. call.at = "end" /\ Step("done") /\ UNCHANGED <<program_break, status, mem, threads, poisoned>>
    BY <1>8, Zenon DEF LoadEnds, At
  <2>2. CallInv' /\ HTypeOK' /\ call'.op = "load" /\ call'.at = "done" /\ call'.stream = {s}
    BY <1>l, <1>s, <1>t, <2>1, LoadCallStep, Zenon DEF Stages
  <2>3. QED
    BY <1>s, <1>v, <2>1, <2>2 DEF HInv, HeapInv, LoadInv
<1>9. QED
  BY <1>1, <1>2, <1>3, <1>4, <1>5, <1>6, <1>7, <1>8, Zenon DEF Load

(* The end of a call puts the host back as it was.                         *)
LEMMA ReturnStep ==
  ASSUME HInv, PInv', Return
  PROVE  HInv'
<1>1. call.op # "none" /\ call.at \in {"done", "failed"}
  BY NoCallRecord, Zenon DEF Return, HInv, CallInv
<1>2. /\ call' = NoCall
      /\ UNCHANGED <<phase, sealed, block, guest, wanted, saved, poisoned>>
  BY DEF Return
<1>3. HTypeOK'
  <2>1. host_ptr' \in BOOLEAN
    BY Zenon DEF Return, Restore, deactivate, HInv, HTypeOK
  <2>2. QED
    BY <1>2, <2>1, NoCallRecord, Zenon DEF HInv, HTypeOK, block, guest
<1>4. CallInv'
  <2>1. CASE call.was_active
    <3>1. UNCHANGED <<creating, alive, active, host_ptr>>
      BY <2>1 DEF Return, Restore, pvars
    <3>2. QED
      BY <1>1, <1>2, <2>1, <3>1, NoCallRecord, Zenon DEF HInv, CallInv, block
  <2>2. CASE ~call.was_active
    <3>1. /\ active' = active \ {self} /\ UNCHANGED <<creating, alive>> /\ host_ptr' = FALSE
      BY <2>2 DEF Return, Restore, deactivate, Deactivate
    <3>2. QED
      BY <1>1, <1>2, <2>2, <3>1, NoCallRecord, Zenon DEF HInv, CallInv, block
  <2>3. QED
    BY <2>1, <2>2
<1>5. HeapInv'
  <2>1. ASSUME ~poisoned PROVE Mapped(program_break, status)
    <3>1. CASE call.op # "load" \/ call.at = "failed"
      BY <2>1, <3>1 DEF HInv, HeapInv
    <3>2. CASE call.op = "load" /\ call.at = "done"
      BY <2>1, <3>2 DEF HInv, HeapInv, LoadInv
    <3>3. QED
      BY <1>1, <3>1, <3>2
  <2>2. QED
    BY <1>2, <2>1 DEF HInv, HeapInv, block, guest
<1>6. LoadInv'
  BY <1>2, NoCallRecord, Zenon DEF LoadInv
<1>7. QED
  BY <1>3, <1>4, <1>5, <1>6 DEF HInv

(* The invariant holds in every reachable state.                           *)
LEMMA HostStep ==
  ASSUME HInv, [Next]_vars
  PROVE  HInv'
<1>1. PInv'
  BY StepInProcess, ProcessStep, Zenon DEF HInv
<1>2. CASE UNCHANGED vars
  <2>1. UNCHANGED hvars /\ UNCHANGED pvars
    BY <1>2 DEF vars
  <2>2. QED
    BY <1>1, <2>1, Zenon DEF HInv, HTypeOK, CallInv, HeapInv, LoadInv, Mapped, hvars, pvars, block, guest
<1>3. QED
  BY <1>1, <1>2, LifeStep, GuestStep, EnterStep, SealStep, SaveStep, LoadStep, ReturnStep DEF Next

(* The invariant holds at the start.                                       *)
LEMMA HostInit == Init => HInv
<1> SUFFICES ASSUME Init PROVE HInv
  OBVIOUS
<1>1. PInv
  BY ProcessInit DEF Init
<1>2. HTypeOK
  <2>1. 0 \in Breaks /\ 0 \in 0 .. MaxPos
    BY HostAssumption DEF Breaks
  <2>2. status \in [HeapPages -> MB_ST] /\ mem \in [HeapPages -> Values]
    BY HostAssumption DEF Init, MB_ST
  <2>3. call \in CallType /\ call.stream \subseteq saved /\ saved \subseteq SavedState
    BY NoCallRecord, Zenon DEF Init
  <2>4. QED
    BY <2>1, <2>2, <2>3, Zenon DEF Init, HTypeOK
<1>3. CallInv
  BY NoCallRecord, Zenon DEF Init, PInit, CallInv
<1>4. HeapInv
  <2>1. Mapped(program_break, status)
    BY HostAssumption DEF Init, Mapped, HeapPages
  <2>2. QED
    BY <2>1 DEF Init, HeapInv
<1>5. LoadInv
  BY NoCallRecord, Zenon DEF Init, LoadInv
<1>6. QED
  BY <1>1, <1>2, <1>3, <1>4, <1>5 DEF HInv

(* The invariant of the host, HInv above, holds in every state: between and*)
(* within the calls of the client, in whatever order they come.            *)
THEOREM HostInvariance == Spec => []HInv
<1>1. HInv /\ [Next]_vars => HInv'
  BY HostStep
<1>2. QED
  BY <1>1, HostInit, PTL DEF Spec

(* The state keeps its type through every sequence of client calls, guest  *)
(* steps and loads: the break stays in the sbrk area and a stream that is  *)
(* being read is one that was saved.                                       *)
THEOREM HostTypes == Spec => []TypeOK
<1>1. HInv => TypeOK
  BY DEF HInv, HTypeOK, PInv, TypeOK
<1>2. QED
  BY <1>1, HostInvariance, PTL

(* Between calls the host is active exactly if its client asked for that.  *)
THEOREM ActiveAsWanted == Spec => []ActiveAsAsked
<1>1. HInv => ActiveAsAsked
  <2> SUFFICES ASSUME HInv PROVE ActiveAsAsked
    OBVIOUS
  <2>1. Idle => (self \in active <=> wanted)
    BY NoCallRecord, Zenon DEF HInv, CallInv, Idle
  <2>2. self \in active => host_ptr /\ phase = "live"
    BY DEF HInv, CallInv, PInv, PTypeOK
  <2>3. At("seal", "guest") => ~block_sealed
    BY DEF HInv, CallInv, At
  <2>4. QED
    BY <2>1, <2>2, <2>3 DEF ActiveAsAsked
<1>2. QED
  BY <1>1, HostInvariance, PTL

(* The pages below the program break are mapped, and no others, for a heap *)
(* of any size.                                                            *)
THEOREM HeapStaysMapped == Spec => []HeapIsMapped
<1>1. HInv => HeapIsMapped
  BY DEF HInv, HeapInv, HeapIsMapped, Mapped
<1>2. QED
  BY <1>1, HostInvariance, PTL

(* A load that succeeds brings back all of one state.                      *)
THEOREM LoadsOneState == Spec => LoadRestoresOneState
<1> DEFINE Restores ==
      At("load", "done") /\ Return =>
        \E s \in saved : /\ s \in call.stream
                         /\ program_break' = s.program_break
                         /\ status' = s.block.status /\ mem' = s.block.image
                         /\ threads' = s.threads
<1>1. HInv => Restores
  <2> SUFFICES ASSUME HInv, At("load", "done"), Return
               PROVE  \E s \in saved : /\ s \in call.stream
                                       /\ program_break' = s.program_break
                                       /\ status' = s.block.status /\ mem' = s.block.image
                                       /\ threads' = s.threads
    OBVIOUS
  <2>1. UNCHANGED <<block, guest>>
    BY DEF Return
  <2>2. QED
    BY <2>1 DEF HInv, LoadInv, At, block, guest
<1>2. QED
  BY <1>1, HostInvariance, PTL DEF LoadRestoresOneState

-----------------------------------------------------------------------------
(* The host and its memory block.                                          *)

USE DEF MB_ST_FREE, MB_ST_NONE, MB_ST_R, MB_ST_RW, MB_ST_RX, MB_ST_RWX, MB_ST_RWSTACK,
  Machine!MB_ST_FREE, Machine!MB_ST_NONE, Machine!MB_ST_R, Machine!MB_ST_RW, Machine!MB_ST_RX,
  Machine!MB_ST_RWX, Machine!MB_ST_RWSTACK

(* A step that leaves the memory alone is no step of the block, or one     *)
(* that activates or deactivates it.                                       *)
LEMMA MemoryKept ==
  ASSUME UNCHANGED <<mem, status, block_sealed, saved, poisoned>>, ~poisoned,
         phase # "freed", phase' # "freed"
  PROVE  [Machine!Next]_(Machine!vars)
<1>1. CASE self \in active' <=> self \in active
  <2>1. (self \in active)' = (self \in active)
    BY <1>1
  <2>2. QED
    BY <2>1 DEF Machine!vars
<1>2. CASE ~(self \in active' <=> self \in active)
  <2>1. (self \in active)' = ~(self \in active)
    BY <1>2
  <2>2. Machine!Switch
    BY <2>1 DEF Machine!Switch
  <2>3. QED
    BY <2>2 DEF Machine!Next, Machine!Step
<1>3. QED
  BY <1>1, <1>2

(* The block is freed.                                                     *)
LEMMA BlockEnds ==
  ASSUME UNCHANGED <<mem, status, block_sealed, saved, poisoned>>, ~poisoned,
         phase # "freed", phase' = "freed", self \notin active'
  PROVE  Machine!Next
<1>1. (self \in active)' = FALSE
  OBVIOUS
<1>2. Machine!End
  BY <1>1, Zenon DEF Machine!End
<1>3. QED
  BY <1>2 DEF Machine!Next, Machine!Step

(* Every step of the host is a step of GuestMachine or a stutter.          *)
LEMMA HostDrives ==
  ASSUME HInv, [Next]_vars
  PROVE  [Machine!Next]_(Machine!vars)
<1>p. CASE poisoned'
  BY <1>p DEF Machine!Next
<1>q. CASE ~poisoned'
  <2>p. ~poisoned
    BY <1>q, Zenon DEF Next, Lifecycle, mb_host_new, mb_host_new_Aborts, mb_host_new_Returns,
      mb_host_new_Fails, mb_host_destroy, mb_host_activate, mb_host_deactivate, mb_host_proc_addr, Guest, Brk, Write,
      Schedule, ReadFile, SealStarts, Seal, SaveStarts, Save, SaveFails, Load, LoadStarts, Enter,
      ReadBreak, ReadBreakFails, CheckElf, LoadBlock, LoadBlockFails, LoadThreads,
      LoadThreadsFails, StreamRefused, LoadEnds, Return, Others, hvars, vars
  <2>t. /\ creating \subseteq active /\ active \subseteq alive /\ mem \in [HeapPages -> Values]
        /\ (self \in alive <=> phase = "live") /\ (call.op # "none" => phase = "live")
    BY Zenon DEF HInv, PInv, PTypeOK, HTypeOK, CallInv
  <2>s. call.stream \subseteq saved
    BY Zenon DEF HInv, HTypeOK
  <2>1. CASE mb_host_new \/ mb_host_new_Aborts \/ mb_host_new_Returns \/ mb_host_activate
             \/ mb_host_deactivate \/ mb_host_proc_addr
    <3>1. /\ UNCHANGED <<mem, status, block_sealed, saved, poisoned>>
          /\ phase # "freed" /\ phase' # "freed"
      BY <2>1, <2>t DEF mb_host_new, mb_host_new_Aborts, mb_host_new_Returns, NewReturns,
           mb_host_activate, mb_host_deactivate, mb_host_proc_addr, Idle, block, hvars
    <3>2. QED
      BY <2>p, <3>1, MemoryKept, Zenon
  <2>2. CASE mb_host_new_Fails \/ mb_host_destroy
    <3>1. /\ UNCHANGED <<mem, status, block_sealed, saved, poisoned>>
          /\ phase # "freed" /\ phase' = "freed" /\ self \notin active'
      BY <2>2, <2>t DEF mb_host_new_Fails, NewFails, mb_host_destroy, Destroy, Idle, block
    <3>2. QED
      BY <2>p, <3>1, BlockEnds
  <2>3. ASSUME NEW a \in -1 .. NHeap + 1, Brk(a)
        PROVE  [Machine!Next]_(Machine!vars)
    <3> DEFINE grown == {i \in HeapPages : program_break <= i /\ i < NewBreak(a)}
    <3>1. /\ UNCHANGED <<mem, block_sealed, saved, poisoned, phase, active>> /\ phase = "live"
          /\ \/ status' = status
             \/ status' = [i \in HeapPages |-> IF i \in grown THEN MB_ST_RW ELSE status[i]]
      BY <2>3 DEF Brk, Running, pvars
    <3>2. CASE status' = status
      BY <2>p, <3>1, <3>2, MemoryKept
    <3>3. CASE status' = [i \in HeapPages |-> IF i \in grown THEN MB_ST_RW ELSE status[i]]
      <4>1. Machine!Map(grown, MB_ST_RW)
        BY <3>1, <3>3 DEF Machine!Map
      <4>2. grown \in SUBSET HeapPages /\ MB_ST_RW \in Machine!MB_ST \ {MB_ST_FREE}
        BY DEF Machine!MB_ST
      <4>3. Machine!Step
        BY <4>1, <4>2 DEF Machine!Step
      <4>4. QED
        BY <2>p, <3>1, <4>3 DEF Machine!Next
    <3>4. QED
      BY <3>1, <3>2, <3>3
  <2>4. ASSUME NEW i \in HeapPages, NEW v \in Values, Write(i, v)
        PROVE  Machine!Next
    <3>1. UNCHANGED <<status, block_sealed, active, phase, saved, poisoned>> /\ phase = "live"
      BY <2>4, Zenon DEF Write, Running, pvars
    <3>2. Machine!Write(i, v)
      <4>1. (self \in active)' = (self \in active)
        BY <3>1
      <4>2. QED
        BY <2>4, <3>1, <4>1 DEF Write, Running, Machine!Write, Writable, Machine!Writable
    <3>3. QED
      BY <2>p, <3>1, <3>2 DEF Machine!Next, Machine!Step
  <2>5. CASE ReadFile \/ \E t \in ThreadSets, m \in BOOLEAN : Schedule(t, m)
    <3>1. /\ UNCHANGED <<mem, status, block_sealed, saved, poisoned>>
          /\ phase # "freed" /\ phase' # "freed"
      BY <2>5 DEF ReadFile, Schedule, Running, block
    <3>2. QED
      BY <2>p, <3>1, MemoryKept
  <2>6. CASE SealStarts \/ SaveStarts \/ LoadStarts \/ Return
    <3>1. phase = "live"
      BY <2>6, <2>t, NoCallRecord, Zenon DEF SealStarts, SaveStarts, LoadStarts, Enter, Idle, Return, HInv, CallInv
    <3>2. UNCHANGED <<mem, status, block_sealed, saved, poisoned, phase>>
      BY <2>6, Zenon DEF SealStarts, SaveStarts, LoadStarts, Enter, Return, block
    <3>3. QED
      BY <2>p, <3>1, <3>2, MemoryKept, Zenon
  <2>7. CASE Seal
    <3>1. call.op = "seal" /\ call.at = "guest" /\ ~block_sealed /\ phase = "live"
      BY <2>7, <2>t DEF Seal, At, HInv, CallInv
    <3>2. /\ block_sealed' = TRUE
          /\ UNCHANGED <<mem, status, active, phase, saved, poisoned>>
      BY <2>7, <3>1 DEF Seal, pvars
    <3>3. Machine!Seal
      BY <3>1, <3>2, Zenon DEF Machine!Seal
    <3>4. QED
      BY <2>p, <3>1, <3>3, Zenon DEF Machine!Next, Machine!Step
  <2>8. CASE Save
    <3>1. call.op = "save" /\ block_sealed /\ phase = "live"
      BY <2>8, <2>t DEF Save, At, HInv, CallInv
    <3>2. /\ saved' = saved \cup {Stream}
          /\ UNCHANGED <<mem, status, block_sealed, active, phase, poisoned>>
      BY <2>8 DEF Save, block, pvars
    <3>3. Stream.block = [status |-> status,
                          image |-> [i \in HeapPages |->
                                       IF [j \in HeapPages |-> FALSE][i] THEN Zero ELSE mem[i]]]
      BY <2>t DEF Stream
    <3>4. {s.block : s \in saved'} = {s.block : s \in saved} \cup {Stream.block}
      BY <3>2, Zenon
    <3>5. Machine!Save
      BY <3>1, <3>2, <3>3, <3>4, Zenon DEF Machine!Save
    <3>6. Machine!Step
      BY <3>5, Zenon DEF Machine!Step
    <3>7. QED
      BY <2>p, <3>1, <3>6, Zenon DEF Machine!Next
  <2>9. CASE LoadBlock
    <3>1. call.op = "load" /\ block_sealed /\ phase = "live"
      BY <2>9, <2>t, Zenon DEF LoadBlock, At, HInv, CallInv
    <3>2. PICK s \in saved : status' = s.block.status /\ mem' = s.block.image
      BY <2>9, <2>s, Zenon DEF LoadBlock
    <3>3. UNCHANGED <<block_sealed, active, phase, saved, poisoned>>
      BY <2>9 DEF LoadBlock, InCall, pvars
    <3>4. mem' = [i \in HeapPages |-> IF [j \in HeapPages |-> FALSE][i] THEN mem[i]
                                     ELSE s.block.image[i]]
      <4>1. s.block.image \in [HeapPages -> Values]
        BY DEF HInv, HTypeOK, SavedState
      <4>2. QED
        BY <3>2, <4>1
    <3>5. Machine!Load(s.block)
      BY <3>1, <3>2, <3>3, <3>4, Zenon DEF Machine!Load
    <3>6. Machine!Step
      BY <3>5, Zenon DEF Machine!Step
    <3>7. QED
      BY <2>p, <3>1, <3>6, Zenon DEF Machine!Next
  <2>10. CASE SaveFails \/ ReadBreak \/ ReadBreakFails \/ CheckElf \/ LoadThreads \/ LoadEnds
    <3>1. phase = "live"
      BY <2>10, <2>t, Zenon DEF SaveFails, ReadBreak, ReadBreakFails, CheckElf, LoadThreads, LoadEnds, At
    <3>2. UNCHANGED <<mem, status, block_sealed, saved, phase>>
      BY <2>10, Zenon DEF SaveFails, ReadBreak, ReadBreakFails, CheckElf, LoadThreads, LoadEnds, InCall
    <3>3. poisoned' = poisoned
      <4>1. CASE ReadBreakFails
        <5>1. poisoned' = (poisoned \/ program_break' # program_break) /\ poisoned \in BOOLEAN
          BY <4>1 DEF ReadBreakFails, HInv, HTypeOK
        <5>2. poisoned' = FALSE
          BY <1>q, <5>1, Zenon
        <5>3. QED
          BY <2>p, <5>1, <5>2, Zenon
      <4>2. CASE ~ReadBreakFails
        BY <2>10, <4>2, Zenon DEF SaveFails, ReadBreak, CheckElf, LoadThreads, LoadEnds
      <4>3. QED
        BY <4>1, <4>2
    <3>4. QED
      BY <2>p, <3>1, <3>2, <3>3, MemoryKept
  <2>11. CASE LoadThreadsFails \/ StreamRefused \/ \E n \in HeapPages, v \in Values : LoadBlockFails(n, v)
    BY <1>q, <2>11, Zenon DEF LoadThreadsFails, StreamRefused, LoadBlockFails
  <2>12. CASE Others
    <3>1. PICK h \in Hosts : h # self /\ Life(h)
      BY <2>12 DEF Others
    <3>2. (self \in active)' = (self \in active)
      BY <3>1, OthersApart DEF HInv
    <3>3. UNCHANGED <<mem, status, block_sealed, saved, phase, poisoned>>
      BY <2>12, Zenon DEF Others, hvars, block
    <3>4. QED
      BY <3>2, <3>3, Zenon DEF Machine!vars
  <2>13. CASE UNCHANGED vars
    BY <2>13, Zenon DEF vars, hvars, pvars, block, Machine!vars
  <2>14. QED
    BY <2>1, <2>2, <2>3, <2>4, <2>5, <2>6, <2>7, <2>8, <2>9, <2>10, <2>11, <2>12, <2>13
    DEF Next, Lifecycle, Guest, Load
<1>r. QED
  BY <1>p, <1>q

(* The host uses its block only as GuestMachine allows.                    *)
THEOREM HostDrivesMachine == Spec => DrivesMachine
<1>1. Init => Machine!Init
  <2> SUFFICES ASSUME Init PROVE Machine!Init
    OBVIOUS
  <2>1. (self \in active) = FALSE /\ {s.block : s \in saved} = {} /\ phase # "freed"
    <3>1. active = {} /\ saved = {} /\ phase = "unborn"
      BY DEF Init, PInit
    <3>2. QED
      BY <3>1
  <2>2. (IF phase = "freed" THEN "freed" ELSE "live") = "live"
    BY <2>1
  <2>3. QED
    BY <2>1, <2>2, Zenon DEF Init, Machine!Init
<1>2. HInv /\ [Next]_vars => [Machine!Next]_(Machine!vars)
  BY HostDrives
<1>3. QED
  BY <1>1, <1>2, HostInvariance, PTL DEF Spec, DrivesMachine, Machine!Spec

=============================================================================
