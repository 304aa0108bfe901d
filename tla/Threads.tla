------------------------------ MODULE Threads -------------------------------
(***************************************************************************)
(* The guest's green threads and futexes (source/host/threading.c), driven *)
(* by the syscalls of the running thread (dispatch in source/host/host.c). *)
(*                                                                         *)
(* One thread runs at a time, until it makes a call that switches.  Its    *)
(* guest_rsp and thread_area are in the host's Context, the other threads' *)
(* are in their records; the two registers are always moved together and   *)
(* are one value here.  `frame` is history: the registers each thread      *)
(* really has.  Every call that can suspend a thread makes it resume with  *)
(* result 0, so results are left out.                                      *)
(*                                                                         *)
(* Guest threads use the words of Locks as musl's priority-inheriting      *)
(* mutexes do, and the other words, and the calls on them, as they like.   *)
(* A 32-bit futex word is its low bits and its FUTEX_WAITERS bit.          *)
(***************************************************************************)
EXTENDS Integers, Sequences, FiniteSets, FiniteSetsExt, Functions

CONSTANTS
  Locks,      \* futex words used as PI locks
  Plain,      \* the other futex words
  NoAddr,     \* the null address
  Contexts,   \* values of the registers
  Stores,     \* low bits that guests store in the words of Plain
  MaxTid,     \* bound on the thread ids
  MaxSaves    \* bound on the number of different savestates taken

Addrs == Locks \cup Plain

ASSUME ThreadsAssumption ==
  /\ Locks \cap Plain = {}
  /\ NoAddr \notin Addrs
  /\ 0 \in Contexts
  /\ Stores \subseteq Nat
  /\ MaxTid \in Nat \ {0}
  /\ MaxSaves \in Nat

VARIABLES
  threads,    \* the gthread record of each thread id in use
  next_tid, active_tid,
  futicies,   \* the queue of each futex word, empty where the code has none
  word,       \* the futex words in guest memory
  context,    \* the registers of the running thread
  frame,      \* history: see above
  holders,    \* history: the threads that have acquired each lock
  phase,      \* "live", "trapped" or "broken" (a load failed halfway)
  saved       \* the savestates taken so far

vars == <<threads, next_tid, active_tid, futicies, word, context, frame,
          holders, phase, saved>>

Word(v, w) == [val |-> v, waiters |-> w]

(* Faulty variant: the main thread's id is given out again.                *)
FirstTid_Main == 1

FirstTid == 2

Init ==
  /\ threads = [t \in {1} |-> [state |-> "RUNNABLE", context |-> 0, tid_address |-> NoAddr]]
  /\ context = 0
  /\ frame = [t \in {1} |-> 0]
  /\ next_tid = FirstTid
  /\ active_tid = 1
  /\ futicies = [a \in Addrs |-> <<>>]
  /\ word = [a \in Addrs |-> Word(0, FALSE)]
  /\ holders = [a \in Locks |-> {}]
  /\ phase = "live"
  /\ saved = {}

-----------------------------------------------------------------------------
(* Scheduling.  th is the thread table as the call has left it so far.     *)

Runnable(th) == {t \in DOMAIN th : th[t].state = "RUNNABLE"}

(* Faulty variant: always the smallest runnable id.                        *)
NextRunnable_First(th) == Min(Runnable(th))

(* The next runnable thread after the active one, wrapping around.         *)
NextRunnable(th) ==
  LET above == {t \in Runnable(th) : t > active_tid}
  IN  IF above # {} THEN Min(above) ELSE Min(Runnable(th))

swap_to(th, tid) ==
  /\ threads' = [th EXCEPT ![active_tid].context = context]
  /\ context' = th[tid].context
  /\ active_tid' = tid
  /\ phase' = phase

(* The host traps if all threads are asleep.                               *)
swap_to_next(th) ==
  IF Runnable(th) = {} \/ NextRunnable(th) = active_tid
  THEN /\ threads' = th
       /\ phase' = IF Runnable(th) = {} THEN "trapped" ELSE phase
       /\ UNCHANGED <<context, active_tid>>
  ELSE swap_to(th, NextRunnable(th))

WithState(th, T, s) ==
  [t \in DOMAIN th |-> IF t \in T THEN [th[t] EXCEPT !.state = s] ELSE th[t]]

(* Faulty variant: the thread goes to sleep without being queued.          *)
park_me_Unqueued(addr) ==
  /\ UNCHANGED futicies
  /\ swap_to_next(WithState(threads, {active_tid}, "WAITING"))

(* Faulty variant: the thread is put before the others.                    *)
park_me_First(addr) ==
  /\ futicies' = [futicies EXCEPT ![addr] = <<active_tid>> \o @]
  /\ swap_to_next(WithState(threads, {active_tid}, "WAITING"))

park_me(addr) ==
  /\ futicies' = [futicies EXCEPT ![addr] = Append(@, active_tid)]
  /\ swap_to_next(WithState(threads, {active_tid}, "WAITING"))

(* The first waiter of addr, as a set: there may be none.                  *)
FirstWaiter(addr) == {futicies[addr][i] : i \in DOMAIN futicies[addr] \cap {1}}

Unparked(addr) == WithState(threads, FirstWaiter(addr), "RUNNABLE")
unpark_one(addr) == futicies' = [futicies EXCEPT ![addr] = SubSeq(@, 2, Len(@))]

-----------------------------------------------------------------------------
(* The life of threads.                                                    *)

(* f, and v at t.                                                          *)
With(f, t, v) == [u \in DOMAIN f \cup {t} |-> IF u = t THEN v ELSE f[u]]

(* f without t.                                                            *)
Without(f, t) == [u \in DOMAIN f \ {t} |-> f[u]]

(* The child gets its registers from the guest and becomes runnable, once  *)
(* its stack has been made RWSTACK; if that fails, nothing changes.        *)
Spawn(c, addr) ==
  /\ phase = "live" /\ next_tid <= MaxTid
  /\ threads' = With(threads, next_tid, [state |-> "RUNNABLE", context |-> c, tid_address |-> addr])
  /\ frame' = With(frame, next_tid, c)
  /\ next_tid' = next_tid + 1
  /\ UNCHANGED <<active_tid, futicies, word, context, holders, phase, saved>>

(* The word at tid_address is cleared and one waiter on it woken.  The     *)
(* main thread must not exit, and some other thread must be able to run.   *)
Exit ==
  LET addr == threads[active_tid].tid_address
      th   == IF addr = NoAddr THEN threads ELSE Unparked(addr)
  IN
  /\ phase = "live"
  /\ IF active_tid = 1
     THEN phase' = "trapped" /\ UNCHANGED <<threads, active_tid, futicies, word, context, frame>>
     ELSE /\ IF addr = NoAddr THEN UNCHANGED <<word, futicies>>
             ELSE unpark_one(addr) /\ word' = [word EXCEPT ![addr] = Word(0, FALSE)]
          /\ IF NextRunnable(th) = active_tid
             THEN phase' = "trapped" /\ threads' = th /\ UNCHANGED <<active_tid, context, frame>>
             ELSE /\ threads' = Without(th, active_tid)
                  /\ frame' = Without(frame, active_tid)
                  /\ active_tid' = NextRunnable(th)
                  /\ context' = th[NextRunnable(th)].context
                  /\ phase' = phase
  /\ UNCHANGED <<next_tid, holders, saved>>

SetTidAddress(addr) ==
  /\ phase = "live"
  /\ threads' = [threads EXCEPT ![active_tid].tid_address = addr]
  /\ UNCHANGED <<next_tid, active_tid, futicies, word, context, frame, holders, phase, saved>>

Yield ==
  /\ phase = "live"
  /\ swap_to_next(threads)
  /\ UNCHANGED <<next_tid, futicies, word, frame, holders, saved>>

-----------------------------------------------------------------------------
(* Futexes.                                                                *)

(* A wait whose comparison fails returns EAGAIN and changes nothing.       *)
FutexWait(addr, compare) ==
  /\ phase = "live"
  /\ word[addr] = compare
  /\ park_me(addr)
  /\ UNCHANGED <<next_tid, word, frame, holders, saved>>

(* The first `wake` waiters of `from` are woken, the next `requeue` move   *)
(* to the end of `to`.  If the two are the same word, the rest of the      *)
(* queue is rotated, unless it has come down to one thread.                *)
FutexRequeue(from, to, wake, requeue) ==
  LET q     == futicies[from]
      n     == Min({wake, Len(q)})
      rest  == SubSeq(q, n + 1, Len(q))
      moved == IF from # to THEN Min({requeue, Len(rest)})
               ELSE IF Len(rest) < 2 THEN 0 ELSE requeue % Len(rest)
      left  == SubSeq(rest, moved + 1, Len(rest))
  IN
  /\ phase = "live"
  /\ threads' = WithState(threads, Range(SubSeq(q, 1, n)), "RUNNABLE")
  /\ futicies' = LET f == [futicies EXCEPT ![from] = left]
                 IN  IF moved = 0 THEN f
                     ELSE [f EXCEPT ![to] = @ \o SubSeq(rest, 1, moved)]
  /\ UNCHANGED <<next_tid, active_tid, word, context, frame, holders, phase, saved>>

(* Faulty variant: the word does not show that somebody waits.             *)
Contended_NoBit(addr) == word[addr]

Contended(addr) == [word[addr] EXCEPT !.waiters = TRUE]

FutexLockPi(addr) ==
  /\ phase = "live"
  /\ IF word[addr] = Word(0, FALSE)
     THEN /\ word' = [word EXCEPT ![addr] = Word(active_tid, FALSE)]
          /\ holders' = [holders EXCEPT ![addr] = @ \cup {active_tid}]
          /\ UNCHANGED <<threads, active_tid, futicies, context, phase>>
     ELSE /\ word' = [word EXCEPT ![addr] = Contended(addr)]
          /\ park_me(addr)
          /\ UNCHANGED holders
  /\ UNCHANGED <<next_tid, frame, saved>>

(* Faulty variant: the word is cleared although the lock is handed over.   *)
Handoff_Cleared(addr) == Word(0, FALSE)

(* The word names the thread that the lock is handed to.                   *)
Handoff(addr) == Word(Head(futicies[addr]), Len(futicies[addr]) > 1)

(* The lock goes to its first waiter, and so does the processor.           *)
FutexUnlockPi(addr) ==
  /\ phase = "live"
  /\ IF futicies[addr] # <<>>
     THEN /\ word' = [word EXCEPT ![addr] = Handoff(addr)]
          /\ unpark_one(addr)
          /\ swap_to(Unparked(addr), Head(futicies[addr]))
          /\ holders' = [holders EXCEPT ![addr] = (@ \ {active_tid}) \cup FirstWaiter(addr)]
     ELSE /\ word' = [word EXCEPT ![addr] = Word(0, FALSE)]
          /\ holders' = [holders EXCEPT ![addr] = @ \ {active_tid}]
          /\ UNCHANGED <<threads, active_tid, futicies, context, phase>>
  /\ UNCHANGED <<next_tid, frame, saved>>

-----------------------------------------------------------------------------
(* What the running guest thread does between its calls.                   *)

Run(c) ==
  /\ phase = "live"
  /\ context' = c
  /\ frame' = [frame EXCEPT ![active_tid] = c]
  /\ UNCHANGED <<threads, next_tid, active_tid, futicies, word, holders, phase, saved>>

Store(addr, v) ==
  /\ phase = "live"
  /\ word' = [word EXCEPT ![addr] = Word(v, FALSE)]
  /\ UNCHANGED <<threads, next_tid, active_tid, futicies, context, frame, holders, phase, saved>>

(* musl takes and releases an uncontended lock by a compare-and-swap.      *)
FastLock(addr) ==
  /\ phase = "live"
  /\ word[addr] = Word(0, FALSE)
  /\ word' = [word EXCEPT ![addr] = Word(active_tid, FALSE)]
  /\ holders' = [holders EXCEPT ![addr] = @ \cup {active_tid}]
  /\ UNCHANGED <<threads, next_tid, active_tid, futicies, context, frame, phase, saved>>

FastUnlock(addr) ==
  /\ phase = "live"
  /\ word[addr] = Word(active_tid, FALSE)
  /\ word' = [word EXCEPT ![addr] = Word(0, FALSE)]
  /\ holders' = [holders EXCEPT ![addr] = @ \ {active_tid}]
  /\ UNCHANGED <<threads, next_tid, active_tid, futicies, context, frame, phase, saved>>

-----------------------------------------------------------------------------
(* Savestates.  `word` is the part of the memory block, which the host     *)
(* saves and loads before the thread set.                                  *)

(* Faulty variant: the registers of the main thread are not brought up to  *)
(* date.                                                                   *)
WithMain_Stale == threads

(* The main thread's record takes its registers from the context.          *)
WithMain == [threads EXCEPT ![1].context = context]

(* Saving is refused unless the main thread is running.  A write that      *)
(* fails leaves no state behind.                                           *)
SaveState ==
  /\ phase = "live" /\ active_tid = 1
  /\ threads' = WithMain
  /\ \/ /\ Cardinality(saved) < MaxSaves
        /\ saved' = saved \cup
             {[threads |-> WithMain, next_tid |-> next_tid, futicies |-> futicies,
               word |-> word, frame |-> frame, holders |-> holders]}
     \/ saved' = saved
  /\ UNCHANGED <<next_tid, active_tid, futicies, word, context, frame, holders, phase>>

(* Faulty variant: the queues of the running machine are kept.             *)
LoadState_KeepsQueues(s) ==
  /\ phase = "live" /\ active_tid = 1
  /\ threads' = s.threads
  /\ next_tid' = s.next_tid
  /\ word' = s.word
  /\ frame' = s.frame
  /\ holders' = s.holders
  /\ context' = s.threads[1].context
  /\ UNCHANGED <<active_tid, futicies, phase, saved>>

LoadState(s) ==
  /\ phase = "live" /\ active_tid = 1
  /\ threads' = s.threads
  /\ next_tid' = s.next_tid
  /\ futicies' = s.futicies
  /\ word' = s.word
  /\ frame' = s.frame
  /\ holders' = s.holders
  /\ context' = s.threads[1].context
  /\ UNCHANGED <<active_tid, phase, saved>>

(* The stream ends before the thread table, within it, or within the       *)
(* queues, which are replaced one after the other.                         *)
LoadStateFails(s) ==
  /\ phase = "live" /\ active_tid = 1
  /\ \/ /\ next_tid' \in {next_tid, s.next_tid}
        /\ UNCHANGED <<threads, futicies>>
     \/ /\ next_tid' = s.next_tid
        /\ \E n \in 0 .. MaxTid :
             threads' = [t \in {u \in DOMAIN s.threads : u <= n} |-> s.threads[t]]
        /\ UNCHANGED futicies
     \/ /\ next_tid' = s.next_tid
        /\ threads' = s.threads
        /\ \E done \in SUBSET Addrs, part \in Addrs : \E n \in 0 .. Len(s.futicies[part]) :
             futicies' = [a \in Addrs |-> IF a \in done THEN s.futicies[a]
                                         ELSE IF a = part THEN SubSeq(s.futicies[a], 1, n)
                                         ELSE <<>>]
  /\ word' = s.word
  /\ phase' = "broken"
  /\ UNCHANGED <<active_tid, context, frame, holders, saved>>

(* The thread set refuses to load while another thread is running, but by  *)
(* then the memory block has been loaded.                                  *)
LoadStateHijacked(s) ==
  /\ phase = "live" /\ active_tid # 1
  /\ word' = s.word
  /\ phase' = "broken"
  /\ UNCHANGED <<threads, next_tid, active_tid, futicies, context, frame, holders, saved>>

-----------------------------------------------------------------------------

Holds(addr) == word[addr].val = active_tid

ThreadCalls ==
  \/ \E c \in Contexts, addr \in Plain \cup {NoAddr} : Spawn(c, addr)
  \/ (\A addr \in Locks : ~Holds(addr)) /\ Exit
  \/ \E addr \in Plain \cup {NoAddr} : SetTidAddress(addr)
  \/ Yield

FutexCalls ==
  \/ \E addr \in Plain, v \in Stores : FutexWait(addr, Word(v, FALSE))
  \/ \E from, to \in Plain, wake, requeue \in 0 .. MaxTid : FutexRequeue(from, to, wake, requeue)
  \/ \E addr \in Locks : ~Holds(addr) /\ FutexLockPi(addr)
  \/ \E addr \in Locks : Holds(addr) /\ FutexUnlockPi(addr)

Guest ==
  \/ \E c \in Contexts : Run(c)
  \/ \E addr \in Plain, v \in Stores : Store(addr, v)
  \/ \E addr \in Locks : FastLock(addr)
  \/ \E addr \in Locks : FastUnlock(addr)

States ==
  \/ SaveState
  \/ \E s \in saved : LoadState(s)
  \/ \E s \in saved : LoadStateFails(s)
  \/ \E s \in saved : LoadStateHijacked(s)

Next == ThreadCalls \/ FutexCalls \/ Guest \/ States

Spec == Init /\ [][Next]_vars

(* A guest that keeps yielding, as a cooperative scheduler needs.          *)
FairSpec == Spec /\ WF_vars(Yield)

-----------------------------------------------------------------------------
(* Properties.                                                             *)

Thread == [state : {"RUNNABLE", "WAITING"}, context : Contexts,
           tid_address : Plain \cup {NoAddr}]
Tids == 1 .. MaxTid

(* The type of the state.  A thread id is not given out while a thread has *)
(* it.                                                                     *)
TypeOK ==
  /\ DOMAIN threads \subseteq Tids
  /\ phase # "broken" => \A t \in DOMAIN threads : t < next_tid
  /\ \A t \in DOMAIN threads : threads[t] \in Thread
  /\ next_tid \in 2 .. MaxTid + 1
  /\ active_tid \in Tids
  /\ \A a \in Addrs : futicies[a] \in Seq(Tids)
  /\ \A a \in Addrs : word[a].val \in Tids \cup Stores \cup {0} /\ word[a].waiters \in BOOLEAN
  /\ context \in Contexts
  /\ phase \in {"live", "trapped", "broken"}

Places(t) ==
  {p \in UNION {{a} \X DOMAIN futicies[a] : a \in Addrs} : futicies[p[1]][p[2]] = t}

(* No thread is lost and none is woken twice: a sleeping thread has        *)
(* exactly one place in all the queues and a thread that can run has none, *)
(* through waits, wakes, requeues, hand-overs, exits and loads, and only   *)
(* living threads are queued (futex_queue and gthread.state, which         *)
(* threading.c updates separately).                                        *)
SleepersAreQueued ==
  phase # "broken" =>
    /\ \A t \in DOMAIN threads :
         IF threads[t].state = "WAITING" THEN \E p \in Places(t) : Places(t) = {p}
                                         ELSE Places(t) = {}
    /\ \A a \in Addrs : Range(futicies[a]) \subseteq DOMAIN threads

(* Whoever runs can run, on its own stack: the active thread exists and is *)
(* runnable, the context holds its registers, and every other thread's     *)
(* record holds the registers it was suspended with (swap_to, and the      *)
(* savestate code, which keeps the main thread's registers in two places). *)
OwnRegisters ==
  phase = "live" =>
    /\ active_tid \in Runnable(threads)
    /\ context = frame[active_tid]
    /\ \A t \in DOMAIN threads \ {active_tid} : threads[t].context = frame[t]

(* A PI lock has at most one holder, the thread its word names, though     *)
(* guests take and release it without telling the host                     *)
(* (mb_threads_futex_lock_pi, mb_threads_futex_unlock_pi).                 *)
MutualExclusion ==
  phase = "live" =>
    \A a \in Locks : holders[a] = IF word[a].val = 0 THEN {} ELSE {word[a].val}

(* No waiter of a PI lock is forgotten: while there is one, the word has   *)
(* FUTEX_WAITERS set, so that its holder cannot release it behind the      *)
(* host's back, and the holder is a thread that is alive and not itself in *)
(* the queue.                                                              *)
WaitersAreServed ==
  phase = "live" =>
    \A a \in Locks :
      /\ word[a].waiters <=> futicies[a] # <<>>
      /\ futicies[a] # <<>> => word[a].val \in DOMAIN threads \ Range(futicies[a])

(* First come, first served: if a call wakes a thread, it wakes every      *)
(* thread that was before it in the queue, and a thread that joins a queue *)
(* joins it behind those that are still in it (MACHINE-SPEC section 7,     *)
(* "FIFO waiter queues").                                                  *)
NoOvertaking ==
  [][phase' = "live" /\ (\A s \in saved : ~LoadState(s)) =>
       \A a \in Addrs :
         LET old == futicies[a]
             new == futicies'[a]
         IN  /\ \A i, j \in DOMAIN old :
                  i < j /\ old[j] \in Runnable(threads') => old[i] \in Runnable(threads')
             /\ \A i, j \in DOMAIN new :
                  new[i] \notin Range(old) /\ new[j] \in Range(old) => j < i]_vars

(* How far the turn is from thread t.                                      *)
Away(t) == IF t >= active_tid THEN t - active_tid ELSE t - active_tid + MaxTid

(* Nobody is passed over: whatever takes the processor from a thread, but  *)
(* for the hand-over of a PI lock, brings every other thread that can run  *)
(* closer to its turn, and a yield does take it if there is such a thread  *)
(* (swap_to_next, mb_threads_exit).                                        *)
TurnsComeCloser ==
  [][(\A a \in Locks : ~FutexUnlockPi(a)) =>
       \A t \in Runnable(threads) \ {active_tid} :
         /\ Yield => active_tid' # active_tid
         /\ active_tid' # active_tid => Away(t)' < Away(t)]_vars

(* A thread that waits for a PI lock leaves the queue only with the lock,  *)
(* and every release brings those behind it one place closer, whatever     *)
(* other calls come in between (mb_threads_futex_lock_pi,                  *)
(* mb_threads_futex_unlock_pi, mb_threads_exit).                           *)
WaitersMoveUp ==
  [][phase' = "live" /\ (\A s \in saved : ~LoadState(s)) =>
       \A a \in Locks : \A i \in DOMAIN futicies[a] :
         LET j == IF Holds(a) /\ FutexUnlockPi(a) THEN i - 1 ELSE i
         IN  IF j = 0 THEN holders'[a] = {futicies[a][i]} /\ active_tid' = futicies[a][i]
                      ELSE j \in DOMAIN futicies'[a] /\ futicies'[a][j] = futicies[a][i]]_vars

(* A runnable thread gets its turn, as long as running threads yield:      *)
(* swap_to_next goes round in order of ids, and the hand-overs of a PI     *)
(* lock, which jump the round, cannot keep jumping over it.                *)
EveryoneRuns ==
  \A t \in Tids :
    [](t \in Runnable(threads) => <>(active_tid = t \/ t \notin Runnable(threads) \/ phase # "live"))

(* No waiter of a PI lock starves: if whoever holds a lock releases it     *)
(* again when it keeps getting to run, then each waiter gets the lock,     *)
(* unless its holder goes to sleep with it (mb_threads_futex_lock_pi       *)
(* queues at the end, mb_threads_futex_unlock_pi hands over to the front). *)
LocksAreGranted ==
  (\A a \in Locks : SF_vars(Holds(a) /\ FutexUnlockPi(a))) =>
     \A a \in Locks, t \in Tids :
       [](t \in Range(futicies[a]) =>
            <>(t \in holders[a] \/ word[a].val \notin Runnable(threads) \/ phase # "live"))

=============================================================================
