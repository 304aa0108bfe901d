---------------------------- MODULE Threads_proofs --------------------------
(***************************************************************************)
(* The green threads, for any number of threads, futex words, locks and    *)
(* savestates: who sleeps is queued, once; who runs has its own registers; *)
(* a PI lock has one holder, and its waiters are not forgotten.            *)
(*                                                                         *)
(* The invariant is stated of the parts of a machine (the queues of the    *)
(* futex words, the thread table, the words of the locks), so that it can  *)
(* be said of the running machine and of the savestates alike; the lemmas  *)
(* of the first half say what an operation does to one part.               *)
(***************************************************************************)
EXTENDS Threads, TLAPS

-----------------------------------------------------------------------------
(* The parts.                                                              *)

Waiting(th) == {t \in DOMAIN th : th[t].state = "WAITING"}

(* Every nonempty part of D has a least element.                           *)
WellOrdered(D) == \A T \in SUBSET D : T # {} => \E m \in T : \A y \in T : m <= y

(* The thread table th, the next id nt and the registers fr.               *)
TableOK(th, nt, fr) ==
  /\ nt \in 2 .. MaxTid + 1
  /\ DOMAIN th \subseteq Tids /\ \A t \in DOMAIN th : t < nt
  /\ th \in [DOMAIN th -> Thread]
  /\ fr \in [DOMAIN th -> Contexts]
  /\ WellOrdered(DOMAIN th)

Queues == [Addrs -> Seq(Tids)]

(* The places in the queues fut, and who is there.                         *)
PlacesOf(fut) == {p \in Addrs \X Nat : p[2] \in 1 .. Len(fut[p[1]])}
At(fut, p) == fut[p[1]][p[2]]

(* The queues fut hold exactly the threads of W, each of them once.        *)
QueuesOK(W, fut) ==
  /\ fut \in Queues
  /\ \A p \in PlacesOf(fut) : At(fut, p) \in W
  /\ \A p, r \in PlacesOf(fut) : At(fut, p) = At(fut, r) => p = r
  /\ \A t \in W : \E p \in PlacesOf(fut) : At(fut, p) = t

WordRecord == [val : Tids \cup Stores \cup {0}, waiters : BOOLEAN]

(* The words wd of the locks agree with the threads D, with their queues   *)
(* fut and with their holders hd.                                          *)
LockOK(a, D, fut, wd, hd) ==
  /\ wd[a].val = 0 => hd[a] = {}
  /\ wd[a].val # 0 => hd[a] = {wd[a].val}
  /\ wd[a].val = 0 \/ wd[a].val \in D
  /\ wd[a].waiters = (fut[a] # <<>>)
  /\ fut[a] # <<>> => wd[a].val \in D
  /\ \A i \in 1 .. Len(fut[a]) : fut[a][i] # wd[a].val

LocksOK(D, fut, wd, hd) ==
  /\ wd \in [Addrs -> WordRecord]
  /\ hd \in [Locks -> SUBSET Tids]
  /\ \A a \in Locks : LockOK(a, D, fut, wd, hd)

(* Thread t runs with the registers c.                                     *)
RunsOK(th, t, c, fr) ==
  /\ t \in Runnable(th)
  /\ c = fr[t]
  /\ \A u \in DOMAIN th \ {t} : th[u].context = fr[u]

MachineOK(th, nt, fut, wd, fr, hd) ==
  /\ TableOK(th, nt, fr)
  /\ QueuesOK(Waiting(th), fut)
  /\ LocksOK(DOMAIN th, fut, wd, hd)

-----------------------------------------------------------------------------
(* Queues.                                                                 *)

(* A least element is the one Min finds.                                   *)
LEMMA MinIs ==
  ASSUME NEW D, WellOrdered(D), NEW T \in SUBSET D, T # {}
  PROVE  Min(T) \in T /\ \A y \in T : Min(T) <= y
<1>1. PICK m \in T : \A y \in T : m <= y
  BY Zenon DEF WellOrdered
<1>2. QED
  BY <1>1, Zenon DEF Min

(* A part of well-ordered ids is well ordered.                             *)
LEMMA FewerAreOrdered ==
  ASSUME NEW D, WellOrdered(D), NEW E \in SUBSET D
  PROVE  WellOrdered(E)
<1>1. \A T \in SUBSET E : T \in SUBSET D
  OBVIOUS
<1>2. QED
  BY <1>1, Zenon DEF WellOrdered

(* So are well-ordered ids and one larger id.                              *)
LEMMA OneMoreIsOrdered ==
  ASSUME NEW D \in SUBSET Nat, WellOrdered(D), NEW n \in Nat, \A t \in D : t < n
  PROVE  WellOrdered(D \cup {n})
<1>1. ASSUME NEW T \in SUBSET (D \cup {n}), T # {}
      PROVE  \E m \in T : \A y \in T : m <= y
  <2>1. CASE T \cap D = {}
    <3>1. n \in T /\ \A y \in T : y = n
      BY <1>1, <2>1, Zenon
    <3>2. QED
      BY <3>1
  <2>2. CASE T \cap D # {}
    <3>1. PICK m \in T \cap D : \A y \in T \cap D : m <= y
      BY <2>2, Zenon DEF WellOrdered
    <3>2. m < n /\ m \in Nat /\ m \in T
      BY <3>1
    <3>3. ASSUME NEW y \in T PROVE m <= y
      BY <3>1, <3>2, <3>3
    <3>4. QED
      BY <3>2, <3>3
  <2>3. QED
    BY <2>1, <2>2
<1>2. QED
  BY <1>1, Zenon DEF WellOrdered

(* One id is.                                                              *)
LEMMA OneIsOrdered ==
  WellOrdered({1})
<1>1. \A T \in SUBSET {1} : T # {} => 1 \in T /\ \A y \in T : y = 1
  BY Zenon
<1>2. QED
  BY <1>1 DEF WellOrdered

(* Part of a queue.                                                        *)
LEMMA PartIs ==
  ASSUME NEW q \in Seq(Tids), NEW m \in Nat \ {0}, NEW n \in Nat, m <= n + 1, n <= Len(q)
  PROVE  /\ SubSeq(q, m, n) \in Seq(Tids)
         /\ Len(SubSeq(q, m, n)) = n - m + 1
         /\ \A i \in 1 .. n - m + 1 : SubSeq(q, m, n)[i] = q[m + i - 1]
<1>1. \A i \in m .. n : q[i] \in Tids
  OBVIOUS
<1>2. /\ SubSeq(q, m, n) \in Seq(Tids)
      /\ Len(SubSeq(q, m, n)) = IF m <= n THEN n - m + 1 ELSE 0
      /\ \A i \in 1 .. n - m + 1 : SubSeq(q, m, n)[i] = q[m + i - 1]
  BY <1>1
<1> DEFINE r == SubSeq(q, m, n)
<1> HIDE DEF r
<1>3. Len(r) = (IF m <= n THEN n - m + 1 ELSE 0) => Len(r) = n - m + 1
  OBVIOUS
<1>4. QED
  BY <1>2, <1>3 DEF r

(* A queue with one more keeps those in it.                                *)
LEMMA AppendKeeps ==
  ASSUME NEW q \in Seq(Tids), NEW t \in Tids, NEW i \in DOMAIN q
  PROVE  i # 0 /\ i \in DOMAIN Append(q, t) /\ Append(q, t)[i] = q[i]
OBVIOUS

(* A queue without its first.                                              *)
LEMMA RestIs ==
  ASSUME NEW q \in Seq(Tids), q # <<>>
  PROVE  /\ SubSeq(q, 2, Len(q)) \in Seq(Tids)
         /\ Len(SubSeq(q, 2, Len(q))) = Len(q) - 1
         /\ \A i \in 1 .. Len(q) - 1 : SubSeq(q, 2, Len(q))[i] = q[i + 1]
<1> DEFINE r == SubSeq(q, 2, Len(q))
<1>1. Len(q) \in Nat \ {0}
  OBVIOUS
<1>2. 2 \in Nat \ {0} /\ 2 <= Len(q) + 1 /\ Len(q) <= Len(q)
  BY <1>1
<1>3. /\ r \in Seq(Tids) /\ Len(r) = Len(q) - 2 + 1
      /\ \A i \in 1 .. Len(q) - 2 + 1 : r[i] = q[2 + i - 1]
  BY <1>1, <1>2, PartIs, Zenon
<1> HIDE DEF r
<1>4. \A i \in 1 .. Len(q) - 1 : i \in 1 .. Len(q) - 2 + 1 /\ 2 + i - 1 = i + 1
  BY <1>1
<1>5. r \in Seq(Tids) /\ Len(r) = Len(q) - 1 /\ \A i \in 1 .. Len(q) - 1 : r[i] = q[i + 1]
  BY <1>1, <1>3, <1>4
<1>6. QED
  BY <1>5 DEF r

(* Two queues, one behind the other.                                       *)
LEMMA Joined ==
  ASSUME NEW s \in Seq(Tids), NEW t \in Seq(Tids)
  PROVE  /\ s \o t \in Seq(Tids)
         /\ Len(s \o t) = Len(s) + Len(t)
         /\ \A i \in 1 .. Len(s) + Len(t) :
              (s \o t)[i] = IF i <= Len(s) THEN s[i] ELSE t[i - Len(s)]
OBVIOUS

(* The places are pairs of a word and a position in its queue.             *)
LEMMA PlaceIs ==
  ASSUME NEW fut, NEW p
  PROVE  p \in PlacesOf(fut) <=>
           \E a \in Addrs, i \in Nat : p = <<a, i>> /\ i \in 1 .. Len(fut[a])
BY DEF PlacesOf

(* The members of the queues new come, one by one, from places of the      *)
(* queues fut, where only the threads of G are left behind.                *)
Moves(fut, new, G, src) ==
  /\ \A p \in PlacesOf(new) : /\ src[p] \in PlacesOf(fut)
                               /\ At(new, p) = At(fut, src[p])
                               /\ At(new, p) \notin G
  /\ \A p, r \in PlacesOf(new) : src[p] = src[r] => p = r
  /\ \A r \in PlacesOf(fut) : At(fut, r) \in G \/ \E p \in PlacesOf(new) : src[p] = r

(* So the others have their places in them.                                *)
LEMMA QueuesMove ==
  ASSUME NEW W, NEW fut, QueuesOK(W, fut), NEW new \in Queues, NEW G, NEW src,
         Moves(fut, new, G, src)
  PROVE  QueuesOK(W \ G, new)
<1> USE DEF Moves
<1>1. \A p \in PlacesOf(new) : At(new, p) \in W \ G
  BY Zenon DEF QueuesOK
<1>2. ASSUME NEW p \in PlacesOf(new), NEW r \in PlacesOf(new), At(new, p) = At(new, r)
      PROVE  p = r
  <2>1. /\ src[p] \in PlacesOf(fut) /\ At(new, p) = At(fut, src[p])
        /\ src[r] \in PlacesOf(fut) /\ At(new, r) = At(fut, src[r])
    OBVIOUS
  <2>2. src[p] = src[r]
    BY <1>2, <2>1, Zenon DEF QueuesOK
  <2>3. QED
    BY <2>2
<1>3. ASSUME NEW t \in W \ G PROVE \E p \in PlacesOf(new) : At(new, p) = t
  <2>1. PICK r \in PlacesOf(fut) : At(fut, r) = t
    BY Zenon DEF QueuesOK
  <2>2. PICK p \in PlacesOf(new) : src[p] = r
    BY <2>1
  <2>3. QED
    BY <2>1, <2>2
<1>4. QED
  BY <1>1, <1>2, <1>3, Zenon DEF QueuesOK

(* The first of a queue is taken out.                                      *)
LEMMA QueuesPop ==
  ASSUME NEW W, NEW fut, QueuesOK(W, fut), NEW a \in Addrs, fut[a] # <<>>,
         NEW new, new = [fut EXCEPT ![a] = SubSeq(@, 2, Len(@))]
  PROVE  QueuesOK(W \ {Head(fut[a])}, new)
<1> DEFINE q == fut[a]
           src == [p \in PlacesOf(new) |-> IF p[1] = a THEN <<a, p[2] + 1>> ELSE p]
<1>1. fut \in [Addrs -> Seq(Tids)] /\ q \in Seq(Tids) /\ Len(q) \in Nat \ {0}
  BY DEF QueuesOK, Queues
<1>2. Head(q) = q[1]
  BY <1>1
<1>3. /\ SubSeq(q, 2, Len(q)) \in Seq(Tids) /\ Len(SubSeq(q, 2, Len(q))) = Len(q) - 1
      /\ \A i \in 1 .. Len(q) - 1 : SubSeq(q, 2, Len(q))[i] = q[i + 1]
  <2> HIDE DEF q
  <2>1. q # <<>>
    BY DEF q
  <2>2. QED
    BY <1>1, <2>1, RestIs
<1>4. /\ new \in [Addrs -> Seq(Tids)] /\ Len(new[a]) = Len(q) - 1
      /\ \A i \in 1 .. Len(q) - 1 : new[a][i] = q[i + 1]
      /\ \A b \in Addrs : b # a => new[b] = fut[b]
  BY <1>1, <1>3
<1>5. <<a, 1>> \in PlacesOf(fut) /\ At(fut, <<a, 1>>) = Head(q)
  BY <1>1, <1>2 DEF PlacesOf, At
<1> HIDE DEF q
<1>6. ASSUME NEW p \in PlacesOf(new)
      PROVE  /\ src[p] \in PlacesOf(fut) /\ At(new, p) = At(fut, src[p])
             /\ src[p] # <<a, 1>>
  <2>1. PICK b \in Addrs, i \in Nat : p = <<b, i>> /\ i \in 1 .. Len(new[b])
    BY PlaceIs, Zenon
  <2>2. src[p] = IF b = a THEN <<a, i + 1>> ELSE p
    BY <2>1
  <2>3. CASE b = a
    <3>1. i + 1 \in 1 .. Len(fut[a]) /\ i + 1 \in Nat /\ i + 1 # 1 /\ new[a][i] = fut[a][i + 1]
      BY <1>1, <1>4, <2>1, <2>3 DEF q
    <3>2. QED
      BY <2>1, <2>2, <2>3, <3>1 DEF PlacesOf, At
  <2>4. CASE b # a
    BY <1>4, <2>1, <2>2, <2>4 DEF PlacesOf, At
  <2>5. QED
    BY <2>3, <2>4
<1>7. ASSUME NEW p \in PlacesOf(new), NEW r \in PlacesOf(new), src[p] = src[r]
      PROVE  p = r
  <2>1. PICK b \in Addrs, i \in Nat : p = <<b, i>>
    BY PlaceIs
  <2>2. PICK c \in Addrs, j \in Nat : r = <<c, j>>
    BY PlaceIs
  <2>3. src[p] = (IF b = a THEN <<a, i + 1>> ELSE p) /\ src[r] = (IF c = a THEN <<a, j + 1>> ELSE r)
    BY <2>1, <2>2
  <2>4. QED
    BY <1>7, <2>1, <2>2, <2>3
<1>8. ASSUME NEW r \in PlacesOf(fut), r # <<a, 1>>
      PROVE  \E p \in PlacesOf(new) : src[p] = r
  <2>1. PICK c \in Addrs, j \in Nat : r = <<c, j>> /\ j \in 1 .. Len(fut[c])
    BY PlaceIs
  <2>2. CASE c = a
    <3>1. j - 1 \in Nat /\ j - 1 \in 1 .. Len(new[a]) /\ j - 1 + 1 = j
      BY <1>1, <1>4, <1>8, <2>1, <2>2 DEF q
    <3>2. <<a, j - 1>> \in PlacesOf(new)
      BY <3>1, PlaceIs, Zenon
    <3>3. src[<<a, j - 1>>] = r
      BY <2>1, <2>2, <3>1, <3>2
    <3>4. QED
      BY <3>2, <3>3
  <2>3. CASE c # a
    <3>1. r \in PlacesOf(new)
      BY <1>4, <2>1, <2>3, PlaceIs, Zenon
    <3>2. QED
      BY <2>1, <2>3, <3>1, Zenon
  <2>4. QED
    BY <2>2, <2>3, Zenon
<1> HIDE DEF src
<1>9. \A p \in PlacesOf(new) : /\ src[p] \in PlacesOf(fut)
                               /\ At(new, p) = At(fut, src[p])
                               /\ At(new, p) \notin {Head(q)}
  <2> SUFFICES ASSUME NEW p \in PlacesOf(new)
               PROVE  /\ src[p] \in PlacesOf(fut)
                      /\ At(new, p) = At(fut, src[p])
                      /\ At(new, p) \notin {Head(q)}
    BY Zenon
  <2>1. src[p] \in PlacesOf(fut) /\ At(new, p) = At(fut, src[p]) /\ src[p] # <<a, 1>>
    BY <1>6, Zenon
  <2>2. At(fut, src[p]) # At(fut, <<a, 1>>)
    BY <1>5, <2>1, Zenon DEF QueuesOK
  <2>3. QED
    BY <1>5, <2>1, <2>2, Zenon
<1>10. \A r \in PlacesOf(fut) : At(fut, r) \in {Head(q)} \/ \E p \in PlacesOf(new) : src[p] = r
  BY <1>5, <1>8, Zenon
<1>11. new \in Queues
  BY <1>4 DEF Queues
<1>12. QED
  <2>1. \A p, r \in PlacesOf(new) : src[p] = src[r] => p = r
    BY <1>7, Zenon
  <2>2. Moves(fut, new, {Head(q)}, src)
    BY <1>9, <1>10, <2>1, Zenon DEF Moves
  <2>3. QED
    BY <1>11, <2>2, QueuesMove, Zenon DEF q

(* A thread joins a queue at its end.                                      *)
LEMMA QueuesAppend ==
  ASSUME NEW W, NEW fut, QueuesOK(W, fut), NEW a \in Addrs, NEW t \in Tids, t \notin W
  PROVE  QueuesOK(W \cup {t}, [fut EXCEPT ![a] = Append(@, t)])
<1> DEFINE q == fut[a]
           n == Len(q) + 1
           new == [fut EXCEPT ![a] = Append(@, t)]
<1>1. fut \in [Addrs -> Seq(Tids)] /\ q \in Seq(Tids) /\ Len(q) \in Nat
  BY DEF QueuesOK, Queues
<1>2. /\ new \in [Addrs -> Seq(Tids)] /\ new[a] = Append(q, t)
      /\ \A b \in Addrs : b # a => new[b] = fut[b]
  BY <1>1
<1>3. Len(new[a]) = n /\ new[a][n] = t /\ \A i \in 1 .. Len(q) : new[a][i] = q[i]
  BY <1>1, <1>2
<1> HIDE DEF q, new
<1>4. ASSUME NEW p
      PROVE  p \in PlacesOf(new) <=> p \in PlacesOf(fut) \/ p = <<a, n>>
  <2>1. ASSUME p \in PlacesOf(new) PROVE p \in PlacesOf(fut) \/ p = <<a, n>>
    <3>1. PICK b \in Addrs, i \in Nat : p = <<b, i>> /\ i \in 1 .. Len(new[b])
      BY <2>1, PlaceIs
    <3>2. b = a => i \in 1 .. Len(fut[a]) \/ i = n
      BY <1>1, <1>3, <3>1 DEF q
    <3>3. b # a => i \in 1 .. Len(fut[b])
      BY <1>2, <3>1
    <3>4. i \in 1 .. Len(fut[b]) \/ p = <<a, n>>
      BY <3>1, <3>2, <3>3
    <3>5. QED
      BY <3>1, <3>4, PlaceIs
  <2>2. ASSUME p \in PlacesOf(fut) PROVE p \in PlacesOf(new)
    <3>1. PICK b \in Addrs, i \in Nat : p = <<b, i>> /\ i \in 1 .. Len(fut[b])
      BY <2>2, PlaceIs
    <3>2. b = a => i \in 1 .. Len(new[b])
      BY <1>1, <1>3, <3>1 DEF q
    <3>3. b # a => i \in 1 .. Len(new[b])
      BY <1>2, <3>1
    <3>4. QED
      BY <3>1, <3>2, <3>3, PlaceIs
  <2>3. <<a, n>> \in PlacesOf(new)
    <3>1. n \in Nat /\ n \in 1 .. Len(new[a])
      BY <1>1, <1>3
    <3>2. QED
      BY <3>1, PlaceIs
  <2>4. QED
    BY <2>1, <2>2, <2>3
<1>5. At(new, <<a, n>>) = t
  BY <1>3 DEF At
<1>6. ASSUME NEW p \in PlacesOf(fut) PROVE At(new, p) = At(fut, p)
  <2>1. PICK b \in Addrs, i \in Nat : p = <<b, i>> /\ i \in 1 .. Len(fut[b])
    BY PlaceIs
  <2>2. new[b][i] = fut[b][i]
    BY <1>2, <1>3, <2>1, Zenon DEF q
  <2>3. QED
    BY <2>1, <2>2 DEF At
<1> HIDE DEF n
<1>7. new \in Queues
  BY <1>2 DEF Queues
<1>8. \A p \in PlacesOf(new) : At(new, p) \in W \cup {t}
  BY <1>4, <1>5, <1>6 DEF QueuesOK
<1>9. ASSUME NEW p \in PlacesOf(new), NEW r \in PlacesOf(new), At(new, p) = At(new, r)
      PROVE  p = r
  <2>1. \A x \in PlacesOf(fut) : At(new, x) # t
    BY <1>6 DEF QueuesOK
  <2>2. CASE p \in PlacesOf(fut) /\ r \in PlacesOf(fut)
    <3>1. At(fut, p) = At(fut, r)
      BY <1>6, <1>9, <2>2
    <3>2. QED
      BY <2>2, <3>1, Zenon DEF QueuesOK
  <2>3. QED
    BY <1>4, <1>5, <1>9, <2>1, <2>2
<1>10. ASSUME NEW u \in W \cup {t} PROVE \E p \in PlacesOf(new) : At(new, p) = u
  <2>1. CASE u = t
    BY <1>4, <1>5, <2>1
  <2>2. CASE u \in W
    <3>1. PICK p \in PlacesOf(fut) : At(fut, p) = u
      BY <2>2, Zenon DEF QueuesOK
    <3>2. QED
      BY <1>4, <1>6, <3>1
  <2>3. QED
    BY <2>1, <2>2
<1>11. QueuesOK(W \cup {t}, new)
  BY <1>7, <1>8, <1>9, <1>10, Zenon DEF QueuesOK
<1>12. QED
  BY <1>11 DEF new

(* The first n of the queue of `from` leave, and the next m move to the    *)
(* end of the queue of `to`, behind B others.                              *)
Requeued(fut, new, from, to, n, m, B) ==
  /\ Len(new[to]) = B + m
  /\ \A i \in B + 1 .. B + m : new[to][i] = fut[from][n + (i - B)]
  /\ from = to => /\ B = Len(fut[from]) - n - m
                  /\ \A i \in 1 .. B : new[from][i] = fut[from][n + m + i]
  /\ from # to => /\ B = Len(fut[to])
                  /\ \A i \in 1 .. B : new[to][i] = fut[to][i]
                  /\ Len(new[from]) = Len(fut[from]) - n - m
                  /\ \A i \in 1 .. Len(fut[from]) - n - m : new[from][i] = fut[from][n + m + i]
  /\ \A b \in Addrs \ {from, to} : new[b] = fut[b]

(* left and tail are what comes in q behind the first n + m threads, and   *)
(* the m threads before that.                                              *)
Cut(q, n, m, left, tail) ==
  /\ left \in Seq(Tids) /\ Len(left) = Len(q) - n - m
  /\ \A i \in 1 .. Len(q) - n - m : left[i] = q[n + m + i]
  /\ tail \in Seq(Tids) /\ Len(tail) = m
  /\ \A i \in 1 .. m : tail[i] = q[n + i]

(* A queue is cut into three parts.                                        *)
LEMMA CutInThree ==
  ASSUME NEW q \in Seq(Tids), NEW n \in Nat, n <= Len(q), NEW m \in Nat, m <= Len(q) - n
  PROVE  LET rest == SubSeq(q, n + 1, Len(q))
             left == SubSeq(rest, m + 1, Len(rest))
             tail == SubSeq(rest, 1, m)
         IN  Len(rest) = Len(q) - n /\ Cut(q, n, m, left, tail)
<1> DEFINE rest == SubSeq(q, n + 1, Len(q))
           left == SubSeq(rest, m + 1, Len(rest))
           tail == SubSeq(rest, 1, m)
<1>1. Len(q) \in Nat
  OBVIOUS
<1>2. /\ rest \in Seq(Tids) /\ Len(rest) = Len(q) - n
      /\ \A i \in 1 .. Len(q) - n : rest[i] = q[n + i]
  <2>1. n + 1 \in Nat \ {0} /\ n + 1 <= Len(q) + 1 /\ Len(q) <= Len(q)
    BY <1>1
  <2>2. /\ rest \in Seq(Tids) /\ Len(rest) = Len(q) - (n + 1) + 1
        /\ \A i \in 1 .. Len(q) - (n + 1) + 1 : rest[i] = q[n + 1 + i - 1]
    BY <1>1, <2>1, PartIs
  <2> HIDE DEF rest
  <2>3. Len(q) - (n + 1) + 1 = Len(q) - n /\ \A i \in Int : n + 1 + i - 1 = n + i
    BY <1>1
  <2>4. QED
    BY <2>2, <2>3
<1> HIDE DEF rest
<1>3. /\ left \in Seq(Tids) /\ Len(left) = Len(q) - n - m
      /\ \A i \in 1 .. Len(q) - n - m : left[i] = q[n + m + i]
  <2>1. m + 1 \in Nat \ {0} /\ Len(rest) \in Nat /\ m + 1 <= Len(rest) + 1 /\ Len(rest) <= Len(rest)
    BY <1>1, <1>2
  <2>2. /\ left \in Seq(Tids) /\ Len(left) = Len(rest) - (m + 1) + 1
        /\ \A i \in 1 .. Len(rest) - (m + 1) + 1 : left[i] = rest[m + 1 + i - 1]
    BY <1>2, <2>1, PartIs
  <2> HIDE DEF left
  <2>3. Len(rest) - (m + 1) + 1 = Len(q) - n - m
    BY <1>1, <1>2
  <2>4. ASSUME NEW i \in 1 .. Len(q) - n - m PROVE left[i] = q[n + m + i]
    <3>1. m + 1 + i - 1 \in 1 .. Len(q) - n /\ n + (m + 1 + i - 1) = n + m + i
      BY <1>1
    <3>2. left[i] = rest[m + 1 + i - 1]
      BY <2>2, <2>3
    <3>3. QED
      BY <1>2, <3>1, <3>2
  <2>5. QED
    BY <2>2, <2>3, <2>4
<1>4. tail \in Seq(Tids) /\ Len(tail) = m /\ \A i \in 1 .. m : tail[i] = q[n + i]
  <2>1. 1 \in Nat \ {0} /\ 1 <= m + 1 /\ m <= Len(rest)
    BY <1>1, <1>2
  <2>2. /\ tail \in Seq(Tids) /\ Len(tail) = m - 1 + 1
        /\ \A i \in 1 .. m - 1 + 1 : tail[i] = rest[1 + i - 1]
    BY <1>2, <2>1, PartIs
  <2> HIDE DEF tail
  <2>3. m - 1 + 1 = m /\ \A i \in Int : 1 + i - 1 = i
    OBVIOUS
  <2>4. \A i \in 1 .. m : i \in 1 .. Len(q) - n
    BY <1>1
  <2>5. ASSUME NEW i \in 1 .. m PROVE tail[i] = q[n + i]
    <3>1. tail[i] = rest[i]
      BY <2>2, <2>3
    <3>2. QED
      BY <1>2, <2>4, <3>1
  <2>6. QED
    BY <2>2, <2>3, <2>5
<1>5. Cut(q, n, m, left, tail)
  BY <1>3, <1>4, Zenon DEF Cut
<1>6. QED
  BY <1>2, <1>5 DEF rest

(* mb_threads_futex_requeue does this to the queues.                       *)
LEMMA RequeueShape ==
  ASSUME NEW fut \in Queues, NEW from \in Addrs, NEW to \in Addrs,
         NEW n \in Nat, n <= Len(fut[from]), NEW m \in Nat, m <= Len(fut[from]) - n,
         NEW left, NEW tail, Cut(fut[from], n, m, left, tail)
  PROVE  LET f   == [fut EXCEPT ![from] = left]
             new == IF m = 0 THEN f ELSE [f EXCEPT ![to] = @ \o tail]
         IN  new \in Queues /\ \E B \in Nat : Requeued(fut, new, from, to, n, m, B)
<1> DEFINE f    == [fut EXCEPT ![from] = left]
           new  == IF m = 0 THEN f ELSE [f EXCEPT ![to] = @ \o tail]
           base == IF from = to THEN left ELSE fut[to]
           B    == Len(base)
<1> USE DEF Cut
<1>1. /\ fut \in [Addrs -> Seq(Tids)] /\ Len(fut[from]) \in Nat
      /\ base \in Seq(Tids) /\ B \in Nat
  BY DEF Queues
<1>2. /\ f \in [Addrs -> Seq(Tids)] /\ f[from] = left /\ f[to] = base
      /\ \A b \in Addrs : b # from => f[b] = fut[b]
  BY <1>1
<1> HIDE DEF f
<1>3. /\ Len(base \o tail) = B + m /\ base \o tail \in Seq(Tids)
      /\ \A i \in 1 .. B : (base \o tail)[i] = base[i]
      /\ \A i \in B + 1 .. B + m : (base \o tail)[i] = tail[i - B]
  <2> HIDE DEF base
  <2>1. /\ base \o tail \in Seq(Tids) /\ Len(base \o tail) = B + Len(tail)
        /\ \A i \in 1 .. B + Len(tail) :
             (base \o tail)[i] = IF i <= B THEN base[i] ELSE tail[i - B]
    BY <1>1, Joined, Zenon
  <2> HIDE DEF B
  <2>2. ASSUME NEW i \in 1 .. B PROVE (base \o tail)[i] = base[i]
    <3>1. i \in 1 .. B + Len(tail) /\ i <= B
      BY <1>1
    <3>2. QED
      BY <2>1, <3>1
  <2>3. ASSUME NEW i \in B + 1 .. B + m PROVE (base \o tail)[i] = tail[i - B]
    <3>1. i \in 1 .. B + Len(tail) /\ ~(i <= B)
      BY <1>1
    <3>2. QED
      BY <2>1, <3>1
  <2>4. QED
    BY <2>1, <2>2, <2>3, Zenon
<1>4. /\ new \in [Addrs -> Seq(Tids)] /\ new[to] = base \o tail
      /\ \A b \in Addrs : b # to => new[b] = f[b]
  <2> HIDE DEF base, B
  <2>1. CASE m = 0
    <3>1. tail = <<>>
      BY <2>1
    <3>2. base \o <<>> = base
      BY <1>1
    <3>3. QED
      BY <1>2, <2>1, <3>1, <3>2
  <2>2. CASE m # 0
    <3>1. new = [f EXCEPT ![to] = base \o tail]
      BY <1>2, <2>2
    <3> HIDE DEF new
    <3>2. QED
      BY <1>2, <1>3, <3>1
  <2>3. QED
    BY <2>1, <2>2, Zenon
<1> HIDE DEF new, B
<1>5. Requeued(fut, new, from, to, n, m, B)
  <2>1. Len(new[to]) = B + m
    BY <1>3, <1>4
  <2>2. ASSUME NEW i \in B + 1 .. B + m PROVE new[to][i] = fut[from][n + (i - B)]
    <3> HIDE DEF base
    <3>1. i - B \in 1 .. m
      BY <1>1
    <3>2. new[to][i] = tail[i - B]
      BY <1>3, <1>4, Zenon
    <3>3. QED
      BY <3>1, <3>2
  <2>3. ASSUME from = to
        PROVE  B = Len(fut[from]) - n - m /\ \A i \in 1 .. B : new[from][i] = fut[from][n + m + i]
    BY <1>3, <1>4, <2>3 DEF B
  <2>4. ASSUME from # to
        PROVE  /\ B = Len(fut[to]) /\ \A i \in 1 .. B : new[to][i] = fut[to][i]
               /\ Len(new[from]) = Len(fut[from]) - n - m
               /\ \A i \in 1 .. Len(fut[from]) - n - m : new[from][i] = fut[from][n + m + i]
    BY <1>2, <1>3, <1>4, <2>4, Zenon DEF B
  <2>5. \A b \in Addrs \ {from, to} : new[b] = fut[b]
    BY <1>2, <1>4
  <2>6. QED
    BY <2>1, <2>2, <2>3, <2>4, <2>5 DEF Requeued
<1>6. QED
  BY <1>1, <1>4, <1>5, Zenon DEF Queues, new, f

(* Nobody is lost or found twice by it.                                    *)
LEMMA QueuesRequeue ==
  ASSUME NEW W, NEW fut, QueuesOK(W, fut), NEW from \in Addrs, NEW to \in Addrs,
         NEW n \in Nat, n <= Len(fut[from]), NEW m \in Nat, m <= Len(fut[from]) - n,
         NEW new \in Queues, NEW B \in Nat, Requeued(fut, new, from, to, n, m, B)
  PROVE  QueuesOK(W \ {fut[from][i] : i \in 1 .. n}, new)
<1> DEFINE L == Len(fut[from])
           G == {fut[from][i] : i \in 1 .. n}
           go(b, i) == IF b = to /\ i > B THEN <<from, n + (i - B)>>
                       ELSE IF b = from THEN <<from, n + m + i>> ELSE <<b, i>>
           src == [p \in PlacesOf(new) |-> go(p[1], p[2])]
<1>1. /\ L \in Nat /\ \A b \in Addrs : Len(fut[b]) \in Nat /\ Len(new[b]) \in Nat
  BY DEF QueuesOK, Queues
<1>2. \A i \in 1 .. n : i \in 1 .. L
  BY <1>1
(* Each new place comes from an old one that is not among the first n.     *)
<1>3. ASSUME NEW b \in Addrs, NEW i \in Nat, i \in 1 .. Len(new[b])
      PROVE  \E c \in Addrs, j \in Nat :
               /\ go(b, i) = <<c, j>> /\ j \in 1 .. Len(fut[c]) /\ new[b][i] = fut[c][j]
               /\ ~(c = from /\ j \in 1 .. n)
  <2>1. CASE b = to /\ i > B
    <3>1. i \in B + 1 .. B + m
      BY <1>1, <1>3, <2>1 DEF Requeued
    <3>2. n + (i - B) \in Nat /\ n + (i - B) \in 1 .. L /\ n + (i - B) \notin 1 .. n
      BY <1>1, <3>1
    <3>3. new[b][i] = fut[from][n + (i - B)]
      BY <2>1, <3>1 DEF Requeued
    <3>4. QED
      BY <2>1, <3>2, <3>3
  <2>2. CASE ~(b = to /\ i > B) /\ b = from
    <3>1. i \in 1 .. L - n - m /\ new[b][i] = fut[from][n + m + i]
      <4>1. CASE from = to
        BY <1>1, <1>3, <2>2, <4>1 DEF Requeued
      <4>2. CASE from # to
        BY <1>1, <1>3, <2>2, <4>2 DEF Requeued
      <4>3. QED
        BY <4>1, <4>2
    <3>2. n + m + i \in Nat /\ n + m + i \in 1 .. L /\ n + m + i \notin 1 .. n
      BY <1>1, <3>1
    <3>3. QED
      BY <2>2, <3>1, <3>2
  <2>3. CASE ~(b = to /\ i > B) /\ b # from
    <3>1. i \in 1 .. Len(fut[b]) /\ new[b][i] = fut[b][i]
      <4>1. CASE b = to
        BY <1>1, <1>3, <2>3, <4>1 DEF Requeued
      <4>2. CASE b # to
        BY <1>3, <2>3, <4>2 DEF Requeued
      <4>3. QED
        BY <4>1, <4>2
    <3>2. QED
      BY <2>3, <3>1
  <2>4. QED
    BY <2>1, <2>2, <2>3, Zenon
(* No two come from the same.                                              *)
<1>4. ASSUME NEW b \in Addrs, NEW i \in Nat, i \in 1 .. Len(new[b]),
             NEW c \in Addrs, NEW j \in Nat, j \in 1 .. Len(new[c]), go(b, i) = go(c, j)
      PROVE  b = c /\ i = j
  <2>1. CASE b = to /\ i > B
    <3>1. i \in B + 1 .. B + m
      BY <1>1, <1>4, <2>1 DEF Requeued
    <3>2. CASE c = to /\ j > B
      BY <1>4, <2>1, <3>2
    <3>3. CASE ~(c = to /\ j > B)
      BY <1>4, <2>1, <3>1, <3>3
    <3>4. QED
      BY <3>2, <3>3
  <2>2. CASE ~(b = to /\ i > B)
    <3>1. CASE c = to /\ j > B
      <4>1. j \in B + 1 .. B + m
        BY <1>1, <1>4, <3>1 DEF Requeued
      <4>2. QED
        BY <1>4, <2>2, <3>1, <4>1
    <3>2. CASE ~(c = to /\ j > B)
      BY <1>4, <2>2, <3>2
    <3>3. QED
      BY <3>1, <3>2
  <2>3. QED
    BY <2>1, <2>2
(* And only the first n are left out.                                      *)
<1>5. ASSUME NEW c \in Addrs, NEW j \in Nat, j \in 1 .. Len(fut[c]), ~(c = from /\ j \in 1 .. n)
      PROVE  \E b \in Addrs, i \in Nat : i \in 1 .. Len(new[b]) /\ go(b, i) = <<c, j>>
  <2>1. CASE c = from /\ j > n + m
    <3>1. j - n - m \in Nat /\ j - n - m \in 1 .. L - n - m /\ n + m + (j - n - m) = j
      BY <1>1, <1>5, <2>1
    <3>2. j - n - m \in 1 .. Len(new[from]) /\ ~(from = to /\ j - n - m > B)
      BY <1>1, <3>1 DEF Requeued
    <3>3. go(from, j - n - m) = <<c, j>>
      BY <2>1, <3>1, <3>2
    <3>4. QED
      BY <3>1, <3>2, <3>3, Zenon
  <2>2. CASE c = from /\ ~(j > n + m)
    <3>1. j - n + B \in Nat /\ j - n + B \in B + 1 .. B + m /\ n + ((j - n + B) - B) = j
      BY <1>1, <1>5, <2>2
    <3>2. j - n + B \in 1 .. Len(new[to]) /\ j - n + B > B
      BY <1>1, <3>1 DEF Requeued
    <3>3. go(to, j - n + B) = <<c, j>>
      BY <2>2, <3>1, <3>2
    <3>4. QED
      BY <3>1, <3>2, <3>3, Zenon
  <2>3. CASE c # from
    <3>1. j \in 1 .. Len(new[c]) /\ ~(c = to /\ j > B)
      BY <1>1, <1>5, <2>3 DEF Requeued
    <3>2. go(c, j) = <<c, j>>
      BY <2>3, <3>1
    <3>3. QED
      BY <3>1, <3>2, Zenon
  <2>4. QED
    BY <2>1, <2>2, <2>3, Zenon
<1> HIDE DEF go
<1>6. ASSUME NEW p \in PlacesOf(new)
      PROVE  /\ src[p] \in PlacesOf(fut) /\ At(new, p) = At(fut, src[p])
             /\ ~\E j \in 1 .. n : src[p] = <<from, j>>
  <2>1. PICK b \in Addrs, i \in Nat : p = <<b, i>> /\ i \in 1 .. Len(new[b])
    BY PlaceIs
  <2>2. src[p] = go(b, i)
    BY <2>1
  <2>3. PICK c \in Addrs, j \in Nat :
               /\ go(b, i) = <<c, j>> /\ j \in 1 .. Len(fut[c]) /\ new[b][i] = fut[c][j]
               /\ ~(c = from /\ j \in 1 .. n)
    BY <1>3, <2>1
  <2>4. src[p] \in PlacesOf(fut)
    BY <2>2, <2>3, PlaceIs
  <2>5. At(new, p) = At(fut, src[p])
    BY <2>1, <2>2, <2>3 DEF At
  <2>6. QED
    BY <2>2, <2>3, <2>4, <2>5
<1>7. ASSUME NEW p \in PlacesOf(new), NEW r \in PlacesOf(new), src[p] = src[r]
      PROVE  p = r
  <2>1. PICK b \in Addrs, i \in Nat : p = <<b, i>> /\ i \in 1 .. Len(new[b])
    BY PlaceIs
  <2>2. PICK c \in Addrs, j \in Nat : r = <<c, j>> /\ j \in 1 .. Len(new[c])
    BY PlaceIs
  <2>3. src[p] = go(b, i) /\ src[r] = go(c, j)
    BY <2>1, <2>2
  <2>4. QED
    BY <1>4, <1>7, <2>1, <2>2, <2>3
<1>8. ASSUME NEW r \in PlacesOf(fut), ~\E j \in 1 .. n : r = <<from, j>>
      PROVE  \E p \in PlacesOf(new) : src[p] = r
  <2>1. PICK c \in Addrs, j \in Nat : r = <<c, j>> /\ j \in 1 .. Len(fut[c])
    BY PlaceIs
  <2>2. PICK b \in Addrs, i \in Nat : i \in 1 .. Len(new[b]) /\ go(b, i) = <<c, j>>
    BY <1>5, <1>8, <2>1
  <2>3. <<b, i>> \in PlacesOf(new)
    BY <2>2, PlaceIs
  <2>4. src[<<b, i>>] = r
    BY <2>1, <2>2, <2>3
  <2>5. QED
    BY <2>3, <2>4
<1> HIDE DEF src
<1>9. ASSUME NEW j \in 1 .. n
      PROVE  <<from, j>> \in PlacesOf(fut) /\ At(fut, <<from, j>>) = fut[from][j]
  BY <1>2 DEF PlacesOf, At
<1>10. ASSUME NEW p \in PlacesOf(new) PROVE At(new, p) \notin G
  <2>1. SUFFICES ASSUME NEW j \in 1 .. n, At(new, p) = fut[from][j] PROVE FALSE
    OBVIOUS
  <2>2. src[p] = <<from, j>>
    BY <1>6, <1>9, <2>1, Zenon DEF QueuesOK
  <2>3. QED
    BY <1>6, <2>2
<1>11. ASSUME NEW r \in PlacesOf(fut), At(fut, r) \notin G
       PROVE  \E p \in PlacesOf(new) : src[p] = r
  BY <1>8, <1>9, <1>11
<1> HIDE DEF G
<1>12. Moves(fut, new, G, src)
  BY <1>6, <1>7, <1>10, <1>11, Zenon DEF Moves
<1>13. QED
  BY <1>12, QueuesMove, Zenon DEF G

-----------------------------------------------------------------------------
(* The thread table.                                                       *)

(* A change of states leaves the rest of the table alone.                  *)
LEMMA StatesChange ==
  ASSUME NEW th, NEW nt, NEW fr, TableOK(th, nt, fr), NEW T, NEW st \in {"RUNNABLE", "WAITING"}
  PROVE  /\ TableOK(WithState(th, T, st), nt, fr)
         /\ DOMAIN WithState(th, T, st) = DOMAIN th
         /\ \A t \in DOMAIN th : /\ WithState(th, T, st)[t].context = th[t].context
                                 /\ WithState(th, T, st)[t].tid_address = th[t].tid_address
                                 /\ WithState(th, T, st)[t].state = IF t \in T THEN st ELSE th[t].state
<1> DEFINE new == WithState(th, T, st)
<1>1. DOMAIN new = DOMAIN th
  BY DEF WithState
<1>2. ASSUME NEW t \in DOMAIN th
      PROVE  /\ new[t] \in Thread
             /\ new[t].context = th[t].context /\ new[t].tid_address = th[t].tid_address
             /\ new[t].state = IF t \in T THEN st ELSE th[t].state
  <2>1. new[t] = IF t \in T THEN [th[t] EXCEPT !.state = st] ELSE th[t]
    BY DEF WithState
  <2>2. th[t] \in Thread
    BY DEF TableOK
  <2> HIDE DEF new
  <2>3. QED
    BY <2>1, <2>2 DEF Thread
<1>3. new \in [DOMAIN new -> Thread]
  <2>1. new = [t \in DOMAIN th |-> new[t]]
    BY DEF WithState
  <2> HIDE DEF new
  <2>2. QED
    BY <1>1, <1>2, <2>1
<1> HIDE DEF new
<1>4. TableOK(new, nt, fr)
  BY <1>1, <1>3 DEF TableOK
<1>5. QED
  BY <1>1, <1>2, <1>4 DEF new

(* Waking.                                                                 *)
LEMMA Woken ==
  ASSUME NEW th, NEW nt, NEW fr, TableOK(th, nt, fr), NEW T
  PROVE  /\ Waiting(WithState(th, T, "RUNNABLE")) = Waiting(th) \ T
         /\ \A t \in Runnable(th) : t \in Runnable(WithState(th, T, "RUNNABLE"))
         /\ \A t \in T \cap DOMAIN th : t \in Runnable(WithState(th, T, "RUNNABLE"))
BY StatesChange DEF Waiting, Runnable

(* Going to sleep.                                                         *)
LEMMA Asleep ==
  ASSUME NEW th, NEW nt, NEW fr, TableOK(th, nt, fr), NEW t \in DOMAIN th
  PROVE  Waiting(WithState(th, {t}, "WAITING")) = Waiting(th) \cup {t}
BY StatesChange DEF Waiting

(* The registers of the threads th, of which t is on the processor with c. *)
Fits(th, t, c, fr) ==
  /\ t \in DOMAIN th
  /\ c = fr[t]
  /\ \A u \in DOMAIN th \ {t} : th[u].context = fr[u]

(* What the scheduler makes of the table th.                               *)
Scheduled(th, nt, fr) ==
  /\ TableOK(threads', nt, fr)
  /\ DOMAIN threads' = DOMAIN th
  /\ Waiting(threads') = Waiting(th)
  /\ active_tid' \in Tids
  /\ context' \in Contexts
  /\ phase' \in {"live", "trapped"}
  /\ phase' = "live" => RunsOK(threads', active_tid', context', fr)

(* The states of threads do not matter to their registers.                 *)
LEMMA FitsStates ==
  ASSUME NEW th, NEW nt, NEW fr, TableOK(th, nt, fr), NEW T, NEW st \in {"RUNNABLE", "WAITING"},
         NEW t, NEW c, Fits(th, t, c, fr)
  PROVE  Fits(WithState(th, T, st), t, c, fr)
BY StatesChange DEF Fits

(* swap_to parks the registers of one thread and loads those of the other. *)
LEMMA SwapTo ==
  ASSUME NEW th, NEW nt, NEW fr, TableOK(th, nt, fr), Fits(th, active_tid, context, fr),
         NEW tid \in Runnable(th), tid # active_tid, phase = "live", swap_to(th, tid)
  PROVE  Scheduled(th, nt, fr)
<1>1. tid \in DOMAIN th /\ tid \in Tids /\ th[tid].state = "RUNNABLE"
  BY DEF Runnable, TableOK
<1>2. th[tid].context = fr[tid] /\ fr[tid] \in Contexts /\ context \in Contexts
  BY <1>1 DEF Fits, TableOK
<1>3. DOMAIN threads' = DOMAIN th
  BY DEF swap_to
<1>4. ASSUME NEW t \in DOMAIN th
      PROVE  /\ threads'[t] \in Thread /\ threads'[t].state = th[t].state
             /\ threads'[t].context = fr[t]
  <2>1. threads'[t] = IF t = active_tid THEN [th[t] EXCEPT !.context = context] ELSE th[t]
    BY DEF swap_to
  <2>2. th[t] \in Thread
    BY DEF TableOK
  <2>3. QED
    BY <1>2, <2>1, <2>2 DEF Fits, Thread
<1>5. threads' \in [DOMAIN threads' -> Thread]
  <2>1. threads' = [t \in DOMAIN th |-> threads'[t]]
    BY Zenon DEF swap_to
  <2>2. QED
    BY <1>3, <1>4, <2>1
<1>6. TableOK(threads', nt, fr)
  BY <1>3, <1>5 DEF TableOK
<1>7. Waiting(threads') = Waiting(th)
  BY <1>3, <1>4 DEF Waiting
<1>8. RunsOK(threads', active_tid', context', fr)
  BY <1>1, <1>2, <1>3, <1>4 DEF RunsOK, Runnable, swap_to
<1>9. QED
  BY <1>1, <1>2, <1>3, <1>6, <1>7, <1>8 DEF Scheduled, swap_to

(* If some thread can run, the search for the next one finds such a thread.*)
LEMMA NextIsRunnable ==
  ASSUME NEW th, NEW nt, NEW fr, TableOK(th, nt, fr), Runnable(th) # {}
  PROVE  NextRunnable(th) \in Runnable(th)
<1>1. Runnable(th) \in SUBSET DOMAIN th
  BY DEF Runnable
<1>2. {t \in Runnable(th) : t > active_tid} \in SUBSET DOMAIN th
  BY <1>1
<1>3. WellOrdered(DOMAIN th)
  BY DEF TableOK
<1>4. QED
  BY <1>1, <1>2, <1>3, MinIs, Zenon DEF NextRunnable

(* swap_to_next goes to a thread that can run, or traps.                   *)
LEMMA SwapToNext ==
  ASSUME NEW th, NEW nt, NEW fr, TableOK(th, nt, fr), Fits(th, active_tid, context, fr),
         phase = "live", swap_to_next(th)
  PROVE  Scheduled(th, nt, fr)
<1>1. active_tid \in Tids /\ context \in Contexts
  BY DEF Fits, TableOK
<1>2. CASE Runnable(th) = {}
  BY <1>1, <1>2 DEF swap_to_next, Scheduled
<1>3. CASE Runnable(th) # {} /\ NextRunnable(th) = active_tid
  <2>1. active_tid \in Runnable(th)
    BY <1>3, NextIsRunnable
  <2>2. threads' = th /\ phase' = "live" /\ context' = context /\ active_tid' = active_tid
    BY <1>3 DEF swap_to_next
  <2>3. QED
    BY <1>1, <2>1, <2>2 DEF Scheduled, RunsOK, Fits
<1>4. CASE Runnable(th) # {} /\ NextRunnable(th) # active_tid
  <2>1. swap_to(th, NextRunnable(th))
    BY <1>4 DEF swap_to_next
  <2>2. QED
    BY <1>4, <2>1, NextIsRunnable, SwapTo
<1>5. QED
  BY <1>2, <1>3, <1>4

-----------------------------------------------------------------------------
(* Locks.                                                                  *)

(* The parts of a futex word.                                              *)
LEMMA WordIs ==
  ASSUME NEW v \in Tids \cup Stores \cup {0}, NEW w \in BOOLEAN
  PROVE  Word(v, w) \in WordRecord /\ Word(v, w).val = v /\ Word(v, w).waiters = w
BY Zenon DEF Word, WordRecord

(* A word is its two parts.                                                *)
LEMMA SameWord ==
  ASSUME NEW x \in WordRecord, NEW v, NEW w, x.val = v, x.waiters = w
  PROVE  x = Word(v, w)
BY DEF Word, WordRecord

(* Words of Plain and their queues do not matter to the locks, nor do      *)
(* threads that hold none.                                                 *)
LEMMA LocksStay ==
  ASSUME NEW D, NEW fut, NEW wd, NEW hd, LocksOK(D, fut, wd, hd),
         NEW E, \A a \in Locks : wd[a].val \in D => wd[a].val \in E,
         NEW new, \A a \in Locks : new[a] = fut[a],
         NEW wnew \in [Addrs -> WordRecord], \A a \in Locks : wnew[a] = wd[a]
  PROVE  LocksOK(E, new, wnew, hd)
<1>1. ASSUME NEW a \in Locks PROVE LockOK(a, E, new, wnew, hd)
  <2>1. LockOK(a, D, fut, wd, hd) /\ new[a] = fut[a] /\ wnew[a] = wd[a]
    BY DEF LocksOK
  <2>2. QED
    BY <2>1, Zenon DEF LockOK
<1>2. QED
  BY <1>1 DEF LocksOK

(* One lock changes.                                                       *)
LEMMA LockChanges ==
  ASSUME NEW D, NEW fut, NEW wd, NEW hd, LocksOK(D, fut, wd, hd), NEW a \in Locks,
         NEW new, \A b \in Locks \ {a} : new[b] = fut[b],
         NEW x \in WordRecord, NEW H \in SUBSET Tids,
         x.val = 0 => H = {}, x.val # 0 => H = {x.val},
         x.val = 0 \/ x.val \in D,
         x.waiters = (new[a] # <<>>),
         new[a] # <<>> => x.val \in D,
         \A i \in 1 .. Len(new[a]) : new[a][i] # x.val
  PROVE  LocksOK(D, new, [wd EXCEPT ![a] = x], [hd EXCEPT ![a] = H])
<1> DEFINE wnew == [wd EXCEPT ![a] = x]
           hnew == [hd EXCEPT ![a] = H]
<1>1. wnew \in [Addrs -> WordRecord] /\ hnew \in [Locks -> SUBSET Tids]
  BY DEF LocksOK, Addrs
<1>2. wnew[a] = x /\ hnew[a] = H
  BY DEF LocksOK, Addrs
<1>3. ASSUME NEW b \in Locks, b # a
      PROVE  wnew[b] = wd[b] /\ hnew[b] = hd[b] /\ new[b] = fut[b] /\ LockOK(b, D, fut, wd, hd)
  BY <1>3 DEF LocksOK, Addrs
<1> HIDE DEF wnew, hnew
<1>4. LockOK(a, D, new, wnew, hnew)
  <2>1. (wnew[a].val = 0 => hnew[a] = {}) /\ (wnew[a].val # 0 => hnew[a] = {wnew[a].val})
    BY <1>2, Zenon
  <2>2. /\ wnew[a].val = 0 \/ wnew[a].val \in D
        /\ wnew[a].waiters = (new[a] # <<>>)
        /\ new[a] # <<>> => wnew[a].val \in D
    BY <1>2, Zenon
  <2>3. \A i \in 1 .. Len(new[a]) : new[a][i] # wnew[a].val
    BY <1>2, Zenon
  <2>4. QED
    BY <2>1, <2>2, <2>3, Zenon DEF LockOK
<1>5. ASSUME NEW b \in Locks, b # a PROVE LockOK(b, D, new, wnew, hnew)
  <2>1. wnew[b] = wd[b] /\ hnew[b] = hd[b] /\ new[b] = fut[b] /\ LockOK(b, D, fut, wd, hd)
    BY <1>3, <1>5
  <2>2. /\ wnew[b].val = 0 => hnew[b] = {}
        /\ wnew[b].val # 0 => hnew[b] = {wnew[b].val}
        /\ wnew[b].val = 0 \/ wnew[b].val \in D
        /\ wnew[b].waiters = (new[b] # <<>>)
        /\ new[b] # <<>> => wnew[b].val \in D
    BY <2>1, Zenon DEF LockOK
  <2>3. \A i \in 1 .. Len(new[b]) : new[b][i] # wnew[b].val
    BY <2>1, Zenon DEF LockOK
  <2>4. QED
    BY <2>2, <2>3, Zenon DEF LockOK
<1>6. LocksOK(D, new, wnew, hnew)
  BY <1>1, <1>4, <1>5 DEF LocksOK
<1>7. QED
  BY <1>6 DEF wnew, hnew

(* What the word of a lock says.                                           *)
Tells(a, fut, wd, hd) ==
  /\ wd[a] \in WordRecord /\ fut[a] \in Seq(Tids)
  /\ wd[a].waiters = FALSE => fut[a] = <<>>
  /\ fut[a] = <<>> => wd[a].waiters = FALSE
  /\ wd[a].val = 0 => fut[a] = <<>> /\ wd[a] = Word(0, FALSE)
  /\ wd[a].val = 0 => hd[a] = {}
  /\ wd[a].val # 0 => hd[a] = {wd[a].val}

(* What a lock's word says follows from LocksOK.                           *)
LEMMA LockWord ==
  ASSUME NEW D \in SUBSET Tids, NEW fut \in Queues, NEW wd, NEW hd, LocksOK(D, fut, wd, hd),
         NEW a \in Locks
  PROVE  Tells(a, fut, wd, hd)
<1>1. wd[a] \in WordRecord /\ fut[a] \in Seq(Tids)
  BY DEF LocksOK, Addrs, Queues
<1>2. LockOK(a, D, fut, wd, hd)
  BY DEF LocksOK
<1>3. /\ wd[a].waiters = FALSE => fut[a] = <<>>
      /\ fut[a] = <<>> => wd[a].waiters = FALSE
  BY <1>2, Zenon DEF LockOK
<1>4. 0 \notin D
  BY DEF Tids
<1>5. wd[a].val = 0 => fut[a] = <<>>
  BY <1>2, <1>4, Zenon DEF LockOK
<1>6. wd[a].val = 0 => wd[a] = Word(0, FALSE)
  BY <1>1, <1>3, <1>5, SameWord, Zenon
<1>7. (wd[a].val = 0 => hd[a] = {}) /\ (wd[a].val # 0 => hd[a] = {wd[a].val})
  BY <1>2, Zenon DEF LockOK
<1>8. QED
  BY <1>1, <1>3, <1>5, <1>6, <1>7, Zenon DEF Tells

(* A free lock is taken.                                                   *)
LEMMA LockTaken ==
  ASSUME NEW D \in SUBSET Tids, NEW fut \in Queues, NEW wd, NEW hd, LocksOK(D, fut, wd, hd),
         NEW a \in Locks, NEW t \in D, wd[a] = Word(0, FALSE)
  PROVE  LocksOK(D, fut, [wd EXCEPT ![a] = Word(t, FALSE)], [hd EXCEPT ![a] = @ \cup {t}])
<1>1. t \in Tids /\ t # 0
  BY DEF Tids
<1>2. Word(t, FALSE) \in WordRecord /\ Word(t, FALSE).val = t /\ Word(t, FALSE).waiters = FALSE
  BY <1>1, WordIs, Zenon
<1>3. wd[a].val = 0
  BY WordIs, Zenon
<1>4. fut[a] = <<>> /\ hd[a] = {}
  <2>1. Tells(a, fut, wd, hd)
    BY LockWord
  <2>2. QED
    BY <1>3, <2>1, Zenon DEF Tells
<1>5. [hd EXCEPT ![a] = @ \cup {t}] = [hd EXCEPT ![a] = {t}]
  BY <1>4
<1> DEFINE x == Word(t, FALSE)
           H == {t}
<1> HIDE DEF x, H
<1>6. /\ x \in WordRecord /\ H \in SUBSET Tids /\ (x.val = 0 => H = {}) /\ (x.val # 0 => H = {x.val})
      /\ x.val = 0 \/ x.val \in D
      /\ x.waiters = (fut[a] # <<>>)
      /\ fut[a] # <<>> => x.val \in D
  BY <1>1, <1>2, <1>4, Zenon DEF x, H
<1>7. \A i \in 1 .. Len(fut[a]) : fut[a][i] # x.val
  BY <1>4
<1>8. LocksOK(D, fut, [wd EXCEPT ![a] = x], [hd EXCEPT ![a] = H])
  BY <1>6, <1>7, LockChanges, Zenon
<1>9. QED
  BY <1>5, <1>8 DEF x, H

(* A lock nobody waits for is released.                                    *)
LEMMA LockReleased ==
  ASSUME NEW D \in SUBSET Tids, NEW fut \in Queues, NEW wd, NEW hd, LocksOK(D, fut, wd, hd),
         NEW a \in Locks, NEW t \in D, wd[a].val = t, fut[a] = <<>>
  PROVE  LocksOK(D, fut, [wd EXCEPT ![a] = Word(0, FALSE)], [hd EXCEPT ![a] = @ \ {t}])
<1>1. t # 0
  BY DEF Tids
<1>2. Word(0, FALSE) \in WordRecord /\ Word(0, FALSE).val = 0 /\ Word(0, FALSE).waiters = FALSE
  BY WordIs, Zenon
<1>3. hd[a] = {t}
  <2>1. Tells(a, fut, wd, hd)
    BY LockWord
  <2>2. QED
    BY <1>1, <2>1, Zenon DEF Tells
<1>4. [hd EXCEPT ![a] = @ \ {t}] = [hd EXCEPT ![a] = {}]
  BY <1>3, Zenon
<1> DEFINE x == Word(0, FALSE)
<1> HIDE DEF x
<1>5. /\ x \in WordRecord /\ {} \in SUBSET Tids /\ (x.val # 0 => {} = {x.val})
      /\ x.val = 0 \/ x.val \in D
      /\ x.waiters = (fut[a] # <<>>)
      /\ fut[a] # <<>> => x.val \in D
  BY <1>2, Zenon DEF x
<1>6. \A i \in 1 .. Len(fut[a]) : fut[a][i] # x.val
  OBVIOUS
<1>7. LocksOK(D, fut, [wd EXCEPT ![a] = x], [hd EXCEPT ![a] = {}])
  BY <1>5, <1>6, LockChanges, Zenon
<1>8. QED
  BY <1>4, <1>7 DEF x

(* Thread t joins the queue of a lock that another thread has.             *)
LEMMA LockContended ==
  ASSUME NEW D \in SUBSET Tids, NEW fut \in Queues, NEW wd, NEW hd, LocksOK(D, fut, wd, hd),
         NEW a \in Locks, NEW t \in D, wd[a].val # t, wd[a] # Word(0, FALSE)
  PROVE  LocksOK(D, [fut EXCEPT ![a] = Append(@, t)],
                 [wd EXCEPT ![a] = [wd[a] EXCEPT !.waiters = TRUE]], hd)
<1> DEFINE v == wd[a].val
           x == [wd[a] EXCEPT !.waiters = TRUE]
           q == fut[a]
           new == [fut EXCEPT ![a] = Append(@, t)]
<1>1. /\ wd[a] \in WordRecord /\ q \in Seq(Tids) /\ v # 0 /\ hd[a] = {v}
  <2>1. Tells(a, fut, wd, hd)
    BY LockWord
  <2>2. QED
    BY <2>1, Zenon DEF Tells
<1>2. x \in WordRecord /\ x.val = v /\ x.waiters = TRUE
  BY <1>1, Zenon DEF WordRecord
<1>3. LockOK(a, D, fut, wd, hd)
  BY DEF LocksOK
<1>4. v \in D /\ \A i \in 1 .. Len(q) : q[i] # v
  BY <1>1, <1>3 DEF LockOK
<1>5. new[a] = Append(q, t) /\ \A b \in Locks \ {a} : new[b] = fut[b]
  BY DEF Queues, Addrs
<1>6. t \in Tids
  OBVIOUS
<1> HIDE DEF x, v, q, new
<1>7. /\ Len(new[a]) = Len(q) + 1 /\ new[a][Len(q) + 1] = t
      /\ \A i \in 1 .. Len(q) : new[a][i] = q[i]
  BY <1>1, <1>5, <1>6
<1>8. new[a] # <<>> /\ \A i \in 1 .. Len(new[a]) : new[a][i] # v
  BY <1>1, <1>4, <1>7 DEF v
<1>9. hd = [hd EXCEPT ![a] = {v}] /\ {v} \in SUBSET Tids
  BY <1>1, <1>4 DEF LocksOK
<1> DEFINE H == {v}
<1> HIDE DEF H
<1>10. /\ (x.val = 0 => H = {}) /\ (x.val # 0 => H = {x.val})
       /\ x.val = 0 \/ x.val \in D
       /\ x.waiters = (new[a] # <<>>)
       /\ new[a] # <<>> => x.val \in D
       /\ \A i \in 1 .. Len(new[a]) : new[a][i] # x.val
  BY <1>1, <1>2, <1>4, <1>8, Zenon DEF H
<1>11. H \in SUBSET Tids
  BY <1>9 DEF H
<1>12. LocksOK(D, new, [wd EXCEPT ![a] = x], [hd EXCEPT ![a] = H])
  BY <1>2, <1>5, <1>10, <1>11, LockChanges, Zenon
<1>13. QED
  BY <1>9, <1>12 DEF H, x, new

(* A lock is handed to its first waiter.                                   *)
LEMMA LockHanded ==
  ASSUME NEW D \in SUBSET Tids, NEW W \in SUBSET D, NEW fut, QueuesOK(W, fut),
         NEW wd, NEW hd, LocksOK(D, fut, wd, hd),
         NEW a \in Locks, NEW t \in D, wd[a].val = t, fut[a] # <<>>
  PROVE  LocksOK(D, [fut EXCEPT ![a] = SubSeq(@, 2, Len(@))],
                 [wd EXCEPT ![a] = Word(Head(fut[a]), Len(fut[a]) > 1)],
                 [hd EXCEPT ![a] = (@ \ {t}) \cup {Head(fut[a])}])
<1> DEFINE q == fut[a]
           h == Head(q)
           new == [fut EXCEPT ![a] = SubSeq(@, 2, Len(@))]
           x == Word(h, Len(q) > 1)
<1>1. fut \in Queues /\ a \in Addrs
  BY DEF QueuesOK, Addrs
<1>2. q \in Seq(Tids) /\ q # <<>> /\ Len(q) \in Nat \ {0} /\ h = q[1]
  BY <1>1 DEF Queues
<1>3. <<a, 1>> \in PlacesOf(fut) /\ At(fut, <<a, 1>>) = h
  BY <1>1, <1>2 DEF PlacesOf, At
<1>4. h \in D /\ h \in Tids /\ h # 0
  <2>1. h \in W
    BY <1>3 DEF QueuesOK
  <2>2. QED
    BY <2>1 DEF Tids
<1>5. /\ new[a] = SubSeq(q, 2, Len(q)) /\ \A b \in Locks \ {a} : new[b] = fut[b]
  BY <1>1 DEF Queues, Addrs
<1>6. Len(new[a]) = Len(q) - 1 /\ \A i \in 1 .. Len(q) - 1 : new[a][i] = q[i + 1]
  <2> HIDE DEF new, h
  <2>1. QED
    BY <1>2, <1>5, RestIs
<1>7. hd[a] = {t}
  <2>1. Tells(a, fut, wd, hd)
    BY <1>1, LockWord
  <2>2. t # 0
    BY DEF Tids
  <2>3. QED
    BY <2>1, <2>2, Zenon DEF Tells
<1>8. [hd EXCEPT ![a] = (@ \ {t}) \cup {h}] = [hd EXCEPT ![a] = {h}]
  BY <1>7, Zenon
<1> HIDE DEF q, h
<1>9. x \in WordRecord /\ x.val = h /\ x.waiters = (Len(q) > 1)
  <2> DEFINE w == Len(q) > 1
  <2>1. w \in BOOLEAN
    OBVIOUS
  <2> HIDE DEF w
  <2>2. Word(h, w) \in WordRecord /\ Word(h, w).val = h /\ Word(h, w).waiters = w
    BY <1>4, <2>1, WordIs, Zenon
  <2>3. QED
    BY <2>2, Zenon DEF w
<1>10. (Len(q) > 1) = (new[a] # <<>>)
  <2> HIDE DEF new
  <2>1. new[a] \in Seq(Tids)
    BY <1>2, <1>5, RestIs
  <2>2. QED
    BY <1>2, <1>6, <2>1
<1>11. ASSUME NEW i \in 1 .. Len(new[a]) PROVE new[a][i] # h
  <2> HIDE DEF new
  <2>1. i + 1 \in 1 .. Len(q) /\ i + 1 # 1 /\ i + 1 \in Nat /\ i \in 1 .. Len(q) - 1
    BY <1>2, <1>6
  <2>2. <<a, i + 1>> \in PlacesOf(fut) /\ At(fut, <<a, i + 1>>) = new[a][i] /\ <<a, i + 1>> # <<a, 1>>
    BY <1>1, <1>6, <2>1 DEF PlacesOf, At, q
  <2>3. QED
    BY <1>3, <2>2 DEF QueuesOK
<1> HIDE DEF new, x
<1> DEFINE H == {h}
<1> HIDE DEF H
<1>12. /\ H \in SUBSET Tids /\ (x.val = 0 => H = {}) /\ (x.val # 0 => H = {x.val})
       /\ x.val = 0 \/ x.val \in D
       /\ x.waiters = (new[a] # <<>>)
       /\ new[a] # <<>> => x.val \in D
  BY <1>4, <1>9, <1>10, Zenon DEF H
<1>13. \A i \in 1 .. Len(new[a]) : new[a][i] # x.val
  BY <1>9, <1>11
<1>14. LocksOK(D, new, [wd EXCEPT ![a] = x], [hd EXCEPT ![a] = H])
  BY <1>5, <1>9, <1>12, <1>13, LockChanges, Zenon
<1>15. QED
  BY <1>8, <1>14 DEF H, x, new, h, q

-----------------------------------------------------------------------------
(* The machine.                                                            *)

SavedOK(s) ==
  /\ MachineOK(s.threads, s.next_tid, s.futicies, s.word, s.frame, s.holders)
  /\ RunsOK(s.threads, 1, s.threads[1].context, s.frame)

(* What is left to say after a failed load.                                *)
PartsOK ==
  /\ DOMAIN threads \subseteq Tids /\ threads \in [DOMAIN threads -> Thread]
  /\ next_tid \in 2 .. MaxTid + 1
  /\ active_tid \in Tids
  /\ futicies \in Queues
  /\ word \in [Addrs -> WordRecord]
  /\ context \in Contexts

Inv ==
  /\ phase \in {"live", "trapped", "broken"}
  /\ PartsOK
  /\ phase # "broken" => MachineOK(threads, next_tid, futicies, word, frame, holders)
  /\ phase = "live" => RunsOK(threads, active_tid, context, frame)
  /\ \A s \in saved : SavedOK(s)

-----------------------------------------------------------------------------
(* The operations.                                                         *)

(* A step that leaves the machine and the savestates in order.             *)
LEMMA GoesSaved ==
  ASSUME NEW nt, nt = next_tid', NEW fr, fr = frame', NEW th, Scheduled(th, nt, fr),
         QueuesOK(Waiting(th), futicies'), LocksOK(DOMAIN th, futicies', word', holders'),
         \A s \in saved' : SavedOK(s)
  PROVE  Inv'
<1>1. MachineOK(threads', next_tid', futicies', word', frame', holders')
  BY DEF Scheduled, MachineOK
<1>2. PartsOK'
  BY DEF PartsOK, Scheduled, TableOK, QueuesOK, LocksOK
<1>3. phase' \in {"live", "trapped"} /\ (phase' = "live" => RunsOK(threads', active_tid', context', frame'))
  BY DEF Scheduled
<1>4. QED
  BY <1>1, <1>2, <1>3, Zenon DEF Inv

(* A step that leaves the savestates alone.                                *)
LEMMA Goes ==
  ASSUME Inv, NEW nt, nt = next_tid', NEW fr, fr = frame', NEW th, Scheduled(th, nt, fr),
         QueuesOK(Waiting(th), futicies'), LocksOK(DOMAIN th, futicies', word', holders'),
         saved' = saved
  PROVE  Inv'
<1>1. \A s \in saved' : SavedOK(s)
  BY DEF Inv
<1>2. QED
  BY <1>1, GoesSaved

(* What the invariant says of a live machine.                              *)
Live ==
  /\ TableOK(threads, next_tid, frame)
  /\ DOMAIN threads \in SUBSET Tids
  /\ active_tid \in Runnable(threads)
  /\ active_tid \in DOMAIN threads
  /\ active_tid \in Tids
  /\ active_tid \notin Waiting(threads)
  /\ Fits(threads, active_tid, context, frame)
  /\ QueuesOK(Waiting(threads), futicies)
  /\ futicies \in Queues
  /\ LocksOK(DOMAIN threads, futicies, word, holders)
  /\ word \in [Addrs -> WordRecord]
  /\ Waiting(threads) \in SUBSET (DOMAIN threads)

(* That part of the invariant, for a live machine.                         *)
LEMMA InvLive ==
  ASSUME Inv, phase = "live"
  PROVE  Live
<1>1. /\ TableOK(threads, next_tid, frame) /\ QueuesOK(Waiting(threads), futicies)
      /\ LocksOK(DOMAIN threads, futicies, word, holders)
      /\ RunsOK(threads, active_tid, context, frame)
  BY DEF Inv, MachineOK
<1>2. active_tid \in Runnable(threads) /\ active_tid \in DOMAIN threads /\ active_tid \notin Waiting(threads)
  BY <1>1 DEF RunsOK, Runnable, Waiting
<1>3. QED
  BY <1>1, <1>2 DEF Live, TableOK, QueuesOK, LocksOK, Fits, RunsOK, Waiting

(* The running thread goes on.                                             *)
LEMMA Continues ==
  ASSUME NEW th, th = threads', NEW nt, NEW fr, TableOK(th, nt, fr), RunsOK(th, active_tid, context', fr),
         active_tid' = active_tid, phase' = "live"
  PROVE  Scheduled(th, nt, fr)
<1>1. active_tid \in DOMAIN th /\ active_tid \in Tids /\ context' \in Contexts
  BY DEF RunsOK, Runnable, TableOK
<1>2. QED
  BY <1>1 DEF Scheduled

(* Where the table and the registers do not change.                        *)
LEMMA GoesOn ==
  ASSUME Inv, phase = "live", UNCHANGED <<threads, next_tid, active_tid, context, frame, phase, saved>>,
         QueuesOK(Waiting(threads), futicies'), LocksOK(DOMAIN threads, futicies', word', holders')
  PROVE  Inv'
<1>1. TableOK(threads, next_tid, frame) /\ RunsOK(threads, active_tid, context, frame)
  BY DEF Inv, MachineOK
<1>2. Scheduled(threads, next_tid, frame)
  BY <1>1, Continues
<1>3. QED
  BY <1>2, Goes

(* A new thread gets a fresh id, and nobody else notices.                  *)
LEMMA SpawnKeeps ==
  ASSUME Inv, NEW c \in Contexts, NEW addr \in Plain \cup {NoAddr}, Spawn(c, addr)
  PROVE  Inv'
<1> DEFINE r == [state |-> "RUNNABLE", context |-> c, tid_address |-> addr]
<1>1. Live
  BY InvLive DEF Spawn
<1>2. next_tid \in 2 .. MaxTid /\ next_tid \in Tids /\ next_tid \notin DOMAIN threads
      /\ next_tid + 1 \in 2 .. MaxTid + 1
  BY <1>1, ThreadsAssumption DEF Live, TableOK, Spawn, Tids
<1>3. r \in Thread /\ r.state = "RUNNABLE" /\ r.context = c
  BY Zenon DEF Thread
<1> HIDE DEF r
<1>4. /\ DOMAIN threads' = DOMAIN threads \cup {next_tid}
      /\ threads'[next_tid] = r
      /\ \A t \in DOMAIN threads : threads'[t] = threads[t]
  BY <1>2 DEF Spawn, With, r
<1>5. /\ frame' \in [DOMAIN threads' -> Contexts] /\ frame'[next_tid] = c
      /\ \A t \in DOMAIN threads : frame'[t] = frame[t]
  BY <1>1, <1>2, <1>4 DEF Spawn, With, Live, TableOK
<1>6. threads' \in [DOMAIN threads' -> Thread]
  <2>1. threads' = [t \in DOMAIN threads' |-> threads'[t]]
    BY DEF Spawn, With
  <2>2. \A t \in DOMAIN threads' : threads'[t] \in Thread
    BY <1>1, <1>3, <1>4 DEF Live, TableOK
  <2>3. QED
    BY <2>1, <2>2, Zenon
<1>7. TableOK(threads', next_tid', frame')
  <2>1. next_tid' = next_tid + 1
    BY DEF Spawn
  <2>2. \A t \in DOMAIN threads' : t \in Tids /\ t < next_tid'
    BY <1>1, <1>2, <1>4, <2>1 DEF Live, TableOK, Tids
  <2>3. WellOrdered(DOMAIN threads')
    <3>1. DOMAIN threads \in SUBSET Nat /\ WellOrdered(DOMAIN threads) /\ next_tid \in Nat
          /\ \A t \in DOMAIN threads : t < next_tid
      BY <1>1, <1>2 DEF Live, TableOK, Tids
    <3>2. QED
      BY <1>4, <3>1, OneMoreIsOrdered, Zenon
  <2>4. QED
    BY <1>2, <1>5, <1>6, <2>1, <2>2, <2>3, Zenon DEF TableOK
<1>8. Waiting(threads') = Waiting(threads)
  BY <1>2, <1>3, <1>4 DEF Waiting
<1>9. RunsOK(threads', active_tid, context', frame')
  BY <1>1, <1>2, <1>3, <1>4, <1>5, SMTT(30) DEF RunsOK, Live, Fits, Runnable, Spawn
<1>10. Scheduled(threads', next_tid', frame')
  BY <1>7, <1>9, Continues, Zenon DEF Spawn
<1>11. QueuesOK(Waiting(threads'), futicies')
  <2>1. futicies' = futicies
    BY Zenon DEF Spawn
  <2>2. QueuesOK(Waiting(threads), futicies)
    BY <1>1, Zenon DEF Live
  <2>3. QED
    BY <1>8, <2>1, <2>2, Zenon
<1>12. LocksOK(DOMAIN threads', futicies', word', holders')
  BY <1>1, <1>4, LocksStay, Zenon DEF Live, Spawn
<1>13. QED
  BY <1>10, <1>11, <1>12, Goes, Zenon DEF Spawn

(* Only the address changes.                                               *)
LEMMA SetTidAddressKeeps ==
  ASSUME Inv, NEW addr \in Plain \cup {NoAddr}, SetTidAddress(addr)
  PROVE  Inv'
<1>1. Live
  BY InvLive DEF SetTidAddress
<1>2. DOMAIN threads' = DOMAIN threads
  BY DEF SetTidAddress
<1>3. ASSUME NEW t \in DOMAIN threads
      PROVE  /\ threads'[t] \in Thread /\ threads'[t].state = threads[t].state
             /\ threads'[t].context = threads[t].context
  <2>1. threads'[t] = IF t = active_tid THEN [threads[t] EXCEPT !.tid_address = addr] ELSE threads[t]
    BY DEF SetTidAddress
  <2>2. threads[t] \in Thread
    BY <1>1 DEF Live, TableOK
  <2>3. QED
    BY <2>1, <2>2 DEF Thread
<1>4. TableOK(threads', next_tid', frame')
  <2>1. threads' = [t \in DOMAIN threads' |-> threads'[t]]
    BY Zenon DEF SetTidAddress
  <2>2. threads' \in [DOMAIN threads' -> Thread]
    BY <1>2, <1>3, <2>1
  <2>3. QED
    BY <1>1, <1>2, <2>2 DEF Live, TableOK, SetTidAddress
<1>5. Waiting(threads') = Waiting(threads)
  BY <1>2, <1>3 DEF Waiting
<1>6. RunsOK(threads', active_tid, context', frame')
  BY <1>1, <1>2, <1>3 DEF RunsOK, Live, Fits, Runnable, SetTidAddress
<1>7. Scheduled(threads', next_tid', frame')
  BY <1>4, <1>6, Continues, Zenon DEF SetTidAddress
<1>8. /\ QueuesOK(Waiting(threads'), futicies')
      /\ LocksOK(DOMAIN threads', futicies', word', holders')
  BY <1>1, <1>2, <1>5 DEF Live, SetTidAddress
<1>9. QED
  BY <1>7, <1>8, Goes, Zenon DEF SetTidAddress

(* A yield is a swap to the next thread.                                   *)
LEMMA YieldKeeps ==
  ASSUME Inv, Yield
  PROVE  Inv'
<1>1. Live
  BY InvLive DEF Yield
<1>2. Scheduled(threads, next_tid, frame)
  BY <1>1, SwapToNext DEF Live, Yield
<1>3. QED
  BY <1>1, <1>2, Goes DEF Live, Yield

(* The running thread changes its own registers only.                      *)
LEMMA RunKeeps ==
  ASSUME Inv, NEW c \in Contexts, Run(c)
  PROVE  Inv'
<1>1. Live
  BY InvLive DEF Run
<1>2. /\ frame' \in [DOMAIN threads -> Contexts] /\ frame'[active_tid] = c
      /\ \A t \in DOMAIN threads \ {active_tid} : frame'[t] = frame[t]
  BY <1>1 DEF Run, Live, TableOK
<1>3. TableOK(threads, next_tid, frame') /\ RunsOK(threads, active_tid, context', frame')
  BY <1>1, <1>2 DEF Run, Live, TableOK, RunsOK, Fits
<1>4. Scheduled(threads, next_tid, frame')
  BY <1>3, Continues DEF Run
<1>5. QED
  BY <1>1, <1>4, Goes, Zenon DEF Live, Run

(* A word of Plain changes, which no lock depends on.                      *)
LEMMA StoreKeeps ==
  ASSUME Inv, NEW addr \in Plain, NEW v \in Stores, Store(addr, v)
  PROVE  Inv'
<1>1. Live
  BY InvLive DEF Store
<1>2. Word(v, FALSE) \in WordRecord
  BY WordIs, Zenon
<1>3. word' \in [Addrs -> WordRecord] /\ \A a \in Locks : word'[a] = word[a]
  BY <1>1, <1>2, ThreadsAssumption, Zenon DEF Store, Live, Addrs
<1>4. LocksOK(DOMAIN threads, futicies', word', holders')
  <2>1. /\ LocksOK(DOMAIN threads, futicies, word, holders)
        /\ futicies' = futicies /\ holders' = holders
    BY <1>1 DEF Live, Store
  <2>2. LocksOK(DOMAIN threads, futicies, word', holders)
    BY <1>3, <2>1, LocksStay
  <2>3. QED
    BY <2>1, <2>2
<1>5. QED
  BY <1>1, <1>4, GoesOn DEF Live, Store

(* A lock that is free is taken without a call.                            *)
LEMMA FastLockKeeps ==
  ASSUME Inv, NEW addr \in Locks, FastLock(addr)
  PROVE  Inv'
<1>1. Live
  BY InvLive DEF FastLock
<1>2. LocksOK(DOMAIN threads, futicies', word', holders')
  BY <1>1, LockTaken, Zenon DEF Live, FastLock
<1>3. QED
  BY <1>1, <1>2, GoesOn DEF Live, FastLock

(* It is released without a call only if its word shows no waiters.        *)
LEMMA FastUnlockKeeps ==
  ASSUME Inv, NEW addr \in Locks, FastUnlock(addr)
  PROVE  Inv'
<1>1. Live
  BY InvLive DEF FastUnlock
<1>2. word[addr].val = active_tid /\ word[addr].waiters = FALSE
  BY <1>1, WordIs, Zenon DEF Live, FastUnlock
<1>3. futicies[addr] = <<>>
  <2>1. Tells(addr, futicies, word, holders)
    BY <1>1, LockWord DEF Live
  <2>2. QED
    BY <1>2, <2>1, Zenon DEF Tells
<1>4. LocksOK(DOMAIN threads, futicies', word', holders')
  BY <1>1, <1>2, <1>3, LockReleased, Zenon DEF Live, FastUnlock
<1>5. QED
  BY <1>1, <1>4, GoesOn DEF Live, FastUnlock

(* The running thread goes to sleep.                                       *)
LEMMA Parks ==
  ASSUME Live, phase = "live", NEW addr \in Addrs, park_me(addr)
  PROVE  LET th == WithState(threads, {active_tid}, "WAITING")
         IN  /\ Scheduled(th, next_tid, frame)
             /\ DOMAIN th = DOMAIN threads
             /\ QueuesOK(Waiting(th), futicies')
<1> DEFINE th == WithState(threads, {active_tid}, "WAITING")
<1>1. TableOK(th, next_tid, frame) /\ DOMAIN th = DOMAIN threads
  <2>1. TableOK(threads, next_tid, frame)
    BY Zenon DEF Live
  <2>2. QED
    BY <2>1, StatesChange, Zenon
<1>2. Fits(th, active_tid, context, frame)
  BY FitsStates DEF Live
<1>3. Waiting(th) = Waiting(threads) \cup {active_tid}
  BY Asleep DEF Live
<1>4. swap_to_next(th)
  BY DEF park_me
<1> HIDE DEF th
<1>5. Scheduled(th, next_tid, frame)
  BY <1>1, <1>2, <1>4, SwapToNext, Zenon
<1>6. QueuesOK(Waiting(threads) \cup {active_tid}, futicies')
  BY QueuesAppend, Zenon DEF Live, park_me
<1>7. QED
  BY <1>1, <1>3, <1>5, <1>6, ZenonT(30) DEF th

(* The thread sleeps in the queue of a word of Plain.                      *)
LEMMA FutexWaitKeeps ==
  ASSUME Inv, NEW addr \in Plain, NEW compare, FutexWait(addr, compare)
  PROVE  Inv'
<1> DEFINE th == WithState(threads, {active_tid}, "WAITING")
<1>1. Live
  BY InvLive, Zenon DEF FutexWait
<1>2. /\ Scheduled(th, next_tid, frame) /\ DOMAIN th = DOMAIN threads
      /\ QueuesOK(Waiting(th), futicies')
  BY <1>1, Parks DEF FutexWait, Addrs
<1>3. \A a \in Locks : futicies'[a] = futicies[a]
  BY <1>1, ThreadsAssumption, ZenonT(30) DEF Live, FutexWait, park_me, Queues, Addrs
<1>4. LocksOK(DOMAIN th, futicies', word', holders')
  <2>1. /\ LocksOK(DOMAIN threads, futicies, word, holders)
        /\ word' = word /\ holders' = holders /\ word \in [Addrs -> WordRecord]
    BY <1>1, Zenon DEF Live, FutexWait
  <2>2. LocksOK(DOMAIN threads, futicies', word, holders)
    BY <1>3, <2>1, LocksStay
  <2>3. QED
    BY <1>2, <2>1, <2>2
<1> HIDE DEF th
<1>5. QED
  BY <1>2, <1>4, Goes DEF FutexWait

(* The thread takes the lock, or sleeps in its queue.                      *)
LEMMA FutexLockPiKeeps ==
  ASSUME Inv, NEW addr \in Locks, ~Holds(addr), FutexLockPi(addr)
  PROVE  Inv'
<1> DEFINE th == WithState(threads, {active_tid}, "WAITING")
<1>1. Live /\ addr \in Addrs
  BY InvLive DEF FutexLockPi, Addrs
<1>2. CASE word[addr] = Word(0, FALSE)
  <2>1. LocksOK(DOMAIN threads, futicies', word', holders')
    <3>1. /\ word' = [word EXCEPT ![addr] = Word(active_tid, FALSE)] /\ futicies' = futicies
          /\ holders' = [holders EXCEPT ![addr] = @ \cup {active_tid}]
      BY <1>2, Zenon DEF FutexLockPi
    <3>2. QED
      BY <1>1, <1>2, <3>1, LockTaken, Zenon DEF Live
  <2>2. QED
    BY <1>1, <1>2, <2>1, GoesOn DEF Live, FutexLockPi
<1>3. CASE word[addr] # Word(0, FALSE)
  <2>1. /\ Scheduled(th, next_tid, frame) /\ DOMAIN th = DOMAIN threads
        /\ QueuesOK(Waiting(th), futicies')
    BY <1>1, <1>3, Parks DEF FutexLockPi
  <2>2. LocksOK(DOMAIN threads, futicies', word', holders')
    <3>1. /\ futicies' = [futicies EXCEPT ![addr] = Append(@, active_tid)]
          /\ word' = [word EXCEPT ![addr] = [word[addr] EXCEPT !.waiters = TRUE]]
          /\ holders' = holders
      BY <1>3, Zenon DEF FutexLockPi, park_me, Contended
    <3>2. QED
      BY <1>1, <1>3, <3>1, LockContended, Zenon DEF Live, Holds
  <2> HIDE DEF th
  <2>3. QED
    BY <2>1, <2>2, Goes, Zenon DEF FutexLockPi
<1>4. QED
  BY <1>2, <1>3, Zenon

(* The first waiter of a word, if there is one, is woken.                  *)
LEMMA Unparks ==
  ASSUME Live, NEW addr \in Addrs
  PROVE  LET th == Unparked(addr)
         IN  /\ TableOK(th, next_tid, frame)
             /\ DOMAIN th = DOMAIN threads
             /\ Fits(th, active_tid, context, frame)
             /\ active_tid \in Runnable(th)
             /\ QueuesOK(Waiting(th), [futicies EXCEPT ![addr] = SubSeq(@, 2, Len(@))])
<1> DEFINE th == Unparked(addr)
<1>1. TableOK(th, next_tid, frame) /\ DOMAIN th = DOMAIN threads
  <2>1. TableOK(threads, next_tid, frame)
    BY Zenon DEF Live
  <2>2. QED
    BY <2>1, StatesChange, Zenon DEF Unparked
<1>2. Fits(th, active_tid, context, frame)
  BY FitsStates DEF Live, Unparked
<1>3. active_tid \in Runnable(th) /\ Waiting(th) = Waiting(threads) \ FirstWaiter(addr)
  BY Woken DEF Live, Unparked
<1> HIDE DEF th
<1>4. futicies \in [Addrs -> Seq(Tids)] /\ futicies[addr] \in Seq(Tids)
  BY DEF Live, Queues
<1>5. CASE futicies[addr] = <<>>
  <2>1. FirstWaiter(addr) = {}
    BY <1>5 DEF FirstWaiter
  <2>2. SubSeq(<<>>, 2, 0) = <<>>
    OBVIOUS
  <2>3. [futicies EXCEPT ![addr] = SubSeq(@, 2, Len(@))] = futicies
    <3>1. SubSeq(futicies[addr], 2, Len(futicies[addr])) = futicies[addr]
      BY <1>5, <2>2
    <3>2. QED
      BY <1>4, <3>1
  <2>4. QED
    BY <1>1, <1>2, <1>3, <2>1, <2>3, Zenon DEF th, Live
<1>6. CASE futicies[addr] # <<>>
  <2>1. FirstWaiter(addr) = {Head(futicies[addr])}
    BY <1>4, <1>6 DEF FirstWaiter
  <2>2. QueuesOK(Waiting(threads) \ {Head(futicies[addr])},
                 [futicies EXCEPT ![addr] = SubSeq(@, 2, Len(@))])
    BY <1>6, QueuesPop, Zenon DEF Live
  <2>3. QED
    BY <1>1, <1>2, <1>3, <2>1, <2>2 DEF th
<1>7. QED
  BY <1>5, <1>6

(* The lock is freed, or handed to its first waiter.                       *)
LEMMA FutexUnlockPiKeeps ==
  ASSUME Inv, NEW addr \in Locks, Holds(addr), FutexUnlockPi(addr)
  PROVE  Inv'
<1> DEFINE th == Unparked(addr)
           h == Head(futicies[addr])
<1>1. Live /\ addr \in Addrs /\ word[addr].val = active_tid
  BY InvLive, Zenon DEF FutexUnlockPi, Addrs, Holds
<1>2. CASE futicies[addr] = <<>>
  <2>1. LocksOK(DOMAIN threads, futicies', word', holders')
    <3>1. /\ word' = [word EXCEPT ![addr] = Word(0, FALSE)] /\ futicies' = futicies
          /\ holders' = [holders EXCEPT ![addr] = @ \ {active_tid}]
      BY <1>2, Zenon DEF FutexUnlockPi
    <3>2. QED
      BY <1>1, <1>2, <3>1, LockReleased, Zenon DEF Live
  <2>2. QED
    BY <1>1, <1>2, <2>1, GoesOn, Zenon DEF Live, FutexUnlockPi
<1>3. CASE futicies[addr] # <<>>
  <2>1. /\ TableOK(th, next_tid, frame) /\ DOMAIN th = DOMAIN threads
        /\ Fits(th, active_tid, context, frame)
        /\ QueuesOK(Waiting(th), [futicies EXCEPT ![addr] = SubSeq(@, 2, Len(@))])
    BY <1>1, Unparks, ZenonT(30)
  <2>2. FirstWaiter(addr) = {h}
    BY <1>1, <1>3, SMTT(30) DEF FirstWaiter, Live, Queues
  <2>3. h \in Waiting(threads)
    <3>1. <<addr, 1>> \in PlacesOf(futicies) /\ At(futicies, <<addr, 1>>) = h
      <4>1. futicies[addr] \in Seq(Tids) /\ addr \in Addrs
        BY <1>1, Zenon DEF Live, Queues
      <4>2. 1 \in 1 .. Len(futicies[addr])
        BY <1>3, <4>1
      <4>3. QED
        BY <4>1, <4>2 DEF PlacesOf, At
    <3>2. QueuesOK(Waiting(threads), futicies)
      BY <1>1, Zenon DEF Live
    <3> HIDE DEF h
    <3>3. QED
      BY <3>1, <3>2, Zenon DEF QueuesOK
  <2>4. h \in Runnable(th) /\ h # active_tid
    <3>1. h \in DOMAIN threads /\ h # active_tid
      BY <1>1, <2>3, Zenon DEF Live, Waiting
    <3>2. QED
      BY <1>1, <2>2, <3>1, Woken, Zenon DEF Live, Unparked
  <2>5. swap_to(th, h) /\ phase = "live"
    BY <1>3, Zenon DEF FutexUnlockPi
  <2> HIDE DEF th
  <2>6. Scheduled(th, next_tid, frame)
    BY <2>1, <2>4, <2>5, SwapTo, Zenon
  <2>7. /\ futicies' = [futicies EXCEPT ![addr] = SubSeq(@, 2, Len(@))]
        /\ word' = [word EXCEPT ![addr] = Word(h, Len(futicies[addr]) > 1)]
        /\ holders' = [holders EXCEPT ![addr] = (@ \ {active_tid}) \cup {h}]
    BY <1>3, <2>2, Zenon DEF FutexUnlockPi, unpark_one, Handoff
  <2>8. LocksOK(DOMAIN threads, futicies', word', holders')
    BY <1>1, <1>3, <2>7, LockHanded, Zenon DEF Live
  <2>9. QED
    BY <2>1, <2>6, <2>7, <2>8, Goes, Zenon DEF FutexUnlockPi
<1>4. QED
  BY <1>2, <1>3

(* A thread that holds no lock may go.                                     *)
LEMMA ExitKeeps ==
  ASSUME Inv, \A a \in Locks : ~Holds(a), Exit
  PROVE  Inv'
<1> DEFINE addr == threads[active_tid].tid_address
           th == IF addr = NoAddr THEN threads ELSE Unparked(addr)
<1>1. Live /\ addr \in Plain \cup {NoAddr}
  <2>1. Live
    BY InvLive, Zenon DEF Exit
  <2>2. QED
    BY <2>1 DEF Live, TableOK, Thread
<1>2. CASE active_tid = 1
  <2>1. Scheduled(threads, next_tid, frame)
    BY <1>1, <1>2 DEF Scheduled, Live, Exit, Inv, PartsOK
  <2>2. QED
    BY <1>1, <1>2, <2>1, Goes, Zenon DEF Live, Exit
<1>3. CASE active_tid # 1
  <2>1. /\ TableOK(th, next_tid, frame) /\ DOMAIN th = DOMAIN threads
        /\ Fits(th, active_tid, context, frame)
        /\ active_tid \in Runnable(th)
        /\ QueuesOK(Waiting(th), futicies')
        /\ word' \in [Addrs -> WordRecord]
        /\ \A a \in Locks : word'[a] = word[a] /\ futicies'[a] = futicies[a]
    <3>1. CASE addr = NoAddr
      BY <1>1, <1>3, <3>1, Zenon DEF Live, Exit
    <3>2. CASE addr # NoAddr
      <4>1. addr \in Plain /\ addr \in Addrs /\ addr \notin Locks
        BY <1>1, <3>2, ThreadsAssumption, Zenon DEF Addrs
      <4>2. /\ th = Unparked(addr)
            /\ futicies' = [futicies EXCEPT ![addr] = SubSeq(@, 2, Len(@))]
            /\ word' = [word EXCEPT ![addr] = Word(0, FALSE)]
        BY <1>3, <3>2, Zenon DEF Exit, unpark_one
      <4> HIDE DEF addr, th
      <4>3. Word(0, FALSE) \in WordRecord
        BY WordIs, Zenon
      <4>4. /\ word' \in [Addrs -> WordRecord]
            /\ \A a \in Locks : word'[a] = word[a] /\ futicies'[a] = futicies[a]
        BY <1>1, <4>1, <4>2, <4>3, Zenon DEF Live, Queues, Addrs
      <4>5. QED
        BY <1>1, <4>1, <4>2, <4>4, Unparks, Zenon
    <3>3. QED
      BY <3>1, <3>2, Zenon
  <2>2. ASSUME NEW E, \A a \in Locks : word[a].val \in DOMAIN threads => word[a].val \in E
        PROVE  LocksOK(E, futicies', word', holders)
    <3>1. LocksOK(DOMAIN threads, futicies, word, holders)
      BY <1>1, Zenon DEF Live
    <3>2. /\ word' \in [Addrs -> WordRecord]
          /\ \A a \in Locks : word'[a] = word[a]
          /\ \A a \in Locks : futicies'[a] = futicies[a]
      BY <2>1, Zenon
    <3>3. QED
      BY <2>2, <3>1, <3>2, LocksStay
  <2>3. CASE NextRunnable(th) = active_tid
    <3>1. phase' = "trapped" /\ threads' = th /\ UNCHANGED <<active_tid, context, frame, next_tid, holders, saved>>
      BY <1>3, <2>3, Zenon DEF Exit
    <3> HIDE DEF th
    <3>2. Scheduled(th, next_tid, frame)
      BY <1>1, <2>1, <3>1 DEF Scheduled, Live, Inv, PartsOK
    <3>3. LocksOK(DOMAIN th, futicies', word', holders)
      BY <2>1, <2>2, Zenon
    <3>4. QED
      BY <2>1, <3>1, <3>2, <3>3, Goes, Zenon
  <2>4. CASE NextRunnable(th) # active_tid
    <3> DEFINE n == NextRunnable(th)
    <3>1. /\ threads' = Without(th, active_tid) /\ frame' = Without(frame, active_tid)
          /\ active_tid' = n /\ context' = th[n].context /\ phase' = "live"
          /\ UNCHANGED <<next_tid, holders, saved>>
      BY <1>3, <2>4, Zenon DEF Exit
    <3> HIDE DEF th
    <3>2. n \in Runnable(th)
      BY <2>1, NextIsRunnable, Zenon
    <3> HIDE DEF n
    <3>3. n \in DOMAIN th /\ n # active_tid /\ th[n].state = "RUNNABLE"
      BY <2>4, <3>2 DEF Runnable, n
    <3>4. /\ DOMAIN threads' = DOMAIN th \ {active_tid}
          /\ \A t \in DOMAIN th \ {active_tid} : threads'[t] = th[t]
      BY <3>1 DEF Without
    <3>5. /\ frame' \in [DOMAIN th \ {active_tid} -> Contexts]
          /\ \A t \in DOMAIN th \ {active_tid} : frame'[t] = frame[t]
      BY <2>1, <3>1 DEF Without, TableOK
    <3>6. threads' \in [DOMAIN threads' -> Thread]
      <4>1. threads' = [t \in DOMAIN threads' |-> threads'[t]]
        BY <3>1 DEF Without
      <4>2. \A t \in DOMAIN threads' : threads'[t] \in Thread
        BY <2>1, <3>4 DEF TableOK
      <4>3. QED
        BY <4>1, <4>2
    <3>7. TableOK(threads', next_tid, frame')
      <4>1. WellOrdered(DOMAIN threads')
        <5>1. WellOrdered(DOMAIN th)
          BY <2>1 DEF TableOK
        <5>2. DOMAIN threads' \in SUBSET DOMAIN th
          BY <3>4
        <5>3. QED
          BY <5>1, <5>2, FewerAreOrdered, Zenon
      <4>2. QED
        BY <2>1, <3>4, <3>5, <3>6, <4>1, Zenon DEF TableOK
    <3>8. Waiting(threads') = Waiting(th)
      BY <2>1, <3>4, Zenon DEF Waiting, Runnable
    <3>9. RunsOK(threads', active_tid', context', frame')
      BY <2>1, <3>1, <3>3, <3>4, <3>5 DEF RunsOK, Runnable, Fits
    <3>10. Scheduled(threads', next_tid, frame')
      <4>1. active_tid' \in Tids /\ context' \in Contexts
        BY <2>1, <3>1, <3>3 DEF TableOK, Thread
      <4>2. QED
        BY <3>1, <3>7, <3>9, <4>1 DEF Scheduled
    <3>11. QueuesOK(Waiting(threads'), futicies')
      BY <2>1, <3>8
    <3>12. LocksOK(DOMAIN threads', futicies', word', holders)
      <4>1. \A a \in Locks : word[a].val \in DOMAIN threads => word[a].val \in DOMAIN threads'
        BY <2>1, <3>4, Zenon DEF Holds
      <4>2. QED
        BY <2>2, <4>1, Zenon
    <3>13. QED
      BY <3>1, <3>10, <3>11, <3>12, Goes, Zenon
  <2>5. QED
    BY <2>3, <2>4, Zenon
<1>4. QED
  BY <1>2, <1>3

(* The smaller of two numbers.                                             *)
LEMMA MinOfTwo ==
  ASSUME NEW x \in Nat, NEW y \in Nat
  PROVE  Min({x, y}) \in Nat /\ Min({x, y}) <= y
<1>1. \E m \in {x, y} : m \in {x, y} /\ \A z \in {x, y} : m <= z
  OBVIOUS
<1>2. Min({x, y}) \in {x, y} /\ \A z \in {x, y} : Min({x, y}) <= z
  BY <1>1, Zenon DEF Min
<1>3. QED
  BY <1>2

(* No more threads are moved than there are.                               *)
LEMMA MovedCount ==
  ASSUME NEW requeue \in Nat, NEW r \in Nat, NEW from, NEW to
  PROVE  LET m == IF from # to THEN Min({requeue, r}) ELSE IF r < 2 THEN 0 ELSE requeue % r
         IN  m \in Nat /\ m <= r
<1>1. Min({requeue, r}) \in Nat /\ Min({requeue, r}) <= r
  BY MinOfTwo
<1>2. ASSUME r >= 2 PROVE requeue % r \in Nat /\ requeue % r <= r
  BY <1>2
<1>3. QED
  BY <1>1, <1>2

(* What a requeue does: the first n threads of `from` are woken, the next  *)
(* m go behind the B others of `to`.                                       *)
Requeues(from, to, n, m, B) ==
  /\ n <= Len(futicies[from]) /\ m <= Len(futicies[from]) - n
  /\ futicies' \in Queues
  /\ Requeued(futicies, futicies', from, to, n, m, B)
  /\ threads' = WithState(threads, {futicies[from][i] : i \in 1 .. n}, "RUNNABLE")

(* It does that for some n, m and B.                                       *)
LEMMA RequeueIs ==
  ASSUME Live, NEW from \in Plain, NEW to \in Plain,
         NEW wake \in Nat, NEW requeue \in Nat, FutexRequeue(from, to, wake, requeue)
  PROVE  \E n, m, B \in Nat : Requeues(from, to, n, m, B)
<1> DEFINE q == futicies[from]
           n == Min({wake, Len(q)})
           rest == SubSeq(q, n + 1, Len(q))
           moved == IF from # to THEN Min({requeue, Len(rest)})
                    ELSE IF Len(rest) < 2 THEN 0 ELSE requeue % Len(rest)
           left == SubSeq(rest, moved + 1, Len(rest))
           tail == SubSeq(rest, 1, moved)
           f == [futicies EXCEPT ![from] = left]
           new == IF moved = 0 THEN f ELSE [f EXCEPT ![to] = @ \o tail]
           G == {q[i] : i \in 1 .. n}
<1>1. /\ threads' = WithState(threads, Range(SubSeq(q, 1, n)), "RUNNABLE")
      /\ futicies' = new
  BY Zenon DEF FutexRequeue
<1>2. from \in Addrs /\ to \in Addrs
  BY Zenon DEF Addrs
<1>3. q \in Seq(Tids) /\ Len(q) \in Nat
  BY <1>2 DEF Live, Queues
<1> HIDE DEF q
<1>4. n \in Nat /\ n <= Len(q)
  BY <1>3, MinOfTwo
<1>5. Len(rest) = Len(q) - n
  <2> HIDE DEF n
  <2>1. 0 \in Nat /\ 0 <= Len(q) - n
    BY <1>3, <1>4
  <2>2. QED
    BY <1>3, <1>4, <2>1, CutInThree
<1>6. moved \in Nat /\ moved <= Len(q) - n
  <2> HIDE DEF n, rest
  <2>1. Len(rest) \in Nat
    BY <1>3, <1>4, <1>5
  <2>2. moved \in Nat /\ moved <= Len(rest)
    BY <2>1, MovedCount, Zenon
  <2>3. QED
    BY <1>5, <2>2
<1> HIDE DEF n, moved
<1>7. Cut(q, n, moved, left, tail)
  BY <1>3, <1>4, <1>6, CutInThree, Zenon
<1> HIDE DEF left, tail
<1>8. new \in Queues /\ \E B \in Nat : Requeued(futicies, new, from, to, n, moved, B)
  BY <1>2, <1>4, <1>6, <1>7, RequeueShape, Zenon DEF q, Live
<1>9. PICK B \in Nat : Requeued(futicies, new, from, to, n, moved, B)
  BY <1>8, Zenon
<1> HIDE DEF new
<1>10. Range(SubSeq(q, 1, n)) = G
  <2>1. 1 \in Nat \ {0} /\ 1 <= n + 1 /\ n - 1 + 1 = n /\ \A i \in Int : 1 + i - 1 = i
    BY <1>4
  <2>2. /\ SubSeq(q, 1, n) \in Seq(Tids) /\ Len(SubSeq(q, 1, n)) = n
        /\ \A i \in 1 .. n : SubSeq(q, 1, n)[i] = q[i]
    BY <1>3, <1>4, <2>1, PartIs
  <2> DEFINE p == SubSeq(q, 1, n)
  <2> HIDE DEF p
  <2>3. p \in Seq(Tids) /\ Len(p) = n /\ \A i \in 1 .. n : p[i] = q[i]
    BY <2>2 DEF p
  <2>4. DOMAIN p = 1 .. n
    BY <2>3
  <2>5. Range(p) = G
    BY <2>3, <2>4 DEF Range
  <2>6. QED
    BY <2>5 DEF p
<1>11. threads' = WithState(threads, {futicies[from][i] : i \in 1 .. n}, "RUNNABLE")
  BY <1>1, <1>10 DEF q
<1>12. Requeues(from, to, n, moved, B)
  BY <1>1, <1>4, <1>6, <1>8, <1>9, <1>11, Zenon DEF Requeues, q
<1>13. QED
  BY <1>4, <1>6, <1>9, <1>12

(* The threads that are woken, and only they, leave the queues.            *)
LEMMA FutexRequeueKeeps ==
  ASSUME Inv, NEW from \in Plain, NEW to \in Plain,
         NEW wake \in Nat, NEW requeue \in Nat, FutexRequeue(from, to, wake, requeue)
  PROVE  Inv'
<1>1. /\ phase = "live"
      /\ UNCHANGED <<next_tid, active_tid, word, context, frame, holders, phase, saved>>
  BY Zenon DEF FutexRequeue
<1>2. Live /\ from \in Addrs /\ to \in Addrs
  BY <1>1, InvLive, Zenon DEF Addrs
<1>3. PICK n, m, B \in Nat : Requeues(from, to, n, m, B)
  BY <1>2, RequeueIs
<1> DEFINE G == {futicies[from][i] : i \in 1 .. n}
<1>4. QueuesOK(Waiting(threads) \ G, futicies')
  BY <1>2, <1>3, QueuesRequeue, Zenon DEF Live, Requeues
<1>5. threads' = WithState(threads, G, "RUNNABLE")
  BY <1>3, Zenon DEF Requeues
<1> HIDE DEF G
<1>6. /\ TableOK(threads', next_tid, frame) /\ DOMAIN threads' = DOMAIN threads
      /\ Fits(threads', active_tid, context, frame)
      /\ Waiting(threads') = Waiting(threads) \ G
      /\ active_tid \in Runnable(threads')
  <2>1. TableOK(threads', next_tid, frame) /\ DOMAIN threads' = DOMAIN threads
    <3>1. TableOK(threads, next_tid, frame)
      BY <1>2, Zenon DEF Live
    <3>2. QED
      BY <1>5, <3>1, StatesChange
  <2>2. Fits(threads', active_tid, context, frame)
    BY <1>2, <1>5, FitsStates, Zenon DEF Live
  <2>3. Waiting(threads') = Waiting(threads) \ G /\ active_tid \in Runnable(threads')
    BY <1>2, <1>5, Woken DEF Live
  <2>4. QED
    BY <2>1, <2>2, <2>3
<1>7. Scheduled(threads', next_tid, frame)
  <2>1. RunsOK(threads', active_tid, context', frame)
    BY <1>1, <1>6, Zenon DEF RunsOK, Fits
  <2>2. QED
    BY <1>1, <1>6, <2>1, Continues, ZenonT(30)
<1>8. \A a \in Locks : futicies'[a] = futicies[a]
  BY <1>3, ThreadsAssumption, Zenon DEF Requeues, Requeued, Addrs
<1>9. LocksOK(DOMAIN threads', futicies', word', holders')
  <2>1. /\ LocksOK(DOMAIN threads, futicies, word, holders)
        /\ word' = word /\ holders' = holders /\ word \in [Addrs -> WordRecord]
    BY <1>1, <1>2, Zenon DEF Live
  <2>2. LocksOK(DOMAIN threads, futicies', word, holders)
    BY <1>8, <2>1, LocksStay
  <2>3. QED
    BY <1>6, <2>1, <2>2
<1>10. QueuesOK(Waiting(threads'), futicies')
  BY <1>4, <1>6
<1>11. QED
  BY <1>1, <1>7, <1>9, <1>10, Goes

(* The record of the main thread is brought up to date.                    *)
LEMMA MainSaved ==
  ASSUME Live, active_tid = 1
  PROVE  /\ TableOK(WithMain, next_tid, frame)
         /\ DOMAIN WithMain = DOMAIN threads
         /\ Waiting(WithMain) = Waiting(threads)
         /\ WithMain[1].context = context
         /\ RunsOK(WithMain, 1, context, frame)
<1> DEFINE new == WithMain
<1>1. context \in Contexts /\ 1 \in DOMAIN threads
  BY DEF Live, Fits, TableOK
<1>2. DOMAIN new = DOMAIN threads
  BY DEF WithMain
<1>3. ASSUME NEW t \in DOMAIN threads
      PROVE  /\ new[t] \in Thread /\ new[t].state = threads[t].state
             /\ new[t].context = IF t = 1 THEN context ELSE threads[t].context
  <2>1. new[t] = IF t = 1 THEN [threads[t] EXCEPT !.context = context] ELSE threads[t]
    BY DEF WithMain
  <2>2. threads[t] \in Thread
    BY DEF Live, TableOK
  <2> HIDE DEF new
  <2>3. QED
    BY <1>1, <2>1, <2>2 DEF Thread
<1>4. new \in [DOMAIN new -> Thread]
  <2>1. new = [t \in DOMAIN threads |-> new[t]]
    BY DEF WithMain
  <2> HIDE DEF new
  <2>2. QED
    BY <1>2, <1>3, <2>1
<1> HIDE DEF new
<1>5. TableOK(new, next_tid, frame)
  BY <1>2, <1>4 DEF Live, TableOK
<1>6. Waiting(new) = Waiting(threads)
  BY <1>2, <1>3, SMTT(30) DEF Waiting
<1>7. RunsOK(new, 1, context, frame)
  BY <1>2, <1>3, Zenon DEF Live, RunsOK, Fits, Runnable
<1>8. QED
  BY <1>1, <1>2, <1>3, <1>5, <1>6, <1>7 DEF new

(* What is saved is in order.                                              *)
LEMMA SaveStateKeeps ==
  ASSUME Inv, SaveState
  PROVE  Inv'
<1> DEFINE s == [threads |-> WithMain, next_tid |-> next_tid, futicies |-> futicies,
                 word |-> word, frame |-> frame, holders |-> holders]
<1>1. Live /\ active_tid = 1
  BY InvLive DEF SaveState
<1>2. /\ TableOK(WithMain, next_tid, frame)
      /\ DOMAIN WithMain = DOMAIN threads
      /\ Waiting(WithMain) = Waiting(threads)
      /\ WithMain[1].context = context
      /\ RunsOK(WithMain, 1, context, frame)
  BY <1>1, MainSaved
<1>3. threads' = WithMain /\ (saved' = saved \/ saved' = saved \cup {s})
      /\ UNCHANGED <<next_tid, active_tid, futicies, word, context, frame, holders, phase>>
      /\ phase = "live"
  BY DEF SaveState
<1>4. /\ s.threads = WithMain /\ s.next_tid = next_tid /\ s.futicies = futicies
      /\ s.word = word /\ s.frame = frame /\ s.holders = holders
  BY Zenon
<1> HIDE DEF s
<1>5. SavedOK(s)
  BY <1>1, <1>2, <1>4, Zenon DEF SavedOK, MachineOK, Live
<1>6. \A x \in saved' : SavedOK(x)
  BY <1>3, <1>5 DEF Inv
<1>7. Scheduled(threads', next_tid, frame)
  BY <1>1, <1>2, <1>3, Continues
<1>8. /\ QueuesOK(Waiting(threads'), futicies')
      /\ LocksOK(DOMAIN threads', futicies', word', holders')
  BY <1>1, <1>2, <1>3, Zenon DEF Live
<1>9. QED
  BY <1>3, <1>6, <1>7, <1>8, GoesSaved, Zenon

(* What was saved in order is loaded in order.                             *)
LEMMA LoadStateKeeps ==
  ASSUME Inv, NEW s \in saved, LoadState(s)
  PROVE  Inv'
<1>1. /\ TableOK(s.threads, s.next_tid, s.frame)
      /\ QueuesOK(Waiting(s.threads), s.futicies)
      /\ LocksOK(DOMAIN s.threads, s.futicies, s.word, s.holders)
      /\ RunsOK(s.threads, 1, s.threads[1].context, s.frame)
  BY Zenon DEF Inv, SavedOK, MachineOK
<1>2. Scheduled(s.threads, s.next_tid, s.frame)
  BY <1>1, Continues DEF LoadState
<1>3. /\ next_tid' = s.next_tid /\ frame' = s.frame /\ futicies' = s.futicies
      /\ word' = s.word /\ holders' = s.holders /\ saved' = saved
  BY DEF LoadState
<1>4. QED
  BY <1>1, <1>2, <1>3, Goes, Zenon

(* A broken machine.                                                       *)
LEMMA Breaks ==
  ASSUME Inv, PartsOK', phase' = "broken", saved' = saved
  PROVE  Inv'
<1>1. \A s \in saved' : SavedOK(s)
  BY DEF Inv
<1>2. QED
  BY <1>1, Zenon DEF Inv

(* What a failed load leaves has its types.                                *)
LEMMA LoadStateFailsKeeps ==
  ASSUME Inv, NEW s \in saved, LoadStateFails(s)
  PROVE  Inv'
<1>1. /\ s.threads \in [DOMAIN s.threads -> Thread] /\ DOMAIN s.threads \subseteq Tids
      /\ s.next_tid \in 2 .. MaxTid + 1 /\ s.futicies \in Queues
      /\ s.word \in [Addrs -> WordRecord]
  BY DEF Inv, SavedOK, MachineOK, TableOK, QueuesOK, LocksOK
<1>2. PartsOK /\ UNCHANGED <<active_tid, context>> /\ word' = s.word
  BY Zenon DEF Inv, LoadStateFails
<1> SUFFICES PartsOK'
  BY Breaks DEF LoadStateFails
<1>3. CASE next_tid' \in {next_tid, s.next_tid} /\ UNCHANGED <<threads, futicies>>
  BY <1>1, <1>2, <1>3 DEF PartsOK
<1>4. CASE /\ next_tid' = s.next_tid /\ UNCHANGED futicies
           /\ \E n \in 0 .. MaxTid :
                threads' = [t \in {u \in DOMAIN s.threads : u <= n} |-> s.threads[t]]
  BY <1>1, <1>2, <1>4 DEF PartsOK
<1>5. CASE /\ next_tid' = s.next_tid /\ threads' = s.threads
           /\ \E done \in SUBSET Addrs, part \in Addrs : \E n \in 0 .. Len(s.futicies[part]) :
                futicies' = [a \in Addrs |-> IF a \in done THEN s.futicies[a]
                                            ELSE IF a = part THEN SubSeq(s.futicies[a], 1, n)
                                            ELSE <<>>]
  <2>1. PICK done \in SUBSET Addrs, part \in Addrs : \E n \in 0 .. Len(s.futicies[part]) :
               futicies' = [a \in Addrs |-> IF a \in done THEN s.futicies[a]
                                           ELSE IF a = part THEN SubSeq(s.futicies[a], 1, n)
                                           ELSE <<>>]
    BY <1>5
  <2>2. PICK n \in 0 .. Len(s.futicies[part]) :
               futicies' = [a \in Addrs |-> IF a \in done THEN s.futicies[a]
                                           ELSE IF a = part THEN SubSeq(s.futicies[a], 1, n)
                                           ELSE <<>>]
    BY <2>1
  <2> DEFINE q == s.futicies[part]
  <2>3. q \in Seq(Tids) /\ Len(q) \in Nat
    BY <1>1 DEF Queues
  <2>4. SubSeq(q, 1, n) \in Seq(Tids)
    <3> HIDE DEF q
    <3>1. 1 \in Nat \ {0} /\ n \in Nat /\ 1 <= n + 1 /\ n <= Len(q)
      BY <2>3 DEF q
    <3>2. QED
      BY <2>3, <3>1, PartIs
  <2>5. futicies' \in Queues
    <3>1. ASSUME NEW a \in Addrs PROVE futicies'[a] \in Seq(Tids)
      <4>1. futicies'[a] = IF a \in done THEN s.futicies[a]
                           ELSE IF a = part THEN SubSeq(q, 1, n) ELSE <<>>
        BY <2>2
      <4>2. s.futicies[a] \in Seq(Tids) /\ <<>> \in Seq(Tids)
        BY <1>1 DEF Queues
      <4> DEFINE p == SubSeq(q, 1, n)
      <4>3. p \in Seq(Tids)
        BY <2>4
      <4> HIDE DEF p, q
      <4>4. QED
        BY <4>1, <4>2, <4>3 DEF p
    <3>2. futicies' = [a \in Addrs |-> futicies'[a]]
      BY <2>2
    <3>3. QED
      BY <3>1, <3>2 DEF Queues
  <2>6. QED
    BY <1>1, <1>2, <1>5, <2>5 DEF PartsOK
<1>6. QED
  BY <1>3, <1>4, <1>5, Zenon DEF LoadStateFails

(* So has what a refused load leaves.                                      *)
LEMMA LoadStateHijackedKeeps ==
  ASSUME Inv, NEW s \in saved, LoadStateHijacked(s)
  PROVE  Inv'
<1>1. s.word \in [Addrs -> WordRecord]
  BY Zenon DEF Inv, SavedOK, MachineOK, LocksOK
<1>2. PartsOK'
  BY <1>1 DEF Inv, PartsOK, LoadStateHijacked
<1>3. QED
  BY <1>2, Breaks, Zenon DEF LoadStateHijacked

-----------------------------------------------------------------------------
(* The invariant.                                                          *)

(* The invariant holds at the start.                                       *)
LEMMA ThreadsInit ==
  ASSUME Init
  PROVE  Inv
<1> DEFINE r == [state |-> "RUNNABLE", context |-> 0, tid_address |-> NoAddr]
<1>1. r \in Thread /\ r.state = "RUNNABLE" /\ r.context = 0
  BY ThreadsAssumption DEF Thread
<1>2. Word(0, FALSE) \in WordRecord /\ Word(0, FALSE).val = 0 /\ Word(0, FALSE).waiters = FALSE
  BY WordIs, Zenon
<1>3. threads = [t \in {1} |-> r]
  BY DEF Init
<1> HIDE DEF r
<1>4. 1 \in Tids /\ 2 \in 2 .. MaxTid + 1
  BY ThreadsAssumption DEF Tids
<1>5. TableOK(threads, next_tid, frame)
  <2>1. WellOrdered(DOMAIN threads)
    BY <1>3, OneIsOrdered
  <2>2. QED
    BY <1>1, <1>3, <1>4, <2>1, ThreadsAssumption DEF TableOK, Init, FirstTid
<1>6. Waiting(threads) = {}
  BY <1>1, <1>3 DEF Waiting
<1>7. futicies \in Queues /\ \A a \in Addrs : futicies[a] = <<>>
  BY SMTT(30) DEF Init, Queues
<1>8. QueuesOK({}, futicies)
  <2>1. PlacesOf(futicies) = {}
    BY <1>7 DEF PlacesOf
  <2>2. QED
    BY <1>7, <2>1 DEF QueuesOK
<1>9. word \in [Addrs -> WordRecord] /\ \A a \in Locks : word[a] = Word(0, FALSE)
  BY <1>2, Zenon DEF Init, Addrs
<1>10. LocksOK(DOMAIN threads, futicies, word, holders)
  <2>1. holders \in [Locks -> SUBSET Tids] /\ \A a \in Locks : holders[a] = {}
    BY DEF Init
  <2>2. ASSUME NEW a \in Locks PROVE LockOK(a, DOMAIN threads, futicies, word, holders)
    <3>1. word[a].val = 0 /\ word[a].waiters = FALSE /\ holders[a] = {} /\ futicies[a] = <<>>
      BY <1>2, <1>7, <1>9, <2>1, Zenon DEF Addrs
    <3>2. \A i \in 1 .. Len(futicies[a]) : futicies[a][i] # word[a].val
      BY <3>1
    <3>3. QED
      BY <3>1, <3>2, Zenon DEF LockOK
  <2>3. QED
    BY <1>9, <2>1, <2>2 DEF LocksOK
<1>11. RunsOK(threads, active_tid, context, frame)
  BY <1>1, <1>3 DEF RunsOK, Runnable, Init
<1>12. PartsOK
  BY <1>4, <1>5, <1>7, <1>9, ThreadsAssumption, Zenon DEF PartsOK, TableOK, Init
<1>13. QED
  BY <1>5, <1>6, <1>8, <1>10, <1>11, <1>12, Zenon DEF Inv, MachineOK, Init

(* Every step preserves it.                                                *)
LEMMA ThreadsStep ==
  ASSUME Inv, [Next]_vars
  PROVE  Inv'
<1>1. CASE ThreadCalls
  BY <1>1, SpawnKeeps, ExitKeeps, SetTidAddressKeeps, YieldKeeps DEF ThreadCalls
<1>2. CASE FutexCalls
  <2>1. 0 .. MaxTid \subseteq Nat
    BY ThreadsAssumption
  <2>2. QED
    BY <1>2, <2>1, FutexWaitKeeps, FutexRequeueKeeps, FutexLockPiKeeps, FutexUnlockPiKeeps, Zenon
    DEF FutexCalls
<1>3. CASE Guest
  BY <1>3, RunKeeps, StoreKeeps, FastLockKeeps, FastUnlockKeeps DEF Guest
<1>4. CASE States
  BY <1>4, SaveStateKeeps, LoadStateKeeps, LoadStateFailsKeeps, LoadStateHijackedKeeps, Zenon DEF States
<1>5. CASE UNCHANGED vars
  BY <1>5 DEF vars, Inv, PartsOK
<1>6. QED
  BY <1>1, <1>2, <1>3, <1>4, <1>5 DEF Next

(* The machine, and each savestate of it, is in order in every state, in   *)
(* the sense of Inv above.                                                 *)
THEOREM ThreadsInvariance == Spec => []Inv
<1>1. Init => Inv
  BY ThreadsInit
<1>2. Inv /\ [Next]_vars => Inv'
  BY ThreadsStep
<1>3. QED
  BY <1>1, <1>2, PTL DEF Spec

(* The type of the state of threading.c, for any number of threads; a      *)
(* thread id is not given out while a thread has it.                       *)
THEOREM ThreadsTypes == Spec => []TypeOK
<1>1. Inv => TypeOK
  <2> SUFFICES ASSUME Inv PROVE TypeOK
    OBVIOUS
  <2>1. phase # "broken" => \A t \in DOMAIN threads : t < next_tid
    BY DEF Inv, MachineOK, TableOK
  <2>2. \A a \in Addrs : word[a].val \in Tids \cup Stores \cup {0} /\ word[a].waiters \in BOOLEAN
    <3>1. \A a \in Addrs : word[a] \in WordRecord
      BY DEF Inv, PartsOK
    <3>2. QED
      BY <3>1, Zenon DEF WordRecord
  <2>3. QED
    BY <2>1, <2>2 DEF Inv, PartsOK, TypeOK, Queues
<1>2. QED
  BY <1>1, ThreadsInvariance, PTL

(* Whoever runs can run and has its own registers, and so will every other *)
(* thread (swap_to, and the savestates' main thread).                      *)
THEOREM RegistersStayOwn == Spec => []OwnRegisters
<1>1. Inv => OwnRegisters
  BY Zenon DEF Inv, RunsOK, OwnRegisters
<1>2. QED
  BY <1>1, ThreadsInvariance, PTL

(* A PI lock has at most one holder, the thread its word names             *)
(* (mb_threads_futex_lock_pi, mb_threads_futex_unlock_pi and musl's        *)
(* compare-and-swap), for any number of threads and locks.                 *)
THEOREM LocksExclude == Spec => []MutualExclusion
<1>1. Inv => MutualExclusion
  BY Zenon DEF Inv, MachineOK, LocksOK, LockOK, MutualExclusion
<1>2. QED
  BY <1>1, ThreadsInvariance, PTL

(* While somebody waits for a PI lock, its word says so and names a living *)
(* holder that is not itself waiting for it.                               *)
THEOREM WaitersStayServed == Spec => []WaitersAreServed
<1>1. Inv => WaitersAreServed
  <2> SUFFICES ASSUME Inv, phase = "live", NEW a \in Locks
               PROVE  /\ word[a].waiters <=> futicies[a] # <<>>
                      /\ futicies[a] # <<>> => word[a].val \in DOMAIN threads \ Range(futicies[a])
    BY Zenon DEF WaitersAreServed
  <2>1. LockOK(a, DOMAIN threads, futicies, word, holders) /\ futicies[a] \in Seq(Tids)
    BY DEF Inv, MachineOK, LocksOK, PartsOK, Queues, Addrs
  <2>2. word[a].waiters <=> futicies[a] # <<>>
    BY <2>1, Zenon DEF LockOK
  <2>3. DOMAIN futicies[a] = 1 .. Len(futicies[a])
    BY <2>1, SMTT(30)
  <2>4. word[a].val \notin Range(futicies[a])
    BY <2>1, <2>3 DEF LockOK, Range
  <2>5. futicies[a] # <<>> => word[a].val \in DOMAIN threads
    BY <2>1, Zenon DEF LockOK
  <2>6. QED
    BY <2>2, <2>4, <2>5, ZenonT(30)
<1>2. QED
  BY <1>1, ThreadsInvariance, PTL

(* A sleeping thread has exactly one place in all the queues, a thread     *)
(* that can run has none, and only living threads are queued (futex_queue  *)
(* and gthread.state), for any number of threads and words.                *)
THEOREM SleepersStayQueued == Spec => []SleepersAreQueued
<1>1. Inv => SleepersAreQueued
  <2> SUFFICES ASSUME Inv, phase # "broken" PROVE SleepersAreQueued
    BY DEF SleepersAreQueued
  <2>1. QueuesOK(Waiting(threads), futicies) /\ futicies \in [Addrs -> Seq(Tids)]
    BY Zenon DEF Inv, MachineOK, QueuesOK, Queues
  <2>2. \A t : Places(t) = {p \in PlacesOf(futicies) : At(futicies, p) = t}
    <3>1. \A a \in Addrs : DOMAIN futicies[a] = 1 .. Len(futicies[a]) /\ Len(futicies[a]) \in Nat
      BY <2>1
    <3>2. QED
      BY <3>1, SMTT(30) DEF Places, PlacesOf, At
  <2>3. ASSUME NEW t \in DOMAIN threads, threads[t].state = "WAITING"
        PROVE  \E p \in Places(t) : Places(t) = {p}
    <3>1. PICK p \in PlacesOf(futicies) : At(futicies, p) = t
      BY <2>1, <2>3 DEF QueuesOK, Waiting
    <3>2. Places(t) = {p}
      BY <2>1, <2>2, <3>1, Zenon DEF QueuesOK
    <3>3. QED
      BY <3>2
  <2>4. ASSUME NEW t \in DOMAIN threads, threads[t].state # "WAITING"
        PROVE  Places(t) = {}
    BY <2>1, <2>2, <2>4 DEF QueuesOK, Waiting
  <2>5. ASSUME NEW a \in Addrs PROVE Range(futicies[a]) \subseteq DOMAIN threads
    <3>1. ASSUME NEW i \in DOMAIN futicies[a] PROVE futicies[a][i] \in DOMAIN threads
      <4>1. <<a, i>> \in PlacesOf(futicies) /\ At(futicies, <<a, i>>) = futicies[a][i]
        BY <2>1 DEF PlacesOf, At
      <4>2. QED
        BY <2>1, <4>1 DEF QueuesOK, Waiting
    <3>2. QED
      BY <3>1 DEF Range
  <2>6. QED
    BY <2>3, <2>4, <2>5 DEF SleepersAreQueued
<1>2. QED
  BY <1>1, ThreadsInvariance, PTL

-----------------------------------------------------------------------------
(* First come, first served.                                               *)

(* Whoever is runnable in th has, in each queue, only runnable threads     *)
(* before it.                                                              *)
InOrder(th) ==
  \A a \in Addrs : \A i, j \in DOMAIN futicies[a] :
    i < j /\ futicies[a][j] \in Runnable(th) => futicies[a][i] \in Runnable(th)

(* Whoever is new in the queue q comes behind those of the queue old.      *)
Behind(old, q) ==
  \A i, j \in DOMAIN q : q[i] \notin Range(old) /\ q[j] \in Range(old) => j < i

(* Everybody in a queue sleeps, and is in one place.                       *)
LEMMA Queued ==
  ASSUME Live
  PROVE  /\ \A a \in Addrs : DOMAIN futicies[a] = 1 .. Len(futicies[a]) /\ Len(futicies[a]) \in Nat
         /\ \A a \in Addrs : \A i \in DOMAIN futicies[a] : futicies[a][i] \in Waiting(threads)
         /\ \A a, b \in Addrs : \A i \in DOMAIN futicies[a], j \in DOMAIN futicies[b] :
              futicies[a][i] = futicies[b][j] => a = b /\ i = j
<1>1. QueuesOK(Waiting(threads), futicies)
  BY DEF Live
<1>2. \A a \in Addrs : DOMAIN futicies[a] = 1 .. Len(futicies[a]) /\ Len(futicies[a]) \in Nat
  BY <1>1 DEF QueuesOK, Queues
<1>3. ASSUME NEW a \in Addrs, NEW i \in DOMAIN futicies[a]
      PROVE  <<a, i>> \in PlacesOf(futicies) /\ At(futicies, <<a, i>>) = futicies[a][i]
  BY <1>2 DEF PlacesOf, At
<1>4. ASSUME NEW a \in Addrs, NEW i \in DOMAIN futicies[a]
      PROVE  futicies[a][i] \in Waiting(threads)
  <2>1. <<a, i>> \in PlacesOf(futicies) /\ At(futicies, <<a, i>>) = futicies[a][i]
    BY <1>3
  <2>2. QED
    BY <1>1, <2>1 DEF QueuesOK
<1>5. ASSUME NEW a \in Addrs, NEW b \in Addrs, NEW i \in DOMAIN futicies[a],
             NEW j \in DOMAIN futicies[b], futicies[a][i] = futicies[b][j]
      PROVE  a = b /\ i = j
  <2>1. /\ <<a, i>> \in PlacesOf(futicies) /\ At(futicies, <<a, i>>) = futicies[a][i]
        /\ <<b, j>> \in PlacesOf(futicies) /\ At(futicies, <<b, j>>) = futicies[b][j]
    BY <1>3
  <2>2. <<a, i>> = <<b, j>>
    BY <1>1, <1>5, <2>1, Zenon DEF QueuesOK
  <2>3. QED
    BY <2>2
<1>6. QED
  BY <1>2, <1>4, <1>5

(* If only the first n threads of one queue can have been woken, and all   *)
(* of them were, then they were woken in order.                            *)
LEMMA WakesInOrder ==
  ASSUME Live, NEW from \in Addrs, NEW n \in Nat, n <= Len(futicies[from]), NEW th,
         \A t \in Waiting(threads) :
           t \in Runnable(th) => \E k \in 1 .. n : t = futicies[from][k],
         n <= 1 \/ \A k \in 1 .. n : futicies[from][k] \in Runnable(th)
  PROVE  InOrder(th)
<1> SUFFICES ASSUME NEW a \in Addrs, NEW i \in DOMAIN futicies[a], NEW j \in DOMAIN futicies[a],
                    i < j, futicies[a][j] \in Runnable(th)
             PROVE  futicies[a][i] \in Runnable(th)
  BY DEF InOrder
<1>1. \A b \in Addrs : DOMAIN futicies[b] = 1 .. Len(futicies[b]) /\ Len(futicies[b]) \in Nat
  BY Queued
<1>2. futicies[a][j] \in Waiting(threads)
  BY Queued
<1>3. PICK k \in 1 .. n : futicies[a][j] = futicies[from][k]
  BY <1>2
<1>4. k \in DOMAIN futicies[from]
  BY <1>1
<1>5. a = from /\ j = k
  BY <1>3, <1>4, Queued, Zenon
<1>6. i \in 1 .. n /\ ~(n <= 1)
  BY <1>1, <1>5
<1>7. QED
  BY <1>5, <1>6

(* Nobody is woken.                                                        *)
LEMMA NobodyWakes ==
  ASSUME Live, NEW th, \A t \in Waiting(threads) : t \notin Runnable(th)
  PROVE  InOrder(th)
BY Queued DEF InOrder

(* The queues stay as they are.                                            *)
LEMMA NobodyJoins ==
  ASSUME NEW q \in Seq(Tids)
  PROVE  Behind(q, q)
BY DEF Behind, Range

(* The states of the threads.                                              *)
LEMMA EitherState ==
  ASSUME NEW th, NEW t
  PROVE  ~(t \in Runnable(th) /\ t \in Waiting(th))
BY DEF Runnable, Waiting

(* A thread goes to sleep at the end of a queue.                           *)
LEMMA ParkServes ==
  ASSUME Live, phase = "live", NEW addr \in Addrs, park_me(addr)
  PROVE  InOrder(threads') /\ \A a \in Addrs : Behind(futicies[a], futicies'[a])
<1> DEFINE th == WithState(threads, {active_tid}, "WAITING")
<1>1. Waiting(threads') = Waiting(th)
  BY Parks, Zenon DEF Scheduled
<1>2. Waiting(th) = Waiting(threads) \cup {active_tid}
  BY Asleep DEF Live
<1> HIDE DEF th
<1>3. \A t \in Waiting(threads) : t \notin Runnable(threads')
  BY <1>1, <1>2, EitherState, Zenon
<1>4. InOrder(threads')
  BY <1>3, NobodyWakes, Zenon
<1>5. ASSUME NEW a \in Addrs PROVE Behind(futicies[a], futicies'[a])
  <2>1. futicies[a] \in Seq(Tids) /\ active_tid \in Tids
    BY DEF Live, Queues
  <2>2. CASE a # addr
    <3>1. futicies'[a] = futicies[a]
      BY <2>2 DEF park_me, Live, Queues
    <3>2. QED
      BY <2>1, <3>1, NobodyJoins
  <2>3. CASE a = addr
    <3> DEFINE q == futicies[a]
               r == Append(q, active_tid)
    <3>1. futicies'[a] = r
      BY <2>3 DEF park_me, Live, Queues
    <3>2. /\ DOMAIN r = 1 .. Len(q) + 1 /\ DOMAIN q = 1 .. Len(q) /\ Len(q) \in Nat
          /\ \A i \in 1 .. Len(q) : r[i] = q[i]
      BY <2>1
    <3> HIDE DEF q, r
    <3>3. ASSUME NEW i \in DOMAIN r, NEW j \in DOMAIN r, r[i] \notin Range(q), r[j] \in Range(q)
          PROVE  j < i
      <4>1. i \notin 1 .. Len(q) /\ i # j
        BY <3>2, <3>3, Zenon DEF Range
      <4>2. QED
        BY <3>2, <4>1
    <3>4. QED
      BY <3>1, <3>3, Zenon DEF Behind, q
  <2>4. QED
    BY <2>2, <2>3
<1>6. QED
  BY <1>4, <1>5, Zenon

(* The first waiter of a word is taken out of its queue.                   *)
LEMMA PopServes ==
  ASSUME Live, NEW addr \in Addrs, unpark_one(addr), NEW th,
         \A t \in Waiting(threads) \ FirstWaiter(addr) : t \notin Runnable(th)
  PROVE  InOrder(th) /\ \A a \in Addrs : Behind(futicies[a], futicies'[a])
<1>1. futicies \in [Addrs -> Seq(Tids)] /\ futicies[addr] \in Seq(Tids)
  BY DEF Live, Queues
<1>2. CASE futicies[addr] = <<>>
  <2>1. FirstWaiter(addr) = {}
    <3>1. DOMAIN futicies[addr] = {}
      BY <1>2
    <3>2. QED
      BY <3>1, Zenon DEF FirstWaiter
  <2>2. SubSeq(<<>>, 2, 0) = <<>>
    OBVIOUS
  <2>3. futicies' = futicies
    BY <1>1, <1>2, <2>2, Zenon DEF unpark_one
  <2>4. QED
    BY <1>1, <2>1, <2>3, NobodyWakes, NobodyJoins, Zenon
<1>3. CASE futicies[addr] # <<>>
  <2>1. Len(futicies[addr]) \in Nat /\ 1 <= Len(futicies[addr]) /\ 1 \in DOMAIN futicies[addr]
    BY <1>1, <1>3
  <2>2. FirstWaiter(addr) = {futicies[addr][1]}
    BY <2>1, Zenon DEF FirstWaiter
  <2>3. InOrder(th)
    <3>1. \A t \in Waiting(threads) : t \in Runnable(th) => \E k \in 1 .. 1 : t = futicies[addr][k]
      BY <2>2
    <3>2. QED
      BY <2>1, <3>1, WakesInOrder
  <2>4. ASSUME NEW a \in Addrs PROVE Behind(futicies[a], futicies'[a])
    <3>1. CASE a # addr
      <4>1. futicies'[a] = futicies[a] /\ futicies[a] \in Seq(Tids)
        BY <1>1, <3>1 DEF unpark_one
      <4>2. QED
        BY <4>1, NobodyJoins
    <3>2. CASE a = addr
      <4> DEFINE q == futicies[addr]
                 r == SubSeq(q, 2, Len(q))
      <4>1. futicies'[a] = r
        BY <1>1, <3>2 DEF unpark_one
      <4>2. r \in Seq(Tids) /\ Len(r) = Len(q) - 1 /\ \A i \in 1 .. Len(q) - 1 : r[i] = q[i + 1]
        BY <1>1, <1>3, RestIs
      <4> HIDE DEF r
      <4>3. ASSUME NEW i \in DOMAIN r PROVE r[i] \in Range(q)
        <5>1. i \in 1 .. Len(q) - 1 /\ i + 1 \in DOMAIN q
          BY <1>1, <2>1, <4>2
        <5>2. QED
          BY <4>2, <5>1, Zenon DEF Range
      <4>4. QED
        BY <3>2, <4>1, <4>3, Zenon DEF Behind
    <3>3. QED
      BY <3>1, <3>2
  <2>5. QED
    BY <2>3, <2>4
<1>4. QED
  BY <1>2, <1>3

(* A prefix of one queue is woken, and others go to the end of a queue.    *)
LEMMA RequeueServes ==
  ASSUME Live, NEW from \in Addrs, NEW to \in Addrs, NEW n \in Nat, NEW m \in Nat, NEW B \in Nat,
         Requeues(from, to, n, m, B)
  PROVE  InOrder(threads') /\ \A a \in Addrs : Behind(futicies[a], futicies'[a])
<1> DEFINE G == {futicies[from][i] : i \in 1 .. n}
<1>1. /\ futicies \in [Addrs -> Seq(Tids)] /\ futicies' \in [Addrs -> Seq(Tids)]
      /\ Requeued(futicies, futicies', from, to, n, m, B)
      /\ n <= Len(futicies[from]) /\ m <= Len(futicies[from]) - n
  BY Zenon DEF Live, Queues, Requeues
<1>2. \A a \in Addrs : /\ DOMAIN futicies[a] = 1 .. Len(futicies[a]) /\ Len(futicies[a]) \in Nat
                       /\ DOMAIN futicies'[a] = 1 .. Len(futicies'[a])
  BY <1>1
<1>3. InOrder(threads')
  <2>1. threads' = WithState(threads, G, "RUNNABLE")
    BY Zenon DEF Requeues
  <2>2. G \subseteq DOMAIN threads
    <3>1. \A i \in 1 .. n : i \in DOMAIN futicies[from]
      BY <1>1, <1>2
    <3>2. QED
      BY <3>1, Queued DEF Waiting
  <2>3. /\ Waiting(threads') = Waiting(threads) \ G
        /\ \A t \in G : t \in Runnable(threads')
    <3> HIDE DEF G
    <3>1. TableOK(threads, next_tid, frame)
      BY DEF Live
    <3>2. QED
      BY <2>1, <2>2, <3>1, Woken
  <2>4. \A t \in Waiting(threads) : t \in Runnable(threads') => \E k \in 1 .. n : t = futicies[from][k]
    BY <2>3, EitherState, Zenon
  <2>5. QED
    BY <1>1, <2>3, <2>4, WakesInOrder, Zenon
<1>4. ASSUME NEW a \in Addrs PROVE Behind(futicies[a], futicies'[a])
  <2>1. CASE a # from /\ a # to
    BY <1>1, <2>1, NobodyJoins DEF Requeued
  <2>2. CASE a = from /\ a # to
    <3>1. ASSUME NEW i \in DOMAIN futicies'[a] PROVE futicies'[a][i] \in Range(futicies[a])
      <4>1. i \in 1 .. Len(futicies[from]) - n - m /\ n + m + i \in DOMAIN futicies[a]
        <5>1. Len(futicies'[from]) = Len(futicies[from]) - n - m
          BY <1>1, <2>2, Zenon DEF Requeued
        <5>2. QED
          BY <1>1, <1>2, <2>2, <5>1
      <4>2. futicies'[a][i] = futicies[a][n + m + i]
        BY <1>1, <2>2, <4>1, Zenon DEF Requeued
      <4>3. QED
        BY <4>1, <4>2 DEF Range
    <3>2. QED
      BY <3>1, Zenon DEF Behind
  <2>3. CASE a = to /\ from # to
    <3>1. ASSUME NEW i \in DOMAIN futicies'[a], i <= Len(futicies[a])
          PROVE  futicies'[a][i] \in Range(futicies[a])
      <4>1. i \in DOMAIN futicies[a] /\ futicies'[a][i] = futicies[a][i]
        BY <1>1, <1>2, <2>3, <3>1 DEF Requeued
      <4>2. QED
        BY <4>1 DEF Range
    <3>2. ASSUME NEW i \in DOMAIN futicies'[a], ~(i <= Len(futicies[a]))
          PROVE  futicies'[a][i] \notin Range(futicies[a])
      <4>1. i \in B + 1 .. B + m /\ B = Len(futicies[to]) /\ n + (i - B) \in DOMAIN futicies[from]
        BY <1>1, <1>2, <2>3, <3>2 DEF Requeued
      <4>2. futicies'[a][i] = futicies[from][n + (i - B)]
        BY <1>1, <2>3, <4>1, Zenon DEF Requeued
      <4>3. \A k \in DOMAIN futicies[a] : futicies[a][k] # futicies[from][n + (i - B)]
        BY <2>3, <4>1, Queued, Zenon
      <4>4. QED
        BY <4>2, <4>3, Zenon DEF Range
    <3>3. \A k \in Nat : \A i, j \in DOMAIN futicies'[a] : ~(i <= k) /\ j <= k => j < i
      BY <1>2
    <3>4. Len(futicies[a]) \in Nat
      BY <1>2, Zenon
    <3>5. QED
      BY <3>1, <3>2, <3>3, <3>4, Zenon DEF Behind
  <2>4. CASE a = from /\ from = to
    <3>1. ASSUME NEW i \in DOMAIN futicies'[a] PROVE futicies'[a][i] \in Range(futicies[a])
      <4> DEFINE k == IF i <= B THEN n + m + i ELSE n + (i - B)
      <4>1. k \in DOMAIN futicies[a] /\ futicies'[a][i] = futicies[a][k]
        BY <1>1, <1>2, <2>4 DEF Requeued
      <4>2. QED
        BY <4>1, Zenon DEF Range
    <3>2. QED
      BY <3>1, Zenon DEF Behind
  <2>5. QED
    BY <2>1, <2>2, <2>3, <2>4, Zenon
<1>5. QED
  BY <1>3, <1>4, Zenon

Serves == InOrder(threads') /\ \A a \in Addrs : Behind(futicies[a], futicies'[a])

(* The queues stay, and whoever sleeps goes on sleeping.                   *)
LEMMA NobodyServed ==
  ASSUME Live, futicies' = futicies, \A t \in Waiting(threads) : t \in Waiting(threads')
  PROVE  Serves
<1>1. \A a \in Addrs : futicies[a] \in Seq(Tids)
  BY DEF Live, Queues
<1>2. \A t \in Waiting(threads) : t \notin Runnable(threads')
  BY EitherState, Zenon
<1>3. QED
  BY <1>1, <1>2, NobodyWakes, NobodyJoins DEF Serves

(* The calls about threads.                                                *)
LEMMA ThreadCallServes ==
  ASSUME Live, phase = "live", phase' = "live", ThreadCalls
  PROVE  Serves
<1>1. ASSUME NEW c, NEW addr, Spawn(c, addr) PROVE Serves
  <2>1. futicies' = futicies /\ \A t \in Waiting(threads) : t \in DOMAIN threads' /\ threads'[t] = threads[t]
    BY <1>1 DEF Spawn, With, Live, TableOK, Waiting
  <2>2. QED
    BY <2>1, NobodyServed, Zenon DEF Waiting
<1>2. CASE Exit
  <2> DEFINE addr == threads[active_tid].tid_address
             th == IF addr = NoAddr THEN threads ELSE Unparked(addr)
  <2>1. /\ threads' = Without(th, active_tid)
        /\ IF addr = NoAddr THEN futicies' = futicies ELSE unpark_one(addr)
    BY <1>2, Zenon DEF Exit
  <2>2. addr \in Plain \cup {NoAddr}
    BY DEF Live, TableOK, Thread
  <2> HIDE DEF addr
  <2>3. CASE addr = NoAddr
    <3>1. \A t \in Waiting(threads) : t \in Waiting(threads')
      BY <2>1, <2>3, Zenon DEF Without, Waiting, Live
    <3>2. QED
      BY <2>1, <2>3, <3>1, NobodyServed, ZenonT(30)
  <2>4. CASE addr # NoAddr
    <3>1. addr \in Addrs /\ unpark_one(addr) /\ threads' = Without(Unparked(addr), active_tid)
      BY <2>1, <2>2, <2>4 DEF Addrs
    <3>2. Waiting(Unparked(addr)) = Waiting(threads) \ FirstWaiter(addr)
      BY Woken, Zenon DEF Live, Unparked
    <3>3. \A t \in Waiting(threads) \ FirstWaiter(addr) : t \in Waiting(threads')
      <4> DEFINE u == Unparked(addr)
      <4> HIDE DEF u
      <4>1. Waiting(u) = Waiting(threads) \ FirstWaiter(addr) /\ threads' = Without(u, active_tid)
        BY <3>1, <3>2 DEF u
      <4>2. QED
        BY <4>1, Zenon DEF Without, Waiting, Live
    <3>4. \A t \in Waiting(threads) \ FirstWaiter(addr) : t \notin Runnable(threads')
      BY <3>3, EitherState, Zenon
    <3>5. QED
      BY <3>1, <3>4, PopServes, Zenon DEF Serves
  <2>5. QED
    BY <2>3, <2>4
<1>3. ASSUME NEW addr, SetTidAddress(addr) PROVE Serves
  <2>1. futicies' = futicies /\ \A t \in Waiting(threads) : t \in DOMAIN threads' /\ threads'[t] = threads[t]
    BY <1>3 DEF SetTidAddress, Live, Waiting
  <2>2. QED
    BY <2>1, NobodyServed DEF Waiting
<1>4. CASE Yield
  <2>1. swap_to_next(threads) /\ futicies' = futicies
    BY <1>4, Zenon DEF Yield
  <2>2. Waiting(threads') = Waiting(threads)
    BY <2>1, SwapToNext DEF Scheduled, Live
  <2>3. QED
    BY <2>1, <2>2, NobodyServed
<1>5. QED
  BY <1>1, <1>2, <1>3, <1>4, Zenon DEF ThreadCalls

(* The calls about futexes.                                                *)
LEMMA FutexCallServes ==
  ASSUME Live, phase = "live", FutexCalls
  PROVE  Serves
<1>1. ASSUME NEW addr \in Plain, NEW v, FutexWait(addr, v) PROVE Serves
  <2>1. addr \in Addrs /\ park_me(addr)
    BY <1>1 DEF FutexWait, Addrs
  <2>2. QED
    BY <2>1, ParkServes, Zenon DEF Serves
<1>2. ASSUME NEW from \in Plain, NEW to \in Plain, NEW wake \in 0 .. MaxTid,
             NEW requeue \in 0 .. MaxTid, FutexRequeue(from, to, wake, requeue)
      PROVE  Serves
  <2>1. wake \in Nat /\ requeue \in Nat /\ from \in Addrs /\ to \in Addrs
    BY ThreadsAssumption DEF Addrs
  <2>2. PICK n, m, B \in Nat : Requeues(from, to, n, m, B)
    BY <1>2, <2>1, RequeueIs
  <2>3. QED
    BY <2>1, <2>2, RequeueServes, Zenon DEF Serves
<1>3. ASSUME NEW addr \in Locks, FutexLockPi(addr) PROVE Serves
  <2>1. addr \in Addrs
    BY DEF Addrs
  <2>2. CASE word[addr] = Word(0, FALSE)
    <3>1. threads' = threads /\ futicies' = futicies
      BY <1>3, <2>2, Zenon DEF FutexLockPi
    <3>2. QED
      BY <3>1, NobodyServed
  <2>3. CASE word[addr] # Word(0, FALSE)
    <3>1. park_me(addr)
      BY <1>3, <2>3, Zenon DEF FutexLockPi
    <3>2. QED
      BY <2>1, <3>1, ParkServes, Zenon DEF Serves
  <2>4. QED
    BY <2>2, <2>3, Zenon
<1>4. ASSUME NEW addr \in Locks, FutexUnlockPi(addr) PROVE Serves
  <2>1. addr \in Addrs
    BY DEF Addrs
  <2>2. CASE futicies[addr] = <<>>
    <3>1. threads' = threads /\ futicies' = futicies
      BY <1>4, <2>2, Zenon DEF FutexUnlockPi
    <3>2. QED
      BY <3>1, NobodyServed
  <2>3. CASE futicies[addr] # <<>>
    <3> DEFINE th == Unparked(addr)
    <3>1. unpark_one(addr) /\ swap_to(th, Head(futicies[addr]))
      BY <1>4, <2>3, Zenon DEF FutexUnlockPi
    <3>2. Waiting(th) = Waiting(threads) \ FirstWaiter(addr)
      BY Woken DEF Live, Unparked
    <3>3. TableOK(th, next_tid, frame)
      BY <2>1, Unparks, Zenon
    <3> HIDE DEF th
    <3>4. \A t \in Waiting(th) : t \in Waiting(threads')
      <4>1. DOMAIN threads' = DOMAIN th /\ \A t \in DOMAIN th : threads'[t].state = th[t].state
        <5>1. \A t \in DOMAIN th : th[t] \in Thread
          BY <3>3 DEF TableOK
        <5>2. QED
          BY <3>1, <5>1 DEF swap_to, Thread
      <4>2. QED
        BY <4>1 DEF Waiting
    <3>5. \A t \in Waiting(threads) \ FirstWaiter(addr) : t \notin Runnable(threads')
      BY <3>2, <3>4, EitherState, Zenon
    <3>6. QED
      BY <2>1, <3>1, <3>5, PopServes, Zenon DEF Serves
  <2>4. QED
    BY <2>2, <2>3
<1>5. QED
  BY <1>1, <1>2, <1>3, <1>4, Zenon DEF FutexCalls

(* The other steps neither wake anybody nor change a queue, but for loads. *)
LEMMA OtherServes ==
  ASSUME Live, Guest \/ SaveState \/ UNCHANGED vars
  PROVE  Serves
<1>1. CASE Guest \/ UNCHANGED vars
  <2>1. threads' = threads /\ futicies' = futicies
    BY <1>1, Zenon DEF Guest, Run, Store, FastLock, FastUnlock, vars
  <2>2. QED
    BY <2>1, NobodyServed
<1>2. CASE SaveState
  <2>1. threads' = WithMain /\ futicies' = futicies
    BY <1>2, Zenon DEF SaveState
  <2>2. \A t \in DOMAIN threads : threads[t] \in Thread
    BY DEF Live, TableOK
  <2>3. DOMAIN threads' = DOMAIN threads /\ \A t \in DOMAIN threads : threads'[t].state = threads[t].state
    BY <2>1, <2>2 DEF WithMain, Thread
  <2>4. QED
    BY <2>1, <2>3, NobodyServed DEF Waiting
<1>3. QED
  BY <1>1, <1>2

(* Only a live machine takes a step to a live one.                         *)
LEMMA WasLive ==
  ASSUME [Next]_vars, phase' = "live"
  PROVE  phase = "live"
<1>1. CASE ThreadCalls
  BY <1>1, Zenon DEF ThreadCalls, Spawn, Exit, SetTidAddress, Yield
<1>2. CASE FutexCalls
  <2>1. ASSUME NEW from, NEW to, NEW wake, NEW requeue, FutexRequeue(from, to, wake, requeue)
        PROVE  phase = "live"
    BY <2>1, Zenon DEF FutexRequeue
  <2>2. ASSUME NEW addr, FutexLockPi(addr) \/ FutexUnlockPi(addr) PROVE phase = "live"
    BY <2>2, Zenon DEF FutexLockPi, FutexUnlockPi
  <2>3. QED
    BY <1>2, <2>1, <2>2, Zenon DEF FutexCalls, FutexWait
<1>3. CASE Guest
  BY <1>3, Zenon DEF Guest, Run, Store, FastLock, FastUnlock
<1>4. CASE States
  BY <1>4, Zenon DEF States, SaveState, LoadState, LoadStateFails, LoadStateHijacked
<1>5. CASE UNCHANGED vars
  BY <1>5 DEF vars
<1>6. QED
  BY <1>1, <1>2, <1>3, <1>4, <1>5 DEF Next

(* First come, first served, for any number of threads and words: a call   *)
(* wakes the threads of a queue in order, and who joins a queue joins it   *)
(* behind those in it (FIFO futex_queue, mb_threads_futex_requeue and the  *)
(* hand-over of PI locks included).                                        *)
THEOREM FirstServed == Spec => NoOvertaking
<1> DEFINE Fair ==
      phase' = "live" /\ (\A s \in saved : ~LoadState(s)) =>
       \A a \in Addrs :
         LET old == futicies[a]
             new == futicies'[a]
         IN  /\ \A i, j \in DOMAIN old :
                  i < j /\ old[j] \in Runnable(threads') => old[i] \in Runnable(threads')
             /\ \A i, j \in DOMAIN new :
                  new[i] \notin Range(old) /\ new[j] \in Range(old) => j < i
<1>1. Inv /\ [Next]_vars => Fair
  <2> SUFFICES ASSUME Inv, [Next]_vars, phase' = "live", \A s \in saved : ~LoadState(s)
               PROVE  Serves
    BY Zenon DEF Serves, InOrder, Behind
  <2>1. phase = "live"
    BY WasLive
  <2>2. Live
    BY <2>1, InvLive
  <2>3. CASE States
    <3>1. ASSUME NEW s, LoadStateFails(s) \/ LoadStateHijacked(s) PROVE phase' = "broken"
      BY <3>1, Zenon DEF LoadStateFails, LoadStateHijacked
    <3>2. SaveState
      BY <2>3, <3>1 DEF States
    <3>3. QED
      BY <2>2, <3>2, OtherServes
  <2>4. QED
    BY <2>1, <2>2, <2>3, ThreadCallServes, FutexCallServes, OtherServes, Zenon DEF Next
<1>2. Spec => [][Fair]_vars
  BY <1>1, ThreadsInvariance, PTL DEF Spec
<1>3. QED
  BY <1>2 DEF NoOvertaking

-----------------------------------------------------------------------------
(* Turns.                                                                  *)

(* The search for the next thread does not pass over thread t.             *)
LEMMA NextIsCloser ==
  ASSUME NEW th, NEW nt, NEW fr, TableOK(th, nt, fr), active_tid \in Tids,
         NEW t \in Runnable(th), t # active_tid, active_tid' = NextRunnable(th)
  PROVE  active_tid' # active_tid /\ Away(t)' < Away(t)
<1> DEFINE n == NextRunnable(th)
           above == {u \in Runnable(th) : u > active_tid}
<1>1. /\ WellOrdered(DOMAIN th)
      /\ Runnable(th) \in SUBSET DOMAIN th /\ above \in SUBSET DOMAIN th
  BY DEF TableOK, Runnable
<1>2. \A u \in Runnable(th) : u \in 1 .. MaxTid
  BY DEF TableOK, Runnable, Tids
<1>3. active_tid \in 1 .. MaxTid /\ MaxTid \in Nat /\ t \in 1 .. MaxTid
  BY <1>2, ThreadsAssumption DEF Tids
<1>4. CASE above # {}
  <2>1. n = Min(above)
    BY <1>4, Zenon DEF NextRunnable
  <2>2. n \in above /\ \A y \in above : n <= y
    BY <1>1, <1>4, <2>1, MinIs, Zenon
  <2>3. n \in 1 .. MaxTid /\ n > active_tid /\ (t > active_tid => n <= t)
    BY <1>2, <2>2
  <2> HIDE DEF n
  <2>4. active_tid' = n
    BY DEF n
  <2>5. QED
    BY <1>3, <2>3, <2>4 DEF Away
<1>5. CASE above = {}
  <2>1. n = Min(Runnable(th))
    BY <1>5, Zenon DEF NextRunnable
  <2>2. n \in Runnable(th) /\ n <= t
    BY <1>1, <2>1, MinIs, Zenon
  <2>3. n \in 1 .. MaxTid /\ ~(t > active_tid)
    BY <1>2, <1>5, <2>2
  <2> HIDE DEF n
  <2>4. active_tid' = n
    BY DEF n
  <2>5. QED
    BY <1>3, <2>2, <2>3, <2>4 DEF Away
<1>6. QED
  BY <1>4, <1>5

(* Neither does swap_to_next, which finds a thread to go to.               *)
LEMMA SwapIsCloser ==
  ASSUME NEW th, NEW nt, NEW fr, TableOK(th, nt, fr), active_tid \in Tids,
         NEW t \in Runnable(th), t # active_tid, swap_to_next(th)
  PROVE  active_tid' # active_tid /\ Away(t)' < Away(t)
<1>1. active_tid' = NextRunnable(th)
  BY Zenon DEF swap_to_next, swap_to
<1>2. QED
  BY <1>1, NextIsCloser

(* Parking.                                                                *)
LEMMA ParkIsCloser ==
  ASSUME Live, NEW addr, park_me(addr), NEW t \in Runnable(threads), t # active_tid
  PROVE  Away(t)' < Away(t)
<1> DEFINE th == WithState(threads, {active_tid}, "WAITING")
<1>1. TableOK(threads, next_tid, frame) /\ active_tid \in Tids /\ t \in DOMAIN threads /\ threads[t].state = "RUNNABLE"
  BY Zenon DEF Live, Runnable
<1>2. TableOK(th, next_tid, frame) /\ DOMAIN th = DOMAIN threads /\ th[t].state = threads[t].state
  BY <1>1, StatesChange
<1>3. swap_to_next(th)
  BY Zenon DEF park_me
<1> HIDE DEF th
<1>4. t \in Runnable(th)
  BY <1>1, <1>2, Zenon DEF Runnable
<1>5. QED
  BY <1>1, <1>2, <1>3, <1>4, SwapIsCloser

(* Exiting.                                                                *)
LEMMA ExitIsCloser ==
  ASSUME Live, Exit, active_tid' # active_tid, NEW t \in Runnable(threads), t # active_tid
  PROVE  Away(t)' < Away(t)
<1> DEFINE addr == threads[active_tid].tid_address
           th == IF addr = NoAddr THEN threads ELSE Unparked(addr)
<1>1. active_tid' = NextRunnable(th)
  BY Zenon DEF Exit
<1>2. TableOK(threads, next_tid, frame) /\ active_tid \in Tids
  BY Zenon DEF Live
<1>3. \A a : TableOK(Unparked(a), next_tid, frame) /\ t \in Runnable(Unparked(a))
  BY <1>2, StatesChange, Woken, Zenon DEF Unparked
<1>4. TableOK(th, next_tid, frame) /\ t \in Runnable(th)
  BY <1>2, <1>3, Zenon
<1> HIDE DEF th
<1>5. QED
  BY <1>1, <1>2, <1>4, NextIsCloser

(* Nobody is passed over, for any number of threads: every switch but the  *)
(* hand-over of a PI lock brings each thread that can run closer to its    *)
(* turn, and yields do switch.  Away is the variant on which EveryoneRuns  *)
(* rests.                                                                  *)
THEOREM NobodyIsPassedOver == Spec => TurnsComeCloser
<1> DEFINE Closer ==
      (\A a \in Locks : ~FutexUnlockPi(a)) =>
       \A t \in Runnable(threads) \ {active_tid} :
         /\ Yield => active_tid' # active_tid
         /\ active_tid' # active_tid => Away(t)' < Away(t)
<1>1. ASSUME Inv, [Next]_vars, \A a \in Locks : ~FutexUnlockPi(a),
             NEW t \in Runnable(threads), t # active_tid
      PROVE  /\ Yield => active_tid' # active_tid
             /\ active_tid' # active_tid => Away(t)' < Away(t)
  <2>1. ASSUME Yield PROVE active_tid' # active_tid /\ Away(t)' < Away(t)
    <3>1. TableOK(threads, next_tid, frame) /\ active_tid \in Tids /\ swap_to_next(threads)
      BY <1>1, <2>1, InvLive, Zenon DEF Yield, Live
    <3>2. QED
      BY <1>1, <3>1, SwapIsCloser
  <2>2. ASSUME active_tid' # active_tid PROVE Away(t)' < Away(t)
    <3>1. CASE ThreadCalls
      <4>1. Exit \/ Yield
        BY <2>2, <3>1, Zenon DEF ThreadCalls, Spawn, SetTidAddress
      <4>2. ASSUME Exit PROVE Live
        BY <1>1, <4>2, InvLive, Zenon DEF Exit
      <4>3. QED
        BY <1>1, <2>1, <2>2, <4>1, <4>2, ExitIsCloser, Zenon
    <3>2. CASE FutexCalls
      <4>1. ASSUME NEW addr, NEW c, FutexWait(addr, c) PROVE Away(t)' < Away(t)
        <5>1. Live /\ park_me(addr)
          BY <1>1, <4>1, InvLive, Zenon DEF FutexWait
        <5>2. QED
          BY <1>1, <5>1, ParkIsCloser
      <4>2. ASSUME NEW addr, FutexLockPi(addr) PROVE Away(t)' < Away(t)
        <5>1. Live /\ park_me(addr)
          BY <1>1, <2>2, <4>2, InvLive, Zenon DEF FutexLockPi
        <5>2. QED
          BY <1>1, <5>1, ParkIsCloser
      <4>3. ASSUME NEW from, NEW to, NEW wake, NEW requeue, FutexRequeue(from, to, wake, requeue)
            PROVE  FALSE
        BY <2>2, <4>3, Zenon DEF FutexRequeue
      <4>4. QED
        BY <1>1, <3>2, <4>1, <4>2, <4>3, Zenon DEF FutexCalls
    <3>3. CASE Guest \/ States \/ UNCHANGED vars
      <4>1. ASSUME NEW s, LoadState(s) \/ LoadStateFails(s) \/ LoadStateHijacked(s)
            PROVE  active_tid' = active_tid
        BY <4>1, Zenon DEF LoadState, LoadStateFails, LoadStateHijacked
      <4>2. QED
        BY <2>2, <3>3, <4>1, Zenon DEF Guest, Run, Store, FastLock, FastUnlock, States, SaveState, vars
    <3>4. QED
      BY <1>1, <3>1, <3>2, <3>3, Zenon DEF Next
  <2>3. QED
    BY <2>1, <2>2, Zenon
<1>2. Inv /\ [Next]_vars => Closer
  BY <1>1
<1>3. Spec => [][Closer]_vars
  BY <1>2, ThreadsInvariance, PTL DEF Spec
<1>4. QED
  BY <1>3 DEF TurnsComeCloser

-----------------------------------------------------------------------------
(* The queues of the PI locks.                                             *)

(* A step that is not the hand-over of lock a takes nobody from the queue  *)
(* of a, and puts at most the running thread at its end.                   *)
Stays(a) ==
  \/ futicies'[a] = futicies[a]
  \/ futicies'[a] = Append(futicies[a], active_tid)

(* The calls on other words.                                               *)
LEMMA ThreadCallStays ==
  ASSUME Live, ThreadCalls, NEW a \in Locks
  PROVE  Stays(a)
<1>1. futicies \in Queues /\ TableOK(threads, next_tid, frame) /\ active_tid \in DOMAIN threads
  BY Zenon DEF Live
<1>2. a \notin Plain /\ a # NoAddr
  BY ThreadsAssumption, Zenon DEF Addrs
<1>3. ASSUME Exit PROVE Stays(a)
  <2>1. threads[active_tid].tid_address # a
    BY <1>1, <1>2 DEF TableOK, Thread
  <2>2. futicies' = futicies \/ unpark_one(threads[active_tid].tid_address)
    BY <1>3, Zenon DEF Exit
  <2>3. QED
    BY <1>1, <2>1, <2>2 DEF Stays, unpark_one, Queues, Addrs
<1>4. CASE futicies' = futicies
  BY <1>4 DEF Stays
<1>5. Exit \/ futicies' = futicies
  BY Zenon DEF ThreadCalls, Spawn, SetTidAddress, Yield, swap_to_next, swap_to
<1>6. QED
  BY <1>3, <1>4, <1>5

LEMMA FutexCallStays ==
  ASSUME Live, FutexCalls, NEW a \in Locks, ~(Holds(a) /\ FutexUnlockPi(a))
  PROVE  Stays(a)
<1>1. futicies \in Queues /\ a \in Addrs /\ a \notin Plain
  BY ThreadsAssumption, Zenon DEF Live, Addrs
<1>2. ASSUME NEW addr, park_me(addr) PROVE Stays(a)
  BY <1>1, <1>2 DEF park_me, Stays, Queues
<1>3. ASSUME NEW addr, NEW c, FutexWait(addr, c) PROVE Stays(a)
  BY <1>2, <1>3, Zenon DEF FutexWait
<1>4. ASSUME NEW addr, FutexLockPi(addr) PROVE Stays(a)
  BY <1>2, <1>4, Zenon DEF FutexLockPi, Stays
<1>5. ASSUME NEW from \in Plain, NEW to \in Plain, NEW wake, NEW requeue,
             FutexRequeue(from, to, wake, requeue)
      PROVE  Stays(a)
  <2>1. \A x, y : LET f == [futicies EXCEPT ![from] = x]
                  IN  f[a] = futicies[a] /\ [f EXCEPT ![to] = @ \o y][a] = futicies[a]
    BY <1>1, a # from, a # to DEF Queues
  <2>2. futicies'[a] = futicies[a]
    BY <1>5, <2>1, Zenon DEF FutexRequeue
  <2>3. QED
    BY <2>2 DEF Stays
<1>6. ASSUME NEW addr \in Locks, Holds(addr), FutexUnlockPi(addr) PROVE Stays(a)
  <2>1. addr # a
    BY <1>6
  <2>2. futicies' = futicies \/ unpark_one(addr)
    BY <1>6, Zenon DEF FutexUnlockPi
  <2>3. QED
    BY <1>1, <2>1, <2>2 DEF Stays, unpark_one, Queues
<1>7. QED
  BY <1>3, <1>4, <1>5, <1>6, Zenon DEF FutexCalls

LEMMA OtherStays ==
  ASSUME Guest \/ States \/ UNCHANGED vars, phase' = "live",
         \A s \in saved : ~LoadState(s), NEW a
  PROVE  Stays(a)
<1>1. futicies' = futicies
  <2>1. CASE Guest
    BY <2>1, Zenon DEF Guest, Run, Store, FastLock, FastUnlock
  <2>2. CASE States
    BY <2>2, Zenon DEF States, SaveState, LoadStateFails, LoadStateHijacked
  <2>3. CASE UNCHANGED vars
    BY <2>3, Zenon DEF vars
  <2>4. QED
    BY <2>1, <2>2, <2>3
<1>2. QED
  BY <1>1 DEF Stays

(* The hand-over of lock a.                                                *)
LEMMA HandOver ==
  ASSUME Live, NEW a \in Locks, Holds(a), FutexUnlockPi(a), NEW i \in DOMAIN futicies[a]
  PROVE  IF i - 1 = 0
         THEN holders'[a] = {futicies[a][i]} /\ active_tid' = futicies[a][i]
         ELSE i - 1 \in DOMAIN futicies'[a] /\ futicies'[a][i - 1] = futicies[a][i]
<1> DEFINE q == futicies[a]
           r == SubSeq(q, 2, Len(q))
<1>1. futicies \in Queues /\ a \in Addrs /\ LocksOK(DOMAIN threads, futicies, word, holders) /\ active_tid \in Tids
  BY Zenon DEF Live, Addrs
<1>2. q \in Seq(Tids)
  BY <1>1 DEF Queues
<1>3. Len(q) \in Nat /\ i \in 1 .. Len(q) /\ q # <<>>
  BY <1>2
<1>4. unpark_one(a) /\ swap_to(Unparked(a), Head(q)) /\ holders' = [holders EXCEPT ![a] = (@ \ {active_tid}) \cup FirstWaiter(a)]
  BY <1>3, Zenon DEF FutexUnlockPi
<1>5. CASE i = 1
  <2>1. Head(q) = q[1]
    BY <1>2, <1>3
  <2>2. FirstWaiter(a) = {q[1]}
    BY <1>2, <1>3 DEF FirstWaiter
  <2>3. active_tid # 0
    BY <1>1 DEF Tids
  <2>4. holders[a] = {active_tid} /\ holders \in [Locks -> SUBSET Tids]
    BY <1>1, <2>3, Zenon DEF LocksOK, LockOK, Holds
  <2>5. holders'[a] = {q[1]}
    BY <1>4, <2>2, <2>4
  <2>6. active_tid' = q[1]
    BY <1>4, <2>1, Zenon DEF swap_to
  <2>7. QED
    BY <1>5, <2>5, <2>6
<1>6. CASE i # 1
  <2>1. r \in Seq(Tids) /\ Len(r) = Len(q) - 1 /\ \A k \in 1 .. Len(q) - 1 : r[k] = q[k + 1]
    BY <1>2, <1>3, RestIs
  <2>2. futicies'[a] = r
    BY <1>1, <1>4 DEF unpark_one, Queues
  <2> HIDE DEF r
  <2>3. DOMAIN r = 1 .. Len(q) - 1 /\ i - 1 \in 1 .. Len(q) - 1 /\ (i - 1) + 1 = i /\ i - 1 # 0
    BY <1>3, <1>6, <2>1
  <2>4. QED
    BY <2>1, <2>2, <2>3, Zenon
<1>7. QED
  BY <1>5, <1>6

(* Waiters only move up, for any number of threads and locks: who waits    *)
(* for a PI lock keeps their place in its queue until the lock is handed   *)
(* over, comes one place forward then, and holds the lock and runs once    *)
(* they were first.  The place is the variant on which LocksAreGranted     *)
(* rests.                                                                  *)
THEOREM WaitersComeUp == Spec => WaitersMoveUp
<1> DEFINE Up(a, i) ==
      LET j == IF Holds(a) /\ FutexUnlockPi(a) THEN i - 1 ELSE i
      IN  IF j = 0 THEN holders'[a] = {futicies[a][i]} /\ active_tid' = futicies[a][i]
                   ELSE j \in DOMAIN futicies'[a] /\ futicies'[a][j] = futicies[a][i]
    MoveUp ==
      phase' = "live" /\ (\A s \in saved : ~LoadState(s)) =>
        \A a \in Locks : \A i \in DOMAIN futicies[a] : Up(a, i)
<1>1. ASSUME Inv, [Next]_vars, phase' = "live", \A s \in saved : ~LoadState(s),
             NEW a \in Locks, NEW i \in DOMAIN futicies[a]
      PROVE  Up(a, i)
  <2>1. Live
    BY <1>1, WasLive, InvLive, Zenon
  <2>2. CASE Holds(a) /\ FutexUnlockPi(a)
    BY <1>1, <2>1, <2>2, HandOver
  <2>3. CASE ~(Holds(a) /\ FutexUnlockPi(a))
    <3>1. Stays(a)
      BY <1>1, <2>1, <2>3, ThreadCallStays, FutexCallStays, OtherStays, Zenon DEF Next
    <3>2. futicies[a] \in Seq(Tids) /\ active_tid \in Tids
      <4>1. futicies \in Queues /\ a \in Addrs /\ active_tid \in Tids
        BY <1>1, <2>1, Zenon DEF Live, Addrs
      <4>2. QED
        BY <4>1 DEF Queues
    <3>3. i # 0
      BY <1>1, <3>2, AppendKeeps, Zenon
    <3>4. i \in DOMAIN futicies'[a] /\ futicies'[a][i] = futicies[a][i]
      <4>1. CASE futicies'[a] = futicies[a]
        BY <1>1, <4>1
      <4>2. CASE futicies'[a] = Append(futicies[a], active_tid)
        <5>1. i \in DOMAIN Append(futicies[a], active_tid) /\ Append(futicies[a], active_tid)[i] = futicies[a][i]
          BY <1>1, <3>2, AppendKeeps, Zenon
        <5>2. QED
          BY <4>2, <5>1
      <4>3. QED
        BY <3>1, <4>1, <4>2 DEF Stays
    <3>5. QED
      BY <2>3, <3>3, <3>4, Zenon
  <2>4. QED
    BY <2>2, <2>3, Zenon
<1>2. Inv /\ [Next]_vars => MoveUp
  BY <1>1
<1>3. Spec => [][MoveUp]_vars
  BY <1>2, ThreadsInvariance, PTL DEF Spec
<1>4. QED
  BY <1>3, Zenon DEF WaitersMoveUp

=============================================================================
