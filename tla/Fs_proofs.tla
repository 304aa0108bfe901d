------------------------------ MODULE Fs_proofs -----------------------------
(***************************************************************************)
(* The file system, for any number of files, any lengths and any requests: *)
(* positions stay within files, and names and descriptors stay unique, so  *)
(* that the searches from the front of the list find the only match.  With *)
(* that, the list implements FileTable, if no descriptor is negative.      *)
(***************************************************************************)
EXTENDS FsTable, TLAPS, FiniteSetTheorems, WellFoundedInduction

FileData == Seq(Bytes \cup {Garbage})

FileRecord ==
  [name : Names \cup {"/dev/stdin", "/dev/stdout", "/dev/stderr"},
   fd : {BAD_FD} \cup Nat, kind : {"EMPTY", "SYSOUT", "REGULAR"},
   data : FileData, pos : Nat, writable : BOOLEAN]

(* A list of files that is as the properties say.                          *)
ListOK(fs) ==
  /\ fs \in Seq(FileRecord)
  /\ \A i \in DOMAIN fs : fs[i].pos <= Len(fs[i].data) /\ Len(fs[i].data) <= MaxLen
  /\ \A i, j \in DOMAIN fs :
       i # j => /\ fs[i].name # fs[j].name
                /\ fs[i].fd = BAD_FD \/ fs[i].fd # fs[j].fd

-----------------------------------------------------------------------------
(* Numbers and sequences.                                                  *)

(* A nonempty set of numbers has a least element.                          *)
LEMMA NatMin ==
  ASSUME NEW T \in SUBSET Nat, T # {}
  PROVE  \E m \in T : \A y \in T : m <= y
<1>1. PICK m \in T : \A y \in T : ~(<<y, m>> \in OpToRel(<, Nat))
  BY NatLessThanWellFounded, WFMin, Zenon
<1>2. ASSUME NEW y \in T PROVE m <= y
  <2>1. y \in Nat /\ m \in Nat /\ ~(y < m)
    BY <1>1, Zenon DEF OpToRel
  <2>2. QED
    BY <2>1
<1>3. QED
  BY <1>2

(* Min of FiniteSetsExt finds it.                                          *)
LEMMA MinIs ==
  ASSUME NEW T \in SUBSET Nat, T # {}
  PROVE  Min(T) \in T /\ \A y \in T : Min(T) <= y
BY NatMin, Zenon DEF Min

(* Of two numbers it is the smaller one.                                   *)
LEMMA MinOfTwo ==
  ASSUME NEW a \in Nat, NEW b \in Nat
  PROVE  Min({a, b}) = IF a <= b THEN a ELSE b
<1>1. {a, b} \in SUBSET Nat /\ {a, b} # {}
  OBVIOUS
<1>2. Min({a, b}) \in {a, b} /\ \A y \in {a, b} : Min({a, b}) <= y
  BY <1>1, MinIs, Zenon
<1>3. QED
  BY <1>2

(* Max of two numbers is the larger one.                                   *)
LEMMA MaxIs ==
  ASSUME NEW a \in Nat, NEW b \in Nat
  PROVE  Max({a, b}) = IF a >= b THEN a ELSE b
<1>1. \E x \in {a, b} : \A y \in {a, b} : x >= y
  OBVIOUS
<1>2. Max({a, b}) \in {a, b} /\ \A y \in {a, b} : Max({a, b}) >= y
  BY <1>1 DEF Max
<1>3. QED
  BY <1>2

(* The search from the front finds a match if there is one.                *)
LEMMA FirstIs ==
  ASSUME NEW I \in SUBSET Nat
  PROVE  First(I) \subseteq I /\ (First(I) = {} => I = {})
BY NatMin DEF First

(* Of n + 1 things in n places, two share one.                             *)
LEMMA PigeonHole ==
  ASSUME NEW n \in Nat, NEW f \in [0 .. n -> 1 .. n]
  PROVE  \E x, y \in 0 .. n : x # y /\ f[x] = f[y]
<1>1. /\ IsFiniteSet(0 .. n) /\ Cardinality(0 .. n) = n + 1
      /\ IsFiniteSet(1 .. n) /\ Cardinality(1 .. n) = n
  BY FS_Interval
<1>2. Cardinality(1 .. n) < Cardinality(0 .. n)
  BY <1>1
<1>3. QED
  BY <1>1, <1>2, FS_PigeonHole, Zenon

(* A sequence given by its elements.                                       *)
LEMMA SeqOfFunction ==
  ASSUME NEW S, NEW n \in Nat, NEW f \in [1 .. n -> S]
  PROVE  f \in Seq(S) /\ Len(f) = n
OBVIOUS

(* Two sequences, one behind the other.                                    *)
LEMMA Joined ==
  ASSUME NEW S, NEW s \in Seq(S), NEW t \in Seq(S)
  PROVE  /\ s \o t \in Seq(S)
         /\ Len(s \o t) = Len(s) + Len(t)
         /\ \A i \in 1 .. Len(s) + Len(t) :
              (s \o t)[i] = IF i <= Len(s) THEN s[i] ELSE t[i - Len(s)]
OBVIOUS

(* A file with a new content and a new position.                           *)
NewContent(f, d, p) == [f EXCEPT !.data = d, !.pos = p]

(* It is a file, and otherwise the same.                                   *)
LEMMA NewContentIs ==
  ASSUME NEW f \in FileRecord, NEW d \in FileData, NEW p \in Nat
  PROVE  /\ NewContent(f, d, p) \in FileRecord
         /\ NewContent(f, d, p).name = f.name
         /\ NewContent(f, d, p).fd = f.fd
         /\ NewContent(f, d, p).kind = f.kind
         /\ NewContent(f, d, p).writable = f.writable
         /\ NewContent(f, d, p).data = d
         /\ NewContent(f, d, p).pos = p
<1> SUFFICES ASSUME NEW g, g = [f EXCEPT !.data = d, !.pos = p]
             PROVE  /\ g \in FileRecord /\ g.name = f.name /\ g.fd = f.fd /\ g.data = d /\ g.pos = p
                    /\ g.kind = f.kind /\ g.writable = f.writable
  BY DEF NewContent
<1>1. /\ g.name = f.name /\ g.fd = f.fd /\ g.data = d /\ g.pos = p
      /\ g.kind = f.kind /\ g.writable = f.writable
  BY DEF FileRecord
<1>2. g = [name |-> f.name, fd |-> f.fd, kind |-> f.kind, data |-> d, pos |-> p,
           writable |-> f.writable]
  BY Zenon DEF FileRecord
<1>3. g \in FileRecord
  BY <1>2 DEF FileRecord
<1>4. QED
  BY <1>1, <1>3

-----------------------------------------------------------------------------
(* What the operations do to a list of files.                              *)

(* One file is replaced by another of the same name.                       *)
LEMMA ReplaceFile ==
  ASSUME ListOK(files), NEW k \in DOMAIN files, NEW g \in FileRecord,
         files' = [files EXCEPT ![k] = g],
         g.name = files[k].name, g.pos <= Len(g.data), Len(g.data) <= MaxLen,
         g.fd = files[k].fd \/ g.fd = BAD_FD \/ \A j \in DOMAIN files : files[j].fd # g.fd
  PROVE  ListOK(files')
<1>1. /\ files \in Seq(FileRecord) /\ k \in 1 .. Len(files)
      /\ DOMAIN files = 1 .. Len(files)
  BY DEF ListOK
<1>2. /\ files' \in Seq(FileRecord) /\ DOMAIN files' = DOMAIN files
      /\ \A j \in DOMAIN files : files'[j] = IF j = k THEN g ELSE files[j]
  BY <1>1
<1>3. QED
  BY <1>2 DEF ListOK

(* A closed file of a new name is added.                                   *)
LEMMA AddFile ==
  ASSUME ListOK(files), NEW g \in FileRecord, files' = Append(files, g),
         g.fd = BAD_FD, g.pos <= Len(g.data), Len(g.data) <= MaxLen,
         \A j \in DOMAIN files : files[j].name # g.name
  PROVE  ListOK(files')
<1> DEFINE n == Len(files)
<1>1. /\ n \in Nat /\ DOMAIN files = 1 .. n
      /\ files' \in Seq(FileRecord) /\ Len(files') = n + 1
      /\ files'[n + 1] = g /\ \A j \in 1 .. n : files'[j] = files[j]
  BY DEF ListOK
<1>2. DOMAIN files' = 1 .. n + 1
  BY <1>1
<1> HIDE DEF n
<1>3. \A j \in 1 .. n + 1 : j = n + 1 \/ j \in 1 .. n
  BY <1>1
<1>4. QED
  BY <1>1, <1>2, <1>3 DEF ListOK

(* memmove keeps the other files as they are.                              *)
LEMMA RemoveFile ==
  ASSUME ListOK(files), NEW k \in DOMAIN files, files' = Without(k)
  PROVE  /\ ListOK(files')
         /\ \A i \in DOMAIN files' : \E j \in DOMAIN files \ {k} : files'[i] = files[j]
         /\ \A j \in DOMAIN files \ {k} : \E i \in DOMAIN files' : files'[i] = files[j]
<1> DEFINE n == Len(files)
           old(i) == IF i < k THEN i ELSE i + 1
           new(j) == IF j < k THEN j ELSE j - 1
<1>1. n \in Nat /\ DOMAIN files = 1 .. n /\ k \in 1 .. n /\ \A i \in 1 .. n : files[i] \in FileRecord
  BY DEF ListOK
<1>2. files' = [i \in 1 .. n - 1 |-> files[old(i)]]
  BY DEF Without
<1> HIDE DEF n
<1>3. /\ \A i \in 1 .. n - 1 : old(i) \in 1 .. n /\ old(i) # k
      /\ \A i, j \in 1 .. n - 1 : i # j => old(i) # old(j)
      /\ \A j \in 1 .. n : j # k => new(j) \in 1 .. n - 1 /\ old(new(j)) = j
  BY <1>1
<1> HIDE DEF old, new
<1>4. files' \in [1 .. n - 1 -> FileRecord] /\ n - 1 \in Nat
  BY <1>1, <1>2, <1>3
<1>5. /\ files' \in Seq(FileRecord) /\ DOMAIN files' = 1 .. n - 1
      /\ \A i \in 1 .. n - 1 : files'[i] = files[old(i)]
  BY <1>2, <1>4, SeqOfFunction
<1>6. ASSUME NEW i \in DOMAIN files'
      PROVE  files'[i].pos <= Len(files'[i].data) /\ Len(files'[i].data) <= MaxLen
  <2>1. old(i) \in DOMAIN files /\ files'[i] = files[old(i)]
    BY <1>1, <1>3, <1>5
  <2>2. QED
    BY <2>1 DEF ListOK
<1>7. ASSUME NEW i \in DOMAIN files', NEW j \in DOMAIN files', i # j
      PROVE  /\ files'[i].name # files'[j].name
             /\ files'[i].fd = BAD_FD \/ files'[i].fd # files'[j].fd
  <2>1. /\ old(i) \in DOMAIN files /\ old(j) \in DOMAIN files /\ old(i) # old(j)
        /\ files'[i] = files[old(i)] /\ files'[j] = files[old(j)]
    BY <1>1, <1>3, <1>5, <1>7
  <2>2. QED
    BY <2>1 DEF ListOK
<1>8. ListOK(files')
  BY <1>5, <1>6, <1>7 DEF ListOK
<1>9. ASSUME NEW j \in DOMAIN files \ {k} PROVE \E i \in DOMAIN files' : files'[i] = files[j]
  <2>1. new(j) \in DOMAIN files' /\ files'[new(j)] = files[j]
    BY <1>1, <1>3, <1>5
  <2>2. QED
    BY <2>1
<1>10. QED
  BY <1>1, <1>3, <1>5, <1>8, <1>9

(* The lowest unused descriptor exists, no file has it, and every lower    *)
(* one is in use: there are more candidates than files.                    *)
LEMMA NewFdIsFree ==
  ASSUME files \in Seq(FileRecord)
  PROVE  /\ NewFd \in Nat /\ \A i \in DOMAIN files : files[i].fd # NewFd
         /\ \A fd \in 0 .. NewFd - 1 : \E i \in DOMAIN files : files[i].fd = fd
<1> DEFINE n == Len(files)
           S == {fd \in 0 .. n : by_fd(fd) = {}}
<1>1. n \in Nat /\ DOMAIN files = 1 .. n
  OBVIOUS
<1>2. ASSUME NEW fd, by_fd(fd) = {} PROVE \A i \in DOMAIN files : files[i].fd # fd
  <2>1. {i \in DOMAIN files : files[i].fd = fd} \in SUBSET Nat
    BY <1>1
  <2>2. {i \in DOMAIN files : files[i].fd = fd} = {}
    BY <1>2, <2>1, FirstIs, Zenon DEF by_fd
  <2>3. QED
    BY <2>2
<1>3. ASSUME NEW fd, by_fd(fd) # {} PROVE \E i \in 1 .. n : files[i].fd = fd
  BY <1>1, <1>3 DEF by_fd, First
<1>4. S # {}
  <2> SUFFICES ASSUME S = {} PROVE FALSE
    OBVIOUS
  <2> DEFINE holder == [fd \in 0 .. n |-> CHOOSE i \in 1 .. n : files[i].fd = fd]
  <2>1. \A fd \in 0 .. n : \E i \in 1 .. n : files[i].fd = fd
    BY <1>3
  <2>2. \A fd \in 0 .. n : holder[fd] \in 1 .. n /\ files[holder[fd]].fd = fd
    BY <2>1, Zenon
  <2>3. holder \in [0 .. n -> 1 .. n]
    BY <2>2, Zenon
  <2> HIDE DEF holder, n
  <2>4. \E x, y \in 0 .. n : x # y /\ holder[x] = holder[y]
    BY <1>1, <2>3, PigeonHole, Zenon
  <2>5. QED
    BY <2>2, <2>4
<1>5. S \in SUBSET Nat
  BY <1>1
<1>6. NewFd \in S /\ \A fd \in S : NewFd <= fd
  BY <1>4, <1>5, MinIs, Zenon DEF NewFd
<1>7. ASSUME NEW fd \in 0 .. NewFd - 1 PROVE \E i \in DOMAIN files : files[i].fd = fd
  <2>1. fd \in 0 .. n /\ ~(NewFd <= fd)
    BY <1>1, <1>5, <1>6
  <2>2. by_fd(fd) # {}
    BY <1>6, <2>1
  <2>3. QED
    BY <1>1, <1>3, <2>2
<1>8. QED
  BY <1>2, <1>5, <1>6, <1>7

(* The searches find files of the list.                                    *)
LEMMA Found ==
  ASSUME files \in Seq(FileRecord), NEW x
  PROVE  /\ by_name(x) = {} => \A i \in DOMAIN files : files[i].name # x
         /\ \A i \in by_name(x) : i \in DOMAIN files /\ files[i].name = x
         /\ \A i \in by_fd(x) : i \in DOMAIN files /\ files[i].fd = x
<1>1. {i \in DOMAIN files : files[i].name = x} \in SUBSET Nat
  OBVIOUS
<1>2. {i \in DOMAIN files : files[i].fd = x} \in SUBSET Nat
  OBVIOUS
<1>3. by_name(x) = {} => {i \in DOMAIN files : files[i].name = x} = {}
  BY <1>1, FirstIs, Zenon DEF by_name
<1>4. by_name(x) \subseteq {i \in DOMAIN files : files[i].name = x}
  BY <1>1, FirstIs DEF by_name
<1>5. by_fd(x) \subseteq {i \in DOMAIN files : files[i].fd = x}
  BY <1>2, FirstIs DEF by_fd
<1>6. QED
  BY <1>3, <1>4, <1>5

(* A sequence of bounded length.                                           *)
LEMMA Bounded ==
  ASSUME NEW S, NEW s
  PROVE  s \in UpToMaxLen(S) <=> s \in Seq(S) /\ Len(s) <= MaxLen
<1> USE FsAssumption
<1>1. ASSUME s \in UpToMaxLen(S) PROVE s \in Seq(S) /\ Len(s) <= MaxLen
  <2>1. PICK m \in 0 .. MaxLen : s \in [1 .. m -> S]
    BY <1>1 DEF UpToMaxLen
  <2>2. QED
    BY <2>1, SeqOfFunction
<1>2. ASSUME s \in Seq(S), Len(s) <= MaxLen PROVE s \in UpToMaxLen(S)
  <2>1. Len(s) \in 0 .. MaxLen /\ s \in [1 .. Len(s) -> S]
    BY <1>2
  <2>2. QED
    BY <2>1, Zenon DEF UpToMaxLen
<1>3. QED
  BY <1>1, <1>2

-----------------------------------------------------------------------------
(* The operations.                                                         *)

(* The k-th file gets the content d and the position p.                    *)
Puts(k, d, p) ==
  /\ k \in DOMAIN files
  /\ d \in FileData /\ Len(d) <= MaxLen
  /\ p \in Nat /\ p <= Len(d)
  /\ files' = [files EXCEPT ![k] = NewContent(files[k], d, p)]

(* That keeps the list good, and a closed file at its start.               *)
LEMMA PutKeeps ==
  ASSUME ListOK(files), NEW k, NEW d, NEW p, Puts(k, d, p)
  PROVE  /\ ListOK(files')
         /\ OpensAtStart /\ (files[k].fd # BAD_FD \/ p = 0) => OpensAtStart'
<1> DEFINE g == NewContent(files[k], d, p)
<1>1. /\ files \in Seq(FileRecord) /\ k \in DOMAIN files /\ files[k] \in FileRecord
      /\ files' = [files EXCEPT ![k] = g]
  BY DEF Puts, ListOK
<1>2. /\ g \in FileRecord /\ g.name = files[k].name /\ g.fd = files[k].fd
      /\ g.data = d /\ g.pos = p
  BY <1>1, NewContentIs DEF Puts
<1> HIDE DEF g
<1>3. ListOK(files')
  BY <1>1, <1>2, ReplaceFile, Zenon DEF Puts
<1>4. ASSUME OpensAtStart, files[k].fd # BAD_FD \/ p = 0 PROVE OpensAtStart'
  <2>1. /\ DOMAIN files' = DOMAIN files /\ files'[k] = g
        /\ \A j \in DOMAIN files : j # k => files'[j] = files[j]
    BY <1>1
  <2>2. QED
    BY <1>2, <1>4, <2>1 DEF OpensAtStart
<1>5. QED
  BY <1>3, <1>4

(* The file that the descriptor or the name finds.                         *)
LEMMA FoundFile ==
  ASSUME ListOK(files), NEW k, (\E x : k \in by_fd(x)) \/ (\E x : k \in by_name(x))
  PROVE  /\ k \in DOMAIN files /\ files[k] \in FileRecord
         /\ files[k].pos \in Nat /\ files[k].data \in FileData /\ Len(files[k].data) \in Nat
         /\ files[k].pos <= Len(files[k].data) /\ Len(files[k].data) <= MaxLen
<1>1. k \in DOMAIN files /\ files \in Seq(FileRecord)
  BY Found DEF ListOK
<1>2. /\ files[k] \in FileRecord
      /\ files[k].pos <= Len(files[k].data) /\ Len(files[k].data) <= MaxLen
  BY <1>1 DEF ListOK
<1>3. files[k].pos \in Nat /\ files[k].data \in FileData
  BY <1>2, Zenon DEF FileRecord
<1>4. Len(files[k].data) \in Nat
  BY <1>3 DEF FileData
<1>5. QED
  BY <1>1, <1>2, <1>3, <1>4

(* A new position leaves the content as it is.                             *)
LEMMA NewPosition ==
  ASSUME NEW f \in FileRecord, NEW p
  PROVE  [f EXCEPT !.pos = p] = NewContent(f, f.data, p)
BY Zenon DEF NewContent, FileRecord

(* mb_fs_read moves the position to at most the end of the file.           *)
LEMMA ReadPuts ==
  ASSUME ListOK(files), NEW fd, NEW n \in 0 .. MaxLen, Read(fd, n)
  PROVE  \E k \in by_fd(fd) : \E p : Puts(k, files[k].data, p)
<1> USE FsAssumption
<1>1. PICK k \in by_fd(fd) : files' = [files EXCEPT ![k].pos = @ + Len(ReadBytes(files[k], n))]
  BY Zenon DEF Read
<1> DEFINE f == files[k]
           e == Min({f.pos + n, Len(f.data)})
<1>2. k \in DOMAIN files /\ f \in FileRecord /\ f.data \in FileData /\ n \in Nat
  BY FoundFile
<1>3. /\ f.pos \in Nat /\ f.data \in Seq(Bytes \cup {Garbage}) /\ Len(f.data) \in Nat
      /\ f.pos <= Len(f.data) /\ Len(f.data) <= MaxLen
  BY FoundFile DEF FileData
<1>4. e \in Nat /\ f.pos <= e /\ e <= Len(f.data)
  <2>1. {f.pos + n, Len(f.data)} \in SUBSET Nat
    BY <1>2, <1>3
  <2>2. e \in {f.pos + n, Len(f.data)} /\ \A y \in {f.pos + n, Len(f.data)} : e <= y
    BY <2>1, MinIs, Zenon
  <2> HIDE DEF e, f
  <2>3. QED
    BY <1>2, <1>3, <2>2
<1>5. Len(ReadBytes(f, n)) = e - f.pos
  <2>1. \A i \in f.pos + 1 .. e : f.data[i] \in Bytes \cup {Garbage}
    BY <1>3, <1>4
  <2>2. Len(SubSeq(f.data, f.pos + 1, e)) = IF f.pos + 1 <= e THEN e - (f.pos + 1) + 1 ELSE 0
    BY <1>3, <1>4, <2>1
  <2>3. ReadBytes(f, n) = SubSeq(f.data, f.pos + 1, e)
    BY DEF ReadBytes
  <2> HIDE DEF e, f
  <2>4. QED
    BY <1>3, <1>4, <2>2, <2>3
<1> HIDE DEF e
<1>6. files' = [files EXCEPT ![k] = NewContent(f, f.data, e)]
  <2>1. f.pos + Len(ReadBytes(f, n)) = e
    BY <1>3, <1>4, <1>5
  <2>2. files' = [files EXCEPT ![k] = [f EXCEPT !.pos = e]]
    BY <1>1, <2>1, Zenon
  <2>3. QED
    BY <1>2, <2>2, NewPosition, Zenon
<1>7. Puts(k, f.data, e)
  BY <1>2, <1>3, <1>4, <1>6 DEF Puts
<1>8. QED
  BY <1>7

(* mb_fs_seek refuses positions outside the file.                          *)
LEMMA SeekPuts ==
  ASSUME ListOK(files), NEW fd, NEW offset \in -MaxLen .. MaxLen,
         NEW whence \in {"SEEK_SET", "SEEK_CUR", "SEEK_END"}, Seek(fd, offset, whence)
  PROVE  \E k \in by_fd(fd) : \E p : Puts(k, files[k].data, p)
<1> USE FsAssumption
<1>1. PICK k \in by_fd(fd) : \E p \in SeekTarget(files[k], offset, whence) :
        files' = [files EXCEPT ![k].pos = p]
  BY Zenon DEF Seek
<1>2. PICK p \in SeekTarget(files[k], offset, whence) : files' = [files EXCEPT ![k].pos = p]
  BY <1>1, Zenon
<1> DEFINE f == files[k]
<1>3. /\ k \in DOMAIN files /\ f \in FileRecord /\ f.data \in FileData
      /\ f.pos \in Nat /\ Len(f.data) \in Nat /\ Len(f.data) <= MaxLen
  BY FoundFile
<1>4. p \in Nat /\ p <= Len(f.data)
  <2> DEFINE from == [SEEK_SET |-> 0, SEEK_CUR |-> f.pos, SEEK_END |-> Len(f.data)][whence]
  <2>1. from \in Int
    BY <1>3
  <2>2. p = from + offset /\ p >= 0 /\ p <= Len(f.data)
    BY <1>2 DEF SeekTarget
  <2> HIDE DEF from, f
  <2>3. QED
    BY <2>1, <2>2
<1>5. files' = [files EXCEPT ![k] = NewContent(f, f.data, p)]
  BY <1>2, <1>3, NewPosition, Zenon
<1>6. Puts(k, f.data, p)
  BY <1>3, <1>4, <1>5 DEF Puts
<1>7. QED
  BY <1>6

(* A position in a range that starts behind p.                             *)
LEMMA OffsetIn ==
  ASSUME NEW i \in Int, NEW p \in Nat, NEW n \in Nat, i > p, i <= p + n
  PROVE  i - p \in 1 .. n
OBVIOUS

(* mb_fs_write leaves the position at most at the end of the file.         *)
LEMMA WritePuts ==
  ASSUME ListOK(files), NEW fd, NEW buf \in Buffers, Write(fd, buf)
  PROVE  \E k \in by_fd(fd) :
           /\ files[k].kind = "REGULAR" /\ files[k].writable
           /\ Puts(k, Overwritten(files[k].data, files[k].pos, buf), files[k].pos + Len(buf))
<1> USE FsAssumption
<1>1. PICK k \in by_fd(fd) :
        /\ files[k].kind = "REGULAR" /\ files[k].writable
        /\ files[k].pos + Len(buf) <= MaxLen
        /\ files' = [files EXCEPT ![k].data = Overwritten(@, files[k].pos, buf),
                                  ![k].pos = @ + Len(buf)]
  BY Zenon DEF Write
<1> DEFINE f == files[k]
           d == Overwritten(f.data, f.pos, buf)
           n == Max({Len(f.data), f.pos + Len(buf)})
<1>2. k \in DOMAIN files
  BY FoundFile
<1>3. /\ f.pos \in Nat /\ f.data \in Seq(Bytes \cup {Garbage}) /\ Len(f.data) \in Nat
      /\ Len(f.data) <= MaxLen
  BY FoundFile DEF FileData
<1>4. buf \in Seq(Bytes) /\ Len(buf) \in Nat
  BY Bounded DEF Buffers
<1>5. n = IF Len(f.data) >= f.pos + Len(buf) THEN Len(f.data) ELSE f.pos + Len(buf)
  <2>1. f.pos + Len(buf) \in Nat
    BY <1>3, <1>4
  <2>2. QED
    BY <1>3, <2>1, MaxIs, Zenon
<1>6. n \in Nat /\ f.pos + Len(buf) <= n /\ n <= MaxLen
  BY <1>1, <1>3, <1>4, <1>5
<1>7. d \in Seq(Bytes \cup {Garbage}) /\ Len(d) = n
  <2> DEFINE el(i) == IF i > f.pos /\ i <= f.pos + Len(buf) THEN buf[i - f.pos]
                      ELSE IF i <= Len(f.data) THEN f.data[i] ELSE Garbage
  <2>1. d = [i \in 1 .. n |-> el(i)]
    BY DEF Overwritten
  <2>2. ASSUME NEW i \in 1 .. n PROVE el(i) \in Bytes \cup {Garbage}
    <3>1. CASE i > f.pos /\ i <= f.pos + Len(buf)
      <4>1. i \in Int
        BY <1>6
      <4>2. i - f.pos \in 1 .. Len(buf)
        BY <1>3, <1>4, <3>1, <4>1, OffsetIn, Zenon
      <4>3. QED
        BY <1>4, <3>1, <4>2
    <3>2. CASE ~(i > f.pos /\ i <= f.pos + Len(buf))
      BY <1>3, <1>6, <3>2
    <3>3. QED
      BY <3>1, <3>2
  <2> HIDE DEF n, el, d
  <2>3. d \in [1 .. n -> Bytes \cup {Garbage}]
    BY <2>1, <2>2
  <2>4. QED
    BY <1>6, <2>3, SeqOfFunction
<1>8. files' = [files EXCEPT ![k] = NewContent(f, d, f.pos + Len(buf))]
  BY <1>1, Zenon DEF NewContent
<1> HIDE DEF n, d
<1>9. Puts(k, d, f.pos + Len(buf))
  BY <1>2, <1>3, <1>4, <1>6, <1>7, <1>8 DEF Puts, FileData
<1>10. QED
  BY <1>1, <1>9 DEF d

(* A content cut, or extended, to a size.                                  *)
Cut(data, size) == [i \in 1 .. size |-> IF i <= Len(data) THEN data[i] ELSE Garbage]

(* mb_fs_truncate moves the position back with the end of the file.        *)
LEMMA TruncatePuts ==
  ASSUME ListOK(files), NEW name, NEW size \in 0 .. MaxLen, TruncateName(name, size)
  PROVE  \E k \in by_name(name) : \E p \in Nat :
           /\ files[k].kind = "REGULAR" /\ files[k].writable
           /\ p = (IF files[k].pos <= size THEN files[k].pos ELSE size)
           /\ Puts(k, Cut(files[k].data, size), p)
<1> USE FsAssumption
<1>1. PICK k \in by_name(name) :
        /\ files[k].kind = "REGULAR" /\ files[k].writable
        /\ files' = [files EXCEPT ![k] = Truncated(files[k], size)]
  BY Zenon DEF TruncateName
<1> DEFINE f == files[k]
           d == Cut(f.data, size)
           p == Min({f.pos, size})
<1>2. k \in DOMAIN files
  BY FoundFile
<1>3. f.pos \in Nat /\ f.data \in Seq(Bytes \cup {Garbage}) /\ Len(f.data) \in Nat /\ size \in Nat
  BY FoundFile DEF FileData
<1>4. d \in Seq(Bytes \cup {Garbage}) /\ Len(d) = size
  <2>1. \A i \in 1 .. size : d[i] \in Bytes \cup {Garbage}
    BY <1>3 DEF Cut
  <2>2. d \in [1 .. size -> Bytes \cup {Garbage}]
    BY <2>1 DEF Cut
  <2> HIDE DEF d
  <2>3. QED
    BY <1>3, <2>2, SeqOfFunction
<1>5. p = IF f.pos <= size THEN f.pos ELSE size
  BY <1>3, MinOfTwo, Zenon
<1>6. files' = [files EXCEPT ![k] = NewContent(f, d, p)]
  BY <1>1, Zenon DEF Truncated, NewContent, Cut
<1> HIDE DEF d, p
<1>7. p \in Nat /\ p <= size
  BY <1>3, <1>5
<1>8. Puts(k, d, p)
  BY <1>2, <1>4, <1>6, <1>7 DEF Puts, FileData
<1>9. QED
  BY <1>1, <1>5, <1>7, <1>8 DEF d

(* The calls on open files keep the list good, and those on files by name. *)
LEMMA OpenFileKeeps ==
  ASSUME ListOK(files), NEW fd, NEW k \in by_fd(fd), NEW d, NEW p, Puts(k, d, p)
  PROVE  ListOK(files') /\ (OpensAtStart /\ fd # BAD_FD => OpensAtStart')
<1>1. files[k].fd = fd
  BY Found DEF ListOK
<1>2. QED
  BY <1>1, PutKeeps

LEMMA TruncateKeeps ==
  ASSUME ListOK(files), NEW name, NEW size \in 0 .. MaxLen, TruncateName(name, size)
  PROVE  ListOK(files') /\ (OpensAtStart => OpensAtStart')
<1>1. PICK k \in by_name(name), p \in Nat :
        p = (IF files[k].pos <= size THEN files[k].pos ELSE size) /\ Puts(k, Cut(files[k].data, size), p)
  BY TruncatePuts
<1>2. k \in DOMAIN files /\ size \in Nat
  BY FoundFile
<1>3. OpensAtStart => files[k].fd # BAD_FD \/ p = 0
  BY <1>1, <1>2 DEF OpensAtStart
<1>4. QED
  BY <1>1, <1>3, PutKeeps

(* mb_fs_open takes a descriptor that no file has.                         *)
LEMMA OpenKeeps ==
  ASSUME ListOK(files), NEW name, NEW mode, Open(name, mode)
  PROVE  ListOK(files') /\ (OpensAtStart => OpensAtStart')
<1>1. PICK k \in by_name(name) : files' = [files EXCEPT ![k].fd = NewFd]
  BY Zenon DEF Open
<1> DEFINE f == files[k]
           fd == NewFd
           g == [f EXCEPT !.fd = fd]
<1>2. k \in DOMAIN files /\ f \in FileRecord /\ files \in Seq(FileRecord)
  BY Found DEF ListOK
<1>3. fd \in Nat /\ \A i \in DOMAIN files : files[i].fd # fd
  BY <1>2, NewFdIsFree
<1>4. files' = [files EXCEPT ![k] = g]
  BY <1>1
<1> HIDE DEF fd
<1>5. g \in FileRecord /\ g.name = f.name /\ g.fd = fd /\ g.data = f.data /\ g.pos = f.pos
  BY <1>2, <1>3, Zenon DEF FileRecord
<1> HIDE DEF g
<1>6. f.pos <= Len(f.data) /\ Len(f.data) <= MaxLen
  BY <1>2 DEF ListOK
<1>7. ListOK(files')
  BY <1>2, <1>3, <1>4, <1>5, <1>6, ReplaceFile, Zenon
<1>8. fd # BAD_FD
  BY <1>3 DEF BAD_FD
<1>9. /\ DOMAIN files' = DOMAIN files /\ files'[k] = g
      /\ \A j \in DOMAIN files : j # k => files'[j] = files[j]
  BY <1>2, <1>4
<1>10. QED
  BY <1>5, <1>7, <1>8, <1>9 DEF OpensAtStart

(* mb_fs_close leaves the file at its start.                               *)
LEMMA CloseKeeps ==
  ASSUME ListOK(files), NEW fd, Close(fd)
  PROVE  ListOK(files') /\ (OpensAtStart => OpensAtStart')
<1>1. PICK k \in by_fd(fd) : files' = [files EXCEPT ![k].fd = BAD_FD, ![k].pos = 0]
  BY Zenon DEF Close
<1> DEFINE f == files[k]
           g == [f EXCEPT !.fd = BAD_FD, !.pos = 0]
<1>2. k \in DOMAIN files /\ f \in FileRecord /\ files \in Seq(FileRecord)
  BY Found DEF ListOK
<1>3. files' = [files EXCEPT ![k] = g]
  BY <1>1, Zenon
<1>4. g \in FileRecord /\ g.name = f.name /\ g.fd = BAD_FD /\ g.data = f.data /\ g.pos = 0
  BY <1>2, Zenon DEF FileRecord
<1> HIDE DEF g
<1>5. 0 <= Len(f.data) /\ Len(f.data) <= MaxLen
  BY <1>2 DEF ListOK, FileRecord, FileData
<1>6. ListOK(files')
  BY <1>2, <1>3, <1>4, <1>5, ReplaceFile, Zenon
<1>7. /\ DOMAIN files' = DOMAIN files /\ files'[k] = g
      /\ \A j \in DOMAIN files : j # k => files'[j] = files[j]
  BY <1>2, <1>3
<1>8. QED
  BY <1>4, <1>6, <1>7 DEF OpensAtStart

(* mb_fs_mount adds a closed file.                                         *)
LEMMA MountKeeps ==
  ASSUME ListOK(files), NEW name \in Names, NEW data \in Buffers, NEW writable \in BOOLEAN,
         Mount(name, data, writable)
  PROVE  ListOK(files') /\ (OpensAtStart => OpensAtStart')
<1> DEFINE g == File(name, BAD_FD, "REGULAR", data, writable)
<1>1. by_name(name) = {} /\ files' = Append(files, g) /\ files \in Seq(FileRecord)
  BY DEF Mount, ListOK
<1>2. \A i \in DOMAIN files : files[i].name # name
  BY <1>1, Found
<1>3. data \in FileData /\ Len(data) <= MaxLen /\ 0 <= Len(data)
  <2>1. data \in Seq(Bytes) /\ Len(data) <= MaxLen
    BY Bounded DEF Buffers
  <2>2. QED
    BY <2>1 DEF FileData
<1>4. g.name = name /\ g.fd = BAD_FD /\ g.data = data /\ g.pos = 0
  BY DEF File
<1>5. g \in FileRecord
  BY <1>3 DEF File, FileRecord
<1> HIDE DEF g
<1>6. ListOK(files')
  BY <1>1, <1>2, <1>3, <1>4, <1>5, AddFile
<1>7. \A j \in DOMAIN files' : files'[j] = g \/ (j \in DOMAIN files /\ files'[j] = files[j])
  <2>1. /\ Len(files') = Len(files) + 1 /\ files'[Len(files) + 1] = g
        /\ \A j \in 1 .. Len(files) : files'[j] = files[j]
    BY <1>1, <1>5
  <2>2. Len(files) \in Nat /\ DOMAIN files = 1 .. Len(files) /\ DOMAIN files' = 1 .. Len(files')
    BY <1>1, <1>6 DEF ListOK
  <2>3. \A j \in DOMAIN files' : j \in 1 .. Len(files) \/ j = Len(files) + 1
    BY <2>1, <2>2
  <2>4. QED
    <3> SUFFICES ASSUME NEW j \in DOMAIN files'
                 PROVE  files'[j] = g \/ (j \in DOMAIN files /\ files'[j] = files[j])
      OBVIOUS
    <3>1. ASSUME j \in 1 .. Len(files) PROVE j \in DOMAIN files /\ files'[j] = files[j]
      BY <2>1, <2>2, <3>1
    <3>2. ASSUME j = Len(files) + 1 PROVE files'[j] = g
      BY <2>1, <3>2
    <3>3. j \in 1 .. Len(files) \/ j = Len(files) + 1
      BY <2>3
    <3>4. QED
      BY <3>1, <3>2, <3>3
<1>8. QED
  BY <1>4, <1>6, <1>7 DEF OpensAtStart

(* mb_fs_unmount takes a closed file out of the list.                      *)
LEMMA UnmountKeeps ==
  ASSUME ListOK(files), NEW name, Unmount(name)
  PROVE  ListOK(files') /\ (OpensAtStart => OpensAtStart')
<1>1. PICK k \in by_name(name) : files' = Without(k)
  BY DEF Unmount
<1>2. k \in DOMAIN files
  BY Found DEF ListOK
<1>3. ListOK(files') /\ \A i \in DOMAIN files' : \E j \in DOMAIN files : files'[i] = files[j]
  BY <1>1, <1>2, RemoveFile
<1>4. QED
  BY <1>3 DEF OpensAtStart

-----------------------------------------------------------------------------
(* The system.                                                             *)

(* The console's files are a good list.                                    *)
LEMMA FsInit ==
  ASSUME Init
  PROVE  ListOK(files) /\ OpensAtStart
<1> USE FsAssumption
<1> DEFINE a == File("/dev/stdin", 0, "EMPTY", <<>>, FALSE)
           b == File("/dev/stdout", 1, "SYSOUT", <<>>, FALSE)
           c == File("/dev/stderr", 2, "SYSOUT", <<>>, FALSE)
<1>1. files = <<a, b, c>>
  BY DEF Init
<1>2. <<>> \in FileData /\ Len(<<>>) = 0
  BY DEF FileData
<1>3. a \in FileRecord /\ b \in FileRecord /\ c \in FileRecord
  BY <1>2 DEF File, FileRecord
<1>4. /\ a.pos = 0 /\ b.pos = 0 /\ c.pos = 0
      /\ Len(a.data) = 0 /\ Len(b.data) = 0 /\ Len(c.data) = 0
      /\ a.name # b.name /\ a.name # c.name /\ b.name # c.name
      /\ a.fd = 0 /\ b.fd = 1 /\ c.fd = 2
  BY <1>2 DEF File
<1> HIDE DEF a, b, c
<1>5. /\ files \in Seq(FileRecord) /\ DOMAIN files = {1, 2, 3}
      /\ files[1] = a /\ files[2] = b /\ files[3] = c
  BY <1>1, <1>3
<1>6. QED
  BY <1>4, <1>5 DEF ListOK, OpensAtStart

(* Every call keeps the list good.                                         *)
LEMMA FsStep ==
  ASSUME ListOK(files), [Next]_files
  PROVE  ListOK(files') /\ (OpensAtStart /\ Fds \subseteq Nat => OpensAtStart')
<1>0. \A fd \in Fds : Fds \subseteq Nat => fd # BAD_FD
  BY DEF BAD_FD
<1>1. ASSUME HostCalls PROVE ListOK(files') /\ (OpensAtStart => OpensAtStart')
  BY <1>1, MountKeeps, UnmountKeeps DEF HostCalls
<1>2. ASSUME NEW fd \in Fds, \E size \in 0 .. MaxLen : TruncateFd(fd, size)
      PROVE  ListOK(files') /\ (OpensAtStart => OpensAtStart')
  BY <1>2, FsAssumption, TruncateKeeps DEF TruncateFd
<1>3. ASSUME GuestCalls
      PROVE  ListOK(files') /\ (OpensAtStart /\ Fds \subseteq Nat => OpensAtStart')
  <2>1. ASSUME NEW fd \in Fds, NEW k \in by_fd(fd), NEW d, NEW p, Puts(k, d, p)
        PROVE  ListOK(files') /\ (OpensAtStart /\ Fds \subseteq Nat => OpensAtStart')
    BY <1>0, <2>1, OpenFileKeeps
  <2>2. ASSUME NEW fd \in Fds, NEW n \in 0 .. MaxLen, Read(fd, n)
        PROVE  ListOK(files') /\ (OpensAtStart /\ Fds \subseteq Nat => OpensAtStart')
    BY <2>1, <2>2, ReadPuts
  <2>3. ASSUME NEW fd \in Fds, NEW buf \in Buffers, Write(fd, buf)
        PROVE  ListOK(files') /\ (OpensAtStart /\ Fds \subseteq Nat => OpensAtStart')
    BY <2>1, <2>3, WritePuts
  <2>4. ASSUME NEW fd \in Fds, NEW offset \in -MaxLen .. MaxLen,
               NEW whence \in {"SEEK_SET", "SEEK_CUR", "SEEK_END"}, Seek(fd, offset, whence)
        PROVE  ListOK(files') /\ (OpensAtStart /\ Fds \subseteq Nat => OpensAtStart')
    BY <2>1, <2>4, SeekPuts
  <2>5. QED
    BY <1>2, <1>3, <2>2, <2>3, <2>4, OpenKeeps, CloseKeeps, TruncateKeeps DEF GuestCalls
<1>4. ASSUME UNCHANGED files PROVE ListOK(files') /\ (OpensAtStart => OpensAtStart')
  BY <1>4 DEF OpensAtStart
<1>5. QED
  BY <1>1, <1>3, <1>4 DEF Next

(* The list is good in every state.                                        *)
THEOREM FsInvariance == Spec => []ListOK(files)
<1>1. Init => ListOK(files)
  BY FsInit
<1>2. ListOK(files) /\ [Next]_files => ListOK(files)'
  BY FsStep
<1>3. QED
  BY <1>1, <1>2, PTL DEF Spec

(* Lengths and descriptors have their types, within any bound MaxLen.      *)
THEOREM FsTypes == Spec => []TypeOK
<1>1. ASSUME ListOK(files) PROVE TypeOK
  <2> SUFFICES ASSUME NEW i \in DOMAIN files
               PROVE  /\ files[i].fd \in {BAD_FD} \cup Nat
                      /\ files[i].kind \in {"EMPTY", "SYSOUT", "REGULAR"}
                      /\ files[i].data \in Content
                      /\ files[i].pos \in Nat
                      /\ files[i].writable \in BOOLEAN
    BY DEF TypeOK
  <2>1. files[i] \in FileRecord /\ Len(files[i].data) <= MaxLen
    BY <1>1 DEF ListOK
  <2>2. files[i].data \in Seq(Bytes \cup {Garbage})
    BY <2>1 DEF FileRecord, FileData
  <2>3. files[i].data \in Content
    BY <2>1, <2>2, Bounded DEF Content
  <2>4. QED
    BY <2>1, <2>3 DEF FileRecord
<1>2. QED
  BY <1>1, FsInvariance, PTL

(* No position is behind the end of its file, whatever descriptors the     *)
(* guest passes, however many files are mounted and however long they are. *)
THEOREM PositionsStay == Spec => []PositionsInFiles
<1>1. ListOK(files) => PositionsInFiles
  BY DEF ListOK, PositionsInFiles
<1>2. QED
  BY <1>1, FsInvariance, PTL

(* Names and open descriptors stay unique in lists of any length.          *)
THEOREM MatchesStayUnique == Spec => []MatchesAreUnique
<1>1. ListOK(files) => MatchesAreUnique
  BY DEF ListOK, MatchesAreUnique
<1>2. QED
  BY <1>1, FsInvariance, PTL

(* Files open at their start if guests pass no negative descriptors; the   *)
(* run fs_closed shows that the condition is needed.                       *)
THEOREM FilesOpenAtStart ==
  ASSUME Fds \subseteq Nat
  PROVE  Spec => []OpensAtStart
<1> DEFINE Inv == ListOK(files) /\ OpensAtStart
<1>1. Init => Inv
  BY FsInit
<1>2. Inv /\ [Next]_files => Inv'
  BY FsStep
<1>3. QED
  BY <1>1, <1>2, PTL DEF Spec

-----------------------------------------------------------------------------
(* The list implements the table of descriptors.                           *)

(* What shows of a good list, by name and by descriptor.                   *)
LEMMA Shows ==
  ASSUME NEW fs, ListOK(fs)
  PROVE  /\ DOMAIN FilesOf(fs) = {fs[i].name : i \in DOMAIN fs}
         /\ \A i \in DOMAIN fs : FilesOf(fs)[fs[i].name] = View(fs[i])
         /\ DOMAIN TableOf(fs) = {fs[i].fd : i \in DOMAIN fs} \ {BAD_FD}
         /\ \A i \in DOMAIN fs : fs[i].fd # BAD_FD => TableOf(fs)[fs[i].fd] = Place(fs[i])
<1>1. DOMAIN FilesOf(fs) = {fs[i].name : i \in DOMAIN fs}
  BY DEF FilesOf
<1>2. DOMAIN TableOf(fs) = {fs[i].fd : i \in DOMAIN fs} \ {BAD_FD}
  BY DEF TableOf
<1>3. ASSUME NEW i \in DOMAIN fs PROVE FilesOf(fs)[fs[i].name] = View(fs[i])
  <2> DEFINE c == CHOOSE j \in DOMAIN fs : fs[j].name = fs[i].name
  <2>1. c \in DOMAIN fs /\ fs[c].name = fs[i].name
    BY Zenon
  <2>2. c = i
    BY <2>1 DEF ListOK
  <2>3. FilesOf(fs)[fs[i].name] = View(fs[c])
    BY <1>1, Zenon DEF FilesOf
  <2>4. QED
    BY <2>2, <2>3, Zenon
<1>4. ASSUME NEW i \in DOMAIN fs, fs[i].fd # BAD_FD PROVE TableOf(fs)[fs[i].fd] = Place(fs[i])
  <2> DEFINE c == CHOOSE j \in DOMAIN fs : fs[j].fd = fs[i].fd
  <2>1. c \in DOMAIN fs /\ fs[c].fd = fs[i].fd
    BY Zenon
  <2>2. c = i
    BY <1>4, <2>1 DEF ListOK
  <2>3. fs[i].fd \in {fs[j].fd : j \in DOMAIN fs} \ {BAD_FD}
    BY <1>4
  <2>4. TableOf(fs)[fs[i].fd] = Place(fs[c])
    BY <2>3, Zenon DEF TableOf
  <2>5. QED
    BY <2>2, <2>4, Zenon
<1>5. QED
  BY <1>1, <1>2, <1>3, <1>4

(* That determines what shows.                                             *)
LEMMA FilesAre ==
  ASSUME NEW fs, ListOK(fs), NEW F, F = [n \in DOMAIN F |-> F[n]],
         DOMAIN F = {fs[i].name : i \in DOMAIN fs},
         \A i \in DOMAIN fs : F[fs[i].name] = View(fs[i])
  PROVE  FilesOf(fs) = F
<1> DEFINE G == FilesOf(fs)
<1>1. /\ DOMAIN G = {fs[i].name : i \in DOMAIN fs}
      /\ \A i \in DOMAIN fs : G[fs[i].name] = View(fs[i])
  BY Shows, Zenon
<1>2. G = [n \in DOMAIN G |-> G[n]]
  BY DEF FilesOf
<1> HIDE DEF G
<1>3. ASSUME NEW n \in DOMAIN F PROVE G[n] = F[n]
  <2>1. PICK i \in DOMAIN fs : n = fs[i].name
    OBVIOUS
  <2>2. QED
    BY <1>1, <2>1
<1>4. G = F
  BY <1>1, <1>2, <1>3
<1>5. QED
  BY <1>4 DEF G

LEMMA TableIs ==
  ASSUME NEW fs, ListOK(fs), NEW T, T = [fd \in DOMAIN T |-> T[fd]],
         DOMAIN T = {fs[i].fd : i \in DOMAIN fs} \ {BAD_FD},
         \A i \in DOMAIN fs : fs[i].fd # BAD_FD => T[fs[i].fd] = Place(fs[i])
  PROVE  TableOf(fs) = T
<1> DEFINE G == TableOf(fs)
<1>1. /\ DOMAIN G = {fs[i].fd : i \in DOMAIN fs} \ {BAD_FD}
      /\ \A i \in DOMAIN fs : fs[i].fd # BAD_FD => G[fs[i].fd] = Place(fs[i])
  BY Shows, Zenon
<1>2. G = [fd \in DOMAIN G |-> G[fd]]
  BY DEF TableOf
<1> HIDE DEF G
<1>3. ASSUME NEW fd \in DOMAIN T PROVE G[fd] = T[fd]
  <2>1. PICK i \in DOMAIN fs : fd = fs[i].fd
    OBVIOUS
  <2>2. QED
    BY <1>1, <2>1
<1>4. G = T
  BY <1>1, <1>2, <1>3
<1>5. QED
  BY <1>4 DEF G

(* The name of a closed file is not in the table.                          *)
LEMMA ClosedShows ==
  ASSUME ListOK(files), NEW k \in DOMAIN files, files[k].fd = BAD_FD
  PROVE  ~Table!IsOpen(files[k].name)
<1> SUFFICES ASSUME NEW fd \in DOMAIN TableOf(files), TableOf(files)[fd].name = files[k].name
             PROVE  FALSE
  BY DEF Table!IsOpen
<1>1. PICK i \in DOMAIN files : files[i].fd = fd /\ fd # BAD_FD
  BY DEF TableOf
<1>2. TableOf(files)[fd] = Place(files[i])
  BY <1>1, Shows, Zenon
<1>3. files[i].name = files[k].name
  BY <1>2 DEF Place
<1>4. QED
  BY <1>1, <1>3 DEF ListOK

(* One file is replaced, by another of the same name.                      *)
Replaces(k, g) == files' = [files EXCEPT ![k] = g]

LEMMA ReplaceShowsFiles ==
  ASSUME ListOK(files), ListOK(files'), NEW k \in DOMAIN files, NEW g,
         Replaces(k, g), g.name = files[k].name
  PROVE  FilesOf(files') = [FilesOf(files) EXCEPT ![g.name] = View(g)]
<1> DEFINE F == FilesOf(files)
           G == [F EXCEPT ![g.name] = View(g)]
<1>1. /\ DOMAIN files' = DOMAIN files /\ files'[k] = g
      /\ \A j \in DOMAIN files : j # k => files'[j] = files[j]
  BY DEF Replaces
<1>2. /\ DOMAIN F = {files[i].name : i \in DOMAIN files}
      /\ \A i \in DOMAIN files : F[files[i].name] = View(files[i])
  BY Shows, Zenon
<1> HIDE DEF F
<1>3. DOMAIN G = {files'[i].name : i \in DOMAIN files'}
  <2>1. \A i \in DOMAIN files : files'[i].name = files[i].name
    BY <1>1
  <2>2. QED
    BY <1>1, <1>2, <2>1
<1>4. ASSUME NEW i \in DOMAIN files' PROVE G[files'[i].name] = View(files'[i])
  <2>1. g.name \in DOMAIN F
    BY <1>2
  <2>2. CASE i = k
    BY <1>1, <2>1, <2>2
  <2>3. CASE i # k
    <3>1. files[i].name # g.name /\ files[i].name \in DOMAIN F /\ files'[i] = files[i]
      BY <1>1, <1>2, <2>3 DEF ListOK
    <3>2. QED
      BY <1>1, <1>2, <3>1
  <2>4. QED
    BY <2>2, <2>3
<1>5. G = [n \in DOMAIN G |-> G[n]]
  OBVIOUS
<1> HIDE DEF G
<1>6. \A i \in DOMAIN files' : G[files'[i].name] = View(files'[i])
  BY <1>4
<1>7. FilesOf(files') = G
  BY <1>3, <1>5, <1>6, FilesAre, Zenon
<1>8. QED
  BY <1>7 DEF F, G

(* The table gets a place for it, loses its place or keeps it.             *)
LEMMA ReplaceShowsTable ==
  ASSUME ListOK(files), ListOK(files'), NEW k \in DOMAIN files, NEW g,
         Replaces(k, g),
         NEW T, T = [fd \in DOMAIN T |-> T[fd]],
         DOMAIN T = ((DOMAIN TableOf(files) \ {files[k].fd}) \cup {g.fd}) \ {BAD_FD},
         g.fd # BAD_FD => T[g.fd] = Place(g),
         \A fd \in DOMAIN T : fd # g.fd => T[fd] = TableOf(files)[fd]
  PROVE  TableOf(files') = T
<1> DEFINE O == TableOf(files)
<1>1. /\ DOMAIN files' = DOMAIN files /\ files'[k] = g
      /\ \A j \in DOMAIN files : j # k => files'[j] = files[j]
  BY DEF Replaces
<1>2. /\ DOMAIN O = {files[i].fd : i \in DOMAIN files} \ {BAD_FD}
      /\ \A i \in DOMAIN files : files[i].fd # BAD_FD => O[files[i].fd] = Place(files[i])
  BY Shows, Zenon
<1>3. /\ DOMAIN T = ((DOMAIN O \ {files[k].fd}) \cup {g.fd}) \ {BAD_FD}
      /\ \A fd \in DOMAIN T : fd # g.fd => T[fd] = O[fd]
  OBVIOUS
<1> HIDE DEF O
<1>4. ASSUME NEW j \in DOMAIN files, j # k, files[j].fd # BAD_FD
      PROVE  files[j].fd # files[k].fd /\ files[j].fd # g.fd
  <2>1. files'[j].fd # files'[k].fd
    BY <1>1, <1>4 DEF ListOK
  <2>2. QED
    BY <1>1, <1>4, <2>1 DEF ListOK
<1>5. DOMAIN T = {files'[i].fd : i \in DOMAIN files'} \ {BAD_FD}
  <2>1. ASSUME NEW fd \in DOMAIN T PROVE \E i \in DOMAIN files' : fd = files'[i].fd
    <3>1. CASE fd = g.fd
      BY <1>1, <3>1
    <3>2. CASE fd # g.fd
      <4>1. PICK i \in DOMAIN files : fd = files[i].fd /\ fd # files[k].fd
        BY <1>2, <1>3, <3>2, Zenon
      <4>2. i # k /\ files'[i] = files[i]
        BY <1>1, <4>1
      <4>3. QED
        BY <1>1, <4>1, <4>2
    <3>3. QED
      BY <3>1, <3>2
  <2>2. ASSUME NEW i \in DOMAIN files', files'[i].fd # BAD_FD PROVE files'[i].fd \in DOMAIN T
    <3>1. CASE i = k
      BY <1>1, <1>3, <2>2, <3>1
    <3>2. CASE i # k
      <4>1. files'[i] = files[i] /\ files[i].fd \in DOMAIN O /\ files[i].fd # files[k].fd
        BY <1>1, <1>2, <1>4, <2>2, <3>2
      <4>2. QED
        BY <1>3, <2>2, <4>1
    <3>3. QED
      BY <3>1, <3>2
  <2>3. BAD_FD \notin DOMAIN T
    BY <1>3
  <2>4. QED
    BY <2>1, <2>2, <2>3
<1>6. ASSUME NEW i \in DOMAIN files', files'[i].fd # BAD_FD
      PROVE  T[files'[i].fd] = Place(files'[i])
  <2>1. CASE i = k
    BY <1>1, <1>6, <2>1
  <2>2. CASE i # k
    <3>1. i \in DOMAIN files /\ files'[i] = files[i] /\ files[i].fd # BAD_FD
      BY <1>1, <1>6, <2>2
    <3>2. files[i].fd # g.fd /\ O[files[i].fd] = Place(files[i])
      BY <1>2, <1>4, <2>2, <3>1
    <3>3. files[i].fd \in DOMAIN T
      BY <1>5, <1>6, <3>1, Zenon
    <3>4. QED
      BY <1>3, <3>1, <3>2, <3>3
  <2>3. QED
    BY <2>1, <2>2
<1>7. \A i \in DOMAIN files' : files'[i].fd # BAD_FD => T[files'[i].fd] = Place(files'[i])
  BY <1>6
<1> HIDE DEF O
<1>8. QED
  BY <1>5, <1>7, TableIs

(* A new content shows under the name, a new position under the            *)
(* descriptor.                                                             *)
LEMMA PutShows ==
  ASSUME ListOK(files), NEW k, NEW d, NEW p, Puts(k, d, p)
  PROVE  /\ FilesOf(files') = [FilesOf(files) EXCEPT ![files[k].name].data = d]
         /\ files[k].fd # BAD_FD =>
              TableOf(files') = [TableOf(files) EXCEPT ![files[k].fd].pos = p]
         /\ files[k].fd = BAD_FD => TableOf(files') = TableOf(files)
<1> DEFINE f == files[k]
           g == NewContent(f, d, p)
           F == FilesOf(files)
           O == TableOf(files)
<1>1. k \in DOMAIN files /\ f \in FileRecord /\ d \in FileData /\ p \in Nat
  BY DEF Puts, ListOK
<1>2. Replaces(k, g)
  BY DEF Puts, Replaces
<1>3. ListOK(files')
  BY PutKeeps
<1>4. /\ g \in FileRecord /\ g.name = f.name /\ g.fd = f.fd /\ g.data = d /\ g.pos = p
      /\ g.kind = f.kind /\ g.writable = f.writable
  BY <1>1, NewContentIs
<1> HIDE DEF g, f
<1>5. View(g) = [View(f) EXCEPT !.data = d] /\ Place(g) = [Place(f) EXCEPT !.pos = p]
  BY <1>4 DEF View, Place, can_read, can_write
<1>6. F[f.name] = View(f) /\ (f.fd # BAD_FD => f.fd \in DOMAIN O /\ O[f.fd] = Place(f))
  <2>1. /\ \A i \in DOMAIN files : F[files[i].name] = View(files[i])
        /\ DOMAIN O = {files[i].fd : i \in DOMAIN files} \ {BAD_FD}
        /\ \A i \in DOMAIN files : files[i].fd # BAD_FD => O[files[i].fd] = Place(files[i])
    BY Shows, Zenon
  <2> HIDE DEF F, O
  <2>2. QED
    BY <1>1, <2>1 DEF f
<1>7. FilesOf(files') = [F EXCEPT ![f.name] = View(g)]
  BY <1>1, <1>2, <1>3, <1>4, ReplaceShowsFiles, Zenon DEF f
<1>8. O = [fd \in DOMAIN O |-> O[fd]] /\ BAD_FD \notin DOMAIN O
  BY DEF TableOf
<1>9. ASSUME f.fd # BAD_FD PROVE TableOf(files') = [O EXCEPT ![f.fd].pos = p]
  <2> DEFINE T == [O EXCEPT ![f.fd].pos = p]
  <2>1. /\ T = [fd \in DOMAIN T |-> T[fd]] /\ DOMAIN T = DOMAIN O
        /\ \A fd \in DOMAIN T : fd # f.fd => T[fd] = O[fd]
    OBVIOUS
  <2>2. T[f.fd] = Place(g)
    BY <1>5, <1>6, <1>9
  <2> HIDE DEF T, O
  <2>3. DOMAIN T = ((DOMAIN O \ {files[k].fd}) \cup {g.fd}) \ {BAD_FD}
    BY <1>4, <1>6, <1>8, <1>9, <2>1 DEF f
  <2>4. TableOf(files') = T
    BY <1>1, <1>2, <1>3, <1>4, <2>1, <2>2, <2>3, ReplaceShowsTable DEF O
  <2>5. QED
    BY <2>4 DEF T
<1>10. ASSUME f.fd = BAD_FD PROVE TableOf(files') = O
  <2> HIDE DEF O
  <2>1. /\ DOMAIN O = ((DOMAIN O \ {files[k].fd}) \cup {g.fd}) \ {BAD_FD}
        /\ g.fd = BAD_FD
    BY <1>4, <1>8, <1>10 DEF f
  <2>2. QED
    BY <1>1, <1>2, <1>3, <1>8, <2>1, ReplaceShowsTable DEF O
<1>11. FilesOf(files') = [F EXCEPT ![f.name].data = d]
  BY <1>5, <1>6, <1>7
<1>12. QED
  BY <1>9, <1>10, <1>11 DEF f

(* A content that stays shows no change.                                   *)
LEMMA SameContent ==
  ASSUME ListOK(files), NEW k \in DOMAIN files
  PROVE  [FilesOf(files) EXCEPT ![files[k].name].data = files[k].data] = FilesOf(files)
<1> DEFINE F == FilesOf(files)
           n == files[k].name
<1>1. F[n] = View(files[k]) /\ F = [m \in DOMAIN F |-> F[m]]
  <2>1. F = [m \in DOMAIN F |-> F[m]]
    BY DEF FilesOf
  <2>2. QED
    BY <2>1, Shows, Zenon
<1> HIDE DEF F, n
<1>2. [F[n] EXCEPT !.data = files[k].data] = F[n]
  BY <1>1 DEF View
<1>3. QED
  BY <1>1, <1>2 DEF F, n

(* What shows of the file that a descriptor finds.                         *)
LEMMA FoundShows ==
  ASSUME ListOK(files), NEW fd \in Nat, NEW k \in by_fd(fd)
  PROVE  /\ k \in DOMAIN files /\ files[k].fd = fd /\ fd # BAD_FD
         /\ fd \in DOMAIN TableOf(files)
         /\ TableOf(files)[fd].name = files[k].name /\ TableOf(files)[fd].pos = files[k].pos
         /\ FilesOf(files)[files[k].name] = View(files[k])
<1>1. k \in DOMAIN files /\ files[k].fd = fd /\ fd # BAD_FD
  BY Found DEF ListOK, BAD_FD
<1>2. /\ DOMAIN TableOf(files) = {files[i].fd : i \in DOMAIN files} \ {BAD_FD}
      /\ \A i \in DOMAIN files : files[i].fd # BAD_FD => TableOf(files)[files[i].fd] = Place(files[i])
      /\ \A i \in DOMAIN files : FilesOf(files)[files[i].name] = View(files[i])
  BY Shows, Zenon
<1>3. fd \in DOMAIN TableOf(files) /\ TableOf(files)[fd] = Place(files[k])
  BY <1>1, <1>2
<1>4. QED
  BY <1>1, <1>2, <1>3 DEF Place

(* A read or a seek is a move.                                             *)
LEMMA MoveShows ==
  ASSUME ListOK(files), NEW fd \in Nat, NEW k \in by_fd(fd), NEW p, Puts(k, files[k].data, p)
  PROVE  Table!Next
<1>1. /\ k \in DOMAIN files /\ files[k].fd = fd /\ fd # BAD_FD
      /\ fd \in DOMAIN TableOf(files) /\ TableOf(files)[fd].name = files[k].name
      /\ FilesOf(files)[files[k].name] = View(files[k])
  BY FoundShows
<1>2. p \in 0 .. Len(FilesOf(files)[TableOf(files)[fd].name].data)
  <2>1. p \in Nat /\ p <= Len(files[k].data) /\ Len(files[k].data) \in Nat
    BY FoundFile DEF Puts
  <2>2. FilesOf(files)[files[k].name].data = files[k].data
    BY <1>1 DEF View
  <2>3. QED
    BY <1>1, <2>1, <2>2
<1>3. /\ FilesOf(files') = FilesOf(files)
      /\ TableOf(files') = [TableOf(files) EXCEPT ![fd].pos = p]
  <2>1. /\ FilesOf(files') = [FilesOf(files) EXCEPT ![files[k].name].data = files[k].data]
        /\ files[k].fd # BAD_FD => TableOf(files') = [TableOf(files) EXCEPT ![files[k].fd].pos = p]
    BY PutShows
  <2>2. QED
    BY <1>1, <2>1, SameContent, Zenon
<1>4. Table!Move(fd)
  BY <1>2, <1>3, Zenon DEF Table!Move
<1>5. QED
  BY <1>1, <1>4 DEF Table!Next

(* The bytes of Overwritten are those that FileTable puts together.        *)
LEMMA OverwrittenIs ==
  ASSUME NEW data \in FileData, NEW pos \in Nat, pos <= Len(data), NEW buf \in Seq(Bytes)
  PROVE  Overwritten(data, pos, buf) =
           SubSeq(data, 1, pos) \o buf \o SubSeq(data, pos + Len(buf) + 1, Len(data))
<1> DEFINE S == Bytes \cup {Garbage}
           m == Len(data)
           l == Len(buf)
           n == Max({m, pos + l})
           a == SubSeq(data, 1, pos)
           c == SubSeq(data, pos + l + 1, m)
           lc == IF pos + l < m THEN m - (pos + l) ELSE 0
           w == Overwritten(data, pos, buf)
<1>1. /\ m \in Nat /\ l \in Nat /\ pos + l \in Nat /\ data \in Seq(S) /\ buf \in Seq(S)
      /\ \A i \in 1 .. m : data[i] \in S
  BY DEF FileData
<1>2. n = IF m >= pos + l THEN m ELSE pos + l
  BY <1>1, MaxIs
<1>3. a \in Seq(S) /\ Len(a) = pos /\ \A i \in 1 .. pos : a[i] = data[i]
  <2>1. 1 \in Int /\ pos \in Int /\ \A i \in 1 .. pos : data[i] \in S
    BY <1>1
  <2>2. /\ a \in Seq(S) /\ Len(a) = (IF 1 <= pos THEN pos - 1 + 1 ELSE 0)
        /\ \A i \in 1 .. pos - 1 + 1 : a[i] = data[1 + i - 1]
    BY <1>1, <2>1
  <2> HIDE DEF a
  <2>3. QED
    BY <2>2
<1>4. c \in Seq(S) /\ Len(c) = lc /\ \A i \in 1 .. lc : c[i] = data[pos + l + i]
  <2>1. pos + l + 1 \in Int /\ m \in Int /\ \A i \in pos + l + 1 .. m : data[i] \in S
    BY <1>1
  <2>2. /\ c \in Seq(S) /\ Len(c) = (IF pos + l + 1 <= m THEN m - (pos + l + 1) + 1 ELSE 0)
        /\ \A i \in 1 .. m - (pos + l + 1) + 1 : c[i] = data[pos + l + 1 + i - 1]
    BY <1>1, <2>1
  <2> HIDE DEF c, m, l
  <2>3. Len(c) = lc /\ lc \in Nat
    BY <1>1, <2>2
  <2>4. ASSUME NEW i \in 1 .. lc PROVE c[i] = data[pos + l + i]
    <3>1. i \in 1 .. m - (pos + l + 1) + 1 /\ pos + l + 1 + i - 1 = pos + l + i
      BY <1>1
    <3>2. QED
      BY <2>2, <3>1
  <2>5. QED
    BY <2>2, <2>3, <2>4
<1>5. /\ w = [i \in 1 .. n |-> IF i > pos /\ i <= pos + l THEN buf[i - pos]
                              ELSE IF i <= m THEN data[i] ELSE Garbage]
  BY DEF Overwritten
<1> HIDE DEF a, c, m, n, w
<1> DEFINE b == a \o buf
           e == b \o c
<1>6. /\ b \in Seq(S) /\ Len(b) = pos + l
      /\ \A i \in 1 .. pos + l : b[i] = IF i <= pos THEN a[i] ELSE buf[i - pos]
  <2> HIDE DEF S
  <2>1. /\ b \in Seq(S) /\ Len(b) = Len(a) + l
        /\ \A i \in 1 .. Len(a) + l : b[i] = IF i <= Len(a) THEN a[i] ELSE buf[i - Len(a)]
    BY <1>1, <1>3, Joined, Zenon
  <2> HIDE DEF b
  <2>2. QED
    BY <1>1, <1>3, <2>1
<1> HIDE DEF b
<1>7. /\ e \in Seq(S) /\ Len(e) = pos + l + lc
      /\ \A i \in 1 .. pos + l + lc : e[i] = IF i <= pos + l THEN b[i] ELSE c[i - (pos + l)]
  <2> HIDE DEF l, lc, S
  <2>1. /\ e \in Seq(S) /\ Len(e) = Len(b) + Len(c)
        /\ \A i \in 1 .. Len(b) + Len(c) : e[i] = IF i <= Len(b) THEN b[i] ELSE c[i - Len(b)]
    BY <1>1, <1>4, <1>6, Joined, Zenon
  <2> HIDE DEF e
  <2>2. QED
    BY <1>4, <1>6, <2>1
<1> HIDE DEF l, e
<1>8. n = pos + l + lc /\ n \in Nat /\ lc \in Nat
  BY <1>1, <1>2
<1>9. ASSUME NEW i \in 1 .. n PROVE w[i] = e[i]
  <2>1. w[i] = IF i > pos /\ i <= pos + l THEN buf[i - pos] ELSE IF i <= m THEN data[i] ELSE Garbage
    BY <1>5
  <2>2. e[i] = IF i <= pos + l THEN b[i] ELSE c[i - (pos + l)]
    BY <1>7, <1>8, Zenon
  <2>3. i <= pos + l => b[i] = IF i <= pos THEN a[i] ELSE buf[i - pos]
    BY <1>1, <1>6, <1>8
  <2> HIDE DEF lc
  <2>4. CASE i <= pos
    <3>1. i <= m /\ i <= pos + l /\ ~(i > pos) /\ i \in 1 .. pos
      BY <1>1, <1>8, <2>4 DEF m
    <3>2. QED
      BY <1>3, <2>1, <2>2, <2>3, <3>1
  <2>5. CASE i > pos /\ i <= pos + l
    BY <1>1, <1>8, <2>1, <2>2, <2>3, <2>5
  <2>6. CASE i > pos + l
    <3>1. i - (pos + l) \in 1 .. lc /\ pos + l + (i - (pos + l)) = i /\ i <= m
      BY <1>1, <1>8, <2>6 DEF lc
    <3>2. ~(i <= pos + l)
      BY <1>1, <1>8, <2>6
    <3>3. QED
      BY <1>4, <2>1, <2>2, <3>1, <3>2
  <2>7. i <= pos \/ (i > pos /\ i <= pos + l) \/ i > pos + l
    BY <1>1, <1>8
  <2>8. QED
    BY <2>4, <2>5, <2>6, <2>7
<1> HIDE DEF lc
<1>10. w = e
  <2>1. e = [i \in 1 .. n |-> e[i]]
    BY <1>7, <1>8
  <2>2. w = [i \in 1 .. n |-> w[i]]
    BY <1>5
  <2>3. QED
    BY <1>9, <2>1, <2>2
<1>11. QED
  BY <1>10 DEF w, e, b, a, c, l, m

(* What shows of a regular, writable file.                                 *)
LEMMA ViewOfWritable ==
  ASSUME NEW f, f.kind = "REGULAR", f.writable
  PROVE  View(f).data = f.data /\ View(f).regular /\ View(f).write
BY Zenon DEF View, can_write

(* A write is a write.                                                     *)
LEMMA WriteShows ==
  ASSUME ListOK(files), NEW fd \in Nat, NEW buf \in Buffers, Write(fd, buf)
  PROVE  Table!Next
<1> DEFINE F == FilesOf(files)
           O == TableOf(files)
<1>1. PICK k \in by_fd(fd) :
        /\ files[k].kind = "REGULAR" /\ files[k].writable
        /\ Puts(k, Overwritten(files[k].data, files[k].pos, buf), files[k].pos + Len(buf))
  BY WritePuts
<1>2. /\ k \in DOMAIN files /\ files[k].fd = fd /\ fd # BAD_FD /\ fd \in DOMAIN O
      /\ O[fd].name = files[k].name /\ O[fd].pos = files[k].pos
      /\ F[files[k].name] = View(files[k])
  BY FoundShows
<1>3. /\ F[O[fd].name].data = files[k].data
      /\ F[O[fd].name].regular /\ F[O[fd].name].write
  <2>1. View(files[k]).data = files[k].data /\ View(files[k]).regular /\ View(files[k]).write
    BY <1>1, ViewOfWritable, Zenon
  <2> HIDE DEF F, O
  <2>2. QED
    BY <1>2, <2>1, Zenon
<1>4. /\ FilesOf(files') = [F EXCEPT ![files[k].name].data = Overwritten(files[k].data, files[k].pos, buf)]
      /\ TableOf(files') = [O EXCEPT ![fd].pos = files[k].pos + Len(buf)]
  <2> DEFINE d == Overwritten(files[k].data, files[k].pos, buf)
             q == files[k].pos + Len(buf)
  <2>1. Puts(k, d, q)
    BY <1>1
  <2> HIDE DEF d, q
  <2>2. /\ FilesOf(files') = [F EXCEPT ![files[k].name].data = d]
        /\ files[k].fd # BAD_FD => TableOf(files') = [O EXCEPT ![files[k].fd].pos = q]
    BY <2>1, PutShows
  <2>3. QED
    BY <1>2, <2>2 DEF d, q
<1>5. buf \in Seq(Bytes) /\ Len(buf) <= MaxLen
  <2>1. buf \in UpToMaxLen(Bytes)
    BY DEF Buffers
  <2>2. QED
    BY <2>1, Bounded, Zenon
<1>6. buf \in Content
  <2>1. buf \in Seq(Bytes \cup {Garbage})
    BY <1>5
  <2>2. QED
    BY <1>5, <2>1, Bounded DEF Content
<1>7. files[k].data \in FileData /\ files[k].pos \in Nat /\ files[k].pos <= Len(files[k].data)
  BY FoundFile
<1> DEFINE p == O[fd].pos
           new(d) == SubSeq(d, 1, p) \o buf \o SubSeq(d, p + Len(buf) + 1, Len(d))
<1>8. Overwritten(files[k].data, files[k].pos, buf) = new(files[k].data)
  <2> DEFINE d == files[k].data
             q == files[k].pos
  <2>1. d \in FileData /\ q \in Nat /\ q <= Len(d) /\ p = q
    BY <1>2, <1>7
  <2> HIDE DEF d, q, p
  <2>2. Overwritten(d, q, buf) = SubSeq(d, 1, q) \o buf \o SubSeq(d, q + Len(buf) + 1, Len(d))
    BY <1>5, <2>1, OverwrittenIs, Zenon
  <2>3. QED
    BY <2>1, <2>2, Zenon DEF d, q
<1> HIDE DEF F, O
<1>9. /\ FilesOf(files') = [F EXCEPT ![O[fd].name].data = new(@)]
      /\ TableOf(files') = [O EXCEPT ![fd].pos = p + Len(buf)]
  <2>1. F[O[fd].name].data = files[k].data /\ O[fd].name = files[k].name
    BY <1>2, <1>3
  <2> HIDE DEF new
  <2>2. QED
    BY <1>2, <1>4, <1>8, <2>1, Zenon
<1>10. Table!Write(fd)
  BY <1>3, <1>6, <1>9, Zenon DEF Table!Write, F, O
<1>11. QED
  BY <1>2, <1>10 DEF Table!Next, O

(* Only the descriptor of a file shows its name.                           *)
LEMMA PlaceOfName ==
  ASSUME ListOK(files), NEW k \in DOMAIN files, NEW fd \in DOMAIN TableOf(files)
  PROVE  TableOf(files)[fd].name = files[k].name <=> fd = files[k].fd
<1>1. PICK i \in DOMAIN files : files[i].fd = fd /\ fd # BAD_FD
  BY DEF TableOf
<1>2. TableOf(files)[fd] = Place(files[i])
  BY <1>1, Shows, Zenon
<1>3. TableOf(files)[fd].name = files[i].name
  BY <1>2 DEF Place
<1>4. QED
  BY <1>1, <1>3 DEF ListOK

(* A truncation is a truncation.                                           *)
LEMMA TruncateShows ==
  ASSUME ListOK(files), NEW name, NEW size \in 0 .. MaxLen, TruncateName(name, size)
  PROVE  Table!Next
<1> USE FsAssumption
<1> DEFINE F == FilesOf(files)
           O == TableOf(files)
<1>1. PICK k \in by_name(name), p \in Nat :
        /\ files[k].kind = "REGULAR" /\ files[k].writable
        /\ p = (IF files[k].pos <= size THEN files[k].pos ELSE size)
        /\ Puts(k, Cut(files[k].data, size), p)
  BY TruncatePuts
<1> DEFINE f == files[k]
           d == Cut(f.data, size)
<1>2. /\ k \in DOMAIN files /\ f.name = name /\ f.pos \in Nat
      /\ f.data \in FileData /\ Len(f.data) \in Nat /\ size \in Nat
  BY Found, FoundFile DEF ListOK
<1>3. F[name] = View(f) /\ name \in DOMAIN F
  <2>1. /\ DOMAIN F = {files[i].name : i \in DOMAIN files}
        /\ \A i \in DOMAIN files : F[files[i].name] = View(files[i])
    BY Shows, Zenon
  <2>2. QED
    BY <1>2, <2>1
<1>4. F[name].data = f.data /\ F[name].regular /\ F[name].write
  BY <1>1, <1>3, ViewOfWritable, Zenon
<1>5. d \in FileData /\ Len(d) <= MaxLen /\ d \in Content
  BY <1>1, Bounded DEF Puts, Content, FileData
<1>6. Len(d) = size /\ \A i \in DOMAIN d \cap DOMAIN f.data : d[i] = f.data[i]
  <2>1. DOMAIN d = 1 .. size /\ Len(d) \in Nat /\ DOMAIN d = 1 .. Len(d)
    BY <1>5 DEF Cut, FileData
  <2>2. \A i \in 1 .. size : d[i] = IF i <= Len(f.data) THEN f.data[i] ELSE Garbage
    BY DEF Cut
  <2>3. DOMAIN f.data = 1 .. Len(f.data)
    BY <1>2 DEF FileData
  <2> HIDE DEF d, f
  <2>4. QED
    BY <1>2, <2>1, <2>2, <2>3
<1>7. /\ FilesOf(files') = [F EXCEPT ![name].data = d]
      /\ f.fd # BAD_FD => TableOf(files') = [O EXCEPT ![f.fd].pos = p]
      /\ f.fd = BAD_FD => TableOf(files') = O
  <2>1. Puts(k, d, p)
    BY <1>1
  <2> HIDE DEF d
  <2>2. /\ FilesOf(files') = [F EXCEPT ![f.name].data = d]
        /\ f.fd # BAD_FD => TableOf(files') = [O EXCEPT ![f.fd].pos = p]
        /\ f.fd = BAD_FD => TableOf(files') = O
    BY <2>1, PutShows
  <2>3. QED
    BY <1>2, <2>2
<1> DEFINE T == [fd \in DOMAIN O |->
                   IF O[fd].name = name THEN [O[fd] EXCEPT !.pos = Table!Min({@, Len(d)})] ELSE O[fd]]
<1>8. TableOf(files') = T
  <2>1. O = [fd \in DOMAIN O |-> O[fd]] /\ BAD_FD \notin DOMAIN O
    BY DEF TableOf
  <2>2. \A fd \in DOMAIN O : O[fd].name = name <=> fd = f.fd
    BY <1>2, PlaceOfName
  <2>3. CASE f.fd = BAD_FD
    <3> HIDE DEF O, d, f
    <3>1. \A fd \in DOMAIN O : T[fd] = O[fd]
      BY <2>1, <2>2, <2>3
    <3>2. QED
      BY <1>7, <2>1, <2>3, <3>1
  <2>4. CASE f.fd # BAD_FD
    <3>1. f.fd \in DOMAIN O => O[f.fd].pos = f.pos
      <4>1. O[f.fd] = Place(f)
        BY <1>2, <2>4, Shows, Zenon
      <4>2. QED
        BY <4>1 DEF Place
    <3>2. Table!Min({f.pos, Len(d)}) = p
      <4>1. Table!Min({f.pos, Len(d)}) = Min({f.pos, Len(d)})
        BY DEF Table!Min, Min
      <4>2. QED
        BY <1>1, <1>2, <1>6, <4>1, MinOfTwo
    <3> HIDE DEF O, d, f
    <3>3. ASSUME NEW fd \in DOMAIN O PROVE T[fd] = [O EXCEPT ![f.fd].pos = p][fd]
      <4>1. CASE fd = f.fd
        BY <2>2, <3>1, <3>2, <4>1, Zenon
      <4>2. CASE fd # f.fd
        BY <2>2, <4>2
      <4>3. QED
        BY <4>1, <4>2
    <3>4. QED
      BY <1>7, <2>1, <2>4, <3>3, Zenon
  <2>5. QED
    BY <2>3, <2>4, Zenon
<1>9. Table!Truncate(name)
  <2> HIDE DEF d, f
  <2>1. \A i \in DOMAIN d \cap DOMAIN F[name].data : d[i] = F[name].data[i]
    BY <1>4, <1>6
  <2>2. QED
    BY <1>4, <1>5, <1>7, <1>8, <2>1, Zenon DEF Table!Truncate
<1>10. QED
  BY <1>3, <1>9 DEF Table!Next

(* A replaced file that looks the same by name.                            *)
LEMMA SameFiles ==
  ASSUME ListOK(files), ListOK(files'), NEW k \in DOMAIN files, NEW g, Replaces(k, g),
         g.name = files[k].name, View(g) = View(files[k])
  PROVE  FilesOf(files') = FilesOf(files)
<1> DEFINE F == FilesOf(files)
<1>1. F = [n \in DOMAIN F |-> F[n]]
  BY DEF FilesOf
<1>2. F[g.name] = View(files[k])
  BY Shows, Zenon
<1>3. FilesOf(files') = [F EXCEPT ![g.name] = View(g)]
  BY ReplaceShowsFiles, Zenon
<1> HIDE DEF F
<1>4. FilesOf(files') = F
  BY <1>1, <1>2, <1>3
<1>5. QED
  BY <1>4 DEF F

(* mb_fs_open takes the lowest descriptor that is not in the table.        *)
LEMMA OpenShows ==
  ASSUME ListOK(files), OpensAtStart, NEW name, NEW mode, Open(name, mode)
  PROVE  Table!Next
<1> DEFINE O == TableOf(files)
           fd == NewFd
<1>1. PICK k \in by_name(name) : files[k].fd = BAD_FD /\ files' = [files EXCEPT ![k].fd = NewFd]
  BY Zenon DEF Open
<1> DEFINE f == files[k]
           g == [f EXCEPT !.fd = fd]
<1>2. k \in DOMAIN files /\ f \in FileRecord /\ f.name = name /\ f.pos = 0 /\ files \in Seq(FileRecord)
  BY <1>1, Found DEF ListOK, OpensAtStart
<1>3. /\ fd \in Nat /\ \A i \in DOMAIN files : files[i].fd # fd
      /\ \A n \in 0 .. fd - 1 : \E i \in DOMAIN files : files[i].fd = n
  BY <1>2, NewFdIsFree
<1>4. Replaces(k, g) /\ ListOK(files')
  BY <1>1, OpenKeeps, Zenon DEF Replaces
<1> HIDE DEF fd
<1>5. /\ g.name = f.name /\ g.fd = fd /\ g.data = f.data /\ g.pos = f.pos
      /\ g.kind = f.kind /\ g.writable = f.writable
  BY <1>2, Zenon DEF FileRecord
<1> HIDE DEF g
<1>6. View(g) = View(f) /\ Place(g) = [name |-> name, pos |-> 0]
  BY <1>2, <1>5 DEF View, Place, can_read, can_write
<1>7. FilesOf(files') = FilesOf(files)
  BY <1>2, <1>4, <1>5, <1>6, SameFiles
<1>8. DOMAIN O = {files[i].fd : i \in DOMAIN files} \ {BAD_FD}
  BY Shows, Zenon
<1>9. fd \in Table!Lowest
  <2>1. fd \notin DOMAIN O /\ \A n \in 0 .. fd - 1 : n \in DOMAIN O
    BY <1>3, <1>8 DEF BAD_FD
  <2>2. fd \in {0} \cup {n + 1 : n \in DOMAIN O}
    <3>1. fd # 0 => fd - 1 \in 0 .. fd - 1 /\ fd = (fd - 1) + 1
      BY <1>3
    <3>2. QED
      BY <2>1, <3>1
  <2>3. QED
    BY <2>1, <2>2 DEF Table!Lowest
<1> DEFINE T == Table!With(O, fd, [name |-> name, pos |-> 0])
<1>10. TableOf(files') = T
  <2>1. /\ T = [x \in DOMAIN T |-> T[x]] /\ DOMAIN T = DOMAIN O \cup {fd}
        /\ T[fd] = [name |-> name, pos |-> 0]
        /\ \A x \in DOMAIN T : x # fd => T[x] = O[x]
    BY DEF Table!With
  <2> HIDE DEF T, O
  <2>2. fd # BAD_FD /\ BAD_FD \notin DOMAIN O
    BY <1>3, <1>8 DEF BAD_FD
  <2>3. DOMAIN T = ((DOMAIN O \ {f.fd}) \cup {g.fd}) \ {BAD_FD}
    BY <1>1, <1>5, <2>1, <2>2
  <2>4. g.fd # BAD_FD => T[g.fd] = Place(g)
    BY <1>5, <1>6, <2>1, Zenon
  <2>5. \A x \in DOMAIN T : x # g.fd => T[x] = O[x]
    BY <1>5, <2>1, Zenon
  <2>6. T = [x \in DOMAIN T |-> T[x]]
    BY <2>1
  <2>7. k \in DOMAIN files /\ Replaces(k, g) /\ ListOK(files')
    BY <1>2, <1>4
  <2>8. QED
    BY <2>3, <2>4, <2>5, <2>6, <2>7, ReplaceShowsTable DEF O
<1>11. ~Table!IsOpen(name)
  BY <1>1, <1>2, ClosedShows
<1>12. Table!Open(name)
  BY <1>7, <1>9, <1>10, <1>11 DEF Table!Open
<1>13. name \in DOMAIN FilesOf(files)
  BY <1>2 DEF FilesOf
<1>14. QED
  BY <1>12, <1>13 DEF Table!Next

(* mb_fs_close takes the descriptor out of the table.                      *)
LEMMA CloseShows ==
  ASSUME ListOK(files), NEW fd \in Nat, Close(fd)
  PROVE  Table!Next
<1> DEFINE O == TableOf(files)
<1>1. PICK k \in by_fd(fd) : files' = [files EXCEPT ![k].fd = BAD_FD, ![k].pos = 0]
  BY Zenon DEF Close
<1> DEFINE f == files[k]
           g == [f EXCEPT !.fd = BAD_FD, !.pos = 0]
<1>2. k \in DOMAIN files /\ f \in FileRecord /\ f.fd = fd /\ fd # BAD_FD /\ fd \in DOMAIN O
  BY FoundShows, FoundFile
<1>3. Replaces(k, g) /\ ListOK(files')
  <2>1. Replaces(k, g)
    BY <1>1, Zenon DEF Replaces
  <2>2. QED
    BY <2>1, CloseKeeps
<1>4. /\ g.name = f.name /\ g.fd = BAD_FD /\ g.data = f.data
      /\ g.kind = f.kind /\ g.writable = f.writable
  BY <1>2, Zenon DEF FileRecord
<1> HIDE DEF g
<1>5. View(g) = View(f)
  BY <1>4 DEF View, can_read, can_write
<1>6. FilesOf(files') = FilesOf(files)
  BY <1>2, <1>3, <1>4, <1>5, SameFiles
<1> DEFINE T == Table!Restrict(O, DOMAIN O \ {fd})
<1>7. TableOf(files') = T
  <2>1. BAD_FD \notin DOMAIN O
    BY DEF TableOf
  <2>2. /\ T = [x \in DOMAIN T |-> T[x]] /\ DOMAIN T = DOMAIN O \ {fd}
        /\ \A x \in DOMAIN T : T[x] = O[x]
    BY DEF Table!Restrict
  <2> HIDE DEF T, O
  <2>3. DOMAIN T = ((DOMAIN O \ {f.fd}) \cup {g.fd}) \ {BAD_FD}
    BY <1>2, <1>4, <2>1, <2>2
  <2>4. QED
    BY <1>2, <1>3, <1>4, <2>2, <2>3, ReplaceShowsTable DEF O
<1>8. Table!Close(fd)
  BY <1>6, <1>7 DEF Table!Close
<1>9. QED
  BY <1>2, <1>8 DEF Table!Next

(* Files that are closed before and after do not show in the table.        *)
LEMMA SameTable ==
  ASSUME ListOK(files), ListOK(files'),
         \A i \in DOMAIN files : files[i].fd # BAD_FD => \E j \in DOMAIN files' : files'[j] = files[i],
         \A j \in DOMAIN files' : files'[j].fd # BAD_FD => \E i \in DOMAIN files : files'[j] = files[i]
  PROVE  TableOf(files') = TableOf(files)
<1> DEFINE O == TableOf(files)
<1>1. /\ DOMAIN O = {files[i].fd : i \in DOMAIN files} \ {BAD_FD}
      /\ \A i \in DOMAIN files : files[i].fd # BAD_FD => O[files[i].fd] = Place(files[i])
  BY Shows, Zenon
<1>2. O = [fd \in DOMAIN O |-> O[fd]]
  BY DEF TableOf
<1> HIDE DEF O
<1>3. DOMAIN O = {files'[i].fd : i \in DOMAIN files'} \ {BAD_FD}
  <2>1. ASSUME NEW fd \in DOMAIN O PROVE \E j \in DOMAIN files' : fd = files'[j].fd
    <3>1. PICK i \in DOMAIN files : fd = files[i].fd /\ fd # BAD_FD
      BY <1>1
    <3>2. PICK j \in DOMAIN files' : files'[j] = files[i]
      BY <3>1
    <3>3. QED
      BY <3>1, <3>2
  <2>2. ASSUME NEW j \in DOMAIN files', files'[j].fd # BAD_FD PROVE files'[j].fd \in DOMAIN O
    <3>1. PICK i \in DOMAIN files : files'[j] = files[i]
      BY <2>2
    <3>2. QED
      BY <1>1, <2>2, <3>1
  <2>3. BAD_FD \notin DOMAIN O
    BY <1>1
  <2>4. QED
    BY <2>1, <2>2, <2>3, Zenon
<1>4. \A j \in DOMAIN files' : files'[j].fd # BAD_FD => O[files'[j].fd] = Place(files'[j])
  <2> SUFFICES ASSUME NEW j \in DOMAIN files', files'[j].fd # BAD_FD
               PROVE  O[files'[j].fd] = Place(files'[j])
    OBVIOUS
  <2>1. PICK i \in DOMAIN files : files'[j] = files[i]
    OBVIOUS
  <2>2. QED
    BY <1>1, <2>1
<1>5. TableOf(files') = O
  BY <1>2, <1>3, <1>4, TableIs
<1>6. QED
  BY <1>5 DEF O

(* mb_fs_mount adds a name.                                                *)
LEMMA MountShows ==
  ASSUME ListOK(files), NEW name \in Names, NEW data \in Buffers, NEW writable \in BOOLEAN,
         Mount(name, data, writable)
  PROVE  Table!Next
<1> DEFINE F == FilesOf(files)
           g == File(name, BAD_FD, "REGULAR", data, writable)
           v == [data |-> data, regular |-> TRUE, read |-> TRUE, write |-> writable]
           n == Len(files)
<1>1. by_name(name) = {} /\ files' = Append(files, g) /\ files \in Seq(FileRecord) /\ n \in Nat
  BY DEF Mount, ListOK
<1>2. ListOK(files')
  BY MountKeeps
<1>3. \A i \in DOMAIN files : files[i].name # name
  BY <1>1, Found
<1>4. g.name = name /\ g.fd = BAD_FD /\ View(g) = v
  BY Zenon DEF File, View, can_read, can_write
<1> HIDE DEF g, v
<1>5. /\ DOMAIN files' = DOMAIN files \cup {n + 1} /\ n + 1 \notin DOMAIN files
      /\ files'[n + 1] = g /\ \A i \in DOMAIN files : files'[i] = files[i]
  <2>1. /\ DOMAIN files = 1 .. n /\ DOMAIN files' = 1 .. n + 1
        /\ files'[n + 1] = g /\ \A i \in 1 .. n : files'[i] = files[i]
    BY <1>1
  <2> HIDE DEF n
  <2>2. 1 .. n + 1 = (1 .. n) \cup {n + 1} /\ n + 1 \notin 1 .. n
    BY <1>1
  <2>3. QED
    BY <2>1, <2>2
<1> HIDE DEF n
<1>6. TableOf(files') = TableOf(files)
  <2>1. \A i \in DOMAIN files : files[i].fd # BAD_FD => \E j \in DOMAIN files' : files'[j] = files[i]
    BY <1>5
  <2>2. \A j \in DOMAIN files' : files'[j].fd # BAD_FD => \E i \in DOMAIN files : files'[j] = files[i]
    BY <1>4, <1>5
  <2>3. QED
    BY <1>2, <2>1, <2>2, SameTable, Zenon
<1> DEFINE G == Table!With(F, name, v)
<1>7. /\ DOMAIN F = {files[i].name : i \in DOMAIN files}
      /\ \A i \in DOMAIN files : F[files[i].name] = View(files[i])
  BY Shows, Zenon
<1> HIDE DEF F
<1>8. /\ G = [m \in DOMAIN G |-> G[m]] /\ DOMAIN G = DOMAIN F \cup {name} /\ G[name] = v
      /\ \A m \in DOMAIN F : m # name => G[m] = F[m]
  BY DEF Table!With
<1> HIDE DEF G
<1>9. DOMAIN G = {files'[i].name : i \in DOMAIN files'}
  BY <1>4, <1>5, <1>7, <1>8
<1>10. \A i \in DOMAIN files' : G[files'[i].name] = View(files'[i])
  BY <1>3, <1>4, <1>5, <1>7, <1>8
<1>11. FilesOf(files') = G
  BY <1>2, <1>8, <1>9, <1>10, FilesAre
<1>12. name \notin DOMAIN F
  BY <1>3, <1>7
<1>13. data \in Content
  <2>1. data \in UpToMaxLen(Bytes)
    BY DEF Buffers
  <2>2. data \in Seq(Bytes) /\ Len(data) <= MaxLen
    BY <2>1, Bounded, Zenon
  <2>3. data \in Seq(Bytes \cup {Garbage})
    BY <2>2
  <2>4. QED
    BY <2>2, <2>3, Bounded DEF Content
<1>14. Table!Mount(name)
  BY <1>6, <1>11, <1>12, <1>13, Zenon DEF Table!Mount, F, G, v
<1>15. QED
  BY <1>14, Zenon DEF Table!Next

(* mb_fs_unmount removes one.                                              *)
LEMMA UnmountShows ==
  ASSUME ListOK(files), NEW name, Unmount(name)
  PROVE  Table!Next
<1> DEFINE F == FilesOf(files)
<1>1. PICK k \in by_name(name) :
        files[k].kind = "REGULAR" /\ files[k].fd = BAD_FD /\ files' = Without(k)
  BY DEF Unmount
<1>2. k \in DOMAIN files /\ files[k].name = name
  BY Found DEF ListOK
<1>3. /\ ListOK(files')
      /\ \A i \in DOMAIN files' : \E j \in DOMAIN files \ {k} : files'[i] = files[j]
      /\ \A j \in DOMAIN files \ {k} : \E i \in DOMAIN files' : files'[i] = files[j]
  BY <1>1, <1>2, RemoveFile
<1>4. TableOf(files') = TableOf(files)
  <2>1. \A i \in DOMAIN files : files[i].fd # BAD_FD => \E j \in DOMAIN files' : files'[j] = files[i]
    BY <1>1, <1>3
  <2>2. \A j \in DOMAIN files' : files'[j].fd # BAD_FD => \E i \in DOMAIN files : files'[j] = files[i]
    BY <1>3
  <2>3. QED
    BY <1>3, <2>1, <2>2, SameTable, Zenon
<1>5. /\ DOMAIN F = {files[i].name : i \in DOMAIN files}
      /\ \A i \in DOMAIN files : F[files[i].name] = View(files[i])
  BY Shows, Zenon
<1> DEFINE G == Table!Restrict(F, DOMAIN F \ {name})
<1> HIDE DEF F
<1>6. /\ G = [m \in DOMAIN G |-> G[m]] /\ DOMAIN G = DOMAIN F \ {name}
      /\ \A m \in DOMAIN G : G[m] = F[m]
  BY DEF Table!Restrict
<1> HIDE DEF G
<1>7. \A j \in DOMAIN files : files[j].name = name <=> j = k
  BY <1>2 DEF ListOK
<1>8. DOMAIN G = {files'[i].name : i \in DOMAIN files'}
  <2>1. ASSUME NEW m \in DOMAIN G PROVE \E i \in DOMAIN files' : m = files'[i].name
    <3>1. PICK j \in DOMAIN files : m = files[j].name /\ j # k
      BY <1>5, <1>6, <1>7
    <3>2. PICK i \in DOMAIN files' : files'[i] = files[j]
      BY <1>3, <3>1
    <3>3. QED
      BY <3>1, <3>2
  <2>2. ASSUME NEW i \in DOMAIN files' PROVE files'[i].name \in DOMAIN G
    <3>1. PICK j \in DOMAIN files \ {k} : files'[i] = files[j]
      BY <1>3
    <3>2. QED
      BY <1>5, <1>6, <1>7, <3>1
  <2>3. QED
    BY <2>1, <2>2, Zenon
<1>9. \A i \in DOMAIN files' : G[files'[i].name] = View(files'[i])
  <2> TAKE i \in DOMAIN files'
  <2>1. PICK j \in DOMAIN files : files'[i] = files[j]
    BY <1>3
  <2>2. files'[i].name \in DOMAIN G
    BY <1>8
  <2>3. QED
    BY <1>5, <1>6, <2>1, <2>2
<1>10. FilesOf(files') = G
  BY <1>3, <1>6, <1>8, <1>9, FilesAre
<1>11. F[name].regular /\ name \in DOMAIN F
  <2>1. F[name] = View(files[k]) /\ name \in DOMAIN F
    BY <1>2, <1>5
  <2>2. View(files[k]).regular
    BY <1>1, Zenon DEF View
  <2>3. QED
    BY <2>1, <2>2, Zenon
<1>12. ~Table!IsOpen(name)
  BY <1>1, <1>2, ClosedShows
<1>13. Table!Unmount(name)
  BY <1>4, <1>10, <1>11, <1>12, Zenon DEF Table!Unmount, F, G
<1>14. QED
  BY <1>11, <1>13 DEF Table!Next, F

(* The console's files are the table's.                                    *)
LEMMA InitShows ==
  ASSUME Init
  PROVE  Table!Init
<1> DEFINE a == File("/dev/stdin", 0, "EMPTY", <<>>, FALSE)
           b == File("/dev/stdout", 1, "SYSOUT", <<>>, FALSE)
           c == File("/dev/stderr", 2, "SYSOUT", <<>>, FALSE)
           N == {"/dev/stdin", "/dev/stdout", "/dev/stderr"}
           F == [n \in N |-> [data |-> <<>>, regular |-> FALSE,
                             read |-> n = "/dev/stdin", write |-> n # "/dev/stdin"]]
           T == [fd \in 0 .. 2 |->
                   [name |-> IF fd = 0 THEN "/dev/stdin"
                             ELSE IF fd = 1 THEN "/dev/stdout" ELSE "/dev/stderr", pos |-> 0]]
<1>1. files = <<a, b, c>> /\ ListOK(files)
  BY FsInit DEF Init
<1>2. /\ a.name = "/dev/stdin" /\ b.name = "/dev/stdout" /\ c.name = "/dev/stderr"
      /\ a.fd = 0 /\ b.fd = 1 /\ c.fd = 2
  BY DEF File
<1>3. Place(a) = T[0] /\ Place(b) = T[1] /\ Place(c) = T[2]
  BY DEF File, Place
<1>4. View(a) = F["/dev/stdin"] /\ View(b) = F["/dev/stdout"] /\ View(c) = F["/dev/stderr"]
  BY Zenon DEF File, View, can_read, can_write
<1> HIDE DEF a, b, c
<1>5. DOMAIN files = {1, 2, 3} /\ files[1] = a /\ files[2] = b /\ files[3] = c
  BY <1>1
<1>6. F = [n \in DOMAIN F |-> F[n]] /\ DOMAIN F = N
  OBVIOUS
<1>7. T = [fd \in DOMAIN T |-> T[fd]] /\ DOMAIN T = {0, 1, 2}
  OBVIOUS
<1> HIDE DEF F, T
<1>8. FilesOf(files) = F
  <2>1. DOMAIN F = {files[i].name : i \in DOMAIN files}
    BY <1>2, <1>5, <1>6
  <2>2. \A i \in DOMAIN files : F[files[i].name] = View(files[i])
    BY <1>2, <1>4, <1>5
  <2>3. QED
    BY <1>1, <1>6, <2>1, <2>2, FilesAre
<1>9. TableOf(files) = T
  <2>1. DOMAIN T = {files[i].fd : i \in DOMAIN files} \ {BAD_FD}
    BY <1>2, <1>5, <1>7 DEF BAD_FD
  <2>2. \A i \in DOMAIN files : files[i].fd # BAD_FD => T[files[i].fd] = Place(files[i])
    BY <1>2, <1>3, <1>5
  <2>3. QED
    BY <1>1, <1>7, <2>1, <2>2, TableIs
<1>10. QED
  BY <1>8, <1>9 DEF Table!Init, F, T

(* Every call is a step of the table, or none.                             *)
LEMMA StepShows ==
  ASSUME ListOK(files), OpensAtStart, Fds \subseteq Nat, [Next]_files
  PROVE  [Table!Next]_(Table!vars)
<1>1. ASSUME HostCalls PROVE Table!Next
  BY <1>1, MountShows, UnmountShows DEF HostCalls
<1>2. ASSUME NEW fd \in Fds, NEW k \in by_fd(fd), NEW p, Puts(k, files[k].data, p) PROVE Table!Next
  BY <1>2, MoveShows
<1>3. ASSUME NEW fd \in Fds, NEW n \in 0 .. MaxLen, Read(fd, n) PROVE Table!Next
  BY <1>2, <1>3, ReadPuts
<1>4. ASSUME NEW fd \in Fds, NEW offset \in -MaxLen .. MaxLen,
             NEW whence \in {"SEEK_SET", "SEEK_CUR", "SEEK_END"}, Seek(fd, offset, whence)
      PROVE  Table!Next
  BY <1>2, <1>4, SeekPuts
<1>5. ASSUME NEW fd \in Fds, NEW size \in 0 .. MaxLen, TruncateFd(fd, size) PROVE Table!Next
  BY <1>5, TruncateShows DEF TruncateFd
<1>6. ASSUME NEW fd \in Fds, Close(fd) \/ \E buf \in Buffers : Write(fd, buf) PROVE Table!Next
  BY <1>6, CloseShows, WriteShows
<1>7. ASSUME GuestCalls PROVE Table!Next
  BY <1>3, <1>4, <1>5, <1>6, <1>7, OpenShows, TruncateShows DEF GuestCalls
<1>8. ASSUME UNCHANGED files PROVE UNCHANGED Table!vars
  BY <1>8 DEF Table!vars
<1>9. QED
  BY <1>1, <1>7, <1>8 DEF Next

(* The list of files, for any number of files of any lengths, is a table   *)
(* of descriptors over named files, if guests pass no negative             *)
(* descriptors.  The invariants that the step needs are that the list is   *)
(* good, and that a closed file is at its start: the table forgets a       *)
(* position when it forgets the descriptor.                                *)
THEOREM FsImplementsTable ==
  ASSUME Fds \subseteq Nat
  PROVE  Spec => ImplementsTable
<1> DEFINE Inv == ListOK(files) /\ OpensAtStart
<1>1. Init => Inv /\ Table!Init
  BY FsInit, InitShows
<1>2. Inv /\ [Next]_files => Inv' /\ [Table!Next]_(Table!vars)
  BY FsStep, StepShows
<1>3. QED
  BY <1>1, <1>2, PTL DEF Spec, ImplementsTable, Table!Spec

-----------------------------------------------------------------------------
(* What reads find.                                                        *)

(* All of the bytes of the files fs were mounted or written.               *)
Written(fs) == \A i \in DOMAIN fs : fs[i].data \in Seq(Bytes)

(* A file gets such bytes.                                                 *)
LEMMA PutWrites ==
  ASSUME ListOK(files), Written(files), NEW k, NEW d \in Seq(Bytes), NEW p, Puts(k, d, p)
  PROVE  Written(files')
<1> DEFINE g == NewContent(files[k], d, p)
<1>1. /\ k \in DOMAIN files /\ files[k] \in FileRecord /\ d \in FileData /\ p \in Nat
      /\ files' = [files EXCEPT ![k] = g]
  BY DEF Puts, ListOK
<1>2. g.data = d
  BY <1>1, NewContentIs
<1> HIDE DEF g
<1>3. QED
  BY <1>1, <1>2 DEF Written

(* mb_fs_write leaves no gap: its buffer begins within the file or at its  *)
(* end.                                                                    *)
LEMMA OverwrittenIsWritten ==
  ASSUME NEW data \in Seq(Bytes), NEW pos \in Nat, pos <= Len(data), NEW buf \in Seq(Bytes)
  PROVE  Overwritten(data, pos, buf) \in Seq(Bytes)
<1> DEFINE n == Max({Len(data), pos + Len(buf)})
           el(i) == IF i > pos /\ i <= pos + Len(buf) THEN buf[i - pos]
                    ELSE IF i <= Len(data) THEN data[i] ELSE Garbage
<1>1. Len(data) \in Nat /\ Len(buf) \in Nat /\ pos + Len(buf) \in Nat
  OBVIOUS
<1>2. n = IF Len(data) >= pos + Len(buf) THEN Len(data) ELSE pos + Len(buf)
  BY <1>1, MaxIs, Zenon
<1> HIDE DEF n
<1>3. n \in Nat
  BY <1>1, <1>2
<1>4. ASSUME NEW i \in 1 .. n PROVE el(i) \in Bytes
  <2>1. CASE i > pos /\ i <= pos + Len(buf)
    <3>1. i - pos \in 1 .. Len(buf)
      BY <1>1, <1>3, <2>1, OffsetIn
    <3>2. QED
      BY <2>1, <3>1
  <2>2. CASE ~(i > pos /\ i <= pos + Len(buf))
    <3>1. i \in 1 .. Len(data)
      BY <1>1, <1>2, <1>3, <2>2
    <3>2. QED
      BY <2>2, <3>1
  <2>3. QED
    BY <2>1, <2>2
<1>5. Overwritten(data, pos, buf) = [i \in 1 .. n |-> el(i)]
  BY DEF Overwritten, n
<1> HIDE DEF el
<1>6. [i \in 1 .. n |-> el(i)] \in [1 .. n -> Bytes]
  BY <1>4
<1>7. QED
  BY <1>3, <1>5, <1>6, SeqOfFunction, Zenon

(* mb_fs_truncate adds no bytes when it makes a file shorter.              *)
LEMMA CutIsWritten ==
  ASSUME NEW data \in Seq(Bytes), NEW size \in Nat, size <= Len(data)
  PROVE  Cut(data, size) \in Seq(Bytes)
<1>1. \A i \in 1 .. size : i \in 1 .. Len(data) /\ i <= Len(data)
  OBVIOUS
<1>2. Cut(data, size) \in [1 .. size -> Bytes]
  BY <1>1 DEF Cut
<1>3. QED
  BY <1>2, SeqOfFunction

LEMMA TruncateWrites ==
  ASSUME ListOK(files), Written(files), NEW name, NEW size \in 0 .. MaxLen,
         TruncateName(name, size), ~Extends
  PROVE  Written(files')
<1>1. PICK k \in by_name(name), p \in Nat : Puts(k, Cut(files[k].data, size), p)
  BY TruncatePuts
<1>2. k \in DOMAIN files /\ files[k].name = name
  BY Found DEF ListOK
<1>3. files[k].data \in Seq(Bytes) /\ Len(files[k].data) \in Nat /\ size \in Nat
  BY <1>2, FsAssumption DEF Written
<1>4. ~(size > Len(files[k].data))
  BY <1>2 DEF Extends
<1>5. Cut(files[k].data, size) \in Seq(Bytes)
  BY <1>3, <1>4, CutIsWritten
<1>6. QED
  BY <1>1, <1>5, PutWrites

(* The other calls write nothing.                                          *)
LEMMA OthersWrite ==
  ASSUME ListOK(files), Written(files)
  PROVE  /\ \A name, mode : Open(name, mode) => Written(files')
         /\ \A fd : Close(fd) => Written(files')
         /\ \A name \in Names, data \in Buffers, writable \in BOOLEAN :
              Mount(name, data, writable) => Written(files')
         /\ \A name : Unmount(name) => Written(files')
<1>1. ASSUME NEW k \in DOMAIN files, NEW g \in FileRecord, g.data = files[k].data,
             files' = [files EXCEPT ![k] = g]
      PROVE  Written(files')
  BY <1>1 DEF Written
<1>2. ASSUME NEW k \in DOMAIN files, NEW fd \in {BAD_FD} \cup Nat, NEW p \in Nat,
             files' = [files EXCEPT ![k] = [files[k] EXCEPT !.fd = fd, !.pos = p]]
      PROVE  Written(files')
  <2> DEFINE g == [files[k] EXCEPT !.fd = fd, !.pos = p]
  <2>1. files[k] \in FileRecord
    BY DEF ListOK
  <2>2. g \in FileRecord /\ g.data = files[k].data
    BY <2>1, Zenon DEF FileRecord
  <2> HIDE DEF g
  <2>3. QED
    BY <1>1, <1>2, <2>2, Zenon DEF g
<1>3. ASSUME NEW name, NEW mode, Open(name, mode) PROVE Written(files')
  <2>1. PICK k \in by_name(name) : files' = [files EXCEPT ![k].fd = NewFd]
    BY <1>3, Zenon DEF Open
  <2>2. k \in DOMAIN files /\ files[k] \in FileRecord /\ files \in Seq(FileRecord)
    BY Found DEF ListOK
  <2>3. NewFd \in Nat
    BY <2>2, NewFdIsFree
  <2> DEFINE g == [files[k] EXCEPT !.fd = NewFd]
  <2>4. g \in FileRecord /\ g.data = files[k].data
    BY <2>2, <2>3, Zenon DEF FileRecord
  <2>5. files' = [files EXCEPT ![k] = g]
    BY <2>1, Zenon
  <2> HIDE DEF g
  <2>6. QED
    BY <1>1, <2>2, <2>4, <2>5, Zenon
<1>4. ASSUME NEW fd, Close(fd) PROVE Written(files')
  <2>1. PICK k \in by_fd(fd) : files' = [files EXCEPT ![k].fd = BAD_FD, ![k].pos = 0]
    BY <1>4, Zenon DEF Close
  <2>2. k \in DOMAIN files
    BY Found DEF ListOK
  <2>3. files' = [files EXCEPT ![k] = [files[k] EXCEPT !.fd = BAD_FD, !.pos = 0]]
    BY <2>1, Zenon
  <2>4. QED
    BY <1>2, <2>2, <2>3, Zenon
<1>5. ASSUME NEW name \in Names, NEW data \in Buffers, NEW writable \in BOOLEAN,
             Mount(name, data, writable)
      PROVE  Written(files')
  <2> DEFINE g == File(name, BAD_FD, "REGULAR", data, writable)
  <2>1. files' = Append(files, g) /\ files \in Seq(FileRecord)
    BY <1>5 DEF Mount, ListOK
  <2>2. data \in Seq(Bytes)
    BY Bounded DEF Buffers
  <2>3. g.data = data /\ g \in FileRecord
    BY <2>2 DEF File, FileRecord, FileData
  <2> HIDE DEF g
  <2>4. QED
    BY <2>1, <2>2, <2>3 DEF Written
<1>6. ASSUME NEW name, Unmount(name) PROVE Written(files')
  <2>1. PICK k \in by_name(name) : files' = Without(k)
    BY <1>6 DEF Unmount
  <2>2. k \in DOMAIN files
    BY Found DEF ListOK
  <2>3. \A i \in DOMAIN files' : \E j \in DOMAIN files : files'[i] = files[j]
    BY <2>1, <2>2, RemoveFile
  <2>4. QED
    BY <2>3 DEF Written
<1>7. QED
  BY <1>3, <1>4, <1>5, <1>6

(* No call but a truncate that extends a file adds bytes of its own.       *)
LEMMA StepWrites ==
  ASSUME ListOK(files), Written(files), Next, ~Extends
  PROVE  Written(files')
<1>1. ASSUME HostCalls PROVE Written(files')
  BY <1>1, OthersWrite DEF HostCalls
<1>2. ASSUME NEW fd, NEW k \in by_fd(fd), NEW p, Puts(k, files[k].data, p) PROVE Written(files')
  BY <1>2, PutWrites, Zenon DEF Written, Puts
<1>3. ASSUME NEW fd, NEW n \in 0 .. MaxLen, Read(fd, n) PROVE Written(files')
  BY <1>2, <1>3, ReadPuts
<1>4. ASSUME NEW fd, NEW offset \in -MaxLen .. MaxLen,
             NEW whence \in {"SEEK_SET", "SEEK_CUR", "SEEK_END"}, Seek(fd, offset, whence)
      PROVE  Written(files')
  BY <1>2, <1>4, SeekPuts
<1>5. ASSUME NEW fd, NEW buf \in Buffers, Write(fd, buf) PROVE Written(files')
  <2>1. PICK k \in by_fd(fd) :
          Puts(k, Overwritten(files[k].data, files[k].pos, buf), files[k].pos + Len(buf))
    BY <1>5, WritePuts
  <2>2. k \in DOMAIN files /\ files[k].pos \in Nat /\ files[k].pos <= Len(files[k].data)
    BY FoundFile
  <2>3. files[k].data \in Seq(Bytes) /\ buf \in Seq(Bytes)
    BY <2>2, Bounded DEF Written, Buffers
  <2>4. Overwritten(files[k].data, files[k].pos, buf) \in Seq(Bytes)
    BY <2>2, <2>3, OverwrittenIsWritten
  <2>5. QED
    BY <2>1, <2>4, PutWrites
<1>6. ASSUME NEW fd, NEW size \in 0 .. MaxLen, TruncateFd(fd, size) PROVE Written(files')
  BY <1>6, TruncateWrites DEF TruncateFd
<1>7. ASSUME GuestCalls PROVE Written(files')
  BY <1>3, <1>4, <1>5, <1>6, <1>7, TruncateWrites, OthersWrite DEF GuestCalls
<1>8. QED
  BY <1>1, <1>7 DEF Next

(* Such files are read as they were written.                               *)
LEMMA WrittenIsRead ==
  ASSUME ListOK(files), Written(files)
  PROVE  ReadsAreDetermined
<1> USE FsAssumption
<1> SUFFICES ASSUME NEW i \in DOMAIN files
             PROVE  \A k \in DOMAIN ReadBytes(files[i], MaxLen) :
                      ReadBytes(files[i], MaxLen)[k] # Garbage
  BY DEF ReadsAreDetermined
<1> DEFINE f == files[i]
           e == Min({f.pos + MaxLen, Len(f.data)})
<1>1. f.data \in Seq(Bytes) /\ f.pos \in Nat /\ Len(f.data) \in Nat
  <2>1. f \in FileRecord
    BY DEF ListOK
  <2>2. f.data \in Seq(Bytes)
    BY Zenon DEF Written
  <2> HIDE DEF f
  <2>3. QED
    BY <2>1, <2>2 DEF FileRecord
<1>2. e \in Nat /\ e <= Len(f.data)
  <2>1. f.pos + MaxLen \in Nat
    BY <1>1
  <2>2. e = IF f.pos + MaxLen <= Len(f.data) THEN f.pos + MaxLen ELSE Len(f.data)
    BY <1>1, <2>1, MinOfTwo, Zenon
  <2> HIDE DEF e, f
  <2>3. QED
    BY <1>1, <2>1, <2>2
<1>3. ReadBytes(f, MaxLen) = SubSeq(f.data, f.pos + 1, e)
  BY DEF ReadBytes
<1> HIDE DEF e, f
<1>4. SubSeq(f.data, f.pos + 1, e) \in Seq(Bytes)
  <2>1. \A j \in f.pos + 1 .. e : f.data[j] \in Bytes
    BY <1>1, <1>2
  <2>2. QED
    BY <1>1, <1>2, <2>1
<1> DEFINE r == ReadBytes(f, MaxLen)
<1>5. r \in Seq(Bytes)
  BY <1>3, <1>4
<1> HIDE DEF r
<1>6. \A k \in DOMAIN r : r[k] # Garbage
  BY <1>5
<1>7. QED
  BY <1>6 DEF r, f

(* What a guest reads was mounted or written before, whatever is opened,   *)
(* sought, cut, closed and unmounted in between, as long as no truncate    *)
(* extends a file: mb_fs_write leaves no gap behind the end of a file,     *)
(* since no position is there.  The run fs_truncate shows what happens if  *)
(* a truncate does extend a file.                                          *)
THEOREM OnlyExtensionsAreUndetermined == Spec /\ [][~Extends]_files => []ReadsAreDetermined
<1> DEFINE Inv == ListOK(files) /\ Written(files)
<1>1. Init => Inv
  <2>1. ASSUME Init PROVE Written(files)
    <3>1. <<>> \in Seq(Bytes)
      OBVIOUS
    <3>2. \A i \in DOMAIN files : files[i].data = <<>>
      BY <2>1 DEF Init, File
    <3>3. QED
      BY <3>1, <3>2, Zenon DEF Written
  <2>2. QED
    BY <2>1, FsInit
<1>2. Inv /\ [Next]_files /\ [~Extends]_files => Inv'
  <2>1. Inv /\ UNCHANGED files => Inv'
    BY DEF Written, ListOK
  <2>2. QED
    BY <2>1, FsStep, StepWrites
<1>3. Inv => ReadsAreDetermined
  BY WrittenIsRead
<1>4. QED
  BY <1>1, <1>2, <1>3, PTL DEF Spec

=============================================================================
