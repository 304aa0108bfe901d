------------------------ MODULE ElfLoadParts_proofs -------------------------
(***************************************************************************)
(* What an image and an area look like, for images, areas and pages of     *)
(* every size: the pages of its parts, which of them are apart, what each  *)
(* page holds at each step, and what the calls on the block do.            *)
(***************************************************************************)
EXTENDS ElfLoadInv, TLAPS, WellFoundedInduction

-----------------------------------------------------------------------------
(* Addresses.                                                              *)

(* Facts about remainders.                                                 *)
LEMMA Remainder ==
  ASSUME NEW P \in Nat \ {0}, NEW a \in Int
  PROVE  a % P \in 0 .. P - 1 /\ (a - (a % P)) % P = 0
<1>1. a % P \in 0 .. P - 1
  OBVIOUS
<1>2. (a - (a % P)) % P = 0
  OBVIOUS
<1>3. QED
  BY <1>1, <1>2

(* A number without remainder is a product.                                *)
LEMMA NoRemainder ==
  ASSUME NEW P \in Nat \ {0}, NEW a \in Int, a % P = 0
  PROVE  \E q \in Int : a = P * q
OBVIOUS

Multiple(a) == a \in Int /\ a % PageSize = 0

(* A multiple of the page size is a number of pages.                       *)
LEMMA MultipleIs ==
  ASSUME NEW a, Multiple(a)
  PROVE  \E q \in Int : a = PageSize * q
<1>1. a \in Int /\ a % PageSize = 0 /\ PageSize \in Nat \ {0}
  BY MemBlockAssumption DEF Multiple
<1>2. QED
  BY <1>1, NoRemainder, Zenon

(* A number of pages is a multiple of the page size.                       *)
LEMMA IsMultiple ==
  ASSUME NEW q \in Int
  PROVE  Multiple(PageSize * q) /\ PageSize * q \in Int
BY MemBlockAssumption DEF Multiple

(* Sums and differences of multiples.                                      *)
LEMMA MultipleSum ==
  ASSUME NEW a, NEW b, Multiple(a), Multiple(b)
  PROVE  Multiple(a + b) /\ Multiple(a - b)
<1>1. PICK q \in Int : a = PageSize * q
  BY MultipleIs
<1>2. PICK r \in Int : b = PageSize * r
  BY MultipleIs
<1>3. a + b = PageSize * (q + r) /\ a - b = PageSize * (q - r) /\ q + r \in Int /\ q - r \in Int
  BY <1>1, <1>2, MemBlockAssumption
<1>4. QED
  BY <1>3, IsMultiple

(* Between two multiples lies a page at least.                             *)
LEMMA MultipleStep ==
  ASSUME NEW a, NEW b, Multiple(a), Multiple(b), a < b
  PROVE  a + PageSize <= b
<1>1. PICK q \in Int : a = PageSize * q
  BY MultipleIs
<1>2. PICK r \in Int : b = PageSize * r
  BY MultipleIs
<1>3. PageSize \in Int /\ PageSize > 0
  BY MemBlockAssumption
<1>4. q + 1 <= r
  <2>1. CASE r <= q
    <3>1. PageSize * r <= PageSize * q
      BY <1>3, <2>1
    <3>2. QED
      BY <1>1, <1>2, <1>3, <3>1
  <2>2. QED
    BY <2>1
<1>5. PageSize * (q + 1) <= PageSize * r /\ PageSize * (q + 1) = PageSize * q + PageSize
  BY <1>3, <1>4
<1>6. QED
  BY <1>1, <1>2, <1>5

(* Rounding down (mb_align_down).                                          *)
LEMMA DownIs ==
  ASSUME NEW a \in Int
  PROVE  /\ Multiple(align_down(a)) /\ align_down(a) \in Int
         /\ align_down(a) <= a /\ a < align_down(a) + PageSize
         /\ Multiple(a) => align_down(a) = a
<1> DEFINE m == a % PageSize
<1>1. PageSize \in Nat \ {0}
  BY MemBlockAssumption
<1>2. m \in 0 .. PageSize - 1 /\ (a - m) % PageSize = 0
  BY <1>1, Remainder, Zenon
<1>3. Multiple(a) => m = 0
  BY DEF Multiple
<1> HIDE DEF m
<1>4. QED
  BY <1>1, <1>2, <1>3 DEF align_down, m, Multiple

(* Rounding up (mb_align_up).                                              *)
LEMMA UpIs ==
  ASSUME NEW a \in Int
  PROVE  /\ Multiple(align_up(a)) /\ align_up(a) \in Int
         /\ a <= align_up(a) /\ align_up(a) < a + PageSize
<1>1. PageSize \in Int /\ Multiple(PageSize)
  BY MemBlockAssumption DEF Multiple
<1>2. /\ Multiple(align_down(a - 1)) /\ align_down(a - 1) \in Int
      /\ align_down(a - 1) <= a - 1 /\ a - 1 < align_down(a - 1) + PageSize
  BY DownIs
<1>3. Multiple(align_down(a - 1) + PageSize)
  BY <1>1, <1>2, MultipleSum
<1>4. QED
  BY <1>1, <1>2, <1>3 DEF align_up

(* A whole area: from one page to another.                                 *)
Whole(r) == r \in Area /\ Multiple(r.start) /\ Multiple(r.size)

(* Expanding an area to whole pages (mb_range_align_expand).               *)
LEMMA ExpandIs ==
  ASSUME NEW r \in Area
  PROVE  /\ Whole(align_expand(r)) /\ Inside(r, align_expand(r))
         /\ align_expand(r).start = align_down(r.start)
         /\ range_end(align_expand(r)) = align_up(range_end(r))
<1> DEFINE d == align_down(r.start)
           e == range_end(r)
           u == align_up(e)
<1>1. r.start \in Nat /\ r.size \in Nat /\ e \in Nat /\ r.start <= e
  BY DEF Area, range_end
<1>2. Multiple(d) /\ d \in Int /\ d <= r.start /\ r.start < d + PageSize
  BY <1>1, DownIs
<1>3. Multiple(u) /\ u \in Int /\ e <= u
  BY <1>1, UpIs
<1>4. align_expand(r) = [start |-> d, size |-> u - d]
  BY DEF align_expand
<1>5. 0 <= d
  <2>1. Multiple(0)
    BY MemBlockAssumption DEF Multiple
  <2>2. CASE d < 0
    <3>1. d + PageSize <= 0
      BY <1>2, <2>1, <2>2, MultipleStep
    <3>2. QED
      BY <1>1, <1>2, <3>1, MemBlockAssumption
  <2>3. QED
    BY <1>2, <2>2
<1>6. Multiple(u - d)
  BY <1>2, <1>3, MultipleSum
<1> HIDE DEF d, u, e
<1>7. d \in Nat /\ u - d \in Nat /\ d + (u - d) = u
  BY <1>1, <1>2, <1>3, <1>5
<1>8. align_expand(r).start = d /\ align_expand(r).size = u - d /\ align_expand(r) \in Area
  BY <1>4, <1>7 DEF Area
<1>9. range_end(align_expand(r)) = u
  BY <1>7, <1>8 DEF range_end
<1>10. QED
  BY <1>2, <1>3, <1>6, <1>8, <1>9 DEF Whole, Inside, d, u, e

(* Expansion is monotone.                                                  *)
LEMMA ExpandInside ==
  ASSUME NEW r \in Area, NEW q \in Area, Inside(r, q)
  PROVE  Inside(align_expand(r), align_expand(q))
<1> DEFINE dr == align_down(r.start)
           dq == align_down(q.start)
           ur == align_up(range_end(r))
           uq == align_up(range_end(q))
<1>1. r.start \in Int /\ q.start \in Int /\ range_end(r) \in Int /\ range_end(q) \in Int
  BY DEF Area, range_end
<1>2. /\ Multiple(dr) /\ dr \in Int /\ dr <= r.start /\ r.start < dr + PageSize
      /\ Multiple(dq) /\ dq \in Int /\ dq <= q.start /\ q.start < dq + PageSize
  BY <1>1, DownIs
<1>3. /\ Multiple(ur) /\ ur \in Int /\ range_end(r) <= ur /\ ur < range_end(r) + PageSize
      /\ Multiple(uq) /\ uq \in Int /\ range_end(q) <= uq /\ uq < range_end(q) + PageSize
  BY <1>1, UpIs
<1>4. q.start <= r.start /\ range_end(r) <= range_end(q) /\ PageSize \in Int
  BY MemBlockAssumption DEF Inside
<1> HIDE DEF dr, dq, ur, uq
<1>5. dr < dq => dr + PageSize <= dq
  BY <1>2, MultipleStep
<1>6. uq < ur => uq + PageSize <= ur
  BY <1>3, MultipleStep
<1>7. dq <= dr /\ ur <= uq
  BY <1>1, <1>2, <1>3, <1>4, <1>5, <1>6
<1>8. QED
  BY <1>7, ExpandIs DEF Inside, dr, dq, ur, uq

(* The address of a page.                                                  *)
LEMMA PageAddrIs ==
  ASSUME NEW i \in Pages
  PROVE  Multiple(PageAddr(i)) /\ PageAddr(i) \in Int
<1>1. Multiple(Base) /\ i \in Int
  BY MemBlockAssumption DEF Multiple, Pages
<1>2. Multiple(PageSize * i) /\ PageSize * i = i * PageSize
  BY <1>1, IsMultiple, MemBlockAssumption
<1>3. QED
  BY <1>1, <1>2, MultipleSum DEF PageAddr, Multiple

(* An area has the pages of the areas inside it.                           *)
LEMMA PagesInside ==
  ASSUME NEW r \in Area, NEW q \in Area, Inside(r, q)
  PROVE  PagesOf(r) \subseteq PagesOf(q)
<1>1. r.start \in Int /\ q.start \in Int /\ range_end(r) \in Int /\ range_end(q) \in Int
  BY DEF Area, range_end
<1>2. q.start <= r.start /\ range_end(r) <= range_end(q)
  BY DEF Inside
<1>3. \A i \in Pages : PageAddr(i) \in Int
  BY PageAddrIs
<1>4. QED
  BY <1>1, <1>2, <1>3 DEF PagesOf

(* One area behind another has none of its pages.                          *)
LEMMA PagesApart ==
  ASSUME NEW r \in Area, NEW q \in Area, range_end(r) <= q.start, NEW i \in PagesOf(r)
  PROVE  i \notin PagesOf(q)
<1>1. q.start \in Int /\ range_end(r) \in Int
  BY DEF Area, range_end
<1>2. i \in Pages /\ PageAddr(i) \in Int /\ PageAddr(i) < range_end(r)
  BY PageAddrIs DEF PagesOf
<1>3. QED
  BY <1>1, <1>2 DEF PagesOf

(* Two areas that share a page overlap.                                    *)
LEMMA PagesOverlap ==
  ASSUME NEW r \in Area, NEW q \in Area, NEW i \in PagesOf(r), i \in PagesOf(q)
  PROVE  Overlap(r, q)
<1>1. r.start \in Int /\ q.start \in Int /\ range_end(r) \in Int /\ range_end(q) \in Int
  BY DEF Area, range_end
<1>2. PageAddr(i) \in Int
  BY PageAddrIs DEF PagesOf
<1>3. QED
  BY <1>1, <1>2 DEF PagesOf, Overlap

(* The block accepts whole areas within it (validate).                     *)
LEMMA WholeIsValid ==
  ASSUME NEW r, Whole(r), r.size # 0, Base <= r.start,
         range_end(r) <= Base + NPages * PageSize
  PROVE  validate(r)
<1>1. align_down(r.start) = r.start /\ align_down(r.size) = r.size /\ r.start \in Int
  BY DownIs DEF Whole, Multiple
<1>2. QED
  BY <1>1, MemBlockAssumption DEF validate

(* The pages that hold the bytes of an area are those of its expansion.    *)
LEMMA HoldingIs ==
  ASSUME NEW a \in Area, a.size # 0
  PROVE  Holding(a) = PagesOf(align_expand(a))
<1> DEFINE d == align_down(a.start)
           e == range_end(a)
           u == align_up(e)
<1>1. a.start \in Nat /\ e \in Nat /\ a.start < e
  BY DEF Area, range_end
<1>2. Multiple(d) /\ d \in Int /\ d <= a.start /\ a.start < d + PageSize
  BY <1>1, DownIs
<1>3. /\ u = align_down(e - 1) + PageSize /\ Multiple(u) /\ u \in Int /\ e <= u
      /\ Multiple(align_down(e - 1)) /\ align_down(e - 1) \in Int /\ align_down(e - 1) <= e - 1
  BY <1>1, UpIs, DownIs DEF align_up
<1>4. PageSize \in Int /\ PageSize > 0
  BY MemBlockAssumption
<1>5. PagesOf(align_expand(a)) = {i \in Pages : d <= PageAddr(i) /\ PageAddr(i) < u}
  BY ExpandIs DEF PagesOf
<1> HIDE DEF d, e, u
<1>6. ASSUME NEW i \in Pages, d <= PageAddr(i), PageAddr(i) < u
      PROVE  \E b \in a.start .. e - 1 : PageAddr(i) = align_down(b)
  <2>1. Multiple(PageAddr(i)) /\ PageAddr(i) \in Int
    BY PageAddrIs
  <2>2. PageAddr(i) <= e - 1
    <3>1. PageAddr(i) + PageSize <= u
      BY <1>3, <1>6, <2>1, MultipleStep
    <3>2. QED
      BY <1>1, <1>3, <1>4, <2>1, <3>1
  <2>3. CASE a.start <= PageAddr(i)
    <3>1. PageAddr(i) \in a.start .. e - 1
      BY <1>1, <2>1, <2>2, <2>3
    <3>2. align_down(PageAddr(i)) = PageAddr(i)
      BY <2>1, DownIs
    <3>3. QED
      BY <3>1, <3>2
  <2>4. CASE PageAddr(i) < a.start
    <3>1. d < PageAddr(i) => d + PageSize <= PageAddr(i)
      BY <1>2, <2>1, MultipleStep
    <3>2. PageAddr(i) = d
      BY <1>1, <1>2, <1>4, <1>6, <2>1, <2>4, <3>1
    <3>3. a.start \in a.start .. e - 1
      BY <1>1
    <3>4. QED
      BY <3>2, <3>3 DEF d
  <2>5. QED
    BY <1>1, <2>1, <2>3, <2>4
<1>7. ASSUME NEW i \in Pages, NEW b \in a.start .. e - 1, PageAddr(i) = align_down(b)
      PROVE  d <= PageAddr(i) /\ PageAddr(i) < u
  <2>1. Multiple(PageAddr(i)) /\ PageAddr(i) \in Int
    BY PageAddrIs
  <2>2. b \in Int /\ a.start <= b /\ b <= e - 1 /\ PageAddr(i) <= b /\ b < PageAddr(i) + PageSize
    <3>1. b \in Int /\ a.start <= b /\ b <= e - 1
      BY <1>1
    <3>2. QED
      BY <1>7, <3>1, DownIs
  <2>3. PageAddr(i) < d => PageAddr(i) + PageSize <= d
    BY <1>2, <2>1, MultipleStep
  <2>4. QED
    BY <1>1, <1>2, <1>3, <1>4, <2>1, <2>2, <2>3
<1>8. QED
  BY <1>5, <1>6, <1>7 DEF Holding, e

-----------------------------------------------------------------------------
(* The layout.                                                             *)

(* A nonempty set of numbers has a least element.                          *)
LEMMA NatMin ==
  ASSUME NEW T \in SUBSET Nat, T # {}
  PROVE  \E m \in T : \A y \in T : m <= y
<1>1. PICK m \in T : \A y \in T : ~(<<y, m>> \in OpToRel(<, Nat))
  BY NatLessThanWellFounded, WFMin, Zenon
<1>2. ASSUME NEW y \in T PROVE m <= y
  <2>1. y \in Nat /\ m \in Nat /\ ~(y < m)
    BY <1>1, Zenon DEF OpToRel
  <2>2. QED
    BY <2>1
<1>3. QED
  BY <1>2

(* One of finitely many numbers is the greatest.                           *)
LEMMA MaxExists ==
  ASSUME NEW n \in Nat, NEW f, \A j \in 1 .. n : f[j] \in Int,
         NEW I \in SUBSET (1 .. n), I # {}
  PROVE  \E j \in I : \A k \in I : f[k] <= f[j]
<1> DEFINE Has(J) == \E j \in J : \A k \in J : f[k] <= f[j]
           T == {m \in 0 .. n : \E J \in SUBSET (1 .. m) : J # {} /\ ~Has(J)}
<1> HIDE DEF Has
<1>1. SUFFICES ASSUME ~Has(I) PROVE FALSE
  BY DEF Has
<1>2. n \in T
  BY <1>1
<1>3. PICK m \in T : \A y \in T : m <= y
  <2>1. T \in SUBSET Nat /\ T # {}
    BY <1>2
  <2> HIDE DEF T
  <2>2. QED
    BY <2>1, NatMin, Zenon
<1>4. PICK J \in SUBSET (1 .. m) : J # {} /\ ~Has(J)
  BY <1>3
<1>5. m \in 1 .. n /\ m - 1 \notin T
  <2>1. m \in 0 .. n /\ m # 0
    <3>1. PICK j \in J : j \in 1 .. m
      BY <1>4, Zenon
    <3>2. m \in 0 .. n
      BY <1>3
    <3>3. QED
      BY <3>1, <3>2
  <2> HIDE DEF T
  <2>2. m - 1 \in T => m <= m - 1
    BY <1>3
  <2>3. QED
    BY <2>1, <2>2
<1> DEFINE K == J \ {m}
<1>6. K \in SUBSET (1 .. m - 1) /\ m - 1 \in 0 .. n
  BY <1>4, <1>5
<1>7. K = {} \/ Has(K)
  BY <1>5, <1>6
<1>8. m \in J
  <2>1. CASE m \notin J
    <3>1. K = J
      BY <2>1
    <3>2. QED
      BY <1>4, <1>7, <3>1, Zenon
  <2>2. QED
    BY <2>1
<1> HIDE DEF T
<1>9. f[m] \in Int
  BY <1>5
<1>10. CASE K = {}
  <2>1. J = {m}
    BY <1>8, <1>10, Zenon
  <2>2. QED
    BY <1>4, <1>9, <2>1 DEF Has
<1>11. CASE Has(K)
  <2>1. PICK j \in K : \A k \in K : f[k] <= f[j]
    BY <1>11 DEF Has
  <2>2. j \in J /\ f[j] \in Int
    BY <1>5, <1>6, <2>1
  <2>3. \A k \in J : k = m \/ k \in K
    OBVIOUS
  <2>4. \A k \in K : f[k] \in Int
    BY <1>5, <1>6
  <2> HIDE DEF K
  <2>5. CASE f[m] <= f[j]
    BY <1>4, <2>1, <2>2, <2>3, <2>5 DEF Has
  <2>6. CASE f[j] <= f[m]
    <3>1. \A k \in J : f[k] <= f[m]
      BY <1>9, <2>1, <2>2, <2>3, <2>4, <2>6
    <3>2. QED
      BY <1>4, <1>8, <3>1 DEF Has
  <2>7. QED
    BY <1>9, <2>2, <2>5, <2>6
<1>12. QED
  BY <1>7, <1>10, <1>11

(* What is known of the setups.                                            *)
LEMMA SetupIs ==
  ASSUME NEW s \in Setups
  PROVE  /\ WellLinked(s.image)
         /\ s.sbrk \in Nat /\ s.sealed \in Nat /\ s.invis \in Nat /\ s.plain \in Nat /\ s.mmap \in Nat
         /\ layout_all(Layout(s)) = [start |-> Base, size |-> NPages * PageSize]
         /\ CallAreas(s) \subseteq Ranges
BY ElfLoadAssumption

(* The areas that are passed to the block.                                 *)
LEMMA CallIsRange ==
  ASSUME NEW s \in Setups
  PROVE  /\ \A j \in DOMAIN s.image.phdrs :
              SegmentPages(s.image.phdrs[j]) \in Ranges /\ FileBytes(s.image.phdrs[j]) \in Ranges
         /\ \A j \in Kept(s.image) : SectionPages(s.image, j) \in Ranges
         /\ \A n \in 1 .. 2 : Stack(s, n) \in Ranges /\ Guard(Stack(s, n)) \in Ranges
         /\ s.image.info \in Ranges /\ Layout(s).sealed \in Ranges /\ Layout(s).invis \in Ranges
<1>1. \A a \in CallAreas(s) : a \in Ranges
  BY SetupIs
<1> DEFINE A1 == {SegmentPages(s.image.phdrs[j]) : j \in DOMAIN s.image.phdrs}
           A2 == {FileBytes(s.image.phdrs[j]) : j \in DOMAIN s.image.phdrs}
           A3 == {SectionPages(s.image, j) : j \in Kept(s.image)}
           A4 == {Stack(s, n) : n \in 1 .. 2}
           A5 == {Guard(Stack(s, n)) : n \in 1 .. 2}
           A6 == {s.image.info, Layout(s).sealed, Layout(s).invis}
<1>2. CallAreas(s) = A1 \cup A2 \cup A3 \cup A4 \cup A5 \cup A6
  BY DEF CallAreas
<1>3. /\ \A j \in DOMAIN s.image.phdrs :
           SegmentPages(s.image.phdrs[j]) \in A1 /\ FileBytes(s.image.phdrs[j]) \in A2
      /\ \A j \in Kept(s.image) : SectionPages(s.image, j) \in A3
  BY Zenon
<1>4. /\ \A n \in 1 .. 2 : Stack(s, n) \in A4 /\ Guard(Stack(s, n)) \in A5
      /\ s.image.info \in A6 /\ Layout(s).sealed \in A6 /\ Layout(s).invis \in A6
  BY Zenon
<1> HIDE DEF A1, A2, A3, A4, A5, A6
<1>5. \A a \in A1 \cup A2 \cup A3 \cup A4 \cup A5 \cup A6 : a \in Ranges
  BY <1>1, <1>2, Zenon
<1>6. QED
  BY <1>3, <1>4, <1>5, Zenon

LEMMA HeadersAre ==
  ASSUME NEW im, WellLinked(im)
  PROVE  /\ im.phdrs \in Seq(Header) /\ Len(im.phdrs) \in Nat
         /\ DOMAIN im.phdrs = 1 .. Len(im.phdrs)
<1>1. im.phdrs \in Seq(Header)
  BY Zenon DEF WellLinked
<1>2. QED
  BY <1>1

(* What is known of a program header.                                      *)
LEMMA HeaderIs ==
  ASSUME NEW im, WellLinked(im), NEW j \in DOMAIN im.phdrs
  PROVE  /\ im.phdrs[j] \in Header
         /\ Segment(im.phdrs[j]) \in Area /\ FileBytes(im.phdrs[j]) \in Area
         /\ Inside(FileBytes(im.phdrs[j]), Segment(im.phdrs[j]))
<1> DEFINE p == im.phdrs[j]
<1>1. p \in Header /\ p.filesz <= p.memsz
  BY DEF WellLinked
<1> HIDE DEF p
<1>2. p.vaddr \in Nat /\ p.memsz \in Nat /\ p.filesz \in Nat
  BY <1>1 DEF Header
<1>3. QED
  BY <1>1, <1>2 DEF p, Segment, FileBytes, Area, Inside, range_end

(* The span of an image has every segment (mb_elf_span).                   *)
LEMMA SpanIs ==
  ASSUME NEW im, WellLinked(im)
  PROVE  /\ mb_elf_span(im) \in Area
         /\ \A j \in Addressed(im) : Inside(Segment(im.phdrs[j]), mb_elf_span(im))
<1> DEFINE n == Len(im.phdrs)
           I == Addressed(im)
           top(j) == im.phdrs[j].vaddr + im.phdrs[j].memsz
           f == [j \in 1 .. n |-> top(j)]
           lo == {im.phdrs[j].vaddr : j \in I}
           hi == {top(j) : j \in I}
<1>1. n \in Nat /\ DOMAIN im.phdrs = 1 .. n /\ I \in SUBSET (1 .. n) /\ I # {}
  BY DEF WellLinked, Addressed
<1>2. \A j \in 1 .. n : im.phdrs[j].vaddr \in Nat /\ im.phdrs[j].memsz \in Nat
  BY <1>1, HeaderIs DEF Header
<1>3. PICK a \in lo : \A y \in lo : a <= y
  <2>1. lo \in SUBSET Nat /\ lo # {}
    BY <1>1, <1>2
  <2> HIDE DEF lo
  <2>2. QED
    BY <2>1, NatMin, Zenon
<1>4. Min(lo) \in lo /\ \A y \in lo : Min(lo) <= y
  BY <1>3, Zenon DEF Min
<1>5. PICK h \in I : \A k \in I : f[k] <= f[h]
  <2>1. \A j \in 1 .. n : f[j] \in Int
    BY <1>2
  <2> HIDE DEF f, I, n
  <2>2. QED
    BY <1>1, <2>1, MaxExists, Zenon
<1>6. \A y \in hi : top(h) >= y
  BY <1>1, <1>2, <1>5, Zenon
<1>7. Max(hi) \in hi /\ \A y \in hi : Max(hi) >= y
  <2>1. top(h) \in hi
    OBVIOUS
  <2> HIDE DEF hi, top
  <2>2. QED
    BY <1>6, <2>1, Zenon DEF Max
<1>8. mb_elf_span(im) = [start |-> Min(lo), size |-> Max(hi) - Min(lo)]
  BY DEF mb_elf_span
<1>9. Min(lo) \in Nat /\ Max(hi) \in Nat
  <2>1. lo \subseteq Nat /\ hi \subseteq Nat
    BY <1>1, <1>2
  <2> HIDE DEF lo, hi
  <2>2. QED
    BY <1>4, <1>7, <2>1, Zenon
<1>10. ASSUME NEW j \in I
       PROVE  /\ Min(lo) <= im.phdrs[j].vaddr /\ top(j) <= Max(hi)
              /\ im.phdrs[j].vaddr \in Nat /\ im.phdrs[j].memsz \in Nat
  BY <1>1, <1>2, <1>4, <1>7, <1>9, Zenon
<1> HIDE DEF lo, hi
<1>11. Min(lo) <= Max(hi)
  BY <1>1, <1>9, <1>10
<1>12. QED
  BY <1>8, <1>9, <1>10, <1>11 DEF Area, Inside, Segment, range_end

(* An area behind another (the ADD of mb_host_new).                        *)
LEMMA AfterIs ==
  ASSUME NEW a, Whole(a), NEW n \in Nat
  PROVE  /\ Whole(After(a, n)) /\ After(a, n).start = range_end(a) /\ n <= After(a, n).size
         /\ range_end(a) <= range_end(After(a, n))
<1>1. /\ Multiple(a.start) /\ Multiple(a.size) /\ a.start \in Nat /\ a.size \in Nat
  BY DEF Whole, Area
<1>2. Multiple(range_end(a)) /\ range_end(a) \in Nat
  BY <1>1, MultipleSum DEF range_end
<1>3. Multiple(align_up(n)) /\ align_up(n) \in Nat /\ n <= align_up(n)
  <2>1. Multiple(align_up(n)) /\ align_up(n) \in Int /\ n <= align_up(n)
    BY UpIs
  <2>2. QED
    BY <2>1
<1>4. After(a, n).start = range_end(a) /\ After(a, n).size = align_up(n) /\ After(a, n) \in Area
  BY <1>2, <1>3 DEF After, Area
<1>5. range_end(After(a, n)) = range_end(a) + align_up(n)
  BY <1>4 DEF range_end
<1>6. QED
  BY <1>2, <1>3, <1>4, <1>5 DEF Whole

InBlock(r) == Base <= r.start /\ range_end(r) <= Base + NPages * PageSize

(* The areas of a layout are whole, one behind the other, and in the       *)
(* block.                                                                  *)
LEMMA LayoutIs ==
  ASSUME NEW s \in Setups
  PROVE  LET l == Layout(s) IN
         /\ Whole(l.elf) /\ Whole(l.main_thread) /\ Whole(l.alt_thread) /\ Whole(l.sealed)
         /\ Whole(l.invis)
         /\ InBlock(l.elf) /\ InBlock(l.main_thread) /\ InBlock(l.alt_thread)
         /\ InBlock(l.sealed) /\ InBlock(l.invis)
         /\ l.elf = align_expand(mb_elf_span(s.image))
         /\ StackSize <= l.main_thread.size /\ StackSize <= l.alt_thread.size
         /\ range_end(l.elf) <= l.main_thread.start
         /\ range_end(l.main_thread) <= l.alt_thread.start
         /\ range_end(l.alt_thread) <= l.sealed.start
<1> DEFINE l == Layout(s)
           e == l.elf
           m == l.main_thread
           a == l.alt_thread
           b == l.sbrk
           h == l.sealed
           v == l.invis
           p == l.plain
           x == l.mmap_arena
<1>1. /\ e = align_expand(mb_elf_span(s.image))
      /\ m = After(e, StackSize) /\ a = After(m, StackSize) /\ b = After(a, s.sbrk)
      /\ h = After(b, s.sealed) /\ v = After(h, s.invis) /\ p = After(v, s.plain)
      /\ x = After(p, s.mmap)
  BY Zenon DEF Layout
<1>2. e.start = Base /\ range_end(x) - e.start = NPages * PageSize
  BY SetupIs, Zenon DEF layout_all
<1> HIDE DEF l
<1>3. Whole(e)
  BY <1>1, SetupIs, SpanIs, ExpandIs
<1>4. /\ StackSize \in Nat /\ s.sbrk \in Nat /\ s.sealed \in Nat /\ s.invis \in Nat
      /\ s.plain \in Nat /\ s.mmap \in Nat
  BY SetupIs, ElfLoadAssumption
<1> HIDE DEF e, m, a, b, h, v, p, x
<1>5. /\ Whole(m) /\ m.start = range_end(e) /\ StackSize <= m.size /\ range_end(e) <= range_end(m)
  BY <1>1, <1>3, <1>4, AfterIs, Zenon
<1>6. /\ Whole(a) /\ a.start = range_end(m) /\ StackSize <= a.size /\ range_end(m) <= range_end(a)
  BY <1>1, <1>4, <1>5, AfterIs, Zenon
<1>7. Whole(b) /\ b.start = range_end(a) /\ range_end(a) <= range_end(b)
  BY <1>1, <1>4, <1>6, AfterIs, Zenon
<1>8. Whole(h) /\ h.start = range_end(b) /\ range_end(b) <= range_end(h)
  BY <1>1, <1>4, <1>7, AfterIs, Zenon
<1>9. Whole(v) /\ v.start = range_end(h) /\ range_end(h) <= range_end(v)
  BY <1>1, <1>4, <1>8, AfterIs, Zenon
<1>10. Whole(p) /\ p.start = range_end(v) /\ range_end(v) <= range_end(p)
  BY <1>1, <1>4, <1>9, AfterIs, Zenon
<1>11. Whole(x) /\ range_end(p) <= range_end(x)
  BY <1>1, <1>4, <1>10, AfterIs
<1>12. /\ range_end(e) \in Nat /\ range_end(m) \in Nat /\ range_end(a) \in Nat /\ range_end(b) \in Nat
       /\ range_end(h) \in Nat /\ range_end(v) \in Nat /\ range_end(p) \in Nat /\ range_end(x) \in Nat
       /\ e.start <= range_end(e)
  BY <1>3, <1>5, <1>6, <1>7, <1>8, <1>9, <1>10, <1>11 DEF Whole, Area, range_end
<1>13. Base \in Nat /\ NPages * PageSize \in Nat /\ range_end(x) = Base + NPages * PageSize
  <2>1. Base \in Nat /\ NPages \in Nat /\ PageSize \in Nat
    BY MemBlockAssumption
  <2>2. NPages * PageSize \in Nat
    BY <2>1
  <2>3. QED
    BY <1>2, <1>12, <2>1, <2>2
<1>14. InBlock(e) /\ InBlock(m) /\ InBlock(a) /\ InBlock(h) /\ InBlock(v)
  BY <1>2, <1>5, <1>6, <1>7, <1>8, <1>9, <1>10, <1>11, <1>12, <1>13 DEF InBlock
<1>15. range_end(e) <= m.start /\ range_end(m) <= a.start /\ range_end(a) <= h.start
  BY <1>5, <1>6, <1>7, <1>8, <1>12
<1>16. QED
  BY <1>1, <1>3, <1>5, <1>6, <1>8, <1>9, <1>14, <1>15, Zenon DEF l, e, m, a, h, v

(* What is inside an area of the block is in the block.                    *)
LEMMA InsideBlock ==
  ASSUME NEW r \in Area, NEW q \in Area, Inside(r, q), InBlock(q)
  PROVE  InBlock(r)
<1>1. r.start \in Int /\ q.start \in Int /\ range_end(r) \in Int /\ range_end(q) \in Int
  BY DEF Area, range_end
<1>2. Base \in Int /\ NPages * PageSize \in Int
  BY MemBlockAssumption
<1>3. QED
  BY <1>1, <1>2 DEF Inside, InBlock

(* The pages of a segment and of the bytes in the file.                    *)
LEMMA SegmentIs ==
  ASSUME NEW s \in Setups, NEW j \in DOMAIN s.image.phdrs, s.image.phdrs[j].vaddr # 0
  PROVE  LET p == s.image.phdrs[j] IN
         /\ Whole(SegmentPages(p)) /\ InBlock(SegmentPages(p))
         /\ Inside(SegmentPages(p), Layout(s).elf)
         /\ Whole(align_expand(FileBytes(p))) /\ InBlock(align_expand(FileBytes(p)))
         /\ PagesOf(align_expand(FileBytes(p))) \subseteq PagesOf(SegmentPages(p))
<1> DEFINE p == s.image.phdrs[j]
           g == Segment(p)
           f == FileBytes(p)
           d == mb_elf_span(s.image)
<1>1. WellLinked(s.image)
  BY SetupIs
<1>2. g \in Area /\ f \in Area /\ Inside(f, g)
  BY <1>1, HeaderIs, Zenon
<1>3. d \in Area /\ Inside(g, d)
  BY <1>1, SpanIs DEF Addressed
<1>4. Layout(s).elf = align_expand(d) /\ InBlock(align_expand(d))
  BY LayoutIs
<1> HIDE DEF g, f, d
<1>5. Whole(align_expand(g)) /\ Whole(align_expand(f)) /\ Whole(align_expand(d))
  BY <1>2, <1>3, ExpandIs
<1>6. Inside(align_expand(f), align_expand(g)) /\ Inside(align_expand(g), align_expand(d))
  BY <1>2, <1>3, ExpandInside
<1>7. InBlock(align_expand(g))
  BY <1>4, <1>5, <1>6, InsideBlock DEF Whole
<1>8. InBlock(align_expand(f))
  BY <1>5, <1>6, <1>7, InsideBlock DEF Whole
<1>9. PagesOf(align_expand(f)) \subseteq PagesOf(align_expand(g))
  BY <1>5, <1>6, PagesInside DEF Whole
<1>10. QED
  BY <1>4, <1>5, <1>6, <1>7, <1>8, <1>9, Zenon DEF SegmentPages, g, f

(* What lies in a segment: its pages are valid and belong to the segment.  *)
LEMMA InSegmentIs ==
  ASSUME NEW s \in Setups, NEW r \in Area, InSegment(s.image, r)
  PROVE  /\ Whole(align_expand(r)) /\ InBlock(align_expand(r)) /\ align_expand(r).size # 0
         /\ PagesOf(align_expand(r)) \subseteq PagesOf(Layout(s).elf)
         /\ \A i \in PagesOf(align_expand(r)) : SegmentsOf(s.image, Len(s.image.phdrs), i) # {}
<1> DEFINE im == s.image
<1>1. WellLinked(im) /\ r.size # 0
  BY SetupIs DEF InSegment
<1>2. PICK j \in DOMAIN im.phdrs : Loaded(im.phdrs[j]) /\ Inside(r, Segment(im.phdrs[j]))
  BY DEF InSegment
<1> DEFINE g == Segment(im.phdrs[j])
<1>3. g \in Area /\ im.phdrs[j].vaddr # 0
  BY <1>1, <1>2, HeaderIs DEF Loaded
<1>4. /\ Whole(align_expand(g)) /\ InBlock(align_expand(g)) /\ Inside(align_expand(g), Layout(s).elf)
  BY <1>3, SegmentIs, Zenon DEF SegmentPages
<1>5. Layout(s).elf \in Area /\ align_expand(g) \in Area
  BY <1>4, LayoutIs, Zenon DEF Whole
<1>6. j \in 1 .. Len(im.phdrs)
  BY <1>1, HeadersAre, Zenon
<1>7. \A i \in PagesOf(align_expand(g)) : j \in SegmentsOf(im, Len(im.phdrs), i)
  BY <1>2, <1>6 DEF SegmentsOf, SegmentPages
<1>8. Inside(r, g)
  BY <1>2
<1> HIDE DEF g
<1>9. Whole(align_expand(r)) /\ Inside(r, align_expand(r)) /\ Inside(align_expand(r), align_expand(g))
  BY <1>3, <1>8, ExpandIs, ExpandInside
<1>10. InBlock(align_expand(r)) /\ PagesOf(align_expand(r)) \subseteq PagesOf(align_expand(g))
  BY <1>4, <1>5, <1>9, InsideBlock, PagesInside DEF Whole
<1>11. PagesOf(align_expand(g)) \subseteq PagesOf(Layout(s).elf)
  BY <1>4, <1>5, PagesInside
<1>12. align_expand(r).size # 0
  <2>1. /\ r.start \in Nat /\ r.size \in Nat /\ align_expand(r).start \in Nat
        /\ align_expand(r).size \in Nat
    BY <1>9 DEF Whole, Area
  <2>2. QED
    BY <1>1, <1>9, <2>1 DEF Inside, range_end
<1>13. QED
  BY <1>7, <1>9, <1>10, <1>11, <1>12

(* The stacks and their guards.                                            *)
LEMMA StackIs ==
  ASSUME NEW s \in Setups, NEW n \in 1 .. 2
  PROVE  /\ Whole(Stack(s, n)) /\ InBlock(Stack(s, n)) /\ Stack(s, n).size # 0
         /\ Whole(Guard(Stack(s, n))) /\ InBlock(Guard(Stack(s, n))) /\ Guard(Stack(s, n)).size # 0
         /\ PagesOf(Guard(Stack(s, n))) \subseteq PagesOf(Stack(s, n))
<1> DEFINE r == Stack(s, n)
           g == Guard(r)
<1>1. Whole(r) /\ InBlock(r) /\ StackSize <= r.size
  BY LayoutIs DEF Stack
<1> HIDE DEF r
<1>2. GuardSize \in Nat \ {0} /\ GuardSize % PageSize = 0 /\ StackSize \in Nat /\ GuardSize <= StackSize
  BY ElfLoadAssumption
<1>3. r.start \in Nat /\ r.size \in Nat /\ Multiple(r.start) /\ GuardSize <= r.size /\ r \in Area
  BY <1>1, <1>2 DEF Whole, Area
<1>4. g.start = r.start /\ g.size = GuardSize /\ g \in Area
  BY <1>2, <1>3 DEF Guard, Area
<1> HIDE DEF g
<1>5. Whole(g)
  BY <1>2, <1>3, <1>4 DEF Whole, Multiple
<1>6. Inside(g, r)
  BY <1>2, <1>3, <1>4 DEF Inside, range_end
<1>7. InBlock(g) /\ PagesOf(g) \subseteq PagesOf(r)
  BY <1>1, <1>3, <1>4, <1>6, InsideBlock, PagesInside
<1>8. r.size # 0 /\ g.size # 0
  BY <1>2, <1>3, <1>4
<1>9. QED
  BY <1>1, <1>5, <1>7, <1>8 DEF r, g

(* The image, the stacks and the sealed heap have no page in common.       *)
LEMMA AreasApart ==
  ASSUME NEW s \in Setups, NEW i \in Pages
  PROVE  /\ i \in PagesOf(Layout(s).elf) =>
              /\ \A n \in 1 .. 2 : i \notin PagesOf(Stack(s, n))
              /\ i \notin PagesOf(Layout(s).sealed)
         /\ \A n \in 1 .. 2 : i \in PagesOf(Stack(s, n)) => i \notin PagesOf(Layout(s).sealed)
         /\ \A n, m \in 1 .. 2 : i \in PagesOf(Stack(s, n)) /\ i \in PagesOf(Stack(s, m)) => n = m
<1> DEFINE e == Layout(s).elf
           m1 == Layout(s).main_thread
           m2 == Layout(s).alt_thread
           h == Layout(s).sealed
<1>1. /\ e \in Area /\ m1 \in Area /\ m2 \in Area /\ h \in Area
      /\ range_end(e) <= m1.start /\ range_end(m1) <= m2.start /\ range_end(m2) <= h.start
  BY LayoutIs, Zenon DEF Whole
<1>2. Stack(s, 1) = m1 /\ Stack(s, 2) = m2
  BY DEF Stack
<1> HIDE DEF e, m1, m2, h
<1>3. range_end(e) <= m2.start /\ range_end(e) <= h.start /\ range_end(m1) <= h.start
  <2>1. /\ m1.start \in Nat /\ m1.size \in Nat /\ m2.start \in Nat /\ m2.size \in Nat
        /\ h.start \in Nat /\ e.start \in Nat /\ e.size \in Nat
    BY <1>1 DEF Area
  <2>2. QED
    BY <1>1, <2>1 DEF range_end
<1>4. i \in PagesOf(e) => i \notin PagesOf(m1) /\ i \notin PagesOf(m2) /\ i \notin PagesOf(h)
  BY <1>1, <1>3, PagesApart
<1>5. i \in PagesOf(m1) => i \notin PagesOf(m2) /\ i \notin PagesOf(h)
  BY <1>1, <1>3, PagesApart
<1>6. i \in PagesOf(m2) => i \notin PagesOf(h)
  BY <1>1, PagesApart
<1>7. \A n \in 1 .. 2 : (Stack(s, n) = m1 /\ n = 1) \/ (Stack(s, n) = m2 /\ n = 2)
  <2>1. \A n \in 1 .. 2 : n = 1 \/ n = 2
    OBVIOUS
  <2>2. QED
    BY <1>2, <2>1, Zenon
<1>8. QED
  BY <1>4, <1>5, <1>6, <1>7, Zenon DEF e, h

-----------------------------------------------------------------------------
(* What the headers make of a page, one header after the other.            *)

LEMMA MaxLast ==
  ASSUME NEW n \in Nat, NEW S \in SUBSET (1 .. n - 1)
  PROVE  Max(S \cup {n}) = n
<1> DEFINE T == S \cup {n}
           Q(x) == x \in T /\ \A y \in T : x >= y
<1>1. Q(n) /\ \A x \in T : Q(x) => x = n
  OBVIOUS
<1>2. Max(T) = CHOOSE x \in T : \A y \in T : x >= y
  BY DEF Max
<1> HIDE DEF T
<1>3. QED
  BY <1>1, <1>2, Zenon DEF T

LEMMA NextSegment ==
  ASSUME NEW im, WellLinked(im), NEW n \in DOMAIN im.phdrs, NEW i
  PROVE  /\ Loaded(im.phdrs[n]) /\ i \in PagesOf(SegmentPages(im.phdrs[n])) =>
              SegmentStatus(im, n, i) = prot_status(segment_prot(im.phdrs[n].flags))
         /\ ~(Loaded(im.phdrs[n]) /\ i \in PagesOf(SegmentPages(im.phdrs[n]))) =>
              SegmentStatus(im, n, i) = SegmentStatus(im, n - 1, i)
<1> DEFINE S == SegmentsOf(im, n - 1, i)
           on == Loaded(im.phdrs[n]) /\ i \in PagesOf(SegmentPages(im.phdrs[n]))
<1>1. n \in Nat /\ n \in 1 .. n /\ 1 .. n = (1 .. n - 1) \cup {n}
  BY DEF WellLinked
<1>2. S \in SUBSET (1 .. n - 1)
  BY DEF SegmentsOf
<1>3. on => SegmentsOf(im, n, i) = S \cup {n}
  BY <1>1, Zenon DEF SegmentsOf
<1>4. ~on => SegmentsOf(im, n, i) = S
  BY <1>1, Zenon DEF SegmentsOf
<1> HIDE DEF S, on
<1>5. on => Max(SegmentsOf(im, n, i)) = n /\ SegmentsOf(im, n, i) # {}
  BY <1>1, <1>2, <1>3, MaxLast
<1>6. on => SegmentStatus(im, n, i) = prot_status(segment_prot(im.phdrs[n].flags))
  BY <1>5, Zenon DEF SegmentStatus
<1>7. ~on => SegmentStatus(im, n, i) = SegmentStatus(im, n - 1, i)
  BY <1>4, Zenon DEF SegmentStatus, S
<1>8. QED
  BY <1>6, <1>7, Zenon DEF on

LEMMA NextFile ==
  ASSUME NEW im, WellLinked(im), NEW n \in DOMAIN im.phdrs, NEW i, Loaded(im.phdrs[n])
  PROVE  LET F == align_expand(FileBytes(im.phdrs[n]))
             on == im.phdrs[n].filesz # 0 /\ i \in PagesOf(SegmentPages(im.phdrs[n])) /\ i \in PagesOf(F)
         IN  /\ on => FileContent(im, n, i) = im.phdrs[n].data
             /\ ~on => FileContent(im, n, i) = FileContent(im, n - 1, i)
<1> DEFINE F == align_expand(FileBytes(im.phdrs[n]))
           on == im.phdrs[n].filesz # 0 /\ i \in PagesOf(SegmentPages(im.phdrs[n])) /\ i \in PagesOf(F)
           S == FilesOf(im, n - 1, i)
<1>1. n \in Nat /\ n \in 1 .. n /\ 1 .. n = (1 .. n - 1) \cup {n}
  BY DEF WellLinked
<1>2. S \in SUBSET (1 .. n - 1)
  BY DEF SegmentsOf, FilesOf
<1>3. on => FilesOf(im, n, i) = S \cup {n}
  BY <1>1, Zenon DEF SegmentsOf, FilesOf
<1>4. ~on => FilesOf(im, n, i) = S
  BY <1>1, Zenon DEF SegmentsOf, FilesOf
<1> HIDE DEF S, on
<1>5. on => Max(FilesOf(im, n, i)) = n /\ FilesOf(im, n, i) # {}
  BY <1>1, <1>2, <1>3, MaxLast
<1>6. on => FileContent(im, n, i) = im.phdrs[n].data
  BY <1>5, Zenon DEF FileContent
<1>7. ~on => FileContent(im, n, i) = FileContent(im, n - 1, i)
  BY <1>4, Zenon DEF FileContent, S
<1>8. QED
  BY <1>6, <1>7, Zenon DEF on

(* A header that is not loaded changes nothing.                            *)
LEMMA SkippedHeader ==
  ASSUME NEW im, WellLinked(im), NEW n \in DOMAIN im.phdrs, NEW i, ~Loaded(im.phdrs[n])
  PROVE  /\ SegmentStatus(im, n, i) = SegmentStatus(im, n - 1, i)
         /\ FileContent(im, n, i) = FileContent(im, n - 1, i)
<1>1. n \in 1 .. n /\ 1 .. n = (1 .. n - 1) \cup {n}
  BY DEF WellLinked
<1>2. SegmentsOf(im, n, i) = SegmentsOf(im, n - 1, i)
  BY <1>1, Zenon DEF SegmentsOf
<1>3. QED
  BY <1>2, Zenon DEF SegmentStatus, FilesOf, FileContent

(* Before the first header everything is free and zero.                    *)
LEMMA NoHeader ==
  ASSUME NEW im, NEW i
  PROVE  SegmentStatus(im, 0, i) = MB_ST_FREE /\ FileContent(im, 0, i) = Zero
<1>1. 1 .. 0 = {}
  OBVIOUS
<1>2. SegmentsOf(im, 0, i) = {} /\ FilesOf(im, 0, i) = {}
  BY <1>1, Zenon DEF SegmentsOf, FilesOf
<1>3. QED
  BY <1>2, Zenon DEF SegmentStatus, FileContent

(* Segments are in the image.                                              *)
LEMMA SegmentsInImage ==
  ASSUME NEW s \in Setups, NEW n \in 0 .. Len(s.image.phdrs), NEW i,
         SegmentStatus(s.image, n, i) # MB_ST_FREE
  PROVE  i \in PagesOf(Layout(s).elf)
<1>1. WellLinked(s.image)
  BY SetupIs
<1>2. SegmentsOf(s.image, n, i) # {}
  BY DEF SegmentStatus
<1>3. PICK j \in 1 .. n : /\ Loaded(s.image.phdrs[j])
                          /\ i \in PagesOf(SegmentPages(s.image.phdrs[j]))
  BY <1>2 DEF SegmentsOf
<1>4. j \in DOMAIN s.image.phdrs /\ s.image.phdrs[j].vaddr # 0
  <2>1. Len(s.image.phdrs) \in Nat /\ DOMAIN s.image.phdrs = 1 .. Len(s.image.phdrs)
    BY <1>1, HeadersAre, Zenon
  <2>2. QED
    BY <1>3, <2>1 DEF Loaded
<1>5. /\ Whole(SegmentPages(s.image.phdrs[j])) /\ Inside(SegmentPages(s.image.phdrs[j]), Layout(s).elf)
      /\ Layout(s).elf \in Area
  BY <1>4, SegmentIs, LayoutIs, Zenon DEF Whole
<1>6. QED
  BY <1>3, <1>5, PagesInside DEF Whole

LEMMA SegmentProtType ==
  ASSUME NEW flags \in SUBSET {"r", "w", "x"}
  PROVE  segment_prot(flags) \in MB_PROT
<1>1. "w" \notin flags /\ "x" \notin flags => flags = {} \/ flags = {"r"}
  BY Zenon
<1>2. QED
  BY <1>1 DEF segment_prot, MB_PROT

(* A page with a segment is not free.                                      *)
LEMMA SegmentIsMapped ==
  ASSUME NEW im, WellLinked(im), NEW n \in 0 .. Len(im.phdrs), NEW i, SegmentsOf(im, n, i) # {}
  PROVE  SegmentStatus(im, n, i) \in MB_ST \ {MB_ST_FREE}
<1> DEFINE S == SegmentsOf(im, n, i)
<1>1. S \subseteq 1 .. n /\ S \subseteq Nat
  BY DEF SegmentsOf
<1>2. Max(S) \in S
  <2> DEFINE f == [j \in 1 .. n |-> j]
  <2>1. n \in Nat /\ (\A j \in 1 .. n : f[j] \in Int /\ f[j] = j) /\ S \in SUBSET (1 .. n) /\ S # {}
    BY <1>1
  <2> HIDE DEF f, S
  <2>2. PICK j \in S : \A k \in S : f[k] <= f[j]
    BY <2>1, MaxExists, Zenon
  <2>3. \A k \in S : j >= k
    BY <2>1, <2>2
  <2>4. QED
    BY <2>3, Zenon DEF Max
<1>3. im.phdrs[Max(S)].flags \in SUBSET {"r", "w", "x"}
  <2>1. Max(S) \in DOMAIN im.phdrs
    BY <1>1, <1>2 DEF WellLinked
  <2>2. im.phdrs[Max(S)] \in Header
    BY <2>1, HeaderIs
  <2>3. QED
    BY <2>2 DEF Header
<1>4. QED
  <2>1. ASSUME NEW prot PROVE prot_status(prot) \in MB_ST \ {MB_ST_FREE}
    BY DEF MB_ST, prot_status, MB_ST_FREE, MB_ST_NONE, MB_ST_R, MB_ST_RW, MB_ST_RX, MB_ST_RWX,
           MB_ST_RWSTACK
  <2>2. QED
    BY <1>3, <2>1, SegmentProtType, Zenon DEF SegmentStatus

-----------------------------------------------------------------------------
(* The pages from one place of the loader to the next.                     *)

LEMMA StackSets ==
  ASSUME NEW p, NEW n
  PROVE  /\ p \in Setting \cup Segments =>
              MappedStacks(p, n) = {} /\ GuardedStacks(p, n) = {} /\ HiddenStacks(p, n) = {}
         /\ n \in 1 .. 2 =>
              /\ MappedStacks("stack", n) = 1 .. n - 1 /\ GuardedStacks("stack", n) = 1 .. n - 1
              /\ MappedStacks("guard", n) = 1 .. n /\ GuardedStacks("guard", n) = 1 .. n - 1
              /\ MappedStacks("hide", n) = 1 .. n /\ GuardedStacks("hide", n) = 1 .. n
              /\ \A q \in Stacks : HiddenStacks(q, n) = 1 .. n - 1
         /\ MappedStacks("loaded", n) = 1 .. 2 /\ GuardedStacks("loaded", n) = 1 .. 2
         /\ HiddenStacks("loaded", n) = 1 .. 2
<1>1. p \in Setting \cup Segments => p # "loaded" /\ p \notin Stacks
  BY DEF Setting, Segments, Stacks
<1>2. p \in Setting \cup Segments =>
        MappedStacks(p, n) = {} /\ GuardedStacks(p, n) = {} /\ HiddenStacks(p, n) = {}
  BY <1>1, Zenon DEF MappedStacks, GuardedStacks, HiddenStacks
<1>3. /\ MappedStacks("loaded", n) = 1 .. 2 /\ GuardedStacks("loaded", n) = 1 .. 2
      /\ HiddenStacks("loaded", n) = 1 .. 2
  BY Zenon DEF MappedStacks, GuardedStacks, HiddenStacks
<1>4. ASSUME n \in 1 .. 2
      PROVE  /\ {m \in 1 .. 2 : m < n} = 1 .. n - 1
             /\ {m \in 1 .. 2 : m < n \/ m = n} = 1 .. n
  BY <1>4
<1>5. "stack" \in Stacks /\ "guard" \in Stacks /\ "hide" \in Stacks /\ "loaded" \notin Stacks
  BY DEF Stacks
<1>6. /\ MappedStacks("stack", n) = {m \in 1 .. 2 : m < n}
      /\ MappedStacks("guard", n) = {m \in 1 .. 2 : m < n \/ m = n}
      /\ MappedStacks("hide", n) = {m \in 1 .. 2 : m < n \/ m = n}
  BY <1>5 DEF MappedStacks
<1>7. /\ GuardedStacks("stack", n) = {m \in 1 .. 2 : m < n}
      /\ GuardedStacks("guard", n) = {m \in 1 .. 2 : m < n}
      /\ GuardedStacks("hide", n) = {m \in 1 .. 2 : m < n \/ m = n}
  BY <1>5 DEF GuardedStacks
<1>8. \A q \in Stacks : HiddenStacks(q, n) = {m \in 1 .. 2 : m < n}
  BY <1>5 DEF HiddenStacks
<1>9. QED
  BY <1>2, <1>3, <1>4, <1>6, <1>7, <1>8, Zenon

LEMMA AtSetting ==
  ASSUME NEW s, NEW p \in Setting, NEW n, NEW i
  PROVE  StatusAt(s, p, n, i) = MB_ST_FREE /\ ContentAt(s, p, n, i) = Zero
<1>1. p \notin {"copy", "protect"} /\ p # "protect"
  BY DEF Setting
<1>2. MappedStacks(p, n) = {} /\ GuardedStacks(p, n) = {} /\ HeadersDone(s, p, n) = 0
  BY StackSets DEF HeadersDone
<1>3. QED
  BY <1>1, <1>2, NoHeader, Zenon DEF StatusAt, ContentAt

LEMMA AtSegments ==
  ASSUME NEW s, NEW n, NEW i
  PROVE  /\ StatusAt(s, "map", n, i) = SegmentStatus(s.image, n - 1, i)
         /\ \A p \in {"copy", "protect"} :
              StatusAt(s, p, n, i) = IF i \in PagesOf(SegmentPages(s.image.phdrs[n])) THEN MB_ST_RW
                                     ELSE SegmentStatus(s.image, n - 1, i)
         /\ ContentAt(s, "map", n, i) = FileContent(s.image, n - 1, i)
         /\ ContentAt(s, "copy", n, i) = FileContent(s.image, n - 1, i)
         /\ ContentAt(s, "protect", n, i) = FileContent(s.image, n, i)
<1>1. \A p \in Segments : p \notin Setting /\ p \notin {"new", "invis"} /\ p \in Setting \cup Segments
  BY DEF Setting, Segments
<1>2. "map" \in Segments /\ "copy" \in Segments /\ "protect" \in Segments
  BY DEF Segments
<1>3. \A p \in Segments : /\ MappedStacks(p, n) = {} /\ GuardedStacks(p, n) = {}
                          /\ HiddenStacks(p, n) = {} /\ HeadersDone(s, p, n) = n - 1
  BY <1>1, StackSets, Zenon DEF HeadersDone
<1>4. "map" \notin {"copy", "protect"} /\ "map" # "protect" /\ "copy" # "protect"
  OBVIOUS
<1>5. /\ StatusAt(s, "map", n, i) = SegmentStatus(s.image, n - 1, i)
      /\ \A p \in {"copy", "protect"} :
           StatusAt(s, p, n, i) = IF i \in PagesOf(SegmentPages(s.image.phdrs[n])) THEN MB_ST_RW
                                  ELSE SegmentStatus(s.image, n - 1, i)
  BY <1>2, <1>3, <1>4, Zenon DEF StatusAt
<1>6. /\ ContentAt(s, "map", n, i) = FileContent(s.image, n - 1, i)
      /\ ContentAt(s, "copy", n, i) = FileContent(s.image, n - 1, i)
      /\ ContentAt(s, "protect", n, i) = FileContent(s.image, n, i)
  BY <1>1, <1>2, <1>3, <1>4, Zenon DEF ContentAt
<1>7. QED
  BY <1>5, <1>6, Zenon

LEMMA NextPlace ==
  ASSUME NEW s, NEW n \in Int, NEW i
  PROVE  /\ StatusAt(s, "map", n + 1, i) = SegmentStatus(s.image, n, i)
         /\ ContentAt(s, "map", n + 1, i) = FileContent(s.image, n, i)
<1>1. /\ StatusAt(s, "map", n + 1, i) = SegmentStatus(s.image, (n + 1) - 1, i)
      /\ ContentAt(s, "map", n + 1, i) = FileContent(s.image, (n + 1) - 1, i)
  BY AtSegments
<1>2. (n + 1) - 1 = n
  OBVIOUS
<1>3. QED
  BY <1>1, <1>2

(* A stack's pages are free until it is mapped.                            *)
LEMMA AtStacks ==
  ASSUME NEW s \in Setups, NEW n \in 1 .. 2, NEW i \in Pages
  PROVE  /\ i \in PagesOf(Stack(s, n)) => StatusAt(s, "stack", n, i) = MB_ST_FREE
         /\ StatusAt(s, "guard", n, i) = IF i \in PagesOf(Stack(s, n)) THEN MB_ST_RWSTACK
                                         ELSE StatusAt(s, "stack", n, i)
         /\ StatusAt(s, "hide", n, i) = IF i \in PagesOf(Guard(Stack(s, n))) THEN MB_ST_NONE
                                        ELSE StatusAt(s, "guard", n, i)
<1> DEFINE G(m) == i \in PagesOf(Guard(Stack(s, m)))
           K(m) == i \in PagesOf(Stack(s, m))
           seg == SegmentStatus(s.image, Len(s.image.phdrs), i)
<1>1. /\ 1 .. n = (1 .. n - 1) \cup {n} /\ 1 .. n - 1 \subseteq 1 .. 2
      /\ \A m \in 1 .. n - 1 : m # n
  OBVIOUS
<1>2. \A m \in 1 .. 2 : G(m) => K(m)
  BY StackIs
<1>3. \A m \in 1 .. n - 1 : K(m) => ~K(n)
  BY <1>1, AreasApart, Zenon
<1>4. K(n) => seg = MB_ST_FREE
  <2>1. Len(s.image.phdrs) \in 0 .. Len(s.image.phdrs)
    <3>1. Len(s.image.phdrs) \in Nat
      BY SetupIs, HeadersAre, Zenon
    <3>2. QED
      BY <3>1
  <2>2. QED
    BY <2>1, SegmentsInImage, AreasApart, Zenon
<1>5. \A p \in Stacks : p \notin {"copy", "protect"} /\ HeadersDone(s, p, n) = Len(s.image.phdrs)
  BY DEF HeadersDone, Stacks, Setting, Segments
<1>6. "stack" \in Stacks /\ "guard" \in Stacks /\ "hide" \in Stacks
  BY DEF Stacks
<1> HIDE DEF G, K, seg
<1>7. StatusAt(s, "stack", n, i) = IF \E m \in 1 .. n - 1 : G(m) THEN MB_ST_NONE
                                   ELSE IF \E m \in 1 .. n - 1 : K(m) THEN MB_ST_RWSTACK ELSE seg
  BY <1>5, <1>6, StackSets, Zenon DEF StatusAt, G, K, seg
<1>8. StatusAt(s, "guard", n, i) = IF \E m \in 1 .. n - 1 : G(m) THEN MB_ST_NONE
                                   ELSE IF \E m \in 1 .. n : K(m) THEN MB_ST_RWSTACK ELSE seg
  BY <1>5, <1>6, StackSets, Zenon DEF StatusAt, G, K, seg
<1>9. StatusAt(s, "hide", n, i) = IF \E m \in 1 .. n : G(m) THEN MB_ST_NONE
                                  ELSE IF \E m \in 1 .. n : K(m) THEN MB_ST_RWSTACK ELSE seg
  BY <1>5, <1>6, StackSets, Zenon DEF StatusAt, G, K, seg
<1>10. /\ (\E m \in 1 .. n : G(m)) <=> (\E m \in 1 .. n - 1 : G(m)) \/ G(n)
       /\ (\E m \in 1 .. n : K(m)) <=> (\E m \in 1 .. n - 1 : K(m)) \/ K(n)
  BY <1>1, Zenon
<1>11. (\E m \in 1 .. n - 1 : G(m)) => ~K(n)
  BY <1>1, <1>2, <1>3, Zenon
<1>12. (\E m \in 1 .. n - 1 : K(m)) => ~K(n)
  BY <1>3, Zenon
<1>13. K(n) => StatusAt(s, "stack", n, i) = MB_ST_FREE
  BY <1>4, <1>7, <1>11, <1>12, Zenon
<1>14. StatusAt(s, "guard", n, i) = IF K(n) THEN MB_ST_RWSTACK ELSE StatusAt(s, "stack", n, i)
  BY <1>7, <1>8, <1>10, <1>11, Zenon
<1>15. StatusAt(s, "hide", n, i) = IF G(n) THEN MB_ST_NONE ELSE StatusAt(s, "guard", n, i)
  BY <1>8, <1>9, <1>10, Zenon
<1>16. QED
  BY <1>13, <1>14, <1>15, Zenon DEF G, K

(* From the segments to the stacks, to the second stack, and to the end.   *)
LEMMA BetweenStacks ==
  ASSUME NEW s \in Setups, NEW n, NEW i
  PROVE  /\ StatusAt(s, "stack", 1, i) = SegmentStatus(s.image, Len(s.image.phdrs), i)
         /\ StatusAt(s, "stack", 2, i) = StatusAt(s, "hide", 1, i)
         /\ StatusAt(s, "loaded", n, i) = StatusAt(s, "hide", 2, i)
         /\ StatusAt(s, "loaded", n, i) = LinkedStatus(s, i)
<1> DEFINE G(m) == i \in PagesOf(Guard(Stack(s, m)))
           K(m) == i \in PagesOf(Stack(s, m))
           seg == SegmentStatus(s.image, Len(s.image.phdrs), i)
           St(A, B) == IF \E m \in A : G(m) THEN MB_ST_NONE
                       ELSE IF \E m \in B : K(m) THEN MB_ST_RWSTACK ELSE seg
<1>1. \A p \in Stacks \cup {"loaded"} : /\ p \notin {"copy", "protect"}
                                        /\ \A k : HeadersDone(s, p, k) = Len(s.image.phdrs)
  BY DEF HeadersDone, Stacks, Setting, Segments
<1>2. "stack" \in Stacks /\ "hide" \in Stacks
  BY DEF Stacks
<1>3. 1 \in 1 .. 2 /\ 2 \in 1 .. 2 /\ 1 .. 1 - 1 = {} /\ 2 - 1 = 1
  OBVIOUS
<1> HIDE DEF G, K, seg
<1>4. StatusAt(s, "stack", 1, i) = St({}, {})
  <2>1. MappedStacks("stack", 1) = {} /\ GuardedStacks("stack", 1) = {}
    BY <1>3, StackSets
  <2>2. QED
    BY <1>1, <1>2, <2>1, Zenon DEF StatusAt, G, K, seg
<1>5. StatusAt(s, "hide", 1, i) = St(1 .. 1, 1 .. 1)
  <2>1. MappedStacks("hide", 1) = 1 .. 1 /\ GuardedStacks("hide", 1) = 1 .. 1
    BY <1>3, StackSets, Zenon
  <2>2. QED
    BY <1>1, <1>2, <2>1, Zenon DEF StatusAt, G, K, seg
<1>6. StatusAt(s, "stack", 2, i) = St(1 .. 1, 1 .. 1)
  <2>1. MappedStacks("stack", 2) = 1 .. 1 /\ GuardedStacks("stack", 2) = 1 .. 1
    BY <1>3, StackSets
  <2>2. QED
    BY <1>1, <1>2, <2>1, Zenon DEF StatusAt, G, K, seg
<1>7. StatusAt(s, "hide", 2, i) = St(1 .. 2, 1 .. 2)
  <2>1. MappedStacks("hide", 2) = 1 .. 2 /\ GuardedStacks("hide", 2) = 1 .. 2
    BY <1>3, StackSets, Zenon
  <2>2. QED
    BY <1>1, <1>2, <2>1, Zenon DEF StatusAt, G, K, seg
<1>8. StatusAt(s, "loaded", n, i) = St(1 .. 2, 1 .. 2)
  <2>1. MappedStacks("loaded", n) = 1 .. 2 /\ GuardedStacks("loaded", n) = 1 .. 2
    BY StackSets, Zenon
  <2>2. QED
    BY <1>1, <2>1, Zenon DEF StatusAt, G, K, seg
<1>9. LinkedStatus(s, i) = St(1 .. 2, 1 .. 2)
  BY Zenon DEF LinkedStatus, G, K, seg
<1>10. St({}, {}) = SegmentStatus(s.image, Len(s.image.phdrs), i)
  BY Zenon DEF seg
<1> HIDE DEF St
<1>11. QED
  BY <1>4, <1>5, <1>6, <1>7, <1>8, <1>9, <1>10, Zenon

InInvis(s, i) == \E j \in Invis(s.image) : i \in PagesOf(SectionPages(s.image, j))

LEMMA InInvisType ==
  ASSUME NEW s, NEW i
  PROVE  InInvis(s, i) \in BOOLEAN
BY Zenon DEF InInvis

LEMMA HiddenSoFar ==
  ASSUME NEW s, NEW n, NEW k, NEW i
  PROVE  /\ \A p \in {"new", "invis"} : HiddenAt(s, p, n, i) = FALSE
         /\ HiddenAt(s, "arena", n, i) = InInvis(s, i)
         /\ \A p \in Segments :
              HiddenAt(s, p, n, i) = (InInvis(s, i) \/ i \in PagesOf(Layout(s).invis))
         /\ \A p \in Stacks :
              HiddenAt(s, p, 1, i) = (InInvis(s, i) \/ i \in PagesOf(Layout(s).invis))
         /\ \A p \in Stacks :
              HiddenAt(s, p, 2, i) = (HiddenAt(s, "hide", 1, i) \/ i \in PagesOf(Stack(s, 1)))
         /\ HiddenAt(s, "loaded", n, i) = (HiddenAt(s, "hide", 2, i) \/ i \in PagesOf(Stack(s, 2)))
         /\ HiddenAt(s, "loaded", n, i) = HiddenPage(s, i)
<1> DEFINE inv == InInvis(s, i)
           heap == i \in PagesOf(Layout(s).invis)
           K(m) == i \in PagesOf(Stack(s, m))
<1>1. /\ \A p \in Stacks \cup Segments \cup {"loaded"} : p \notin Setting /\ p \notin {"new", "invis"}
      /\ {"new", "invis", "arena"} \subseteq Setting /\ "arena" \notin {"new", "invis"}
      /\ "hide" \in Stacks
  BY DEF Stacks, Setting, Segments
<1>2. /\ 1 \in 1 .. 2 /\ 2 \in 1 .. 2 /\ 1 .. 1 - 1 = {} /\ 2 - 1 = 1
      /\ (\A m : m \in 1 .. 1 <=> m = 1) /\ (\A m : m \in 1 .. 2 <=> m = 1 \/ m = 2)
  OBVIOUS
<1>3. \A p \in Setting \cup Segments : HiddenStacks(p, n) = {}
  BY StackSets, Zenon
<1>4. \A p \in Stacks : HiddenStacks(p, 1) = {} /\ HiddenStacks(p, 2) = 1 .. 1
  BY <1>2, StackSets
<1>5. HiddenStacks("loaded", n) = 1 .. 2
  BY StackSets, Zenon
<1> HIDE DEF inv, heap, K
<1>6. (\A p \in {"new", "invis"} : HiddenAt(s, p, n, i) = FALSE) /\ HiddenAt(s, "arena", n, i) = inv
  BY <1>1, <1>3, Zenon DEF HiddenAt, InInvis, inv
<1>7. \A p \in Segments : HiddenAt(s, p, n, i) = (inv \/ heap)
  BY <1>1, <1>3, Zenon DEF HiddenAt, InInvis, inv, heap
<1>8. \A p \in Stacks : HiddenAt(s, p, 1, i) = (inv \/ heap)
  BY <1>1, <1>4, Zenon DEF HiddenAt, InInvis, inv, heap
<1>9. \A p \in Stacks : HiddenAt(s, p, 2, i) = (inv \/ heap \/ K(1))
  BY <1>1, <1>2, <1>4, Zenon DEF HiddenAt, InInvis, inv, heap, K
<1>10. HiddenAt(s, "loaded", n, i) = (inv \/ heap \/ K(1) \/ K(2))
  BY <1>1, <1>2, <1>5, Zenon DEF HiddenAt, InInvis, inv, heap, K
<1>11. HiddenPage(s, i) = (inv \/ heap \/ K(1) \/ K(2))
  BY <1>2, Zenon DEF HiddenPage, InInvis, inv, heap, K
<1>12. /\ \A p \in Stacks : HiddenAt(s, p, 2, i) = (HiddenAt(s, "hide", 1, i) \/ K(1))
       /\ HiddenAt(s, "loaded", n, i) = (HiddenAt(s, "hide", 2, i) \/ K(2))
       /\ HiddenAt(s, "loaded", n, i) = HiddenPage(s, i)
  BY <1>1, <1>8, <1>9, <1>10, <1>11, Zenon
<1>13. QED
  BY <1>6, <1>7, <1>8, <1>12, Zenon DEF inv, heap, K

LEMMA HiddenInSegments ==
  ASSUME NEW s, NEW p \in Segments, NEW n, NEW i
  PROVE  HiddenAt(s, p, n, i) = (InInvis(s, i) \/ i \in PagesOf(Layout(s).invis))
BY HiddenSoFar, Zenon

LEMMA HiddenSame ==
  ASSUME NEW s, NEW p \in Segments, NEW n, NEW q \in Segments, NEW k, NEW i
  PROVE  HiddenAt(s, p, n, i) = HiddenAt(s, q, k, i)
<1>1. HiddenAt(s, p, n, i) = (InInvis(s, i) \/ i \in PagesOf(Layout(s).invis))
  BY HiddenSoFar, Zenon
<1>2. HiddenAt(s, q, k, i) = (InInvis(s, i) \/ i \in PagesOf(Layout(s).invis))
  BY HiddenSoFar, Zenon
<1>3. QED
  BY <1>1, <1>2

LEMMA HiddenAtStack ==
  ASSUME NEW s, NEW p \in Stacks, NEW q \in Stacks, NEW n \in 1 .. 2, NEW i
  PROVE  HiddenAt(s, p, n, i) = HiddenAt(s, q, n, i)
<1>1. CASE n = 1
  <2> DEFINE hid == InInvis(s, i) \/ i \in PagesOf(Layout(s).invis)
  <2>1. HiddenAt(s, p, 1, i) = hid
    BY HiddenSoFar, Zenon
  <2>2. HiddenAt(s, q, 1, i) = hid
    BY HiddenSoFar, Zenon
  <2>3. QED
    BY <1>1, <2>1, <2>2
<1>2. CASE n = 2
  <2> DEFINE hid == HiddenAt(s, "hide", 1, i) \/ i \in PagesOf(Stack(s, 1))
  <2>1. HiddenAt(s, p, 2, i) = hid
    BY HiddenSoFar, Zenon
  <2>2. HiddenAt(s, q, 2, i) = hid
    BY HiddenSoFar, Zenon
  <2>3. QED
    BY <1>2, <2>1, <2>2
<1>3. QED
  BY <1>1, <1>2

LEMMA ContentDone ==
  ASSUME NEW s, NEW n, NEW i
  PROVE  \A p \in Stacks \cup {"loaded"} : ContentAt(s, p, n, i) = LinkedContent(s.image, i)
<1>1. \A p \in Stacks \cup {"loaded"} : p \notin Setting \cup Segments
  BY DEF Stacks, Setting, Segments
<1>2. QED
  BY <1>1, Zenon DEF ContentAt

-----------------------------------------------------------------------------
(* What the calls do to the pages.                                         *)

LEMMA NoScan ==
  ASSUME TypeOK
  PROVE  get_stack_dirty(pages) = pages
<1>1. ~Windows
  BY ElfLoadAssumption
<1>2. get_stack_dirty(pages) = [i \in Pages |-> pages[i]]
  BY <1>1, Zenon DEF get_stack_dirty
<1>3. pages \in [Pages -> PageRecord]
  BY DEF TypeOK
<1>4. QED
  BY <1>2, <1>3

LEMMA StatusEffect ==
  ASSUME TypeOK, NEW R, NEW st, set_protections(pages, R, st)
  PROVE  /\ \A i \in Pages : /\ pages'[i].status = IF i \in R THEN st ELSE pages[i].status
                             /\ pages'[i].invisible = pages[i].invisible
         /\ mem' = mem /\ phase' = phase /\ sealed' = sealed
<1>1. ~Windows
  BY ElfLoadAssumption
<1>2. \A p, c : precapture(p, c) = p
  BY <1>1, Zenon DEF precapture
<1>3. pages' = [i \in Pages |-> IF i \in R THEN [pages[i] EXCEPT !.status = st] ELSE pages[i]]
  BY <1>2, Zenon DEF set_protections
<1>4. ASSUME NEW i \in Pages
      PROVE  /\ pages'[i].status = IF i \in R THEN st ELSE pages[i].status
             /\ pages'[i].invisible = pages[i].invisible
  <2>1. pages[i] \in PageRecord
    BY DEF TypeOK
  <2>2. QED
    BY <1>3, <2>1 DEF PageRecord
<1>5. QED
  BY <1>4 DEF set_protections, lifecycle

LEMMA HideEffect ==
  ASSUME TypeOK, NEW r, MarkInvisible(r)
  PROVE  /\ \A i \in Pages : /\ pages'[i].status = pages[i].status
                             /\ pages'[i].invisible = (pages[i].invisible \/ i \in PagesOf(r))
         /\ mem' = mem /\ phase' = phase /\ sealed' = sealed
<1>1. ASSUME NEW i \in Pages
      PROVE  /\ pages'[i].status = pages[i].status
             /\ pages'[i].invisible = (pages[i].invisible \/ i \in PagesOf(r))
  <2>1. pages[i] \in PageRecord /\ pages[i].invisible \in BOOLEAN
    BY DEF TypeOK, PageRecord
  <2>2. pages'[i] = IF i \in PagesOf(r) THEN [pages[i] EXCEPT !.dirty = TRUE, !.invisible = TRUE]
                    ELSE pages[i]
    BY Zenon DEF MarkInvisible
  <2>3. CASE i \in PagesOf(r)
    <3>1. pages'[i].status = pages[i].status /\ pages'[i].invisible = TRUE
      BY <2>1, <2>2, <2>3 DEF PageRecord
    <3>2. QED
      BY <2>3, <3>1, Zenon
  <2>4. CASE i \notin PagesOf(r)
    BY <2>1, <2>2, <2>4, Zenon
  <2>5. QED
    BY <2>3, <2>4, Zenon
<1>2. QED
  BY <1>1, Zenon DEF MarkInvisible, lifecycle

LEMMA CopyEffect ==
  ASSUME TypeOK, NEW r, NEW v, copy_from_external(r, v)
  PROVE  /\ \A i \in Pages : /\ pages'[i].status = pages[i].status
                             /\ pages'[i].invisible = pages[i].invisible
                             /\ mem'[i] = IF i \in PagesOf(align_expand(r)) THEN v ELSE mem[i]
         /\ phase' = phase /\ sealed' = sealed
<1>1. ASSUME NEW i \in Pages
      PROVE  /\ pages'[i].status = pages[i].status
             /\ pages'[i].invisible = pages[i].invisible
             /\ mem'[i] = IF i \in PagesOf(align_expand(r)) THEN v ELSE mem[i]
  <2>1. pages[i] \in PageRecord
    BY DEF TypeOK
  <2>2. pages'[i] = IF i \in PagesOf(align_expand(r)) THEN [pages[i] EXCEPT !.dirty = TRUE] ELSE pages[i]
    BY DEF copy_from_external
  <2>3. mem'[i] = IF i \in PagesOf(align_expand(r)) THEN v ELSE mem[i]
    BY DEF copy_from_external
  <2>4. QED
    BY <2>1, <2>2, <2>3 DEF PageRecord
<1>2. QED
  BY <1>1 DEF copy_from_external, lifecycle

LEMMA WriteEffect ==
  ASSUME TypeOK, NEW j \in Pages, NEW v, GuestWrite(j, v) \/ TripWrite(j, v)
  PROVE  /\ \A i \in Pages : pages'[i].status = pages[i].status
         /\ phase' = phase /\ sealed' = sealed
<1>1. CASE GuestWrite(j, v)
  BY <1>1 DEF GuestWrite, lifecycle
<1>2. CASE TripWrite(j, v)
  <2>1. \A i \in Pages : pages[i] \in PageRecord
    BY DEF TypeOK
  <2>2. maybe_snapshot(pages[j], mem[j]).status = pages[j].status
    BY <2>1 DEF maybe_snapshot, PageRecord
  <2>3. maybe_snapshot(pages[j], mem[j]) \in PageRecord
    BY <2>1, Zenon DEF PageRecord, maybe_snapshot, TypeOK
  <2> DEFINE q == [maybe_snapshot(pages[j], mem[j]) EXCEPT !.dirty = TRUE]
  <2>4. q.status = pages[j].status
    BY <2>2, <2>3 DEF PageRecord
  <2>5. pages' = [pages EXCEPT ![j] = q]
    BY <1>2 DEF TripWrite
  <2> HIDE DEF q
  <2>6. \A i \in Pages : pages'[i].status = pages[i].status
    BY <2>4, <2>5 DEF TypeOK
  <2>7. QED
    BY <1>2, <2>6 DEF TripWrite, lifecycle
<1>3. QED
  BY <1>1, <1>2

LEMMA SealEffect ==
  ASSUME TypeOK, Seal
  PROVE  /\ \A i \in Pages : pages'[i].status = pages[i].status
         /\ phase' = phase /\ sealed' = TRUE
<1>1. ~Windows
  BY ElfLoadAssumption
<1>2. \A p, c : precapture(p, c) = p
  BY <1>1, Zenon DEF precapture
<1>3. ASSUME NEW i \in Pages
      PROVE  pages'[i].status = pages[i].status
  <2>1. pages'[i] = Sealed(pages[i], mem[i])
    BY NoScan DEF Seal
  <2>2. pages[i] \in PageRecord
    BY DEF TypeOK
  <2> DEFINE q == [pages[i] EXCEPT !.dirty = FALSE, !.snap_kind = "NONE", !.snap_data = Zero]
  <2>3. q.status = pages[i].status
    BY <2>2 DEF PageRecord
  <2>4. pages'[i] = q \/ pages'[i] = pages[i]
    BY <1>2, <2>1, Zenon DEF Sealed
  <2>5. QED
    BY <2>3, <2>4, Zenon
<1>4. QED
  BY <1>3 DEF Seal

-----------------------------------------------------------------------------
(* The calls are taken, and they are calls of the block.                   *)

LEMMA EmptyHasNoPages ==
  ASSUME NEW r \in Area, r.size = 0
  PROVE  PagesOf(r) = {}
<1>1. range_end(r) = r.start /\ r.start \in Int
  BY DEF Area, range_end
<1>2. \A i \in Pages : PageAddr(i) \in Int
  BY PageAddrIs
<1>3. QED
  BY <1>1, <1>2 DEF PagesOf

LEMMA Taken ==
  ASSUME ~ignored, NEW r, NEW taken \in BOOLEAN, NEW A \in BOOLEAN, Answer(r, taken, A),
         taken \/ r.size = 0
  PROVE  /\ ~ignored'
         /\ taken => A
         /\ ~taken => UNCHANGED vars
<1>1. CASE taken
  <2>1. A /\ ignored' = ignored
    BY <1>1, Zenon DEF Answer
  <2>2. QED
    BY <1>1, <2>1
<1>2. CASE ~taken
  <2>1. (ignored' = (ignored \/ r.size # 0)) /\ UNCHANGED vars /\ r.size = 0
    BY <1>2, Zenon DEF Answer
  <2>2. QED
    BY <1>2, <2>1, Zenon
<1>3. QED
  BY <1>1, <1>2, Zenon

LEMMA HidesTaken ==
  ASSUME TypeOK, ~ignored, phase = "live", ~sealed,
         NEW r \in Ranges, Whole(r), InBlock(r), Hides(r)
  PROVE  /\ [Next]_vars /\ ~ignored'
         /\ \A i \in Pages : /\ pages'[i].status = pages[i].status
                             /\ pages'[i].invisible = (pages[i].invisible \/ i \in PagesOf(r))
         /\ mem' = mem /\ phase' = phase /\ sealed' = sealed
<1> DEFINE taken == validate(r) /\ ~sealed
           A == MarkInvisible(r)
<1>1. r.size # 0 => taken
  BY WholeIsValid DEF InBlock
<1>2. taken \in BOOLEAN /\ A \in BOOLEAN
  BY Zenon DEF validate, MarkInvisible
<1>3. Answer(r, taken, A)
  BY Zenon DEF Hides
<1>4. r \in Area
  BY DEF Whole
<1> HIDE DEF taken, A
<1>5. ~ignored' /\ (taken => A) /\ (~taken => UNCHANGED vars)
  BY <1>1, <1>2, <1>3, Taken
<1>6. CASE taken
  <2>1. MarkInvisible(r)
    BY <1>5, <1>6 DEF A
  <2>2. Next
    BY <2>1, Zenon DEF Next, Loader
  <2>3. QED
    BY <1>5, <2>1, <2>2, HideEffect
<1>7. CASE ~taken
  <2>1. UNCHANGED vars /\ PagesOf(r) = {}
    BY <1>1, <1>4, <1>5, <1>7, EmptyHasNoPages
  <2>2. \A i \in Pages : pages[i].invisible \in BOOLEAN
    BY DEF TypeOK, PageRecord
  <2>3. pages' = pages /\ mem' = mem /\ phase' = phase /\ sealed' = sealed
    BY <2>1 DEF vars
  <2>4. QED
    BY <1>5, <2>1, <2>2, <2>3, Zenon
<1>8. QED
  BY <1>6, <1>7, Zenon

LEMMA MapsTaken ==
  ASSUME TypeOK, ~ignored, phase = "live", NEW r \in Ranges, Whole(r), InBlock(r), r.size # 0,
         NEW prot \in MB_PROT, NEW no_replace \in BOOLEAN, no_replace => AllFree(PagesOf(r)),
         Maps(r, prot, no_replace)
  PROVE  /\ [Next]_vars /\ ~ignored'
         /\ \A i \in Pages :
              /\ pages'[i].status = IF i \in PagesOf(r) THEN prot_status(prot) ELSE pages[i].status
              /\ pages'[i].invisible = pages[i].invisible
         /\ mem' = mem /\ phase' = phase /\ sealed' = sealed
<1> DEFINE taken == validate(r) /\ (no_replace => AllFree(PagesOf(r)))
           A == MmapFixed(r, prot, no_replace)
<1>1. taken
  BY WholeIsValid DEF InBlock
<1>2. taken \in BOOLEAN /\ A \in BOOLEAN
  BY Zenon DEF validate, MmapFixed
<1>3. Answer(r, taken, A)
  BY Zenon DEF Maps
<1> HIDE DEF taken, A
<1>4. ~ignored' /\ A
  BY <1>1, <1>2, <1>3, Taken, Zenon
<1>5. MmapFixed(r, prot, no_replace) /\ prot \in Prots
  BY <1>4, ElfLoadAssumption DEF A
<1>6. Next
  BY <1>5, Zenon DEF Next, Mapping
<1>7. set_protections(pages, PagesOf(r), prot_status(prot))
  BY <1>5 DEF MmapFixed
<1>8. QED
  BY <1>4, <1>6, <1>7, StatusEffect, Zenon

LEMMA ProtectsTaken ==
  ASSUME TypeOK, ~ignored, phase = "live", NEW r \in Ranges, Whole(r), InBlock(r), r.size # 0,
         NEW prot \in MB_PROT, NoneFree(PagesOf(r)), Protects(r, prot)
  PROVE  /\ [Next]_vars /\ ~ignored'
         /\ \A i \in Pages :
              /\ pages'[i].status = IF i \in PagesOf(r) THEN prot_status(prot) ELSE pages[i].status
              /\ pages'[i].invisible = pages[i].invisible
         /\ mem' = mem /\ phase' = phase /\ sealed' = sealed
<1> DEFINE taken == validate(r) /\ NoneFree(PagesOf(r))
           A == Mprotect(r, prot)
<1>1. taken
  BY WholeIsValid DEF InBlock
<1>2. taken \in BOOLEAN /\ A \in BOOLEAN
  BY Zenon DEF validate, Mprotect
<1>3. Answer(r, taken, A)
  BY Zenon DEF Protects
<1> HIDE DEF taken, A
<1>4. ~ignored' /\ A
  BY <1>1, <1>2, <1>3, Taken, Zenon
<1>5. Mprotect(r, prot) /\ prot \in Prots
  BY <1>4, ElfLoadAssumption DEF A
<1>6. Next
  BY <1>5, Zenon DEF Next, Mapping
<1>7. set_protections(pages, PagesOf(r), prot_status(prot))
  BY <1>5, NoScan DEF Mprotect
<1>8. QED
  BY <1>4, <1>6, <1>7, StatusEffect

LEMMA CopiesTaken ==
  ASSUME TypeOK, ~ignored, phase = "live", ~sealed, NEW r \in Ranges, NEW v \in Values,
         Whole(align_expand(r)), InBlock(align_expand(r)), align_expand(r).size # 0,
         NoneFree(PagesOf(align_expand(r))), Copies(r, v)
  PROVE  /\ [Next]_vars /\ ~ignored'
         /\ \A i \in Pages : /\ pages'[i].status = pages[i].status
                             /\ pages'[i].invisible = pages[i].invisible
                             /\ mem'[i] = IF i \in PagesOf(align_expand(r)) THEN v ELSE mem[i]
         /\ phase' = phase /\ sealed' = sealed
<1> DEFINE taken == validate(align_expand(r))
           A == copy_from_external(r, v)
<1>1. taken
  BY WholeIsValid DEF InBlock
<1>2. taken \in BOOLEAN /\ A \in BOOLEAN
  BY Zenon DEF validate, copy_from_external
<1>3. Answer(r, taken, A)
  BY Zenon DEF Copies
<1> HIDE DEF taken, A
<1>4. ~ignored' /\ A
  BY <1>1, <1>2, <1>3, Taken, Zenon
<1>5. copy_from_external(r, v)
  BY <1>4 DEF A
<1>6. Next
  BY <1>5, Zenon DEF Next, Loader, CopyFromExternal
<1>7. QED
  BY <1>4, <1>5, <1>6, CopyEffect, Zenon

LEMMA NoCallKeeps ==
  ASSUME NoCall, ~ignored
  PROVE  /\ [Next]_vars /\ ~ignored' /\ UNCHANGED vars
         /\ pages' = pages /\ mem' = mem /\ phase' = phase /\ sealed' = sealed /\ active' = active
<1>1. UNCHANGED vars /\ ignored' = ignored
  BY DEF NoCall
<1>2. QED
  BY <1>1 DEF vars

=============================================================================
