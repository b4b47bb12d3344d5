----------------------------- MODULE BootProofs -----------------------------
(***************************************************************************)
(* Proofs about Boot: what a reservation does to the memory map, what a    *)
(* mapping does to the page tables, and from both that the heap is         *)
(* exclusive, that map and allocator agree, that every page has the rights *)
(* it was mapped with, and that the tables implement AddressSpace.         *)
(***************************************************************************)
EXTENDS Boot, FiniteSetTheorems, SequenceTheorems, TLAPS

------------------------------------------------------------------------------
(* Sequences that are built round by round.                                *)

\* A set of naturals that is not empty has a least element.
LEMMA LeastElement ==
    ASSUME NEW S \in SUBSET Nat, NEW n \in S
    PROVE  \E m \in S : \A k \in S : m <= k
<1>1. PICK m \in S : \A k \in S : ~ (<<k, m>> \in OpToRel(<, Nat))
    BY NatLessThanWellFounded, WFMin
<1>2. \A k \in S : ~ (k < m)
    BY <1>1 DEF OpToRel
<1> QED  BY <1>2

\* The elements of two sequences put together.
LEMMA ConcatIs ==
    ASSUME NEW S, NEW a \in Seq(S), NEW b \in Seq(S)
    PROVE  /\ a \o b \in Seq(S)
           /\ Len(a) \in Nat /\ Len(b) \in Nat /\ Len(a \o b) = Len(a) + Len(b)
           /\ \A i \in 1 .. Len(a) + Len(b) :
                  (a \o b)[i] = IF i <= Len(a) THEN a[i] ELSE b[i - Len(a)]
<1>1. Len(a) \in Nat /\ Len(b) \in Nat
    OBVIOUS
<1> QED  BY <1>1, ConcatProperties

\* The front of a sequence.
LEMMA FrontIs ==
    ASSUME NEW S, NEW s \in Seq(S), NEW m \in 0 .. Len(s)
    PROVE  /\ SubSeq(s, 1, m) \in Seq(S) /\ Len(SubSeq(s, 1, m)) = m
           /\ \A i \in 1 .. m : SubSeq(s, 1, m)[i] = s[i]
<1>1. 1 \in Int /\ m \in Int /\ \A i \in 1 .. m : s[i] \in S
    OBVIOUS
<1>2. /\ SubSeq(s, 1, m) \in Seq(S)
      /\ Len(SubSeq(s, 1, m)) = IF 1 <= m THEN m - 1 + 1 ELSE 0
      /\ \A i \in 1 .. m - 1 + 1 : SubSeq(s, 1, m)[i] = s[1 + i - 1]
    BY <1>1, SubSeqProperties
<1>3. (IF 1 <= m THEN m - 1 + 1 ELSE 0) = m /\ m - 1 + 1 = m
    OBVIOUS
<1>4. \A i \in 1 .. m : 1 + i - 1 = i
    OBVIOUS
<1> QED  BY <1>2, <1>3, <1>4

\* after[n] is what the first n rounds push
Joins(after, parts) ==
    after = [n \in 0 .. Len(parts) |->
                IF n = 0 THEN <<>> ELSE after[n - 1] \o parts[n]]

\* No round pushes nothing.
LEMMA JoinsNone ==
    ASSUME NEW S, NEW parts \in Seq(Seq(S)), Len(parts) = 0
    PROVE  \E after : Joins(after, parts)
<1> DEFINE f == [n \in 0 .. Len(parts) |-> <<>>]
<1>1. \A n \in 0 .. Len(parts) : n = 0
    OBVIOUS
<1>2. f = [n \in 0 .. Len(parts) |-> IF n = 0 THEN <<>> ELSE f[n - 1] \o parts[n]]
    BY <1>1
<1> QED  BY <1>2 DEF Joins

\* One round more.
LEMMA JoinsOneMore ==
    ASSUME NEW S, NEW parts \in Seq(Seq(S)), Len(parts) # 0,
           \E after : Joins(after, SubSeq(parts, 1, Len(parts) - 1))
    PROVE  \E after : Joins(after, parts)
<1> DEFINE m == Len(parts)
           front == SubSeq(parts, 1, m - 1)
<1>1. m \in Nat /\ m - 1 \in Nat /\ m # 0
    OBVIOUS
<1>2. Len(front) = m - 1 /\ \A n \in 1 .. m - 1 : front[n] = parts[n]
    <2>1. m - 1 \in 0 .. m
        BY <1>1
    <2> QED  BY <2>1, FrontIs
<1>3. PICK f : Joins(f, front)
    OBVIOUS
<1> DEFINE g == [n \in 0 .. m |-> IF n = m THEN f[m - 1] \o parts[m] ELSE f[n]]
<1> HIDE DEF m, front
<1>4. \A n \in 0 .. m - 1 : f[n] = IF n = 0 THEN <<>> ELSE f[n - 1] \o front[n]
    BY <1>2, <1>3 DEF Joins
<1>5. \A n \in 0 .. m - 1 : n # 0 => n \in 1 .. m - 1 /\ n - 1 \in 0 .. m - 1
    BY <1>1
<1>6. \A n \in 0 .. m : g[n] = IF n = 0 THEN <<>> ELSE g[n - 1] \o parts[n]
    <2> SUFFICES ASSUME NEW n \in 0 .. m
                 PROVE  g[n] = IF n = 0 THEN <<>> ELSE g[n - 1] \o parts[n]
        OBVIOUS
    <2>1. CASE n = m
        <3>1. n - 1 \in 0 .. m /\ n - 1 # m
            BY <1>1, <2>1
        <3> QED  BY <1>1, <2>1, <3>1
    <2>2. CASE n # m
        <3>1. n \in 0 .. m - 1 /\ (n # 0 => n - 1 \in 0 .. m /\ n - 1 # m)
            BY <1>1, <2>2
        <3> QED  BY <1>2, <1>4, <1>5, <2>2, <3>1
    <2> QED  BY <2>1, <2>2
<1>7. g = [n \in 0 .. m |-> IF n = 0 THEN <<>> ELSE g[n - 1] \o parts[n]]
    BY <1>6
<1> QED  BY <1>7 DEF Joins, m

\* So the function Joined is defined by exists.
LEMMA JoinsExists ==
    ASSUME NEW S, NEW parts \in Seq(Seq(S))
    PROVE  \E after : Joins(after, parts)
<1> DEFINE Bad == {n \in Nat : \E p \in Seq(Seq(S)) : Len(p) = n /\ ~ \E f : Joins(f, p)}
<1> SUFFICES ASSUME Len(parts) \in Bad PROVE FALSE
    OBVIOUS
<1>1. PICK m \in Bad : \A k \in Bad : m <= k
    BY LeastElement
<1>2. PICK p \in Seq(Seq(S)) : Len(p) = m /\ ~ \E f : Joins(f, p)
    BY <1>1
<1>3. m # 0
    BY <1>2, JoinsNone
<1> DEFINE front == SubSeq(p, 1, m - 1)
<1>4. front \in Seq(Seq(S)) /\ Len(front) = m - 1 /\ m - 1 \in Nat
    BY <1>2, <1>3
<1>5. m - 1 \notin Bad
    BY <1>1
<1>6. \E f : Joins(f, front)
    BY <1>4, <1>5
<1> QED  BY <1>2, <1>3, <1>6, JoinsOneMore

\* no frame is in both
PairApart(r, s) == \A f \in Int : ~ (Holds(r, f) /\ Holds(s, f))

\* no frame is in two members of a list
AllApart(list) == \A j, k \in 1 .. Len(list) : j # k => PairApart(list[j], list[k])

\* nor in two that are pushed
PartsApart(parts) ==
    /\ \A k \in 1 .. Len(parts) : AllApart(parts[k])
    /\ \A k, l \in 1 .. Len(parts) : k # l =>
           \A i \in 1 .. Len(parts[k]), j \in 1 .. Len(parts[l]) :
               PairApart(parts[k][i], parts[l][j])

\* a list of what is pushed, no frame twice, and of nothing else
JoinOf(list, parts) ==
    /\ AllApart(list)
    /\ \A j \in 1 .. Len(list) :
           \E k \in 1 .. Len(parts) : \E i \in 1 .. Len(parts[k]) : list[j] = parts[k][i]
    /\ \A k \in 1 .. Len(parts) : \A i \in 1 .. Len(parts[k]) :
           \E j \in 1 .. Len(list) : list[j] = parts[k][i]

\* What is pushed is there, once, and nothing else is.
LEMMA JoinedIs ==
    ASSUME NEW S, NEW parts \in Seq(Seq(S)), PartsApart(parts)
    PROVE  Joined(parts) \in Seq(S) /\ JoinOf(Joined(parts), parts)
<1> DEFINE N == Len(parts)
           f == CHOOSE f : Joins(f, parts)
<1>1. Joins(f, parts)
    BY JoinsExists
<1>2. Joined(parts) = f[N]
    BY DEF Joined, Joins
<1>3. N \in Nat /\ \A k \in 1 .. N : parts[k] \in Seq(S)
    OBVIOUS
<1> HIDE DEF f
<1>4. \A n \in 0 .. N : f[n] = IF n = 0 THEN <<>> ELSE f[n - 1] \o parts[n]
    BY <1>1 DEF Joins
<1> DEFINE Good(n) ==
        /\ f[n] \in Seq(S)
        /\ AllApart(f[n])
        /\ \A j \in 1 .. Len(f[n]) :
               \E k \in 1 .. n : \E i \in 1 .. Len(parts[k]) : f[n][j] = parts[k][i]
        /\ \A k \in 1 .. n : \A i \in 1 .. Len(parts[k]) :
               \E j \in 1 .. Len(f[n]) : f[n][j] = parts[k][i]
<1>5. Good(0)
    <2>1. f[0] = <<>> /\ Len(<<>>) = 0
        BY <1>3, <1>4
    <2>2. <<>> \in Seq(S)
        OBVIOUS
    <2> QED  BY <2>1, <2>2 DEF AllApart
<1>6. ASSUME NEW n \in 1 .. N, Good(n - 1)
      PROVE  Good(n)
    <2> DEFINE a == f[n - 1]
               b == parts[n]
               c == f[n]
    <2>1. n \in Nat /\ n - 1 \in Nat /\ n \in 0 .. N /\ n # 0
        BY <1>3
    <2>2. c = a \o b /\ a \in Seq(S) /\ b \in Seq(S)
        BY <1>3, <1>4, <1>6, <2>1
    <2>4. /\ AllApart(a)
          /\ \A j \in 1 .. Len(a) :
                 \E k \in 1 .. n - 1 : \E i \in 1 .. Len(parts[k]) : a[j] = parts[k][i]
          /\ \A k \in 1 .. n - 1 : \A i \in 1 .. Len(parts[k]) :
                 \E j \in 1 .. Len(a) : a[j] = parts[k][i]
        BY <1>6
    <2>5. AllApart(b)
        BY DEF PartsApart
    <2> HIDE DEF a, b, c
    <2>3. /\ c \in Seq(S) /\ Len(a) \in Nat /\ Len(b) \in Nat /\ Len(c) = Len(a) + Len(b)
          /\ \A i \in 1 .. Len(a) + Len(b) :
                 c[i] = IF i <= Len(a) THEN a[i] ELSE b[i - Len(a)]
        BY <2>2, ConcatIs
    <2>6. \A i \in 1 .. Len(a), j \in 1 .. Len(b) : PairApart(a[i], b[j]) /\ PairApart(b[j], a[i])
        <3> SUFFICES ASSUME NEW i \in 1 .. Len(a), NEW j \in 1 .. Len(b)
                     PROVE  PairApart(a[i], b[j]) /\ PairApart(b[j], a[i])
            OBVIOUS
        <3>1. PICK k \in 1 .. n - 1 : \E l \in 1 .. Len(parts[k]) : a[i] = parts[k][l]
            BY <2>4
        <3>2. PICK l \in 1 .. Len(parts[k]) : a[i] = parts[k][l]
            BY <3>1
        <3>3. k # n /\ k \in 1 .. N
            BY <1>3, <2>1, SMTT(30)
        <3>4. PairApart(parts[k][l], b[j])
            BY <3>3 DEF b, PartsApart
        <3> QED  BY <3>2, <3>4 DEF PairApart
    <2>7. AllApart(c)
        <3> SUFFICES ASSUME NEW j \in 1 .. Len(c), NEW k \in 1 .. Len(c), j # k
                     PROVE  PairApart(c[j], c[k])
            BY DEF AllApart
        <3>1. CASE j <= Len(a) /\ k <= Len(a)
            <4>1. j \in 1 .. Len(a) /\ k \in 1 .. Len(a) /\ c[j] = a[j] /\ c[k] = a[k]
                BY <2>3, <3>1
            <4> QED  BY <2>4, <4>1 DEF AllApart
        <3>2. CASE j <= Len(a) /\ ~ (k <= Len(a))
            <4>1. /\ j \in 1 .. Len(a) /\ k - Len(a) \in 1 .. Len(b)
                  /\ c[j] = a[j] /\ c[k] = b[k - Len(a)]
                BY <2>3, <3>2
            <4> QED  BY <2>6, <4>1
        <3>3. CASE ~ (j <= Len(a)) /\ k <= Len(a)
            <4>1. /\ k \in 1 .. Len(a) /\ j - Len(a) \in 1 .. Len(b)
                  /\ c[k] = a[k] /\ c[j] = b[j - Len(a)]
                BY <2>3, <3>3
            <4> QED  BY <2>6, <4>1
        <3>4. CASE ~ (j <= Len(a)) /\ ~ (k <= Len(a))
            <4>1. /\ j - Len(a) \in 1 .. Len(b) /\ k - Len(a) \in 1 .. Len(b)
                  /\ j - Len(a) # k - Len(a)
                  /\ c[k] = b[k - Len(a)] /\ c[j] = b[j - Len(a)]
                BY <2>3, <3>4, SMTT(30)
            <4> DEFINE x == j - Len(a)
                       y == k - Len(a)
            <4> HIDE DEF x, y
            <4>2. x \in 1 .. Len(b) /\ y \in 1 .. Len(b) /\ x # y /\ c[k] = b[y] /\ c[j] = b[x]
                BY <4>1 DEF x, y
            <4> QED  BY <2>5, <4>2 DEF AllApart
        <3> QED  BY <3>1, <3>2, <3>3, <3>4
    <2>8. ASSUME NEW j \in 1 .. Len(c)
          PROVE  \E k \in 1 .. n : \E i \in 1 .. Len(parts[k]) : c[j] = parts[k][i]
        <3>1. CASE j <= Len(a)
            <4>1. j \in 1 .. Len(a) /\ c[j] = a[j]
                BY <2>1, <2>3, <3>1
            <4>2. PICK k \in 1 .. n - 1 : \E i \in 1 .. Len(parts[k]) : a[j] = parts[k][i]
                BY <2>4, <4>1
            <4>3. k \in 1 .. n
                BY <2>1
            <4> QED  BY <4>1, <4>2, <4>3
        <3>2. CASE ~ (j <= Len(a))
            <4>1. j - Len(a) \in 1 .. Len(parts[n]) /\ c[j] = parts[n][j - Len(a)] /\ n \in 1 .. n
                BY <2>1, <2>3, <3>2 DEF b
            <4> QED  BY <4>1
        <3> QED  BY <3>1, <3>2
    <2>9. ASSUME NEW k \in 1 .. n, NEW i \in 1 .. Len(parts[k])
          PROVE  \E j \in 1 .. Len(c) : c[j] = parts[k][i]
        <3>1. CASE k = n
            <4>1. Len(a) + i \in 1 .. Len(c) /\ c[Len(a) + i] = parts[k][i]
                <5>1. /\ Len(a) + i \in 1 .. Len(a) + Len(b) /\ ~ (Len(a) + i <= Len(a))
                      /\ (Len(a) + i) - Len(a) = i
                    BY <2>3, <3>1 DEF b
                <5> QED  BY <2>3, <3>1, <5>1 DEF b
            <4> QED  BY <4>1
        <3>2. CASE k # n
            <4>1. k \in 1 .. n - 1
                BY <2>1, <3>2
            <4>2. PICK j \in 1 .. Len(a) : a[j] = parts[k][i]
                BY <2>4, <4>1
            <4>3. j \in 1 .. Len(c) /\ c[j] = a[j]
                BY <2>3, SMTT(30)
            <4> QED  BY <4>2, <4>3
        <3> QED  BY <3>1, <3>2
    <2> QED  BY <2>3, <2>7, <2>8, <2>9 DEF c
<1>7. Good(N)
    <2> HIDE DEF Good
    <2> DEFINE Bad == {n \in 0 .. N : ~ Good(n)}
    <2> SUFFICES ASSUME N \in Bad PROVE FALSE
        BY <1>3
    <2>1. Bad \in SUBSET Nat
        BY <1>3
    <2>2. PICK m \in Bad : \A k \in Bad : m <= k
        BY <2>1, LeastElement
    <2>3. m \in 0 .. N /\ ~ Good(m)
        BY <2>2
    <2>4. m # 0
        BY <1>5, <2>3
    <2>5. m \in 1 .. N /\ m - 1 \in 0 .. N /\ ~ (m <= m - 1)
        BY <1>3, <2>3, <2>4
    <2>6. Good(m - 1)
        BY <2>2, <2>5
    <2>7. Good(m)
        BY <1>6, <2>5, <2>6
    <2> QED  BY <2>3, <2>7
<1> QED  BY <1>2, <1>7 DEF JoinOf

------------------------------------------------------------------------------
(* The memory map.                                                         *)

Region == [start : Nat, frames : Nat \ {0}, kind : MemoryKinds]
Regions == Seq(Region)

\* What a range is made of.
LEMMA RegionIs ==
    ASSUME NEW r \in Region
    PROVE  r.start \in Nat /\ r.frames \in Nat /\ r.frames > 0 /\ r.kind \in MemoryKinds
BY DEF Region

\* "None" is no kind.
LEMMA NoneIsNoKind ==
    "None" \notin MemoryKinds /\ {"Usable", "Kernel", "Device"} \subseteq MemoryKinds
BY DEF MemoryKinds

\* kind_at in a map that describes no frame twice.
LEMMA KindAtIs ==
    ASSUME NEW list \in Regions, AllApart(list), NEW f \in Int
    PROVE  /\ \A k \in 1 .. Len(list) : Holds(list[k], f) => KindAt(list, f) = list[k].kind
           /\ (\A k \in 1 .. Len(list) : ~ Holds(list[k], f)) => KindAt(list, f) = "None"
<1> DEFINE hits == {k \in DOMAIN list : Holds(list[k], f)}
<1>1. DOMAIN list = 1 .. Len(list)
    BY DEF Regions
<1>2. ASSUME NEW k \in 1 .. Len(list), Holds(list[k], f)
      PROVE  KindAt(list, f) = list[k].kind
    <2>1. hits = {k}
        BY <1>1, <1>2 DEF AllApart, PairApart
    <2>2. (CHOOSE x \in hits : \A j \in hits : x <= j) = k
        <3>1. k <= k
            OBVIOUS
        <3> QED  BY <2>1, <3>1
    <2> QED  BY <2>1, <2>2 DEF KindAt
<1>3. ASSUME \A k \in 1 .. Len(list) : ~ Holds(list[k], f)
      PROVE  KindAt(list, f) = "None"
    BY <1>1, <1>3 DEF KindAt
<1> QED  BY <1>2, <1>3

\* A frame has a kind exactly if a range holds it.
LEMMA KindIsHeld ==
    ASSUME NEW list \in Regions, AllApart(list), NEW f \in Int, KindAt(list, f) # "None"
    PROVE  \E k \in 1 .. Len(list) : Holds(list[k], f) /\ KindAt(list, f) = list[k].kind
BY KindAtIs

\* A held frame has a kind.
LEMMA HeldHasKind ==
    ASSUME NEW list \in Regions, AllApart(list), NEW f \in Int,
           NEW k \in 1 .. Len(list), Holds(list[k], f)
    PROVE  KindAt(list, f) = list[k].kind /\ KindAt(list, f) # "None"
<1>1. list[k] \in Region
    BY DEF Regions
<1> QED  BY <1>1, KindAtIs, RegionIs, NoneIsNoKind

\* One part of a range that is cut up.
LEMMA PushedIs ==
    ASSUME NEW s \in Nat, NEW n \in Nat, NEW kind \in MemoryKinds
    PROVE  LET p == Pushed(Descriptor(s, n, kind)) IN
           /\ p \in Seq(Region) /\ AllApart(p)
           /\ \A i \in 1 .. Len(p) :
                  /\ p[i].kind = kind
                  /\ \A f \in Int : Holds(p[i], f) <=> s <= f /\ f < s + n
           /\ \A f \in Int : s <= f /\ f < s + n => 1 \in 1 .. Len(p)
<1> DEFINE d == Descriptor(s, n, kind)
           p == Pushed(d)
<1>1. d.start = s /\ d.frames = n /\ d.kind = kind
    BY DEF Descriptor
<1>2. \A f \in Int : Holds(d, f) <=> s <= f /\ f < s + n
    BY <1>1 DEF Holds
<1>3. CASE n = 0
    <2>1. p = <<>> /\ Len(p) = 0
        BY <1>1, <1>3 DEF Pushed
    <2>2. \A f \in Int : ~ (s <= f /\ f < s + n)
        BY <1>3
    <2>3. <<>> \in Seq(Region)
        OBVIOUS
    <2> HIDE DEF p
    <2> QED  BY <2>1, <2>2, <2>3 DEF AllApart, p
<1>4. CASE n # 0
    <2>1. p = <<d>>
        BY <1>1, <1>4 DEF Pushed
    <2>2. d \in Region
        BY <1>4 DEF Descriptor, Region
    <2> HIDE DEF d
    <2>3. p \in Seq(Region) /\ Len(p) = 1 /\ p[1] = d
        BY <2>1, <2>2
    <2> HIDE DEF p
    <2>4. \A i \in 1 .. Len(p) : i = 1
        BY <2>3
    <2>5. AllApart(p)
        BY <2>4 DEF AllApart
    <2>6. \A i \in 1 .. Len(p) :
              p[i].kind = kind /\ \A f \in Int : Holds(p[i], f) <=> s <= f /\ f < s + n
        BY <1>1, <1>2, <2>3, <2>4
    <2>7. 1 \in 1 .. Len(p)
        BY <2>3
    <2> QED  BY <2>3, <2>5, <2>6, <2>7 DEF p, d
<1> QED  BY <1>3, <1>4

\* ps are parts of r, with the new kind where they are reserved, and every frame
\* of r is in one of them
PiecesOf(ps, r, start, end, kind) ==
    /\ ps \in Seq(Region) /\ AllApart(ps)
    /\ \A i \in 1 .. Len(ps) : \A f \in Int : Holds(ps[i], f) =>
           /\ Holds(r, f)
           /\ ps[i].kind = IF start <= f /\ f < end THEN kind ELSE r.kind
    /\ \A f \in Int : Holds(r, f) => \E i \in 1 .. Len(ps) : Holds(ps[i], f)

\* What becomes of one range.
LEMMA PiecesIs ==
    ASSUME NEW r \in Region, NEW start \in Nat, NEW end \in Nat, NEW kind \in MemoryKinds
    PROVE  PiecesOf(Pieces(r, start, end, kind), r, start, end, kind)
<1> DEFINE ps == Pieces(r, start, end, kind)
           last == r.start + r.frames
           from == Maximum(start, r.start)
           to == Minimum(end, last)
<1> SUFFICES PiecesOf(ps, r, start, end, kind)
    OBVIOUS
<1>0. r.start \in Nat /\ last \in Nat /\ r.kind \in MemoryKinds /\ r.start < last
    BY RegionIs
<1>2. \A f \in Int : Holds(r, f) <=> r.start <= f /\ f < last
    BY <1>0 DEF Holds
<1>1. /\ r.start \in Nat /\ last \in Nat /\ r.kind \in MemoryKinds /\ r.start < last
      /\ from \in Nat /\ to \in Nat
      /\ from >= start /\ from >= r.start /\ to <= end /\ to <= last
      /\ from = start \/ from = r.start
      /\ to = end \/ to = last
    <2> HIDE DEF last
    <2> QED  BY <1>0 DEF Maximum, Minimum
<1>3. ps = IF from >= to THEN <<r>> ELSE Joined(Cut(r, from, to, kind))
    BY DEF Pieces
<1> HIDE DEF ps, last, from, to
<1>4. CASE from >= to
    <2>1. ps = <<r>> /\ ps \in Seq(Region) /\ Len(ps) = 1 /\ ps[1] = r
        BY <1>3, <1>4
    <2>2. \A i \in 1 .. Len(ps) : i = 1
        BY <2>1
    <2>3. AllApart(ps)
        BY <2>2 DEF AllApart
    <2>4. \A f \in Int : Holds(r, f) => ~ (start <= f /\ f < end)
        BY <1>1, <1>2, <1>4
    <2>5. 1 \in 1 .. Len(ps)
        BY <2>1
    <2> QED  BY <2>1, <2>2, <2>3, <2>4, <2>5 DEF PiecesOf
<1>5. CASE from < to
    <2> DEFINE a == Pushed(Descriptor(r.start, from - r.start, r.kind))
               b == Pushed(Descriptor(from, to - from, kind))
               rest == r.start + r.frames - to
               c == Pushed(Descriptor(to, rest, r.kind))
               parts == <<a, b, c>>
    <2>0. rest = last - to
        BY <1>1, RegionIs DEF last
    <2>1. from - r.start \in Nat /\ to - from \in Nat /\ rest \in Nat
        BY <1>1, <1>5, <2>0
    <2>2. r.start + (from - r.start) = from /\ from + (to - from) = to /\ to + rest = last
        BY <1>1, <2>0
    <2>3. /\ a \in Seq(Region) /\ AllApart(a)
          /\ \A i \in 1 .. Len(a) :
                 a[i].kind = r.kind /\ \A f \in Int : Holds(a[i], f) <=> r.start <= f /\ f < from
          /\ \A f \in Int : r.start <= f /\ f < from => 1 \in 1 .. Len(a)
        <3>1. /\ a \in Seq(Region) /\ AllApart(a)
              /\ \A i \in 1 .. Len(a) :
                     /\ a[i].kind = r.kind
                     /\ \A f \in Int : Holds(a[i], f) <=> r.start <= f /\ f < r.start + (from - r.start)
              /\ \A f \in Int : r.start <= f /\ f < r.start + (from - r.start) => 1 \in 1 .. Len(a)
            BY <1>1, <2>1, PushedIs
        <3> HIDE DEF a
        <3> QED  BY <2>2, <3>1
    <2>4. /\ b \in Seq(Region) /\ AllApart(b)
          /\ \A i \in 1 .. Len(b) :
                 b[i].kind = kind /\ \A f \in Int : Holds(b[i], f) <=> from <= f /\ f < to
          /\ \A f \in Int : from <= f /\ f < to => 1 \in 1 .. Len(b)
        <3>1. /\ b \in Seq(Region) /\ AllApart(b)
              /\ \A i \in 1 .. Len(b) :
                     /\ b[i].kind = kind
                     /\ \A f \in Int : Holds(b[i], f) <=> from <= f /\ f < from + (to - from)
              /\ \A f \in Int : from <= f /\ f < from + (to - from) => 1 \in 1 .. Len(b)
            BY <1>1, <2>1, PushedIs
        <3> HIDE DEF b
        <3> QED  BY <2>2, <3>1
    <2>5. /\ c \in Seq(Region) /\ AllApart(c)
          /\ \A i \in 1 .. Len(c) :
                 c[i].kind = r.kind /\ \A f \in Int : Holds(c[i], f) <=> to <= f /\ f < last
          /\ \A f \in Int : to <= f /\ f < last => 1 \in 1 .. Len(c)
        <3>1. /\ c \in Seq(Region) /\ AllApart(c)
              /\ \A i \in 1 .. Len(c) :
                     /\ c[i].kind = r.kind
                     /\ \A f \in Int : Holds(c[i], f) <=> to <= f /\ f < to + rest
              /\ \A f \in Int : to <= f /\ f < to + rest => 1 \in 1 .. Len(c)
            <4> HIDE DEF rest
            <4> QED  BY <1>1, <2>1, PushedIs
        <3> HIDE DEF c, rest
        <3> QED  BY <2>2, <3>1
    <2>6. ps = Joined(parts)
        <3>1. Cut(r, from, to, kind) = parts
            BY DEF Cut
        <3> HIDE DEF parts
        <3> QED  BY <1>1, <1>3, <1>5, <3>1
    <2> HIDE DEF a, b, c
    <2>7. /\ parts \in Seq(Seq(Region)) /\ Len(parts) = 3
          /\ parts[1] = a /\ parts[2] = b /\ parts[3] = c
        BY <2>3, <2>4, <2>5
    <2> HIDE DEF parts
    <2>8. \A k \in 1 .. Len(parts) : k = 1 \/ k = 2 \/ k = 3
        BY <2>7
    <2>9. \A k \in 1 .. Len(parts) : AllApart(parts[k])
        BY <2>3, <2>4, <2>5, <2>7, <2>8
    <2>10. \A k, l \in 1 .. Len(parts) : k # l =>
               \A i \in 1 .. Len(parts[k]), j \in 1 .. Len(parts[l]) :
                   PairApart(parts[k][i], parts[l][j])
        <3>1. \A i \in 1 .. Len(a), j \in 1 .. Len(b) : PairApart(a[i], b[j]) /\ PairApart(b[j], a[i])
            BY <1>1, <2>3, <2>4 DEF PairApart
        <3>2. \A i \in 1 .. Len(a), j \in 1 .. Len(c) : PairApart(a[i], c[j]) /\ PairApart(c[j], a[i])
            BY <1>1, <1>5, <2>3, <2>5 DEF PairApart
        <3>3. \A i \in 1 .. Len(b), j \in 1 .. Len(c) : PairApart(b[i], c[j]) /\ PairApart(c[j], b[i])
            BY <1>1, <2>4, <2>5 DEF PairApart
        <3> QED  BY <2>7, <2>8, <3>1, <3>2, <3>3
    <2>11. /\ ps \in Seq(Region) /\ AllApart(ps)
           /\ \A j \in 1 .. Len(ps) :
                  \E k \in 1 .. Len(parts) : \E i \in 1 .. Len(parts[k]) : ps[j] = parts[k][i]
           /\ \A k \in 1 .. Len(parts) : \A i \in 1 .. Len(parts[k]) :
                  \E j \in 1 .. Len(ps) : ps[j] = parts[k][i]
        <3>1. PartsApart(parts)
            BY <2>9, <2>10 DEF PartsApart
        <3>2. Joined(parts) \in Seq(Region) /\ JoinOf(Joined(parts), parts)
            BY <2>7, <3>1, JoinedIs
        <3> QED  BY <2>6, <3>2 DEF JoinOf
    <2>12. ASSUME NEW j \in 1 .. Len(ps), NEW f \in Int, Holds(ps[j], f)
           PROVE  Holds(r, f) /\ ps[j].kind = IF start <= f /\ f < end THEN kind ELSE r.kind
        <3>1. PICK k \in 1 .. Len(parts) : \E i \in 1 .. Len(parts[k]) : ps[j] = parts[k][i]
            BY <2>11
        <3>2. PICK i \in 1 .. Len(parts[k]) : ps[j] = parts[k][i]
            BY <3>1
        <3>3. CASE k = 1
            <4>1. ps[j].kind = r.kind /\ r.start <= f /\ f < from
                BY <2>3, <2>7, <2>12, <3>2, <3>3
            <4>2. f < end => f < start
                BY <1>1, <1>5, <4>1
            <4> QED  BY <1>1, <1>2, <1>5, <4>1, <4>2, SMTT(30)
        <3>4. CASE k = 2
            <4>1. ps[j].kind = kind /\ from <= f /\ f < to
                BY <2>4, <2>7, <2>12, <3>2, <3>4
            <4> QED  BY <1>1, <1>2, <1>5, <4>1
        <3>5. CASE k = 3
            <4>1. ps[j].kind = r.kind /\ to <= f /\ f < last
                BY <2>5, <2>7, <2>12, <3>2, <3>5
            <4> QED  BY <1>1, <1>2, <1>5, <4>1
        <3> QED  BY <2>8, <3>3, <3>4, <3>5
    <2>13. ASSUME NEW f \in Int, Holds(r, f)
           PROVE  \E j \in 1 .. Len(ps) : Holds(ps[j], f)
        <3>0. r.start <= f /\ f < last
            BY <1>2, <2>13
        <3>1. CASE f < from
            <4>1. 1 \in 1 .. Len(parts) /\ 1 \in 1 .. Len(parts[1]) /\ Holds(parts[1][1], f)
                BY <2>3, <2>7, <3>0, <3>1
            <4> QED  BY <2>11, <4>1
        <3>2. CASE from <= f /\ f < to
            <4>1. 2 \in 1 .. Len(parts) /\ 1 \in 1 .. Len(parts[2]) /\ Holds(parts[2][1], f)
                BY <2>4, <2>7, <3>0, <3>2
            <4> QED  BY <2>11, <4>1
        <3>3. CASE to <= f
            <4>1. 3 \in 1 .. Len(parts) /\ 1 \in 1 .. Len(parts[3]) /\ Holds(parts[3][1], f)
                BY <2>5, <2>7, <3>0, <3>3
            <4> QED  BY <2>11, <4>1
        <3> QED  BY <1>1, <3>1, <3>2, <3>3
    <2> QED  BY <2>11, <2>12, <2>13 DEF PiecesOf
<1>6. from >= to \/ from < to
    BY <1>1
<1> QED  BY <1>4, <1>5, <1>6

\* a map that describes no frame twice
IsMap(list) == list \in Regions /\ AllApart(list)

\* reserve_range gives the reserved frames that are described the new kind and
\* leaves every other frame the kind it had.
LEMMA ReservedIs ==
    ASSUME NEW list, IsMap(list), NEW s \in Nat, NEW n \in Nat, NEW kind \in MemoryKinds
    PROVE  /\ IsMap(Reserved(list, s, n, kind))
           /\ \A f \in Int :
                  KindAt(Reserved(list, s, n, kind), f) =
                      IF s <= f /\ f < s + n /\ KindAt(list, f) # "None" THEN kind
                      ELSE KindAt(list, f)
<1> DEFINE e == s + n
           parts == [k \in 1 .. Len(list) |-> Pieces(list[k], s, e, kind)]
           R == Reserved(list, s, n, kind)
<1>0. list \in Regions /\ AllApart(list)
    BY DEF IsMap
<1>1. Len(list) \in Nat /\ e \in Nat /\ \A k \in 1 .. Len(list) : list[k] \in Region
    BY <1>0 DEF Regions
<1>2. R = Joined(parts)
    BY DEF Reserved
<1> HIDE DEF R, e
<1>3. ASSUME NEW k \in 1 .. Len(list)
      PROVE  /\ parts[k] \in Seq(Region) /\ AllApart(parts[k])
             /\ \A i \in 1 .. Len(parts[k]) : \A f \in Int : Holds(parts[k][i], f) =>
                    /\ Holds(list[k], f)
                    /\ parts[k][i].kind = IF s <= f /\ f < e THEN kind ELSE list[k].kind
             /\ \A f \in Int : Holds(list[k], f) => \E i \in 1 .. Len(parts[k]) : Holds(parts[k][i], f)
    <2> DEFINE ps == Pieces(list[k], s, e, kind)
    <2>1. /\ ps \in Seq(Region) /\ AllApart(ps)
          /\ \A i \in 1 .. Len(ps) : \A f \in Int : Holds(ps[i], f) =>
                 /\ Holds(list[k], f)
                 /\ ps[i].kind = IF s <= f /\ f < e THEN kind ELSE list[k].kind
          /\ \A f \in Int : Holds(list[k], f) => \E i \in 1 .. Len(ps) : Holds(ps[i], f)
        <3>1. list[k] \in Region
            BY <1>1
        <3>2. PiecesOf(ps, list[k], s, e, kind)
            BY <1>1, <3>1, PiecesIs
        <3> QED  BY <3>2 DEF PiecesOf
    <2>2. parts[k] = ps
        OBVIOUS
    <2> HIDE DEF ps, parts
    <2> QED  BY <2>1, <2>2
<1>4. parts \in Seq(Seq(Region)) /\ Len(parts) = Len(list)
    <2>1. parts \in [1 .. Len(list) -> Seq(Region)]
        BY <1>3
    <2> HIDE DEF parts
    <2> QED  BY <1>1, <2>1
<1> HIDE DEF parts
<1>5. PartsApart(parts)
    <2>1. \A k \in 1 .. Len(parts) : AllApart(parts[k])
        BY <1>3, <1>4
    <2>2. ASSUME NEW k \in 1 .. Len(parts), NEW l \in 1 .. Len(parts), k # l,
                 NEW i \in 1 .. Len(parts[k]), NEW j \in 1 .. Len(parts[l]),
                 NEW f \in Int, Holds(parts[k][i], f), Holds(parts[l][j], f)
          PROVE  FALSE
        <3>1. Holds(list[k], f) /\ Holds(list[l], f)
            BY <1>3, <1>4, <2>2
        <3> QED  BY <1>0, <1>4, <2>2, <3>1 DEF AllApart, PairApart
    <2> QED  BY <2>1, <2>2 DEF PartsApart, PairApart
<1>6. R \in Seq(Region) /\ JoinOf(R, parts)
    BY <1>2, <1>4, <1>5, JoinedIs
<1>7. R \in Regions /\ AllApart(R)
    BY <1>6 DEF Regions, JoinOf
<1>8. ASSUME NEW f \in Int
      PROVE  KindAt(R, f) = IF s <= f /\ f < e /\ KindAt(list, f) # "None" THEN kind
                            ELSE KindAt(list, f)
    <2>1. CASE KindAt(list, f) = "None"
        <3> SUFFICES ASSUME KindAt(R, f) # "None" PROVE FALSE
            BY <2>1
        <3>1. PICK j \in 1 .. Len(R) : Holds(R[j], f)
            BY <1>7, KindIsHeld
        <3>2. PICK k \in 1 .. Len(parts) : \E i \in 1 .. Len(parts[k]) : R[j] = parts[k][i]
            BY <1>6 DEF JoinOf
        <3>3. PICK i \in 1 .. Len(parts[k]) : R[j] = parts[k][i]
            BY <3>2
        <3>4. k \in 1 .. Len(list) /\ Holds(list[k], f)
            BY <1>3, <1>4, <3>1, <3>3
        <3> QED  BY <1>0, <2>1, <3>4, HeldHasKind
    <2>2. CASE KindAt(list, f) # "None"
        <3>1. PICK k \in 1 .. Len(list) : Holds(list[k], f) /\ KindAt(list, f) = list[k].kind
            BY <1>0, <2>2, KindIsHeld
        <3>2. PICK i \in 1 .. Len(parts[k]) : Holds(parts[k][i], f)
            BY <1>3, <3>1
        <3>3. PICK j \in 1 .. Len(R) : R[j] = parts[k][i]
            BY <1>4, <1>6 DEF JoinOf
        <3>4. KindAt(R, f) = R[j].kind
            BY <1>7, <3>2, <3>3, HeldHasKind
        <3>5. parts[k][i].kind = IF s <= f /\ f < e THEN kind ELSE list[k].kind
            BY <1>3, <3>2
        <3> QED  BY <2>2, <3>1, <3>3, <3>4, <3>5
    <2> QED  BY <2>1, <2>2
<1>9. IsMap(R)
    BY <1>7 DEF IsMap
<1> QED  BY <1>8, <1>9 DEF R, e

\* The runs FrameAllocator::new takes hold exactly the usable frames, each once.
LEMMA UsableRunsIs ==
    ASSUME NEW list, IsMap(list)
    PROVE  LET runs == UsableRuns(list) IN
           /\ runs \in Seq(Frames!FreeRange) /\ AllApart(runs)
           /\ \A f \in Int :
                  (\E j \in 1 .. Len(runs) : Holds(runs[j], f)) <=> KindAt(list, f) = "Usable"
<1> DEFINE S == Frames!FreeRange
           one(r) == [start |-> r.start, frames |-> r.frames]
           parts == [k \in 1 .. Len(list) |->
                        IF list[k].kind = "Usable" THEN <<one(list[k])>> ELSE <<>>]
           R == UsableRuns(list)
<1>0. list \in Regions /\ AllApart(list)
    BY DEF IsMap
<1>1. Len(list) \in Nat /\ \A k \in 1 .. Len(list) : list[k] \in Region
    BY <1>0 DEF Regions
<1>2. R = Joined(parts)
    BY DEF UsableRuns
<1> HIDE DEF R, S
<1>3. ASSUME NEW k \in 1 .. Len(list)
      PROVE  /\ parts[k] \in Seq(S) /\ (1 \in 1 .. Len(parts[k]) <=> list[k].kind = "Usable")
             /\ \A i \in 1 .. Len(parts[k]) : i = 1 /\ list[k].kind = "Usable"
             /\ list[k].kind = "Usable" =>
                    \A f \in Int : Holds(parts[k][1], f) <=> Holds(list[k], f)
    <2>1. CASE list[k].kind = "Usable"
        <3> DEFINE o == one(list[k])
        <3>1. o \in S
            BY <1>1, RegionIs DEF S, Frames!FreeRange
        <3>2. \A f \in Int : Holds(o, f) <=> Holds(list[k], f)
            BY DEF Holds
        <3>3. parts[k] = <<o>>
            BY <2>1
        <3> HIDE DEF o, parts
        <3>4. parts[k] \in Seq(S) /\ Len(parts[k]) = 1 /\ parts[k][1] = o
            BY <3>1, <3>3
        <3>5. \A i \in 1 .. Len(parts[k]) : i = 1
            BY <3>4
        <3>6. 1 \in 1 .. Len(parts[k])
            BY <3>4
        <3> QED  BY <2>1, <3>2, <3>4, <3>5, <3>6
    <2>2. CASE list[k].kind # "Usable"
        <3>1. parts[k] = <<>> /\ Len(<<>>) = 0 /\ <<>> \in Seq(S)
            BY <2>2
        <3> HIDE DEF parts
        <3>2. \A i \in 1 .. Len(parts[k]) : FALSE
            BY <3>1
        <3> QED  BY <2>2, <3>1, <3>2
    <2> QED  BY <2>1, <2>2
<1>4. parts \in Seq(Seq(S)) /\ Len(parts) = Len(list)
    <2>1. parts \in [1 .. Len(list) -> Seq(S)]
        BY <1>3
    <2> HIDE DEF parts
    <2> QED  BY <1>1, <2>1
<1> HIDE DEF parts
<1>5. PartsApart(parts)
    <2>1. \A k \in 1 .. Len(parts) : AllApart(parts[k])
        BY <1>3, <1>4 DEF AllApart
    <2>2. ASSUME NEW k \in 1 .. Len(parts), NEW l \in 1 .. Len(parts), k # l,
                 NEW i \in 1 .. Len(parts[k]), NEW j \in 1 .. Len(parts[l]),
                 NEW f \in Int, Holds(parts[k][i], f), Holds(parts[l][j], f)
          PROVE  FALSE
        <3>1. i = 1 /\ j = 1 /\ list[k].kind = "Usable" /\ list[l].kind = "Usable"
            BY <1>3, <1>4, <2>2
        <3>2. Holds(list[k], f) /\ Holds(list[l], f)
            BY <1>3, <1>4, <2>2, <3>1
        <3> QED  BY <1>0, <1>4, <2>2, <3>2 DEF AllApart, PairApart
    <2> QED  BY <2>1, <2>2 DEF PartsApart, PairApart
<1>6. R \in Seq(S) /\ JoinOf(R, parts)
    BY <1>2, <1>4, <1>5, JoinedIs
<1>7. ASSUME NEW f \in Int, NEW j \in 1 .. Len(R), Holds(R[j], f)
      PROVE  KindAt(list, f) = "Usable"
    <2>2. PICK k \in 1 .. Len(parts) : \E i \in 1 .. Len(parts[k]) : R[j] = parts[k][i]
        BY <1>6 DEF JoinOf
    <2>3. PICK i \in 1 .. Len(parts[k]) : R[j] = parts[k][i]
        BY <2>2
    <2>4. k \in 1 .. Len(list) /\ i = 1 /\ list[k].kind = "Usable"
        BY <1>3, <1>4
    <2>5. Holds(list[k], f)
        BY <1>3, <1>7, <2>3, <2>4
    <2> QED  BY <1>0, <2>4, <2>5, HeldHasKind
<1>8. ASSUME NEW f \in Int, KindAt(list, f) = "Usable"
      PROVE  \E j \in 1 .. Len(R) : Holds(R[j], f)
    <2>1. PICK k \in 1 .. Len(list) : Holds(list[k], f) /\ KindAt(list, f) = list[k].kind
        BY <1>0, <1>8, KindIsHeld
    <2>2. 1 \in 1 .. Len(parts[k]) /\ Holds(parts[k][1], f) /\ k \in 1 .. Len(parts)
        BY <1>3, <1>4, <1>8, <2>1
    <2>3. PICK j \in 1 .. Len(R) : R[j] = parts[k][1]
        BY <1>6, <2>2 DEF JoinOf
    <2> QED  BY <2>2, <2>3
<1> QED  BY <1>6, <1>7, <1>8 DEF JoinOf, R, S


------------------------------------------------------------------------------
(* The map through the boot.                                               *)

\* A run holds the frames of its set.
LEMMA RunIs ==
    ASSUME NEW r, r.start \in Nat, r.frames \in Nat
    PROVE  Run(r) \subseteq Int /\ \A f \in Int : f \in Run(r) <=> Holds(r, f)
BY DEF Run, Holds

\* how the map of machine m stands to the firmware's once the framebuffer and
\* the frames of kernel have been reserved
TrailAt(m, list, kernel, f) ==
    /\ f \in kernel => /\ KindAt(list, f) \in {"Kernel", "None"}
                       /\ KindAt(m.map, f) # "None" => KindAt(list, f) = "Kernel"
    /\ f \notin kernel /\ Holds(m.framebuffer, f) =>
           /\ KindAt(list, f) \in {"Device", "None"}
           /\ KindAt(m.map, f) # "None" => KindAt(list, f) = "Device"
    /\ f \notin kernel /\ ~ Holds(m.framebuffer, f) => KindAt(list, f) = KindAt(m.map, f)

Trail(m, list, kernel) ==
    /\ IsMap(m.map) /\ IsMap(list)
    /\ \A f \in Int : TrailAt(m, list, kernel, f)

\* One more reservation.
LEMMA ReserveTrail ==
    ASSUME NEW m, NEW list, NEW kernel, Trail(m, list, kernel),
           NEW run, run.start \in Nat, run.frames \in Nat
    PROVE  Trail(m, Reserved(list, run.start, run.frames, "Kernel"), kernel \cup Run(run))
<1> DEFINE R == Reserved(list, run.start, run.frames, "Kernel")
           K == kernel \cup Run(run)
<1>1. /\ IsMap(R)
      /\ \A f \in Int :
             KindAt(R, f) = IF run.start <= f /\ f < run.start + run.frames
                               /\ KindAt(list, f) # "None" THEN "Kernel"
                            ELSE KindAt(list, f)
    <2>1. "Kernel" \in MemoryKinds /\ IsMap(list)
        BY DEF MemoryKinds, Trail
    <2> QED  BY <2>1, ReservedIs
<1>2. ASSUME NEW f \in Int
      PROVE  TrailAt(m, R, K, f)
    <2>1. TrailAt(m, list, kernel, f)
        BY DEF Trail
    <2>2. f \in K <=> f \in kernel \/ (run.start <= f /\ f < run.start + run.frames)
        BY RunIs DEF Holds
    <2> HIDE DEF R, K
    <2> QED  BY <1>1, <2>1, <2>2 DEF TrailAt
<1> QED  BY <1>1, <1>2 DEF Trail

\* The firmware's map, if it has no empty descriptor.
LEMMA FirmwareMap ==
    ASSUME NEW m \in Machines, \A k \in 1 .. Len(m.map) : m.map[k].frames # 0
    PROVE  IsMap(m.map)
<1>1. /\ m.map \in Seq(FirmwareRange)
      /\ \A j, k \in 1 .. Len(m.map) : j # k => Run(m.map[j]) \cap Run(m.map[k]) = {}
    BY FirmwareAssumption
<1>2. \A k \in 1 .. Len(m.map) : m.map[k] \in FirmwareRange
    <2> DEFINE list == m.map
    <2>1. list \in Seq(FirmwareRange)
        BY <1>1
    <2> HIDE DEF list
    <2>2. \A k \in 1 .. Len(list) : list[k] \in FirmwareRange
        BY <2>1
    <2> QED  BY <2>2 DEF list
<1>3. \A k \in 1 .. Len(m.map) : m.map[k] \in Region
    BY <1>2 DEF FirmwareRange, Region
<1>4. m.map \in Regions
    <2>1. m.map \in [1 .. Len(m.map) -> Region] /\ Len(m.map) \in Nat
        BY <1>1, <1>3
    <2> QED  BY <2>1 DEF Regions
<1>5. ASSUME NEW j \in 1 .. Len(m.map), NEW k \in 1 .. Len(m.map), j # k,
             NEW f \in Int, Holds(m.map[j], f), Holds(m.map[k], f)
      PROVE  FALSE
    <2>1. f \in Run(m.map[j]) /\ f \in Run(m.map[k])
        BY <1>3, <1>5, RegionIs, RunIs
    <2> QED  BY <1>1, <1>5, <2>1
<1>6. AllApart(m.map)
    BY <1>5 DEF AllApart, PairApart
<1> QED  BY <1>4, <1>6 DEF IsMap

\* A range beside all the others may be appended.
LEMMA AppendedIs ==
    ASSUME NEW list, IsMap(list), NEW r \in Region,
           \A k \in 1 .. Len(list) : PairApart(list[k], r)
    PROVE  /\ IsMap(Append(list, r))
           /\ \A f \in Int : KindAt(Append(list, r), f) =
                  IF Holds(r, f) THEN r.kind ELSE KindAt(list, f)
<1> DEFINE R == Append(list, r)
           n == Len(list)
<1>1. list \in Regions /\ AllApart(list) /\ n \in Nat
    BY DEF IsMap, Regions
<1>2. R \in Regions /\ Len(R) = n + 1 /\ R[n + 1] = r /\ \A k \in 1 .. n : R[k] = list[k]
    BY <1>1 DEF Regions
<1> HIDE DEF R
<1>3. \A k \in 1 .. Len(R) : k \in 1 .. n \/ k = n + 1
    BY <1>1, <1>2
<1>4. \A k \in 1 .. n : PairApart(R[k], r) /\ PairApart(r, R[k])
    BY <1>2 DEF PairApart
<1>5. AllApart(R)
    BY <1>1, <1>2, <1>3, <1>4 DEF AllApart
<1>6. ASSUME NEW f \in Int
      PROVE  KindAt(R, f) = IF Holds(r, f) THEN r.kind ELSE KindAt(list, f)
    <2>1. CASE Holds(r, f)
        <3>1. n + 1 \in 1 .. Len(R)
            BY <1>1, <1>2
        <3> QED  BY <1>2, <1>5, <2>1, <3>1, HeldHasKind
    <2>2. CASE ~ Holds(r, f) /\ KindAt(list, f) = "None"
        <3>1. \A k \in 1 .. n : ~ Holds(list[k], f)
            BY <1>1, <2>2, HeldHasKind
        <3>2. \A k \in 1 .. Len(R) : ~ Holds(R[k], f)
            BY <1>2, <1>3, <2>2, <3>1
        <3> QED  BY <1>2, <1>5, <2>2, <3>2, KindAtIs
    <2>3. CASE ~ Holds(r, f) /\ KindAt(list, f) # "None"
        <3>1. PICK k \in 1 .. n : Holds(list[k], f) /\ KindAt(list, f) = list[k].kind
            BY <1>1, <2>3, KindIsHeld
        <3>2. k \in 1 .. Len(R) /\ R[k] = list[k]
            BY <1>1, <1>2
        <3> QED  BY <1>2, <1>5, <2>3, <3>1, <3>2, HeldHasKind
    <2> QED  BY <2>1, <2>2, <2>3
<1> QED  BY <1>2, <1>5, <1>6 DEF IsMap, R

\* The framebuffer, reserved or appended.
LEMMA FramebufferTrail ==
    ASSUME NEW m \in Machines, IsMap(m.map),
           NEW err, err = ReserveError(m.map, m.framebuffer.start, m.framebuffer.frames, "Device"),
           err \in {"None", "RangeNotFound"}
    PROVE  LET list == IF err = "None"
                       THEN Reserved(m.map, m.framebuffer.start, m.framebuffer.frames, "Device")
                       ELSE Append(m.map, Descriptor(m.framebuffer.start, m.framebuffer.frames,
                                                     "Device"))
           IN  Trail(m, list, {})
<1> DEFINE s == m.framebuffer.start
           n == m.framebuffer.frames
           d == Descriptor(s, n, "Device")
           R == Reserved(m.map, s, n, "Device")
           A == Append(m.map, d)
<1>1. s \in Nat /\ n \in Nat
    BY FirmwareAssumption
<1>2. n # 0
    BY DEF ReserveError
<1>3. \A f \in Int : Holds(m.framebuffer, f) <=> s <= f /\ f < s + n
    BY <1>1 DEF Holds
<1>4. CASE err = "None"
    <2>1. /\ IsMap(R)
          /\ \A f \in Int :
                 KindAt(R, f) = IF s <= f /\ f < s + n /\ KindAt(m.map, f) # "None" THEN "Device"
                                ELSE KindAt(m.map, f)
        <3>1. "Device" \in MemoryKinds
            BY DEF MemoryKinds
        <3> DEFINE list == m.map
        <3> HIDE DEF s, n, list
        <3>2. IsMap(list)
            BY DEF list
        <3>3. /\ IsMap(Reserved(list, s, n, "Device"))
              /\ \A f \in Int :
                     KindAt(Reserved(list, s, n, "Device"), f) =
                         IF s <= f /\ f < s + n /\ KindAt(list, f) # "None" THEN "Device"
                         ELSE KindAt(list, f)
            BY <1>1, <3>1, <3>2, ReservedIs
        <3> QED  BY <3>3 DEF list
    <2> HIDE DEF R, s, n
    <2>2. \A f \in Int : TrailAt(m, R, {}, f)
        BY <1>3, <2>1 DEF TrailAt
    <2>3. Trail(m, R, {})
        BY <2>1, <2>2 DEF Trail
    <2> QED  BY <1>4, <2>3 DEF R, s, n
<1>5. CASE err # "None"
    <2>1. \A k \in DOMAIN m.map :
              Maximum(s, m.map[k].start) >= Minimum(s + n, m.map[k].start + m.map[k].frames)
        BY <1>5 DEF ReserveError
    <2>2. d \in Region /\ d.kind = "Device" /\ \A f \in Int : Holds(d, f) <=> s <= f /\ f < s + n
        BY <1>1, <1>2, NoneIsNoKind DEF Region, Descriptor, Holds
    <2>3. \A k \in 1 .. Len(m.map) : k \in DOMAIN m.map /\ m.map[k] \in Region
        <3> DEFINE list == m.map
        <3>1. list \in Seq(Region)
            BY DEF IsMap, Regions
        <3> HIDE DEF list
        <3>2. \A k \in 1 .. Len(list) : k \in DOMAIN list /\ list[k] \in Region
            BY <3>1
        <3> QED  BY <3>2 DEF list
    <2> HIDE DEF d, s, n
    <2>4. ASSUME NEW k \in 1 .. Len(m.map)
          PROVE  PairApart(m.map[k], d)
        <3>1. /\ m.map[k].start \in Nat /\ m.map[k].frames \in Nat
              /\ Maximum(s, m.map[k].start) >= Minimum(s + n, m.map[k].start + m.map[k].frames)
            BY <2>1, <2>3, RegionIs
        <3> QED  BY <1>1, <2>2, <3>1 DEF PairApart, Holds, Maximum, Minimum
    <2>5. /\ IsMap(A)
          /\ \A f \in Int : KindAt(A, f) = IF Holds(d, f) THEN d.kind ELSE KindAt(m.map, f)
        BY <2>2, <2>4, AppendedIs
    <2> HIDE DEF A
    <2>6. \A f \in Int : TrailAt(m, A, {}, f)
        BY <1>3, <2>2, <2>5 DEF TrailAt
    <2>7. Trail(m, A, {})
        BY <2>5, <2>6 DEF Trail
    <2> QED  BY <1>5, <2>7 DEF A, d, s, n
<1> QED  BY <1>4, <1>5


Free(list, f) == \E j \in 1 .. Len(list) : Holds(list[j], f)

\* remove_range takes away one run and leaves the others.
LEMMA RemovedIs ==
    ASSUME NEW S, NEW list \in Seq(S), AllApart(list), NEW k \in 1 .. Len(list)
    PROVE  /\ Frames!RemoveRange(list, k) \in Seq(S)
           /\ \A f \in Int : Free(Frames!RemoveRange(list, k), f)
                  <=> Free(list, f) /\ ~ Holds(list[k], f)
<1> DEFINE n == Len(list)
           R == Frames!RemoveRange(list, k)
<1>1. n \in Nat /\ n - 1 \in Nat /\ \A j \in 1 .. n : list[j] \in S
    OBVIOUS
<1>2. R = [j \in 1 .. n - 1 |-> IF j < k THEN list[j] ELSE list[j + 1]]
    BY DEF Frames!RemoveRange
<1> HIDE DEF R, n
<1>3. \A j \in 1 .. n - 1 : j \in 1 .. n /\ j + 1 \in 1 .. n
    BY <1>1
<1>4. R \in [1 .. n - 1 -> S]
    BY <1>1, <1>2, <1>3
<1>5. R \in Seq(S) /\ Len(R) = n - 1
    BY <1>1, <1>4
<1>6. \A j \in 1 .. Len(R) : R[j] = IF j < k THEN list[j] ELSE list[j + 1]
    BY <1>2, <1>5
<1>7. ASSUME NEW f \in Int, NEW j \in 1 .. Len(R), Holds(R[j], f)
      PROVE  Free(list, f) /\ ~ Holds(list[k], f)
    <2>1. PICK i \in 1 .. n : R[j] = list[i] /\ i # k
        <3>1. CASE j < k
            <4>1. j \in 1 .. n /\ j # k /\ R[j] = list[j]
                BY <1>1, <1>5, <1>6, <3>1
            <4> QED  BY <4>1
        <3>2. CASE ~ (j < k)
            <4>1. j + 1 \in 1 .. n /\ j + 1 # k /\ R[j] = list[j + 1]
                BY <1>1, <1>5, <1>6, <3>2
            <4> QED  BY <4>1
        <3> QED  BY <3>1, <3>2
    <2>2. i \in 1 .. Len(list) /\ Holds(list[i], f)
        BY <1>7, <2>1 DEF n
    <2> QED  BY <2>1, <2>2 DEF Free, AllApart, PairApart
<1>8. ASSUME NEW f \in Int, NEW i \in 1 .. n, Holds(list[i], f), ~ Holds(list[k], f)
      PROVE  \E j \in 1 .. Len(R) : Holds(R[j], f)
    <2>0. i # k /\ k \in 1 .. n
        BY <1>8 DEF n
    <2>1. CASE i < k
        <3>1. i \in 1 .. Len(R)
            BY <1>1, <1>5, <2>0, <2>1
        <3>2. R[i] = list[i]
            BY <1>6, <2>1, <3>1
        <3> QED  BY <1>8, <3>1, <3>2
    <2>2. CASE ~ (i < k)
        <3> DEFINE x == i - 1
        <3>1. x \in 1 .. Len(R) /\ ~ (x < k) /\ x + 1 = i
            BY <1>1, <1>5, <2>0, <2>2
        <3> HIDE DEF x
        <3>2. R[x] = list[i]
            BY <1>6, <3>1
        <3> QED  BY <1>8, <3>1, <3>2
    <2> QED  BY <2>1, <2>2
<1> QED  BY <1>5, <1>7, <1>8 DEF Free, R, n

\* the frames reserved for the kernel before there is a heap
KernelFrames(m) == Run(m.image) \cup Run(ReservedWindow(m.heapMarker))

\* the heap lies in usable memory that nothing else was reserved in
HeapApart ==
    /\ heap \in Frames!FreeRange
    /\ \A f \in Int : Holds(heap, f) =>
           /\ KindAt(machine.map, f) = "Usable"
           /\ ~ Holds(machine.image, f)
           /\ ~ Holds(machine.framebuffer, f)
           /\ ~ Holds(ReservedWindow(machine.heapMarker), f)

\* the map at each call of the boot
MapTrail ==
    /\ stage = "image" => Trail(machine, map, {})
    /\ stage = "stack" => Trail(machine, map, Run(machine.image))
    /\ stage \in {"frames", "grant", "heap"} => Trail(machine, map, KernelFrames(machine))
    /\ stage \in PagingStages => Trail(machine, map, KernelFrames(machine) \cup Run(heap))

\* the free list at each call of the boot: between the grant of the heap and its
\* reservation, and only then, the map calls frames usable that are not free
FreeTrail ==
    /\ stage \in {"grant", "heap"} \cup PagingStages => ranges \in Seq(Frames!FreeRange)
    /\ stage = "grant" => AllApart(ranges)
    /\ stage = "grant" \/ stage \in PagingStages =>
           \A f \in Int : Free(ranges, f) <=> KindAt(map, f) = "Usable"
    /\ stage = "heap" =>
           \A f \in Int : Free(ranges, f) <=> KindAt(map, f) = "Usable" /\ ~ Holds(heap, f)

MemoryInv ==
    /\ machine \in Machines
    /\ MapTrail
    /\ FreeTrail
    /\ stage \in {"heap"} \cup PagingStages => HeapApart

\* The machine's runs.
LEMMA MachineIs ==
    ASSUME NEW m \in Machines
    PROVE  /\ m.image.start \in Nat /\ m.image.frames \in Nat
           /\ m.framebuffer.start \in Nat /\ m.framebuffer.frames \in Nat
           /\ m.heapMarker \in Nat /\ m.pagingMarker \in Nat
           /\ ReservedWindow(m.heapMarker).start \in Nat
           /\ ReservedWindow(m.heapMarker).frames \in Nat
           /\ MappedWindow(m.pagingMarker).start \in Nat
           /\ MappedWindow(m.pagingMarker).frames \in Nat
           /\ NearMarkers(m) =>
                  Run(MappedWindow(m.pagingMarker)) \subseteq Run(ReservedWindow(m.heapMarker))
<1>1. /\ m.image.start \in Nat /\ m.image.frames \in Nat
      /\ m.framebuffer.start \in Nat /\ m.framebuffer.frames \in Nat
      /\ m.heapMarker \in Nat /\ m.pagingMarker \in Nat
    BY FirmwareAssumption
<1> DEFINE h == m.heapMarker
           p == m.pagingMarker
           R == ReservedWindow(h)
           M == MappedWindow(p)
<1>2. HALF_WINDOW \in Nat /\ HALF_WINDOW >= 1
    BY WindowAssumption
<1>3. R.start = SaturatingSub(h, HALF_WINDOW) /\ R.frames = 2 * HALF_WINDOW
    BY DEF ReservedWindow
<1>4. M.start = SaturatingSub(p, HALF_WINDOW - 1) /\ M.frames = 2 * (HALF_WINDOW - 1)
    BY DEF MappedWindow
<1>5. h \in Nat /\ p \in Nat /\ (NearMarkers(m) => p <= h + 1 /\ h <= p + 1)
    BY <1>1 DEF NearMarkers
<1> HIDE DEF h, p, R, M
<1>6. R.start \in Nat /\ M.start \in Nat
    BY <1>2, <1>3, <1>4, <1>5 DEF SaturatingSub
<1>7. R.frames \in Nat /\ M.frames \in Nat
    BY <1>2, <1>3, <1>4
<1>8. ASSUME NearMarkers(m)
      PROVE  Run(M) \subseteq Run(R)
    <2>1. R.start <= M.start
        BY <1>2, <1>3, <1>4, <1>5, <1>8 DEF SaturatingSub
    <2>2. M.start + M.frames <= R.start + R.frames
        BY <1>2, <1>3, <1>4, <1>5, <1>8 DEF SaturatingSub
    <2>3. \A f \in Int : Holds(M, f) => Holds(R, f)
        BY <1>6, <1>7, <2>1, <2>2 DEF Holds
    <2> QED  BY <1>6, <1>7, <2>3, RunIs
<1> QED  BY <1>1, <1>6, <1>7, <1>8 DEF h, p, R, M


\* The boot starts with nothing reserved.
LEMMA InitMemory ==
    ASSUME Init
    PROVE  MemoryInv
BY DEF Init, MemoryInv, MapTrail, FreeTrail, PagingStages

\* A boot that halts needs nothing more of its memory.
LEMMA HaltMemory ==
    ASSUME MemoryInv, machine' = machine, stage' = "halted"
    PROVE  MemoryInv'
BY DEF MemoryInv, MapTrail, FreeTrail, PagingStages

\* memory::initialize copies the map and enters the framebuffer.
LEMMA InitializeMemoryKeeps ==
    ASSUME MemoryInv, InitializeMemory
    PROVE  MemoryInv'
<1> DEFINE m == machine
           n == Len(m.map)
           fb == m.framebuffer
           err == ReserveError(m.map, fb.start, fb.frames, "Device")
           R == Reserved(m.map, fb.start, fb.frames, "Device")
           A == Append(m.map, Descriptor(fb.start, fb.frames, "Device"))
<1>1. m \in Machines /\ machine' = machine
    BY DEF MemoryInv, InitializeMemory
<1>2. CASE stage' = "halted"
    BY <1>1, <1>2, HaltMemory
<1>3. CASE stage' # "halted"
    <2>1. /\ stage' = "image"
          /\ ~ \E k \in 1 .. Minimum(n, MAX_MEMORY_RANGES) : m.map[k].frames = 0
          /\ ~ (n > MAX_MEMORY_RANGES)
          /\ \/ err = "None" /\ map' = R
             \/ err = "RangeNotFound" /\ map' = A
        BY <1>3 DEF InitializeMemory, Fail, CopyError
    <2>2. n \in Nat /\ Minimum(n, MAX_MEMORY_RANGES) = n
        <3>1. m.map \in Seq(FirmwareRange)
            BY <1>1, FirmwareAssumption
        <3>2. n \in Nat
            BY <3>1
        <3> HIDE DEF n
        <3> QED  BY <2>1, <3>2, MaxMemoryRangesAssumption DEF Minimum
    <2>3. \A k \in 1 .. n : m.map[k].frames # 0
        BY <2>1, <2>2
    <2>4. IsMap(m.map)
        BY <1>1, <2>3, FirmwareMap
    <2>5. Trail(m, IF err = "None" THEN R ELSE A, {})
        <3>1. err \in {"None", "RangeNotFound"}
            BY <2>1
        <3> HIDE DEF err
        <3>2. err = ReserveError(m.map, fb.start, fb.frames, "Device")
            BY DEF err
        <3> QED  BY <1>1, <2>4, <3>1, <3>2, FramebufferTrail
    <2>6. Trail(m, map', {})
        <3> HIDE DEF err, R, A, m
        <3> QED  BY <2>1, <2>5
    <2> QED  BY <1>1, <2>1, <2>6 DEF MemoryInv, MapTrail, FreeTrail, PagingStages
<1> QED  BY <1>2, <1>3

\* memory::reserve of the image.
LEMMA ReserveImageKeeps ==
    ASSUME MemoryInv, ReserveImage
    PROVE  MemoryInv'
<1>1. /\ machine \in Machines /\ machine' = machine /\ stage = "image"
      /\ Trail(machine, map, {})
    BY DEF MemoryInv, MapTrail, ReserveImage, ReserveStep
<1>2. CASE stage' = "halted"
    BY <1>1, <1>2, HaltMemory
<1>3. CASE stage' # "halted"
    <2>1. /\ stage' = "stack"
          /\ map' = Reserved(map, machine.image.start, machine.image.frames, "Kernel")
        BY <1>3 DEF ReserveImage, ReserveStep, Fail
    <2>2. Trail(machine, map', {} \cup Run(machine.image))
        BY <1>1, <2>1, MachineIs, ReserveTrail
    <2>3. {} \cup Run(machine.image) = Run(machine.image)
        OBVIOUS
    <2>4. Trail(machine', map', Run(machine'.image))
        BY <1>1, <2>2, <2>3
    <2> QED  BY <1>1, <2>1, <2>4 DEF MemoryInv, MapTrail, FreeTrail, PagingStages
<1> QED  BY <1>2, <1>3

\* memory::reserve of the stack window.
LEMMA ReserveStackKeeps ==
    ASSUME MemoryInv, ReserveStack
    PROVE  MemoryInv'
<1> DEFINE W == ReservedWindow(machine.heapMarker)
<1>1. /\ machine \in Machines /\ machine' = machine /\ stage = "stack"
      /\ Trail(machine, map, Run(machine.image))
    BY DEF MemoryInv, MapTrail, ReserveStack, ReserveStep
<1>2. CASE stage' = "halted"
    BY <1>1, <1>2, HaltMemory
<1>3. CASE stage' # "halted"
    <2>1. /\ stage' = "frames"
          /\ map' = Reserved(map, W.start, W.frames, "Kernel")
        BY <1>3 DEF ReserveStack, ReserveStep, Fail
    <2>2. W.start \in Nat /\ W.frames \in Nat
        BY <1>1, MachineIs
    <2> HIDE DEF W
    <2>3. Trail(machine, map', Run(machine.image) \cup Run(W))
        BY <1>1, <2>1, <2>2, ReserveTrail
    <2>4. Trail(machine, map', KernelFrames(machine))
        BY <2>3 DEF KernelFrames, W
    <2> QED  BY <1>1, <2>1, <2>4 DEF MemoryInv, MapTrail, FreeTrail, PagingStages
<1> QED  BY <1>2, <1>3

\* frame::initialize.
LEMMA InitializeFramesKeeps ==
    ASSUME MemoryInv, InitializeFrames
    PROVE  MemoryInv'
<1>1. /\ machine \in Machines /\ machine' = machine /\ map' = map
      /\ stage = "frames" /\ stage' = "grant" /\ ranges' = UsableRuns(map)
      /\ Trail(machine, map, KernelFrames(machine))
    BY DEF MemoryInv, MapTrail, InitializeFrames
<1> DEFINE U == UsableRuns(map)
<1>2. /\ U \in Seq(Frames!FreeRange) /\ AllApart(U)
      /\ \A f \in Int : (\E j \in 1 .. Len(U) : Holds(U[j], f)) <=> KindAt(map, f) = "Usable"
    <2>1. IsMap(map)
        BY <1>1 DEF Trail
    <2> QED  BY <2>1, UsableRunsIs
<1> HIDE DEF U
<1>3. ranges' = U
    BY <1>1 DEF U
<1>4. \A f \in Int : Free(ranges', f) <=> KindAt(map', f) = "Usable"
    BY <1>1, <1>2, <1>3 DEF Free
<1>5. ranges' \in Seq(Frames!FreeRange) /\ AllApart(ranges')
    BY <1>2, <1>3
<1>6. MapTrail'
    BY <1>1 DEF MapTrail, PagingStages
<1>7. FreeTrail'
    BY <1>1, <1>4, <1>5 DEF FreeTrail, PagingStages
<1> QED  BY <1>1, <1>6, <1>7 DEF MemoryInv, PagingStages

\* The longest free run is not reserved for anything.
LEMMA GrantHeapKeeps ==
    ASSUME MemoryInv, GrantHeap
    PROVE  MemoryInv'
<1>1. /\ machine \in Machines /\ machine' = machine /\ map' = map /\ stage = "grant"
      /\ Trail(machine, map, KernelFrames(machine))
      /\ ranges \in Seq(Frames!FreeRange) /\ AllApart(ranges)
      /\ \A f \in Int : Free(ranges, f) <=> KindAt(map, f) = "Usable"
    BY DEF MemoryInv, MapTrail, FreeTrail, GrantHeap
<1>2. CASE stage' = "halted"
    BY <1>1, <1>2, HaltMemory
<1>3. CASE stage' # "halted"
    <2>1. PICK k \in DOMAIN ranges :
              /\ Frames!AllocateContiguous(ranges[k].frames, k)
              /\ heap' = ranges[k] /\ stage' = "heap"
        BY <1>3 DEF GrantHeap, Fail
    <2>2. k \in 1 .. Len(ranges) /\ ranges[k] \in Frames!FreeRange
        BY <1>1
    <2>3. ranges' = Frames!RemoveRange(ranges, k)
        BY <2>1 DEF Frames!AllocateContiguous, Frames!TakeFront
    <2>4. /\ ranges' \in Seq(Frames!FreeRange)
          /\ \A f \in Int : Free(ranges', f) <=> Free(ranges, f) /\ ~ Holds(ranges[k], f)
        BY <1>1, <2>2, <2>3, RemovedIs
    <2>5. \A f \in Int : Free(ranges', f) <=> KindAt(map', f) = "Usable" /\ ~ Holds(heap', f)
        BY <1>1, <2>1, <2>4
    <2>6. ASSUME NEW f \in Int, Holds(heap', f)
          PROVE  /\ KindAt(machine'.map, f) = "Usable"
                 /\ ~ Holds(machine'.image, f)
                 /\ ~ Holds(machine'.framebuffer, f)
                 /\ ~ Holds(ReservedWindow(machine'.heapMarker), f)
        <3>1. KindAt(map, f) = "Usable"
            BY <1>1, <2>1, <2>2, <2>6 DEF Free
        <3>2. TrailAt(machine, map, KernelFrames(machine), f)
            BY <1>1 DEF Trail
        <3>3. f \notin KernelFrames(machine) /\ ~ Holds(machine.framebuffer, f)
              /\ KindAt(machine.map, f) = "Usable"
            BY <3>1, <3>2 DEF TrailAt
        <3>4. f \notin Run(machine.image) /\ f \notin Run(ReservedWindow(machine.heapMarker))
            BY <3>3 DEF KernelFrames
        <3>5. ~ Holds(machine.image, f) /\ ~ Holds(ReservedWindow(machine.heapMarker), f)
            BY <1>1, <3>4, MachineIs, RunIs
        <3> QED  BY <1>1, <3>3, <3>5
    <2>7. HeapApart'
        BY <2>1, <2>2, <2>6 DEF HeapApart
    <2>8. MapTrail'
        BY <1>1, <2>1 DEF MapTrail, PagingStages
    <2>9. FreeTrail'
        BY <2>1, <2>4, <2>5 DEF FreeTrail, PagingStages
    <2> QED  BY <1>1, <2>7, <2>8, <2>9 DEF MemoryInv
<1> QED  BY <1>2, <1>3

\* memory::reserve of the heap.
LEMMA ReserveHeapKeeps ==
    ASSUME MemoryInv, ReserveHeap
    PROVE  MemoryInv'
<1>1. /\ machine \in Machines /\ machine' = machine /\ heap' = heap /\ ranges' = ranges
      /\ stage = "heap" /\ HeapApart
      /\ Trail(machine, map, KernelFrames(machine))
      /\ ranges \in Seq(Frames!FreeRange)
      /\ \A f \in Int : Free(ranges, f) <=> KindAt(map, f) = "Usable" /\ ~ Holds(heap, f)
    BY DEF MemoryInv, MapTrail, FreeTrail, ReserveHeap, ReserveStep, frameVars
<1>2. CASE stage' = "halted"
    BY <1>1, <1>2, HaltMemory
<1>3. CASE stage' # "halted"
    <2>1. /\ stage' = "mapImage"
          /\ map' = Reserved(map, heap.start, heap.frames, "Kernel")
        BY <1>3 DEF ReserveHeap, ReserveStep, Fail
    <2>2. heap.start \in Nat /\ heap.frames \in Nat
        BY <1>1 DEF HeapApart, Frames!FreeRange
    <2>3. Trail(machine, map', KernelFrames(machine) \cup Run(heap))
        BY <1>1, <2>1, <2>2, ReserveTrail
    <2>4. \A f \in Int : KindAt(map', f) =
              IF heap.start <= f /\ f < heap.start + heap.frames /\ KindAt(map, f) # "None"
              THEN "Kernel" ELSE KindAt(map, f)
        <3>1. IsMap(map) /\ "Kernel" \in MemoryKinds
            BY <1>1 DEF Trail, MemoryKinds
        <3> QED  BY <2>1, <2>2, <3>1, ReservedIs
    <2>5. \A f \in Int : KindAt(map', f) = "Usable" <=> KindAt(map, f) = "Usable" /\ ~ Holds(heap, f)
        BY <2>2, <2>4 DEF Holds
    <2>6. HeapApart'
        BY <1>1 DEF HeapApart
    <2>7. MapTrail'
        BY <1>1, <2>1, <2>3 DEF MapTrail, PagingStages
    <2>8. FreeTrail'
        BY <1>1, <2>1, <2>5 DEF FreeTrail, PagingStages
    <2> QED  BY <1>1, <2>6, <2>7, <2>8 DEF MemoryInv
<1> QED  BY <1>2, <1>3

\* Paging leaves map, heap and free list alone.
LEMMA PagingKeepsMemory ==
    ASSUME MemoryInv, stage \in PagingStages, stage' \in PagingStages,
           UNCHANGED <<machine, map, heap, ranges>>
    PROVE  MemoryInv'
<1>1. MapTrail'
    BY DEF MemoryInv, MapTrail, PagingStages
<1>2. FreeTrail'
    BY DEF MemoryInv, FreeTrail, PagingStages
<1>3. HeapApart'
    BY DEF MemoryInv, HeapApart
<1> QED  BY <1>1, <1>2, <1>3 DEF MemoryInv

\* Every step keeps the memory invariant.
LEMMA NextMemory ==
    ASSUME MemoryInv, [Next]_vars
    PROVE  MemoryInv'
<1>1. CASE UNCHANGED vars
    <2>1. UNCHANGED <<machine, stage, map, heap, ranges>>
        BY <1>1 DEF vars, frameVars
    <2> QED  BY <2>1 DEF MemoryInv, MapTrail, FreeTrail, HeapApart
<1>2. ASSUME NEW from \in PagingStages, NEW to \in PagingStages, NEW run, NEW flags,
             MapStep(from, to, run, flags)
      PROVE  MemoryInv'
    <2>1. /\ stage \in PagingStages /\ (stage' = "halted" \/ stage' \in PagingStages)
          /\ UNCHANGED <<machine, map, heap, ranges>>
        BY <1>2 DEF MapStep, Fail, frameVars
    <2> QED  BY <2>1, PagingKeepsMemory, HaltMemory
<1>3. CASE MapImage \/ MapHeap \/ MapFramebuffer \/ MapStack
    BY <1>2, <1>3 DEF MapImage, MapHeap, MapFramebuffer, MapStack, PagingStages
<1>4. CASE Drivers
    <2>1. Running
        BY <1>4 DEF Drivers, MapDevicePage, MapDriverPage, UnmapDriverPage
    <2>2. stage \in PagingStages /\ stage' \in PagingStages /\ UNCHANGED <<machine, map, heap, ranges>>
        BY <2>1 DEF Running, PagingStages, frameVars
    <2> QED  BY <2>2, PagingKeepsMemory
<1> QED
    BY <1>1, <1>3, <1>4, InitializeMemoryKeeps, ReserveImageKeeps, ReserveStackKeeps,
       InitializeFramesKeeps, GrantHeapKeeps, ReserveHeapKeeps DEF Next

\* The memory invariant holds throughout.
LEMMA MemoryInvariant ==
    Spec => []MemoryInv
<1>1. Init => MemoryInv
    BY InitMemory
<1>2. MemoryInv /\ [Next]_vars => MemoryInv'
    BY NextMemory
<1> QED  BY <1>1, <1>2, PTL DEF Spec


\* A frame is covered exactly if it has a kind.
LEMMA CoveredIs ==
    ASSUME NEW list, IsMap(list)
    PROVE  Covered(list) \subseteq Int /\ \A f \in Int : f \in Covered(list) <=> KindAt(list, f) # "None"
<1>0. list \in Regions /\ AllApart(list)
    BY DEF IsMap
<1>1. DOMAIN list = 1 .. Len(list) /\ \A k \in 1 .. Len(list) : list[k] \in Region
    BY <1>0 DEF Regions
<1>2. \A k \in 1 .. Len(list) : list[k].start \in Nat /\ list[k].frames \in Nat
    BY <1>1, RegionIs
<1>3. \A f : f \in Covered(list) <=> f \in Int /\ \E k \in 1 .. Len(list) : Holds(list[k], f)
    BY <1>1, <1>2, SMTT(30) DEF Covered, Holds
<1> QED  BY <1>0, <1>3, KindIsHeld, HeldHasKind

\* After the heap has been reserved the frames the map calls Usable are exactly
\* the allocator's free frames: memory.rs and frame.rs never disagree on what may
\* be handed out, whatever the firmware's map and the order of its descriptors.
THEOREM MapAndAllocatorAgree ==
    Spec => []MapAgreesWithAllocator
<1>1. MemoryInv => MapAgreesWithAllocator
    <2> SUFFICES ASSUME MemoryInv, stage \in PagingStages
                 PROVE  {f \in Covered(map) : KindAt(map, f) = "Usable"} = Frames!FreeFrames
        BY DEF MapAgreesWithAllocator
    <2>1. /\ IsMap(map) /\ ranges \in Seq(Frames!FreeRange)
          /\ \A f \in Int : Free(ranges, f) <=> KindAt(map, f) = "Usable"
        BY DEF MemoryInv, MapTrail, FreeTrail, Trail
    <2>2. /\ DOMAIN ranges = 1 .. Len(ranges)
          /\ \A k \in 1 .. Len(ranges) : ranges[k].start \in Nat /\ ranges[k].frames \in Nat
        <3>1. \A k \in 1 .. Len(ranges) : ranges[k] \in Frames!FreeRange
            BY <2>1
        <3> QED  BY <2>1, <3>1 DEF Frames!FreeRange
    <2>3. \A f : f \in Frames!FreeFrames <=> f \in Int /\ Free(ranges, f)
        BY <2>2 DEF Frames!FreeFrames, Frames!FramesIn, Frames!FramesOf, Free, Holds
    <2>4. Covered(map) \subseteq Int /\ \A f \in Int : f \in Covered(map) <=> KindAt(map, f) # "None"
        BY <2>1, CoveredIs
    <2> QED  BY <2>1, <2>3, <2>4
<1> QED  BY <1>1, MemoryInvariant, PTL

\* A reservation never loses memory: each frame of the firmware's map is still
\* described, and keeps its kind unless one of the reservations covers it.
THEOREM NeighboursKeepTheirKind ==
    Spec => []ReservationsKeepNeighbours
<1>1. MemoryInv => ReservationsKeepNeighbours
    <2> SUFFICES ASSUME MemoryInv, stage \in PagingStages, NEW f \in Covered(machine.map)
                 PROVE  \/ KindAt(map, f) = KindAt(machine.map, f)
                        \/ f \in Run(machine.framebuffer) /\ KindAt(map, f) = "Device"
                        \/ /\ f \in Run(machine.image) \cup Run(heap)
                                    \cup Run(ReservedWindow(machine.heapMarker))
                           /\ KindAt(map, f) = "Kernel"
        BY DEF ReservationsKeepNeighbours
    <2>1. machine \in Machines /\ Trail(machine, map, KernelFrames(machine) \cup Run(heap))
        BY DEF MemoryInv, MapTrail
    <2>2. f \in Int /\ KindAt(machine.map, f) # "None"
        BY <2>1, CoveredIs DEF Trail
    <2>3. TrailAt(machine, map, KernelFrames(machine) \cup Run(heap), f)
        BY <2>1, <2>2 DEF Trail
    <2>4. f \in Run(machine.framebuffer) <=> Holds(machine.framebuffer, f)
        BY <2>1, <2>2, MachineIs, RunIs
    <2> QED  BY <2>2, <2>3, <2>4 DEF TrailAt, KernelFrames
<1> QED  BY <1>1, MemoryInvariant, PTL


------------------------------------------------------------------------------
(* Page numbers.                                                           *)

\* A number is its quotient and its remainder.
LEMMA Division ==
    ASSUME NEW a \in Nat, NEW d \in Nat, d > 0
    PROVE  /\ a \div d \in Nat /\ a % d \in 0 .. d - 1 /\ a = d * (a \div d) + (a % d)
BY Z3

\* Only one quotient leaves a remainder below the divisor.
LEMMA QuotientIs ==
    ASSUME NEW a \in Nat, NEW d \in Nat, d > 0, NEW k \in Int, NEW r \in 0 .. d - 1,
           a = d * k + r
    PROVE  a \div d = k
<1>1. a \div d \in Nat /\ a % d \in 0 .. d - 1 /\ a = d * (a \div d) + (a % d)
    BY Division
<1> DEFINE q == a \div d
           s == a % d
<1>2. q \in Nat /\ s \in 0 .. d - 1 /\ d * q + s = d * k + r
    BY <1>1
<1> HIDE DEF q, s
<1>3. CASE q < k
    <2>1. d * q + d <= d * k
        BY <1>2, <1>3, Z3
    <2> QED  BY <1>2, <2>1
<1>4. CASE q > k
    <2>1. d * k + d <= d * q
        BY <1>2, <1>4, Z3
    <2> QED  BY <1>2, <2>1
<1> QED  BY <1>2, <1>3, <1>4 DEF q

\* Dividing twice is dividing by the product.
LEMMA DivideTwice ==
    ASSUME NEW a \in Nat, NEW b \in Nat, NEW c \in Nat, b > 0, c > 0
    PROVE  a \div (b * c) = (a \div b) \div c
<1> DEFINE p == a \div b
           q == p \div c
           r == a % b
           s == p % c
<1>1. p \in Nat /\ r \in 0 .. b - 1 /\ a = b * p + r
    BY Division
<1> HIDE DEF p, r
<1>2. q \in Nat /\ s \in 0 .. c - 1 /\ p = c * q + s
    BY <1>1, Division
<1> HIDE DEF q, s
<1>3. a = (b * c) * q + (b * s + r)
    BY <1>1, <1>2, Z3
<1>4. b * s + b <= b * c
    BY <1>2, Z3
<1>5. b * s + r \in 0 .. (b * c) - 1 /\ b * c \in Nat /\ b * c > 0
    BY <1>1, <1>2, <1>4, Z3
<1>6. a \div (b * c) = q
    BY <1>2, <1>3, <1>5, QuotientIs
<1> QED  BY <1>6 DEF p, q

\* the pages the properties are about
Page == {p \in 0 .. ADDRESS_PAGES - 1 : IsCanonical(p) /\ ~ InRecursiveWindow(p)}

Agree(p, q, level) == \A l \in 1 .. 4 : l > level => Index(p, l) = Index(q, l)


\* The four indices are the digits of a page number below TREE_PAGES.
LEMMA Digits ==
    ASSUME NEW p \in Nat
    PROVE  LET E == TABLE_ENTRIES IN
           /\ \A l \in 1 .. 4 : Index(p, l) \in 0 .. E - 1
           /\ p = TREE_PAGES * (p \div TREE_PAGES) + (E * E * E) * Index(p, 4)
                      + (E * E) * Index(p, 3) + E * Index(p, 2) + Index(p, 1)
           /\ p \div TREE_PAGES \in Nat
<1> DEFINE E == TABLE_ENTRIES
           p1 == p \div E
           p2 == p1 \div E
           p3 == p2 \div E
           p4 == p3 \div E
<1>1. E \in Nat /\ E > 1
    BY PagingAssumption
<1> HIDE DEF E
<1>2. E * E \in Nat /\ E * E > 0 /\ (E * E) * E \in Nat /\ (E * E) * E > 0
    BY <1>1, Z3
<1>3. p1 \in Nat /\ p % E \in 0 .. E - 1 /\ p = E * p1 + (p % E)
    BY <1>1, Division
<1>4. p2 \in Nat /\ p1 % E \in 0 .. E - 1 /\ p1 = E * p2 + (p1 % E)
    <2> HIDE DEF p1
    <2> QED  BY <1>1, <1>3, Division
<1>5. p3 \in Nat /\ p2 % E \in 0 .. E - 1 /\ p2 = E * p3 + (p2 % E)
    <2> HIDE DEF p2
    <2> QED  BY <1>1, <1>4, Division
<1>6. p4 \in Nat /\ p3 % E \in 0 .. E - 1 /\ p3 = E * p4 + (p3 % E)
    <2> HIDE DEF p3
    <2> QED  BY <1>1, <1>5, Division
<1>7. p \div (E * E) = p2
    BY <1>1, DivideTwice
<1>8. p \div ((E * E) * E) = p3
    BY <1>1, <1>2, <1>7, DivideTwice
<1>9. p \div (((E * E) * E) * E) = p4
    BY <1>1, <1>2, <1>8, DivideTwice
<1>10. p \div 1 = p
    OBVIOUS
<1>11. /\ Index(p, 1) = p % E
       /\ Index(p, 2) = p1 % E
       /\ Index(p, 3) = p2 % E
       /\ Index(p, 4) = p3 % E
    <2> HIDE DEF p2, p3
    <2>1. Span(1) = 1 /\ Span(2) = E /\ Span(3) = E * E /\ Span(4) = (E * E) * E
        BY DEF Span, E
    <2> QED  BY <1>7, <1>8, <1>10, <2>1 DEF Index, E
<1>12. TREE_PAGES = ((E * E) * E) * E
    BY DEF TREE_PAGES, E
<1>13. p \div TREE_PAGES = p4
    BY <1>9, <1>12
<1> DEFINE d1 == p % E
           d2 == p1 % E
           d3 == p2 % E
           d4 == p3 % E
<1>14. p = (((E * E) * E) * E) * p4 + ((E * E) * E) * d4 + (E * E) * d3 + E * d2 + d1
    <2>0. p1 \in Nat /\ p2 \in Nat /\ p3 \in Nat /\ p4 \in Nat
          /\ d1 \in Int /\ d2 \in Int /\ d3 \in Int /\ d4 \in Int
          /\ p = E * p1 + d1 /\ p1 = E * p2 + d2 /\ p2 = E * p3 + d3 /\ p3 = E * p4 + d4
        BY <1>3, <1>4, <1>5, <1>6
    <2> HIDE DEF p1, p2, p3, p4, d1, d2, d3, d4
    <2>1. p2 = (E * E) * p4 + E * d4 + d3
        BY <1>1, <2>0, Z3
    <2>2. p1 = ((E * E) * E) * p4 + (E * E) * d4 + E * d3 + d2
        BY <1>1, <2>0, <2>1, Z3
    <2> QED  BY <1>1, <2>0, <2>2, Z3
<1>15. \A l \in 1 .. 4 : Index(p, l) \in 0 .. E - 1
    <2>1. \A l \in 1 .. 4 : l = 1 \/ l = 2 \/ l = 3 \/ l = 4
        OBVIOUS
    <2> HIDE DEF p1, p2, p3
    <2> QED  BY <1>3, <1>4, <1>5, <1>6, <1>11, <2>1
<1>16. p = TREE_PAGES * (p \div TREE_PAGES) + ((E * E) * E) * Index(p, 4)
               + (E * E) * Index(p, 3) + E * Index(p, 2) + Index(p, 1)
    <2> HIDE DEF p1, p2, p3, p4
    <2> QED  BY <1>11, <1>12, <1>13, <1>14
<1> QED  BY <1>6, <1>13, <1>15, <1>16 DEF E

\* Two pages with the same indices are the same page: the canonical pages of one
\* half differ from each other, and from those of the other, in some index.
LEMMA SamePage ==
    ASSUME NEW p \in Page, NEW q \in Page, Agree(p, q, 0)
    PROVE  p = q
<1> DEFINE E == TABLE_ENTRIES
           M == TREE_PAGES
           A == ADDRESS_PAGES
           x == p \div M
           y == q \div M
           r == p % M
           H == M \div 2
           Z == A \div M
<1>1. E \in Nat /\ E > 1 /\ A \in Nat /\ A > 0 /\ A % M = 0
    BY PagingAssumption
<1>2. M \in Nat /\ M > 1
    <2> HIDE DEF E
    <2>1. E * E \in Nat /\ E * E > 1
        BY <1>1, Z3
    <2>2. E * E * E \in Nat /\ E * E * E > 1
        BY <1>1, <2>1, Z3
    <2>3. E * E * E * E \in Nat /\ E * E * E * E > 1
        BY <1>1, <2>2, Z3
    <2> QED  BY <2>3 DEF TREE_PAGES, E
<1>3. /\ p \in Nat /\ q \in Nat /\ p < A /\ q < A
      /\ p < H \/ p >= A - H
      /\ q < H \/ q >= A - H
    BY <1>1 DEF Page, IsCanonical
<1>4. \A l \in 1 .. 4 : Index(p, l) = Index(q, l)
    BY DEF Agree
<1>5. p - (M * x) = q - (M * y)
    <2> DEFINE i1 == Index(p, 1)
               i2 == Index(p, 2)
               i3 == Index(p, 3)
               i4 == Index(p, 4)
               low == (E * E * E) * i4 + (E * E) * i3 + E * i2 + i1
    <2>1. i1 \in Int /\ i2 \in Int /\ i3 \in Int /\ i4 \in Int /\ x \in Nat /\ y \in Nat
        BY <1>1, <1>3, Digits
    <2>2. p = M * x + (E * E * E) * i4 + (E * E) * i3 + E * i2 + i1
        BY <1>3, Digits
    <2>3. q = M * y + (E * E * E) * i4 + (E * E) * i3 + E * i2 + i1
        <3>1. q = M * y + (E * E * E) * Index(q, 4) + (E * E) * Index(q, 3)
                      + E * Index(q, 2) + Index(q, 1)
            BY <1>3, Digits
        <3>2. i1 = Index(q, 1) /\ i2 = Index(q, 2) /\ i3 = Index(q, 3) /\ i4 = Index(q, 4)
            BY <1>4
        <3> QED  BY <3>1, <3>2
    <2> DEFINE a == E * E * E
               b == E * E
               u == a * i4
               v == b * i3
               w == E * i2
               X == M * x
               Y == M * y
    <2>4. u \in Int /\ v \in Int /\ w \in Int /\ X \in Int /\ Y \in Int
        <3>1. a \in Int /\ b \in Int
            BY <1>1
        <3> HIDE DEF a, b, i1, i2, i3, i4, x, y, M, E
        <3> QED  BY <1>1, <1>2, <2>1, <3>1
    <2>5. p = X + u + v + w + i1 /\ q = Y + u + v + w + i1
        BY <2>2, <2>3
    <2> HIDE DEF u, v, w, X, Y, i1
    <2>6. p - X = q - Y
        BY <2>1, <2>4, <2>5
    <2> QED  BY <2>6 DEF X, Y
<1>6. /\ x \in Nat /\ p - (M * x) \in 0 .. M - 1
      /\ y \in Nat /\ q - (M * y) \in 0 .. M - 1
    <2>1. x \in Nat /\ p % M \in 0 .. M - 1 /\ p = M * x + (p % M)
        BY <1>2, <1>3, Division
    <2>2. y \in Nat /\ q % M \in 0 .. M - 1 /\ q = M * y + (q % M)
        BY <1>2, <1>3, Division
    <2> DEFINE X == M * x
               Y == M * y
    <2>3. X \in Int /\ Y \in Int
        <3> HIDE DEF x, y, M
        <3> QED  BY <1>2, <2>1, <2>2
    <2>4. p = X + (p % M) /\ q = Y + (q % M)
        BY <2>1, <2>2
    <2> HIDE DEF X, Y
    <2>5. p - X = p % M /\ q - Y = q % M
        BY <2>1, <2>2, <2>3, <2>4
    <2> QED  BY <2>1, <2>2, <2>5 DEF X, Y
<1>7. Z \in Nat /\ A = M * Z
    <2>1. Z \in Nat /\ A = M * Z + (A % M)
        BY <1>1, <1>2, Division
    <2> QED  BY <1>1, <1>2, <2>1
<1>8. H \in Nat /\ 2 * H <= M
    <2> HIDE DEF M
    <2> QED  BY <1>2
<1> HIDE DEF E, M, A, x, y, r, H, Z
<1>9. x < Z /\ y < Z /\ Z >= 1
    <2>1. M * x <= p /\ M * y <= q
        BY <1>2, <1>3, <1>6
    <2>2. M * x < M * Z /\ M * y < M * Z
        BY <1>2, <1>3, <1>6, <1>7, <2>1
    <2>3. ASSUME NEW k \in Nat, M * k < M * Z PROVE k < Z
        BY <1>2, <1>7, <2>3, Z3
    <2> QED  BY <1>6, <1>7, <2>2, <2>3
<1>10. ASSUME NEW s \in Nat, NEW k \in Nat, k < Z, s - (M * k) \in 0 .. M - 1
       PROVE  /\ s < H => k = 0
              /\ s >= A - H => k = Z - 1 /\ s - (M * k) >= M - H
    <2>1. s < H => k = 0
        <3> SUFFICES ASSUME s < H, k >= 1 PROVE FALSE
            OBVIOUS
        <3>1. M * k >= M
            BY <1>2, Z3
        <3> QED  BY <1>2, <1>8, <1>10, <3>1
    <2>2. s >= A - H => k = Z - 1
        <3> SUFFICES ASSUME s >= A - H, k < Z - 1 PROVE FALSE
            BY <1>7, <1>10
        <3>1. M * k + 2 * M <= M * Z
            <4>1. k + 2 <= Z
                BY <1>7
            <4> QED  BY <1>2, <1>7, <4>1, Z3
        <3> QED  BY <1>2, <1>7, <1>8, <1>10, <3>1
    <2>3. k = Z - 1 => M * k = A - M
        BY <1>2, <1>7, Z3
    <2>4. s >= A - H => s - (M * k) >= M - H
        BY <1>2, <1>7, <1>8, <1>10, <2>2, <2>3
    <2> QED  BY <2>1, <2>2, <2>4
<1>11. /\ p < H => x = 0
       /\ p >= A - H => x = Z - 1 /\ p - (M * x) >= M - H
       /\ q < H => y = 0
       /\ q >= A - H => y = Z - 1 /\ q - (M * y) >= M - H
    BY <1>3, <1>6, <1>9, <1>10
<1>12. x = y
    <2>1. CASE p < H /\ q < H
        BY <1>11, <2>1
    <2>2. CASE p >= A - H /\ q >= A - H
        BY <1>11, <2>2
    <2>3. CASE p < H /\ q >= A - H
        <3>1. x = 0 /\ M * x = 0 /\ q - (M * y) >= M - H
            BY <1>2, <1>11, <2>3
        <3>2. p - (M * x) = p
            BY <1>3, <3>1
        <3> QED  BY <1>3, <1>5, <1>8, <1>2, <2>3, <3>1, <3>2
    <2>4. CASE q < H /\ p >= A - H
        <3>1. y = 0 /\ M * y = 0 /\ p - (M * x) >= M - H
            BY <1>2, <1>11, <2>4
        <3>2. q - (M * y) = q
            BY <1>3, <3>1
        <3> QED  BY <1>3, <1>5, <1>8, <1>2, <2>4, <3>1, <3>2
    <2> QED  BY <1>3, <2>1, <2>2, <2>3, <2>4
<1>13. M * x \in Int
    BY <1>2, <1>6
<1> QED  BY <1>3, <1>5, <1>12, <1>13


------------------------------------------------------------------------------
(* The tree of tables.                                                     *)

Flags == TableRights \cup {"NO_CACHE", "NO_EXECUTE"}
Entry == [to : Nat, flags : SUBSET Flags]
Table == UNION {[used -> Entry] : used \in SUBSET (0 .. TABLE_ENTRIES - 1)}

\* the table a page's walk is in at a level, if it gets there
Node(T, p, level) ==
    CASE level = 4 -> Root
      [] level = 3 -> T[Root][Index(p, 4)].to
      [] level = 2 -> T[T[Root][Index(p, 4)].to][Index(p, 3)].to
      [] level = 1 -> T[T[T[Root][Index(p, 4)].to][Index(p, 3)].to][Index(p, 2)].to

UsedAt(T, p, level) == Index(p, level) \in DOMAIN T[Node(T, p, level)]
EntryAt(T, p, level) == T[Node(T, p, level)][Index(p, level)]

\* the walk gets down to a level, and to the page itself
Down(T, p, level) == \A l \in 1 .. 4 : l > level => UsedAt(T, p, l)
Maps(T, p) == Down(T, p, 0)
Leaf(T, p) == EntryAt(T, p, 1)

\* the levels above a page give the rights its entry gives
Wide(T, p) ==
    \A l \in 2 .. 4 : TableFlags(Leaf(T, p).flags) \subseteq EntryAt(T, p, l).flags

\* lv[t] is the level of table t and of[t] a page it was made for: a walk is in t
\* only with the indices of that page above t
Below(T, lv, of, t, i) ==
    LET c == T[t][i].to
    IN  /\ c \in 1 .. Len(T) /\ lv[c] = lv[t] - 1
        /\ Agree(of[c], of[t], lv[t]) /\ Index(of[c], lv[t]) = i
Shape(T, lv, of) ==
    /\ T \in Seq(Table) /\ Len(T) >= 1
    /\ lv \in [1 .. Len(T) -> 1 .. 4] /\ of \in [1 .. Len(T) -> Nat]
    /\ lv[Root] = 4
    /\ \A t \in 1 .. Len(T) : \A i \in DOMAIN T[t] :
           lv[t] > 1 /\ ~ (t = Root /\ i = RECURSIVE_INDEX) => Below(T, lv, of, t, i)
Tree(T) == \E lv, of : Shape(T, lv, of)

\* There are four levels.
LEMMA FourLevels ==
    /\ \A l \in 1 .. 4 : l = 1 \/ l = 2 \/ l = 3 \/ l = 4
    /\ \A l \in 2 .. 4 : l = 2 \/ l = 3 \/ l = 4
OBVIOUS

\* Each level is below the one above it.
LEMMA NodeIs ==
    ASSUME NEW T, NEW p
    PROVE  /\ Node(T, p, 4) = Root
           /\ Node(T, p, 3) = EntryAt(T, p, 4).to
           /\ Node(T, p, 2) = EntryAt(T, p, 3).to
           /\ Node(T, p, 1) = EntryAt(T, p, 2).to
BY DEF Node, EntryAt

\* What a table is.
LEMMA TableIs ==
    ASSUME NEW t \in Table
    PROVE  /\ DOMAIN t \subseteq 0 .. TABLE_ENTRIES - 1
           /\ \A i \in DOMAIN t :
                  /\ t[i] \in Entry /\ t[i].to \in Nat /\ t[i].flags \in SUBSET Flags
                  /\ t[i] = [to |-> t[i].to, flags |-> t[i].flags]
<1>1. PICK used \in SUBSET (0 .. TABLE_ENTRIES - 1) : t \in [used -> Entry]
    BY DEF Table
<1> QED  BY <1>1 DEF Entry

\* A function of entries is a table.
LEMMA MakesTable ==
    ASSUME NEW used \in SUBSET (0 .. TABLE_ENTRIES - 1), NEW t \in [used -> Entry]
    PROVE  t \in Table
BY DEF Table

\* t2 is t with one entry more, or another one
WithEntry(t2, t, i, to, flags) ==
    /\ t2 \in Table /\ DOMAIN t2 = DOMAIN t \cup {i}
    /\ t2[i] = [to |-> to, flags |-> flags]
    /\ \A j \in DOMAIN t : j # i => t2[j] = t[j]

\* Set makes such a table.
LEMMA SetIs ==
    ASSUME NEW t \in Table, NEW i \in 0 .. TABLE_ENTRIES - 1, NEW to \in Nat,
           NEW flags \in SUBSET Flags
    PROVE  WithEntry(Set(t, i, to, flags), t, i, to, flags)
<1>1. DOMAIN t \subseteq 0 .. TABLE_ENTRIES - 1 /\ \A j \in DOMAIN t : t[j] \in Entry
    BY TableIs
<1>2. Set(t, i, to, flags) = [j \in DOMAIN t \cup {i} |->
                                 IF j = i THEN [to |-> to, flags |-> flags] ELSE t[j]]
    BY DEF Set
<1>3. [to |-> to, flags |-> flags] \in Entry
    BY DEF Entry
<1>4. Set(t, i, to, flags) \in [DOMAIN t \cup {i} -> Entry]
    BY <1>1, <1>2, <1>3
<1>5. Set(t, i, to, flags) \in Table
    BY <1>1, <1>4, MakesTable
<1> QED  BY <1>2, <1>5 DEF WithEntry

\* One table of the storage replaced.
LEMMA ReplacedIs ==
    ASSUME NEW T \in Seq(Table), NEW at \in 1 .. Len(T), NEW new \in Table
    PROVE  LET T2 == [T EXCEPT ![at] = new]
           IN  /\ T2 \in Seq(Table) /\ Len(T2) = Len(T) /\ T2[at] = new
               /\ \A t \in 1 .. Len(T) : t # at => T2[t] = T[t]
<1> DEFINE T2 == [T EXCEPT ![at] = new]
<1>1. /\ T \in [1 .. Len(T) -> Table] /\ Len(T) \in Nat
    OBVIOUS
<1>2. T2 \in [1 .. Len(T) -> Table]
    BY <1>1
<1>3. T2 \in Seq(Table) /\ Len(T2) = Len(T)
    <2> HIDE DEF T2
    <2> QED  BY <1>1, <1>2
<1>4. T2[at] = new /\ \A t \in 1 .. Len(T) : t # at => T2[t] = T[t]
    BY <1>1
<1> QED  BY <1>3, <1>4

\* A table of the storage is one.
LEMMA StoredTable ==
    ASSUME NEW T \in Seq(Table), NEW t \in 1 .. Len(T)
    PROVE  T[t] \in Table
OBVIOUS

\* A walk stays at its levels, and only in tables made for its indices.
LEMMA NodeLevel ==
    ASSUME NEW T, NEW lv, NEW of, Shape(T, lv, of), NEW p \in Page,
           NEW level \in 0 .. 4, Down(T, p, level)
    PROVE  \A l \in 1 .. 4 : l >= level =>
               /\ Node(T, p, l) \in 1 .. Len(T) /\ lv[Node(T, p, l)] = l
               /\ Agree(of[Node(T, p, l)], p, l)
<1> DEFINE Good(l) == /\ Node(T, p, l) \in 1 .. Len(T) /\ lv[Node(T, p, l)] = l
                      /\ Agree(of[Node(T, p, l)], p, l)
<1>1. Good(4)
    <2>1. Node(T, p, 4) = Root /\ Root \in 1 .. Len(T) /\ lv[Root] = 4
        BY NodeIs DEF Shape, Root
    <2>2. Agree(of[Root], p, 4)
        BY DEF Agree
    <2> QED  BY <2>1, <2>2
<1>2. Index(p, 4) # RECURSIVE_INDEX
    BY DEF Page, InRecursiveWindow
<1>3. ASSUME NEW l \in 2 .. 4, l > level, Good(l), Node(T, p, l - 1) = EntryAt(T, p, l).to
      PROVE  Good(l - 1)
    <2> DEFINE t == Node(T, p, l)
               i == Index(p, l)
               c == Node(T, p, l - 1)
    <2>1. t \in 1 .. Len(T) /\ lv[t] = l /\ Agree(of[t], p, l)
        BY <1>3
    <2>2. i \in DOMAIN T[t] /\ c = T[t][i].to
        BY <1>3 DEF Down, UsedAt, EntryAt
    <2>3. ~ (t = Root /\ i = RECURSIVE_INDEX)
        <3>1. t = Root => l = 4
            BY <2>1 DEF Shape
        <3> QED  BY <1>2, <3>1
    <2> HIDE DEF t, i, c
    <2>4. Below(T, lv, of, t, i)
        BY <2>1, <2>2, <2>3 DEF Shape
    <2>5. c \in 1 .. Len(T) /\ lv[c] = l - 1 /\ Agree(of[c], of[t], l) /\ Index(of[c], l) = i
        BY <2>1, <2>2, <2>4 DEF Below
    <2>6. Agree(of[c], p, l - 1)
        <3> SUFFICES ASSUME NEW k \in 1 .. 4, k > l - 1
                     PROVE  Index(of[c], k) = Index(p, k)
            BY DEF Agree
        <3>1. CASE k = l
            BY <2>5, <3>1 DEF i
        <3>2. CASE k > l
            BY <2>1, <2>5, <3>2 DEF Agree
        <3> QED  BY <3>1, <3>2
    <2> QED  BY <2>5, <2>6 DEF c
<1> HIDE DEF Good
<1>4. 3 >= level => Good(3)
    <2> SUFFICES ASSUME 3 >= level PROVE Good(3)
        OBVIOUS
    <2>1. 4 \in 2 .. 4 /\ 4 > level /\ 4 - 1 = 3
        OBVIOUS
    <2> QED  BY <1>1, <1>3, <2>1, NodeIs
<1>5. 2 >= level => Good(2)
    <2> SUFFICES ASSUME 2 >= level PROVE Good(2)
        OBVIOUS
    <2>1. 3 \in 2 .. 4 /\ 3 > level /\ 3 - 1 = 2 /\ 3 >= level
        OBVIOUS
    <2> QED  BY <1>3, <1>4, <2>1, NodeIs
<1>6. 1 >= level => Good(1)
    <2> SUFFICES ASSUME 1 >= level PROVE Good(1)
        OBVIOUS
    <2>1. 2 \in 2 .. 4 /\ 2 > level /\ 2 - 1 = 1 /\ 2 >= level
        OBVIOUS
    <2> QED  BY <1>3, <1>5, <2>1, NodeIs
<1>7. \A l \in 1 .. 4 : l >= level => Good(l)
    BY <1>1, <1>4, <1>5, <1>6, FourLevels
<1> QED  BY <1>7 DEF Good


\* the entry a walk meets at a level leads on to the same place in T2
Leads(T, T2, p, l) ==
    /\ Index(p, l) \in DOMAIN T2[Node(T, p, l)]
    /\ T2[Node(T, p, l)][Index(p, l)].to = EntryAt(T, p, l).to

\* If the entries of a walk lead on to the same places, it is the same walk.
LEMMA SameWalk ==
    ASSUME NEW T, NEW T2, NEW p, NEW level \in 0 .. 4, Down(T, p, level),
           \A l \in 1 .. 4 : l > level => Leads(T, T2, p, l)
    PROVE  /\ Down(T2, p, level)
           /\ \A l \in 1 .. 4 : l >= level => Node(T2, p, l) = Node(T, p, l)
<1>1. Node(T2, p, 4) = Node(T, p, 4)
    BY NodeIs
<1>2. ASSUME NEW l \in 2 .. 4, l > level, Node(T2, p, l) = Node(T, p, l)
      PROVE  EntryAt(T2, p, l).to = EntryAt(T, p, l).to
    BY <1>2 DEF Leads, EntryAt
<1>3. 3 >= level => Node(T2, p, 3) = Node(T, p, 3)
    <2>1. 4 \in 2 .. 4 /\ (3 >= level => 4 > level)
        OBVIOUS
    <2> QED  BY <1>1, <1>2, <2>1, NodeIs
<1>4. 2 >= level => Node(T2, p, 2) = Node(T, p, 2)
    <2>1. 3 \in 2 .. 4 /\ (2 >= level => 3 > level /\ 3 >= level)
        OBVIOUS
    <2> QED  BY <1>2, <1>3, <2>1, NodeIs
<1>5. 1 >= level => Node(T2, p, 1) = Node(T, p, 1)
    <2>1. 2 \in 2 .. 4 /\ (1 >= level => 2 > level /\ 2 >= level)
        OBVIOUS
    <2> QED  BY <1>2, <1>4, <2>1, NodeIs
<1>6. \A l \in 1 .. 4 : l >= level => Node(T2, p, l) = Node(T, p, l)
    BY <1>1, <1>3, <1>4, <1>5, FourLevels
<1>7. \A l \in 1 .. 4 : l > level => l >= level
    OBVIOUS
<1>8. Down(T2, p, level)
    BY <1>6, <1>7 DEF Down, UsedAt, Leads
<1> QED  BY <1>6, <1>8

\* what the hardware finds for a page that is mapped before and after
Kept(T, T2, p) == Leaf(T2, p) = Leaf(T, p) /\ (Wide(T, p) => Wide(T2, p))

\* A walk whose entries only gain flags, and whose last entry stays, is kept.
LEMMA KeptWalk ==
    ASSUME NEW T, NEW T2, NEW p, Maps(T, p),
           \A l \in 1 .. 4 :
               /\ Leads(T, T2, p, l)
               /\ EntryAt(T, p, l).flags \subseteq T2[Node(T, p, l)][Index(p, l)].flags,
           T2[Node(T, p, 1)][Index(p, 1)] = EntryAt(T, p, 1)
    PROVE  Maps(T2, p) /\ Kept(T, T2, p)
<1>1. /\ Down(T2, p, 0)
      /\ \A l \in 1 .. 4 : Node(T2, p, l) = Node(T, p, l)
    <2>1. \A l \in 1 .. 4 : l >= 0
        OBVIOUS
    <2> QED  BY <2>1, SameWalk DEF Maps
<1>2. \A l \in 1 .. 4 : EntryAt(T, p, l).flags \subseteq EntryAt(T2, p, l).flags
    BY <1>1 DEF EntryAt
<1>3. Leaf(T2, p) = Leaf(T, p)
    <2>1. 1 \in 1 .. 4
        OBVIOUS
    <2> QED  BY <1>1, <2>1 DEF EntryAt, Leaf
<1>4. Wide(T, p) => Wide(T2, p)
    <2>1. \A l \in 2 .. 4 : l \in 1 .. 4
        OBVIOUS
    <2> QED  BY <1>2, <1>3, <2>1 DEF Wide
<1> QED  BY <1>1, <1>3, <1>4 DEF Maps, Kept

\* Tables that lead to the same tables have the same shape.
LEMMA ShapeKept ==
    ASSUME NEW T, NEW lv, NEW of, Shape(T, lv, of), NEW T2 \in Seq(Table), Len(T2) = Len(T),
           \A t \in 1 .. Len(T) : \A i \in DOMAIN T2[t] :
               lv[t] > 1 /\ ~ (t = Root /\ i = RECURSIVE_INDEX) =>
                   i \in DOMAIN T[t] /\ T2[t][i].to = T[t][i].to
    PROVE  Shape(T2, lv, of)
BY DEF Shape, Below

\* The crate's walk and ours.
LEMMA PathIs ==
    ASSUME NEW T, NEW p
    PROVE  /\ IsMapped(T, p) <=> Maps(T, p)
           /\ Maps(T, p) =>
                  Path(T, p) = <<EntryAt(T, p, 4), EntryAt(T, p, 3), EntryAt(T, p, 2), EntryAt(T, p, 1)>>
<1>1. Maps(T, p) <=> UsedAt(T, p, 4) /\ UsedAt(T, p, 3) /\ UsedAt(T, p, 2) /\ UsedAt(T, p, 1)
    <2>1. \A l \in 1 .. 4 : l > 0
        OBVIOUS
    <2>2. 1 \in 1 .. 4 /\ 2 \in 1 .. 4 /\ 3 \in 1 .. 4 /\ 4 \in 1 .. 4
        OBVIOUS
    <2> QED  BY <2>1, <2>2, FourLevels DEF Maps, Down
<1> DEFINE t3 == T[Root][Index(p, 4)].to
           t2 == T[t3][Index(p, 3)].to
           t1 == T[t2][Index(p, 2)].to
<1>2. Node(T, p, 4) = Root /\ Node(T, p, 3) = t3 /\ Node(T, p, 2) = t2 /\ Node(T, p, 1) = t1
    BY DEF Node
<1>3. Path(T, p) =
          IF ~ (Index(p, 4) \in DOMAIN T[Root]) THEN <<>>
          ELSE IF ~ (Index(p, 3) \in DOMAIN T[t3]) THEN <<>>
          ELSE IF ~ (Index(p, 2) \in DOMAIN T[t2]) THEN <<>>
          ELSE IF ~ (Index(p, 1) \in DOMAIN T[t1]) THEN <<>>
          ELSE <<T[Root][Index(p, 4)], T[t3][Index(p, 3)], T[t2][Index(p, 2)], T[t1][Index(p, 1)]>>
    BY DEF Path, Uses
<1> HIDE DEF t3, t2, t1
<1> DEFINE e == <<T[Root][Index(p, 4)], T[t3][Index(p, 3)], T[t2][Index(p, 2)], T[t1][Index(p, 1)]>>
<1>4. e # <<>>
    OBVIOUS
<1>5. Path(T, p) = IF Maps(T, p) THEN e ELSE <<>>
    BY <1>1, <1>2, <1>3 DEF UsedAt
<1>6. e = <<EntryAt(T, p, 4), EntryAt(T, p, 3), EntryAt(T, p, 2), EntryAt(T, p, 1)>>
    BY <1>2 DEF EntryAt
<1> HIDE DEF e
<1> QED  BY <1>4, <1>5, <1>6 DEF IsMapped

\* The pages the address space is made of.
LEMMA MappedIs ==
    ASSUME NEW T, Tree(T)
    PROVE  \A p : p \in MappedPages(T) <=> p \in Page /\ Maps(T, p)
<1>1. T \in Seq(Table) /\ Root \in 1 .. Len(T)
    BY DEF Tree, Shape, Root
<1>2. DOMAIN T[Root] \subseteq 0 .. TABLE_ENTRIES - 1
    BY <1>1, StoredTable, TableIs
<1>3. ASSUME NEW p, p \in MappedPages(T)
      PROVE  p \in Page /\ Maps(T, p)
    <2>1. PICK i \in DOMAIN T[Root] \ {RECURSIVE_INDEX} : p \in PagesBelow[i]
        BY <1>3 DEF MappedPages
    <2>2. p \in 0 .. ADDRESS_PAGES - 1 /\ IsCanonical(p) /\ Index(p, 4) = i
        BY <1>2, <2>1 DEF PagesBelow
    <2>3. p \in Page
        BY <2>1, <2>2 DEF Page, InRecursiveWindow
    <2> QED  BY <1>3, <2>3, PathIs DEF MappedPages
<1>4. ASSUME NEW p \in Page, Maps(T, p)
      PROVE  p \in MappedPages(T)
    <2>1. Index(p, 4) \in DOMAIN T[Root]
        <3>1. 4 \in 1 .. 4 /\ 4 > 0
            OBVIOUS
        <3> QED  BY <1>4, <3>1, NodeIs DEF Maps, Down, UsedAt
    <2>2. Index(p, 4) \in DOMAIN T[Root] \ {RECURSIVE_INDEX} /\ Index(p, 4) \in 0 .. TABLE_ENTRIES - 1
        BY <1>2, <2>1 DEF Page, InRecursiveWindow
    <2>3. p \in PagesBelow[Index(p, 4)]
        BY <2>2 DEF PagesBelow, Page
    <2>4. IsMapped(T, p)
        BY <1>4, PathIs
    <2> QED  BY <2>2, <2>3, <2>4 DEF MappedPages
<1> QED  BY <1>3, <1>4

\* If the tables above a page are as wide as its entry, it has the rights of its
\* entry.
LEMMA TranslationIs ==
    ASSUME NEW T, NEW p, Maps(T, p), Wide(T, p)
    PROVE  /\ Translation(T, p) = [frame |-> Leaf(T, p).to, rights |-> Leaf(T, p).flags]
           /\ LeafFlags(T, p) = Leaf(T, p).flags
<1> DEFINE path == Path(T, p)
           every == path[1].flags \cap path[2].flags \cap path[3].flags
<1>1. path = <<EntryAt(T, p, 4), EntryAt(T, p, 3), EntryAt(T, p, 2), EntryAt(T, p, 1)>>
    BY PathIs
<1> HIDE DEF path
<1>2. /\ path[1] = EntryAt(T, p, 4) /\ path[2] = EntryAt(T, p, 3)
      /\ path[3] = EntryAt(T, p, 2) /\ path[4] = Leaf(T, p)
    BY <1>1 DEF Leaf
<1>3. 2 \in 2 .. 4 /\ 3 \in 2 .. 4 /\ 4 \in 2 .. 4
    OBVIOUS
<1>4. Leaf(T, p).flags \cap TableRights \subseteq every
    BY <1>2, <1>3 DEF Wide, TableFlags
<1>5. {r \in path[4].flags : r \in TableRights => r \in every} = Leaf(T, p).flags
    <2> HIDE DEF every
    <2> QED  BY <1>2, <1>4
<1>6. Translation(T, p) =
          [frame |-> path[4].to,
           rights |-> {r \in path[4].flags : r \in TableRights => r \in every}]
    BY DEF Translation, path
<1>7. LeafFlags(T, p) = path[4].flags
    BY DEF LeafFlags, path
<1> QED  BY <1>2, <1>5, <1>6, <1>7


------------------------------------------------------------------------------
(* map_to, level by level.                                                 *)

\* the tables a walk has come through are as wide as the flags it asks for
WideTo(T, p, level, flags) ==
    \A l \in 1 .. 4 : l > level => TableFlags(flags) \subseteq EntryAt(T, p, l).flags

\* what the hardware finds for p is the same in T and T2
SameMap(T, T2, p) == (Maps(T2, p) <=> Maps(T, p)) /\ (Maps(T, p) => Kept(T, T2, p))

\* One level down.
LEMMA NodeBelow ==
    ASSUME NEW T, NEW p, NEW level \in 2 .. 4
    PROVE  Node(T, p, level - 1) = EntryAt(T, p, level).to
<1>1. 4 - 1 = 3 /\ 3 - 1 = 2 /\ 2 - 1 = 1
    OBVIOUS
<1> QED  BY <1>1, NodeIs, FourLevels

\* entry i of table at has more flags
Widened(T, T2, at, i, more) ==
    /\ T2 \in Seq(Table) /\ Len(T2) = Len(T)
    /\ \A t \in 1 .. Len(T) : DOMAIN T2[t] = DOMAIN T[t]
    /\ \A t \in 1 .. Len(T) : \A j \in DOMAIN T[t] :
           T2[t][j] = IF t = at /\ j = i
                      THEN [to |-> T[t][j].to, flags |-> T[t][j].flags \cup more] ELSE T[t][j]

\* An existing table that is given flags changes nothing the hardware finds.
LEMMA WidenedIs ==
    ASSUME NEW T, Tree(T), NEW p \in Page, NEW level \in 2 .. 4, NEW flags,
           Down(T, p, level - 1), WideTo(T, p, level, flags), NEW T2,
           Widened(T, T2, Node(T, p, level), Index(p, level), TableFlags(flags))
    PROVE  /\ Tree(T2)
           /\ \A q \in Page : SameMap(T, T2, q)
           /\ Down(T2, p, level - 1) /\ WideTo(T2, p, level - 1, flags)
           /\ Node(T2, p, level - 1) = Node(T, p, level - 1)
<1> DEFINE at == Node(T, p, level)
           i == Index(p, level)
           more == TableFlags(flags)
<1>1. PICK lv, of : Shape(T, lv, of)
    BY DEF Tree
<1>0. level - 1 \in 0 .. 4
    OBVIOUS
<1>2. \A l \in 1 .. 4 : l >= level - 1 => Node(T, p, l) \in 1 .. Len(T) /\ lv[Node(T, p, l)] = l
    BY <1>0, <1>1, NodeLevel
<1>3. at \in 1 .. Len(T) /\ lv[at] = level
    BY <1>2
<1>4. /\ T2 \in Seq(Table) /\ Len(T2) = Len(T)
      /\ \A t \in 1 .. Len(T) : DOMAIN T2[t] = DOMAIN T[t]
      /\ \A t \in 1 .. Len(T) : \A j \in DOMAIN T[t] :
             /\ T2[t][j].to = T[t][j].to
             /\ T[t][j].flags \subseteq T2[t][j].flags
             /\ t # at => T2[t][j] = T[t][j]
    <2>1. Widened(T, T2, at, i, more)
        OBVIOUS
    <2> HIDE DEF at, i, more
    <2>2. ASSUME NEW t \in 1 .. Len(T), NEW j \in DOMAIN T[t]
          PROVE  /\ T2[t][j].to = T[t][j].to
                 /\ T[t][j].flags \subseteq T2[t][j].flags
                 /\ t # at => T2[t][j] = T[t][j]
        <3>1. T2[t][j] = IF t = at /\ j = i
                         THEN [to |-> T[t][j].to, flags |-> T[t][j].flags \cup more] ELSE T[t][j]
            BY <2>1 DEF Widened
        <3> QED  BY <3>1
    <2> QED  BY <2>1, <2>2 DEF Widened
<1>5. Shape(T2, lv, of)
    BY <1>1, <1>4, ShapeKept
<1>6. ASSUME NEW q \in Page, Maps(T, q)
      PROVE  Maps(T2, q) /\ Kept(T, T2, q)
    <2>1. \A l \in 1 .. 4 : Node(T, q, l) \in 1 .. Len(T) /\ lv[Node(T, q, l)] = l
        <3>1. \A l \in 1 .. 4 : l >= 0
            OBVIOUS
        <3> QED  BY <1>1, <1>6, <3>1, NodeLevel, SMTT(30) DEF Maps
    <2>2. \A l \in 1 .. 4 : Index(q, l) \in DOMAIN T[Node(T, q, l)]
        <3>1. \A l \in 1 .. 4 : l > 0
            OBVIOUS
        <3> QED  BY <1>6, <3>1 DEF Maps, Down, UsedAt
    <2> HIDE DEF at
    <2>3. \A l \in 1 .. 4 :
              /\ Leads(T, T2, q, l)
              /\ EntryAt(T, q, l).flags \subseteq T2[Node(T, q, l)][Index(q, l)].flags
        BY <1>4, <2>1, <2>2 DEF Leads, EntryAt
    <2>4. T2[Node(T, q, 1)][Index(q, 1)] = EntryAt(T, q, 1)
        <3>1. 1 \in 1 .. 4 /\ level # 1
            OBVIOUS
        <3>2. Node(T, q, 1) # at
            BY <1>3, <2>1, <3>1
        <3> QED  BY <1>4, <2>1, <2>2, <3>1, <3>2 DEF EntryAt
    <2> QED  BY <1>6, <2>3, <2>4, KeptWalk
<1>7. ASSUME NEW q \in Page, Maps(T2, q)
      PROVE  Maps(T, q)
    <2>1. \A l \in 1 .. 4 : Node(T2, q, l) \in 1 .. Len(T)
        <3>1. \A l \in 1 .. 4 : l >= 0
            OBVIOUS
        <3> QED  BY <1>4, <1>5, <1>7, <3>1, NodeLevel DEF Maps
    <2>2. \A l \in 1 .. 4 : Index(q, l) \in DOMAIN T2[Node(T2, q, l)]
        <3>1. \A l \in 1 .. 4 : l > 0
            OBVIOUS
        <3> QED  BY <1>7, <3>1 DEF Maps, Down, UsedAt
    <2>3. \A l \in 1 .. 4 : Leads(T2, T, q, l)
        BY <1>4, <2>1, <2>2 DEF Leads, EntryAt
    <2> QED  BY <1>7, <2>3, SameWalk DEF Maps
<1>8. \A l \in 1 .. 4 : l > level - 1 => l >= level - 1 /\ Index(p, l) \in DOMAIN T[Node(T, p, l)]
    BY DEF Down, UsedAt
<1>9. /\ Down(T2, p, level - 1)
      /\ \A l \in 1 .. 4 : l >= level - 1 => Node(T2, p, l) = Node(T, p, l)
    <2>1. \A l \in 1 .. 4 : l > level - 1 => Leads(T, T2, p, l)
        BY <1>2, <1>4, <1>8 DEF Leads, EntryAt
    <2> QED  BY <1>0, <2>1, SameWalk
<1>10. WideTo(T2, p, level - 1, flags)
    <2> SUFFICES ASSUME NEW l \in 1 .. 4, l > level - 1
                 PROVE  more \subseteq EntryAt(T2, p, l).flags
        BY DEF WideTo
    <2>1. /\ Node(T2, p, l) = Node(T, p, l) /\ Node(T, p, l) \in 1 .. Len(T)
          /\ Index(p, l) \in DOMAIN T[Node(T, p, l)]
        BY <1>2, <1>8, <1>9
    <2>2. CASE l = level
        <3>1. T2[at][i] = [to |-> T[at][i].to, flags |-> T[at][i].flags \cup more]
            BY <2>1, <2>2 DEF Widened
        <3> QED  BY <2>1, <2>2, <3>1 DEF EntryAt
    <2>3. CASE l > level
        <3>1. more \subseteq EntryAt(T, p, l).flags
            BY <2>3 DEF WideTo
        <3> QED  BY <1>4, <2>1, <3>1 DEF EntryAt
    <2> QED  BY <2>2, <2>3
<1>11. Node(T2, p, level - 1) = Node(T, p, level - 1)
    <2>1. level - 1 \in 1 .. 4 /\ level - 1 >= level - 1
        OBVIOUS
    <2> QED  BY <1>9, <2>1
<1>12. \A q \in Page : SameMap(T, T2, q)
    BY <1>6, <1>7 DEF SameMap
<1> QED  BY <1>5, <1>9, <1>10, <1>11, <1>12 DEF Tree

\* entry i of table at, unused before, leads to a new and empty table
Extended(T, T2, at, i, more) ==
    /\ T2 \in Seq(Table) /\ Len(T2) = Len(T) + 1 /\ DOMAIN T2[Len(T) + 1] = {}
    /\ i \notin DOMAIN T[at]
    /\ \A t \in 1 .. Len(T) :
           DOMAIN T2[t] = IF t = at THEN DOMAIN T[t] \cup {i} ELSE DOMAIN T[t]
    /\ \A t \in 1 .. Len(T) : \A j \in DOMAIN T[t] : T2[t][j] = T[t][j]
    /\ T2[at][i] = [to |-> Len(T) + 1, flags |-> more]

\* A new table changes nothing the hardware finds: no walk came this way, and
\* none gets further.
LEMMA ExtendedIs ==
    ASSUME NEW T, Tree(T), NEW p \in Page, NEW level \in 2 .. 4, NEW flags,
           Down(T, p, level), WideTo(T, p, level, flags), NEW T2,
           Extended(T, T2, Node(T, p, level), Index(p, level), TableFlags(flags))
    PROVE  /\ Tree(T2)
           /\ \A q \in Page : SameMap(T, T2, q)
           /\ Down(T2, p, level - 1) /\ WideTo(T2, p, level - 1, flags)
           /\ Node(T2, p, level - 1) = Len(T) + 1
<1> DEFINE at == Node(T, p, level)
           i == Index(p, level)
           more == TableFlags(flags)
           n == Len(T)
           new == n + 1
<1>1. PICK lv, of : Shape(T, lv, of)
    BY DEF Tree
<1>0. /\ n \in Nat /\ new \in 1 .. Len(T2) /\ \A t \in 1 .. n : t \in 1 .. Len(T2) /\ t # new
      /\ \A t \in 1 .. Len(T2) : t \in 1 .. n \/ t = new
    <2>1. n \in Nat
        BY <1>1 DEF Shape
    <2> QED  BY <2>1 DEF Extended
<1>2. /\ level \in 0 .. 4 /\ level \in 1 .. 4 /\ p \in Nat
      /\ \A l \in 1 .. 4 : l >= level =>
             /\ Node(T, p, l) \in 1 .. n /\ lv[Node(T, p, l)] = l
             /\ Agree(of[Node(T, p, l)], p, l)
    <2>1. level \in 0 .. 4 /\ level \in 1 .. 4
        OBVIOUS
    <2>2. p \in Nat
        BY PagingAssumption DEF Page
    <2> QED  BY <1>1, <2>1, <2>2, NodeLevel
<1>3. at \in 1 .. n /\ lv[at] = level /\ Agree(of[at], p, level)
    BY <1>2
<1>4. /\ T2 \in Seq(Table) /\ Len(T2) = new /\ DOMAIN T2[new] = {}
      /\ i \notin DOMAIN T[at] /\ i \in DOMAIN T2[at]
      /\ \A t \in 1 .. n : \A j \in DOMAIN T2[t] : j \in DOMAIN T[t] \/ (t = at /\ j = i)
      /\ \A t \in 1 .. n : \A j \in DOMAIN T[t] : j \in DOMAIN T2[t] /\ T2[t][j] = T[t][j]
      /\ T2[at][i].to = new /\ T2[at][i].flags = more
    <2>1. Extended(T, T2, at, i, more)
        OBVIOUS
    <2> HIDE DEF at, i, more
    <2>2. /\ T2 \in Seq(Table) /\ Len(T2) = new /\ DOMAIN T2[new] = {} /\ i \notin DOMAIN T[at]
          /\ \A t \in 1 .. n :
                 DOMAIN T2[t] = IF t = at THEN DOMAIN T[t] \cup {i} ELSE DOMAIN T[t]
          /\ \A t \in 1 .. n : \A j \in DOMAIN T[t] : T2[t][j] = T[t][j]
          /\ T2[at][i] = [to |-> new, flags |-> more]
        BY <2>1 DEF Extended
    <2>3. T2[at][i].to = new /\ T2[at][i].flags = more
        BY <2>2
    <2>4. i \in DOMAIN T2[at]
        BY <1>3, <2>2
    <2> HIDE DEF n, new
    <2> QED  BY <2>2, <2>3, <2>4
<1> HIDE DEF n, new, at, i, more
<1> DEFINE lv2 == [t \in 1 .. new |-> IF t = new THEN level - 1 ELSE lv[t]]
           of2 == [t \in 1 .. new |-> IF t = new THEN p ELSE of[t]]
<1>5. Shape(T2, lv2, of2)
    <2>1. /\ Len(T2) >= 1 /\ lv[Root] = 4 /\ Root \in 1 .. n
          /\ lv \in [1 .. n -> 1 .. 4] /\ of \in [1 .. n -> Nat]
        BY <1>0, <1>1 DEF Shape, Root, n
    <2>2. /\ new \in 1 .. new /\ \A t \in 1 .. n : t \in 1 .. new /\ t # new
          /\ \A t \in 1 .. new : t \in 1 .. n \/ t = new
        BY <1>0, <1>4
    <2>3. /\ \A t \in 1 .. n : lv2[t] = lv[t] /\ of2[t] = of[t]
          /\ lv2[new] = level - 1 /\ of2[new] = p
        BY <2>2
    <2>4. lv2 \in [1 .. new -> 1 .. 4] /\ of2 \in [1 .. new -> Nat]
        <3>1. level - 1 \in 1 .. 4
            OBVIOUS
        <3>2. \A t \in 1 .. new : (IF t = new THEN level - 1 ELSE lv[t]) \in 1 .. 4
            BY <2>1, <2>2, <3>1
        <3>3. \A t \in 1 .. new : (IF t = new THEN p ELSE of[t]) \in Nat
            BY <1>2, <2>1, <2>2
        <3> QED  BY <3>2, <3>3
    <2> HIDE DEF lv2, of2
    <2>5. ASSUME NEW t \in 1 .. new, NEW j \in DOMAIN T2[t],
                 lv2[t] > 1, ~ (t = Root /\ j = RECURSIVE_INDEX)
          PROVE  Below(T2, lv2, of2, t, j)
        <3>1. t \in 1 .. n
            BY <1>4, <2>2
        <3>2. CASE j \in DOMAIN T[t]
            <4>1. Below(T, lv, of, t, j)
                BY <1>1, <2>3, <2>5, <3>1, <3>2 DEF Shape, n
            <4> DEFINE c == T[t][j].to
            <4>2. /\ c \in 1 .. n /\ lv[c] = lv[t] - 1
                  /\ Agree(of[c], of[t], lv[t]) /\ Index(of[c], lv[t]) = j
                BY <4>1 DEF Below, n
            <4>3. T2[t][j].to = c
                BY <1>4, <3>1, <3>2
            <4> HIDE DEF c
            <4>4. c \in 1 .. Len(T2) /\ lv2[c] = lv[c] /\ of2[c] = of[c] /\ lv2[t] = lv[t] /\ of2[t] = of[t]
                BY <1>0, <2>3, <3>1, <4>2
            <4> QED  BY <4>2, <4>3, <4>4 DEF Below
        <3>3. CASE t = at /\ j = i
            <4>1. T2[t][j].to = new /\ lv2[t] = level /\ of2[t] = of[at]
                BY <1>3, <1>4, <2>3, <3>3
            <4>2. Agree(p, of[at], level) /\ Index(p, level) = j
                BY <1>3, <3>3 DEF Agree, i
            <4>3. new \in 1 .. Len(T2)
                BY <1>0
            <4> QED  BY <2>3, <4>1, <4>2, <4>3 DEF Below
        <3> QED  BY <1>4, <3>1, <3>2, <3>3
    <2>6. \A t \in 1 .. Len(T2) : \A j \in DOMAIN T2[t] :
              lv2[t] > 1 /\ ~ (t = Root /\ j = RECURSIVE_INDEX) => Below(T2, lv2, of2, t, j)
        BY <1>4, <2>5
    <2>7. lv2[Root] = 4
        BY <2>1, <2>3
    <2> QED  BY <1>4, <2>1, <2>4, <2>6, <2>7 DEF Shape
<1>6. ASSUME NEW q \in Page, Maps(T, q)
      PROVE  Maps(T2, q) /\ Kept(T, T2, q)
    <2>1. \A l \in 1 .. 4 : Node(T, q, l) \in 1 .. n
        <3>1. \A l \in 1 .. 4 : l >= 0
            OBVIOUS
        <3> QED  BY <1>1, <1>6, <3>1, NodeLevel DEF Maps, n
    <2>2. \A l \in 1 .. 4 : Index(q, l) \in DOMAIN T[Node(T, q, l)]
        <3>1. \A l \in 1 .. 4 : l > 0
            OBVIOUS
        <3> QED  BY <1>6, <3>1 DEF Maps, Down, UsedAt
    <2>3. \A l \in 1 .. 4 : /\ Index(q, l) \in DOMAIN T2[Node(T, q, l)]
                            /\ T2[Node(T, q, l)][Index(q, l)] = EntryAt(T, q, l)
        BY <1>4, <2>1, <2>2 DEF EntryAt
    <2>4. \A l \in 1 .. 4 :
              /\ Leads(T, T2, q, l)
              /\ EntryAt(T, q, l).flags \subseteq T2[Node(T, q, l)][Index(q, l)].flags
        BY <2>3 DEF Leads
    <2>5. T2[Node(T, q, 1)][Index(q, 1)] = EntryAt(T, q, 1)
        <3>1. 1 \in 1 .. 4
            OBVIOUS
        <3> QED  BY <2>3, <3>1
    <2> QED  BY <1>6, <2>4, <2>5, KeptWalk
<1>7. ASSUME NEW q \in Page, Maps(T2, q)
      PROVE  Maps(T, q)
    <2>1. \A l \in 1 .. 4 : Node(T2, q, l) \in 1 .. Len(T2) /\ lv2[Node(T2, q, l)] = l
        <3>1. \A l \in 1 .. 4 : l >= 0
            OBVIOUS
        <3> HIDE DEF lv2, of2
        <3> QED  BY <1>5, <1>7, <3>1, NodeLevel DEF Maps
    <2>2. \A l \in 1 .. 4 : Index(q, l) \in DOMAIN T2[Node(T2, q, l)]
        <3>1. \A l \in 1 .. 4 : l > 0
            OBVIOUS
        <3> QED  BY <1>7, <3>1 DEF Maps, Down, UsedAt
    <2>3. \A l \in 1 .. 4 : Node(T2, q, l) \in 1 .. n
        BY <1>0, <1>4, <2>1, <2>2
    <2>4. lv2[at] = level
        BY <1>0, <1>3, <1>4
    <2> HIDE DEF lv2, of2
    <2>5. ASSUME NEW l \in 1 .. 4, Node(T2, q, l) = at, Index(q, l) = i
          PROVE  FALSE
        <3>1. l = level
            BY <2>1, <2>4, <2>5
        <3>2. Node(T2, q, l - 1) = new /\ l - 1 \in 1 .. 4
            <4>1. Node(T2, q, l - 1) = EntryAt(T2, q, l).to
                BY <3>1, NodeBelow
            <4> QED  BY <1>4, <2>5, <3>1, <4>1 DEF EntryAt
        <3> QED  BY <1>0, <2>3, <3>2
    <2>6. \A l \in 1 .. 4 : Index(q, l) \in DOMAIN T[Node(T2, q, l)]
        BY <1>4, <2>2, <2>3, <2>5
    <2>7. \A l \in 1 .. 4 : Leads(T2, T, q, l)
        BY <1>4, <2>3, <2>6 DEF Leads, EntryAt
    <2> QED  BY <1>7, <2>7, SameWalk DEF Maps
<1>8. \A l \in 1 .. 4 : l > level =>
          l >= level /\ Index(p, l) \in DOMAIN T[Node(T, p, l)]
    BY DEF Down, UsedAt
<1>9. /\ Down(T2, p, level)
      /\ \A l \in 1 .. 4 : l >= level => Node(T2, p, l) = Node(T, p, l)
    <2>1. \A l \in 1 .. 4 : l > level => Leads(T, T2, p, l)
        BY <1>2, <1>4, <1>8 DEF Leads, EntryAt
    <2> QED  BY <1>2, <2>1, SameWalk
<1>10. Node(T2, p, level) = at /\ EntryAt(T2, p, level) = T2[at][i]
    BY <1>2, <1>9 DEF at, i, EntryAt
<1>11. Node(T2, p, level - 1) = new
    BY <1>4, <1>10, NodeBelow
<1>12. ASSUME NEW l \in 1 .. 4, l > level - 1
       PROVE  UsedAt(T2, p, l) /\ more \subseteq EntryAt(T2, p, l).flags
    <2>1. CASE l = level
        <3>1. UsedAt(T2, p, l)
            BY <1>4, <1>10, <2>1 DEF UsedAt, i
        <3> QED  BY <1>4, <1>10, <2>1, <3>1
    <2>2. CASE l > level
        <3>1. /\ UsedAt(T2, p, l) /\ Node(T2, p, l) = Node(T, p, l) /\ Node(T, p, l) \in 1 .. n
              /\ Index(p, l) \in DOMAIN T[Node(T, p, l)] /\ more \subseteq EntryAt(T, p, l).flags
            <4>1. l >= level /\ Index(p, l) \in DOMAIN T[Node(T, p, l)]
                BY <1>8, <2>2
            <4>2. UsedAt(T2, p, l) /\ Node(T2, p, l) = Node(T, p, l) /\ Node(T, p, l) \in 1 .. n
                BY <1>2, <1>9, <2>2, <4>1 DEF Down
            <4>3. more \subseteq EntryAt(T, p, l).flags
                BY <2>2 DEF WideTo, more
            <4> QED  BY <4>1, <4>2, <4>3
        <3>2. T2[Node(T, p, l)][Index(p, l)] = EntryAt(T, p, l)
            BY <1>4, <3>1 DEF EntryAt
        <3>3. EntryAt(T2, p, l) = EntryAt(T, p, l)
            BY <3>1, <3>2 DEF EntryAt
        <3> QED  BY <3>1, <3>3
    <2> QED  BY <1>12, <2>1, <2>2
<1>13. Down(T2, p, level - 1) /\ WideTo(T2, p, level - 1, flags)
    BY <1>12 DEF Down, WideTo, more
<1>14. \A q \in Page : SameMap(T, T2, q)
    BY <1>6, <1>7 DEF SameMap
<1>15. Tree(T2)
    <2> HIDE DEF lv2, of2
    <2> QED  BY <1>5 DEF Tree
<1> QED  BY <1>11, <1>13, <1>14, <1>15 DEF new, n


\* What is the same twice is the same.
LEMMA SameMapTwice ==
    ASSUME NEW T, NEW T1, NEW T2, NEW p, SameMap(T, T1, p), SameMap(T1, T2, p)
    PROVE  SameMap(T, T2, p)
BY DEF SameMap, Kept

\* where the walk for p is that started in T0: down to a level, or out of tables
Walked(T0, w, p, level, flags) ==
    /\ w = [tables |-> w.tables, at |-> w.at, error |-> w.error]
    /\ Tree(w.tables) /\ \A q \in Page : SameMap(T0, w.tables, q)
    /\ \/ w.error = "NoPageTable"
       \/ /\ w.error = "None" /\ w.at = Node(w.tables, p, level)
          /\ Down(w.tables, p, level) /\ WideTo(w.tables, p, level, flags)

\* The flags of one entry of the storage.
LEMMA WidenEntry ==
    ASSUME NEW T \in Seq(Table), NEW at \in 1 .. Len(T), NEW i \in DOMAIN T[at],
           NEW more \in SUBSET Flags
    PROVE  Widened(T, [T EXCEPT ![at][i].flags = @ \cup more], at, i, more)
<1> DEFINE e == [to |-> T[at][i].to, flags |-> T[at][i].flags \cup more]
           t2 == [T[at] EXCEPT ![i] = e]
           T2 == [T EXCEPT ![at] = t2]
<1>1. T[at] \in Table
    BY StoredTable
<1>2. /\ DOMAIN T[at] \subseteq 0 .. TABLE_ENTRIES - 1
      /\ \A j \in DOMAIN T[at] :
             /\ T[at][j] \in Entry /\ T[at][j].to \in Nat /\ T[at][j].flags \in SUBSET Flags
             /\ T[at][j] = [to |-> T[at][j].to, flags |-> T[at][j].flags]
    BY <1>1, TableIs
<1>3. e \in Entry
    BY <1>2 DEF Entry
<1>4. e = [T[at][i] EXCEPT !.flags = @ \cup more]
    <2> DEFINE old == T[at][i]
               e2 == [old EXCEPT !.flags = @ \cup more]
    <2>1. old \in [to : Nat, flags : SUBSET Flags]
        BY <1>2 DEF Entry
    <2> HIDE DEF old
    <2>2. e2 \in [to : Nat, flags : SUBSET Flags] /\ e2.to = old.to /\ e2.flags = old.flags \cup more
        BY <2>1
    <2> HIDE DEF e2
    <2>3. e2 = [to |-> e2.to, flags |-> e2.flags]
        BY <2>2
    <2>4. e2 = [to |-> old.to, flags |-> old.flags \cup more]
        BY <2>2, <2>3
    <2> QED  BY <2>4 DEF old, e2
<1>5. [T EXCEPT ![at][i].flags = @ \cup more] = T2
    BY <1>4
<1> HIDE DEF e
<1>6. DOMAIN t2 = DOMAIN T[at] /\ t2[i] = e /\ \A j \in DOMAIN T[at] : j # i => t2[j] = T[at][j]
    OBVIOUS
<1>7. t2 \in Table
    <2>1. t2 \in [DOMAIN T[at] -> Entry]
        BY <1>2, <1>3
    <2> QED  BY <1>2, <2>1, MakesTable
<1> HIDE DEF t2
<1>8. /\ T2 \in Seq(Table) /\ Len(T2) = Len(T) /\ T2[at] = t2
      /\ \A t \in 1 .. Len(T) : t # at => T2[t] = T[t]
    BY <1>7, ReplacedIs
<1> HIDE DEF T2
<1>9. \A t \in 1 .. Len(T) : DOMAIN T2[t] = DOMAIN T[t]
    BY <1>6, <1>8
<1>10. ASSUME NEW t \in 1 .. Len(T), NEW j \in DOMAIN T[t]
       PROVE  T2[t][j] = IF t = at /\ j = i
                         THEN [to |-> T[t][j].to, flags |-> T[t][j].flags \cup more] ELSE T[t][j]
    <2>1. CASE t = at /\ j = i
        BY <1>6, <1>8, <2>1 DEF e
    <2>2. CASE ~ (t = at /\ j = i)
        BY <1>6, <1>8, <2>2
    <2> QED  BY <2>1, <2>2
<1>11. Widened(T, T2, at, i, more)
    BY <1>8, <1>9, <1>10 DEF Widened
<1> QED  BY <1>5, <1>11

\* The next table of the arena.
LEMMA ExtendStorage ==
    ASSUME NEW T \in Seq(Table), NEW at \in 1 .. Len(T), NEW i \in 0 .. TABLE_ENTRIES - 1,
           i \notin DOMAIN T[at], NEW more \in SUBSET Flags
    PROVE  Extended(T, Append([T EXCEPT ![at] = Set(T[at], i, Len(T) + 1, more)], NewTable),
                    at, i, more)
<1> DEFINE s == Set(T[at], i, Len(T) + 1, more)
           T1 == [T EXCEPT ![at] = s]
           T2 == Append(T1, NewTable)
<1>1. T[at] \in Table /\ Len(T) \in Nat /\ Len(T) + 1 \in Nat
    BY StoredTable
<1>2. /\ s \in Table /\ DOMAIN s = DOMAIN T[at] \cup {i}
      /\ s[i] = [to |-> Len(T) + 1, flags |-> more]
      /\ \A j \in DOMAIN T[at] : j # i => s[j] = T[at][j]
    <2>1. WithEntry(s, T[at], i, Len(T) + 1, more)
        BY <1>1, SetIs
    <2> HIDE DEF s
    <2> QED  BY <2>1 DEF WithEntry
<1> HIDE DEF s
<1>3. /\ T1 \in Seq(Table) /\ Len(T1) = Len(T) /\ T1[at] = s
      /\ \A t \in 1 .. Len(T) : t # at => T1[t] = T[t]
    BY <1>2, ReplacedIs
<1> HIDE DEF T1
<1>4. NewTable \in Table /\ DOMAIN NewTable = {}
    <2>1. NewTable \in [{} -> Entry] /\ DOMAIN NewTable = {}
        BY DEF NewTable
    <2>2. {} \in SUBSET (0 .. TABLE_ENTRIES - 1)
        OBVIOUS
    <2> QED  BY <2>1, <2>2, MakesTable
<1>5. /\ T2 \in Seq(Table) /\ Len(T2) = Len(T) + 1 /\ T2[Len(T) + 1] = NewTable
      /\ \A t \in 1 .. Len(T) : T2[t] = T1[t]
    <2> HIDE DEF NewTable
    <2> QED  BY <1>3, <1>4
<1> HIDE DEF T2
<1>6. \A t \in 1 .. Len(T) :
          DOMAIN T2[t] = IF t = at THEN DOMAIN T[t] \cup {i} ELSE DOMAIN T[t]
    BY <1>2, <1>3, <1>5
<1>7. ASSUME NEW t \in 1 .. Len(T), NEW j \in DOMAIN T[t]
      PROVE  T2[t][j] = T[t][j]
    <2>1. CASE t = at
        <3>1. j # i
            BY <2>1
        <3> QED  BY <1>2, <1>3, <1>5, <2>1, <3>1
    <2>2. CASE t # at
        BY <1>3, <1>5, <2>2
    <2> QED  BY <2>1, <2>2
<1>8. T2[at][i] = [to |-> Len(T) + 1, flags |-> more]
    BY <1>2, <1>3, <1>5
<1>9. DOMAIN T2[Len(T) + 1] = {}
    BY <1>4, <1>5
<1>10. Extended(T, T2, at, i, more)
    BY <1>5, <1>6, <1>7, <1>8, <1>9 DEF Extended
<1> QED  BY <1>10 DEF T2, T1, s

\* One level of map_to.
LEMMA NextTableWalks ==
    ASSUME NEW T0, NEW w, NEW p \in Page, NEW level \in 2 .. 4, NEW flags \in SUBSET Flags,
           Walked(T0, w, p, level, flags)
    PROVE  Walked(T0, NextTable(w, Index(p, level), flags), p, level - 1, flags)
<1> DEFINE x == NextTable(w, Index(p, level), flags)
           T == w.tables
           at == w.at
           i == Index(p, level)
           more == TableFlags(flags)
<1>1. w = [tables |-> T, at |-> at, error |-> w.error]
      /\ Tree(T) /\ \A q \in Page : SameMap(T0, T, q)
    BY DEF Walked
<1>2. more \in SUBSET Flags
    BY DEF TableFlags
<1>3. CASE w.error # "None"
    <2>1. x = w
        BY <1>3 DEF NextTable
    <2> HIDE DEF x
    <2>2. Walked(T0, w, p, level - 1, flags)
        BY <1>3 DEF Walked
    <2> QED  BY <2>1, <2>2 DEF x
<1>4. CASE w.error = "None"
    <2>1. at = Node(T, p, level) /\ Down(T, p, level) /\ WideTo(T, p, level, flags)
        BY <1>4 DEF Walked
    <2>2. T \in Seq(Table) /\ at \in 1 .. Len(T)
        <3>1. PICK lv, of : Shape(T, lv, of)
            BY <1>1 DEF Tree
        <3>2. level \in 0 .. 4 /\ level \in 1 .. 4 /\ level >= level
            OBVIOUS
        <3>3. Node(T, p, level) \in 1 .. Len(T)
            BY <2>1, <3>1, <3>2, NodeLevel
        <3> QED  BY <2>1, <3>1, <3>3 DEF Shape
    <2>3. i \in 0 .. TABLE_ENTRIES - 1
        <3>1. p \in Nat /\ level \in 1 .. 4
            BY PagingAssumption DEF Page
        <3> QED  BY <3>1, Digits
    <2>4. CASE i \in DOMAIN T[at]
        <3> DEFINE T2 == [T EXCEPT ![at][i].flags = @ \cup more]
                   to == T[at][i].to
        <3>1. x = [w EXCEPT !.tables[w.at][i].flags = @ \cup more, !.at = to]
            BY <1>4, <2>4 DEF NextTable, Uses
        <3>2. x = [tables |-> T2, at |-> to, error |-> "None"]
            <4> HIDE DEF i, more, to
            <4> QED  BY <1>1, <1>4, <3>1
        <3>3. Widened(T, T2, at, i, more)
            <4> HIDE DEF T, at, i, more
            <4> QED  BY <1>2, <2>2, <2>4, WidenEntry
        <3> HIDE DEF T2
        <3>4. Down(T, p, level - 1)
            <4>1. UsedAt(T, p, level)
                BY <2>1, <2>4 DEF UsedAt
            <4> QED  BY <2>1, <4>1 DEF Down
        <3>5. /\ Tree(T2) /\ \A q \in Page : SameMap(T, T2, q)
              /\ Down(T2, p, level - 1) /\ WideTo(T2, p, level - 1, flags)
              /\ Node(T2, p, level - 1) = Node(T, p, level - 1)
            <4>1. Widened(T, T2, Node(T, p, level), Index(p, level), TableFlags(flags))
                BY <2>1, <3>3
            <4> HIDE DEF T
            <4> QED  BY <1>1, <2>1, <3>4, <4>1, WidenedIs
        <3>6. to = Node(T2, p, level - 1)
            BY <2>1, <3>5, NodeBelow DEF EntryAt
        <3>7. \A q \in Page : SameMap(T0, T2, q)
            BY <1>1, <3>5, SameMapTwice
        <3> HIDE DEF to, x
        <3>8. x.tables = T2 /\ x.at = to /\ x.error = "None"
            BY <3>2
        <3> QED  BY <3>2, <3>5, <3>6, <3>7, <3>8 DEF Walked, x
    <2>5. CASE i \notin DOMAIN T[at] /\ Len(T) = MAX_PAGE_TABLE_FRAMES + 1
        <3>1. x = [w EXCEPT !.error = "NoPageTable"]
            BY <1>4, <2>5 DEF NextTable, Uses
        <3>2. x = [tables |-> T, at |-> at, error |-> "NoPageTable"]
            BY <1>1, <3>1
        <3> HIDE DEF x
        <3>3. x.tables = T /\ x.at = at /\ x.error = "NoPageTable"
            BY <3>2
        <3> QED  BY <1>1, <3>2, <3>3 DEF Walked, x
    <2>6. CASE i \notin DOMAIN T[at] /\ Len(T) # MAX_PAGE_TABLE_FRAMES + 1
        <3> DEFINE T2 == Append([T EXCEPT ![at] = Set(T[at], i, Len(T) + 1, more)], NewTable)
        <3>1. x = [w EXCEPT !.tables = Append([@ EXCEPT ![w.at] =
                                           Set(T[at], i, Len(T) + 1, more)], NewTable),
                            !.at = Len(T) + 1]
            BY <1>4, <2>6 DEF NextTable, Uses
        <3>2. x = [tables |-> T2, at |-> Len(T) + 1, error |-> "None"]
            <4> HIDE DEF i, more
            <4> QED  BY <1>1, <1>4, <3>1
        <3>3. Extended(T, T2, at, i, more)
            <4> HIDE DEF T, at, i, more
            <4> QED  BY <1>2, <2>2, <2>3, <2>6, ExtendStorage
        <3> HIDE DEF T2
        <3>5. /\ Tree(T2) /\ \A q \in Page : SameMap(T, T2, q)
              /\ Down(T2, p, level - 1) /\ WideTo(T2, p, level - 1, flags)
              /\ Node(T2, p, level - 1) = Len(T) + 1
            <4>1. Extended(T, T2, Node(T, p, level), Index(p, level), TableFlags(flags))
                BY <2>1, <3>3
            <4> HIDE DEF T
            <4> QED  BY <1>1, <2>1, <4>1, ExtendedIs
        <3>7. \A q \in Page : SameMap(T0, T2, q)
            BY <1>1, <3>5, SameMapTwice
        <3> HIDE DEF x
        <3>8. x.tables = T2 /\ x.at = Len(T) + 1 /\ x.error = "None"
            BY <3>2
        <3> QED  BY <3>2, <3>5, <3>7, <3>8 DEF Walked, x
    <2> QED  BY <2>4, <2>5, <2>6
<1> QED  BY <1>3, <1>4


\* one page more, where there was none
NewPage(T, T2, p, frame, flags) ==
    /\ p \in Page /\ ~ Maps(T, p) /\ Maps(T2, p) /\ Wide(T2, p)
    /\ Leaf(T2, p) = [to |-> frame, flags |-> flags]
    /\ \A q \in Page : q # p => SameMap(T, T2, q)

\* table at has an entry i more
LeafAdded(T, T2, at, i, e) ==
    /\ T2 \in Seq(Table) /\ Len(T2) = Len(T) /\ i \in DOMAIN T2[at] /\ T2[at][i] = e
    /\ \A t \in 1 .. Len(T) : \A j \in DOMAIN T2[t] : j \in DOMAIN T[t] \/ (t = at /\ j = i)
    /\ \A t \in 1 .. Len(T) : \A j \in DOMAIN T[t] : j \in DOMAIN T2[t] /\ T2[t][j] = T[t][j]

\* Set in a table of the storage adds an entry.
LEMMA AddLeaf ==
    ASSUME NEW T \in Seq(Table), NEW at \in 1 .. Len(T), NEW i \in 0 .. TABLE_ENTRIES - 1,
           i \notin DOMAIN T[at], NEW frame \in Nat, NEW flags \in SUBSET Flags
    PROVE  LeafAdded(T, [T EXCEPT ![at] = Set(T[at], i, frame, flags)], at, i,
                     [to |-> frame, flags |-> flags])
<1> DEFINE s == Set(T[at], i, frame, flags)
           T2 == [T EXCEPT ![at] = s]
           e == [to |-> frame, flags |-> flags]
<1>1. T[at] \in Table
    BY StoredTable
<1>2. WithEntry(s, T[at], i, frame, flags)
    BY <1>1, SetIs
<1> HIDE DEF s
<1>3. s \in Table
    BY <1>2 DEF WithEntry
<1>4. /\ T2 \in Seq(Table) /\ Len(T2) = Len(T) /\ T2[at] = s
      /\ \A t \in 1 .. Len(T) : t # at => T2[t] = T[t]
    BY <1>3, ReplacedIs
<1> HIDE DEF T2
<1>5. i \in DOMAIN T2[at] /\ T2[at][i] = e
    BY <1>2, <1>4 DEF WithEntry
<1>6. \A t \in 1 .. Len(T) : \A j \in DOMAIN T2[t] : j \in DOMAIN T[t] \/ (t = at /\ j = i)
    BY <1>2, <1>4 DEF WithEntry
<1>7. \A t \in 1 .. Len(T) : \A j \in DOMAIN T[t] : j \in DOMAIN T2[t] /\ T2[t][j] = T[t][j]
    BY <1>2, <1>4 DEF WithEntry
<1>8. LeafAdded(T, T2, at, i, e)
    BY <1>4, <1>5, <1>6, <1>7 DEF LeafAdded
<1> QED  BY <1>8 DEF T2, s

\* The entry of level 1: the page is mapped, and no other page is touched.
LEMMA LeafSetIs ==
    ASSUME NEW T, Tree(T), NEW p \in Page, NEW flags \in SUBSET Flags, NEW frame \in Nat,
           Down(T, p, 1), WideTo(T, p, 1, flags),
           NEW at, at = Node(T, p, 1), Index(p, 1) \notin DOMAIN T[at],
           NEW T2, LeafAdded(T, T2, at, Index(p, 1), [to |-> frame, flags |-> flags])
    PROVE  Tree(T2) /\ NewPage(T, T2, p, frame, flags)
<1> DEFINE i == Index(p, 1)
           e == [to |-> frame, flags |-> flags]
<1>1. PICK lv, of : Shape(T, lv, of)
    BY DEF Tree
<1>2. \A l \in 1 .. 4 :
          /\ Node(T, p, l) \in 1 .. Len(T) /\ lv[Node(T, p, l)] = l
          /\ Agree(of[Node(T, p, l)], p, l)
    <2>1. 1 \in 0 .. 4 /\ \A l \in 1 .. 4 : l >= 1
        OBVIOUS
    <2> QED  BY <1>1, <2>1, NodeLevel
<1>3. at \in 1 .. Len(T) /\ lv[at] = 1 /\ Agree(of[at], p, 1) /\ T \in Seq(Table)
    BY <1>1, <1>2 DEF Shape
<1>4. /\ T2 \in Seq(Table) /\ Len(T2) = Len(T) /\ i \in DOMAIN T2[at] /\ T2[at][i] = e
      /\ \A t \in 1 .. Len(T) : \A j \in DOMAIN T2[t] : j \in DOMAIN T[t] \/ (t = at /\ j = i)
      /\ \A t \in 1 .. Len(T) : \A j \in DOMAIN T[t] : j \in DOMAIN T2[t] /\ T2[t][j] = T[t][j]
    BY DEF LeafAdded
<1> HIDE DEF i, e
<1>5. Shape(T2, lv, of)
    <2>1. \A t \in 1 .. Len(T) : \A j \in DOMAIN T2[t] :
              lv[t] > 1 /\ ~ (t = Root /\ j = RECURSIVE_INDEX) =>
                  j \in DOMAIN T[t] /\ T2[t][j].to = T[t][j].to
        BY <1>3, <1>4
    <2> QED  BY <1>1, <1>4, <2>1, ShapeKept
<1>6. ASSUME NEW q \in Page, Maps(T, q)
      PROVE  Maps(T2, q) /\ Kept(T, T2, q)
    <2>1. \A l \in 1 .. 4 : Node(T, q, l) \in 1 .. Len(T)
        <3>1. \A l \in 1 .. 4 : l >= 0
            OBVIOUS
        <3> QED  BY <1>1, <1>6, <3>1, NodeLevel, SMTT(30) DEF Maps
    <2>2. \A l \in 1 .. 4 : Index(q, l) \in DOMAIN T[Node(T, q, l)]
        <3>1. \A l \in 1 .. 4 : l > 0
            OBVIOUS
        <3> QED  BY <1>6, <3>1 DEF Maps, Down, UsedAt
    <2>3. \A l \in 1 .. 4 : /\ Index(q, l) \in DOMAIN T2[Node(T, q, l)]
                            /\ T2[Node(T, q, l)][Index(q, l)] = EntryAt(T, q, l)
        BY <1>4, <2>1, <2>2 DEF EntryAt
    <2>4. \A l \in 1 .. 4 :
              /\ Leads(T, T2, q, l)
              /\ EntryAt(T, q, l).flags \subseteq T2[Node(T, q, l)][Index(q, l)].flags
        BY <2>3 DEF Leads
    <2>5. T2[Node(T, q, 1)][Index(q, 1)] = EntryAt(T, q, 1)
        <3>1. 1 \in 1 .. 4
            OBVIOUS
        <3> QED  BY <2>3, <3>1
    <2> QED  BY <1>6, <2>4, <2>5, KeptWalk
<1>7. ASSUME NEW q \in Page, Maps(T2, q), q # p
      PROVE  Maps(T, q)
    <2>1. \A l \in 1 .. 4 : /\ Node(T2, q, l) \in 1 .. Len(T) /\ lv[Node(T2, q, l)] = l
                            /\ Agree(of[Node(T2, q, l)], q, l)
        <3>1. 0 \in 0 .. 4 /\ \A l \in 1 .. 4 : l >= 0
            OBVIOUS
        <3>2. Down(T2, q, 0) /\ Len(T2) = Len(T)
            BY <1>4, <1>7 DEF Maps
        <3> QED  BY <1>5, <3>1, <3>2, NodeLevel
    <2>2. \A l \in 1 .. 4 : Index(q, l) \in DOMAIN T2[Node(T2, q, l)]
        <3>1. \A l \in 1 .. 4 : l > 0
            OBVIOUS
        <3> QED  BY <1>7, <3>1 DEF Maps, Down, UsedAt
    <2>3. ASSUME NEW l \in 1 .. 4, Node(T2, q, l) = at, Index(q, l) = i
          PROVE  FALSE
        <3>1. l = 1
            BY <1>3, <2>1, <2>3
        <3>2. Agree(of[at], q, 1)
            BY <2>1, <2>3, <3>1
        <3>3. ASSUME NEW k \in 1 .. 4 PROVE Index(p, k) = Index(q, k)
            <4>1. CASE k = 1
                BY <2>3, <3>1, <4>1 DEF i
            <4>2. CASE k > 1
                BY <1>3, <3>2, <4>2 DEF Agree
            <4> QED  BY <4>1, <4>2
        <3>4. Agree(p, q, 0)
            BY <3>3 DEF Agree
        <3> QED  BY <1>7, <3>4, SamePage
    <2>6. \A l \in 1 .. 4 : Index(q, l) \in DOMAIN T[Node(T2, q, l)]
        BY <1>4, <2>1, <2>2, <2>3
    <2>7. \A l \in 1 .. 4 : Leads(T2, T, q, l)
        BY <1>4, <2>1, <2>6, SMTT(30) DEF Leads, EntryAt
    <2> QED  BY <1>7, <2>7, SameWalk DEF Maps
<1>8. ~ Maps(T, p)
    <2>1. 1 \in 1 .. 4 /\ 1 > 0
        OBVIOUS
    <2> QED  BY <2>1 DEF Maps, Down, UsedAt
<1>9. /\ Down(T2, p, 1) /\ \A l \in 1 .. 4 : Node(T2, p, l) = Node(T, p, l)
    <2>1. \A l \in 1 .. 4 : l > 1 => Index(p, l) \in DOMAIN T[Node(T, p, l)]
        BY DEF Down, UsedAt
    <2>2. \A l \in 1 .. 4 : l > 1 => Leads(T, T2, p, l)
        BY <1>2, <1>4, <2>1 DEF Leads, EntryAt
    <2>3. 1 \in 0 .. 4 /\ \A l \in 1 .. 4 : l >= 1
        OBVIOUS
    <2> QED  BY <2>2, <2>3, SameWalk
<1>10. Node(T2, p, 1) = at /\ EntryAt(T2, p, 1) = e /\ UsedAt(T2, p, 1)
    <2>1. 1 \in 1 .. 4
        OBVIOUS
    <2> QED  BY <1>4, <1>9, <2>1 DEF EntryAt, UsedAt, i
<1>11. Maps(T2, p)
    <2>1. \A l \in 1 .. 4 : l > 1 \/ l = 1
        OBVIOUS
    <2> QED  BY <1>9, <1>10, <2>1 DEF Maps, Down
<1>12. Wide(T2, p)
    <2> SUFFICES ASSUME NEW l \in 2 .. 4
                 PROVE  TableFlags(flags) \subseteq EntryAt(T2, p, l).flags
        <3>1. Leaf(T2, p).flags = flags
            BY <1>10 DEF Leaf, e
        <3> QED  BY <3>1 DEF Wide
    <2>1. l \in 1 .. 4 /\ l > 1
        OBVIOUS
    <2>2. TableFlags(flags) \subseteq EntryAt(T, p, l).flags
        BY <2>1 DEF WideTo
    <2>3. Index(p, l) \in DOMAIN T[Node(T, p, l)]
        BY <2>1 DEF Down, UsedAt
    <2>4. EntryAt(T2, p, l) = EntryAt(T, p, l)
        BY <1>2, <1>4, <1>9, <2>1, <2>3 DEF EntryAt
    <2> QED  BY <2>2, <2>4
<1>13. \A q \in Page : q # p => SameMap(T, T2, q)
    BY <1>6, <1>7 DEF SameMap
<1> QED  BY <1>5, <1>8, <1>10, <1>11, <1>12, <1>13 DEF Tree, Leaf, e, NewPage

\* what a call of map_page may do
MapResult(T, R, p, frame, flags) ==
    /\ R = [tables |-> R.tables, at |-> R.at, error |-> R.error]
    /\ Tree(R.tables)
    /\ R.error = "None" => NewPage(T, R.tables, p, frame, flags)
    /\ R.error # "None" => \A q \in Page : SameMap(T, R.tables, q)
    /\ R.error = "AlreadyMapped" => p \in Page /\ Maps(T, p)

\* The last level of map_to.
LEMMA SetPageMaps ==
    ASSUME NEW T0, NEW w, NEW p \in Page, NEW flags \in SUBSET Flags, NEW frame \in Nat,
           Walked(T0, w, p, 1, flags)
    PROVE  MapResult(T0, SetPage(w, Index(p, 1), frame, flags), p, frame, flags)
<1> DEFINE x == SetPage(w, Index(p, 1), frame, flags)
           T == w.tables
           at == w.at
           i == Index(p, 1)
<1>1. w = [tables |-> T, at |-> at, error |-> w.error]
      /\ Tree(T) /\ \A q \in Page : SameMap(T0, T, q)
    BY DEF Walked
<1>2. CASE w.error # "None"
    <2>1. x = w /\ w.error = "NoPageTable"
        BY <1>2 DEF SetPage, Walked
    <2> HIDE DEF x
    <2>2. MapResult(T0, w, p, frame, flags)
        BY <1>1, <2>1 DEF MapResult
    <2> QED  BY <2>1, <2>2 DEF x
<1>3. CASE w.error = "None"
    <2>1. at = Node(T, p, 1) /\ Down(T, p, 1) /\ WideTo(T, p, 1, flags)
        BY <1>3 DEF Walked
    <2>2. CASE i \in DOMAIN T[at]
        <3>1. x = [w EXCEPT !.error = "AlreadyMapped"]
            BY <1>3, <2>2 DEF SetPage, Uses
        <3>2. x = [tables |-> T, at |-> at, error |-> "AlreadyMapped"]
            BY <1>1, <3>1
        <3> HIDE DEF x
        <3>3. x.tables = T /\ x.at = at /\ x.error = "AlreadyMapped"
            BY <3>2
        <3>4. Maps(T, p)
            <4>1. UsedAt(T, p, 1)
                BY <2>1, <2>2 DEF UsedAt
            <4>2. \A l \in 1 .. 4 : l > 1 \/ l = 1
                OBVIOUS
            <4> QED  BY <2>1, <4>1, <4>2 DEF Maps, Down
        <3>5. Maps(T0, p)
            BY <1>1, <3>4 DEF SameMap
        <3> QED  BY <1>1, <3>2, <3>3, <3>5 DEF MapResult, x
    <2>3. CASE i \notin DOMAIN T[at]
        <3> DEFINE T2 == [T EXCEPT ![at] = Set(T[at], i, frame, flags)]
        <3>1. x = [w EXCEPT !.tables[w.at] = Set(@, i, frame, flags)]
            BY <1>3, <2>3 DEF SetPage, Uses
        <3>2. x = [tables |-> T2, at |-> at, error |-> "None"]
            <4> HIDE DEF i
            <4> QED  BY <1>1, <1>3, <3>1
        <3>3. Tree(T2) /\ NewPage(T, T2, p, frame, flags)
            <4>1. T \in Seq(Table) /\ at \in 1 .. Len(T) /\ i \in 0 .. TABLE_ENTRIES - 1
                <5>1. PICK lv, of : Shape(T, lv, of)
                    BY <1>1 DEF Tree
                <5>2. 1 \in 0 .. 4 /\ 1 \in 1 .. 4 /\ 1 >= 1
                    OBVIOUS
                <5>3. Node(T, p, 1) \in 1 .. Len(T)
                    BY <2>1, <5>1, <5>2, NodeLevel
                <5>4. p \in Nat
                    BY PagingAssumption DEF Page
                <5>5. i \in 0 .. TABLE_ENTRIES - 1
                    BY <5>2, <5>4, Digits
                <5> QED  BY <2>1, <5>1, <5>3, <5>5 DEF Shape
            <4>2. LeafAdded(T, T2, at, i, [to |-> frame, flags |-> flags])
                <5> HIDE DEF T, at, i
                <5> QED  BY <2>3, <4>1, AddLeaf
            <4> HIDE DEF T2, T, at
            <4> QED  BY <1>1, <2>1, <2>3, <4>2, LeafSetIs
        <3> HIDE DEF x, T2
        <3>4. x.tables = T2 /\ x.at = at /\ x.error = "None"
            BY <3>2
        <3>5. ~ Maps(T0, p)
            BY <1>1, <3>3 DEF SameMap, NewPage
        <3>6. \A q \in Page : q # p => SameMap(T0, T2, q)
            BY <1>1, <3>3, SameMapTwice DEF NewPage
        <3>7. NewPage(T0, T2, p, frame, flags)
            BY <3>3, <3>5, <3>6 DEF NewPage
        <3> QED  BY <3>2, <3>3, <3>4, <3>7 DEF MapResult, x
    <2> QED  BY <2>2, <2>3
<1> QED  BY <1>2, <1>3

\* map_page: one page more, or nothing the hardware would find.
LEMMA MapPageIs ==
    ASSUME NEW T, Tree(T), NEW p \in Nat, IsCanonical(p) => ~ InRecursiveWindow(p),
           NEW frame \in Nat, NEW flags \in SUBSET Flags
    PROVE  MapResult(T, MapPage(T, p, frame, flags), p, frame, flags)
<1> DEFINE start == [tables |-> T, at |-> Root, error |-> VirtualRangeError(p, 1)]
           level3 == NextTable(start, Index(p, 4), flags)
           level2 == NextTable(level3, Index(p, 3), flags)
           level1 == NextTable(level2, Index(p, 2), flags)
           R == SetPage(level1, Index(p, 1), frame, flags)
<1>1. MapPage(T, p, frame, flags) = R
    BY DEF MapPage
<1>2. \A q \in Page : SameMap(T, T, q)
    BY DEF SameMap, Kept
<1>3. start.tables = T /\ start.at = Root /\ start.error = VirtualRangeError(p, 1)
    OBVIOUS
<1>4. CASE VirtualRangeError(p, 1) # "None"
    <2>1. VirtualRangeError(p, 1) # "AlreadyMapped"
        BY DEF VirtualRangeError
    <2> HIDE DEF start
    <2>2. level3 = start
        BY <1>3, <1>4 DEF NextTable
    <2> HIDE DEF level3
    <2>3. level2 = start
        BY <1>3, <1>4, <2>2 DEF NextTable
    <2> HIDE DEF level2
    <2>4. level1 = start
        BY <1>3, <1>4, <2>3 DEF NextTable
    <2> HIDE DEF level1
    <2>5. R = start
        BY <1>3, <1>4, <2>4 DEF SetPage
    <2> HIDE DEF R
    <2>6. start = [tables |-> start.tables, at |-> start.at, error |-> start.error]
        BY <1>3 DEF start
    <2>7. MapResult(T, start, p, frame, flags)
        BY <1>2, <1>3, <1>4, <2>1, <2>6 DEF MapResult
    <2> QED  BY <1>1, <2>5, <2>7
<1>5. CASE VirtualRangeError(p, 1) = "None"
    <2>1. p \in Page
        <3>1. p + 1 <= ADDRESS_PAGES /\ IsCanonical(p)
            BY <1>5, PagingAssumption DEF VirtualRangeError
        <3> QED  BY <3>1, PagingAssumption DEF Page
    <2>2. Walked(T, start, p, 4, flags)
        <3>1. Down(T, p, 4) /\ WideTo(T, p, 4, flags)
            <4>1. \A l \in 1 .. 4 : ~ (l > 4)
                OBVIOUS
            <4> QED  BY <4>1 DEF Down, WideTo
        <3>2. start = [tables |-> start.tables, at |-> start.at, error |-> start.error]
            OBVIOUS
        <3> HIDE DEF start
        <3> QED  BY <1>2, <1>3, <1>5, <3>1, <3>2, NodeIs DEF Walked
    <2> HIDE DEF start
    <2>3. Walked(T, level3, p, 3, flags)
        <3>1. 4 \in 2 .. 4 /\ 4 - 1 = 3
            OBVIOUS
        <3>2. Walked(T, NextTable(start, Index(p, 4), flags), p, 4 - 1, flags)
            BY <2>1, <2>2, <3>1, NextTableWalks
        <3> QED  BY <3>1, <3>2
    <2> HIDE DEF level3
    <2>4. Walked(T, level2, p, 2, flags)
        <3>1. 3 \in 2 .. 4 /\ 3 - 1 = 2
            OBVIOUS
        <3>2. Walked(T, NextTable(level3, Index(p, 3), flags), p, 3 - 1, flags)
            BY <2>1, <2>3, <3>1, NextTableWalks
        <3> QED  BY <3>1, <3>2
    <2> HIDE DEF level2
    <2>5. Walked(T, level1, p, 1, flags)
        <3>1. 2 \in 2 .. 4 /\ 2 - 1 = 1
            OBVIOUS
        <3>2. Walked(T, NextTable(level2, Index(p, 2), flags), p, 2 - 1, flags)
            BY <2>1, <2>4, <3>1, NextTableWalks
        <3> QED  BY <3>1, <3>2
    <2> HIDE DEF level1
    <2>6. MapResult(T, R, p, frame, flags)
        BY <2>1, <2>5, SetPageMaps
    <2> QED  BY <1>1, <2>6
<1> QED  BY <1>4, <1>5


------------------------------------------------------------------------------
(* map_range, the recursive entry and unmap_page.                          *)

\* one round of the loop of map_range
Round(walk, start, n, flags) ==
    IF walk.error # "None" THEN walk
    ELSE MapPage(walk.tables, start + n - 1, start + n - 1, flags)
Begin(T) == [tables |-> T, at |-> Root, error |-> "None"]

\* after[n] is the walk the first n rounds leave
Rounds(after, T, start, frames, flags) ==
    after = [n \in 0 .. frames |-> IF n = 0 THEN Begin(T)
                                   ELSE Round(after[n - 1], start, n, flags)]

\* One round more.
LEMMA RoundsOneMore ==
    ASSUME NEW T, NEW start, NEW flags, NEW m \in Nat, m # 0,
           \E f : Rounds(f, T, start, m - 1, flags)
    PROVE  \E f : Rounds(f, T, start, m, flags)
<1>1. m - 1 \in Nat
    OBVIOUS
<1>3. PICK f : Rounds(f, T, start, m - 1, flags)
    OBVIOUS
<1> DEFINE g == [n \in 0 .. m |-> IF n = m THEN Round(f[m - 1], start, m, flags) ELSE f[n]]
<1>4. \A n \in 0 .. m - 1 : f[n] = IF n = 0 THEN Begin(T) ELSE Round(f[n - 1], start, n, flags)
    BY <1>3 DEF Rounds
<1>6. \A n \in 0 .. m : g[n] = IF n = 0 THEN Begin(T) ELSE Round(g[n - 1], start, n, flags)
    <2> SUFFICES ASSUME NEW n \in 0 .. m
                 PROVE  g[n] = IF n = 0 THEN Begin(T) ELSE Round(g[n - 1], start, n, flags)
        OBVIOUS
    <2>1. CASE n = m
        <3>1. n - 1 \in 0 .. m /\ n - 1 # m
            BY <1>1, <2>1
        <3> QED  BY <1>1, <2>1, <3>1
    <2>2. CASE n # m
        <3>1. n \in 0 .. m - 1 /\ (n # 0 => n - 1 \in 0 .. m /\ n - 1 # m)
            BY <1>1, <2>2
        <3> QED  BY <1>4, <2>2, <3>1
    <2> QED  BY <2>1, <2>2
<1>7. Rounds(g, T, start, m, flags)
    BY <1>6 DEF Rounds
<1> QED  BY <1>7

\* So the function map_range is defined by exists.
LEMMA RoundsExist ==
    ASSUME NEW T, NEW start, NEW flags, NEW frames \in Nat
    PROVE  \E f : Rounds(f, T, start, frames, flags)
<1> DEFINE Bad == {n \in Nat : ~ \E f : Rounds(f, T, start, n, flags)}
<1> SUFFICES ASSUME frames \in Bad PROVE FALSE
    OBVIOUS
<1>1. PICK m \in Bad : \A k \in Bad : m <= k
    BY LeastElement
<1>2. m # 0
    <2> DEFINE f == [n \in 0 .. 0 |-> Begin(T)]
    <2>1. \A n \in 0 .. 0 : n = 0
        OBVIOUS
    <2>2. Rounds(f, T, start, 0, flags)
        BY <2>1 DEF Rounds
    <2> QED  BY <1>1, <2>2
<1>3. m \in Nat /\ m - 1 \in Nat /\ m - 1 \notin Bad
    BY <1>1, <1>2
<1>4. \E f : Rounds(f, T, start, m - 1, flags)
    BY <1>3
<1> QED  BY <1>1, <1>2, <1>3, <1>4, RoundsOneMore

\* map_range is its last round.
LEMMA MapRangeIsRounds ==
    ASSUME NEW T, NEW run, run.frames \in Nat, NEW flags
    PROVE  \E f : Rounds(f, T, run.start, run.frames, flags) /\ MapRange(T, run, flags) = f[run.frames]
<1> DEFINE f == CHOOSE f : Rounds(f, T, run.start, run.frames, flags)
<1>1. Rounds(f, T, run.start, run.frames, flags)
    BY RoundsExist
<1>2. MapRange(T, run, flags) = f[run.frames]
    BY DEF MapRange, Rounds, Round, Begin
<1> QED  BY <1>1, <1>2


Front(start, n) == start .. start + n - 1

\* R is what is left when the first n pages of a run have been identity-mapped
Ranged(T, R, start, n, flags) ==
    /\ R = [tables |-> R.tables, at |-> R.at, error |-> R.error]
    /\ Tree(R.tables)
    /\ \A q \in Page : q \notin Front(start, n) => SameMap(T, R.tables, q)
    /\ \A q \in Front(start, n) :
           /\ q \in Page /\ ~ Maps(T, q) /\ Maps(R.tables, q) /\ Wide(R.tables, q)
           /\ Leaf(R.tables, q) = [to |-> q, flags |-> flags]

\* One page of map_range.
LEMMA RoundMaps ==
    ASSUME NEW T, NEW W, NEW start \in Nat, NEW k \in Nat, NEW flags \in SUBSET Flags,
           Ranged(T, W, start, k, flags), W.error = "None",
           IsCanonical(start + k) => ~ InRecursiveWindow(start + k)
    PROVE  LET R == MapPage(W.tables, start + k, start + k, flags) IN
           /\ R.error = "None" => Ranged(T, R, start, k + 1, flags)
           /\ R.error # "None" => Ranged(T, R, start, k, flags)
           /\ R.error = "AlreadyMapped" => start + k \in Page /\ Maps(T, start + k)
<1> DEFINE p == start + k
           R == MapPage(W.tables, p, p, flags)
           T1 == W.tables
           T2 == R.tables
<1>1. /\ Tree(T1)
      /\ \A q \in Page : q \notin Front(start, k) => SameMap(T, T1, q)
      /\ \A q \in Front(start, k) :
             /\ q \in Page /\ ~ Maps(T, q) /\ Maps(T1, q) /\ Wide(T1, q)
             /\ Leaf(T1, q) = [to |-> q, flags |-> flags]
    BY DEF Ranged
<1>2. p \in Nat /\ p \notin Front(start, k)
    BY DEF Front
<1>3. \A q : q \in Front(start, k + 1) <=> q \in Front(start, k) \/ q = p
    BY DEF Front
<1>4. MapResult(T1, R, p, p, flags)
    <2> HIDE DEF T1, p
    <2>1. IsCanonical(p) => ~ InRecursiveWindow(p)
        BY DEF p
    <2> QED  BY <1>1, <1>2, <2>1, MapPageIs DEF T1
<1> HIDE DEF p, R, T1
<1>5. R = [tables |-> T2, at |-> R.at, error |-> R.error] /\ Tree(T2)
    BY <1>4 DEF MapResult
<1>6. ASSUME NEW q \in Front(start, k), SameMap(T1, T2, q)
      PROVE  /\ q \in Page /\ ~ Maps(T, q) /\ Maps(T2, q) /\ Wide(T2, q)
             /\ Leaf(T2, q) = [to |-> q, flags |-> flags]
    BY <1>1, <1>6 DEF SameMap, Kept
<1>7. ASSUME NEW q \in Page, q \notin Front(start, k), SameMap(T1, T2, q)
      PROVE  SameMap(T, T2, q)
    BY <1>1, <1>7, SameMapTwice
<1>8. ASSUME R.error = "None"
      PROVE  Ranged(T, R, start, k + 1, flags)
    <2>1. /\ p \in Page /\ ~ Maps(T1, p) /\ Maps(T2, p) /\ Wide(T2, p)
          /\ Leaf(T2, p) = [to |-> p, flags |-> flags]
          /\ \A q \in Page : q # p => SameMap(T1, T2, q)
        BY <1>4, <1>8 DEF MapResult, NewPage
    <2>2. ~ Maps(T, p)
        BY <1>1, <1>2, <2>1 DEF SameMap
    <2>3. \A q \in Front(start, k) : q \in Page /\ q # p
        BY <1>1, <1>2
    <2>4. \A q \in Front(start, k + 1) :
              /\ q \in Page /\ ~ Maps(T, q) /\ Maps(T2, q) /\ Wide(T2, q)
              /\ Leaf(T2, q) = [to |-> q, flags |-> flags]
        BY <1>3, <1>6, <2>1, <2>2, <2>3
    <2>5. \A q \in Page : q \notin Front(start, k + 1) => SameMap(T, T2, q)
        BY <1>3, <1>7, <2>1
    <2> QED  BY <1>5, <2>4, <2>5 DEF Ranged
<1>9. ASSUME R.error # "None"
      PROVE  Ranged(T, R, start, k, flags)
    <2>1. \A q \in Page : SameMap(T1, T2, q)
        BY <1>4, <1>9 DEF MapResult
    <2>2. \A q \in Front(start, k) : q \in Page
        BY <1>1
    <2>3. \A q \in Front(start, k) :
              /\ q \in Page /\ ~ Maps(T, q) /\ Maps(T2, q) /\ Wide(T2, q)
              /\ Leaf(T2, q) = [to |-> q, flags |-> flags]
        BY <1>6, <2>1, <2>2
    <2>4. \A q \in Page : q \notin Front(start, k) => SameMap(T, T2, q)
        BY <1>7, <2>1
    <2> QED  BY <1>5, <2>3, <2>4 DEF Ranged
<1>10. ASSUME R.error = "AlreadyMapped"
       PROVE  p \in Page /\ Maps(T, p)
    <2>1. p \in Page /\ Maps(T1, p)
        BY <1>4, <1>10 DEF MapResult
    <2> QED  BY <1>1, <1>2, <2>1 DEF SameMap
<1> QED  BY <1>8, <1>9, <1>10 DEF p, R, T1

\* what a call of map_range may do to the address space
RangeResult(T, R, start, frames, flags) ==
    /\ \E n \in 0 .. frames : /\ Ranged(T, R, start, n, flags)
                              /\ R.error = "None" => n = frames
    /\ R.error = "AlreadyMapped" => \E q \in Front(start, frames) : q \in Page /\ Maps(T, q)

\* map_range maps its run, or the front of it.
LEMMA MapRangeIs ==
    ASSUME NEW T, Tree(T), NEW run, run.start \in Nat, run.frames \in Nat,
           NEW flags \in SUBSET Flags,
           \A q \in Run(run) : IsCanonical(q) => ~ InRecursiveWindow(q)
    PROVE  RangeResult(T, MapRange(T, run, flags), run.start, run.frames, flags)
<1> DEFINE s == run.start
           N == run.frames
<1>1. PICK f : Rounds(f, T, s, N, flags) /\ MapRange(T, run, flags) = f[N]
    BY MapRangeIsRounds
<1>2. s \in Nat /\ N \in Nat /\ \A k \in 0 .. N - 1 : IsCanonical(s + k) => ~ InRecursiveWindow(s + k)
    BY DEF Run
<1> HIDE DEF s, N
<1>3. \A n \in 0 .. N : f[n] = IF n = 0 THEN Begin(T) ELSE Round(f[n - 1], s, n, flags)
    BY <1>1 DEF Rounds
<1> DEFINE Clash == \E q \in Front(s, N) : q \in Page /\ Maps(T, q)
           Good(k) == /\ \E n \in 0 .. k : /\ Ranged(T, f[k], s, n, flags)
                                           /\ f[k].error = "None" => n = k
                      /\ f[k].error = "AlreadyMapped" => Clash
<1>4. Good(0)
    <2>1. f[0] = Begin(T)
        BY <1>2, <1>3
    <2> DEFINE b == f[0]
    <2>2. b = [tables |-> T, at |-> Root, error |-> "None"]
        BY <2>1 DEF Begin
    <2> HIDE DEF b
    <2>3. b.tables = T /\ b.at = Root /\ b.error = "None"
        BY <2>2
    <2>4. Front(s, 0) = {}
        BY <1>2 DEF Front
    <2>5. \A q \in Page : SameMap(T, T, q)
        BY DEF SameMap, Kept
    <2>6. Ranged(T, b, s, 0, flags)
        BY <2>2, <2>3, <2>4, <2>5 DEF Ranged
    <2>7. 0 \in 0 .. 0
        OBVIOUS
    <2> QED  BY <2>3, <2>6, <2>7 DEF b
<1>5. ASSUME NEW k \in 1 .. N, Good(k - 1)
      PROVE  Good(k)
    <2> DEFINE W == f[k - 1]
               X == f[k]
               m == k - 1
    <2>1. k \in 0 .. N /\ k # 0 /\ m \in Nat /\ m \in 0 .. N - 1 /\ m + 1 = k /\ k \in Nat
        BY <1>2
    <2>2. X = IF W.error # "None" THEN W ELSE MapPage(W.tables, s + k - 1, s + k - 1, flags)
        BY <1>3, <2>1 DEF Round
    <2>3. PICK n \in 0 .. m : Ranged(T, W, s, n, flags) /\ (W.error = "None" => n = m)
        BY <1>5
    <2>4. W.error = "AlreadyMapped" => Clash
        BY <1>5
    <2> HIDE DEF W, X, Clash
    <2>5. CASE W.error # "None"
        <3>1. X = W /\ n \in 0 .. k
            BY <2>1, <2>2, <2>5
        <3> QED  BY <2>3, <2>4, <2>5, <3>1 DEF X
    <2>6. CASE W.error = "None"
        <3>1. s + k - 1 = s + m /\ Ranged(T, W, s, m, flags)
            BY <1>2, <2>1, <2>3, <2>6
        <3>2. X = MapPage(W.tables, s + m, s + m, flags)
            BY <2>2, <2>6, <3>1
        <3>3. IsCanonical(s + m) => ~ InRecursiveWindow(s + m)
            BY <1>2, <2>1
        <3> HIDE DEF m
        <3>4. /\ X.error = "None" => Ranged(T, X, s, m + 1, flags)
              /\ X.error # "None" => Ranged(T, X, s, m, flags)
              /\ X.error = "AlreadyMapped" => s + m \in Page /\ Maps(T, s + m)
            BY <1>2, <2>1, <2>6, <3>1, <3>2, <3>3, RoundMaps
        <3>5. X.error = "AlreadyMapped" => Clash
            <4>1. s + m \in Front(s, N)
                BY <1>2, <2>1 DEF Front
            <4> QED  BY <3>4, <4>1 DEF Clash
        <3>6. m \in 0 .. k /\ k \in 0 .. k /\ m + 1 = k
            BY <2>1
        <3> QED  BY <3>4, <3>5, <3>6 DEF X
    <2> QED  BY <2>5, <2>6
<1>6. Good(N)
    <2> HIDE DEF Good
    <2> DEFINE Bad == {n \in 0 .. N : ~ Good(n)}
    <2> SUFFICES ASSUME N \in Bad PROVE FALSE
        BY <1>2
    <2>1. Bad \in SUBSET Nat
        BY <1>2
    <2>2. PICK m \in Bad : \A k \in Bad : m <= k
        BY <2>1, LeastElement
    <2>3. m \in 0 .. N /\ ~ Good(m)
        BY <2>2
    <2>4. m # 0
        BY <1>4, <2>3
    <2>5. m \in 1 .. N /\ m - 1 \in 0 .. N /\ ~ (m <= m - 1)
        BY <1>2, <2>3, <2>4
    <2>6. Good(m - 1)
        BY <2>2, <2>5
    <2>7. Good(m)
        BY <1>5, <2>5, <2>6
    <2> QED  BY <2>3, <2>7
<1> QED  BY <1>1, <1>6 DEF RangeResult, s, N

\* The root's entry for itself is in no page's walk.
LEMMA RecursiveEntryIs ==
    ASSUME NEW T, Tree(T)
    PROVE  Tree(WithRecursiveEntry(T)) /\ \A q \in Page : SameMap(T, WithRecursiveEntry(T), q)
<1> DEFINE flags == {"PRESENT", "WRITABLE"}
           i == RECURSIVE_INDEX
           s == Set(T[Root], i, Root, flags)
           T2 == [T EXCEPT ![Root] = s]
<1>1. PICK lv, of : Shape(T, lv, of)
    BY DEF Tree
<1>2. T \in Seq(Table) /\ Root \in 1 .. Len(T) /\ Root \in Nat
    BY <1>1 DEF Shape, Root
<1>3. WithRecursiveEntry(T) = T2
    BY DEF WithRecursiveEntry
<1>4. WithEntry(s, T[Root], i, Root, flags)
    <2>1. T[Root] \in Table
        BY <1>2, StoredTable
    <2>2. i \in 0 .. TABLE_ENTRIES - 1 /\ flags \in SUBSET Flags
        BY PagingAssumption DEF Flags, TableRights
    <2> HIDE DEF i, flags
    <2> QED  BY <1>2, <2>1, <2>2, SetIs
<1> HIDE DEF s, flags
<1>5. /\ T2 \in Seq(Table) /\ Len(T2) = Len(T) /\ T2[Root] = s
      /\ \A t \in 1 .. Len(T) : t # Root => T2[t] = T[t]
    <2>1. s \in Table
        BY <1>4 DEF WithEntry
    <2> HIDE DEF Root
    <2> QED  BY <1>2, <2>1, ReplacedIs
<1> HIDE DEF T2
<1>6. \A t \in 1 .. Len(T) : \A j :
          ~ (t = Root /\ j = i) =>
              /\ j \in DOMAIN T2[t] <=> j \in DOMAIN T[t]
              /\ j \in DOMAIN T[t] => T2[t][j] = T[t][j]
    BY <1>4, <1>5 DEF WithEntry
<1>7. Shape(T2, lv, of)
    <2>1. \A t \in 1 .. Len(T) : \A j \in DOMAIN T2[t] :
              lv[t] > 1 /\ ~ (t = Root /\ j = RECURSIVE_INDEX) =>
                  j \in DOMAIN T[t] /\ T2[t][j].to = T[t][j].to
        BY <1>6
    <2> QED  BY <1>1, <1>5, <2>1, ShapeKept
<1>8. ASSUME NEW S, S = T \/ S = T2, NEW q \in Page, Maps(S, q), NEW l \in 1 .. 4
      PROVE  /\ Node(S, q, l) \in 1 .. Len(T) /\ Index(q, l) \in DOMAIN S[Node(S, q, l)]
             /\ ~ (Node(S, q, l) = Root /\ Index(q, l) = i)
    <2>1. Shape(S, lv, of) /\ Len(S) = Len(T)
        BY <1>1, <1>5, <1>7, <1>8
    <2>2. Down(S, q, 0) /\ 0 \in 0 .. 4 /\ l >= 0 /\ l > 0
        BY <1>8 DEF Maps
    <2>3. Node(S, q, l) \in 1 .. Len(S) /\ lv[Node(S, q, l)] = l
        BY <2>1, <2>2, NodeLevel
    <2>4. Index(q, 4) # i
        BY DEF Page, InRecursiveWindow
    <2>5. lv[Root] = 4
        BY <2>1 DEF Shape
    <2>6. Node(S, q, l) = Root => l = 4
        BY <2>3, <2>5
    <2>7. Index(q, l) \in DOMAIN S[Node(S, q, l)]
        BY <2>2 DEF Down, UsedAt
    <2> QED  BY <2>1, <2>3, <2>4, <2>6, <2>7
<1>9. ASSUME NEW q \in Page, Maps(T, q)
      PROVE  Maps(T2, q) /\ Kept(T, T2, q)
    <2>1. \A l \in 1 .. 4 :
              /\ Index(q, l) \in DOMAIN T2[Node(T, q, l)]
              /\ T2[Node(T, q, l)][Index(q, l)] = EntryAt(T, q, l)
        BY <1>6, <1>8, <1>9 DEF EntryAt
    <2>2. \A l \in 1 .. 4 :
              /\ Leads(T, T2, q, l)
              /\ EntryAt(T, q, l).flags \subseteq T2[Node(T, q, l)][Index(q, l)].flags
        BY <2>1 DEF Leads
    <2>3. T2[Node(T, q, 1)][Index(q, 1)] = EntryAt(T, q, 1)
        <3>1. 1 \in 1 .. 4
            OBVIOUS
        <3> QED  BY <2>1, <3>1
    <2> QED  BY <1>9, <2>2, <2>3, KeptWalk
<1>10. ASSUME NEW q \in Page, Maps(T2, q)
       PROVE  Maps(T, q)
    <2>1. \A l \in 1 .. 4 : Leads(T2, T, q, l)
        BY <1>6, <1>8, <1>10 DEF Leads, EntryAt
    <2> QED  BY <1>10, <2>1, SameWalk DEF Maps
<1>11. \A q \in Page : SameMap(T, T2, q)
    BY <1>9, <1>10 DEF SameMap
<1>12. Tree(T2)
    BY <1>7 DEF Tree
<1> QED  BY <1>3, <1>11, <1>12

\* one page less
OldPage(T, T2, p) ==
    /\ Maps(T, p) /\ ~ Maps(T2, p)
    /\ \A q \in Page : q # p => SameMap(T, T2, q)

\* unmap_page: the page is gone, and no other page is touched.
LEMMA UnmapPageIs ==
    ASSUME NEW T, Tree(T), NEW p \in Page, Maps(T, p)
    PROVE  Tree(UnmapPage(T, p)) /\ OldPage(T, UnmapPage(T, p), p)
<1> DEFINE at == Node(T, p, 1)
           i == Index(p, 1)
           s == [j \in DOMAIN T[at] \ {i} |-> T[at][j]]
           T2 == [T EXCEPT ![at] = s]
<1>1. PICK lv, of : Shape(T, lv, of)
    BY DEF Tree
<1>2. \A q \in Page : Maps(T, q) => \A l \in 1 .. 4 :
          /\ Node(T, q, l) \in 1 .. Len(T) /\ lv[Node(T, q, l)] = l
          /\ Agree(of[Node(T, q, l)], q, l) /\ Index(q, l) \in DOMAIN T[Node(T, q, l)]
    <2> SUFFICES ASSUME NEW q \in Page, Maps(T, q), NEW l \in 1 .. 4
                 PROVE  /\ Node(T, q, l) \in 1 .. Len(T) /\ lv[Node(T, q, l)] = l
                        /\ Agree(of[Node(T, q, l)], q, l)
                        /\ Index(q, l) \in DOMAIN T[Node(T, q, l)]
        OBVIOUS
    <2>1. Down(T, q, 0) /\ 0 \in 0 .. 4 /\ l >= 0 /\ l > 0
        BY DEF Maps
    <2>2. Index(q, l) \in DOMAIN T[Node(T, q, l)]
        BY <2>1 DEF Down, UsedAt
    <2> QED  BY <1>1, <2>1, <2>2, NodeLevel
<1>3. at \in 1 .. Len(T) /\ lv[at] = 1 /\ Agree(of[at], p, 1) /\ T \in Seq(Table) /\ 1 \in 1 .. 4
    <2>1. 1 \in 1 .. 4
        OBVIOUS
    <2> QED  BY <1>1, <1>2, <2>1 DEF Shape
<1>4. UnmapPage(T, p) = T2
    <2>1. Path(T, p)[3] = EntryAt(T, p, 2)
        BY PathIs
    <2>2. Path(T, p)[3].to = at
        BY <2>1, NodeIs
    <2> HIDE DEF at
    <2> QED  BY <2>2 DEF UnmapPage
<1>5. s \in Table
    <2>1. T[at] \in Table
        BY <1>3, StoredTable
    <2>2. DOMAIN T[at] \subseteq 0 .. TABLE_ENTRIES - 1 /\ \A j \in DOMAIN T[at] : T[at][j] \in Entry
        BY <2>1, TableIs
    <2>3. s \in [DOMAIN T[at] \ {i} -> Entry] /\ DOMAIN T[at] \ {i} \in SUBSET (0 .. TABLE_ENTRIES - 1)
        BY <2>2
    <2> HIDE DEF s
    <2> QED  BY <2>3, MakesTable
<1>6. DOMAIN s = DOMAIN T[at] \ {i} /\ \A j \in DOMAIN s : s[j] = T[at][j]
    OBVIOUS
<1> HIDE DEF s, at, i
<1>7. /\ T2 \in Seq(Table) /\ Len(T2) = Len(T) /\ T2[at] = s
      /\ \A t \in 1 .. Len(T) : t # at => T2[t] = T[t]
    BY <1>3, <1>5, ReplacedIs
<1> HIDE DEF T2
<1>8. /\ \A t \in 1 .. Len(T) : \A j \in DOMAIN T2[t] : j \in DOMAIN T[t] /\ T2[t][j] = T[t][j]
      /\ \A t \in 1 .. Len(T) : \A j \in DOMAIN T[t] : j \in DOMAIN T2[t] \/ (t = at /\ j = i)
      /\ i \notin DOMAIN T2[at]
    BY <1>6, <1>7
<1>9. Shape(T2, lv, of)
    <2>1. \A t \in 1 .. Len(T) : \A j \in DOMAIN T2[t] :
              lv[t] > 1 /\ ~ (t = Root /\ j = RECURSIVE_INDEX) =>
                  j \in DOMAIN T[t] /\ T2[t][j].to = T[t][j].to
        BY <1>8
    <2> QED  BY <1>1, <1>7, <2>1, ShapeKept
<1>10. ASSUME NEW q \in Page, Maps(T2, q)
       PROVE  Maps(T, q) /\ \A l \in 1 .. 4 : Node(T2, q, l) = Node(T, q, l)
    <2>1. 0 \in 0 .. 4 /\ \A l \in 1 .. 4 : l >= 0 /\ l > 0
        OBVIOUS
    <2>2. Down(T2, q, 0)
        BY <1>10 DEF Maps
    <2>3. \A l \in 1 .. 4 : Node(T2, q, l) \in 1 .. Len(T)
        BY <1>7, <1>9, <2>1, <2>2, NodeLevel
    <2>4. \A l \in 1 .. 4 : Index(q, l) \in DOMAIN T2[Node(T2, q, l)]
        BY <2>1, <2>2 DEF Down, UsedAt
    <2>5. \A l \in 1 .. 4 : Leads(T2, T, q, l)
        BY <1>8, <2>3, <2>4 DEF Leads, EntryAt
    <2>6. Down(T, q, 0) /\ \A l \in 1 .. 4 : l >= 0 => Node(T, q, l) = Node(T2, q, l)
        BY <2>1, <2>2, <2>5, SameWalk
    <2> QED  BY <2>1, <2>6 DEF Maps
<1>11. ~ Maps(T2, p)
    <2> SUFFICES ASSUME Maps(T2, p) PROVE FALSE
        OBVIOUS
    <2>1. Node(T2, p, 1) = at
        BY <1>3, <1>10 DEF at
    <2>2. 1 \in 1 .. 4 /\ 1 > 0
        OBVIOUS
    <2>3. i \in DOMAIN T2[at]
        BY <2>1, <2>2 DEF Maps, Down, UsedAt, i
    <2> QED  BY <1>8, <2>3
<1>12. ASSUME NEW q \in Page, Maps(T, q), q # p
       PROVE  Maps(T2, q) /\ Kept(T, T2, q)
    <2>1. ASSUME NEW l \in 1 .. 4, Node(T, q, l) = at, Index(q, l) = i
          PROVE  FALSE
        <3>1. l = 1
            BY <1>2, <1>3, <1>12, <2>1
        <3>2. Agree(of[at], q, 1)
            BY <1>2, <1>12, <2>1, <3>1
        <3>3. ASSUME NEW k \in 1 .. 4 PROVE Index(p, k) = Index(q, k)
            <4>1. CASE k = 1
                BY <2>1, <3>1, <4>1 DEF i
            <4>2. CASE k > 1
                BY <1>3, <3>2, <4>2 DEF Agree
            <4> QED  BY <4>1, <4>2
        <3>4. Agree(p, q, 0)
            BY <3>3 DEF Agree
        <3> QED  BY <1>12, <3>4, SamePage
    <2>2. \A l \in 1 .. 4 : Node(T, q, l) \in 1 .. Len(T) /\ Index(q, l) \in DOMAIN T[Node(T, q, l)]
        BY <1>2, <1>12
    <2>3. \A l \in 1 .. 4 :
              /\ Index(q, l) \in DOMAIN T2[Node(T, q, l)]
              /\ T2[Node(T, q, l)][Index(q, l)] = EntryAt(T, q, l)
        BY <1>8, <2>1, <2>2 DEF EntryAt
    <2>4. \A l \in 1 .. 4 :
              /\ Leads(T, T2, q, l)
              /\ EntryAt(T, q, l).flags \subseteq T2[Node(T, q, l)][Index(q, l)].flags
        BY <2>3 DEF Leads
    <2>5. T2[Node(T, q, 1)][Index(q, 1)] = EntryAt(T, q, 1)
        BY <1>3, <2>3
    <2> QED  BY <1>12, <2>4, <2>5, KeptWalk
<1>13. \A q \in Page : q # p => SameMap(T, T2, q)
    BY <1>10, <1>12 DEF SameMap
<1>14. Tree(T2)
    BY <1>9 DEF Tree
<1> QED  BY <1>4, <1>11, <1>13, <1>14 DEF OldPage


------------------------------------------------------------------------------
(* The address space through the boot.                                     *)

\* q, if it is mapped, has the rights of its entry
Sound(T, q) == Maps(T, q) => Wide(T, q) /\ Leaf(T, q).to \in Nat
SoundTables(T) == Tree(T) /\ \A q \in Page : Sound(T, q)

\* the n pages from a on are new: they stand for the frames d further on
Added(T, T2, a, n, d, flags) ==
    /\ \A q \in Page : q \notin Front(a, n) => SameMap(T, T2, q)
    /\ \A q \in Front(a, n) :
           /\ q \in Page /\ ~ Maps(T, q) /\ Maps(T2, q) /\ Wide(T2, q)
           /\ Leaf(T2, q) = [to |-> q + d, flags |-> flags]

\* what a call may do to the address space
Change(T, T2) ==
    \/ \E a, n \in Nat, d \in Int, flags \in SUBSET Flags : Added(T, T2, a, n, d, flags)
    \/ \E p \in Page : OldPage(T, T2, p)

\* Pages are numbers.
LEMMA PageIsNat ==
    Page \subseteq Nat
<1>1. ADDRESS_PAGES \in Nat
    BY PagingAssumption
<1> QED  BY <1>1 DEF Page

\* A page that is the same is as sound as before.
LEMMA SameIsSound ==
    ASSUME NEW T, NEW T2, NEW q, SameMap(T, T2, q), Sound(T, q)
    PROVE  Sound(T2, q)
BY DEF Sound, SameMap, Kept

\* New pages are sound.
LEMMA AddedIsSound ==
    ASSUME NEW T, NEW T2, SoundTables(T), Tree(T2),
           NEW a \in Nat, NEW n \in Nat, NEW d \in Int, NEW flags \in SUBSET Flags,
           Added(T, T2, a, n, d, flags),
           \A q \in Front(a, n) : q + d \in Nat
    PROVE  /\ SoundTables(T2)
           /\ \A q \in Page : Maps(T2, q) => Maps(T, q) \/ q \in Front(a, n)
<1>1. ASSUME NEW q \in Page, q \notin Front(a, n)
      PROVE  Sound(T2, q) /\ (Maps(T2, q) => Maps(T, q))
    <2>1. SameMap(T, T2, q) /\ Sound(T, q)
        BY <1>1 DEF Added, SoundTables
    <2> QED  BY <2>1, SameIsSound DEF SameMap
<1>2. ASSUME NEW q \in Front(a, n)
      PROVE  Sound(T2, q)
    <2>1. Wide(T2, q) /\ Leaf(T2, q) = [to |-> q + d, flags |-> flags]
        BY <1>2 DEF Added
    <2>2. Leaf(T2, q).to = q + d /\ Leaf(T2, q).flags = flags
        BY <2>1
    <2> QED  BY <1>2, <2>1, <2>2 DEF Sound
<1> QED  BY <1>1, <1>2 DEF SoundTables

\* Removing a page leaves the others sound.
LEMMA RemovedIsSound ==
    ASSUME NEW T, NEW T2, SoundTables(T), Tree(T2), NEW p \in Page,
           OldPage(T, T2, p)
    PROVE  SoundTables(T2)
<1>1. ASSUME NEW q \in Page
      PROVE  Sound(T2, q)
    <2>1. CASE q = p
        BY <2>1 DEF OldPage, Sound
    <2>2. CASE q # p
        BY <2>2, SameIsSound DEF OldPage, SoundTables
    <2> QED  BY <2>1, <2>2
<1> QED  BY <1>1 DEF SoundTables

\* Where every page is the same, no page was added.
LEMMA NothingAdded ==
    ASSUME NEW T, NEW T2, \A q \in Page : SameMap(T, T2, q)
    PROVE  Change(T, T2)
<1>1. Added(T, T2, 0, 0, 0, {})
    BY DEF Added, Front
<1>2. {} \in SUBSET Flags /\ 0 \in Nat /\ 0 \in Int
    OBVIOUS
<1> QED  BY <1>1, <1>2 DEF Change

\* Nothing has changed where nothing has.
LEMMA SameTables ==
    ASSUME NEW T
    PROVE  Change(T, T)
<1>1. \A q \in Page : SameMap(T, T, q)
    BY DEF SameMap, Kept
<1> QED  BY <1>1, NothingAdded

\* map_page as a change of the address space.
LEMMA MapPageChanges ==
    ASSUME NEW T, SoundTables(T), NEW p \in Nat,
           IsCanonical(p) => ~ InRecursiveWindow(p),
           NEW frame \in Nat, NEW flags \in SUBSET Flags
    PROVE  LET R == MapPage(T, p, frame, flags)
           IN  SoundTables(R.tables) /\ Change(T, R.tables)
<1> DEFINE R == MapPage(T, p, frame, flags)
           T2 == R.tables
           d == frame - p
<1> SUFFICES SoundTables(T2) /\ Change(T, T2)
    OBVIOUS
<1>1. MapResult(T, R, p, frame, flags)
    BY MapPageIs DEF SoundTables
<1> HIDE DEF R
<1>2. Tree(T2) /\ d \in Int /\ p + d = frame
    BY <1>1 DEF MapResult
<1>3. CASE R.error = "None"
    <2>1. NewPage(T, T2, p, frame, flags)
        BY <1>1, <1>3 DEF MapResult
    <2>2. Front(p, 1) = {p}
        BY DEF Front
    <2> HIDE DEF T2, d
    <2>3. Added(T, T2, p, 1, d, flags)
        BY <1>2, <2>1, <2>2 DEF NewPage, Added
    <2>4. SoundTables(T2)
        <3>1. 1 \in Nat /\ \A q \in Front(p, 1) : q + d = frame
            BY <1>2, <2>2
        <3> QED  BY <1>2, <2>3, <3>1, AddedIsSound
    <2>5. 1 \in Nat
        OBVIOUS
    <2> QED  BY <1>2, <2>3, <2>4, <2>5 DEF Change
<1>4. CASE R.error # "None"
    <2>1. \A q \in Page : SameMap(T, T2, q)
        BY <1>1, <1>4 DEF MapResult
    <2> HIDE DEF T2
    <2>2. SoundTables(T2)
        BY <1>2, <2>1, SameIsSound DEF SoundTables
    <2> QED  BY <2>1, <2>2, NothingAdded
<1> QED  BY <1>3, <1>4

\* the new pages of T2 are identity-mapped pages of a run, with its flags
NewFrom(T, T2, run, flags) ==
    \A q \in Page : Maps(T2, q) /\ ~ Maps(T, q) =>
        q \in Run(run) /\ Leaf(T2, q).to = q /\ Leaf(T2, q).flags = flags

\* map_range as a change of the address space.
LEMMA MapRangeChanges ==
    ASSUME NEW T, SoundTables(T), NEW run, run.start \in Nat, run.frames \in Nat,
           NEW flags \in SUBSET Flags,
           \A q \in Run(run) : IsCanonical(q) => ~ InRecursiveWindow(q)
    PROVE  LET R == MapRange(T, run, flags)
           IN  /\ SoundTables(R.tables) /\ Change(T, R.tables)
               /\ \A q \in Page : Maps(R.tables, q) => Maps(T, q) \/ q \in Run(run)
               /\ R.error = "AlreadyMapped" => \E q \in Run(run) : q \in Page /\ Maps(T, q)
               /\ SoundTables(WithRecursiveEntry(R.tables))
               /\ Change(T, WithRecursiveEntry(R.tables))
               /\ NewFrom(T, R.tables, run, flags)
               /\ NewFrom(T, WithRecursiveEntry(R.tables), run, flags)
<1> DEFINE R == MapRange(T, run, flags)
           T1 == R.tables
           T2 == WithRecursiveEntry(T1)
           s == run.start
           N == run.frames
<1>1. RangeResult(T, R, s, N, flags)
    BY MapRangeIs DEF SoundTables
<1> HIDE DEF R
<1>2. PICK n \in 0 .. N : Ranged(T, R, s, n, flags)
    BY <1>1 DEF RangeResult
<1>3. /\ s \in Nat /\ N \in Nat /\ n \in Nat /\ 0 \in Int
      /\ Front(s, n) \subseteq Run(run) /\ Front(s, N) = Run(run) /\ Front(s, n) \subseteq Int
    BY <1>2 DEF Front, Run
<1>4. Tree(T1) /\ Tree(T2) /\ \A q \in Page : SameMap(T1, T2, q)
    <2>1. Tree(T1)
        BY <1>2 DEF Ranged
    <2> HIDE DEF T1
    <2> QED  BY <2>1, RecursiveEntryIs
<1>5. Added(T, T1, s, n, 0, flags)
    <2>1. \A q \in Front(s, n) : q + 0 = q
        BY <1>3
    <2> QED  BY <1>2, <2>1 DEF Ranged, Added
<1>6. R.error = "AlreadyMapped" => \E q \in Run(run) : q \in Page /\ Maps(T, q)
    BY <1>1, <1>3 DEF RangeResult
<1> HIDE DEF T1, T2, s, N
<1>7. \A q \in Front(s, n) : q + 0 = q /\ q \in Nat
    <2>1. \A q \in Front(s, n) : q \in Page
        BY <1>5 DEF Added
    <2> QED  BY <1>3, <2>1, PageIsNat
<1>8. Added(T, T2, s, n, 0, flags)
    <2>1. ASSUME NEW q \in Page, q \notin Front(s, n)
          PROVE  SameMap(T, T2, q)
        BY <1>4, <1>5, <2>1, SameMapTwice DEF Added
    <2>2. ASSUME NEW q \in Front(s, n)
          PROVE  /\ q \in Page /\ ~ Maps(T, q) /\ Maps(T2, q) /\ Wide(T2, q)
                 /\ Leaf(T2, q) = [to |-> q + 0, flags |-> flags]
        <3>1. /\ q \in Page /\ ~ Maps(T, q) /\ Maps(T1, q) /\ Wide(T1, q)
              /\ Leaf(T1, q) = [to |-> q + 0, flags |-> flags]
            BY <1>5, <2>2 DEF Added
        <3>2. Maps(T2, q) /\ Wide(T2, q) /\ Leaf(T2, q) = Leaf(T1, q)
            BY <1>4, <3>1 DEF SameMap, Kept
        <3> QED  BY <3>1, <3>2
    <2> QED  BY <2>1, <2>2 DEF Added
<1>9. SoundTables(T1) /\ \A q \in Page : Maps(T1, q) => Maps(T, q) \/ q \in Front(s, n)
    BY <1>3, <1>4, <1>5, <1>7, AddedIsSound
<1>10. SoundTables(T2)
    BY <1>3, <1>4, <1>7, <1>8, AddedIsSound
<1>11. Change(T, T1) /\ Change(T, T2)
    BY <1>3, <1>5, <1>8 DEF Change
<1>12. ASSUME NEW U, Added(T, U, s, n, 0, flags)
       PROVE  NewFrom(T, U, run, flags)
    <2> SUFFICES ASSUME NEW q \in Page, Maps(U, q), ~ Maps(T, q)
                 PROVE  q \in Run(run) /\ Leaf(U, q).to = q /\ Leaf(U, q).flags = flags
        BY DEF NewFrom
    <2>1. q \in Front(s, n)
        BY <1>12 DEF Added, SameMap
    <2>2. Leaf(U, q) = [to |-> q + 0, flags |-> flags] /\ q + 0 = q
        BY <1>7, <1>12, <2>1 DEF Added
    <2> QED  BY <1>3, <2>1, <2>2
<1>13. NewFrom(T, T1, run, flags) /\ NewFrom(T, T2, run, flags)
    BY <1>5, <1>8, <1>12
<1> QED  BY <1>3, <1>6, <1>9, <1>10, <1>11, <1>13 DEF R, T1, T2


Stack == Run(MappedWindow(machine.pagingMarker))

\* the calls before the first page is mapped
EarlyStages == {"memory", "image", "stack", "frames", "grant", "heap", "mapImage"}

\* every mapped page is one of pages
MapsOnly(T, pages) == \A q \in Page : Maps(T, q) => q \in pages

\* the pages mapped before each map_range, and why one may find a page mapped
MappedTrail ==
    /\ stage \in EarlyStages => MapsOnly(tables, {}) /\ error # "AlreadyMapped"
    /\ stage = "mapHeap" => MapsOnly(tables, Run(machine.image))
    /\ stage = "mapFramebuffer" => MapsOnly(tables, Run(machine.image) \cup Run(heap))
    /\ stage = "mapStack" =>
           MapsOnly(tables, Run(machine.image) \cup Run(heap) \cup Run(machine.framebuffer))

\* the image, the framebuffer or the mapped stack window reach into one
\* another, or that window into the heap
RunsOverlap ==
    \/ Run(machine.image) \cap Run(machine.framebuffer) # {}
    \/ Run(machine.image) \cap Stack # {}
    \/ Run(machine.framebuffer) \cap Stack # {}
    \/ Run(heap) \cap Stack # {} /\ ~ NearMarkers(machine)

PagingInv ==
    /\ SoundTables(tables)
    /\ MappedTrail
    /\ error = "AlreadyMapped" => RunsOverlap

\* An empty root maps nothing.
LEMMA NewRootIs ==
    Tree(NewRoot) /\ \A q \in Page : ~ Maps(NewRoot, q)
<1> DEFINE lv == [t \in 1 .. 1 |-> 4]
           of == [t \in 1 .. 1 |-> 0]
           none == [j \in {} |-> 0]
<1>1. NewTable = none /\ DOMAIN NewTable = {}
    BY DEF NewTable
<1>2. NewTable \in Table
    <2>1. {} \in SUBSET (0 .. TABLE_ENTRIES - 1) /\ none \in [{} -> Entry]
        OBVIOUS
    <2> HIDE DEF none
    <2> QED  BY <1>1, <2>1 DEF Table
<1> HIDE DEF none
<1>3. NewRoot \in Seq(Table) /\ Len(NewRoot) = 1 /\ NewRoot[1] = NewTable
    BY <1>2 DEF NewRoot
<1>4. Shape(NewRoot, lv, of)
    BY <1>1, <1>3 DEF Shape, Root
<1>5. Tree(NewRoot)
    <2> HIDE DEF lv, of
    <2> QED  BY <1>4 DEF Tree
<1>6. ASSUME NEW q \in Page, Maps(NewRoot, q) PROVE FALSE
    <2>1. 4 \in 1 .. 4 /\ 4 > 0
        OBVIOUS
    <2>2. Index(q, 4) \in DOMAIN NewRoot[Root]
        BY <1>6, <2>1, NodeIs DEF Maps, Down, UsedAt
    <2> QED  BY <1>1, <1>3, <2>2 DEF Root
<1> QED  BY <1>5, <1>6

\* No call has mapped a page yet.
LEMMA NoPageIsSound ==
    ASSUME NEW T, Tree(T), MapsOnly(T, {})
    PROVE  SoundTables(T)
BY DEF MapsOnly, SoundTables, Sound

\* The boot starts with an empty address space.
LEMMA InitPaging ==
    ASSUME Init
    PROVE  PagingInv
<1>1. tables = NewRoot /\ stage = "memory" /\ error = "None"
    BY DEF Init
<1>2. Tree(tables) /\ MapsOnly(tables, {})
    BY <1>1, NewRootIs DEF MapsOnly
<1>3. SoundTables(tables)
    BY <1>2, NoPageIsSound
<1> QED  BY <1>1, <1>2, <1>3 DEF PagingInv, MappedTrail

\* The calls that do not touch the tables.
LEMMA EarlyKeeps ==
    ASSUME PagingInv, stage \in EarlyStages,
           stage' \in EarlyStages \cup {"halted"}, UNCHANGED <<machine, tables>>,
           error' = error \/ error' # "AlreadyMapped"
    PROVE  PagingInv' /\ Change(tables, tables')
<1>1. Tree(tables) /\ MapsOnly(tables, {}) /\ error # "AlreadyMapped"
    BY DEF PagingInv, SoundTables, MappedTrail
<1>2. SoundTables(tables)
    BY <1>1, NoPageIsSound
<1>3. error' # "AlreadyMapped"
    BY <1>1
<1>4. MappedTrail'
    BY <1>1, <1>3 DEF MappedTrail, EarlyStages
<1>5. Change(tables, tables')
    BY SameTables
<1> QED  BY <1>2, <1>3, <1>4, <1>5 DEF PagingInv

\* What a page-mapping call needs to know of a run.
Mappable(run, flags) ==
    /\ run.start \in Nat /\ run.frames \in Nat /\ flags \in SUBSET Flags
    /\ \A q \in Run(run) : IsCanonical(q) => ~ InRecursiveWindow(q)

\* One map_range of the boot.
LEMMA MapStepKeeps ==
    ASSUME PagingInv, NEW from, NEW to, NEW run, NEW flags,
           MapStep(from, to, run, flags), Mappable(run, flags),
           NEW pages, MapsOnly(tables, pages), pages \cap Run(run) # {} => RunsOverlap
    PROVE  /\ SoundTables(tables') /\ Change(tables, tables')
           /\ error' = "AlreadyMapped" => RunsOverlap'
           /\ UNCHANGED <<machine, heap>>
           /\ stage' = "halted" \/ (stage' = to /\ (to # "active" => MapsOnly(tables', pages \cup Run(run))))
<1> DEFINE R == MapRange(tables, run, flags)
<1>1. SoundTables(tables)
    BY DEF PagingInv
<1>2. /\ SoundTables(R.tables) /\ Change(tables, R.tables)
      /\ \A q \in Page : Maps(R.tables, q) => Maps(tables, q) \/ q \in Run(run)
      /\ R.error = "AlreadyMapped" => \E q \in Run(run) : q \in Page /\ Maps(tables, q)
      /\ SoundTables(WithRecursiveEntry(R.tables))
      /\ Change(tables, WithRecursiveEntry(R.tables))
    BY <1>1, MapRangeChanges DEF Mappable
<1>3. /\ UNCHANGED <<machine, map, heap>>
      /\ \/ /\ R.error = "None" /\ stage' = to /\ error' = error
            /\ tables' = IF to = "active" THEN WithRecursiveEntry(R.tables) ELSE R.tables
         \/ stage' = "halted" /\ error' = R.error /\ tables' = R.tables
    BY DEF MapStep, Fail
<1> HIDE DEF R
<1>4. R.error = "AlreadyMapped" => RunsOverlap
    BY <1>2 DEF MapsOnly
<1>5. (error' = "AlreadyMapped") => RunsOverlap'
    BY <1>3, <1>4 DEF PagingInv, RunsOverlap, Stack
<1>6. MapsOnly(R.tables, pages \cup Run(run))
    BY <1>2 DEF MapsOnly
<1> QED  BY <1>2, <1>3, <1>5, <1>6


\* reserve_range has errors of its own.
LEMMA ReserveErrorIs ==
    ASSUME NEW list, NEW start, NEW frames, NEW kind
    PROVE  ReserveError(list, start, frames, kind)
               \in {"None", "InvalidRange", "TooManyRanges", "RangeNotFound"}
BY DEF ReserveError

\* The calls of initialize_heap map nothing.
LEMMA EarlyCallsKeep ==
    ASSUME PagingInv,
           \/ InitializeMemory \/ ReserveImage \/ ReserveStack
           \/ InitializeFrames \/ GrantHeap \/ ReserveHeap
    PROVE  PagingInv' /\ Change(tables, tables')
<1>1. ASSUME NEW from \in EarlyStages, NEW to \in EarlyStages, NEW run, ReserveStep(from, to, run)
      PROVE  PagingInv' /\ Change(tables, tables')
    <2> DEFINE err == ReserveError(map, run.start, run.frames, "Kernel")
    <2>1. err # "AlreadyMapped"
        BY ReserveErrorIs
    <2>2. /\ stage \in EarlyStages /\ stage' \in EarlyStages \cup {"halted"}
          /\ UNCHANGED <<machine, tables>> /\ (error' = error \/ error' = err)
        BY <1>1 DEF ReserveStep, Fail
    <2> HIDE DEF err
    <2> QED  BY <2>1, <2>2, EarlyKeeps
<1>2. CASE InitializeMemory
    <2> DEFINE err == ReserveError(machine.map, machine.framebuffer.start,
                                   machine.framebuffer.frames, "Device")
    <2>1. err # "AlreadyMapped"
        BY ReserveErrorIs
    <2>2. /\ stage = "memory" /\ stage' \in {"image", "halted"}
          /\ UNCHANGED <<machine, tables>>
          /\ error' \in {error, err, "InvalidRange", "TooManyRanges", "Empty"}
        BY <1>2 DEF InitializeMemory, Fail, CopyError
    <2> HIDE DEF err
    <2> QED  BY <2>1, <2>2, EarlyKeeps DEF EarlyStages
<1>3. CASE InitializeFrames
    BY <1>3, EarlyKeeps DEF InitializeFrames, EarlyStages
<1>4. CASE GrantHeap
    <2>1. /\ stage = "grant" /\ stage' \in {"heap", "halted"} /\ UNCHANGED <<machine, tables>>
          /\ error' = error \/ error' = "NoConventionalMemory"
        BY <1>4 DEF GrantHeap, Fail
    <2> QED  BY <2>1, EarlyKeeps DEF EarlyStages
<1>5. CASE ReserveImage \/ ReserveStack \/ ReserveHeap
    BY <1>1, <1>5 DEF ReserveImage, ReserveStack, ReserveHeap, EarlyStages
<1> QED  BY <1>2, <1>3, <1>4, <1>5

\* The frames of the runs the boot maps.
LEMMA RunsAreMappable ==
    ASSUME MemoryInv, stage \in PagingStages
    PROVE  /\ Mappable(machine.image, ImageFlags)
           /\ Mappable(heap, DataFlags)
           /\ Mappable(machine.framebuffer, DeviceFlags)
           /\ Mappable(MappedWindow(machine.pagingMarker), DataFlags)
           /\ Run(heap) \cap Run(machine.image) = {}
           /\ Run(heap) \cap Run(machine.framebuffer) = {}
           /\ NearMarkers(machine) => Run(heap) \cap Stack = {}
           /\ \A q \in Run(machine.image) \cup Run(heap) : KindAt(map, q) # "Device"
           /\ NearMarkers(machine) => \A q \in Stack : KindAt(map, q) # "Device"
<1> DEFINE m == machine
           W == MappedWindow(m.pagingMarker)
           kernel == KernelFrames(m) \cup Run(heap)
<1>1. m \in Machines /\ Trail(m, map, kernel) /\ HeapApart
    BY DEF MemoryInv, MapTrail
<1>2. /\ m.image.start \in Nat /\ m.image.frames \in Nat
      /\ m.framebuffer.start \in Nat /\ m.framebuffer.frames \in Nat
      /\ W.start \in Nat /\ W.frames \in Nat
      /\ ReservedWindow(m.heapMarker).start \in Nat /\ ReservedWindow(m.heapMarker).frames \in Nat
      /\ NearMarkers(m) => Run(W) \subseteq Run(ReservedWindow(m.heapMarker))
    BY <1>1, MachineIs
<1>3. heap.start \in Nat /\ heap.frames \in Nat
    BY <1>1 DEF HeapApart, Frames!FreeRange
<1>4. ImageFlags \in SUBSET Flags /\ DataFlags \in SUBSET Flags /\ DeviceFlags \in SUBSET Flags
    BY DEF ImageFlags, DataFlags, DeviceFlags, Flags, TableRights
<1>5. \A q \in Physical(m) : IsCanonical(q) => ~ InRecursiveWindow(q)
    BY <1>1, AddressAssumption
<1>6. /\ Run(m.image) \subseteq Physical(m) /\ Run(m.framebuffer) \subseteq Physical(m)
      /\ Run(W) \subseteq Physical(m) /\ Covered(m.map) \subseteq Physical(m)
    BY DEF Physical
<1> HIDE DEF m, W
<1>7. Run(heap) \subseteq Covered(m.map)
    <2> SUFFICES ASSUME NEW f \in Run(heap) PROVE f \in Covered(m.map)
        OBVIOUS
    <2>1. f \in Int /\ Holds(heap, f)
        BY <1>3, RunIs
    <2>2. KindAt(m.map, f) = "Usable"
        BY <1>1, <2>1 DEF HeapApart, m
    <2> QED  BY <1>1, <2>1, <2>2, CoveredIs DEF Trail
<1>8. /\ Run(m.image) \subseteq Int /\ Run(heap) \subseteq Int
      /\ Run(W) \subseteq Int /\ Run(m.image) \subseteq kernel
      /\ (NearMarkers(m) => Run(W) \subseteq kernel) /\ Run(heap) \subseteq kernel
    BY <1>2, <1>3, RunIs DEF KernelFrames
<1>9. \A q \in kernel : q \in Int => KindAt(map, q) # "Device"
    <2> HIDE DEF kernel
    <2>1. \A q \in kernel : q \in Int => KindAt(map, q) \in {"Kernel", "None"}
        BY <1>1 DEF Trail, TrailAt
    <2> QED  BY <2>1
<1> HIDE DEF kernel
<1>10. Mappable(m.image, ImageFlags)
    BY <1>2, <1>4, <1>5, <1>6 DEF Mappable
<1>11. Mappable(heap, DataFlags)
    BY <1>3, <1>4, <1>5, <1>6, <1>7 DEF Mappable
<1>12. Mappable(W, DataFlags)
    BY <1>2, <1>4, <1>5, <1>6 DEF Mappable
<1>13. Mappable(m.framebuffer, DeviceFlags)
    BY <1>2, <1>4, <1>5, <1>6 DEF Mappable
<1>14. ASSUME NEW f \in Run(heap)
       PROVE  /\ f \notin Run(m.image) /\ f \notin Run(m.framebuffer)
              /\ NearMarkers(m) => f \notin Run(W)
    <2>1. f \in Int /\ Holds(heap, f)
        BY <1>3, RunIs
    <2>2. ~ Holds(m.image, f) /\ ~ Holds(m.framebuffer, f) /\ ~ Holds(ReservedWindow(m.heapMarker), f)
        BY <1>1, <2>1 DEF HeapApart, m
    <2> QED  BY <1>2, <2>1, <2>2, RunIs
<1>15. /\ \A q \in Run(m.image) \cup Run(heap) : KindAt(map, q) # "Device"
       /\ NearMarkers(m) => \A q \in Run(W) : KindAt(map, q) # "Device"
    BY <1>8, <1>9
<1> QED  BY <1>10, <1>11, <1>12, <1>13, <1>14, <1>15 DEF m, W, Stack

\* The four map_range calls of paging::initialize.
LEMMA MapCallsKeep ==
    ASSUME MemoryInv, PagingInv, MapImage \/ MapHeap \/ MapFramebuffer \/ MapStack
    PROVE  PagingInv' /\ Change(tables, tables')
<1>1. stage \in PagingStages
    BY DEF MapImage, MapHeap, MapFramebuffer, MapStack, MapStep, PagingStages
<1> DEFINE image == Run(machine.image)
           fb == Run(machine.framebuffer)
           h == Run(heap)
<1>2. /\ Mappable(machine.image, ImageFlags) /\ Mappable(heap, DataFlags)
      /\ Mappable(machine.framebuffer, DeviceFlags)
      /\ Mappable(MappedWindow(machine.pagingMarker), DataFlags)
      /\ h \cap image = {} /\ h \cap fb = {}
      /\ NearMarkers(machine) => h \cap Stack = {}
    BY <1>1, RunsAreMappable
<1>3. ASSUME NEW from, NEW to \in PagingStages, NEW run, NEW flags, NEW pages,
             MapStep(from, to, run, flags), Mappable(run, flags), MapsOnly(tables, pages),
             pages \cap Run(run) # {} => RunsOverlap
      PROVE  /\ SoundTables(tables') /\ Change(tables, tables')
             /\ error' = "AlreadyMapped" => RunsOverlap'
             /\ UNCHANGED <<machine, heap>>
             /\ \/ stage' = "halted"
                \/ stage' = to /\ (to # "active" => MapsOnly(tables', pages \cup Run(run)))
    BY <1>3, MapStepKeeps
<1>4. CASE MapImage
    <2>1. stage = "mapImage" /\ MapStep("mapImage", "mapHeap", machine.image, ImageFlags)
        BY <1>4 DEF MapImage, MapStep
    <2>2. MapsOnly(tables, {})
        BY <2>1 DEF PagingInv, MappedTrail, EarlyStages
    <2>3. /\ SoundTables(tables') /\ Change(tables, tables')
          /\ error' = "AlreadyMapped" => RunsOverlap'
          /\ UNCHANGED <<machine, heap>>
          /\ stage' = "halted" \/ (stage' = "mapHeap" /\ MapsOnly(tables', {} \cup image))
        BY <1>2, <1>3, <2>1, <2>2 DEF PagingStages
    <2>4. MappedTrail'
        BY <2>3 DEF MappedTrail, EarlyStages, MapsOnly
    <2> QED  BY <2>3, <2>4 DEF PagingInv
<1>5. CASE MapHeap
    <2>1. stage = "mapHeap" /\ MapStep("mapHeap", "mapFramebuffer", heap, DataFlags)
        BY <1>5 DEF MapHeap, MapStep
    <2>2. MapsOnly(tables, image)
        BY <2>1 DEF PagingInv, MappedTrail
    <2>3. /\ SoundTables(tables') /\ Change(tables, tables')
          /\ error' = "AlreadyMapped" => RunsOverlap'
          /\ UNCHANGED <<machine, heap>>
          /\ stage' = "halted" \/ (stage' = "mapFramebuffer" /\ MapsOnly(tables', image \cup h))
        BY <1>2, <1>3, <2>1, <2>2 DEF PagingStages
    <2>4. MappedTrail'
        BY <2>3 DEF MappedTrail, EarlyStages
    <2> QED  BY <2>3, <2>4 DEF PagingInv
<1>6. CASE MapFramebuffer
    <2>1. /\ stage = "mapFramebuffer"
          /\ MapStep("mapFramebuffer", "mapStack", machine.framebuffer, DeviceFlags)
        BY <1>6 DEF MapFramebuffer, MapStep
    <2>2. MapsOnly(tables, image \cup h)
        BY <2>1 DEF PagingInv, MappedTrail
    <2>3. (image \cup h) \cap fb # {} => RunsOverlap
        BY <1>2 DEF RunsOverlap
    <2>4. /\ SoundTables(tables') /\ Change(tables, tables')
          /\ error' = "AlreadyMapped" => RunsOverlap'
          /\ UNCHANGED <<machine, heap>>
          /\ stage' = "halted" \/ (stage' = "mapStack" /\ MapsOnly(tables', (image \cup h) \cup fb))
        BY <1>2, <1>3, <2>1, <2>2, <2>3 DEF PagingStages
    <2>5. MappedTrail'
        BY <2>4 DEF MappedTrail, EarlyStages
    <2> QED  BY <2>4, <2>5 DEF PagingInv
<1>7. CASE MapStack
    <2>1. /\ stage = "mapStack"
          /\ MapStep("mapStack", "active", MappedWindow(machine.pagingMarker), DataFlags)
        BY <1>7 DEF MapStack, MapStep
    <2>2. MapsOnly(tables, image \cup h \cup fb)
        BY <2>1 DEF PagingInv, MappedTrail
    <2>3. (image \cup h \cup fb) \cap Run(MappedWindow(machine.pagingMarker)) # {} => RunsOverlap
        BY <1>2 DEF RunsOverlap, Stack
    <2>4. /\ SoundTables(tables') /\ Change(tables, tables')
          /\ error' = "AlreadyMapped" => RunsOverlap'
          /\ stage' \in {"halted", "active"}
        BY <1>2, <1>3, <2>1, <2>2, <2>3 DEF PagingStages
    <2>5. MappedTrail'
        BY <2>4 DEF MappedTrail, EarlyStages
    <2> QED  BY <2>4, <2>5 DEF PagingInv
<1> QED  BY <1>4, <1>5, <1>6, <1>7


\* The drivers' calls once paging is active.
LEMMA DriversKeep ==
    ASSUME MemoryInv, PagingInv, Drivers
    PROVE  PagingInv' /\ Change(tables, tables')
<1>1. Running /\ stage = "active" /\ stage' = "active" /\ UNCHANGED <<machine, error, map, heap>>
    BY DEF Drivers, MapDevicePage, MapDriverPage, UnmapDriverPage, Running
<1>2. machine \in Machines
    BY DEF MemoryInv
<1>3. SoundTables(tables)
    BY DEF PagingInv
<1>4. \A p \in machine.driverPages : p \in Nat /\ ~ InRecursiveWindow(p)
    BY <1>2, AddressAssumption
<1>5. machine.driverFrames \subseteq Nat
    BY <1>2, AddressAssumption
<1>7. SoundTables(tables') /\ Change(tables, tables')
    <2>1. ASSUME NEW page \in machine.driverPages, NEW frame \in machine.driverFrames,
                 MapDevicePage(page, frame)
          PROVE  SoundTables(tables') /\ Change(tables, tables')
        <3>1. /\ tables' = MapPage(tables, page, frame, DeviceFlags).tables
              /\ page \in Nat /\ ~ InRecursiveWindow(page) /\ frame \in Nat
            BY <1>4, <1>5, <2>1 DEF MapDevicePage
        <3>2. DeviceFlags \in SUBSET Flags
            BY DEF DeviceFlags, Flags, TableRights
        <3> QED  BY <1>3, <3>1, <3>2, MapPageChanges
    <2>2. ASSUME NEW page \in machine.driverPages, NEW frame \in machine.driverFrames,
                 NEW flags \in DriverFlags, MapDriverPage(page, frame, flags)
          PROVE  SoundTables(tables') /\ Change(tables, tables')
        <3>1. /\ tables' = MapPage(tables, page, frame, flags).tables
              /\ page \in Nat /\ ~ InRecursiveWindow(page) /\ frame \in Nat
            BY <1>4, <1>5, <2>2 DEF MapDriverPage
        <3>2. flags \in SUBSET Flags
            BY FlagsAssumption DEF Flags
        <3> QED  BY <1>3, <3>1, <3>2, MapPageChanges
    <2>3. ASSUME NEW page \in machine.driverPages, UnmapDriverPage(page)
          PROVE  SoundTables(tables') /\ Change(tables, tables')
        <3>1. /\ tables' = UnmapPage(tables, page) /\ IsMapped(tables, page)
              /\ VirtualRangeError(page, 1) = "None"
              /\ page \in Nat /\ ~ InRecursiveWindow(page)
            BY <1>4, <2>3 DEF UnmapDriverPage
        <3>2. page \in Page
            <4>1. IsCanonical(page) /\ ~ (page + 1 > ADDRESS_PAGES)
                BY <3>1 DEF VirtualRangeError
            <4>2. ADDRESS_PAGES \in Nat
                BY PagingAssumption
            <4>3. page \in 0 .. ADDRESS_PAGES - 1
                BY <3>1, <4>1, <4>2
            <4> QED  BY <3>1, <4>1, <4>3 DEF Page
        <3>3. Maps(tables, page)
            BY <3>1, PathIs
        <3>4. Tree(tables') /\ OldPage(tables, tables', page)
            BY <1>3, <3>1, <3>2, <3>3, UnmapPageIs DEF SoundTables
        <3> QED  BY <1>3, <3>2, <3>4, RemovedIsSound DEF Change
    <2> QED  BY <2>1, <2>2, <2>3 DEF Drivers
<1>8. MappedTrail'
    BY <1>1 DEF MappedTrail, EarlyStages
<1>9. (error' = "AlreadyMapped") => RunsOverlap'
    BY <1>1 DEF PagingInv, RunsOverlap, Stack
<1> QED  BY <1>1, <1>7, <1>8, <1>9 DEF PagingInv

\* Every step keeps the tables sound and changes the address space as it may.
LEMMA NextPaging ==
    ASSUME MemoryInv, PagingInv, [Next]_vars
    PROVE  PagingInv' /\ Change(tables, tables')
<1>1. CASE UNCHANGED vars
    <2>1. UNCHANGED <<machine, stage, error, map, heap, tables>>
        BY <1>1 DEF vars
    <2>2. PagingInv'
        BY <2>1 DEF PagingInv, MappedTrail, RunsOverlap, Stack
    <2> QED  BY <2>1, <2>2, SameTables
<1> QED  BY <1>1, EarlyCallsKeep, MapCallsKeep, DriversKeep DEF Next

\* The paging invariant holds throughout.
LEMMA PagingInvariant ==
    Spec => []PagingInv
<1>1. Init => PagingInv
    BY InitPaging
<1>2. MemoryInv /\ PagingInv /\ [Next]_vars => PagingInv'
    BY NextPaging
<1> QED  BY <1>1, <1>2, MemoryInvariant, PTL DEF Spec

\* The rights of a page are those of its entry, whatever the tables above it
\* were created for or widened to by later calls of map_to, for every frame and
\* all flags that map_page is called with.
LEMMA EntriesDecide ==
    PagingInv => WalksGrantTheEntry
<1> SUFFICES ASSUME PagingInv, NEW p \in MappedPages(tables)
             PROVE  Translation(tables, p).rights = LeafFlags(tables, p)
    BY DEF WalksGrantTheEntry
<1>1. Tree(tables)
    BY DEF PagingInv, SoundTables
<1>2. p \in Page /\ Maps(tables, p)
    BY <1>1, MappedIs
<1>3. Wide(tables, p)
    BY <1>2 DEF PagingInv, SoundTables, Sound
<1>4. /\ Translation(tables, p) = [frame |-> Leaf(tables, p).to, rights |-> Leaf(tables, p).flags]
      /\ LeafFlags(tables, p) = Leaf(tables, p).flags
    BY <1>2, <1>3, TranslationIs
<1> QED  BY <1>4

\* device memory among the new pages of T2 is uncached and not executable
NewIsUncached(T, T2) ==
    \A q \in Page : Maps(T2, q) /\ ~ Maps(T, q) =>
        (KindAt(map, Leaf(T2, q).to) = "Device" =>
            {"NO_CACHE", "NO_EXECUTE"} \subseteq Leaf(T2, q).flags)

\* The new pages of a map_range.
LEMMA MapStepAdds ==
    ASSUME PagingInv, NEW from, NEW to, NEW run, NEW flags,
           MapStep(from, to, run, flags), Mappable(run, flags),
           \/ {"NO_CACHE", "NO_EXECUTE"} \subseteq flags
           \/ \A q \in Run(run) : KindAt(map, q) # "Device"
    PROVE  NewIsUncached(tables, tables')
<1> DEFINE R == MapRange(tables, run, flags)
<1>1. SoundTables(tables)
    BY DEF PagingInv
<1>2. NewFrom(tables, R.tables, run, flags) /\ NewFrom(tables, WithRecursiveEntry(R.tables), run, flags)
    BY <1>1, MapRangeChanges DEF Mappable
<1>3. tables' = R.tables \/ tables' = WithRecursiveEntry(R.tables)
    BY DEF MapStep, Fail
<1> HIDE DEF R
<1>4. NewFrom(tables, tables', run, flags)
    BY <1>2, <1>3
<1> QED  BY <1>4 DEF NewFrom, NewIsUncached

\* A device page.
LEMMA MapDevicePageAdds ==
    ASSUME MemoryInv, PagingInv, NEW page \in machine.driverPages,
           NEW frame \in machine.driverFrames, MapDevicePage(page, frame)
    PROVE  NewIsUncached(tables, tables')
<1> DEFINE R == MapPage(tables, page, frame, DeviceFlags)
<1>1. /\ page \in Nat /\ ~ InRecursiveWindow(page) /\ frame \in Nat
      /\ tables' = R.tables /\ Tree(tables)
    BY AddressAssumption DEF MemoryInv, PagingInv, SoundTables, MapDevicePage
<1>2. DeviceFlags \in SUBSET Flags /\ {"NO_CACHE", "NO_EXECUTE"} \subseteq DeviceFlags
    BY DEF DeviceFlags, Flags, TableRights
<1>3. MapResult(tables, R, page, frame, DeviceFlags)
    BY <1>1, <1>2, MapPageIs
<1> HIDE DEF R
<1> SUFFICES ASSUME NEW q \in Page, Maps(tables', q), ~ Maps(tables, q)
             PROVE  {"NO_CACHE", "NO_EXECUTE"} \subseteq Leaf(tables', q).flags
    BY DEF NewIsUncached
<1>4. R.error = "None" /\ q = page
    BY <1>1, <1>3 DEF MapResult, NewPage, SameMap
<1>5. Leaf(tables', q) = [to |-> frame, flags |-> DeviceFlags]
    BY <1>1, <1>3, <1>4 DEF MapResult, NewPage
<1> QED  BY <1>2, <1>5

\* Every step but a caller's own map_page.
LEMMA NextMapsUncached ==
    ASSUME MemoryInv, PagingInv, PagingInv', [Next]_vars, NearMarkers(machine),
           ~ \E page \in machine.driverPages, frame \in machine.driverFrames, flags \in DriverFlags :
                 MapDriverPage(page, frame, flags)
    PROVE  NewIsUncached(tables, tables')
<1>1. CASE tables' = tables
    BY <1>1 DEF NewIsUncached
<1>2. CASE MapImage \/ MapHeap \/ MapFramebuffer \/ MapStack
    <2>1. stage \in PagingStages
        BY <1>2 DEF MapImage, MapHeap, MapFramebuffer, MapStack, MapStep, PagingStages
    <2>2. /\ Mappable(machine.image, ImageFlags) /\ Mappable(heap, DataFlags)
          /\ Mappable(machine.framebuffer, DeviceFlags)
          /\ Mappable(MappedWindow(machine.pagingMarker), DataFlags)
          /\ \A q \in Run(machine.image) \cup Run(heap) : KindAt(map, q) # "Device"
          /\ \A q \in Run(MappedWindow(machine.pagingMarker)) : KindAt(map, q) # "Device"
        BY <2>1, RunsAreMappable DEF Stack
    <2>3. {"NO_CACHE", "NO_EXECUTE"} \subseteq DeviceFlags
        BY DEF DeviceFlags
    <2>4. CASE MapImage
        BY <2>2, <2>4, MapStepAdds DEF MapImage
    <2>5. CASE MapHeap
        BY <2>2, <2>5, MapStepAdds DEF MapHeap
    <2>6. CASE MapFramebuffer
        BY <2>2, <2>3, <2>6, MapStepAdds DEF MapFramebuffer
    <2>7. CASE MapStack
        BY <2>2, <2>7, MapStepAdds DEF MapStack
    <2> QED  BY <1>2, <2>4, <2>5, <2>6, <2>7
<1>3. CASE Drivers
    <2>1. PICK page \in machine.driverPages :
              \/ \E frame \in machine.driverFrames : MapDevicePage(page, frame)
              \/ UnmapDriverPage(page)
        BY <1>3 DEF Drivers
    <2>2. CASE \E frame \in machine.driverFrames : MapDevicePage(page, frame)
        BY <2>2, MapDevicePageAdds
    <2>3. CASE UnmapDriverPage(page)
        <3>1. /\ tables' = UnmapPage(tables, page) /\ IsMapped(tables, page)
              /\ VirtualRangeError(page, 1) = "None"
              /\ page \in Nat /\ ~ InRecursiveWindow(page) /\ Tree(tables)
            BY <2>3, AddressAssumption DEF UnmapDriverPage, MemoryInv, PagingInv, SoundTables
        <3>2. page \in Page
            <4>1. IsCanonical(page) /\ ~ (page + 1 > ADDRESS_PAGES)
                BY <3>1 DEF VirtualRangeError
            <4>2. ADDRESS_PAGES \in Nat
                BY PagingAssumption
            <4>3. page \in 0 .. ADDRESS_PAGES - 1
                BY <3>1, <4>1, <4>2
            <4> QED  BY <3>1, <4>1, <4>3 DEF Page
        <3>3. Maps(tables, page)
            BY <3>1, PathIs
        <3>4. OldPage(tables, tables', page)
            BY <3>1, <3>2, <3>3, UnmapPageIs
        <3> QED  BY <3>4 DEF OldPage, SameMap, NewIsUncached
    <2> QED  BY <2>1, <2>2, <2>3
<1>4. CASE \/ InitializeMemory \/ ReserveImage \/ ReserveStack
           \/ InitializeFrames \/ GrantHeap \/ ReserveHeap
    BY <1>1, <1>4 DEF InitializeMemory, ReserveImage, ReserveStack, ReserveStep,
        InitializeFrames, GrantHeap, ReserveHeap
<1> QED  BY <1>1, <1>2, <1>3, <1>4 DEF Next, vars

\* Every page has exactly the rights its mapping asked for, for every frame and
\* all flags that map_page is called with; and no other call of the kernel maps
\* device memory cached or executable, on machines whose two stack markers are
\* not more than a page apart.
THEOREM PagesHaveTheirRights ==
    Spec => RightsAreAsRequested
<1>1. ASSUME MemoryInv, PagingInv, PagingInv', [Next]_vars PROVE MapsDevicesUncached
    <2> SUFFICES ASSUME NearMarkers(machine),
                        ~ \E page \in machine.driverPages, frame \in machine.driverFrames,
                             flags \in DriverFlags : MapDriverPage(page, frame, flags),
                        NEW p \in MappedPages(tables'), ~ IsMapped(tables, p)
                 PROVE  IsUncached(Translation(tables', p))
        BY DEF MapsDevicesUncached
    <2>1. NewIsUncached(tables, tables')
        BY <1>1, NextMapsUncached
    <2>2. SoundTables(tables')
        BY <1>1 DEF PagingInv
    <2>3. p \in Page /\ Maps(tables', p)
        BY <2>2, MappedIs DEF SoundTables
    <2>4. ~ Maps(tables, p)
        BY PathIs
    <2>5. Wide(tables', p)
        BY <2>2, <2>3 DEF SoundTables, Sound
    <2>6. Translation(tables', p) = [frame |-> Leaf(tables', p).to, rights |-> Leaf(tables', p).flags]
        BY <2>3, <2>5, TranslationIs
    <2> QED  BY <2>1, <2>3, <2>4, <2>6 DEF NewIsUncached, IsUncached
<1>2. PagingInv' => WalksGrantTheEntry'
    BY EntriesDecide, PTL
<1>3. MemoryInv /\ PagingInv /\ PagingInv' /\ [Next]_vars
          => [WalksGrantTheEntry' /\ MapsDevicesUncached]_vars
    BY <1>1, <1>2
<1> QED  BY <1>3, MemoryInvariant, PagingInvariant, PTL DEF Spec, RightsAreAsRequested

\* The heap is exclusively owned: initialize_heap grants usable memory without a
\* frame of the image, the framebuffer or the window it reserved for the stack.
\* paging::initialize fails on a page in use only if the image, the framebuffer
\* and the stack window it maps reach into one another, or if that window
\* reaches into the heap from a marker more than a page away from the first.
THEOREM HeapIsOwned ==
    Spec => []HeapIsExclusive
<1>1. MemoryInv /\ PagingInv => HeapIsExclusive
    <2> SUFFICES ASSUME MemoryInv, PagingInv
                 PROVE  HeapIsExclusive
        OBVIOUS
    <2>1. error = "AlreadyMapped" => RunsOverlap
        BY DEF PagingInv
    <2>2. ASSUME stage \in PagingStages, NEW f \in Run(heap)
          PROVE  /\ KindAt(machine.map, f) = "Usable"
                 /\ f \notin Run(machine.image) \cup Run(machine.framebuffer)
                 /\ f \notin Run(ReservedWindow(machine.heapMarker))
        <3>1. machine \in Machines /\ HeapApart
            BY <2>2 DEF MemoryInv
        <3>2. heap.start \in Nat /\ heap.frames \in Nat
            BY <3>1 DEF HeapApart, Frames!FreeRange
        <3>3. f \in Int /\ Holds(heap, f)
            BY <2>2, <3>2, RunIs
        <3>4. /\ KindAt(machine.map, f) = "Usable" /\ ~ Holds(machine.image, f)
              /\ ~ Holds(machine.framebuffer, f) /\ ~ Holds(ReservedWindow(machine.heapMarker), f)
            BY <3>1, <3>3 DEF HeapApart
        <3> QED  BY <3>1, <3>3, <3>4, MachineIs, RunIs
    <2> QED  BY <2>1, <2>2 DEF HeapIsExclusive, RunsOverlap, Stack
<1> QED  BY <1>1, MemoryInvariant, PagingInvariant, PTL

------------------------------------------------------------------------------
(* The tables implement the address space.                                 *)

Mapping(T) == [p \in MappedPages(T) |-> Translation(T, p)]

\* What the hardware finds for the pages of sound tables.
LEMMA MappingIs ==
    ASSUME NEW T, SoundTables(T)
    PROVE  /\ \A p : p \in DOMAIN Mapping(T) <=> p \in Page /\ Maps(T, p)
           /\ \A p \in DOMAIN Mapping(T) :
                  Mapping(T)[p] = [frame |-> Leaf(T, p).to, rights |-> Leaf(T, p).flags]
<1>1. Tree(T) /\ DOMAIN Mapping(T) = MappedPages(T)
    BY DEF SoundTables, Mapping
<1>2. \A p : p \in MappedPages(T) <=> p \in Page /\ Maps(T, p)
    BY <1>1, MappedIs
<1>3. ASSUME NEW p \in MappedPages(T)
      PROVE  Mapping(T)[p] = [frame |-> Leaf(T, p).to, rights |-> Leaf(T, p).flags]
    <2>1. Maps(T, p) /\ Wide(T, p)
        BY <1>2 DEF SoundTables, Sound
    <2> QED  BY <2>1, TranslationIs DEF Mapping
<1> QED  BY <1>1, <1>2, <1>3

\* A change of the tables is a step of the address space.
LEMMA ChangeIsStep ==
    ASSUME NEW T, NEW T2, SoundTables(T), SoundTables(T2),
           Change(T, T2)
    PROVE  Space!Map(Mapping(T), Mapping(T2)) \/ Space!Unmap(Mapping(T), Mapping(T2))
<1> DEFINE M == Mapping(T)
           M2 == Mapping(T2)
<1>1. /\ \A p : p \in DOMAIN M <=> p \in Page /\ Maps(T, p)
      /\ \A p \in DOMAIN M : M[p] = [frame |-> Leaf(T, p).to, rights |-> Leaf(T, p).flags]
      /\ \A p : p \in DOMAIN M2 <=> p \in Page /\ Maps(T2, p)
      /\ \A p \in DOMAIN M2 : M2[p] = [frame |-> Leaf(T2, p).to, rights |-> Leaf(T2, p).flags]
    BY MappingIs
<1> HIDE DEF M, M2
<1>2. ASSUME NEW p \in Page, SameMap(T, T2, p)
      PROVE  (p \in DOMAIN M2 <=> p \in DOMAIN M) /\ (p \in DOMAIN M => M2[p] = M[p])
    BY <1>1, <1>2 DEF SameMap, Kept
<1>3. ASSUME NEW a \in Nat, NEW n \in Nat, NEW d \in Int, NEW flags, Added(T, T2, a, n, d, flags)
      PROVE  Space!Map(M, M2)
    <2>1. ASSUME NEW p \in Page, p \notin Front(a, n)
          PROVE  (p \in DOMAIN M2 <=> p \in DOMAIN M) /\ (p \in DOMAIN M => M2[p] = M[p])
        BY <1>2, <1>3, <2>1 DEF Added
    <2>2. ASSUME NEW p \in Front(a, n)
          PROVE  /\ p \in DOMAIN M2 /\ p \notin DOMAIN M
                 /\ M2[p].frame = p + d /\ M2[p].rights = flags
        <3>1. /\ p \in Page /\ ~ Maps(T, p) /\ Maps(T2, p)
              /\ Leaf(T2, p) = [to |-> p + d, flags |-> flags]
            BY <1>3, <2>2 DEF Added
        <3>2. Leaf(T2, p).to = p + d /\ Leaf(T2, p).flags = flags
            BY <3>1
        <3> QED  BY <1>1, <3>1, <3>2
    <2>3. DOMAIN M \subseteq DOMAIN M2 /\ DOMAIN M2 \ DOMAIN M = Front(a, n)
        BY <1>1, <2>1, <2>2
    <2>4. \A p \in DOMAIN M \cap DOMAIN M2 : M2[p] = M[p]
        BY <1>1, <2>1, <2>2
    <2>5. ASSUME NEW p \in Front(a, n), NEW q \in Front(a, n)
          PROVE  /\ p .. q \subseteq Front(a, n)
                 /\ M2[p].frame - p = M2[q].frame - q
                 /\ M2[p].rights = M2[q].rights
        <3>1. p .. q \subseteq Front(a, n) /\ p \in Int /\ q \in Int
            BY DEF Front
        <3>2. (p + d) - p = d /\ (q + d) - q = d
            BY <3>1
        <3> QED  BY <2>2, <3>1, <3>2
    <2> QED  BY <2>3, <2>4, <2>5 DEF Space!Map, Space!Kept
<1>4. ASSUME NEW p \in Page, OldPage(T, T2, p)
      PROVE  Space!Unmap(M, M2)
    <2>1. p \in DOMAIN M /\ p \notin DOMAIN M2
        BY <1>1, <1>4 DEF OldPage
    <2>2. \A q \in Page : q # p =>
              (q \in DOMAIN M2 <=> q \in DOMAIN M) /\ (q \in DOMAIN M => M2[q] = M[q])
        BY <1>2, <1>4 DEF OldPage
    <2>3. DOMAIN M2 = DOMAIN M \ {p}
        BY <1>1, <2>1, <2>2
    <2>4. \A q \in DOMAIN M \cap DOMAIN M2 : M2[q] = M[q]
        BY <1>1, <2>1, <2>2
    <2> QED  BY <2>1, <2>3, <2>4 DEF Space!Unmap, Space!Kept
<1> QED  BY <1>3, <1>4 DEF Change, M, M2

\* The page tables implement the address space paging.rs promises: whatever
\* tables are created, shared, widened or left behind by a call that failed, the
\* translation the hardware finds by walking them changes one run of new pages,
\* or one unmapped page, at a time, and never for a page in use.
THEOREM TablesRefineAddressSpace ==
    Spec => TablesImplementAddressSpace
<1>1. Init => Space!Init
    <2> SUFFICES ASSUME Init PROVE mapping = <<>>
        BY DEF Space!Init
    <2>1. tables = NewRoot
        BY DEF Init
    <2>2. MappedPages(tables) = {}
        BY <2>1, NewRootIs, MappedIs
    <2> QED  BY <2>2 DEF mapping
<1>2. MemoryInv /\ PagingInv /\ PagingInv' /\ [Next]_vars => [Space!Next]_mapping
    <2> SUFFICES ASSUME MemoryInv, PagingInv, PagingInv', [Next]_vars
                 PROVE  Space!Next
        OBVIOUS
    <2>1. Change(tables, tables')
        BY NextPaging
    <2>2. SoundTables(tables) /\ SoundTables(tables')
        BY DEF PagingInv
    <2>3. /\ Space!Map(Mapping(tables), Mapping(tables'))
             \/ Space!Unmap(Mapping(tables), Mapping(tables'))
        BY <2>1, <2>2, ChangeIsStep
    <2>4. mapping = Mapping(tables) /\ mapping' = Mapping(tables')
        BY DEF mapping, Mapping
    <2>5. Space!Map(mapping, mapping') \/ Space!Unmap(mapping, mapping')
        BY <2>3, <2>4
    <2> QED  BY <2>5 DEF Space!Next
<1>3. Spec => Space!Init /\ [][Space!Next]_mapping
    BY <1>1, <1>2, MemoryInvariant, PagingInvariant, PTL DEF Spec
<1> QED  BY <1>3 DEF TablesImplementAddressSpace, Space!Spec

==============================================================================
