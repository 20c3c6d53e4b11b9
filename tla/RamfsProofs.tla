----------------------------- MODULE RamfsProofs ----------------------------
(***************************************************************************)
(* Lemmas about Ramfs: the operations of fs.c keep the inode table, the    *)
(* block chains and the bitmap consistent, and do to the contents of the   *)
(* files what FileSpec says, for any number of inodes and blocks, any      *)
(* block size and any contents.                                            *)
(***************************************************************************)
EXTENDS Ramfs, WellFoundedInduction, TLAPS

-----------------------------------------------------------------------------
(* Arithmetic. *)

(* A nonempty set of naturals has a least element. *)
LEMMA MinFacts ==
  ASSUME NEW S \in SUBSET Nat, S # {}
  PROVE  Min(S) \in S /\ \A k \in S : Min(S) <= k
<1>1. \E m \in S : \A k \in S : ~ (<<k, m>> \in OpToRel(<, Nat))
  BY WFMin, NatLessThanWellFounded, Zenon
<1>2. PICK m \in S : \A k \in S : ~ (<<k, m>> \in OpToRel(<, Nat))
  BY <1>1, Zenon
<1>3. \A k \in S : ~ (k < m)
  BY <1>2, Zenon DEF OpToRel
<1>4. \A k \in S : m <= k
  BY <1>3
<1> QED BY <1>4, Zenon DEF Min

(* Induction on sets of naturals. *)
LEMMA NatSetInduction ==
  ASSUME NEW G, 0 \in G, \A n \in Nat : n \in G => n + 1 \in G
  PROVE  Nat \subseteq G
<1> DEFINE T == Nat \ G
<1> SUFFICES ASSUME T # {} PROVE FALSE
  BY Zenon
<1>1. Min(T) \in T /\ \A k \in T : Min(T) <= k
  <2>1. T \subseteq Nat
    OBVIOUS
  <2> HIDE DEF T
  <2> QED BY <2>1, MinFacts
<1>2. PICK x \in T : \A k \in T : x <= k
  BY <1>1
<1>3. x \in Nat /\ x # 0
  OBVIOUS
<1>4. x - 1 \in Nat /\ x - 1 < x /\ (x - 1) + 1 = x
  BY <1>3
<1>5. x - 1 \in G
  BY <1>2, <1>3, <1>4
<1>6. (x - 1) + 1 \in G
  BY <1>4, <1>5
<1> QED BY <1>4, <1>6

LEMMA TwoInts ==
  ASSUME NEW a \in Int, NEW b \in Int
  PROVE  /\ Min({a, b}) = IF a <= b THEN a ELSE b
         /\ Max({a, b}) = IF a <= b THEN b ELSE a
<1>1. Min({a, b}) = IF a <= b THEN a ELSE b
  BY DEF Min
<1>2. Max({a, b}) = IF a <= b THEN b ELSE a
  BY DEF Max
<1> QED BY <1>1, <1>2

LEMMA MaxZero ==
  ASSUME NEW m \in Int
  PROVE  Max({0, m}) = IF 0 <= m THEN m ELSE 0
BY DEF Max

LEMMA ThreeInts ==
  ASSUME NEW a \in Int, NEW b \in Int, NEW c \in Int
  PROVE  /\ Min({a, b, c}) \in {a, b, c}
         /\ Min({a, b, c}) <= a /\ Min({a, b, c}) <= b /\ Min({a, b, c}) <= c
<1>1. \E m \in {a, b, c} : \A k \in {a, b, c} : m <= k
  OBVIOUS
<1>2. Min({a, b, c}) \in {a, b, c} /\ \A k \in {a, b, c} : Min({a, b, c}) <= k
  BY <1>1 DEF Min
<1> QED BY <1>2

(* The product grows with each factor by the other factor. *)
LEMMA Rows ==
  ASSUME NEW a \in Nat, NEW b \in Nat, NEW w \in Nat, a < b
  PROVE  a * w + w <= b * w
<1>1. PICK d \in Nat : b = a + 1 + d
  <2>1. b - a - 1 \in Nat /\ b = a + 1 + (b - a - 1)
    OBVIOUS
  <2> QED BY <2>1
<1>2. b * w = a * w + w + d * w
  BY <1>1
<1>3. d * w \in Nat /\ a * w \in Nat
  OBVIOUS
<1> QED BY <1>2, <1>3

(* Quotient and remainder: their bounds, and that they are the only ones.  *)
LEMMA Quotient ==
  ASSUME NEW a \in Nat, NEW w \in Nat \ {0}
  PROVE  /\ a \div w \in Nat /\ (a \div w) * w \in Nat
         /\ (a \div w) * w <= a /\ a < (a \div w) * w + w
         /\ (a % w) \in 0 .. w - 1 /\ a = (a \div w) * w + (a % w)
<1>1. a \div w \in Nat /\ (a \div w) * w <= a /\ a < (a \div w) * w + w
  OBVIOUS
<1>2. (a % w) \in 0 .. w - 1
  OBVIOUS
<1>3. a = (a \div w) * w + (a % w)
  OBVIOUS
<1>4. (a \div w) * w \in Nat
  BY <1>1
<1> QED BY <1>1, <1>2, <1>3, <1>4

LEMMA OnlyQuotient ==
  ASSUME NEW a \in Nat, NEW w \in Nat \ {0}, NEW q \in Nat,
         q * w <= a, a < q * w + w
  PROVE  a \div w = q /\ (a % w) = a - q * w
<1> DEFINE p == a \div w
<1>1. p \in Nat /\ p * w \in Nat /\ p * w <= a /\ a < p * w + w /\ a = p * w + (a % w)
  BY Quotient
<1>2. (a % w) \in Int
  BY Quotient
<1> HIDE DEF p
<1>3. q * w \in Nat
  OBVIOUS
<1>4. ~ (p < q)
  <2> SUFFICES ASSUME p < q PROVE FALSE
    OBVIOUS
  <2>1. p * w + w <= q * w
    BY <1>1, Rows
  <2> QED BY <1>1, <1>3, <2>1
<1>5. ~ (q < p)
  <2> SUFFICES ASSUME q < p PROVE FALSE
    OBVIOUS
  <2>1. q * w + w <= p * w
    BY <1>1, Rows
  <2> QED BY <1>1, <1>3, <2>1
<1>6. p = q
  BY <1>1, <1>4, <1>5
<1> QED BY <1>1, <1>2, <1>3, <1>6 DEF p

(* The number of blocks of w bytes that n bytes need. *)
LEMMA BlocksFor ==
  ASSUME NEW n \in Nat, NEW w \in Nat \ {0}, NEW q \in Nat,
         n <= q * w, q = 0 \/ (q - 1) * w < n
  PROVE  (n + w - 1) \div w = q
<1>1. n + w - 1 \in Nat /\ q * w \in Nat
  OBVIOUS
<1>2. q * w <= n + w - 1
  <2>1. CASE q = 0
    BY <1>1, <2>1
  <2>2. CASE q # 0
    <3>1. (q - 1) * w = q * w - w
      BY <2>2
    <3>2. (q - 1) * w < n
      BY <2>2
    <3> QED BY <1>1, <3>1, <3>2
  <2> QED BY <2>1, <2>2
<1>3. n + w - 1 < q * w + w
  BY <1>1
<1> QED BY <1>1, <1>2, <1>3, OnlyQuotient

LEMMA BlocksForOf ==
  ASSUME NEW n \in Nat, NEW w \in Nat \ {0}
  PROVE  LET q == (n + w - 1) \div w
         IN  q \in Nat /\ n <= q * w /\ (q = 0 \/ (q - 1) * w < n)
<1> DEFINE q == (n + w - 1) \div w
<1>1. n + w - 1 \in Nat
  OBVIOUS
<1>2. q \in Nat /\ q * w \in Nat /\ q * w <= n + w - 1 /\ n + w - 1 < q * w + w
  BY <1>1, Quotient, Zenon
<1> HIDE DEF q
<1>3. (q - 1) * w = q * w - w
  BY <1>2
<1>4. n <= q * w /\ (q - 1) * w < n
  BY <1>2, <1>3
<1> QED BY <1>2, <1>4 DEF q

-----------------------------------------------------------------------------
(* Blocks. *)

(* A record of a chain and the bitmap is sound for the file of ch and the  *)
(* bitmap u: the chain continues ch with blocks that were free in u, each  *)
(* once, and the bitmap has them.                                          *)
Continues(e, ch, u) ==
  /\ e \in [chain : Seq(Blocks), used : SUBSET Blocks]
  /\ Len(ch) <= Len(e.chain)
  /\ \A i \in 1 .. Len(ch) : e.chain[i] = ch[i]
  /\ IsInjective(e.chain)
  /\ u \subseteq e.used
  /\ \A b \in Blocks : b \in e.used \ u <=> \E i \in Len(ch) + 1 .. Len(e.chain) : e.chain[i] = b

LEMMA FsConstants ==
  /\ MaxFiles \in Nat /\ MaxBlocks \in Nat /\ BlockSize \in Nat \ {0} /\ MaxEntries \in Nat
  /\ Blocks \subseteq Nat /\ Nodes \subseteq Nat /\ Root \in Nodes /\ 0 \in Blocks
  /\ 1 .. MaxEntries \subseteq Nat
BY FsAssumption DEF Blocks, Nodes, Root

(* allocate_block finds a free block if there is one. *)
LEMMA AllocateFree ==
  ASSUME NEW used, ~ Full(used)
  PROVE  allocate_block(used) \in Blocks \ used
<1>1. Blocks \ used # {} /\ Blocks \ used \in SUBSET Nat
  BY FsConstants, Zenon DEF Full
<1> QED BY <1>1, MinFacts DEF allocate_block

LEMMA WithBlockContinues ==
  ASSUME NEW e, NEW ch \in Seq(Blocks), NEW u \in SUBSET Blocks,
         Range(ch) \subseteq u, Continues(e, ch, u)
  PROVE  /\ Continues(WithBlock(e), ch, u)
         /\ Len(e.chain) <= Len(WithBlock(e).chain)
         /\ Len(WithBlock(e).chain) <= Len(e.chain) + 1
<1>0. e.chain \in Seq(Blocks) /\ e.used \in SUBSET Blocks /\ Len(e.chain) \in Nat
      /\ Len(ch) \in Nat
  BY DEF Continues
<1>1. CASE Full(e.used)
  <2>1. WithBlock(e) = e
    BY <1>1 DEF WithBlock
  <2> QED BY <1>0, <2>1
<1>2. CASE ~ Full(e.used)
  <2> DEFINE b == allocate_block(e.used)
  <2>1. b \in Blocks \ e.used
    BY <1>2, AllocateFree
  <2>2. WithBlock(e) = [chain |-> Append(e.chain, b), used |-> e.used \cup {b}]
    BY <1>2 DEF WithBlock
  <2> HIDE DEF b
  <2> DEFINE c == Append(e.chain, b)
  <2>3. c \in Seq(Blocks) /\ Len(c) = Len(e.chain) + 1
        /\ (\A i \in 1 .. Len(e.chain) : c[i] = e.chain[i]) /\ c[Len(e.chain) + 1] = b
        /\ DOMAIN c = 1 .. Len(e.chain) + 1 /\ DOMAIN e.chain = 1 .. Len(e.chain)
    BY <1>0, <2>1
  <2>4. WithBlock(e).chain = c /\ WithBlock(e).used = e.used \cup {b}
        /\ WithBlock(e) \in [chain : Seq(Blocks), used : SUBSET Blocks]
    BY <1>0, <2>1, <2>2, <2>3
  <2> HIDE DEF c
  <2>5. \A i \in 1 .. Len(e.chain) : e.chain[i] \in e.used
    <3> SUFFICES ASSUME NEW i \in 1 .. Len(e.chain) PROVE e.chain[i] \in e.used
      OBVIOUS
    <3>1. CASE i <= Len(ch)
      <4>1. i \in DOMAIN ch /\ ch[i] \in Range(ch)
        BY <1>0, <3>1 DEF Range
      <4> QED BY <1>0, <3>1, <4>1 DEF Continues
    <3>2. CASE i > Len(ch)
      <4>1. e.chain[i] \in Blocks
        BY <1>0
      <4>2. i \in Len(ch) + 1 .. Len(e.chain)
        BY <1>0, <3>2
      <4> QED BY <4>1, <4>2 DEF Continues
    <3> QED BY <1>0, <3>1, <3>2
  <2>6. IsInjective(c)
    BY <1>0, <2>1, <2>3, <2>5 DEF IsInjective, Continues
  <2>7. \A x \in Blocks : x \in (e.used \cup {b}) \ u
                          <=> \E i \in Len(ch) + 1 .. Len(c) : c[i] = x
    <3> SUFFICES ASSUME NEW x \in Blocks
                 PROVE  x \in (e.used \cup {b}) \ u
                          <=> \E i \in Len(ch) + 1 .. Len(c) : c[i] = x
      OBVIOUS
    <3>1. Len(ch) <= Len(e.chain) /\ u \subseteq e.used
      BY DEF Continues
    <3>2. x \in e.used \ u <=> \E i \in Len(ch) + 1 .. Len(e.chain) : e.chain[i] = x
      BY DEF Continues
    <3>3. CASE x = b
      <4>1. Len(e.chain) + 1 \in Len(ch) + 1 .. Len(c)
        BY <1>0, <2>3, <3>1
      <4> QED BY <2>1, <2>3, <3>1, <3>3, <4>1
    <3>4. CASE x # b
      <4>1. (\E i \in Len(ch) + 1 .. Len(c) : c[i] = x)
              <=> \E i \in Len(ch) + 1 .. Len(e.chain) : e.chain[i] = x
        <5>1. ASSUME NEW i \in Len(ch) + 1 .. Len(c), c[i] = x
              PROVE  i \in Len(ch) + 1 .. Len(e.chain) /\ e.chain[i] = x
          BY <1>0, <2>3, <3>1, <3>4, <5>1
        <5>2. ASSUME NEW i \in Len(ch) + 1 .. Len(e.chain), e.chain[i] = x
              PROVE  i \in Len(ch) + 1 .. Len(c) /\ c[i] = x
          BY <1>0, <2>3, <3>1, <5>2
        <5> QED BY <5>1, <5>2
      <4> QED BY <3>2, <3>4, <4>1
    <3> QED BY <3>3, <3>4
  <2>8. Len(ch) <= Len(c) /\ \A i \in 1 .. Len(ch) : c[i] = ch[i]
    BY <1>0, <2>3 DEF Continues
  <2>9. u \subseteq e.used \cup {b}
    BY DEF Continues
  <2> QED BY <1>0, <2>3, <2>4, <2>6, <2>7, <2>8, <2>9 DEF Continues
<1> QED BY <1>1, <1>2

(* The recursive function of Extended exists. *)
LEMMA GrownExists ==
  ASSUME NEW g, NEW n \in Nat
  PROVE  \E f : f = [k \in 0 .. n |-> IF k = 0 THEN g ELSE WithBlock(f[k - 1])]
<1> DEFINE G == {m \in Nat : \E f : f = [k \in 0 .. m |-> IF k = 0 THEN g
                                                        ELSE WithBlock(f[k - 1])]}
<1>1. 0 \in G
  <2> DEFINE f == [k \in 0 .. 0 |-> g]
  <2>1. f = [k \in 0 .. 0 |-> IF k = 0 THEN g ELSE WithBlock(f[k - 1])]
    OBVIOUS
  <2> HIDE DEF f
  <2> QED BY <2>1
<1>2. ASSUME NEW m \in Nat, m \in G PROVE m + 1 \in G
  <2>1. PICK f : f = [k \in 0 .. m |-> IF k = 0 THEN g ELSE WithBlock(f[k - 1])]
    BY <1>2
  <2> DEFINE h == [k \in 0 .. m + 1 |-> IF k = m + 1 THEN WithBlock(f[m]) ELSE f[k]]
  <2>2. ASSUME NEW k \in 0 .. m + 1
        PROVE  h[k] = IF k = 0 THEN g ELSE WithBlock(h[k - 1])
    <3>1. CASE k = m + 1
      <4>1. h[k] = WithBlock(f[m]) /\ k # 0 /\ k - 1 = m /\ m \in 0 .. m + 1 /\ m # m + 1
        BY <3>1
      <4>2. h[m] = f[m]
        BY <4>1
      <4> HIDE DEF h
      <4> QED BY <4>1, <4>2
    <3>2. CASE k # m + 1
      <4>1. k \in 0 .. m /\ h[k] = f[k]
        BY <3>2
      <4>2. f[k] = IF k = 0 THEN g ELSE WithBlock(f[k - 1])
        BY <2>1, <4>1
      <4>3. k # 0 => h[k - 1] = f[k - 1]
        BY <4>1
      <4> HIDE DEF h
      <4> QED BY <4>1, <4>2, <4>3
    <3> QED BY <3>1, <3>2
  <2>3. h = [k \in 0 .. m + 1 |-> h[k]]
    OBVIOUS
  <2> HIDE DEF h
  <2>4. h = [k \in 0 .. m + 1 |-> IF k = 0 THEN g ELSE WithBlock(h[k - 1])]
    BY <2>2, <2>3, Zenon
  <2> QED BY <2>4
<1>3. Nat \subseteq G
  <2> HIDE DEF G
  <2> QED BY <1>1, <1>2, NatSetInduction
<1> QED BY <1>3, Zenon

(* ramfs_write's loops extend the chain with free blocks until the last    *)
(* byte has a place, if they can, and never further.                       *)
LEMMA ExtendedContinues ==
  ASSUME NEW f, NEW ch \in Seq(Blocks), NEW last \in Nat,
         f.used \in SUBSET Blocks, Range(ch) \subseteq f.used, IsInjective(ch)
  PROVE  LET e == Extended(f, ch, last)
         IN  /\ Continues(e, ch, f.used)
             /\ Len(e.chain) = Len(ch) \/ (Len(e.chain) - 1) * BlockSize <= last
<1> DEFINE missing == Max({0, last \div BlockSize + 1 - Len(ch)})
           g == [chain |-> ch, used |-> f.used]
           grown == CHOOSE h : h = [k \in 0 .. missing |-> IF k = 0 THEN g
                                                          ELSE WithBlock(h[k - 1])]
<1>0. Len(ch) \in Nat /\ last \div BlockSize \in Nat /\ (last \div BlockSize) * BlockSize <= last
  <2>1. BlockSize \in Nat \ {0}
    BY FsConstants
  <2>2. last \div BlockSize \in Nat /\ (last \div BlockSize) * BlockSize <= last
    BY <2>1, Quotient
  <2> QED BY <2>2
<1>1. missing = IF 0 <= last \div BlockSize + 1 - Len(ch)
                THEN last \div BlockSize + 1 - Len(ch) ELSE 0
  <2> DEFINE m == last \div BlockSize + 1 - Len(ch)
  <2>1. m \in Int
    BY <1>0
  <2> HIDE DEF m
  <2>2. Max({0, m}) = IF 0 <= m THEN m ELSE 0
    BY <2>1, MaxZero
  <2> QED BY <2>2 DEF m
<1>2. missing \in Nat /\ (missing = 0 \/ Len(ch) + missing = last \div BlockSize + 1)
  <2> HIDE DEF missing
  <2> QED BY <1>0, <1>1
<1>3. Extended(f, ch, last) = grown[missing]
  BY DEF Extended
<1> HIDE DEF missing
<1>4. \A k \in 0 .. missing : grown[k] = IF k = 0 THEN g ELSE WithBlock(grown[k - 1])
  <2>1. \E h : h = [k \in 0 .. missing |-> IF k = 0 THEN g ELSE WithBlock(h[k - 1])]
    <3> HIDE DEF g
    <3> QED BY <1>2, GrownExists, ZenonT(30)
  <2>2. grown = [k \in 0 .. missing |-> IF k = 0 THEN g ELSE WithBlock(grown[k - 1])]
    <3> HIDE DEF g
    <3> QED BY <2>1, Zenon
  <2> HIDE DEF grown, g
  <2> QED BY <2>2, Zenon
<1> HIDE DEF grown
<1> DEFINE G == {k \in Nat : k <= missing => /\ Continues(grown[k], ch, f.used)
                                            /\ Len(grown[k].chain) <= Len(ch) + k}
<1>5. 0 \in G
  <2>1. 0 \in 0 .. missing
    BY <1>2
  <2>2. grown[0] = g
    BY <1>4, <2>1
  <2>3. Continues(g, ch, f.used)
    <3>1. g.chain = ch /\ g.used = f.used /\ g \in [chain : Seq(Blocks), used : SUBSET Blocks]
      OBVIOUS
    <3>2. Len(ch) + 1 .. Len(ch) = {}
      BY <1>0
    <3> HIDE DEF g
    <3> QED BY <1>0, <3>1, <3>2 DEF Continues
  <2> QED BY <1>0, <2>2, <2>3
<1>6. ASSUME NEW k \in Nat, k \in G PROVE k + 1 \in G
  <2> SUFFICES ASSUME k + 1 <= missing
               PROVE  /\ Continues(grown[k + 1], ch, f.used)
                      /\ Len(grown[k + 1].chain) <= Len(ch) + (k + 1)
    BY <1>6
  <2>1. Continues(grown[k], ch, f.used) /\ Len(grown[k].chain) <= Len(ch) + k
    BY <1>2, <1>6
  <2>2. k + 1 \in 0 .. missing /\ k + 1 # 0 /\ (k + 1) - 1 = k
    BY <1>2
  <2>3. grown[k + 1] = WithBlock(grown[k])
    BY <1>4, <2>2
  <2>4. Continues(grown[k + 1], ch, f.used) /\ Len(grown[k + 1].chain) <= Len(grown[k].chain) + 1
    BY <2>1, <2>3, WithBlockContinues, Zenon
  <2>5. Len(grown[k].chain) \in Nat /\ Len(grown[k + 1].chain) \in Nat
    BY <2>1, <2>4 DEF Continues
  <2> QED BY <1>0, <2>1, <2>4, <2>5, SMTT(20)
<1>7. missing \in G
  <2> HIDE DEF G
  <2>1. Nat \subseteq G
    BY <1>5, <1>6, NatSetInduction
  <2> QED BY <1>2, <2>1
<1> DEFINE e == Extended(f, ch, last)
<1>8. Continues(e, ch, f.used) /\ Len(e.chain) <= Len(ch) + missing
  BY <1>2, <1>3, <1>7
<1> HIDE DEF e, G
<1>9. Len(e.chain) \in Nat /\ Len(ch) <= Len(e.chain)
  BY <1>8 DEF Continues
<1>10. Len(e.chain) = Len(ch) \/ (Len(e.chain) - 1) * BlockSize <= last
  <2> SUFFICES ASSUME Len(e.chain) # Len(ch) PROVE (Len(e.chain) - 1) * BlockSize <= last
    OBVIOUS
  <2>1. Len(e.chain) - 1 \in Nat /\ Len(e.chain) - 1 <= last \div BlockSize
    BY <1>0, <1>2, <1>8, <1>9
  <2> DEFINE q == last \div BlockSize
             l == Len(e.chain) - 1
  <2>2. q \in Nat /\ l \in Nat /\ l <= q /\ q * BlockSize <= last
    BY <1>0, <2>1
  <2> HIDE DEF q, l
  <2>3. BlockSize \in Nat
    BY FsConstants
  <2>4. l * BlockSize <= q * BlockSize
    <3>1. CASE l = q
      BY <2>2, <2>3, <3>1
    <3>2. CASE l < q
      <4>1. l * BlockSize + BlockSize <= q * BlockSize
        BY <2>2, <2>3, <3>2, Rows
      <4> QED BY <2>2, <2>3, <4>1
    <3> QED BY <2>2, <3>1, <3>2
  <2>5. l * BlockSize <= last
    BY <2>2, <2>3, <2>4
  <2> QED BY <2>5 DEF l
<1> QED BY <1>8, <1>10 DEF e
-----------------------------------------------------------------------------
(* The invariant of the file system, as a predicate of its state f. *)
FileNames == Names \cup {"", "hello.txt", "readme.txt"}
FsNode == [inode : Nat, type : {"FILE", "DIR"}, size : Nat, chain : Seq(Blocks)]
FsType ==
  [node : [Nodes -> FsNode], used : SUBSET Blocks,
   data : [Blocks -> [0 .. BlockSize - 1 -> Byte]],
   entries : [1 .. MaxEntries -> [name : FileNames, inode : Nat]],
   next_inode : Nat \ {0}]

(* A file has the blocks it needs and no other; a free inode has none, so  *)
(* that its chain is not lost when the inode is taken.                     *)
NodeSound(nd) ==
  /\ nd.type = "FILE" => /\ nd.size <= Capacity(nd.chain)
                         /\ Len(nd.chain) = 0 \/ (Len(nd.chain) - 1) * BlockSize < nd.size
  /\ nd.inode = 0 => nd.chain = <<>>

FsInv(f) ==
  /\ f \in FsType
  /\ f.node[Root].type = "DIR" /\ f.node[Root].inode # 0
  /\ \A n \in Nodes : NodeSound(f.node[n]) /\ IsInjective(f.node[n].chain)
  /\ \A m, n \in Nodes : m # n =>
       \A i \in 1 .. Len(f.node[m].chain), j \in 1 .. Len(f.node[n].chain) :
         f.node[m].chain[i] # f.node[n].chain[j]
  /\ \A b \in Blocks :
       b \in f.used <=> \E n \in Nodes : \E i \in 1 .. Len(f.node[n].chain) :
                          f.node[n].chain[i] = b

(* What no call takes back: an inode in use stays in use with its type,    *)
(* and what a file or directory holds does not shrink.                     *)
Grows(f, g) ==
  \A n \in Nodes : f.node[n].inode # 0 =>
    /\ g.node[n].inode # 0 /\ g.node[n].type = f.node[n].type
    /\ f.node[n].size <= g.node[n].size

LEMMA FsFields ==
  ASSUME NEW f \in FsType
  PROVE  /\ f.node \in [Nodes -> FsNode] /\ f.used \in SUBSET Blocks
         /\ f.data \in [Blocks -> [0 .. BlockSize - 1 -> Byte]]
         /\ f.entries \in [1 .. MaxEntries -> [name : FileNames, inode : Nat]]
         /\ f.next_inode \in Nat \ {0}
BY DEF FsType

LEMMA NodeFields ==
  ASSUME NEW nd \in FsNode
  PROVE  /\ nd.inode \in Nat /\ nd.type \in {"FILE", "DIR"} /\ nd.size \in Nat
         /\ nd.chain \in Seq(Blocks) /\ Len(nd.chain) \in Nat
         /\ DOMAIN nd.chain = 1 .. Len(nd.chain)
BY DEF FsNode

(* Every operation of fs.c changes one inode, whose chain it extends by    *)
(* blocks that were free: the invariant is kept.                           *)
LEMMA OneNodeChanges ==
  ASSUME NEW f, FsInv(f), NEW g \in FsType, NEW n \in Nodes, NEW nd \in FsNode,
         g.node = [f.node EXCEPT ![n] = nd],
         NodeSound(nd), n = Root => nd.type = "DIR" /\ nd.inode # 0,
         Continues([chain |-> nd.chain, used |-> g.used], f.node[n].chain, f.used)
  PROVE  FsInv(g)
<1>0. /\ f.node \in [Nodes -> FsNode] /\ f.used \in SUBSET Blocks
      /\ g.node \in [Nodes -> FsNode] /\ g.used \in SUBSET Blocks
  BY FsFields DEF FsInv
<1> DEFINE old == f.node[n].chain
           new == nd.chain
<1>1. /\ g.node[n] = nd
      /\ \A m \in Nodes \ {n} : g.node[m] = f.node[m]
  BY <1>0
<1>2. /\ old \in Seq(Blocks) /\ new \in Seq(Blocks) /\ Len(old) \in Nat /\ Len(new) \in Nat
      /\ DOMAIN new = 1 .. Len(new)
  BY <1>0, NodeFields
<1>3. /\ Len(old) <= Len(new)
      /\ \A i \in 1 .. Len(old) : new[i] = old[i]
      /\ IsInjective(new)
      /\ f.used \subseteq g.used
      /\ \A b \in Blocks : b \in g.used \ f.used <=> \E i \in Len(old) + 1 .. Len(new) : new[i] = b
  BY DEF Continues
<1>4. \A m \in Nodes : \A i \in 1 .. Len(f.node[m].chain) :
        f.node[m].chain[i] \in Blocks /\ f.node[m].chain[i] \in f.used
  <2> SUFFICES ASSUME NEW m \in Nodes, NEW i \in 1 .. Len(f.node[m].chain)
               PROVE  f.node[m].chain[i] \in Blocks /\ f.node[m].chain[i] \in f.used
    OBVIOUS
  <2>1. f.node[m].chain \in Seq(Blocks)
    BY <1>0, NodeFields
  <2>2. f.node[m].chain[i] \in Blocks
    BY <2>1
  <2> QED BY <2>2 DEF FsInv
<1>5. \A i \in 1 .. Len(new) : /\ new[i] \in Blocks
                               /\ i <= Len(old) => new[i] = old[i]
                               /\ i > Len(old) => new[i] \notin f.used
  BY <1>2, <1>3
<1>6. \A m \in Nodes \ {n} : \A i \in 1 .. Len(f.node[m].chain), j \in 1 .. Len(new) :
        f.node[m].chain[i] # new[j]
  <2> SUFFICES ASSUME NEW m \in Nodes \ {n}, NEW i \in 1 .. Len(f.node[m].chain),
                      NEW j \in 1 .. Len(new)
               PROVE  f.node[m].chain[i] # new[j]
    OBVIOUS
  <2>1. CASE j <= Len(old)
    <3>1. j \in 1 .. Len(old)
      BY <1>2, <2>1
    <3>2. f.node[m].chain[i] # old[j]
      BY <3>1 DEF FsInv
    <3> QED BY <1>5, <2>1, <3>2
  <2>2. CASE j > Len(old)
    BY <1>4, <1>5, <2>2
  <2> QED BY <1>2, <2>1, <2>2
<1>7. g.node[Root].type = "DIR" /\ g.node[Root].inode # 0
  BY <1>1, FsConstants DEF FsInv
<1>8. \A m \in Nodes : NodeSound(g.node[m]) /\ IsInjective(g.node[m].chain)
  BY <1>1, <1>3 DEF FsInv
<1>9. \A m, k \in Nodes : m # k =>
        \A i \in 1 .. Len(g.node[m].chain), j \in 1 .. Len(g.node[k].chain) :
          g.node[m].chain[i] # g.node[k].chain[j]
  <2> SUFFICES ASSUME NEW m \in Nodes, NEW k \in Nodes, m # k,
                      NEW i \in 1 .. Len(g.node[m].chain), NEW j \in 1 .. Len(g.node[k].chain)
               PROVE  g.node[m].chain[i] # g.node[k].chain[j]
    OBVIOUS
  <2>1. CASE m # n /\ k # n
    BY <1>1, <2>1 DEF FsInv
  <2>2. CASE m = n
    <3>1. k \in Nodes \ {n} /\ g.node[m].chain = new /\ g.node[k].chain = f.node[k].chain
      BY <1>1, <2>2
    <3> HIDE DEF new, old
    <3> QED BY <1>6, <3>1
  <2>3. CASE k = n
    <3>1. m \in Nodes \ {n} /\ g.node[k].chain = new /\ g.node[m].chain = f.node[m].chain
      BY <1>1, <2>3
    <3> HIDE DEF new, old
    <3> QED BY <1>6, <3>1
  <2> QED BY <2>1, <2>2, <2>3
<1>10. ASSUME NEW b \in Blocks
       PROVE  b \in g.used <=> \E m \in Nodes : \E i \in 1 .. Len(g.node[m].chain) :
                                 g.node[m].chain[i] = b
  <2>1. ASSUME b \in g.used
        PROVE  \E m \in Nodes : \E i \in 1 .. Len(g.node[m].chain) : g.node[m].chain[i] = b
    <3>1. CASE b \in f.used
      <4>1. PICK m \in Nodes : \E i \in 1 .. Len(f.node[m].chain) : f.node[m].chain[i] = b
        BY <3>1 DEF FsInv
      <4>2. PICK i \in 1 .. Len(f.node[m].chain) : f.node[m].chain[i] = b
        BY <4>1
      <4>3. CASE m # n
        BY <1>1, <4>2, <4>3
      <4>4. CASE m = n
        <5>1. i \in 1 .. Len(new) /\ new[i] = b
          BY <1>2, <1>3, <4>2, <4>4
        <5> QED BY <1>1, <5>1
      <4> QED BY <4>3, <4>4
    <3>2. CASE b \notin f.used
      <4>1. PICK i \in Len(old) + 1 .. Len(new) : new[i] = b
        BY <1>3, <2>1, <3>2
      <4>2. i \in 1 .. Len(new)
        BY <1>2
      <4> QED BY <1>1, <4>1, <4>2
    <3> QED BY <3>1, <3>2
  <2>2. ASSUME NEW m \in Nodes, NEW i \in 1 .. Len(g.node[m].chain), g.node[m].chain[i] = b
        PROVE  b \in g.used
    <3>1. CASE m # n
      BY <1>1, <1>3, <1>4, <2>2, <3>1
    <3>2. CASE m = n
      <4>1. i \in 1 .. Len(new) /\ new[i] = b
        BY <1>1, <2>2, <3>2
      <4>2. CASE i <= Len(old)
        <5>1. i \in 1 .. Len(old) /\ old[i] = b
          BY <1>2, <1>3, <4>1, <4>2
        <5> QED BY <1>3, <1>4, <5>1
      <4>3. CASE i > Len(old)
        <5>1. i \in Len(old) + 1 .. Len(new)
          BY <1>2, <4>1, <4>3
        <5> QED BY <1>3, <4>1, <5>1
      <4> QED BY <1>2, <4>1, <4>2, <4>3
    <3> QED BY <3>1, <3>2
  <2> QED BY <2>1, <2>2
<1> QED BY <1>7, <1>8, <1>9, <1>10 DEF FsInv

LEMMA SameChainContinues ==
  ASSUME NEW ch \in Seq(Blocks), NEW u \in SUBSET Blocks, IsInjective(ch)
  PROVE  Continues([chain |-> ch, used |-> u], ch, u)
<1> DEFINE e == [chain |-> ch, used |-> u]
<1>1. e.chain = ch /\ e.used = u /\ e \in [chain : Seq(Blocks), used : SUBSET Blocks]
  OBVIOUS
<1>2. Len(ch) \in Nat
  OBVIOUS
<1>3. Len(ch) + 1 .. Len(ch) = {}
  BY <1>2
<1> HIDE DEF e
<1>4. Continues(e, ch, u)
  BY <1>1, <1>2, <1>3 DEF Continues
<1> QED BY <1>4 DEF e

LEMMA OneBlockContinues ==
  ASSUME NEW u \in SUBSET Blocks, NEW b \in Blocks, b \notin u
  PROVE  Continues([chain |-> <<b>>, used |-> u \cup {b}], <<>>, u)
<1> DEFINE e == [chain |-> <<b>>, used |-> u \cup {b}]
<1>1. e.chain = <<b>> /\ e.used = u \cup {b} /\ e \in [chain : Seq(Blocks), used : SUBSET Blocks]
  OBVIOUS
<1>2. Len(<<b>>) = 1 /\ Len(<<>>) = 0 /\ 0 + 1 .. 1 = {1} /\ <<b>>[1] = b /\ DOMAIN <<b>> = {1}
  OBVIOUS
<1>3. IsInjective(<<b>>)
  BY <1>2 DEF IsInjective
<1>4. \A x \in Blocks : x \in (u \cup {b}) \ u <=> \E i \in 0 + 1 .. 1 : <<b>>[i] = x
  BY <1>2
<1> HIDE DEF e
<1>5. Continues(e, <<>>, u)
  BY <1>1, <1>2, <1>3, <1>4 DEF Continues
<1> QED BY <1>5 DEF e

(* The two searches for a free place. *)
LEMMA FreeNodeFacts ==
  ASSUME NEW f
  PROVE  /\ FreeNode(f) # NoNode => FreeNode(f) \in Nodes /\ f.node[FreeNode(f)].inode = 0
         /\ (\E n \in Nodes : f.node[n].inode = 0) => FreeNode(f) # NoNode
<1> DEFINE S == {n \in Nodes : f.node[n].inode = 0}
<1>1. S \in SUBSET Nat
  BY FsConstants
<1>2. FreeNode(f) = IF S = {} THEN NoNode ELSE Min(S)
  BY DEF FreeNode, FirstOr
<1>3. S # {} => Min(S) \in S
  <2> HIDE DEF S
  <2> QED BY <1>1, MinFacts
<1>4. \A n \in Nodes : n # NoNode
  BY FsConstants DEF NoNode
<1>5. S # {} => FreeNode(f) \in S /\ FreeNode(f) # NoNode
  BY <1>2, <1>3, <1>4
<1>6. S = {} => FreeNode(f) = NoNode
  BY <1>2
<1> QED BY <1>5, <1>6

LEMMA FreeEntryFacts ==
  ASSUME NEW f
  PROVE  FreeEntry(f) # 0 => FreeEntry(f) \in 1 .. MaxEntries
<1> DEFINE S == {i \in 1 .. MaxEntries : f.entries[i].inode = 0}
<1>1. S \in SUBSET Nat
  BY FsConstants
<1>2. FreeEntry(f) = IF S = {} THEN 0 ELSE Min(S)
  BY DEF FreeEntry, FirstOr
<1>3. S # {} => Min(S) \in S
  <2> HIDE DEF S
  <2> QED BY <1>1, MinFacts
<1> QED BY <1>2, <1>3

(* Adding a directory entry counts it in the root's size and changes no    *)
(* other inode and no file's bytes.                                        *)
LEMMA AddEntryFacts ==
  ASSUME NEW f, FsInv(f), NEW name \in FileNames, NEW ino \in Nat
  PROVE  LET g == AddEntry(f, name, ino)
         IN  /\ FsInv(g)
             /\ \A m \in Nodes \ {Root} : g.node[m] = f.node[m]
             /\ f.node[Root].size <= g.node[Root].size
             /\ g.data = f.data
<1> DEFINE g == AddEntry(f, name, ino)
           i == FreeEntry(f)
<1>0. /\ f \in FsType /\ Root \in Nodes
      /\ f.node \in [Nodes -> FsNode] /\ f.used \in SUBSET Blocks
      /\ f.entries \in [1 .. MaxEntries -> [name : FileNames, inode : Nat]]
  BY FsFields, FsConstants DEF FsInv
<1>a. f.node[Root] \in FsNode
  BY <1>0
<1>b. f.node[Root].size \in Nat /\ f.node[Root].chain \in Seq(Blocks)
  BY <1>a, NodeFields
<1>1. CASE i = 0
  <2>1. g = f
    BY <1>1 DEF AddEntry
  <2> HIDE DEF g
  <2> QED BY <1>b, <2>1 DEF g
<1>2. CASE i # 0
  <2> DEFINE nd == [f.node[Root] EXCEPT !.size = @ + 1]
             en == [name |-> name, inode |-> ino]
  <2>1. i \in 1 .. MaxEntries
    BY <1>2, FreeEntryFacts
  <2>2. g = [f EXCEPT !.entries[i] = en, !.node[Root].size = @ + 1]
    BY <1>2 DEF AddEntry
  <2> HIDE DEF i
  <2>3. nd \in FsNode /\ nd.size = f.node[Root].size + 1 /\ nd.chain = f.node[Root].chain
        /\ nd.type = f.node[Root].type /\ nd.inode = f.node[Root].inode
    BY <1>a DEF FsNode
  <2>4. en \in [name : FileNames, inode : Nat]
    OBVIOUS
  <2> HIDE DEF en, g
  <2>5. /\ g.node = [f.node EXCEPT ![Root] = nd] /\ g.used = f.used /\ g.data = f.data
        /\ g.entries = [f.entries EXCEPT ![i] = en] /\ g.next_inode = f.next_inode
        /\ g = [node |-> g.node, used |-> g.used, data |-> g.data, entries |-> g.entries,
                next_inode |-> g.next_inode]
    BY <1>0, <2>2, Zenon DEF FsType
  <2> HIDE DEF nd
  <2>6. g.node \in [Nodes -> FsNode] /\ g.entries \in [1 .. MaxEntries -> [name : FileNames, inode : Nat]]
    BY <1>0, <2>1, <2>3, <2>4, <2>5
  <2>7. g \in FsType
    BY <1>0, <2>5, <2>6, FsFields, Zenon DEF FsType
  <2>8. NodeSound(nd) /\ nd.type = "DIR" /\ nd.inode # 0
    BY <1>0, <2>3 DEF NodeSound, FsInv
  <2>9. Continues([chain |-> nd.chain, used |-> g.used], f.node[Root].chain, f.used)
    <3>1. IsInjective(f.node[Root].chain)
      BY <1>0 DEF FsInv
    <3> QED BY <1>0, <1>b, <2>3, <2>5, <3>1, SameChainContinues
  <2>10. FsInv(g)
    BY <1>0, <2>3, <2>5, <2>7, <2>8, <2>9, OneNodeChanges
  <2>11. g.node[Root] = nd /\ \A m \in Nodes \ {Root} : g.node[m] = f.node[m]
    BY <1>0, <2>5
  <2>12. f.node[Root].size <= g.node[Root].size
    BY <1>b, <2>3, <2>11
  <2> QED BY <2>5, <2>10, <2>11, <2>12 DEF g
<1> QED BY <1>1, <1>2

-----------------------------------------------------------------------------
(* The bytes of file n, as FileSpec sees them. *)
Text(f, n) == ramfs_read(f, n, 0, f.node[n].size)
SameTexts(f, g) == \A n \in Nodes : Text(g, n) = Text(f, n)

LEMMA ReadableFacts ==
  ASSUME NEW nd \in FsNode, NodeSound(nd), NEW off \in Nat, NEW k \in Nat
  PROVE  /\ Readable(nd, off, k) \in Nat
         /\ nd.type # "FILE" => Readable(nd, off, k) = 0
         /\ nd.type = "FILE" /\ off <= nd.size =>
              /\ off + Readable(nd, off, k) <= nd.size
              /\ Readable(nd, off, k) <= k
              /\ off = 0 /\ k = nd.size => Readable(nd, off, k) = nd.size
<1>0. nd.size \in Nat /\ Len(nd.chain) \in Nat
  BY NodeFields
<1>1. CASE nd.type # "FILE"
  BY <1>1 DEF Readable
<1>2. CASE nd.type = "FILE"
  <2> DEFINE c == Capacity(nd.chain)
             x == nd.size - off
             y == c - off
             m == Min({k, x, y})
  <2>1. c \in Nat /\ nd.size <= c
    BY <1>0, <1>2, FsConstants DEF Capacity, NodeSound
  <2>2. x \in Int /\ y \in Int /\ x <= y
    BY <1>0, <2>1
  <2>3. Readable(nd, off, k) = Max({0, m})
    BY <1>2 DEF Readable
  <2> HIDE DEF x, y, c
  <2>4. m \in {k, x, y} /\ m <= k /\ m <= x /\ m <= y
    <3>1. k \in Int /\ x \in Int /\ y \in Int
      BY <2>2
    <3> QED BY <3>1, ThreeInts, Zenon
  <2>5. m \in Int
    BY <2>2, <2>4
  <2> HIDE DEF m
  <2>6. Readable(nd, off, k) = IF 0 <= m THEN m ELSE 0
    BY <2>3, <2>5, MaxZero
  <2>7. ASSUME off <= nd.size
        PROVE  off + Readable(nd, off, k) <= nd.size /\ Readable(nd, off, k) <= k
    BY <1>0, <2>4, <2>5, <2>6, <2>7 DEF x
  <2>8. ASSUME off = 0, k = nd.size PROVE Readable(nd, off, k) = nd.size
    <3>1. x = k
      BY <1>0, <2>8 DEF x
    <3>2. m = k
      BY <2>2, <2>4, <2>5, <3>1
    <3> QED BY <2>6, <2>8, <3>2
  <2>9. Readable(nd, off, k) \in Nat
    BY <2>5, <2>6
  <2> QED BY <1>2, <2>7, <2>8, <2>9
<1> QED BY <1>1, <1>2

(* Its byte i, counted from 1. *)
ByteAt(f, n, i) ==
  f.data[f.node[n].chain[(i - 1) \div BlockSize + 1]][(i - 1) % BlockSize]

LEMMA TextFacts ==
  ASSUME NEW f, FsInv(f), NEW n \in Nodes
  PROVE  /\ f.node[n].type # "FILE" => Text(f, n) = <<>>
         /\ f.node[n].type = "FILE" =>
              Text(f, n) = [i \in 1 .. f.node[n].size |-> ByteAt(f, n, i)]
<1>0. f.node[n] \in FsNode /\ NodeSound(f.node[n])
  BY FsFields DEF FsInv
<1>1. f.node[n].size \in Nat
  BY <1>0, NodeFields
<1> DEFINE r == Readable(f.node[n], 0, f.node[n].size)
<1>2. /\ f.node[n].type # "FILE" => r = 0
      /\ f.node[n].type = "FILE" => r = f.node[n].size
  <2>1. PICK nd : nd = f.node[n]
    OBVIOUS
  <2>2. nd \in FsNode /\ NodeSound(nd) /\ nd.size \in Nat /\ 0 \in Nat /\ 0 <= nd.size
    BY <1>0, <1>1, <2>1
  <2>3. /\ nd.type # "FILE" => Readable(nd, 0, nd.size) = 0
        /\ nd.type = "FILE" => Readable(nd, 0, nd.size) = nd.size
    BY <2>2, ReadableFacts, Zenon
  <2> QED BY <2>1, <2>3
<1> HIDE DEF r
<1>3. Text(f, n) = [i \in 1 .. r |->
                     f.data[f.node[n].chain[(0 + i - 1) \div BlockSize + 1]][(0 + i - 1) % BlockSize]]
  BY DEF Text, ramfs_read, BlockOf, PosInBlock, r
<1>4. r \in Nat
  <2>1. f.node[n].type = "FILE" \/ f.node[n].type # "FILE"
    OBVIOUS
  <2> QED BY <1>1, <1>2, <2>1
<1>5. \A i \in 1 .. r : 0 + i - 1 = i - 1
  BY <1>4
<1>6. Text(f, n) = [i \in 1 .. r |-> ByteAt(f, n, i)]
  BY <1>3, <1>5 DEF ByteAt
<1>7. ASSUME f.node[n].type # "FILE" PROVE Text(f, n) = <<>>
  <2>1. 1 .. r = {}
    BY <1>2, <1>7
  <2> QED BY <1>6, <2>1
<1> QED BY <1>2, <1>6, <1>7

(* Byte i of a file of sz bytes has a place in its chain. *)
LEMMA InChain ==
  ASSUME NEW i \in Nat, NEW l \in Nat, i < l * BlockSize
  PROVE  /\ i \div BlockSize + 1 \in 1 .. l
         /\ (i % BlockSize) \in 0 .. BlockSize - 1
<1>0. BlockSize \in Nat \ {0}
  BY FsConstants
<1> DEFINE q == i \div BlockSize
<1>1. q \in Nat /\ q * BlockSize \in Nat /\ q * BlockSize <= i /\ (i % BlockSize) \in 0 .. BlockSize - 1
  BY <1>0, Quotient, Zenon
<1> HIDE DEF q
<1>2. q < l
  <2> SUFFICES ASSUME ~ (q < l) PROVE FALSE
    OBVIOUS
  <2>1. CASE q = l
    BY <1>0, <1>1, <2>1
  <2>2. CASE l < q
    <3>1. l * BlockSize + BlockSize <= q * BlockSize
      BY <1>0, <1>1, <2>2, Rows
    <3>2. l * BlockSize \in Nat
      BY <1>0
    <3> QED BY <1>0, <1>1, <3>1, <3>2
  <2> QED BY <1>1, <2>1, <2>2
<1>3. q + 1 \in 1 .. l
  BY <1>1, <1>2
<1> QED BY <1>1, <1>3 DEF q

(* A file keeps its bytes when its size stays, its chain is only extended, *)
(* and the bytes of its blocks are not written.                            *)
LEMMA TextKept ==
  ASSUME NEW f, FsInv(f), NEW g, FsInv(g), NEW n \in Nodes,
         g.node[n].type = f.node[n].type,
         f.node[n].type = "FILE" =>
           /\ g.node[n].size = f.node[n].size
           /\ \A i \in 1 .. Len(f.node[n].chain) :
                /\ g.node[n].chain[i] = f.node[n].chain[i]
                /\ g.data[f.node[n].chain[i]] = f.data[f.node[n].chain[i]]
  PROVE  Text(g, n) = Text(f, n)
<1>0. f.node[n] \in FsNode /\ NodeSound(f.node[n])
  BY FsFields DEF FsInv
<1>1. f.node[n].size \in Nat /\ Len(f.node[n].chain) \in Nat
  BY <1>0, NodeFields
<1>2. CASE f.node[n].type # "FILE"
  BY <1>2, TextFacts
<1>3. CASE f.node[n].type = "FILE"
  <2>1. Text(f, n) = [i \in 1 .. f.node[n].size |-> ByteAt(f, n, i)]
    BY <1>3, TextFacts, Zenon
  <2>a. Text(g, n) = [i \in 1 .. g.node[n].size |-> ByteAt(g, n, i)]
    <3>1. g.node[n].type = "FILE"
      BY <1>3
    <3> QED BY <3>1, TextFacts, Zenon
  <2>b. g.node[n].size = f.node[n].size
    BY <1>3
  <2>2. ASSUME NEW i \in 1 .. f.node[n].size PROVE ByteAt(g, n, i) = ByteAt(f, n, i)
    <3>1. i - 1 \in Nat /\ i - 1 < Len(f.node[n].chain) * BlockSize
      <4>1. f.node[n].size <= Len(f.node[n].chain) * BlockSize
        BY <1>0, <1>3 DEF NodeSound, Capacity
      <4>2. Len(f.node[n].chain) * BlockSize \in Nat
        BY <1>1, FsConstants
      <4> QED BY <1>1, <4>1, <4>2
    <3>2. (i - 1) \div BlockSize + 1 \in 1 .. Len(f.node[n].chain)
      BY <1>1, <3>1, InChain
    <3> QED BY <1>3, <3>2, Zenon DEF ByteAt
  <2> QED BY <2>1, <2>a, <2>b, <2>2
<1> QED BY <1>2, <1>3

LEMMA AddEntryKeeps ==
  ASSUME NEW f, FsInv(f), NEW name \in FileNames, NEW ino \in Nat
  PROVE  LET g == AddEntry(f, name, ino)
         IN  FsInv(g) /\ Grows(f, g) /\ SameTexts(f, g)
             /\ \A m \in Nodes \ {Root} : g.node[m] = f.node[m]
<1> DEFINE g == AddEntry(f, name, ino)
<1>1. /\ FsInv(g)
      /\ \A m \in Nodes \ {Root} : g.node[m] = f.node[m]
      /\ f.node[Root].size <= g.node[Root].size
      /\ g.data = f.data
  BY AddEntryFacts
<1> HIDE DEF g
<1>2. f.node \in [Nodes -> FsNode]
  BY FsFields DEF FsInv
<1>3. /\ g.node[Root].type = "DIR" /\ g.node[Root].inode # 0 /\ f.node[Root].type = "DIR"
  BY <1>1 DEF FsInv
<1>4. Grows(f, g)
  <2> SUFFICES ASSUME NEW n \in Nodes, f.node[n].inode # 0
               PROVE  /\ g.node[n].inode # 0 /\ g.node[n].type = f.node[n].type
                      /\ f.node[n].size <= g.node[n].size
    BY DEF Grows
  <2>1. f.node[n].size \in Nat
    BY <1>2, NodeFields
  <2>2. CASE n = Root
    BY <1>1, <1>3, <2>2
  <2>3. CASE n # Root
    BY <1>1, <2>1, <2>3
  <2> QED BY <2>2, <2>3
<1>5. ASSUME NEW n \in Nodes PROVE Text(g, n) = Text(f, n)
  <2>1. CASE n = Root
    <3>1. g.node[n].type # "FILE" /\ f.node[n].type # "FILE"
      BY <1>3, <2>1
    <3> QED BY <1>1, <3>1, TextFacts
  <2>2. CASE n # Root
    <3>1. g.node[n] = f.node[n]
      BY <1>1, <2>2
    <3> QED BY <1>1, <3>1, TextKept
  <2> QED BY <2>1, <2>2
<1> QED BY <1>1, <1>4, <1>5 DEF SameTexts, g

(* Taking a free inode, for a file without blocks or for a directory. *)
LEMMA TakeNode ==
  ASSUME NEW f, FsInv(f), NEW g \in FsType, NEW n \in Nodes, NEW nd \in FsNode,
         f.node[n].inode = 0, g.node = [f.node EXCEPT ![n] = nd],
         NodeSound(nd), nd.type = "FILE" => nd.size = 0,
         Continues([chain |-> nd.chain, used |-> g.used], <<>>, f.used),
         \A b \in f.used : g.data[b] = f.data[b]
  PROVE  n # Root /\ FsInv(g) /\ Grows(f, g) /\ SameTexts(f, g)
<1>0. f.node \in [Nodes -> FsNode]
  BY FsFields DEF FsInv
<1>1. n # Root
  BY DEF FsInv
<1>2. f.node[n].chain = <<>> /\ (f.node[n].type = "FILE" => f.node[n].size = 0)
  <2>1. NodeSound(f.node[n]) /\ f.node[n] \in FsNode
    BY <1>0 DEF FsInv
  <2>2. f.node[n].chain = <<>>
    BY <2>1 DEF NodeSound
  <2>3. Capacity(f.node[n].chain) = 0
    <3>1. Len(f.node[n].chain) = 0
      BY <2>2
    <3> QED BY <3>1, FsConstants DEF Capacity
  <2>4. f.node[n].size \in Nat
    BY <2>1, NodeFields
  <2>5. f.node[n].type = "FILE" => f.node[n].size <= 0
    BY <2>1, <2>3 DEF NodeSound
  <2> QED BY <2>2, <2>4, <2>5
<1>3. FsInv(g)
  BY <1>1, <1>2, OneNodeChanges
<1>4. g.node[n] = nd /\ \A m \in Nodes \ {n} : g.node[m] = f.node[m]
  BY <1>0
<1>5. Grows(f, g)
  <2> SUFFICES ASSUME NEW m \in Nodes, f.node[m].inode # 0
               PROVE  /\ g.node[m].inode # 0 /\ g.node[m].type = f.node[m].type
                      /\ f.node[m].size <= g.node[m].size
    BY DEF Grows
  <2>1. g.node[m] = f.node[m]
    BY <1>4
  <2>2. f.node[m].size \in Nat
    BY <1>0, NodeFields
  <2> QED BY <2>1, <2>2
<1>6. ASSUME NEW m \in Nodes PROVE Text(g, m) = Text(f, m)
  <2>1. CASE m = n
    <3>1. ASSUME NEW h, FsInv(h), h.node[n].type = "FILE" => h.node[n].size = 0
          PROVE  Text(h, n) = <<>>
      <4>1. CASE h.node[n].type # "FILE"
        BY <3>1, <4>1, TextFacts
      <4>2. CASE h.node[n].type = "FILE"
        <5>1. Text(h, n) = [i \in 1 .. h.node[n].size |-> ByteAt(h, n, i)]
          BY <3>1, <4>2, TextFacts
        <5>2. 1 .. h.node[n].size = {}
          BY <3>1, <4>2
        <5> QED BY <5>1, <5>2
      <4> QED BY <4>1, <4>2
    <3>2. Text(f, n) = <<>>
      BY <1>2, <3>1
    <3>3. Text(g, n) = <<>>
      BY <1>3, <1>4, <3>1, Zenon
    <3> QED BY <2>1, <3>2, <3>3
  <2>2. CASE m # n
    <3>1. g.node[m] = f.node[m]
      BY <1>4, <2>2
    <3>2. \A i \in 1 .. Len(f.node[m].chain) : f.node[m].chain[i] \in f.used
      <4>1. f.node[m].chain \in Seq(Blocks)
        BY <1>0, NodeFields
      <4>2. \A i \in 1 .. Len(f.node[m].chain) : f.node[m].chain[i] \in Blocks
        BY <4>1
      <4> QED BY <4>2 DEF FsInv
    <3>3. \A i \in 1 .. Len(f.node[m].chain) :
            /\ g.node[m].chain[i] = f.node[m].chain[i]
            /\ g.data[f.node[m].chain[i]] = f.data[f.node[m].chain[i]]
      BY <3>1, <3>2
    <3>4. g.node[m].type = f.node[m].type /\ g.node[m].size = f.node[m].size
      BY <3>1
    <3> QED BY <1>3, <3>3, <3>4, TextKept, Zenon
  <2> QED BY <2>1, <2>2
<1> QED BY <1>1, <1>3, <1>5, <1>6 DEF SameTexts

LEMMA GrowsTwice ==
  ASSUME NEW f, FsInv(f), NEW g, FsInv(g), NEW h, FsInv(h), Grows(f, g), Grows(g, h)
  PROVE  Grows(f, h)
<1>1. \A n \in Nodes : f.node[n].size \in Nat /\ g.node[n].size \in Nat /\ h.node[n].size \in Nat
  BY FsFields, NodeFields DEF FsInv
<1> SUFFICES ASSUME NEW n \in Nodes, f.node[n].inode # 0
             PROVE  /\ h.node[n].inode # 0 /\ h.node[n].type = f.node[n].type
                    /\ f.node[n].size <= h.node[n].size
  BY DEF Grows
<1>2. /\ g.node[n].inode # 0 /\ g.node[n].type = f.node[n].type
      /\ f.node[n].size <= g.node[n].size
  BY DEF Grows
<1>3. /\ h.node[n].inode # 0 /\ h.node[n].type = g.node[n].type
      /\ g.node[n].size <= h.node[n].size
  BY <1>2 DEF Grows
<1> QED BY <1>1, <1>2, <1>3

(* A new file is empty, and no file's bytes change. *)
LEMMA CreateFileFacts ==
  ASSUME NEW f, FsInv(f), NEW name \in FileNames
  PROVE  LET g == ramfs_create_file(f, name).fs
             n == ramfs_create_file(f, name).node
         IN  /\ FsInv(g) /\ Grows(f, g) /\ SameTexts(f, g)
             /\ n = FreeNode(f)
             /\ n # NoNode => /\ n \in Nodes \ {Root}
                             /\ g.node[n].inode # 0 /\ g.node[n].type = "FILE"
                             /\ \A m \in Nodes \ {n, Root} : g.node[m] = f.node[m]
<1> DEFINE n == FreeNode(f)
           r == ramfs_create_file(f, name)
<1>0. f \in FsType /\ f.node \in [Nodes -> FsNode]
  BY FsFields DEF FsInv
<1>1. CASE n = NoNode
  <2>1. r.fs = f /\ r.node = NoNode
    BY <1>1 DEF ramfs_create_file
  <2>2. Grows(f, f)
    <3>1. \A m \in Nodes : f.node[m].size \in Nat
      BY <1>0, NodeFields
    <3> QED BY <3>1 DEF Grows
  <2> HIDE DEF r
  <2> QED BY <1>1, <2>1, <2>2 DEF SameTexts, r
<1>2. CASE n # NoNode
  <2> DEFINE nd == Node(f.next_inode, "FILE", 0, <<>>)
             h == [f EXCEPT !.node[n] = nd, !.next_inode = @ + 1]
  <2>1. n \in Nodes /\ f.node[n].inode = 0
    BY <1>2, FreeNodeFacts
  <2>2. r.fs = AddEntry(h, name, f.next_inode) /\ r.node = n
    BY <1>2 DEF ramfs_create_file
  <2> HIDE DEF n
  <2>3. f.next_inode \in Nat /\ f.next_inode # 0
    BY <1>0, FsFields
  <2>4. nd \in FsNode /\ nd.inode = f.next_inode /\ nd.type = "FILE" /\ nd.size = 0 /\ nd.chain = <<>>
    BY <2>3 DEF FsNode, Node
  <2> HIDE DEF nd
  <2>a. h = [f EXCEPT !.node[n] = nd, !.next_inode = @ + 1]
    OBVIOUS
  <2> HIDE DEF h
  <2>5. /\ h.node = [f.node EXCEPT ![n] = nd] /\ h.used = f.used /\ h.data = f.data
        /\ h.entries = f.entries /\ h.next_inode = f.next_inode + 1
        /\ h = [node |-> h.node, used |-> h.used, data |-> h.data, entries |-> h.entries,
                next_inode |-> h.next_inode]
    BY <1>0, <2>a, Zenon DEF FsType
  <2>6. h \in FsType
    <3>1. h.node \in [Nodes -> FsNode]
      BY <1>0, <2>1, <2>4, <2>5
    <3>2. h.next_inode \in Nat \ {0}
      BY <2>3, <2>5
    <3> QED BY <1>0, <2>5, <3>1, <3>2, FsFields DEF FsType
  <2>7. NodeSound(nd)
    <3>1. Len(<<>>) = 0 /\ Capacity(<<>>) = 0
      BY FsConstants DEF Capacity
    <3> QED BY <2>4, <3>1 DEF NodeSound
  <2>8. Continues([chain |-> nd.chain, used |-> h.used], <<>>, f.used)
    <3>1. <<>> \in Seq(Blocks) /\ IsInjective(<<>>) /\ f.used \in SUBSET Blocks
      BY <1>0, FsFields DEF IsInjective
    <3> QED BY <2>4, <2>5, <3>1, SameChainContinues, Zenon
  <2>9. n # Root /\ FsInv(h) /\ Grows(f, h) /\ SameTexts(f, h)
    BY <2>1, <2>4, <2>5, <2>6, <2>7, <2>8, TakeNode
  <2> DEFINE g == AddEntry(h, name, f.next_inode)
  <2>10. FsInv(g) /\ Grows(h, g) /\ SameTexts(h, g)
         /\ \A m \in Nodes \ {Root} : g.node[m] = h.node[m]
    BY <2>3, <2>9, AddEntryKeeps
  <2> HIDE DEF g
  <2>11. Grows(f, g)
    BY <2>9, <2>10, GrowsTwice
  <2>12. SameTexts(f, g)
    BY <2>9, <2>10 DEF SameTexts
  <2>13. h.node[n] = nd /\ \A m \in Nodes \ {n} : h.node[m] = f.node[m]
    BY <1>0, <2>1, <2>5
  <2>14. g.node[n] = nd /\ \A m \in Nodes \ {n, Root} : g.node[m] = f.node[m]
    BY <2>1, <2>9, <2>10, <2>13
  <2>15. r.fs = g /\ r.node = n
    BY <2>2 DEF g
  <2> HIDE DEF r
  <2> QED BY <2>1, <2>3, <2>4, <2>9, <2>10, <2>11, <2>12, <2>14, <2>15 DEF r, n
<1> QED BY <1>1, <1>2

LEMMA CreateDirFacts ==
  ASSUME NEW f, FsInv(f), NEW name \in FileNames
  PROVE  LET g == ramfs_create_dir(f, name)
         IN  FsInv(g) /\ Grows(f, g) /\ SameTexts(f, g)
<1> DEFINE n == FreeNode(f)
           b == allocate_block(f.used)
           r == ramfs_create_dir(f, name)
<1>0. f \in FsType /\ f.node \in [Nodes -> FsNode] /\ f.used \in SUBSET Blocks
      /\ f.next_inode \in Nat /\ f.next_inode # 0
      /\ f.data \in [Blocks -> [0 .. BlockSize - 1 -> Byte]]
  BY FsFields DEF FsInv
<1>a. n # NoNode => n \in Nodes /\ f.node[n].inode = 0
  BY FreeNodeFacts
<1>1. CASE n = NoNode
  <2>1. r = f
    BY <1>1 DEF ramfs_create_dir
  <2>2. Grows(f, f)
    <3>1. \A m \in Nodes : f.node[m].size \in Nat
      BY <1>0, NodeFields
    <3> QED BY <3>1 DEF Grows
  <2> HIDE DEF r
  <2> QED BY <2>1, <2>2 DEF SameTexts, r
<1>2. CASE n # NoNode /\ Full(f.used)
  <2> DEFINE nd == Node(0, "DIR", 0, <<>>)
  <2>1. r = [f EXCEPT !.node[n] = nd, !.next_inode = @ + 1]
    BY <1>2 DEF ramfs_create_dir
  <2> HIDE DEF n
  <2>2. nd \in FsNode /\ nd.inode = 0 /\ nd.type = "DIR" /\ nd.chain = <<>>
    BY DEF FsNode, Node
  <2> HIDE DEF nd, r
  <2>3. /\ r.node = [f.node EXCEPT ![n] = nd] /\ r.used = f.used /\ r.data = f.data
        /\ r.entries = f.entries /\ r.next_inode = f.next_inode + 1
        /\ r = [node |-> r.node, used |-> r.used, data |-> r.data, entries |-> r.entries,
                next_inode |-> r.next_inode]
    BY <1>0, <2>1, Zenon DEF FsType
  <2>4. r \in FsType
    <3>1. r.node \in [Nodes -> FsNode]
      BY <1>0, <1>2, <1>a, <2>2, <2>3
    <3>2. r.next_inode \in Nat \ {0}
      BY <1>0, <2>3
    <3> QED BY <1>0, <2>3, <3>1, <3>2, FsFields DEF FsType
  <2>5. NodeSound(nd)
    BY <2>2 DEF NodeSound
  <2>6. Continues([chain |-> nd.chain, used |-> r.used], <<>>, f.used)
    <3>1. <<>> \in Seq(Blocks) /\ IsInjective(<<>>)
      BY DEF IsInjective
    <3> QED BY <1>0, <2>2, <2>3, <3>1, SameChainContinues, Zenon
  <2>7. FsInv(r) /\ Grows(f, r) /\ SameTexts(f, r)
    BY <1>2, <1>a, <2>2, <2>3, <2>4, <2>5, <2>6, TakeNode
  <2> QED BY <2>7 DEF r
<1>3. CASE n # NoNode /\ ~ Full(f.used)
  <2> DEFINE nd == Node(f.next_inode, "DIR", 0, <<b>>)
             zero == [j \in 0 .. BlockSize - 1 |-> 0]
             h == [f EXCEPT !.node[n] = nd, !.next_inode = @ + 1, !.used = @ \cup {b},
                            !.data[b] = zero]
  <2>1. r = AddEntry(h, name, f.next_inode)
    BY <1>3 DEF ramfs_create_dir
  <2>2. b \in Blocks /\ b \notin f.used
    BY <1>3, AllocateFree
  <2> HIDE DEF n, b, r
  <2>3. nd \in FsNode /\ nd.inode = f.next_inode /\ nd.type = "DIR" /\ nd.chain = <<b>>
    BY <1>0, <2>2 DEF FsNode, Node
  <2>4. zero \in [0 .. BlockSize - 1 -> Byte]
    BY FsAssumption
  <2> HIDE DEF nd, zero
  <2>a. h = [f EXCEPT !.node[n] = nd, !.next_inode = @ + 1, !.used = @ \cup {b},
                      !.data[b] = zero]
    OBVIOUS
  <2> HIDE DEF h
  <2>5. /\ h.node = [f.node EXCEPT ![n] = nd] /\ h.used = f.used \cup {b}
        /\ h.data = [f.data EXCEPT ![b] = zero]
        /\ h.entries = f.entries /\ h.next_inode = f.next_inode + 1
        /\ h = [node |-> h.node, used |-> h.used, data |-> h.data, entries |-> h.entries,
                next_inode |-> h.next_inode]
    BY <1>0, <2>a, Zenon DEF FsType
  <2>6. h \in FsType
    <3>1. h.node \in [Nodes -> FsNode]
      BY <1>0, <1>3, <1>a, <2>3, <2>5
    <3>2. h.data \in [Blocks -> [0 .. BlockSize - 1 -> Byte]]
      BY <1>0, <2>2, <2>4, <2>5
    <3>3. h.next_inode \in Nat \ {0} /\ h.used \in SUBSET Blocks
      BY <1>0, <2>2, <2>5
    <3> QED BY <1>0, <2>5, <3>1, <3>2, <3>3, FsFields DEF FsType
  <2>7. NodeSound(nd)
    BY <1>0, <2>3 DEF NodeSound
  <2>8. Continues([chain |-> nd.chain, used |-> h.used], <<>>, f.used)
    BY <1>0, <2>2, <2>3, <2>5, OneBlockContinues
  <2>9. \A x \in f.used : h.data[x] = f.data[x]
    BY <1>0, <2>2, <2>5
  <2>10. FsInv(h) /\ Grows(f, h) /\ SameTexts(f, h)
    BY <1>3, <1>a, <2>3, <2>5, <2>6, <2>7, <2>8, <2>9, TakeNode, Zenon
  <2>11. FsInv(r) /\ Grows(h, r) /\ SameTexts(h, r)
    BY <1>0, <2>1, <2>10, AddEntryKeeps
  <2>12. Grows(f, r)
    BY <2>10, <2>11, GrowsTwice
  <2> QED BY <2>10, <2>11, <2>12 DEF SameTexts, r
<1> QED BY <1>1, <1>2, <1>3

-----------------------------------------------------------------------------
(* ramfs_write. *)

(* The arithmetic of a write of ls bytes at off, to a file of lo blocks    *)
(* that was given lc: it writes m bytes.                                   *)
WriteCase(w, lo, lc, size, off, ls, m) ==
  /\ w \in Nat \ {0} /\ lo \in Nat /\ lc \in Nat /\ lo <= lc
  /\ size \in Nat /\ off \in Nat /\ off <= size /\ ls \in Nat \ {0}
  /\ size <= lo * w
  /\ lo = 0 \/ (lo - 1) * w < size
  /\ lc = lo \/ (lc - 1) * w <= off + ls - 1
  /\ m = Min({ls, lc * w - off})

WriteResult(w, lo, lc, size, off, ls, m) ==
  /\ m \in Int /\ m <= ls /\ off + m <= lc * w
  /\ m <= 0 => lc = lo
  /\ m > 0 => /\ Grown(size, off + m) \in Nat
              /\ size <= Grown(size, off + m) /\ off + m <= Grown(size, off + m)
              /\ Grown(size, off + m) = size \/ Grown(size, off + m) = off + m
              /\ Grown(size, off + m) <= lc * w
              /\ lc = 0 \/ (lc - 1) * w < Grown(size, off + m)

LEMMA WriteArithmetic ==
  ASSUME NEW w, NEW lo, NEW lc, NEW size, NEW off, NEW ls, NEW m,
         WriteCase(w, lo, lc, size, off, ls, m)
  PROVE  WriteResult(w, lo, lc, size, off, ls, m)
<1> USE DEF WriteCase
<1>0. lo * w \in Nat /\ lc * w \in Nat
  OBVIOUS
<1>1. (lc - 1) * w = lc * w - w /\ (lo - 1) * w = lo * w - w
  OBVIOUS
<1>2. lo < lc => lo * w + w <= lc * w
  BY Rows
<1>3. lo * w <= lc * w
  <2>1. CASE lo = lc
    BY <1>0, <2>1
  <2>2. CASE lo < lc
    BY <1>0, <1>2, <2>2
  <2> QED BY <2>1, <2>2
<1> DEFINE a == lc * w
           b == lo * w
           room == a - off
<1>4. a \in Nat /\ b \in Nat /\ b <= a /\ room \in Int /\ size <= b /\ room = a - off
  BY <1>0, <1>3
<1>5. m = IF ls <= room THEN ls ELSE room
  <2> HIDE DEF room
  <2>1. m = Min({ls, room})
    BY DEF room
  <2> QED BY <1>4, <2>1, TwoInts
<1>6. lo < lc => b + w <= a
  BY <1>2
<1>7. lc = lo \/ a - w <= off + ls - 1
  BY <1>1
<1>8. lo = 0 \/ b - w < size
  BY <1>1
<1> HIDE DEF a, b, room
<1>9. m \in Int /\ m <= ls /\ off + m <= a
  BY <1>4, <1>5
<1>10. ASSUME m <= 0 PROVE lc = lo
  BY <1>4, <1>5, <1>6, <1>10
<1>11. ASSUME m > 0
       PROVE /\ Grown(size, off + m) \in Nat
             /\ size <= Grown(size, off + m) /\ off + m <= Grown(size, off + m)
             /\ Grown(size, off + m) = size \/ Grown(size, off + m) = off + m
             /\ Grown(size, off + m) <= a
             /\ lc = 0 \/ a - w < Grown(size, off + m)
  <2> DEFINE end == off + m
             z == Grown(size, off + m)
  <2>1. end \in Nat /\ end <= a /\ end = off + m
    BY <1>9, <1>11
  <2>2. z = IF size <= end THEN end ELSE size
    <3>1. z = Max({size, end})
      BY DEF Grown
    <3> HIDE DEF z, end
    <3>2. size \in Int /\ end \in Int
      BY <2>1
    <3>3. Max({size, end}) = IF size <= end THEN end ELSE size
      BY <3>2, TwoInts
    <3> QED BY <3>1, <3>3
  <2> HIDE DEF z, end
  <2>3. z \in Nat /\ size <= z /\ end <= z /\ z <= a /\ (z = size \/ z = end)
    BY <1>4, <2>1, <2>2
  <2>4. lc = 0 \/ a - w < z
    <3>1. CASE lc = lo
      <4>1. a = b
        BY <3>1 DEF a, b
      <4> QED BY <1>4, <1>8, <2>3, <3>1, <4>1
    <3>2. CASE lc # lo
      <4>1. CASE ls <= room
        BY <1>4, <1>5, <1>7, <2>1, <2>3, <3>2, <4>1
      <4>2. CASE ~ (ls <= room)
        <5>1. end = a
          BY <1>4, <1>5, <2>1, <4>2
        <5> QED BY <1>4, <2>3, <5>1
      <4> QED BY <4>1, <4>2
    <3> QED BY <3>1, <3>2
  <2> QED BY <2>1, <2>3, <2>4 DEF z
<1> QED BY <1>1, <1>9, <1>10, <1>11 DEF a, WriteResult

(* Two bytes of a file are at the same place only if they are the same. *)
LEMMA OnePlace ==
  ASSUME NEW ch \in Seq(Blocks), IsInjective(ch), NEW x \in Nat, NEW y \in Nat,
         x < Capacity(ch), y < Capacity(ch), BlockOf(ch, x) = BlockOf(ch, y),
         (x % BlockSize) = (y % BlockSize)
  PROVE  x = y
<1>0. BlockSize \in Nat \ {0} /\ Len(ch) \in Nat /\ DOMAIN ch = 1 .. Len(ch)
  BY FsConstants
<1>1. x \div BlockSize + 1 \in 1 .. Len(ch) /\ y \div BlockSize + 1 \in 1 .. Len(ch)
  BY <1>0, InChain DEF Capacity
<1>2. x \div BlockSize + 1 = y \div BlockSize + 1
  BY <1>0, <1>1 DEF IsInjective, BlockOf
<1>3. x \div BlockSize \in Nat /\ y \div BlockSize \in Nat
      /\ x = (x \div BlockSize) * BlockSize + (x % BlockSize)
      /\ y = (y \div BlockSize) * BlockSize + (y % BlockSize)
  BY <1>0, Quotient, Zenon
<1>4. x \div BlockSize = y \div BlockSize
  BY <1>2, <1>3
<1> QED BY <1>3, <1>4

(* The bytes of the write that go to position j of block b. *)
Here(ch, off, m, b, j) ==
  {i \in 1 .. m : BlockOf(ch, off + i - 1) = b /\ (off + i - 1) % BlockSize = j}
Placed(data, ch, off, m, s) ==
  [b \in Blocks |-> [j \in 0 .. BlockSize - 1 |->
     IF Here(ch, off, m, b, j) = {} THEN data[b][j] ELSE s[Max(Here(ch, off, m, b, j))]]]

(* In d the bytes of the write are at their places, and elsewhere is what  *)
(* was there before.                                                       *)
IsPlaced(d, data, ch, off, m, s) ==
  /\ d \in [Blocks -> [0 .. BlockSize - 1 -> Byte]]
  /\ \A i \in 1 .. m : d[BlockOf(ch, off + i - 1)][(off + i - 1) % BlockSize] = s[i]
  /\ \A b \in Blocks, j \in 0 .. BlockSize - 1 :
       (\A i \in 1 .. m : ~ (BlockOf(ch, off + i - 1) = b /\ (off + i - 1) % BlockSize = j))
         => d[b][j] = data[b][j]

(* The bytes a write leaves in the blocks: its own, each at its place, and *)
(* elsewhere what was there.                                               *)
LEMMA BytesPlaced ==
  ASSUME NEW data \in [Blocks -> [0 .. BlockSize - 1 -> Byte]],
         NEW ch \in Seq(Blocks), IsInjective(ch), NEW off \in Nat, NEW s \in Seq(Byte),
         NEW m \in Nat, m <= Len(s), off + m <= Capacity(ch),
         NEW d, d = Placed(data, ch, off, m, s)
  PROVE  IsPlaced(d, data, ch, off, m, s)
<1> DEFINE here(b, j) == Here(ch, off, m, b, j)
<1>a. \A b \in Blocks, j \in 0 .. BlockSize - 1 :
        here(b, j) = {i \in 1 .. m : BlockOf(ch, off + i - 1) = b
                                     /\ (off + i - 1) % BlockSize = j}
  BY DEF Here
<1>b. d = [b \in Blocks |-> [j \in 0 .. BlockSize - 1 |->
                       IF here(b, j) = {} THEN data[b][j] ELSE s[Max(here(b, j))]]]
  BY DEF Placed
<1> HIDE DEF here
<1>0. Len(ch) \in Nat /\ Capacity(ch) \in Nat /\ BlockSize \in Nat /\ Len(s) \in Nat
  BY FsConstants DEF Capacity
<1>1. \A i \in 1 .. m : off + i - 1 \in Nat /\ off + i - 1 < Capacity(ch) /\ s[i] \in Byte
  BY <1>0
<1>2. ASSUME NEW b \in Blocks, NEW j \in 0 .. BlockSize - 1, NEW i \in here(b, j)
      PROVE  here(b, j) = {i} /\ Max(here(b, j)) = i /\ i \in 1 .. m
  <2>1. i \in 1 .. m /\ BlockOf(ch, off + i - 1) = b /\ (off + i - 1) % BlockSize = j
    BY <1>2, <1>a
  <2>2. ASSUME NEW k \in here(b, j) PROVE k = i
    <3>1. k \in 1 .. m /\ BlockOf(ch, off + k - 1) = b /\ (off + k - 1) % BlockSize = j
      BY <2>2, <1>a
    <3>2. off + k - 1 = off + i - 1
      BY <1>1, <2>1, <3>1, OnePlace
    <3> QED BY <1>0, <2>1, <3>1, <3>2
  <2>3. here(b, j) = {i}
    BY <1>2, <2>2
  <2>4. Max({i}) = i
    <3>1. i \in Int
      BY <2>1
    <3> QED BY <3>1 DEF Max
  <2> QED BY <2>1, <2>3, <2>4
<1>3. ASSUME NEW b \in Blocks, NEW j \in 0 .. BlockSize - 1
      PROVE  /\ d[b][j] \in Byte
             /\ here(b, j) = {} => d[b][j] = data[b][j]
             /\ \A i \in here(b, j) : d[b][j] = s[i]
  <2>1. d[b][j] = IF here(b, j) = {} THEN data[b][j] ELSE s[Max(here(b, j))]
    <3>1. d[b] = [k \in 0 .. BlockSize - 1 |->
                    IF here(b, k) = {} THEN data[b][k] ELSE s[Max(here(b, k))]]
      BY <1>b, Zenon
    <3> QED BY <3>1, Zenon
  <2>2. CASE here(b, j) = {}
    BY <2>1, <2>2, Zenon
  <2>3. CASE here(b, j) # {}
    <3>1. PICK i : i \in here(b, j)
      BY <2>3
    <3>2. here(b, j) = {i} /\ Max(here(b, j)) = i /\ i \in 1 .. m
      BY <1>2, <3>1
    <3> QED BY <1>1, <2>1, <3>2
  <2> QED BY <2>2, <2>3
<1>4. d \in [Blocks -> [0 .. BlockSize - 1 -> Byte]]
  <2>1. d = [b \in Blocks |-> [j \in 0 .. BlockSize - 1 |-> d[b][j]]]
    BY <1>b, Zenon
  <2> QED BY <1>3, <2>1
<1>5. ASSUME NEW i \in 1 .. m
      PROVE  d[BlockOf(ch, off + i - 1)][(off + i - 1) % BlockSize] = s[i]
  <2> DEFINE b == BlockOf(ch, off + i - 1)
             j == (off + i - 1) % BlockSize
  <2>1. b \in Blocks /\ j \in 0 .. BlockSize - 1
    <3>1. (off + i - 1) \div BlockSize + 1 \in 1 .. Len(ch) /\ j \in 0 .. BlockSize - 1
      BY <1>0, <1>1, InChain, Zenon DEF Capacity
    <3> QED BY <3>1 DEF BlockOf
  <2>2. i \in here(b, j)
    BY <2>1, <1>a
  <2> HIDE DEF b, j
  <2>3. d[b][j] = s[i]
    BY <1>3, <2>1, <2>2
  <2> QED BY <2>3 DEF b, j
<1>6. ASSUME NEW b \in Blocks, NEW j \in 0 .. BlockSize - 1,
             \A i \in 1 .. m : ~ (BlockOf(ch, off + i - 1) = b /\ (off + i - 1) % BlockSize = j)
      PROVE  d[b][j] = data[b][j]
  <2>1. here(b, j) = {}
    BY <1>6, <1>a, Zenon
  <2> QED BY <1>3, <2>1
<1> QED BY <1>4, <1>5, <1>6 DEF IsPlaced

(* The text of a file is a string of bytes, as long as its size says. *)
LEMMA TextType ==
  ASSUME NEW f, FsInv(f), NEW n \in Nodes
  PROVE  /\ Text(f, n) \in Seq(Byte)
         /\ f.node[n].type = "FILE" => Len(Text(f, n)) = f.node[n].size
<1>0. f.node[n] \in FsNode /\ NodeSound(f.node[n])
      /\ f.data \in [Blocks -> [0 .. BlockSize - 1 -> Byte]]
  BY FsFields DEF FsInv
<1>1. /\ f.node[n].size \in Nat /\ Len(f.node[n].chain) \in Nat
      /\ f.node[n].chain \in Seq(Blocks)
  BY <1>0, NodeFields
<1>2. CASE f.node[n].type # "FILE"
  <2>1. Text(f, n) = <<>>
    BY <1>2, TextFacts
  <2> QED BY <1>2, <2>1
<1>3. CASE f.node[n].type = "FILE"
  <2>1. Text(f, n) = [i \in 1 .. f.node[n].size |-> ByteAt(f, n, i)]
    BY <1>3, TextFacts
  <2>2. ASSUME NEW i \in 1 .. f.node[n].size PROVE ByteAt(f, n, i) \in Byte
    <3>1. i - 1 \in Nat /\ i - 1 < Len(f.node[n].chain) * BlockSize
      <4>1. f.node[n].size <= Len(f.node[n].chain) * BlockSize
        BY <1>0, <1>3 DEF NodeSound, Capacity
      <4>2. Len(f.node[n].chain) * BlockSize \in Nat
        BY <1>1, FsConstants
      <4> QED BY <1>1, <4>1, <4>2
    <3>2. /\ (i - 1) \div BlockSize + 1 \in 1 .. Len(f.node[n].chain)
          /\ ((i - 1) % BlockSize) \in 0 .. BlockSize - 1
      BY <1>1, <3>1, InChain
    <3>3. f.node[n].chain[(i - 1) \div BlockSize + 1] \in Blocks
      BY <1>1, <3>2
    <3> QED BY <1>0, <3>2, <3>3, Zenon DEF ByteAt
  <2>3. [i \in 1 .. f.node[n].size |-> ByteAt(f, n, i)] \in Seq(Byte)
        /\ Len([i \in 1 .. f.node[n].size |-> ByteAt(f, n, i)]) = f.node[n].size
    BY <1>1, <2>2
  <2> QED BY <2>1, <2>3, Zenon
<1> QED BY <1>2, <1>3

(* The text t after the bytes s were written at off: FileSpec's Written. *)
Overwritten(t, off, s) ==
  [i \in 1 .. Max({Len(t), off + Len(s)}) |->
     IF i \in off + 1 .. off + Len(s) THEN s[i - off] ELSE t[i]]

(* A write of the first w bytes of s. *)
LEMMA WrittenIs ==
  ASSUME NEW t \in Seq(Byte), NEW off \in Nat, NEW s \in Seq(Byte),
         NEW w \in Nat, w <= Len(s)
  PROVE  Overwritten(t, off, SubSeq(s, 1, w))
           = [i \in 1 .. (IF Len(t) <= off + w THEN off + w ELSE Len(t)) |->
                IF i \in off + 1 .. off + w THEN s[i - off] ELSE t[i]]
<1> DEFINE u == SubSeq(s, 1, w)
<1>1. Len(u) = w /\ (\A i \in 1 .. w : u[i] = s[i]) /\ Len(t) \in Nat
  OBVIOUS
<1> HIDE DEF u
<1>2. Max({Len(t), off + w}) = IF Len(t) <= off + w THEN off + w ELSE Len(t)
  <2> DEFINE a == Len(t)
             b == off + w
  <2>1. a \in Int /\ b \in Int
    BY <1>1
  <2> HIDE DEF a, b
  <2>2. Max({a, b}) = IF a <= b THEN b ELSE a
    BY <2>1, TwoInts, Zenon
  <2> QED BY <2>2 DEF a, b, Max
<1> DEFINE z == IF Len(t) <= off + w THEN off + w ELSE Len(t)
<1>3. Overwritten(t, off, u)
        = [i \in 1 .. z |-> IF i \in off + 1 .. off + w THEN u[i - off] ELSE t[i]]
  BY <1>1, <1>2 DEF Overwritten
<1>4. \A i \in 1 .. z : i \in off + 1 .. off + w => u[i - off] = s[i - off]
  BY <1>1
<1> HIDE DEF z
<1>5. [i \in 1 .. z |-> IF i \in off + 1 .. off + w THEN u[i - off] ELSE t[i]]
        = [i \in 1 .. z |-> IF i \in off + 1 .. off + w THEN s[i - off] ELSE t[i]]
  BY <1>4
<1> QED BY <1>3, <1>5, Zenon DEF z, u

LEMMA WrittenNothing ==
  ASSUME NEW t \in Seq(Byte), NEW off \in Nat, off <= Len(t), NEW s \in Seq(Byte)
  PROVE  Overwritten(t, off, SubSeq(s, 1, 0)) = t
<1>1. Len(t) \in Nat /\ 0 \in Nat /\ 0 <= Len(s) /\ t = [i \in 1 .. Len(t) |-> t[i]]
  OBVIOUS
<1> DEFINE z == IF Len(t) <= off + 0 THEN off + 0 ELSE Len(t)
<1>2. z = Len(t) /\ off + 1 .. off + 0 = {}
  BY <1>1
<1>3. Overwritten(t, off, SubSeq(s, 1, 0))
        = [i \in 1 .. z |-> IF i \in off + 1 .. off + 0 THEN s[i - off] ELSE t[i]]
  BY <1>1, WrittenIs
<1> HIDE DEF z
<1> QED BY <1>1, <1>2, <1>3

(* A write through a descriptor: n is in use and off not behind its end. *)
WriteAt(f, n, off, s) ==
  /\ FsInv(f) /\ n \in Nodes /\ f.node[n].inode # 0
  /\ off \in Nat /\ off <= f.node[n].size
  /\ f.node[n].type = "DIR" => off = 0
  /\ s \in Seq(Byte) /\ s # <<>>

(* The chain and bitmap e the write has, and the bytes m it moves; the     *)
(* file system after a write without room, and after one that leaves the   *)
(* data d in the blocks.                                                   *)
Plan(f, n, off, s, e, m) ==
  /\ e = Extended(f, f.node[n].chain, off + Len(s) - 1)
  /\ m = Min({Len(s), Capacity(e.chain) - off})
Chained(f, n, e) == [f EXCEPT !.node[n].chain = e.chain, !.used = e.used]
Filled(f, n, e, end, d) ==
  [f EXCEPT !.node[n].chain = e.chain, !.node[n].size = Grown(@, end),
            !.used = e.used, !.data = d]

(* What a write to a file does before it moves bytes. *)
Planned(f, n, off, s, e, m) ==
  LET z == Grown(f.node[n].size, off + m)
  IN  /\ Continues(e, f.node[n].chain, f.used)
      /\ m \in Int /\ m <= Len(s) /\ off + m <= Capacity(e.chain)
      /\ m <= 0 => Len(e.chain) = Len(f.node[n].chain)
      /\ m > 0 => /\ z \in Nat /\ f.node[n].size <= z /\ off + m <= z
                  /\ z = f.node[n].size \/ z = off + m
                  /\ z <= Capacity(e.chain)
                  /\ Len(e.chain) = 0 \/ (Len(e.chain) - 1) * BlockSize < z

LEMMA WritePlan ==
  ASSUME NEW f, NEW n, NEW off, NEW s, WriteAt(f, n, off, s), f.node[n].type = "FILE",
         NEW e, NEW m, Plan(f, n, off, s, e, m)
  PROVE  Planned(f, n, off, s, e, m)
<1>w. /\ FsInv(f) /\ n \in Nodes /\ off \in Nat /\ off <= f.node[n].size
      /\ s \in Seq(Byte) /\ s # <<>>
      /\ e = Extended(f, f.node[n].chain, off + Len(s) - 1)
      /\ m = Min({Len(s), Capacity(e.chain) - off})
  BY DEF WriteAt, Plan
<1>0. /\ f.node \in [Nodes -> FsNode] /\ f.used \in SUBSET Blocks
      /\ f.node[n] \in FsNode /\ NodeSound(f.node[n]) /\ IsInjective(f.node[n].chain)
  BY <1>w, FsFields DEF FsInv
<1> DEFINE ch == f.node[n].chain
           size == f.node[n].size
<1>1. size \in Nat /\ Len(ch) \in Nat /\ ch \in Seq(Blocks) /\ DOMAIN ch = 1 .. Len(ch)
  BY <1>0, NodeFields
<1>2. Len(s) \in Nat \ {0} /\ off + Len(s) - 1 \in Nat
  BY <1>w
<1>3. Range(ch) \subseteq f.used
  <2>1. \A i \in 1 .. Len(ch) : ch[i] \in Blocks
    BY <1>1
  <2>2. \A i \in 1 .. Len(ch) : ch[i] \in f.used
    BY <1>w, <2>1 DEF FsInv
  <2> QED BY <1>1, <2>2 DEF Range
<1>4. size <= Len(ch) * BlockSize /\ (Len(ch) = 0 \/ (Len(ch) - 1) * BlockSize < size)
  BY <1>0 DEF NodeSound, Capacity
<1> HIDE DEF ch, size
<1>5. e = Extended(f, ch, off + Len(s) - 1)
  BY <1>w DEF ch
<1>6. /\ Continues(e, ch, f.used)
      /\ Len(e.chain) = Len(ch) \/ (Len(e.chain) - 1) * BlockSize <= off + Len(s) - 1
  <2>1. IsInjective(ch)
    BY <1>0 DEF ch
  <2> QED BY <1>0, <1>1, <1>2, <1>3, <1>5, <2>1, ExtendedContinues
<1>7. Len(e.chain) \in Nat /\ Len(ch) <= Len(e.chain)
  BY <1>6 DEF Continues
<1> DEFINE lo == Len(ch)
           lc == Len(e.chain)
           ls == Len(s)
<1>8. WriteCase(BlockSize, lo, lc, size, off, ls, m)
  BY <1>w, <1>1, <1>2, <1>4, <1>6, <1>7, FsConstants DEF Capacity, size, WriteCase
<1> HIDE DEF lo, lc, ls
<1>9. WriteResult(BlockSize, lo, lc, size, off, ls, m)
  BY <1>8, WriteArithmetic
<1> QED BY <1>6, <1>9 DEF lo, lc, ls, ch, size, Capacity, WriteResult, Planned

(* What has been reached when w bytes are written and g is left. *)
WriteDone(f, n, off, s, g, w) ==
  /\ FsInv(g) /\ Grows(f, g)
  /\ \A k \in Nodes : g.node[k].inode = f.node[k].inode
  /\ w \in Nat /\ w <= Len(s) /\ off + w <= g.node[n].size
  /\ f.node[n].type = "DIR" => w = 0
  /\ \A k \in Nodes \ {n} : Text(g, k) = Text(f, k)
  /\ Text(g, n) = Overwritten(Text(f, n), off, SubSeq(s, 1, w))

(* A directory takes no bytes. *)
LEMMA WriteToDirectory ==
  ASSUME NEW f, NEW n, NEW off, NEW s, WriteAt(f, n, off, s), f.node[n].type # "FILE"
  PROVE  WriteDone(f, n, off, s, f, 0)
<1> USE DEF WriteAt
<1>0. \A k \in Nodes : f.node[k].size \in Nat /\ f.node[k].type \in {"FILE", "DIR"}
  BY FsFields, NodeFields DEF FsInv
<1>1. Grows(f, f)
  BY <1>0 DEF Grows
<1>2. Text(f, n) = <<>> /\ Text(f, n) \in Seq(Byte) /\ off = 0
  BY <1>0, TextFacts, TextType
<1>3. Len(Text(f, n)) = 0
  BY <1>2
<1>4. Overwritten(Text(f, n), off, SubSeq(s, 1, 0)) = Text(f, n)
  <2>1. off <= Len(Text(f, n))
    BY <1>2, <1>3
  <2> QED BY <1>2, <2>1, WrittenNothing, Zenon
<1> QED BY <1>0, <1>1, <1>4 DEF WriteDone

(* A write that finds no place for its first byte leaves the file as it is *)
(* and takes no block.                                                     *)
LEMMA WriteWithoutRoom ==
  ASSUME NEW f, NEW n, NEW off, NEW s, WriteAt(f, n, off, s), f.node[n].type = "FILE",
         NEW e, NEW m, Plan(f, n, off, s, e, m), m <= 0,
         NEW g, g = Chained(f, n, e)
  PROVE  WriteDone(f, n, off, s, g, 0)
<1>w. /\ FsInv(f) /\ n \in Nodes /\ off \in Nat /\ off <= f.node[n].size
      /\ s \in Seq(Byte) /\ s # <<>> /\ Len(s) \in Nat
  BY DEF WriteAt
<1>0. /\ f \in FsType /\ f.node \in [Nodes -> FsNode] /\ f.used \in SUBSET Blocks
      /\ f.node[n] \in FsNode /\ NodeSound(f.node[n])
  BY <1>w, FsFields DEF FsInv
<1>a. f.node[n].size \in Nat /\ Len(f.node[n].chain) \in Nat /\ f.node[n].inode \in Nat
  BY <1>0, NodeFields
<1> DEFINE nd == [f.node[n] EXCEPT !.chain = e.chain]
<1>1. Continues(e, f.node[n].chain, f.used) /\ Len(e.chain) = Len(f.node[n].chain)
  <2>1. Planned(f, n, off, s, e, m)
    BY WritePlan
  <2> QED BY <2>1 DEF Planned
<1>2. e \in [chain : Seq(Blocks), used : SUBSET Blocks]
      /\ \A i \in 1 .. Len(f.node[n].chain) : e.chain[i] = f.node[n].chain[i]
  BY <1>1 DEF Continues
<1>3. nd \in FsNode /\ nd.chain = e.chain /\ nd.size = f.node[n].size
      /\ nd.type = "FILE" /\ nd.inode = f.node[n].inode
  BY <1>0, <1>2, SMTT(20) DEF FsNode
<1>4. /\ g.node = [f.node EXCEPT ![n] = nd] /\ g.used = e.used /\ g.data = f.data
      /\ g.entries = f.entries /\ g.next_inode = f.next_inode
      /\ g = [node |-> g.node, used |-> g.used, data |-> g.data, entries |-> g.entries,
              next_inode |-> g.next_inode]
  BY <1>0, <1>w, Zenon DEF FsType, Chained
<1> HIDE DEF nd
<1>5. g \in FsType
  <2>1. g.node \in [Nodes -> FsNode] /\ g.used \in SUBSET Blocks
    BY <1>0, <1>w, <1>2, <1>3, <1>4
  <2> QED BY <1>0, <1>4, <2>1, FsFields DEF FsType
<1>6. NodeSound(nd)
  BY <1>0, <1>1, <1>3 DEF NodeSound, Capacity
<1>7. Continues([chain |-> nd.chain, used |-> g.used], f.node[n].chain, f.used)
  <2>1. [chain |-> nd.chain, used |-> g.used] = e
    BY <1>2, <1>3, <1>4
  <2> QED BY <1>1, <2>1
<1>8. n # Root
  BY <1>w DEF FsInv
<1>9. FsInv(g)
  BY <1>w, <1>3, <1>4, <1>5, <1>6, <1>7, <1>8, OneNodeChanges
<1>10. g.node[n] = nd /\ \A k \in Nodes \ {n} : g.node[k] = f.node[k]
  BY <1>0, <1>w, <1>4
<1>11. \A k \in Nodes : /\ g.node[k].inode = f.node[k].inode /\ g.node[k].type = f.node[k].type
                        /\ g.node[k].size = f.node[k].size /\ f.node[k].size \in Nat
                        /\ \A i \in 1 .. Len(f.node[k].chain) : g.node[k].chain[i] = f.node[k].chain[i]
  <2> SUFFICES ASSUME NEW k \in Nodes
               PROVE  /\ g.node[k].inode = f.node[k].inode /\ g.node[k].type = f.node[k].type
                      /\ g.node[k].size = f.node[k].size /\ f.node[k].size \in Nat
                      /\ \A i \in 1 .. Len(f.node[k].chain) : g.node[k].chain[i] = f.node[k].chain[i]
    OBVIOUS
  <2>1. CASE k = n
    BY <1>2, <1>3, <1>10, <1>a, <2>1
  <2>2. CASE k # n
    BY <1>0, <1>10, <2>2, NodeFields
  <2> QED BY <2>1, <2>2
<1>12. Grows(f, g)
  BY <1>11 DEF Grows
<1>13. ASSUME NEW k \in Nodes PROVE Text(g, k) = Text(f, k)
  <2>1. \A i \in 1 .. Len(f.node[k].chain) :
          /\ g.node[k].chain[i] = f.node[k].chain[i]
          /\ g.data[f.node[k].chain[i]] = f.data[f.node[k].chain[i]]
    BY <1>4, <1>11
  <2>2. g.node[k].type = f.node[k].type /\ g.node[k].size = f.node[k].size
    BY <1>11
  <2> QED BY <1>9, <1>w, <2>1, <2>2, TextKept, SMTT(20)
<1>14. Overwritten(Text(f, n), off, SubSeq(s, 1, 0)) = Text(f, n)
  BY <1>w, TextType, WrittenNothing
<1>15. off + 0 <= g.node[n].size
  BY <1>w, <1>11
<1> QED BY <1>w, <1>9, <1>11, <1>12, <1>13, <1>14, <1>15 DEF WriteDone

LEMMA Apart ==
  ASSUME NEW f, FsInv(f), NEW m \in Nodes, NEW n \in Nodes, m # n,
         NEW i \in 1 .. Len(f.node[m].chain), NEW j \in 1 .. Len(f.node[n].chain)
  PROVE  f.node[m].chain[i] # f.node[n].chain[j]
BY DEF FsInv

LEMMA FileText ==
  ASSUME NEW f, FsInv(f), NEW n \in Nodes, f.node[n].type = "FILE"
  PROVE  Text(f, n) = [i \in 1 .. f.node[n].size |-> ByteAt(f, n, i)]
BY TextFacts

(* A write of m bytes puts them into the file at off and nowhere else. *)
LEMMA WriteBytes ==
  ASSUME NEW f, NEW n, NEW off, NEW s, WriteAt(f, n, off, s), f.node[n].type = "FILE",
         NEW e, NEW m, Plan(f, n, off, s, e, m), m > 0,
         NEW d, d = Placed(f.data, e.chain, off, m, s),
         NEW g, g = Filled(f, n, e, off + m, d)
  PROVE  WriteDone(f, n, off, s, g, m)
<1>w. /\ FsInv(f) /\ n \in Nodes /\ f.node[n].inode # 0 /\ off \in Nat /\ off <= f.node[n].size
      /\ s \in Seq(Byte) /\ s # <<>> /\ Len(s) \in Nat
  BY DEF WriteAt
<1>0. /\ f \in FsType /\ f.node \in [Nodes -> FsNode] /\ f.used \in SUBSET Blocks
      /\ f.node[n] \in FsNode /\ NodeSound(f.node[n])
      /\ f.data \in [Blocks -> [0 .. BlockSize - 1 -> Byte]]
  BY <1>w, FsFields DEF FsInv
<1>a. /\ f.node[n].size \in Nat /\ Len(f.node[n].chain) \in Nat /\ f.node[n].inode \in Nat
      /\ f.node[n].chain \in Seq(Blocks)
  BY <1>0, NodeFields, SMTT(20)
<1> DEFINE old == f.node[n].chain
           size == f.node[n].size
           z == Grown(size, off + m)
           nd == [f.node[n] EXCEPT !.chain = e.chain, !.size = z]
<1>1. /\ Continues(e, old, f.used)
      /\ m \in Int /\ m <= Len(s) /\ off + m <= Capacity(e.chain)
      /\ z \in Nat /\ size <= z /\ off + m <= z
      /\ z = size \/ z = off + m
      /\ z <= Capacity(e.chain)
      /\ Len(e.chain) = 0 \/ (Len(e.chain) - 1) * BlockSize < z
  <2>1. Planned(f, n, off, s, e, m)
    BY WritePlan
  <2> QED BY <2>1 DEF Planned
<1>b. g = [f EXCEPT !.node[n].chain = e.chain, !.node[n].size = z, !.used = e.used, !.data = d]
  BY <1>0, <1>w DEF FsType, FsNode, Filled
<1> HIDE DEF z, old, size
<1>s. size \in Nat /\ off <= size /\ size = f.node[n].size
  BY <1>a, <1>w DEF size
<1>2. /\ e \in [chain : Seq(Blocks), used : SUBSET Blocks]
      /\ Len(old) <= Len(e.chain) /\ IsInjective(e.chain)
      /\ \A i \in 1 .. Len(old) : e.chain[i] = old[i]
      /\ f.used \subseteq e.used
      /\ \A b \in Blocks : b \in e.used \ f.used
                             <=> \E i \in Len(old) + 1 .. Len(e.chain) : e.chain[i] = b
  BY <1>1 DEF Continues
<1>c. e.chain \in Seq(Blocks) /\ e.used \in SUBSET Blocks /\ Len(e.chain) \in Nat /\ m \in Nat
  BY <1>1, <1>2
<1>d. Capacity(e.chain) \in Nat /\ Capacity(e.chain) = Len(e.chain) * BlockSize
      /\ Capacity(old) \in Nat /\ Capacity(old) = Len(old) * BlockSize /\ size <= Capacity(old)
  BY <1>0, <1>a, <1>c, FsConstants DEF Capacity, NodeSound, old, size
<1>3. nd \in FsNode /\ nd.chain = e.chain /\ nd.size = z
      /\ nd.type = "FILE" /\ nd.inode = f.node[n].inode
  BY <1>0, <1>1, <1>c, Zenon DEF FsNode
<1>4. /\ g.node = [f.node EXCEPT ![n] = nd] /\ g.used = e.used /\ g.data = d
      /\ g.entries = f.entries /\ g.next_inode = f.next_inode
      /\ g = [node |-> g.node, used |-> g.used, data |-> g.data, entries |-> g.entries,
              next_inode |-> g.next_inode]
  <2> DEFINE one == [f.node EXCEPT ![n].chain = e.chain]
  <2>1. g = [node |-> [one EXCEPT ![n].size = z], used |-> e.used, data |-> d,
             entries |-> f.entries, next_inode |-> f.next_inode]
    BY <1>0, <1>b, Zenon DEF FsType
  <2>2. [one EXCEPT ![n].size = z] = [f.node EXCEPT ![n] = nd]
    BY <1>0, <1>w, Zenon
  <2> HIDE DEF one, nd
  <2>3. g = [node |-> [f.node EXCEPT ![n] = nd], used |-> e.used, data |-> d,
             entries |-> f.entries, next_inode |-> f.next_inode]
    BY <2>1, <2>2, Zenon
  <2>4. /\ g.node = [f.node EXCEPT ![n] = nd] /\ g.used = e.used /\ g.data = d
        /\ g.entries = f.entries /\ g.next_inode = f.next_inode
    BY <2>3
  <2> QED BY <2>3, <2>4
<1> HIDE DEF nd
<1>5. /\ d \in [Blocks -> [0 .. BlockSize - 1 -> Byte]]
      /\ \A i \in 1 .. m : d[BlockOf(e.chain, off + i - 1)][(off + i - 1) % BlockSize] = s[i]
      /\ \A b \in Blocks, j \in 0 .. BlockSize - 1 :
           (\A i \in 1 .. m : ~ (BlockOf(e.chain, off + i - 1) = b
                                  /\ (off + i - 1) % BlockSize = j))
             => d[b][j] = f.data[b][j]
  <2>1. IsPlaced(d, f.data, e.chain, off, m, s)
    <3>1. f.data \in [Blocks -> [0 .. BlockSize - 1 -> Byte]]
      BY <1>0
    <3>2. e.chain \in Seq(Blocks) /\ IsInjective(e.chain) /\ off + m <= Capacity(e.chain)
      BY <1>1, <1>2, <1>c
    <3>3. off \in Nat /\ s \in Seq(Byte) /\ m \in Nat /\ m <= Len(s)
      BY <1>1, <1>c, <1>w
    <3> QED BY <3>1, <3>2, <3>3, BytesPlaced, Zenon
  <2> QED BY <2>1 DEF IsPlaced
<1>6. g \in FsType
  <2>1. g.node \in [Nodes -> FsNode] /\ g.used \in SUBSET Blocks
    BY <1>0, <1>w, <1>c, <1>3, <1>4
  <2> QED BY <1>0, <1>4, <1>5, <2>1, FsFields DEF FsType
<1>7. NodeSound(nd)
  BY <1>1, <1>3, <1>w DEF NodeSound
<1>8. Continues([chain |-> nd.chain, used |-> g.used], f.node[n].chain, f.used)
  <2>1. [chain |-> nd.chain, used |-> g.used] = e
    BY <1>2, <1>3, <1>4
  <2> QED BY <1>1, <2>1 DEF old
<1>9. n # Root
  BY <1>w DEF FsInv
<1>10. FsInv(g)
  BY <1>w, <1>3, <1>4, <1>6, <1>7, <1>8, <1>9, OneNodeChanges
<1>11. g.node[n] = nd /\ \A k \in Nodes \ {n} : g.node[k] = f.node[k]
  BY <1>0, <1>w, <1>4
<1>12. \A k \in Nodes : /\ g.node[k].inode = f.node[k].inode /\ g.node[k].type = f.node[k].type
                        /\ f.node[k].size <= g.node[k].size
  <2> SUFFICES ASSUME NEW k \in Nodes
               PROVE  /\ g.node[k].inode = f.node[k].inode /\ g.node[k].type = f.node[k].type
                      /\ f.node[k].size <= g.node[k].size
    OBVIOUS
  <2>1. CASE k = n
    BY <1>1, <1>3, <1>11, <2>1 DEF size
  <2>2. CASE k # n
    <3>1. f.node[k].size \in Nat
      BY <1>0, NodeFields
    <3> QED BY <1>11, <2>2, <3>1
  <2> QED BY <2>1, <2>2
<1>13. Grows(f, g)
  BY <1>12 DEF Grows
(* Where the bytes of the write are. *)
<1>14. \A i \in 1 .. m : /\ off + i - 1 \in Nat /\ off + i - 1 < Capacity(e.chain)
                         /\ (off + i - 1) \div BlockSize + 1 \in 1 .. Len(e.chain)
  <2> SUFFICES ASSUME NEW i \in 1 .. m
               PROVE  /\ off + i - 1 \in Nat /\ off + i - 1 < Capacity(e.chain)
                      /\ (off + i - 1) \div BlockSize + 1 \in 1 .. Len(e.chain)
    OBVIOUS
  <2>1. off + i - 1 \in Nat /\ off + i - 1 < Capacity(e.chain)
    BY <1>1, <1>c, <1>d, <1>w, SMTT(20)
  <2> QED BY <1>c, <1>d, <2>1, InChain
<1>15. ASSUME NEW k \in Nodes \ {n} PROVE Text(g, k) = Text(f, k)
  <2>0. f.node[k].chain \in Seq(Blocks)
    BY <1>0, NodeFields
  <2>1. ASSUME NEW i \in 1 .. Len(f.node[k].chain)
        PROVE  d[f.node[k].chain[i]] = f.data[f.node[k].chain[i]]
    <3> DEFINE b == f.node[k].chain[i]
    <3>1. b \in Blocks
      BY <2>0
    <3>2. ASSUME NEW x \in 1 .. m PROVE BlockOf(e.chain, off + x - 1) # b
      <4> DEFINE q == (off + x - 1) \div BlockSize + 1
      <4>1. q \in 1 .. Len(e.chain)
        BY <1>14
      <4>2. q \in 1 .. Len(g.node[n].chain) /\ i \in 1 .. Len(g.node[k].chain)
            /\ g.node[n].chain = e.chain /\ g.node[k].chain = f.node[k].chain
        BY <1>3, <1>11, <4>1, SMTT(20)
      <4>3. e.chain[q] # b
        <5> HIDE DEF q
        <5>1. k \in Nodes /\ n # k
          OBVIOUS
        <5>2. g.node[n].chain[q] # g.node[k].chain[i]
          BY <1>10, <1>w, <4>2, <5>1, Apart, SMTT(20)
        <5> QED BY <4>2, <5>2, SMTT(20)
      <4> QED BY <4>3 DEF BlockOf
    <3>3. \A j \in 0 .. BlockSize - 1 : d[b][j] = f.data[b][j]
      BY <1>5, <3>1, <3>2, SMTT(20)
    <3>4. d[b] \in [0 .. BlockSize - 1 -> Byte] /\ f.data[b] \in [0 .. BlockSize - 1 -> Byte]
      BY <1>0, <1>5, <3>1
    <3> HIDE DEF b
    <3>5. d[b] = f.data[b]
      <4>1. /\ d[b] = [j \in 0 .. BlockSize - 1 |-> d[b][j]]
            /\ f.data[b] = [j \in 0 .. BlockSize - 1 |-> f.data[b][j]]
        BY <3>4, Zenon
      <4> QED BY <3>3, <4>1
    <3> QED BY <3>5 DEF b
  <2>2. \A i \in 1 .. Len(f.node[k].chain) :
          /\ g.node[k].chain[i] = f.node[k].chain[i]
          /\ g.data[f.node[k].chain[i]] = f.data[f.node[k].chain[i]]
    BY <1>4, <1>11, <2>1
  <2>3. g.node[k].type = f.node[k].type /\ g.node[k].size = f.node[k].size
    BY <1>11
  <2> QED BY <1>10, <1>w, <2>2, <2>3, TextKept, SMTT(20)
<1> DEFINE t == Text(f, n)
<1>16. t \in Seq(Byte) /\ Len(t) = size /\ t = [i \in 1 .. size |-> ByteAt(f, n, i)]
  BY <1>w, TextType, TextFacts DEF size
<1>17. Text(g, n) = [i \in 1 .. z |-> ByteAt(g, n, i)]
  <2>1. g.node[n].type = "FILE" /\ g.node[n].size = z
    BY <1>3, <1>11
  <2>2. Text(g, n) = [i \in 1 .. g.node[n].size |-> ByteAt(g, n, i)]
    BY <1>10, <1>w, <2>1, FileText, ZenonT(30)
  <2> QED BY <2>1, <2>2, Zenon
<1>18. ASSUME NEW i \in 1 .. z
       PROVE  ByteAt(g, n, i) = IF i \in off + 1 .. off + m THEN s[i - off] ELSE t[i]
  <2> DEFINE b == BlockOf(e.chain, i - 1)
             j == (i - 1) % BlockSize
  <2>1. ByteAt(g, n, i) = d[b][j]
    BY <1>3, <1>4, <1>11, Zenon DEF ByteAt, BlockOf
  <2>2. CASE i \in off + 1 .. off + m
    <3>1. i - off \in 1 .. m /\ off + (i - off) - 1 = i - 1
      BY <1>1, <1>c, <1>w, <2>2
    <3>2. d[b][j] = s[i - off]
      BY <1>5, <3>1
    <3> QED BY <2>1, <2>2, <3>2
  <2>3. CASE i \notin off + 1 .. off + m
    <3>1. i \in 1 .. size
      BY <1>1, <1>c, <1>w, <1>s, <2>3
    <3>2. i - 1 \in Nat /\ i - 1 < Len(old) * BlockSize /\ i - 1 < Capacity(e.chain)
      BY <1>1, <1>d, <1>s, <3>1
    <3>3. (i - 1) \div BlockSize + 1 \in 1 .. Len(old) /\ j \in 0 .. BlockSize - 1
      BY <1>a, <3>2, InChain DEF old
    <3>4. b \in Blocks /\ b = BlockOf(old, i - 1)
      BY <1>a, <1>2, <3>3 DEF BlockOf, old
    <3>5. ASSUME NEW x \in 1 .. m, BlockOf(e.chain, off + x - 1) = b,
                 ((off + x - 1) % BlockSize) = j
          PROVE  FALSE
      <4>1. off + x - 1 = i - 1
        BY <1>2, <1>c, <1>14, <3>2, <3>5, OnePlace, SMTT(20)
      <4> QED BY <1>c, <1>w, <2>3, <4>1
    <3>6. d[b][j] = f.data[b][j]
      BY <1>5, <3>3, <3>4, <3>5, SMTT(20)
    <3>7. t[i] = ByteAt(f, n, i)
      <4> HIDE DEF t
      <4> QED BY <1>16, <3>1
    <3>8. ByteAt(f, n, i) = f.data[b][j]
      BY <3>4 DEF ByteAt, BlockOf, old
    <3> HIDE DEF b, j, t
    <3> QED BY <2>1, <2>3, <3>6, <3>7, <3>8
  <2> QED BY <2>2, <2>3
<1>19. Text(g, n) = Overwritten(t, off, SubSeq(s, 1, m))
  <2> HIDE DEF t
  <2>1. z = IF Len(t) <= off + m THEN off + m ELSE Len(t)
    BY <1>1, <1>c, <1>w, <1>s, <1>16
  <2>2. Overwritten(t, off, SubSeq(s, 1, m))
          = [i \in 1 .. (IF Len(t) <= off + m THEN off + m ELSE Len(t)) |->
               IF i \in off + 1 .. off + m THEN s[i - off] ELSE t[i]]
    BY <1>1, <1>c, <1>w, <1>16, WrittenIs, Zenon
  <2>3. Overwritten(t, off, SubSeq(s, 1, m))
          = [i \in 1 .. z |-> IF i \in off + 1 .. off + m THEN s[i - off] ELSE t[i]]
    BY <2>1, <2>2
  <2> QED BY <1>17, <1>18, <2>3, Zenon
<1>20. off + m <= g.node[n].size
  BY <1>1, <1>3, <1>11
<1> QED BY <1>1, <1>c, <1>10, <1>12, <1>13, <1>15, <1>19, <1>20 DEF WriteDone

LEMMA WriteFacts ==
  ASSUME NEW f, NEW n, NEW off, NEW s, WriteAt(f, n, off, s)
  PROVE  LET r == ramfs_write(f, n, off, s)
         IN  WriteDone(f, n, off, s, r.fs, Max({0, r.written}))
<1> DEFINE r == ramfs_write(f, n, off, s)
           e == Extended(f, f.node[n].chain, off + Len(s) - 1)
           m == Min({Len(s), Capacity(e.chain) - off})
<1>1. Plan(f, n, off, s, e, m)
  BY DEF Plan
<1>2. CASE f.node[n].type # "FILE"
  <2>1. r = [fs |-> f, written |-> -1]
    BY <1>2 DEF ramfs_write
  <2>2. Max({0, -1}) = 0
    BY MaxZero
  <2>3. WriteDone(f, n, off, s, f, 0)
    BY <1>2, WriteToDirectory
  <2> HIDE DEF r
  <2>4. r.fs = f /\ r.written = -1
    BY <2>1
  <2> QED BY <2>2, <2>3, <2>4, SMTT(20) DEF r
<1>3. CASE f.node[n].type = "FILE" /\ m <= 0
  <2>1. r = [fs |-> Chained(f, n, e), written |-> -1]
    BY <1>3 DEF ramfs_write, Chained
  <2>2. Max({0, -1}) = 0
    BY MaxZero
  <2> HIDE DEF r, e, m
  <2>3. WriteDone(f, n, off, s, Chained(f, n, e), 0)
    BY <1>1, <1>3, WriteWithoutRoom
  <2>4. r.fs = Chained(f, n, e) /\ r.written = -1
    BY <2>1
  <2> QED BY <2>2, <2>3, <2>4 DEF r
<1>4. CASE f.node[n].type = "FILE" /\ ~ (m <= 0)
  <2> DEFINE d == Placed(f.data, e.chain, off, m, s)
  <2>1. r = [fs |-> Filled(f, n, e, off + m, d), written |-> m]
    BY <1>4 DEF ramfs_write, Filled, Placed, Here
  <2> HIDE DEF r, e, m
  <2>2. m \in Int
    <3>1. Planned(f, n, off, s, e, m)
      BY <1>1, <1>4, WritePlan
    <3> QED BY <3>1 DEF Planned
  <2>3. m > 0
    BY <1>4, <2>2
  <2>4. Max({0, m}) = m
    BY <2>2, <2>3, MaxZero
  <2>5. WriteDone(f, n, off, s, Filled(f, n, e, off + m, d), m)
    <3>1. f.node[n].type = "FILE"
      BY <1>4
    <3> HIDE DEF d
    <3>2. d = Placed(f.data, e.chain, off, m, s)
      BY DEF d
    <3> QED BY <1>1, <2>3, <3>1, <3>2, WriteBytes
  <2> HIDE DEF d
  <2>6. r.fs = Filled(f, n, e, off + m, d) /\ r.written = m
    BY <2>1
  <2> QED BY <2>4, <2>5, <2>6 DEF r
<1> QED BY <1>2, <1>3, <1>4

(* ramfs_read returns the bytes from the offset on. *)
BytesFrom(f, n, off, r) == [i \in 1 .. r |-> ByteAt(f, n, off + i)]

LEMMA ReadIs ==
  ASSUME NEW f, NEW n, NEW off \in Nat, NEW k, Readable(f.node[n], off, k) \in Nat
  PROVE  ramfs_read(f, n, off, k) = BytesFrom(f, n, off, Readable(f.node[n], off, k))
<1> DEFINE S == 1 .. Readable(f.node[n], off, k)
<1>1. ramfs_read(f, n, off, k)
        = [i \in S |-> f.data[f.node[n].chain[(off + i - 1) \div BlockSize + 1]]
                            [(off + i - 1) % BlockSize]]
  BY DEF ramfs_read, BlockOf, PosInBlock
<1>a. \A i \in S : (off + i) - 1 = off + i - 1
  BY SMTT(20)
<1> HIDE DEF S
<1>2. \A i \in S : ByteAt(f, n, off + i)
                   = f.data[f.node[n].chain[(off + i - 1) \div BlockSize + 1]]
                           [(off + i - 1) % BlockSize]
  BY <1>a, Zenon DEF ByteAt
<1>3. ramfs_read(f, n, off, k) = [i \in S |-> ByteAt(f, n, off + i)]
  BY <1>1, <1>2, Zenon
<1> QED BY <1>3 DEF S, BytesFrom

(* ... and they are the bytes of the text. *)
ReadAt(f, n, off, k) ==
  /\ FsInv(f) /\ n \in Nodes /\ off \in Nat /\ off <= f.node[n].size
  /\ f.node[n].type = "DIR" => off = 0
  /\ k \in Nat

ReadDone(f, n, off, s) ==
  /\ Len(s) \in Nat /\ off + Len(s) <= f.node[n].size
  /\ f.node[n].type = "DIR" => Len(s) = 0
  /\ off + Len(s) <= Len(Text(f, n))
  /\ \A i \in DOMAIN s : s[i] = Text(f, n)[off + i]

LEMMA ReadFacts ==
  ASSUME NEW f, NEW n, NEW off, NEW k, ReadAt(f, n, off, k)
  PROVE  ReadDone(f, n, off, ramfs_read(f, n, off, k))
<1>w. /\ FsInv(f) /\ n \in Nodes /\ off \in Nat /\ off <= f.node[n].size
      /\ f.node[n].type = "DIR" => off = 0
      /\ k \in Nat
  BY DEF ReadAt
<1> DEFINE r == Readable(f.node[n], off, k)
           s == ramfs_read(f, n, off, k)
<1>1. f.node[n] \in FsNode /\ NodeSound(f.node[n])
  BY <1>w, FsFields DEF FsInv
<1>2. f.node[n].size \in Nat /\ f.node[n].type \in {"FILE", "DIR"}
  BY <1>1, NodeFields
<1>3. /\ r \in Nat /\ (f.node[n].type # "FILE" => r = 0)
      /\ (f.node[n].type = "FILE" => off + r <= f.node[n].size)
  BY <1>w, <1>1, ReadableFacts, Zenon
<1>4. off + r <= f.node[n].size
  BY <1>w, <1>2, <1>3
<1>5. s = [i \in 1 .. r |-> ByteAt(f, n, off + i)]
  <2>1. Readable(f.node[n], off, k) \in Nat
    BY <1>3
  <2>2. s = BytesFrom(f, n, off, r)
    BY <1>w, <2>1, ReadIs, Zenon
  <2> QED BY <2>2 DEF BytesFrom
<1> HIDE DEF r, s
<1>6. Len(s) = r /\ DOMAIN s = 1 .. r
  BY <1>3, <1>5
<1>7. ASSUME f.node[n].type = "FILE" PROVE ReadDone(f, n, off, s)
  <2>1. Text(f, n) = [j \in 1 .. f.node[n].size |-> ByteAt(f, n, j)]
    BY <1>w, <1>7, TextFacts
  <2>2. Len(Text(f, n)) = f.node[n].size
    BY <1>w, <1>7, TextType
  <2>3. ASSUME NEW i \in 1 .. r PROVE s[i] = Text(f, n)[off + i]
    <3>1. off + i \in 1 .. f.node[n].size
      BY <1>w, <1>2, <1>3, <1>4
    <3>2. PICK j \in 1 .. f.node[n].size : j = off + i
      BY <3>1
    <3>3. Text(f, n)[j] = ByteAt(f, n, j)
      BY <2>1
    <3> QED BY <1>5, <3>2, <3>3
  <2> QED BY <1>3, <1>4, <1>6, <1>7, <2>2, <2>3 DEF ReadDone
<1>8. ASSUME f.node[n].type # "FILE" PROVE ReadDone(f, n, off, s)
  <2>1. r = 0 /\ off = 0 /\ 1 .. r = {}
    BY <1>w, <1>2, <1>3, <1>8
  <2>2. Len(Text(f, n)) \in Nat
    BY <1>w, TextType
  <2> QED BY <1>2, <1>6, <2>1, <2>2 DEF ReadDone
<1> QED BY <1>7, <1>8 DEF s

LEMMA SameFsGrows ==
  ASSUME NEW f, FsInv(f)
  PROVE  Grows(f, f) /\ SameTexts(f, f)
<1>1. \A n \in Nodes : f.node[n].size \in Nat
  BY FsFields, NodeFields DEF FsInv
<1> QED BY <1>1 DEF Grows, SameTexts

(* ramfs_finddir returns an inode in use, or none. *)
LEMMA FindFacts ==
  ASSUME NEW f, NEW name, ramfs_finddir(f, name) # NoNode
  PROVE  ramfs_finddir(f, name) \in Nodes /\ f.node[ramfs_finddir(f, name)].inode # 0
<1> DEFINE S == Named(f, name)
           i == Min(S)
           T == {n \in Nodes : f.node[n].inode = f.entries[i].inode}
<1>1. S # {}
  BY DEF ramfs_finddir
<1>2. S \in SUBSET Nat
  BY FsConstants DEF Named
<1>3. i \in S
  <2> HIDE DEF S
  <2> QED BY <1>1, <1>2, MinFacts
<1>4. f.entries[i].inode # 0 /\ T # {}
  <2> HIDE DEF i
  <2> QED BY <1>3 DEF Named
<1>5. ramfs_finddir(f, name) = Min(T)
  BY <1>1 DEF ramfs_finddir
<1>6. T \in SUBSET Nat
  BY FsConstants, Zenon
<1>7. Min(T) \in T
  <2> HIDE DEF T
  <2> QED BY <1>4, <1>6, MinFacts, SMTT(20)
<1> HIDE DEF i
<1>8. Min(T) \in Nodes /\ f.node[Min(T)].inode # 0
  BY <1>4, <1>7
<1> QED BY <1>5, <1>8

-----------------------------------------------------------------------------
(* fs_init. *)
LEMMA EmptyFsInv == FsInv(EmptyFs)
<1> DEFINE f == EmptyFs
           root == Node(1, "DIR", 0, <<0>>)
           free == Node(0, "FILE", 0, <<>>)
           ns == [n \in Nodes |-> IF n = Root THEN root ELSE free]
           da == [b \in Blocks |-> [j \in 0 .. BlockSize - 1 |-> 0]]
           en == [i \in 1 .. MaxEntries |-> NoEntry]
<1>0. f = [node |-> ns, used |-> {0}, data |-> da, entries |-> en, next_inode |-> 2]
  BY DEF EmptyFs
<1>a. 0 \in Blocks /\ Root \in Nodes /\ 0 \in Byte
  BY FsConstants, FsAssumption
<1>1. root \in FsNode /\ root.inode = 1 /\ root.type = "DIR" /\ root.chain = <<0>>
  BY <1>a DEF FsNode, Node
<1>2. free \in FsNode /\ free.inode = 0 /\ free.type = "FILE" /\ free.chain = <<>> /\ free.size = 0
  BY DEF FsNode, Node
<1>3. da \in [Blocks -> [0 .. BlockSize - 1 -> Byte]]
  BY <1>a
<1>4. en \in [1 .. MaxEntries -> [name : FileNames, inode : Nat]]
  BY DEF NoEntry, FileNames
<1> HIDE DEF root, free, da, en, f
<1>5. ns \in [Nodes -> FsNode]
  BY <1>1, <1>2
<1>6. f.node = ns /\ f.used = {0} /\ f \in FsType
  BY <1>0, <1>3, <1>4, <1>5, <1>a DEF FsType
<1>7. f.node[Root] = root /\ \A n \in Nodes \ {Root} : f.node[n] = free
  BY <1>6, <1>a
<1> HIDE DEF ns
<1>8. Len(<<0>>) = 1 /\ <<0>>[1] = 0 /\ DOMAIN <<0>> = {1} /\ Len(<<>>) = 0 /\ DOMAIN <<>> = {}
      /\ Capacity(<<>>) = 0 /\ 1 .. 1 = {1} /\ 1 .. 0 = {}
  BY FsConstants DEF Capacity
<1>9. \A n \in Nodes : NodeSound(f.node[n]) /\ IsInjective(f.node[n].chain)
  <2>1. NodeSound(root) /\ IsInjective(root.chain)
    BY <1>1, <1>8 DEF NodeSound, IsInjective
  <2>2. NodeSound(free) /\ IsInjective(free.chain)
    BY <1>2, <1>8 DEF NodeSound, IsInjective
  <2> QED BY <1>7, <2>1, <2>2
<1>10. \A n \in Nodes : f.node[n].chain = IF n = Root THEN <<0>> ELSE <<>>
  BY <1>1, <1>2, <1>7
<1>11. \A m, n \in Nodes : m # n =>
         \A i \in 1 .. Len(f.node[m].chain), j \in 1 .. Len(f.node[n].chain) :
           f.node[m].chain[i] # f.node[n].chain[j]
  BY <1>8, <1>10
<1>12. \A b \in Blocks : b \in f.used <=> \E n \in Nodes : \E i \in 1 .. Len(f.node[n].chain) :
                                            f.node[n].chain[i] = b
  BY <1>6, <1>8, <1>10, <1>a
<1>13. f.node[Root].type = "DIR" /\ f.node[Root].inode # 0
  BY <1>1, <1>7
<1>14. FsInv(f)
  BY <1>6, <1>9, <1>11, <1>12, <1>13 DEF FsInv
<1> QED BY <1>14 DEF f

(* One of the files fs_init creates, in an inode that is free. *)
LEMMA WithFileFacts ==
  ASSUME NEW f, FsInv(f), NEW name \in FileNames, NEW s \in Seq(Byte), s # <<>>,
         \E n \in Nodes : f.node[n].inode = 0
  PROVE  LET g == WithFile(f, name, s)
         IN  FsInv(g) /\ \A m \in Nodes \ {Root, FreeNode(f)} : g.node[m].inode = f.node[m].inode
<1> DEFINE r == ramfs_create_file(f, name)
           n == FreeNode(f)
           g == WithFile(f, name, s)
<1>1. n # NoNode
  BY FreeNodeFacts
<1>2. /\ FsInv(r.fs) /\ r.node = n /\ n \in Nodes /\ r.fs.node[n].inode # 0
      /\ r.fs.node[n].type = "FILE"
      /\ \A m \in Nodes \ {n, Root} : r.fs.node[m] = f.node[m]
  BY <1>1, CreateFileFacts
<1>3. g = ramfs_write(r.fs, n, 0, s).fs
  BY <1>2 DEF WithFile
<1> HIDE DEF n, r, g
<1>4. r.fs.node[n].size \in Nat
  BY <1>2, FsFields, NodeFields DEF FsInv
<1>5. WriteAt(r.fs, n, 0, s)
  BY <1>2, <1>4 DEF WriteAt
<1>6. WriteDone(r.fs, n, 0, s, g, Max({0, ramfs_write(r.fs, n, 0, s).written}))
  BY <1>3, <1>5, WriteFacts
<1>7. FsInv(g) /\ \A k \in Nodes : g.node[k].inode = r.fs.node[k].inode
  BY <1>6 DEF WriteDone
<1> QED BY <1>2, <1>7 DEF n, g

LEMMA FsInitInv == FsInv(fs_init)
<1> DEFINE f == EmptyFs
           g == WithFile(f, "hello.txt", <<1>>)
<1>1. FsInv(f)
  BY EmptyFsInv
<1>2. 1 \in Nodes /\ 2 \in Nodes /\ Root = 0
  BY FsAssumption DEF Nodes, Root
<1>3. f.node[1].inode = 0 /\ f.node[2].inode = 0
  <2>1. f.node = [n \in Nodes |-> IF n = Root THEN Node(1, "DIR", 0, <<0>>)
                                             ELSE Node(0, "FILE", 0, <<>>)]
    BY DEF EmptyFs
  <2> HIDE DEF f
  <2>2. f.node[1] = Node(0, "FILE", 0, <<>>) /\ f.node[2] = Node(0, "FILE", 0, <<>>)
    BY <1>2, <2>1
  <2> QED BY <2>2 DEF Node
<1>4. /\ "hello.txt" \in FileNames /\ "readme.txt" \in FileNames
      /\ <<1>> \in Seq(Byte) /\ <<1>> # <<>> /\ <<1, 0>> \in Seq(Byte) /\ <<1, 0>> # <<>>
  BY FsAssumption DEF FileNames
<1> HIDE DEF f
<1>5. FsInv(g) /\ \A m \in Nodes \ {Root, FreeNode(f)} : g.node[m].inode = f.node[m].inode
  BY <1>1, <1>2, <1>3, <1>4, WithFileFacts, ZenonT(30)
<1>6. fs_init = WithFile(g, "readme.txt", <<1, 0>>)
  BY DEF fs_init, f
<1> HIDE DEF g
<1>7. \E n \in Nodes : g.node[n].inode = 0
  <2>1. CASE FreeNode(f) # 1
    BY <1>2, <1>3, <1>5, <2>1
  <2>2. CASE FreeNode(f) = 1
    BY <1>2, <1>3, <1>5, <2>2
  <2> QED BY <2>1, <2>2
<1> QED BY <1>4, <1>5, <1>6, <1>7, WithFileFacts, Zenon
=============================================================================
