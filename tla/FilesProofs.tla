----------------------------- MODULE FilesProofs ----------------------------
(***************************************************************************)
(* Proofs about Files: the RAM file system of fs.c, the pipes of pipe.c    *)
(* and the descriptor tables over them, for any number of processes,       *)
(* inodes, blocks, block size, pipe size and file contents.                *)
(***************************************************************************)
EXTENDS Files, RamfsProofs, TLAPS

-----------------------------------------------------------------------------
(* Pipes. *)
PipeInv(q) == q \in P!PipeType /\ q.write_pos = P!At(q.read_pos, q.count)

LEMMA PipeFields ==
  ASSUME NEW q \in P!PipeType
  PROVE  /\ q.buffer \in [0 .. PipeSize - 1 -> Byte]
         /\ q.read_pos \in 0 .. PipeSize - 1 /\ q.write_pos \in 0 .. PipeSize - 1
         /\ q.count \in 0 .. PipeSize
         /\ q.reader_closed \in BOOLEAN /\ q.writer_closed \in BOOLEAN
         /\ PipeSize \in Nat \ {0}
BY FilesAssumption DEF P!PipeType

(* Positions in the ring. *)
LEMMA AtIs ==
  ASSUME NEW pos \in 0 .. PipeSize - 1, NEW i \in 0 .. PipeSize
  PROVE  /\ P!At(pos, i) = IF pos + i < PipeSize THEN pos + i ELSE pos + i - PipeSize
         /\ P!At(pos, i) \in 0 .. PipeSize - 1
<1>0. PipeSize \in Nat \ {0} /\ pos + i \in Nat
  BY FilesAssumption
<1>1. CASE pos + i < PipeSize
  <2>1. 0 \in Nat /\ 0 * PipeSize = 0
    BY <1>0
  <2>2. ((pos + i) % PipeSize) = (pos + i) - 0 * PipeSize
    BY <1>0, <1>1, <2>1, OnlyQuotient
  <2>3. P!At(pos, i) = pos + i
    BY <1>0, <2>1, <2>2 DEF P!At
  <2> QED BY <1>0, <1>1, <2>3
<1>2. CASE ~ (pos + i < PipeSize)
  <2>1. 1 \in Nat /\ 1 * PipeSize = PipeSize
    BY <1>0
  <2>2. 1 * PipeSize <= pos + i /\ pos + i < 1 * PipeSize + PipeSize
    BY <1>0, <1>2, <2>1
  <2>3. ((pos + i) % PipeSize) = (pos + i) - 1 * PipeSize
    BY <1>0, <2>1, <2>2, OnlyQuotient, Zenon
  <2>4. P!At(pos, i) = pos + i - PipeSize
    BY <1>0, <2>1, <2>3 DEF P!At
  <2> QED BY <1>0, <1>2, <2>4
<1> QED BY <1>1, <1>2

LEMMA AtTwice ==
  ASSUME NEW pos \in 0 .. PipeSize - 1, NEW k \in Nat, NEW i \in Nat, k + i <= PipeSize
  PROVE  P!At(P!At(pos, k), i) = P!At(pos, k + i)
<1>0. PipeSize \in Nat \ {0} /\ k \in 0 .. PipeSize /\ i \in 0 .. PipeSize /\ k + i \in 0 .. PipeSize
  BY FilesAssumption
<1>1. PICK x : x = P!At(pos, k)
  OBVIOUS
<1>2. x = (IF pos + k < PipeSize THEN pos + k ELSE pos + k - PipeSize) /\ x \in 0 .. PipeSize - 1
  BY <1>0, <1>1, AtIs, Zenon
<1>3. P!At(x, i) = IF x + i < PipeSize THEN x + i ELSE x + i - PipeSize
  BY <1>0, <1>2, AtIs, Zenon
<1>4. P!At(pos, k + i) = IF pos + (k + i) < PipeSize THEN pos + (k + i)
                         ELSE pos + (k + i) - PipeSize
  BY <1>0, AtIs, Zenon
<1> QED BY <1>0, <1>1, <1>2, <1>3, <1>4

LEMMA AtInjective ==
  ASSUME NEW pos \in 0 .. PipeSize - 1, NEW i \in 0 .. PipeSize - 1, NEW j \in 0 .. PipeSize - 1,
         P!At(pos, i) = P!At(pos, j)
  PROVE  i = j
<1>0. PipeSize \in Nat \ {0} /\ i \in 0 .. PipeSize /\ j \in 0 .. PipeSize
  BY FilesAssumption
<1>1. /\ P!At(pos, i) = IF pos + i < PipeSize THEN pos + i ELSE pos + i - PipeSize
      /\ P!At(pos, j) = IF pos + j < PipeSize THEN pos + j ELSE pos + j - PipeSize
  BY <1>0, AtIs, Zenon
<1>2. (IF pos + i < PipeSize THEN pos + i ELSE pos + i - PipeSize)
        = IF pos + j < PipeSize THEN pos + j ELSE pos + j - PipeSize
  BY <1>1, Zenon
<1>3. i \in Int /\ j \in Int /\ pos \in Int /\ 0 <= i /\ i < PipeSize /\ 0 <= j /\ j < PipeSize
  BY <1>0
<1>4. CASE pos + i < PipeSize
  BY <1>0, <1>2, <1>3, <1>4
<1>5. CASE ~ (pos + i < PipeSize)
  BY <1>0, <1>2, <1>3, <1>5
<1> QED BY <1>4, <1>5

LEMMA ContentsType ==
  ASSUME NEW q, PipeInv(q)
  PROVE  P!Contents(q) \in Seq(Byte) /\ Len(P!Contents(q)) = q.count
<1>1. q \in P!PipeType
  BY DEF PipeInv
<1>2. /\ q.buffer \in [0 .. PipeSize - 1 -> Byte] /\ q.read_pos \in 0 .. PipeSize - 1
      /\ q.count \in 0 .. PipeSize /\ PipeSize \in Nat \ {0}
  BY <1>1, PipeFields
<1>3. ASSUME NEW i \in 1 .. q.count PROVE q.buffer[P!At(q.read_pos, i - 1)] \in Byte
  <2>1. i - 1 \in 0 .. PipeSize
    BY <1>2
  <2>2. P!At(q.read_pos, i - 1) \in 0 .. PipeSize - 1
    BY <1>2, <2>1, AtIs, Zenon
  <2> QED BY <1>2, <2>2
<1>4. q.count \in Nat
  BY <1>2
<1> QED BY <1>3, <1>4 DEF P!Contents

(* The minimum used in Pipe. *)
LEMMA PipeMin ==
  ASSUME NEW a \in Int, NEW b \in Int
  PROVE  P!Min({a, b}) = IF a <= b THEN a ELSE b
BY DEF P!Min

LEMMA ConcatSecond ==
  ASSUME NEW S, NEW u \in Seq(S), NEW t \in Seq(S), NEW i \in Len(u) + 1 .. Len(u) + Len(t)
  PROVE  (u \o t)[i] = t[i - Len(u)]
OBVIOUS

(* pipe_read takes bytes from the front, in order. *)
LEMMA PipeReadFacts ==
  ASSUME NEW q, PipeInv(q), NEW n \in Nat
  PROVE  LET r == P!pipe_read(q, n)
         IN  /\ PipeInv(r.pipe)
             /\ P!Contents(q) = r.bytes \o P!Contents(r.pipe)
<1>0. q \in P!PipeType /\ q.write_pos = P!At(q.read_pos, q.count)
  BY DEF PipeInv
<1>a. /\ q.buffer \in [0 .. PipeSize - 1 -> Byte] /\ q.read_pos \in 0 .. PipeSize - 1
      /\ q.count \in 0 .. PipeSize /\ PipeSize \in Nat \ {0}
  BY <1>0, PipeFields
<1> DEFINE k == IF q.reader_closed THEN 0 ELSE P!Min({n, q.count})
           r == P!pipe_read(q, n)
           p == [q EXCEPT !.read_pos = P!At(@, k), !.count = @ - k]
<1>1. k \in 0 .. q.count
  <2>1. n \in Int /\ q.count \in Int
    BY <1>a
  <2>2. P!Min({n, q.count}) = IF n <= q.count THEN n ELSE q.count
    BY <2>1, PipeMin
  <2>3. P!Min({n, q.count}) \in 0 .. q.count
    BY <1>a, <2>2
  <2> QED BY <1>a, <2>3
<1>2. r.pipe = p /\ r.bytes = SubSeq(P!Contents(q), 1, k)
  BY Zenon DEF P!pipe_read
<1> HIDE DEF k, r
<1>3. p = [q EXCEPT !.read_pos = P!At(@, k), !.count = @ - k]
  OBVIOUS
<1> HIDE DEF p
<1>4. k \in 0 .. PipeSize /\ q.count - k \in 0 .. PipeSize /\ k \in Nat
  BY <1>a, <1>1
<1>5. P!At(q.read_pos, k) \in 0 .. PipeSize - 1
  BY <1>a, <1>4, AtIs, Zenon
<1>6. /\ p \in P!PipeType /\ p.read_pos = P!At(q.read_pos, k) /\ p.count = q.count - k
      /\ p.buffer = q.buffer /\ p.write_pos = q.write_pos
  BY <1>0, <1>3, <1>4, <1>5, Zenon DEF P!PipeType
<1>7. PipeInv(p)
  <2>1. P!At(P!At(q.read_pos, k), q.count - k) = P!At(q.read_pos, k + (q.count - k))
    BY <1>a, <1>1, <1>4, AtTwice
  <2>2. k + (q.count - k) = q.count
    BY <1>a, <1>1
  <2> QED BY <1>0, <1>6, <2>1, <2>2 DEF PipeInv
<1> DEFINE c == P!Contents(q)
           t == P!Contents(p)
<1>8. /\ c \in Seq(Byte) /\ Len(c) = q.count /\ t \in Seq(Byte) /\ Len(t) = q.count - k
  BY <1>6, <1>7, ContentsType
<1>9. ASSUME NEW i \in 1 .. q.count - k PROVE t[i] = c[k + i]
  <2>1. k + i \in 1 .. q.count /\ i - 1 \in Nat /\ k + (i - 1) <= PipeSize /\ k + i - 1 = k + (i - 1)
    BY <1>a, <1>1
  <2>2. c[k + i] = q.buffer[P!At(q.read_pos, k + (i - 1))]
    <3>1. PICK j : j = k + i
      OBVIOUS
    <3>2. c[j] = q.buffer[P!At(q.read_pos, j - 1)]
      BY <2>1, <3>1 DEF P!Contents
    <3>3. j - 1 = k + (i - 1)
      BY <1>4, <3>1
    <3> QED BY <3>1, <3>2, <3>3
  <2>3. t[i] = q.buffer[P!At(P!At(q.read_pos, k), i - 1)]
    BY <1>6 DEF P!Contents
  <2> HIDE DEF c, t
  <2>4. P!At(P!At(q.read_pos, k), i - 1) = P!At(q.read_pos, k + (i - 1))
    BY <1>a, <1>4, <2>1, AtTwice
  <2> QED BY <2>2, <2>3, <2>4
<1> HIDE DEF c, t
<1>10. c = SubSeq(c, 1, k) \o t
  <2> DEFINE u == SubSeq(c, 1, k)
  <2>1. u \in Seq(Byte) /\ Len(u) = k /\ \A i \in 1 .. k : u[i] = c[i]
    BY <1>1, <1>8, <1>a
  <2> HIDE DEF u
  <2>2. u \o t \in Seq(Byte) /\ Len(u \o t) = q.count
    BY <1>1, <1>8, <1>a, <2>1
  <2>3. ASSUME NEW i \in 1 .. q.count PROVE (u \o t)[i] = c[i]
    <3>1. CASE i <= k
      BY <1>1, <1>8, <1>a, <2>1, <3>1
    <3>2. CASE ~ (i <= k)
      <4>1. i - k \in 1 .. q.count - k /\ k + (i - k) = i
        BY <1>1, <1>a, <3>2
      <4>2. (u \o t)[i] = t[i - k]
        <5>1. i \in Len(u) + 1 .. Len(u) + Len(t)
          BY <1>8, <1>1, <1>a, <2>1, <3>2
        <5> QED BY <1>8, <2>1, <5>1, ConcatSecond
      <4> QED BY <1>9, <4>1, <4>2
    <3> QED BY <3>1, <3>2, Zenon
  <2>4. u \o t = c
    <3> DEFINE v == u \o t
    <3>1. v \in Seq(Byte) /\ Len(v) = Len(c) /\ \A i \in 1 .. Len(c) : v[i] = c[i]
      BY <1>8, <2>2, <2>3
    <3> HIDE DEF v
    <3>2. v = c
      BY <1>8, <3>1
    <3> QED BY <3>2 DEF v
  <2> QED BY <2>4, Zenon DEF u
<1> QED BY <1>2, <1>7, <1>10, Zenon DEF c, t, r

(* pipe_write puts its bytes behind those in the pipe, as many as fit. *)
LEMMA PipeWriteFacts ==
  ASSUME NEW q, PipeInv(q), NEW s \in Seq(Byte)
  PROVE  LET r == P!pipe_write(q, s)
         IN  /\ PipeInv(r.pipe)
             /\ P!Contents(r.pipe) = P!Contents(q) \o SubSeq(s, 1, r.pipe.count - q.count)
<1>0. q \in P!PipeType /\ q.write_pos = P!At(q.read_pos, q.count)
  BY DEF PipeInv
<1>a. /\ q.buffer \in [0 .. PipeSize - 1 -> Byte] /\ q.read_pos \in 0 .. PipeSize - 1
      /\ q.write_pos \in 0 .. PipeSize - 1
      /\ q.count \in 0 .. PipeSize /\ PipeSize \in Nat \ {0}
  BY <1>0, PipeFields
<1> DEFINE k == IF q.writer_closed \/ q.reader_closed THEN 0
                ELSE P!Min({Len(s), P!Room(q)})
           r == P!pipe_write(q, s)
           b == [j \in DOMAIN q.buffer |->
                   IF \E i \in 1 .. k : P!At(q.write_pos, i - 1) = j
                   THEN s[CHOOSE i \in 1 .. k : P!At(q.write_pos, i - 1) = j]
                   ELSE q.buffer[j]]
           p == [q EXCEPT !.buffer = b, !.write_pos = P!At(@, k), !.count = @ + k]
<1>1. k \in 0 .. PipeSize - q.count /\ k <= Len(s)
  <2> DEFINE a == Len(s)
             z == P!Room(q)
  <2>1. a \in Nat /\ z \in 0 .. PipeSize /\ z = PipeSize - q.count
    BY <1>a DEF P!Room
  <2> HIDE DEF a, z
  <2>2. a \in Int /\ z \in Int
    BY <2>1
  <2>3. P!Min({a, z}) = IF a <= z THEN a ELSE z
    BY <2>2, PipeMin
  <2>4. P!Min({a, z}) \in 0 .. z /\ P!Min({a, z}) <= a
    BY <2>1, <2>3
  <2>5. CASE q.writer_closed \/ q.reader_closed
    BY <2>1, <2>5 DEF a
  <2>6. CASE ~ (q.writer_closed \/ q.reader_closed)
    BY <2>1, <2>4, <2>6 DEF a, z
  <2> QED BY <2>5, <2>6
<1>2. r.pipe = p
  <2>1. r.pipe = [q EXCEPT !.buffer = [j \in DOMAIN @ |->
                              IF \E i \in 1 .. k : P!At(q.write_pos, i - 1) = j
                              THEN s[CHOOSE i \in 1 .. k : P!At(q.write_pos, i - 1) = j]
                              ELSE @[j]],
                           !.write_pos = P!At(@, k), !.count = @ + k]
    BY DEF P!pipe_write
  <2> HIDE DEF k, r
  <2> QED BY <2>1
<1> HIDE DEF k, r
<1>3. /\ k \in Nat /\ k \in 0 .. PipeSize /\ q.count \in Nat /\ q.count + k \in 0 .. PipeSize
      /\ P!At(q.write_pos, k) \in 0 .. PipeSize - 1
  <2>1. k \in Nat /\ k \in 0 .. PipeSize /\ q.count \in Nat /\ q.count + k \in 0 .. PipeSize
    BY <1>a, <1>1
  <2> QED BY <1>a, <2>1, AtIs, Zenon
<1>4. \A i \in 1 .. k : /\ i - 1 \in 0 .. PipeSize - 1 /\ q.count + (i - 1) \in 0 .. PipeSize - 1
                        /\ P!At(q.write_pos, i - 1) = P!At(q.read_pos, q.count + (i - 1))
                        /\ P!At(q.write_pos, i - 1) \in 0 .. PipeSize - 1
  <2> SUFFICES ASSUME NEW i \in 1 .. k
               PROVE  /\ i - 1 \in 0 .. PipeSize - 1 /\ q.count + (i - 1) \in 0 .. PipeSize - 1
                      /\ P!At(q.write_pos, i - 1) = P!At(q.read_pos, q.count + (i - 1))
                      /\ P!At(q.write_pos, i - 1) \in 0 .. PipeSize - 1
    OBVIOUS
  <2>1. i - 1 \in 0 .. PipeSize - 1 /\ q.count + (i - 1) \in 0 .. PipeSize - 1
        /\ i - 1 \in 0 .. PipeSize /\ i - 1 \in Nat /\ q.count + (i - 1) <= PipeSize
    BY <1>a, <1>1, <1>3, SMTT(20)
  <2>2. P!At(q.write_pos, i - 1) \in 0 .. PipeSize - 1
    BY <1>a, <2>1, AtIs, Zenon
  <2>3. P!At(P!At(q.read_pos, q.count), i - 1) = P!At(q.read_pos, q.count + (i - 1))
    BY <1>a, <1>3, <2>1, AtTwice, SMTT(20)
  <2> QED BY <1>0, <2>1, <2>2, <2>3
<1>5. ASSUME NEW i \in 1 .. k
      PROVE  b[P!At(q.write_pos, i - 1)] = s[i]
  <2>1. PICK j \in 0 .. PipeSize - 1 : j = P!At(q.write_pos, i - 1)
    BY <1>4
  <2>2. \A x \in 1 .. k : P!At(q.write_pos, x - 1) = j => x = i
    <3> SUFFICES ASSUME NEW x \in 1 .. k, P!At(q.write_pos, x - 1) = j PROVE x = i
      OBVIOUS
    <3>1. x - 1 = i - 1
      BY <1>a, <1>4, <2>1, AtInjective
    <3> QED BY <1>3, <3>1
  <2>3. (CHOOSE x \in 1 .. k : P!At(q.write_pos, x - 1) = j) = i
    BY <2>1, <2>2
  <2>4. b[j] = s[CHOOSE x \in 1 .. k : P!At(q.write_pos, x - 1) = j]
    BY <1>a, <2>1
  <2> HIDE DEF b
  <2> QED BY <2>1, <2>3, <2>4, Zenon
<1>6. \A j \in 0 .. PipeSize - 1 : (\A i \in 1 .. k : P!At(q.write_pos, i - 1) # j) => b[j] = q.buffer[j]
  BY <1>a
<1>7. b \in [0 .. PipeSize - 1 -> Byte]
  <2>1. \A j \in 0 .. PipeSize - 1 : b[j] \in Byte
    <3> SUFFICES ASSUME NEW j \in 0 .. PipeSize - 1 PROVE b[j] \in Byte
      BY Zenon
    <3>1. b = [x \in 0 .. PipeSize - 1 |-> b[x]]
      BY <1>a
    <3>2. CASE \E i \in 1 .. k : P!At(q.write_pos, i - 1) = j
      <4>1. PICK i \in 1 .. k : P!At(q.write_pos, i - 1) = j
        BY <3>2
      <4>2. s[i] \in Byte
        BY <1>1, <1>3
      <4> HIDE DEF b
      <4> QED BY <1>5, <4>1, <4>2
    <3>3. CASE ~ \E i \in 1 .. k : P!At(q.write_pos, i - 1) = j
      <4> HIDE DEF b
      <4> QED BY <1>6, <1>a, <3>3
    <3> QED BY <3>2, <3>3
  <2>2. b = [x \in 0 .. PipeSize - 1 |-> b[x]]
    BY <1>a
  <2> HIDE DEF b
  <2> QED BY <2>1, <2>2
<1>b. p = [q EXCEPT !.buffer = b, !.write_pos = P!At(@, k), !.count = @ + k]
  OBVIOUS
<1> HIDE DEF b, p
<1>8. /\ p \in P!PipeType /\ p.buffer = b /\ p.write_pos = P!At(q.write_pos, k)
      /\ p.count = q.count + k /\ p.read_pos = q.read_pos
  BY <1>0, <1>b, <1>3, <1>7, Zenon DEF P!PipeType
<1>9. PipeInv(p)
  <2>1. q.count + k <= PipeSize
    BY <1>3, <1>a
  <2>2. P!At(P!At(q.read_pos, q.count), k) = P!At(q.read_pos, q.count + k)
    BY <1>a, <1>3, <2>1, AtTwice
  <2> QED BY <1>0, <1>8, <2>2 DEF PipeInv
<1> DEFINE c == P!Contents(q)
           t == P!Contents(p)
           u == SubSeq(s, 1, k)
<1>10. /\ c \in Seq(Byte) /\ Len(c) = q.count /\ t \in Seq(Byte) /\ Len(t) = q.count + k
  BY <1>8, <1>9, ContentsType
<1>11. u \in Seq(Byte) /\ Len(u) = k /\ \A i \in 1 .. k : u[i] = s[i]
  BY <1>1, <1>3
<1>12. \A i \in 1 .. q.count : c[i] = q.buffer[P!At(q.read_pos, i - 1)]
  BY DEF P!Contents
<1>13. \A i \in 1 .. q.count + k : t[i] = b[P!At(q.read_pos, i - 1)]
  BY <1>8 DEF P!Contents
<1> HIDE DEF c, t, u
<1>14. ASSUME NEW i \in 1 .. q.count PROVE t[i] = c[i]
  <2>1. i \in 1 .. q.count + k /\ i - 1 \in 0 .. PipeSize - 1 /\ i - 1 \in 0 .. PipeSize
    BY <1>3, <1>a
  <2>2. PICK j : j = P!At(q.read_pos, i - 1)
    OBVIOUS
  <2>3. j \in 0 .. PipeSize - 1
    BY <1>a, <2>1, <2>2, AtIs, Zenon
  <2>4. ASSUME NEW x \in 1 .. k, P!At(q.write_pos, x - 1) = j PROVE FALSE
    <3>1. P!At(q.read_pos, q.count + (x - 1)) = P!At(q.read_pos, i - 1)
          /\ q.count + (x - 1) \in 0 .. PipeSize - 1
      BY <1>4, <2>2, <2>4
    <3>2. q.count + (x - 1) = i - 1
      BY <1>a, <2>1, <3>1, AtInjective
    <3> QED BY <1>3, <3>2
  <2>5. b[j] = q.buffer[j]
    BY <1>6, <2>3, <2>4
  <2> QED BY <1>12, <1>13, <2>1, <2>2, <2>5
<1>15. ASSUME NEW i \in q.count + 1 .. q.count + k PROVE t[i] = u[i - q.count]
  <2>1. PICK x : x = i - q.count
    OBVIOUS
  <2>2. x \in 1 .. k /\ q.count + (x - 1) = i - 1 /\ i \in 1 .. q.count + k
    BY <1>3, <2>1, SMTT(20)
  <2>3. b[P!At(q.read_pos, i - 1)] = s[x]
    BY <1>4, <1>5, <2>2
  <2> QED BY <1>11, <1>13, <2>1, <2>2, <2>3
<1>16. t = c \o u
  <2> DEFINE v == c \o u
  <2>1. v \in Seq(Byte) /\ Len(v) = q.count + k
    <3>1. c \in Seq(Byte) /\ u \in Seq(Byte)
      BY <1>10, <1>11
    <3>2. v \in Seq(Byte) /\ Len(v) = Len(c) + Len(u)
      BY <3>1
    <3> QED BY <1>10, <1>11, <3>2
  <2>2. ASSUME NEW i \in 1 .. q.count + k PROVE v[i] = t[i]
    <3>1. CASE i <= q.count
      <4>1. i \in 1 .. q.count
        BY <1>3, <3>1
      <4>2. v[i] = c[i]
        BY <1>10, <1>11, <4>1
      <4> QED BY <1>14, <4>1, <4>2
    <3>2. CASE ~ (i <= q.count)
      <4>1. i \in q.count + 1 .. q.count + k
        BY <1>3, <3>2
      <4>2. v[i] = u[i - q.count]
        <5>1. i \in Len(c) + 1 .. Len(c) + Len(u)
          BY <1>10, <1>11, <4>1
        <5> QED BY <1>10, <1>11, <5>1, ConcatSecond
      <4> QED BY <1>15, <4>1, <4>2
    <3> QED BY <3>1, <3>2, Zenon
  <2> HIDE DEF v
  <2>3. v = t
    BY <1>10, <2>1, <2>2, SMTT(20)
  <2> QED BY <2>3 DEF v
<1>17. r.pipe.count - q.count = k
  BY <1>2, <1>3, <1>8
<1> QED BY <1>2, <1>9, <1>16, <1>17, Zenon DEF c, t, u, r

-----------------------------------------------------------------------------
(* The whole: file system, pipes and descriptor tables. *)

(* A descriptor on a file is on an inode in use, and not behind its end;   *)
(* one on a directory, which can be opened but not read, is at the start.  *)
OpenSound(e, f) ==
  e.node # NoNode =>
    /\ f.node[e.node].inode # 0
    /\ e.offset <= f.node[e.node].size
    /\ f.node[e.node].type = "DIR" => e.offset = 0

(* The entry is sound for the file system f and k pipes. *)
EntrySound(e, f, k) ==
  /\ e \in FdEntry
  /\ OpenSound(e, f)
  /\ e.pipe <= k
  /\ e.is_pipe <=> e.pipe # NoPipe
  /\ e.is_pipe => e.node = NoNode /\ e.offset = 0
  /\ IsFree(e) => e = Closed

TablesSound(t, f, k) ==
  /\ DOMAIN t \subseteq Procs
  /\ \A p \in DOMAIN t : /\ t[p] \in [Fds -> FdEntry]
                          /\ \A fd \in Fds : EntrySound(t[p][fd], f, k)

(* The inductive invariant. *)
FilesInv ==
  /\ FsInv(fs)
  /\ pipe \in Seq(P!PipeType) /\ Len(pipe) <= MaxPipes
  /\ \A i \in 1 .. Len(pipe) : PipeInv(pipe[i])
  /\ TablesSound(fds, fs, Len(pipe))
  /\ stuck \in Pipes \cup {NoPipe}

LEMMA EntryFields ==
  ASSUME NEW e \in FdEntry
  PROVE  /\ e.node \in Nodes \cup {NoNode} /\ e.pipe \in Pipes \cup {NoPipe} /\ e.pipe \in Nat
         /\ e.offset \in Nat /\ e.flags \in {0, 1} /\ e.is_pipe \in BOOLEAN
<1>1. e.pipe \in Pipes \cup {NoPipe} => e.pipe \in Nat
  BY FilesAssumption DEF Pipes, NoPipe
<1> QED BY <1>1 DEF FdEntry

LEMMA ClosedSound ==
  ASSUME NEW f, NEW k \in Nat
  PROVE  EntrySound(Closed, f, k)
BY DEF EntrySound, Closed, FdEntry, OpenSound, NoNode, NoPipe

(* Entries stay sound when the file system grows and pipes are added. *)
LEMMA EntryKept ==
  ASSUME NEW e, NEW f, NEW g, NEW k \in Nat, NEW l \in Nat, FsInv(f), FsInv(g),
         EntrySound(e, f, k), Grows(f, g), k <= l
  PROVE  EntrySound(e, g, l)
<1>1. e \in FdEntry
  BY DEF EntrySound
<1>2. e.node \in Nodes \cup {NoNode} /\ e.pipe \in Nat /\ e.offset \in Nat
  BY <1>1, EntryFields
<1>3. OpenSound(e, g)
  <2> SUFFICES ASSUME e.node # NoNode
               PROVE  /\ g.node[e.node].inode # 0
                      /\ e.offset <= g.node[e.node].size
                      /\ g.node[e.node].type = "DIR" => e.offset = 0
    BY DEF OpenSound
  <2>1. e.node \in Nodes
    BY <1>2
  <2>2. /\ f.node[e.node].inode # 0 /\ e.offset <= f.node[e.node].size
        /\ f.node[e.node].type = "DIR" => e.offset = 0
    BY DEF EntrySound, OpenSound
  <2>3. /\ g.node[e.node].inode # 0 /\ g.node[e.node].type = f.node[e.node].type
        /\ f.node[e.node].size <= g.node[e.node].size
    BY <2>1, <2>2 DEF Grows
  <2>4. f.node[e.node].size \in Nat /\ g.node[e.node].size \in Nat
    BY <2>1, FsFields, NodeFields DEF FsInv
  <2> QED BY <1>2, <2>2, <2>3, <2>4
<1>4. e.pipe <= l
  BY <1>2 DEF EntrySound
<1> QED BY <1>3, <1>4 DEF EntrySound

LEMMA TablesKept ==
  ASSUME NEW t, NEW f, NEW g, NEW k \in Nat, NEW l \in Nat, FsInv(f), FsInv(g),
         TablesSound(t, f, k), Grows(f, g), k <= l
  PROVE  TablesSound(t, g, l)
<1>1. \A p \in DOMAIN t, fd \in Fds : EntrySound(t[p][fd], g, l)
  BY EntryKept DEF TablesSound
<1> QED BY <1>1 DEF TablesSound

LEMMA OneEntryChanges ==
  ASSUME NEW t, NEW f, NEW k, TablesSound(t, f, k), NEW p \in DOMAIN t, NEW fd \in Fds,
         NEW e, EntrySound(e, f, k), NEW u, u = [t EXCEPT ![p][fd] = e]
  PROVE  TablesSound(u, f, k) /\ DOMAIN u = DOMAIN t
<1>1. t[p] \in [Fds -> FdEntry] /\ e \in FdEntry
  BY DEF TablesSound, EntrySound
<1>2. DOMAIN u = DOMAIN t /\ u[p] = [t[p] EXCEPT ![fd] = e] /\ \A q \in DOMAIN t \ {p} : u[q] = t[q]
  OBVIOUS
<1>3. u[p] \in [Fds -> FdEntry] /\ \A x \in Fds : EntrySound(u[p][x], f, k)
  <2>1. u[p] \in [Fds -> FdEntry] /\ \A x \in Fds : u[p][x] = IF x = fd THEN e ELSE t[p][x]
    BY <1>1, <1>2
  <2> QED BY <2>1 DEF TablesSound
<1>4. \A q \in DOMAIN u : /\ u[q] \in [Fds -> FdEntry]
                          /\ \A x \in Fds : EntrySound(u[q][x], f, k)
  BY <1>2, <1>3 DEF TablesSound
<1> QED BY <1>2, <1>4 DEF TablesSound

LEMMA FreeFdFacts ==
  ASSUME NEW t, NEW S, S \subseteq FreeFds(t), S # {}
  PROVE  Min(S) \in S /\ Min(S) \in Fds /\ IsFree(t[Min(S)])
<1>1. S \in SUBSET Nat
  BY FilesAssumption DEF FreeFds
<1>2. Min(S) \in S
  BY <1>1, MinFacts
<1>3. Min(S) \in FreeFds(t)
  BY <1>2
<1> HIDE DEF Min
<1>4. Min(S) \in 3 .. MaxFds - 1 /\ IsFree(t[Min(S)])
  BY <1>3 DEF FreeFds
<1> QED BY <1>2, <1>4, FilesAssumption DEF Fds

LEMMA InitFiles == Init => FilesInv
<1> SUFFICES ASSUME Init PROVE FilesInv
  OBVIOUS
<1>1. FsInv(fs)
  BY FsInitInv DEF Init
<1>2. pipe = <<>> /\ Len(pipe) = 0 /\ stuck = NoPipe
  BY DEF Init
<1>3. TablesSound(fds, fs, 0)
  <2>1. DOMAIN fds = {First} /\ fds[First] = FreshTable
    BY DEF Init
  <2>2. \A fd \in Fds : FreshTable[fd] = Closed
    BY DEF FreshTable
  <2>3. EntrySound(Closed, fs, 0) /\ Closed \in FdEntry
    BY ClosedSound DEF EntrySound
  <2>4. FreshTable \in [Fds -> FdEntry]
    BY <2>3 DEF FreshTable
  <2> QED BY <2>1, <2>2, <2>3, <2>4, FilesAssumption DEF TablesSound
<1>4. pipe \in Seq(P!PipeType) /\ Len(pipe) <= MaxPipes /\ \A i \in 1 .. Len(pipe) : PipeInv(pipe[i])
  BY <1>2, FilesAssumption
<1> QED BY <1>1, <1>2, <1>3, <1>4 DEF FilesInv

-----------------------------------------------------------------------------
(* The steps: each keeps the invariant, and is a step of FileSpec or       *)
(* changes nothing FileSpec sees.                                          *)
Texts == [n \in Nodes |-> ramfs_read(fs, n, 0, fs.node[n].size)]
Queues == [i \in Pipes |-> IF i <= Len(pipe) THEN P!Contents(pipe[i]) ELSE <<>>]
seen == <<Texts, Queues, io>>

LEMMA TextsAre ==
  /\ Texts = [n \in Nodes |-> Text(fs, n)]
  /\ Texts' = [n \in Nodes |-> Text(fs', n)]
  /\ SameTexts(fs, fs') => Texts' = Texts
<1>1. Texts = [n \in Nodes |-> Text(fs, n)] /\ Texts' = [n \in Nodes |-> Text(fs', n)]
  BY DEF Texts, Text
<1>2. SameTexts(fs, fs') => Texts' = Texts
  BY <1>1 DEF SameTexts
<1> QED BY <1>1, <1>2

LEMMA QueuesKept ==
  ASSUME UNCHANGED pipe
  PROVE  Queues' = Queues
BY DEF Queues

(* What sys_open and sys_pipe make of a free entry. *)
LEMMA ReusedForFile ==
  ASSUME NEW n \in Nodes, NEW e,
         e = [Closed EXCEPT !.node = n, !.offset = 0, !.flags = 0, !.is_pipe = FALSE]
  PROVE  /\ e \in FdEntry
         /\ e.node = n /\ e.pipe = NoPipe /\ e.offset = 0 /\ e.is_pipe = FALSE
<1>1. Closed \in FdEntry /\ Closed.pipe = NoPipe
  BY DEF Closed, FdEntry
<1>2. e.node = n /\ e.pipe = NoPipe /\ e.offset = 0 /\ e.is_pipe = FALSE
  BY <1>1 DEF FdEntry
<1>3. e \in FdEntry
  BY <1>1, Zenon DEF FdEntry
<1> QED BY <1>2, <1>3

LEMMA ReusedForPipe ==
  ASSUME NEW id \in Pipes, NEW f \in {0, 1}, NEW e,
         e = [Closed EXCEPT !.pipe = id, !.is_pipe = TRUE, !.flags = f]
  PROVE  /\ e \in FdEntry
         /\ e.node = NoNode /\ e.pipe = id /\ e.offset = 0 /\ e.is_pipe = TRUE
<1>1. Closed \in FdEntry /\ Closed.node = NoNode /\ Closed.offset = 0
  BY DEF Closed, FdEntry
<1>2. e.node = NoNode /\ e.pipe = id /\ e.offset = 0 /\ e.is_pipe = TRUE
  BY <1>1 DEF FdEntry
<1>3. e \in FdEntry
  BY <1>1, Zenon DEF FdEntry
<1> QED BY <1>2, <1>3

LEMMA OpenStep ==
  ASSUME FilesInv, NEW p, NEW name \in Names, sys_open(p, name)
  PROVE  FilesInv' /\ UNCHANGED seen
<1> DEFINE free  == FreeFds(fds[p])
           found == ramfs_finddir(fs, name)
           made  == ramfs_create_file(fs, name)
           node  == IF found # NoNode THEN found ELSE made.node
           fd    == Min(free)
           e     == [fds[p][fd] EXCEPT !.node = node, !.offset = 0, !.flags = 0,
                                       !.is_pipe = FALSE]
<1>0. /\ FsInv(fs) /\ TablesSound(fds, fs, Len(pipe)) /\ Len(pipe) \in Nat
  BY DEF FilesInv
<1>1. p \in DOMAIN fds /\ free # {} /\ node # NoNode
      /\ fs' = (IF found # NoNode THEN fs ELSE made.fs)
      /\ UNCHANGED <<pipe, io, stuck>>
  BY DEF sys_open, Runs
<1>2. fds' = [fds EXCEPT ![p][fd] = e]
  BY DEF sys_open
<1>3. fd \in Fds /\ IsFree(fds[p][fd])
  <2>1. free \subseteq FreeFds(fds[p])
    OBVIOUS
  <2> HIDE DEF free
  <2> QED BY <1>1, <2>1, FreeFdFacts
<1>4. /\ FsInv(fs') /\ Grows(fs, fs') /\ SameTexts(fs, fs')
      /\ node \in Nodes /\ fs'.node[node].inode # 0
  <2>1. CASE found # NoNode
    <3>1. fs' = fs /\ node = found
      BY <1>1, <2>1
    <3>2. found \in Nodes /\ fs.node[found].inode # 0
      BY <2>1, FindFacts
    <3> HIDE DEF found, node
    <3> QED BY <1>0, <3>1, <3>2, SameFsGrows
  <2>2. CASE found = NoNode
    <3>1. fs' = made.fs /\ node = made.node
      BY <1>1, <2>2
    <3>2. name \in FileNames
      BY Zenon DEF FileNames
    <3>3. /\ FsInv(made.fs) /\ Grows(fs, made.fs) /\ SameTexts(fs, made.fs)
          /\ made.node = FreeNode(fs)
          /\ made.node # NoNode => made.node \in Nodes /\ made.fs.node[made.node].inode # 0
      BY <1>0, <3>2, CreateFileFacts
    <3> HIDE DEF made, node, found
    <3> QED BY <1>1, <3>1, <3>3
  <2> QED BY <2>1, <2>2
<1> HIDE DEF free, found, made, node, fd
<1>5. EntrySound(e, fs', Len(pipe))
  <2>1. fds[p][fd] = Closed
    BY <1>0, <1>1, <1>3 DEF TablesSound, EntrySound
  <2>2. e = [Closed EXCEPT !.node = node, !.offset = 0, !.flags = 0, !.is_pipe = FALSE]
    BY <2>1
  <2>3. fs'.node[node].size \in Nat
    BY <1>4, FsFields, NodeFields DEF FsInv
  <2>4. node # NoNode
    BY <1>1, SMTT(20)
  <2> HIDE DEF e
  <2>5. e \in FdEntry /\ e.node = node /\ e.pipe = NoPipe /\ e.offset = 0 /\ e.is_pipe = FALSE
    BY <1>4, <2>2, ReusedForFile, Zenon
  <2>6. OpenSound(e, fs')
    BY <1>4, <2>3, <2>5 DEF OpenSound
  <2>7. ~ IsFree(e)
    BY <2>4, <2>5 DEF IsFree
  <2> QED BY <1>0, <2>5, <2>6, <2>7 DEF EntrySound, NoPipe
<1>6. TablesSound(fds, fs', Len(pipe))
  <2>1. Len(pipe) <= Len(pipe)
    BY <1>0
  <2> QED BY <1>0, <1>4, <2>1, TablesKept
<1> HIDE DEF e
<1>7. TablesSound(fds', fs', Len(pipe))
  BY <1>1, <1>2, <1>3, <1>5, <1>6, OneEntryChanges, Zenon
<1>8. FilesInv'
  BY <1>1, <1>4, <1>7 DEF FilesInv
<1>9. UNCHANGED seen
  BY <1>1, <1>4, TextsAre, QueuesKept DEF seen
<1> QED BY <1>8, <1>9

LEMMA CloseStep ==
  ASSUME FilesInv, NEW p, NEW fd \in Fds, sys_close(p, fd)
  PROVE  FilesInv' /\ UNCHANGED seen
<1>0. /\ FsInv(fs) /\ TablesSound(fds, fs, Len(pipe)) /\ Len(pipe) \in Nat
  BY DEF FilesInv
<1>1. p \in DOMAIN fds /\ fds' = [fds EXCEPT ![p][fd] = Closed] /\ UNCHANGED <<fs, pipe, io, stuck>>
  BY DEF sys_close, Runs, ClosedEntry
<1>2. EntrySound(Closed, fs, Len(pipe))
  BY <1>0, ClosedSound
<1>3. TablesSound(fds', fs, Len(pipe))
  BY <1>0, <1>1, <1>2, OneEntryChanges, Zenon
<1>4. FilesInv'
  BY <1>1, <1>3 DEF FilesInv
<1>5. UNCHANGED seen
  BY <1>1 DEF seen, Texts, Queues
<1> QED BY <1>4, <1>5

LEMMA MkdirStep ==
  ASSUME FilesInv, NEW p, NEW name \in Names, sys_mkdir(p, name)
  PROVE  FilesInv' /\ UNCHANGED seen
<1>0. /\ FsInv(fs) /\ TablesSound(fds, fs, Len(pipe)) /\ Len(pipe) \in Nat
  BY DEF FilesInv
<1>1. fs' = ramfs_create_dir(fs, name) /\ UNCHANGED <<pipe, fds, io, stuck>>
  BY DEF sys_mkdir
<1>2. FsInv(fs') /\ Grows(fs, fs') /\ SameTexts(fs, fs')
  <2>1. name \in FileNames
    BY Zenon DEF FileNames
  <2> QED BY <1>0, <1>1, <2>1, CreateDirFacts
<1>3. TablesSound(fds, fs', Len(pipe))
  <2>1. Len(pipe) <= Len(pipe)
    BY <1>0
  <2> QED BY <1>0, <1>2, <2>1, TablesKept
<1>4. FilesInv'
  BY <1>1, <1>2, <1>3 DEF FilesInv
<1>5. UNCHANGED seen
  BY <1>1, <1>2, TextsAre, QueuesKept DEF seen
<1> QED BY <1>4, <1>5

LEMMA DupStep ==
  ASSUME FilesInv, NEW p, NEW old \in Fds, NEW new \in DupTo, sys_dup2(p, old, new)
  PROVE  FilesInv' /\ UNCHANGED seen
<1>0. /\ FsInv(fs) /\ TablesSound(fds, fs, Len(pipe)) /\ Len(pipe) \in Nat
  BY DEF FilesInv
<1>1. p \in DOMAIN fds /\ fds' = [fds EXCEPT ![p][new] = fds[p][old]]
      /\ UNCHANGED <<fs, pipe, io, stuck>>
  BY DEF sys_dup2, Runs
<1>2. new \in Fds
  BY FilesAssumption DEF Fds
<1>3. EntrySound(fds[p][old], fs, Len(pipe))
  BY <1>0, <1>1 DEF TablesSound
<1>4. TablesSound(fds', fs, Len(pipe))
  BY <1>0, <1>1, <1>2, <1>3, OneEntryChanges, Zenon
<1>5. FilesInv'
  BY <1>1, <1>4 DEF FilesInv
<1>6. UNCHANGED seen
  BY <1>1 DEF seen, Texts, Queues
<1> QED BY <1>5, <1>6

LEMMA ForkStep ==
  ASSUME FilesInv, NEW p, NEW child \in Procs, sys_fork(p, child)
  PROVE  FilesInv' /\ UNCHANGED seen
<1>0. /\ FsInv(fs) /\ TablesSound(fds, fs, Len(pipe)) /\ Len(pipe) \in Nat
  BY DEF FilesInv
<1>1. p \in DOMAIN fds /\ fds' = [q \in DOMAIN fds \cup {child} |->
                                    IF q = child THEN fds[p] ELSE fds[q]]
      /\ UNCHANGED <<fs, pipe, io, stuck>>
  BY DEF sys_fork, Runs
<1>2. TablesSound(fds', fs, Len(pipe))
  <2>1. DOMAIN fds' \subseteq Procs
    BY <1>0, <1>1 DEF TablesSound
  <2>2. \A q \in DOMAIN fds' : \E x \in DOMAIN fds : fds'[q] = fds[x]
    BY <1>1
  <2> QED BY <1>0, <2>1, <2>2 DEF TablesSound
<1>3. FilesInv'
  BY <1>1, <1>2 DEF FilesInv
<1>4. UNCHANGED seen
  BY <1>1 DEF seen, Texts, Queues
<1> QED BY <1>3, <1>4

(* The entry of an open file after its offset moved. *)
LEMMA OffsetMoves ==
  ASSUME NEW c, NEW f, NEW k, EntrySound(c, f, k), OpenNode(c), NEW m \in Nat,
         c.offset + m <= f.node[c.node].size,
         f.node[c.node].type = "DIR" => m = 0,
         NEW e, e = [c EXCEPT !.offset = @ + m]
  PROVE  EntrySound(e, f, k)
<1>1. c \in FdEntry /\ c.offset \in Nat /\ c.is_pipe \in BOOLEAN
  BY EntryFields DEF EntrySound
<1>2. /\ e \in FdEntry /\ e.offset = c.offset + m
      /\ e.node = c.node /\ e.pipe = c.pipe /\ e.is_pipe = c.is_pipe
  BY <1>1 DEF FdEntry
<1>3. c.node # NoNode /\ ~ c.is_pipe
  BY <1>1 DEF OpenNode, OpenPipe, EntrySound
<1>4. OpenSound(e, f)
  BY <1>1, <1>2, <1>3 DEF OpenSound, EntrySound
<1>5. ~ IsFree(e)
  BY <1>2, <1>3 DEF IsFree
<1> QED BY <1>2, <1>3, <1>4, <1>5 DEF EntrySound

LEMMA ReadFileStep ==
  ASSUME FilesInv, NEW p, NEW fd \in Fds, NEW k \in Counts, sys_read_file(p, fd, k)
  PROVE  FilesInv' /\ Abstract!Next
<1>0. /\ FsInv(fs) /\ TablesSound(fds, fs, Len(pipe)) /\ Len(pipe) \in Nat
  BY DEF FilesInv
<1>1. PICK c, n, off, s : /\ c = fds[p][fd] /\ n = c.node /\ off = c.offset
                          /\ s = ramfs_read(fs, n, off, k)
  OBVIOUS
<1>2. /\ p \in DOMAIN fds /\ OpenNode(c) /\ fds' = [fds EXCEPT ![p][fd].offset = @ + Len(s)]
      /\ io' = Io("read", n, off, s) /\ UNCHANGED <<fs, pipe, stuck>>
  BY <1>1 DEF sys_read_file, Runs
<1>3. PICK e : e = [c EXCEPT !.offset = @ + Len(s)]
  BY Zenon
<1>4. fds' = [fds EXCEPT ![p][fd] = e]
  BY <1>1, <1>2, <1>3
<1>5. EntrySound(c, fs, Len(pipe)) /\ c \in FdEntry
  BY <1>0, <1>1, <1>2 DEF TablesSound, EntrySound
<1>6. n \in Nodes /\ n # NoNode /\ off \in Nat /\ k \in Nat
  <2>1. n \in Nodes \cup {NoNode} /\ off \in Nat
    BY <1>1, <1>5, EntryFields, SMTT(20)
  <2> QED BY <1>1, <1>2, <2>1, FilesAssumption DEF OpenNode
<1>7. off <= fs.node[n].size /\ (fs.node[n].type = "DIR" => off = 0)
  BY <1>1, <1>5, <1>6 DEF EntrySound, OpenSound
<1>8. /\ Len(s) \in Nat /\ off + Len(s) <= fs.node[n].size
      /\ fs.node[n].type = "DIR" => Len(s) = 0
      /\ off + Len(s) <= Len(Text(fs, n))
      /\ \A i \in DOMAIN s : s[i] = Text(fs, n)[off + i]
  <2>1. ReadAt(fs, n, off, k)
    BY <1>0, <1>6, <1>7 DEF ReadAt
  <2>2. ReadDone(fs, n, off, s)
    BY <1>1, <2>1, ReadFacts
  <2> QED BY <2>2 DEF ReadDone
<1>9. EntrySound(e, fs, Len(pipe))
  BY <1>1, <1>2, <1>3, <1>5, <1>8, OffsetMoves, SMTT(20)
<1>10. TablesSound(fds', fs, Len(pipe))
  <2>1. p \in DOMAIN fds
    BY <1>2
  <2> QED BY <1>0, <1>4, <1>9, <2>1, OneEntryChanges, ZenonT(30)
<1>11. FilesInv'
  BY <1>2, <1>10 DEF FilesInv
<1>12. io'.op = "read" /\ io'.on = n /\ io'.at = off /\ io'.bytes = s
  BY <1>2 DEF Io
<1>13. Texts[n] = Text(fs, n)
  BY <1>6, TextsAre
<1>14. /\ io'.at + Len(io'.bytes) <= Len(Texts[n])
       /\ \A i \in DOMAIN io'.bytes : io'.bytes[i] = Texts[n][io'.at + i]
  BY <1>8, <1>12, <1>13
<1>15. UNCHANGED <<Texts, Queues>>
  BY <1>2 DEF Texts, Queues
<1>16. Abstract!Read(n)
  BY <1>12, <1>14, <1>15 DEF Abstract!Read, Texts, Queues
<1>17. Abstract!Next
  BY <1>6, <1>16 DEF Abstract!Next
<1> QED BY <1>11, <1>17

LEMMA SpecWrites ==
  ASSUME NEW t, NEW off, NEW s
  PROVE  Abstract!Written(t, off, s) = Overwritten(t, off, s)
BY DEF Abstract!Written, Overwritten, Abstract!Max, Max

LEMMA WriteFileStep ==
  ASSUME FilesInv, NEW p, NEW fd \in Fds, NEW s \in Writes, sys_write_file(p, fd, s)
  PROVE  FilesInv' /\ Abstract!Next
<1>0. /\ FsInv(fs) /\ TablesSound(fds, fs, Len(pipe)) /\ Len(pipe) \in Nat
  BY DEF FilesInv
<1>1. PICK c, n, off, r, w : /\ c = fds[p][fd] /\ n = c.node /\ off = c.offset
                             /\ r = ramfs_write(fs, n, off, s) /\ w = Max({0, r.written})
  BY Zenon
<1>2. /\ p \in DOMAIN fds /\ OpenNode(c) /\ fs' = r.fs
      /\ fds' = [fds EXCEPT ![p][fd].offset = @ + w]
      /\ io' = Io("write", n, off, SubSeq(s, 1, w)) /\ UNCHANGED <<pipe, stuck>>
  BY <1>1 DEF sys_write_file, Runs
<1>3. PICK e : e = [c EXCEPT !.offset = @ + w]
  BY Zenon
<1>4. fds' = [fds EXCEPT ![p][fd] = e]
  BY <1>1, <1>2, <1>3
<1>5. EntrySound(c, fs, Len(pipe)) /\ c \in FdEntry
  BY <1>0, <1>1, <1>2, SMTT(20) DEF TablesSound, EntrySound
<1>6. n \in Nodes /\ n # NoNode /\ off \in Nat /\ s \in Seq(Byte) /\ s # <<>>
  <2>1. n \in Nodes \cup {NoNode} /\ off \in Nat
    BY <1>1, <1>5, EntryFields, SMTT(20)
  <2> QED BY <1>1, <1>2, <2>1, FilesAssumption, SMTT(20) DEF OpenNode
<1>7. WriteAt(fs, n, off, s)
  BY <1>0, <1>1, <1>5, <1>6 DEF WriteAt, EntrySound, OpenSound
<1>8. WriteDone(fs, n, off, s, fs', w)
  BY <1>1, <1>2, <1>7, WriteFacts
<1>9. /\ FsInv(fs') /\ Grows(fs, fs') /\ w \in Nat
      /\ off + w <= fs'.node[n].size
      /\ fs.node[n].type = "DIR" => w = 0
  BY <1>8 DEF WriteDone
<1>10. fs'.node[n].type = "DIR" => w = 0
  <2>1. fs'.node[n].type = fs.node[n].type
    BY <1>6, <1>7, <1>9 DEF Grows, WriteAt
  <2> QED BY <1>9, <2>1
<1>11. TablesSound(fds, fs', Len(pipe))
  <2>1. Len(pipe) <= Len(pipe)
    BY <1>0, SMTT(20)
  <2> QED BY <1>0, <1>9, <2>1, TablesKept
<1>12. EntrySound(e, fs', Len(pipe))
  <2>1. EntrySound(c, fs', Len(pipe))
    BY <1>1, <1>2, <1>11 DEF TablesSound
  <2> QED BY <1>1, <1>2, <1>3, <1>9, <1>10, <2>1, OffsetMoves, ZenonT(30)
<1>13. TablesSound(fds', fs', Len(pipe))
  <2>1. p \in DOMAIN fds
    BY <1>2
  <2> QED BY <1>4, <1>11, <1>12, <2>1, OneEntryChanges, Zenon
<1>14. FilesInv'
  BY <1>2, <1>9, <1>13 DEF FilesInv
<1>15. io'.op = "write" /\ io'.on = n /\ io'.at = off /\ io'.bytes = SubSeq(s, 1, w)
  BY <1>2, Zenon DEF Io
<1>16. Texts[n] = Text(fs, n)
  BY <1>6, TextsAre
<1>17. io'.at <= Len(Texts[n])
  <2>1. off <= fs.node[n].size /\ (fs.node[n].type = "DIR" => off = 0) /\ 0 \in Nat
    BY <1>7 DEF WriteAt
  <2>2. off + Len(ramfs_read(fs, n, off, 0)) <= Len(Text(fs, n))
        /\ Len(ramfs_read(fs, n, off, 0)) \in Nat
    <3>1. ReadAt(fs, n, off, 0)
      BY <1>0, <1>6, <2>1 DEF ReadAt
    <3>2. ReadDone(fs, n, off, ramfs_read(fs, n, off, 0))
      BY <3>1, ReadFacts
    <3> QED BY <3>2 DEF ReadDone
  <2>3. Len(Text(fs, n)) \in Nat
    BY <1>0, <1>6, TextType
  <2> QED BY <1>6, <1>15, <1>16, <2>2, <2>3
<1>18. Texts' = [Texts EXCEPT ![n] = Abstract!Written(Texts[n], io'.at, io'.bytes)]
  <2>1. PICK t : t = Abstract!Written(Texts[n], io'.at, io'.bytes)
    OBVIOUS
  <2>2. Text(fs', n) = t
    BY <1>8, <1>15, <1>16, <2>1, SpecWrites DEF WriteDone
  <2>3. \A k \in Nodes \ {n} : Text(fs', k) = Text(fs, k)
    BY <1>8 DEF WriteDone
  <2>4. [Texts EXCEPT ![n] = t] = [k \in Nodes |-> IF k = n THEN t ELSE Text(fs, k)]
    BY <1>6, TextsAre
  <2>5. Texts' = [k \in Nodes |-> IF k = n THEN t ELSE Text(fs, k)]
    BY <2>2, <2>3, TextsAre
  <2> QED BY <2>1, <2>4, <2>5
<1>19. UNCHANGED Queues
  BY <1>2, QueuesKept
<1>20. Abstract!Write(n)
  BY <1>15, <1>17, <1>18, <1>19 DEF Abstract!Write, Texts, Queues
<1>21. Abstract!Next
  BY <1>6, <1>20 DEF Abstract!Next
<1> QED BY <1>14, <1>21

(* A call that moves bytes changes one pipe. *)
LEMMA OnePipeChanges ==
  ASSUME FilesInv, NEW i \in 1 .. Len(pipe), NEW q, PipeInv(q),
         pipe' = [pipe EXCEPT ![i] = q]
  PROVE  /\ pipe' \in Seq(P!PipeType) /\ Len(pipe') = Len(pipe)
         /\ \A j \in 1 .. Len(pipe') : PipeInv(pipe'[j])
         /\ Queues[i] = P!Contents(pipe[i]) /\ Queues'[i] = P!Contents(q)
         /\ Queues' = [Queues EXCEPT ![i] = P!Contents(q)]
<1>1. /\ pipe \in Seq(P!PipeType) /\ Len(pipe) \in Nat /\ Len(pipe) <= MaxPipes
      /\ \A j \in 1 .. Len(pipe) : PipeInv(pipe[j])
  BY DEF FilesInv
<1>2. q \in P!PipeType
  BY DEF PipeInv
<1>3. /\ pipe' \in Seq(P!PipeType) /\ Len(pipe') = Len(pipe)
      /\ \A j \in 1 .. Len(pipe) : pipe'[j] = IF j = i THEN q ELSE pipe[j]
  BY <1>1, <1>2
<1>4. \A j \in 1 .. Len(pipe') : PipeInv(pipe'[j])
  BY <1>1, <1>3
<1>5. i \in Pipes /\ i <= Len(pipe) /\ Pipes \subseteq Nat \ {0}
  BY <1>1, FilesAssumption DEF Pipes
<1>6. Queues[i] = P!Contents(pipe[i])
  BY <1>5 DEF Queues
<1>7. Queues' = [j \in Pipes |-> IF j <= Len(pipe) THEN P!Contents(pipe'[j]) ELSE <<>>]
  BY <1>3 DEF Queues
<1>8. \A j \in Pipes : (IF j <= Len(pipe) THEN P!Contents(pipe'[j]) ELSE <<>>)
                      = IF j = i THEN P!Contents(q) ELSE Queues[j]
  <2> SUFFICES ASSUME NEW j \in Pipes
               PROVE  (IF j <= Len(pipe) THEN P!Contents(pipe'[j]) ELSE <<>>)
                        = IF j = i THEN P!Contents(q) ELSE Queues[j]
    OBVIOUS
  <2>1. Queues[j] = IF j <= Len(pipe) THEN P!Contents(pipe[j]) ELSE <<>>
    BY DEF Queues
  <2>2. j <= Len(pipe) => j \in 1 .. Len(pipe)
    BY <1>1, <1>5
  <2> QED BY <1>3, <1>5, <2>1, <2>2
<1>9. Queues' = [j \in Pipes |-> IF j = i THEN P!Contents(q) ELSE Queues[j]]
  BY <1>7, <1>8
<1>10. Queues = [j \in Pipes |-> Queues[j]]
  BY DEF Queues
<1>11. Queues' = [Queues EXCEPT ![i] = P!Contents(q)] /\ Queues'[i] = P!Contents(q)
  BY <1>5, <1>9, <1>10
<1> QED BY <1>3, <1>4, <1>6, <1>11

LEMMA OpenPipeFacts ==
  ASSUME FilesInv, NEW p \in DOMAIN fds, NEW fd \in Fds, OpenPipe(fds[p][fd])
  PROVE  LET i == fds[p][fd].pipe
         IN  i \in 1 .. Len(pipe) /\ i \in Pipes /\ PipeInv(pipe[i])
<1> DEFINE e == fds[p][fd]
<1>1. EntrySound(e, fs, Len(pipe)) /\ Len(pipe) \in Nat
  BY DEF FilesInv, TablesSound
<1>2. e.pipe \in Pipes \cup {NoPipe} /\ e.pipe # NoPipe /\ e.pipe <= Len(pipe)
  BY <1>1, EntryFields DEF EntrySound, OpenPipe
<1>3. e.pipe \in Pipes /\ e.pipe \in 1 .. Len(pipe)
  BY <1>1, <1>2, FilesAssumption DEF Pipes, NoPipe
<1> QED BY <1>3 DEF FilesInv

LEMMA ReadPipeStep ==
  ASSUME FilesInv, NEW p, NEW fd \in Fds, NEW k \in Counts, sys_read_pipe(p, fd, k)
  PROVE  FilesInv' /\ Abstract!Next
<1> DEFINE i == fds[p][fd].pipe
           r == P!pipe_read(pipe[i], k)
<1>1. /\ p \in DOMAIN fds /\ OpenPipe(fds[p][fd])
      /\ pipe' = [pipe EXCEPT ![i] = r.pipe]
      /\ io' = Io("get", i, 0, r.bytes)
      /\ stuck' \in {i, NoPipe} /\ UNCHANGED <<fs, fds>>
  BY DEF sys_read_pipe, Runs
<1>2. i \in 1 .. Len(pipe) /\ i \in Pipes /\ PipeInv(pipe[i])
  BY <1>1, OpenPipeFacts
<1>3. k \in Nat
  BY FilesAssumption, SMTT(20)
<1>4. PipeInv(r.pipe) /\ P!Contents(pipe[i]) = r.bytes \o P!Contents(r.pipe)
  BY <1>2, <1>3, PipeReadFacts, Zenon
<1> HIDE DEF i, r
<1>5. /\ pipe' \in Seq(P!PipeType) /\ Len(pipe') = Len(pipe)
      /\ \A j \in 1 .. Len(pipe') : PipeInv(pipe'[j])
      /\ Queues[i] = P!Contents(pipe[i]) /\ Queues'[i] = P!Contents(r.pipe)
      /\ Queues' = [Queues EXCEPT ![i] = P!Contents(r.pipe)]
  BY <1>1, <1>2, <1>4, OnePipeChanges, Zenon
<1>6. FilesInv'
  BY <1>1, <1>2, <1>5 DEF FilesInv
<1>7. io'.op = "get" /\ io'.on = i /\ io'.bytes = r.bytes
  BY <1>1 DEF Io
<1>8. /\ Queues[i] = io'.bytes \o Queues'[i]
      /\ Queues' = [Queues EXCEPT ![i] = Queues'[i]]
  BY <1>4, <1>5, <1>7
<1>9. UNCHANGED Texts
  BY <1>1 DEF Texts
<1>a. PICK j \in Pipes : j = i
  BY <1>2
<1>10. Abstract!Get(j)
  BY <1>a, <1>7, <1>8, <1>9, Zenon DEF Abstract!Get, Texts, Queues
<1>11. Abstract!Next
  BY <1>10 DEF Abstract!Next
<1> QED BY <1>6, <1>11

LEMMA WritePipeStep ==
  ASSUME FilesInv, NEW p, NEW fd \in Fds, NEW s \in Writes, sys_write_pipe(p, fd, s)
  PROVE  FilesInv' /\ Abstract!Next
<1> DEFINE i == fds[p][fd].pipe
           r == P!pipe_write(pipe[i], s)
           b == SubSeq(s, 1, r.pipe.count - pipe[i].count)
<1>1. /\ p \in DOMAIN fds /\ OpenPipe(fds[p][fd])
      /\ pipe' = [pipe EXCEPT ![i] = r.pipe]
      /\ io' = Io("put", i, 0, b)
      /\ stuck' \in {i, NoPipe} /\ UNCHANGED <<fs, fds>>
  BY DEF sys_write_pipe, Runs
<1>2. i \in 1 .. Len(pipe) /\ i \in Pipes /\ PipeInv(pipe[i])
  BY <1>1, OpenPipeFacts
<1>3. s \in Seq(Byte)
  BY FilesAssumption, SMTT(20)
<1>4. PipeInv(r.pipe) /\ P!Contents(r.pipe) = P!Contents(pipe[i]) \o b
  BY <1>2, <1>3, PipeWriteFacts, Zenon
<1> HIDE DEF i, r, b
<1>5. /\ pipe' \in Seq(P!PipeType) /\ Len(pipe') = Len(pipe)
      /\ \A j \in 1 .. Len(pipe') : PipeInv(pipe'[j])
      /\ Queues[i] = P!Contents(pipe[i])
      /\ Queues' = [Queues EXCEPT ![i] = P!Contents(r.pipe)]
  BY <1>1, <1>2, <1>4, OnePipeChanges, Zenon
<1>6. FilesInv'
  BY <1>1, <1>2, <1>5 DEF FilesInv
<1>7. io'.op = "put" /\ io'.on = i /\ io'.bytes = b
  BY <1>1 DEF Io
<1>8. Queues' = [Queues EXCEPT ![i] = Queues[i] \o io'.bytes]
  BY <1>4, <1>5, <1>7
<1>9. UNCHANGED Texts
  BY <1>1 DEF Texts
<1>a. PICK j \in Pipes : j = i
  BY <1>2
<1>10. Abstract!Put(j)
  BY <1>a, <1>7, <1>8, <1>9 DEF Abstract!Put, Texts, Queues
<1>11. Abstract!Next
  BY <1>10 DEF Abstract!Next
<1> QED BY <1>6, <1>11

(* The pipe sys_pipe adds is empty, also when it is destroyed at once. *)
LEMMA PipeAdded ==
  ASSUME FilesInv, NEW g \in Byte, Len(pipe) + 1 \in Pipes,
         NEW q, q \in {P!pipe_create(g), P!pipe_destroy(P!pipe_create(g))},
         pipe' = Append(pipe, q)
  PROVE  /\ pipe' \in Seq(P!PipeType) /\ Len(pipe') = Len(pipe) + 1 /\ Len(pipe') <= MaxPipes
         /\ \A j \in 1 .. Len(pipe') : PipeInv(pipe'[j])
         /\ Queues' = Queues
<1>0. /\ pipe \in Seq(P!PipeType) /\ Len(pipe) \in Nat
      /\ \A j \in 1 .. Len(pipe) : PipeInv(pipe[j])
      /\ PipeSize \in Nat \ {0} /\ MaxPipes \in Nat
  BY FilesAssumption DEF FilesInv
<1>1. /\ q \in P!PipeType /\ q.read_pos = 0 /\ q.write_pos = 0 /\ q.count = 0
  <2> DEFINE c == P!pipe_create(g)
  <2>1. c \in P!PipeType /\ c.read_pos = 0 /\ c.write_pos = 0 /\ c.count = 0
    BY <1>0 DEF P!PipeType, P!pipe_create
  <2> HIDE DEF c
  <2>2. PICK d : d = P!pipe_destroy(c)
    OBVIOUS
  <2>3. d \in P!PipeType /\ d.read_pos = 0 /\ d.write_pos = 0 /\ d.count = 0
    BY <2>1, <2>2, Zenon DEF P!PipeType, P!pipe_destroy
  <2> QED BY <2>1, <2>2, <2>3 DEF c
<1>2. P!At(0, 0) = 0
  <2>1. 0 \in 0 .. PipeSize - 1 /\ 0 \in 0 .. PipeSize /\ 0 + 0 < PipeSize
    BY <1>0
  <2> QED BY <2>1, AtIs
<1>3. PipeInv(q)
  BY <1>1, <1>2 DEF PipeInv
<1>4. P!Contents(q) = <<>>
  <2>1. P!Contents(q) \in Seq(Byte) /\ Len(P!Contents(q)) = 0
    BY <1>1, <1>3, ContentsType
  <2> QED BY <2>1
<1>5. /\ pipe' \in Seq(P!PipeType) /\ Len(pipe') = Len(pipe) + 1
      /\ pipe'[Len(pipe) + 1] = q /\ \A j \in 1 .. Len(pipe) : pipe'[j] = pipe[j]
  BY <1>0, <1>1
<1>6. Len(pipe') <= MaxPipes
  BY <1>0, <1>5 DEF Pipes
<1>7. \A j \in 1 .. Len(pipe') : PipeInv(pipe'[j])
  BY <1>0, <1>3, <1>5
<1>8. \A j \in Pipes : (IF j <= Len(pipe') THEN P!Contents(pipe'[j]) ELSE <<>>)
                      = IF j <= Len(pipe) THEN P!Contents(pipe[j]) ELSE <<>>
  <2> SUFFICES ASSUME NEW j \in Pipes
               PROVE  (IF j <= Len(pipe') THEN P!Contents(pipe'[j]) ELSE <<>>)
                        = IF j <= Len(pipe) THEN P!Contents(pipe[j]) ELSE <<>>
    BY Zenon
  <2>1. j \in Nat \ {0}
    BY <1>0 DEF Pipes
  <2>2. CASE j \in 1 .. Len(pipe)
    BY <1>0, <1>5, <2>1, <2>2
  <2>3. CASE j = Len(pipe) + 1
    BY <1>0, <1>4, <1>5, <2>3
  <2>4. CASE j > Len(pipe) + 1
    BY <1>0, <1>5, <2>1, <2>4
  <2> QED BY <1>0, <2>1, <2>2, <2>3, <2>4
<1>9. Queues' = Queues
  BY <1>8, Zenon DEF Queues
<1> QED BY <1>5, <1>6, <1>7, <1>9

(* The end of a new pipe in a table. *)
LEMMA PipeEndSound ==
  ASSUME NEW c, c = Closed, NEW f, NEW id \in Pipes, NEW fl \in {0, 1}, NEW e,
         e = [c EXCEPT !.pipe = id, !.is_pipe = TRUE, !.flags = fl]
  PROVE  EntrySound(e, f, id)
<1>1. /\ e \in FdEntry
      /\ e.node = NoNode /\ e.pipe = id /\ e.offset = 0 /\ e.is_pipe = TRUE
  BY ReusedForPipe, ZenonT(30)
<1>2. id \in Nat \ {0} /\ id <= id
  BY FilesAssumption DEF Pipes
<1>3. OpenSound(e, f)
  BY <1>1 DEF OpenSound
<1> QED BY <1>1, <1>2, <1>3 DEF EntrySound, IsFree, NoPipe

LEMMA PipeStep ==
  ASSUME FilesInv, NEW p, sys_pipe(p)
  PROVE  FilesInv' /\ UNCHANGED seen
<1> DEFINE free  == FreeFds(fds[p])
           first == Min(free)
           later == free \ {first}
           id    == Len(pipe) + 1
           end(e, f) == [e EXCEPT !.pipe = id, !.is_pipe = TRUE, !.flags = f]
<1>0. /\ FsInv(fs) /\ TablesSound(fds, fs, Len(pipe)) /\ Len(pipe) \in Nat
  BY DEF FilesInv
<1>1. p \in DOMAIN fds /\ id \in Pipes /\ UNCHANGED <<fs, io, stuck>>
  BY DEF sys_pipe, Runs
<1>2. PICK g \in Byte :
        \/ pipe' = Append(pipe, P!pipe_destroy(P!pipe_create(g))) /\ UNCHANGED fds
        \/ /\ free # {} /\ later # {}
           /\ pipe' = Append(pipe, P!pipe_create(g))
           /\ fds' = [fds EXCEPT ![p][first] = end(@, 0), ![p][Min(later)] = end(@, 1)]
  BY Zenon DEF sys_pipe
<1>3. /\ pipe' \in Seq(P!PipeType) /\ Len(pipe') = id /\ Len(pipe') <= MaxPipes
      /\ \A j \in 1 .. Len(pipe') : PipeInv(pipe'[j])
      /\ Queues' = Queues
  <2>1. PICK q \in {P!pipe_create(g), P!pipe_destroy(P!pipe_create(g))} : pipe' = Append(pipe, q)
    BY <1>2
  <2> QED BY <1>1, <2>1, PipeAdded
<1>4. TablesSound(fds, fs, id)
  <2>1. id \in Nat /\ Len(pipe) <= id /\ Grows(fs, fs)
    BY <1>0, SameFsGrows
  <2> QED BY <1>0, <2>1, TablesKept
<1>5. TablesSound(fds', fs, id)
  <2>1. CASE UNCHANGED fds
    BY <1>4, <2>1
  <2>2. CASE /\ free # {} /\ later # {}
             /\ fds' = [fds EXCEPT ![p][first] = end(@, 0), ![p][Min(later)] = end(@, 1)]
    <3>1. /\ first \in Fds /\ IsFree(fds[p][first])
          /\ Min(later) \in Fds /\ IsFree(fds[p][Min(later)]) /\ Min(later) # first
      <4>1. later \subseteq FreeFds(fds[p]) /\ free \subseteq FreeFds(fds[p])
            /\ free \in SUBSET Nat /\ later \in SUBSET Nat
        BY FilesAssumption DEF FreeFds
      <4>2. Min(later) \in later
        <5> HIDE DEF later
        <5> QED BY <2>2, <4>1, MinFacts
      <4>3. Min(later) # first
        BY <4>2
      <4> HIDE DEF later, free
      <4>4. Min(later) \in Fds /\ IsFree(fds[p][Min(later)])
        BY <2>2, <4>1, FreeFdFacts
      <4>5. first \in Fds /\ IsFree(fds[p][first])
        BY <2>2, <4>1, FreeFdFacts
      <4> QED BY <4>3, <4>4, <4>5
    <3>2. PICK a, b : a = first /\ b = Min(later)
      OBVIOUS
    <3>3. /\ a \in Fds /\ fds[p][a] = Closed /\ b \in Fds /\ fds[p][b] = Closed /\ b # a
      BY <1>0, <1>1, <3>1, <3>2 DEF TablesSound, EntrySound
    <3>4. fds' = [fds EXCEPT ![p][a] = end(@, 0), ![p][b] = end(@, 1)]
      BY <2>2, <3>2
    <3> HIDE DEF free, first, later, id
    <3>5. PICK e0 : e0 = [Closed EXCEPT !.pipe = id, !.is_pipe = TRUE, !.flags = 0]
      OBVIOUS
    <3>6. PICK e1 : e1 = [Closed EXCEPT !.pipe = id, !.is_pipe = TRUE, !.flags = 1]
      BY SMTT(20)
    <3>7. EntrySound(e0, fs, id) /\ EntrySound(e1, fs, id)
      BY <1>1, <3>5, <3>6, PipeEndSound, ZenonT(30)
    <3>8. PICK t : t = [fds EXCEPT ![p][a] = e0]
      BY Zenon
    <3>9. TablesSound(t, fs, id) /\ DOMAIN t = DOMAIN fds
      BY <1>1, <1>4, <3>3, <3>7, <3>8, OneEntryChanges, ZenonT(30)
    <3>10. fds' = [t EXCEPT ![p][b] = e1]
      <4>1. fds[p] \in [Fds -> FdEntry]
        BY <1>1, <1>4 DEF TablesSound
      <4>2. end(fds[p][a], 0) = e0 /\ end(fds[p][b], 1) = e1
        BY <3>3, <3>5, <3>6
      <4>3. t[p][b] = fds[p][b]
        BY <1>1, <3>3, <3>8, <4>1
      <4>4. fds' = [[fds EXCEPT ![p][a] = end(fds[p][a], 0)] EXCEPT ![p][b] = end(@, 1)]
        BY <3>4, Zenon
      <4>5. fds' = [t EXCEPT ![p][b] = end(t[p][b], 1)]
        BY <3>8, <4>2, <4>4, ZenonT(30)
      <4> QED BY <4>2, <4>3, <4>5, ZenonT(30)
    <3> QED BY <1>1, <3>3, <3>7, <3>9, <3>10, OneEntryChanges, ZenonT(30)
  <2> QED BY <1>2, <2>1, <2>2, Zenon
<1> HIDE DEF id
<1>6. FilesInv'
  BY <1>1, <1>3, <1>5 DEF FilesInv
<1>7. UNCHANGED seen
  BY <1>1, <1>3 DEF seen, Texts
<1> QED BY <1>6, <1>7

-----------------------------------------------------------------------------
(* What the invariant says of the properties. *)
LEMMA InvBlocks == FilesInv => BlocksOwned
<1> SUFFICES ASSUME FilesInv PROVE BlocksOwned
  OBVIOUS
<1>0. FsInv(fs) /\ fs \in FsType
  BY DEF FilesInv, FsInv
<1>1. /\ fs.used \subseteq Blocks
      /\ \A n \in Nodes : /\ fs.node[n] \in FsNode /\ NodeSound(fs.node[n])
                          /\ fs.node[n].chain \in Seq(Blocks)
                          /\ Len(fs.node[n].chain) \in Nat /\ fs.node[n].size \in Nat
                          /\ DOMAIN fs.node[n].chain = 1 .. Len(fs.node[n].chain)
  BY <1>0, FsFields, NodeFields, SMTT(20) DEF FsInv
<1>2. ASSUME NEW m \in Nodes, NEW n \in Nodes, m # n
      PROVE  Range(fs.node[m].chain) \cap Range(fs.node[n].chain) = {}
  <2> SUFFICES ASSUME NEW b, b \in Range(fs.node[m].chain), b \in Range(fs.node[n].chain)
               PROVE  FALSE
    OBVIOUS
  <2>1. PICK i \in 1 .. Len(fs.node[m].chain) : fs.node[m].chain[i] = b
    BY <1>1 DEF Range
  <2>2. PICK j \in 1 .. Len(fs.node[n].chain) : fs.node[n].chain[j] = b
    BY <1>1 DEF Range
  <2> QED BY <1>0, <1>2, <2>1, <2>2, SMTT(20) DEF FsInv
<1>3. \A n \in Nodes : IsInjective(fs.node[n].chain)
  BY <1>0 DEF FsInv
<1>4. fs.used = UNION {Range(fs.node[n].chain) : n \in Nodes}
  <2>1. ASSUME NEW b \in fs.used PROVE b \in UNION {Range(fs.node[n].chain) : n \in Nodes}
    <3>1. PICK n \in Nodes : \E i \in 1 .. Len(fs.node[n].chain) : fs.node[n].chain[i] = b
      BY <1>0, <1>1 DEF FsInv
    <3>2. b \in Range(fs.node[n].chain)
      BY <1>1, <3>1 DEF Range
    <3> QED BY <3>2
  <2>2. ASSUME NEW b \in UNION {Range(fs.node[n].chain) : n \in Nodes} PROVE b \in fs.used
    <3>1. PICK n \in Nodes : b \in Range(fs.node[n].chain)
      OBVIOUS
    <3>2. PICK i \in 1 .. Len(fs.node[n].chain) : fs.node[n].chain[i] = b
      BY <1>1, <3>1 DEF Range
    <3>3. b \in Blocks
      BY <1>1, <3>2
    <3> QED BY <1>0, <3>2, <3>3 DEF FsInv
  <2> QED BY <2>1, <2>2
<1>5. ASSUME NEW n \in Nodes, fs.node[n].type = "FILE"
      PROVE  Len(fs.node[n].chain) = (fs.node[n].size + BlockSize - 1) \div BlockSize
  <2>1. PICK q, z : q = Len(fs.node[n].chain) /\ z = fs.node[n].size
    BY Zenon
  <2>2. q \in Nat /\ z \in Nat /\ BlockSize \in Nat \ {0}
    BY <1>1, <2>1, FsConstants
  <2>3. z <= q * BlockSize /\ (q = 0 \/ (q - 1) * BlockSize < z)
    BY <1>1, <1>5, <2>1 DEF NodeSound, Capacity
  <2>4. (z + BlockSize - 1) \div BlockSize = q
    BY <2>2, <2>3, BlocksFor
  <2> QED BY <2>1, <2>4
<1> QED BY <1>2, <1>3, <1>4, <1>5 DEF BlocksOwned

LEMMA InvDescriptors == FilesInv => DescriptorsClean /\ OffsetsInFile
<1> SUFFICES ASSUME FilesInv PROVE DescriptorsClean /\ OffsetsInFile
  OBVIOUS
<1>1. \A p \in DOMAIN fds, fd \in Fds : EntrySound(fds[p][fd], fs, Len(pipe))
  BY DEF FilesInv, TablesSound
<1>2. DescriptorsClean
  BY <1>1 DEF EntrySound, DescriptorsClean
<1>3. OffsetsInFile
  BY <1>1, SMTT(20) DEF EntrySound, OpenSound, OffsetsInFile
<1> QED BY <1>2, <1>3

LEMMA InvTypes == FilesInv => TypeOK
<1> SUFFICES ASSUME FilesInv PROVE TypeOK
  OBVIOUS
<1>1. fs \in FsType
  BY DEF FilesInv, FsInv
<1>2. /\ fs.data \in [Blocks -> [0 .. BlockSize - 1 -> Byte]]
      /\ \A n \in Nodes : /\ fs.node[n].chain \in Seq(Blocks)
                          /\ DOMAIN fs.node[n].chain = 1 .. Len(fs.node[n].chain)
  BY <1>1, FsFields, NodeFields
<1>3. \A n \in Nodes : Range(fs.node[n].chain) \subseteq Blocks
  BY <1>2 DEF Range
<1>4. /\ DOMAIN fds \subseteq Procs
      /\ \A p \in DOMAIN fds : fds[p] \in [Fds -> FdEntry]
  BY DEF FilesInv, TablesSound
<1> QED BY <1>2, <1>3, <1>4, SMTT(20) DEF FilesInv, TypeOK

-----------------------------------------------------------------------------
LEMMA InitImplementsFiles == Init => Abstract!Init
<1> SUFFICES ASSUME Init PROVE Abstract!Init
  OBVIOUS
<1>1. FsInv(fs)
  BY InitFiles DEF FilesInv
<1>2. \A n \in Nodes : ramfs_read(fs, n, 0, fs.node[n].size) \in Seq(Byte)
  BY <1>1, TextType DEF Text
<1>3. [n \in Nodes |-> ramfs_read(fs, n, 0, fs.node[n].size)] \in [Nodes -> Seq(Byte)]
  BY <1>2
<1>4. pipe = <<>> /\ Len(pipe) = 0 /\ io = Io("none", 0, 0, <<>>)
  BY DEF Init
<1>5. [i \in Pipes |-> IF i <= Len(pipe) THEN P!Contents(pipe[i]) ELSE <<>>]
        = [i \in Pipes |-> <<>>]
  <2>1. \A i \in Pipes : ~ (i <= Len(pipe))
    BY <1>4 DEF Pipes
  <2> QED BY <2>1, Zenon
<1> QED BY <1>3, <1>4, <1>5 DEF Abstract!Init, Io

LEMMA StepImplementsFiles ==
  FilesInv /\ [Next]_vars => FilesInv' /\ [Abstract!Next]_seen
<1> SUFFICES ASSUME FilesInv, [Next]_vars PROVE FilesInv' /\ [Abstract!Next]_seen
  OBVIOUS
<1>1. ASSUME NEW p \in Procs, NEW name \in Names, sys_open(p, name)
      PROVE  FilesInv' /\ [Abstract!Next]_seen
  BY <1>1, OpenStep
<1>2. ASSUME NEW p \in Procs, NEW name \in Names, sys_mkdir(p, name)
      PROVE  FilesInv' /\ [Abstract!Next]_seen
  BY <1>2, MkdirStep
<1>3. ASSUME NEW p \in Procs, sys_pipe(p)
      PROVE  FilesInv' /\ [Abstract!Next]_seen
  BY <1>3, PipeStep
<1>4. ASSUME NEW p \in Procs, NEW child \in Procs, sys_fork(p, child)
      PROVE  FilesInv' /\ [Abstract!Next]_seen
  BY <1>4, ForkStep
<1>5. ASSUME NEW p \in Procs, NEW fd \in Fds, sys_close(p, fd)
      PROVE  FilesInv' /\ [Abstract!Next]_seen
  BY <1>5, CloseStep
<1>6. ASSUME NEW p \in Procs, NEW fd \in Fds, NEW new \in DupTo, sys_dup2(p, fd, new)
      PROVE  FilesInv' /\ [Abstract!Next]_seen
  BY <1>6, DupStep
<1>7. ASSUME NEW p \in Procs, NEW fd \in Fds, NEW k \in Counts, sys_read_file(p, fd, k)
      PROVE  FilesInv' /\ [Abstract!Next]_seen
  BY <1>7, ReadFileStep
<1>8. ASSUME NEW p \in Procs, NEW fd \in Fds, NEW k \in Counts, sys_read_pipe(p, fd, k)
      PROVE  FilesInv' /\ [Abstract!Next]_seen
  BY <1>8, ReadPipeStep, SMTT(20)
<1>9. ASSUME NEW p \in Procs, NEW fd \in Fds, NEW s \in Writes, sys_write_file(p, fd, s)
      PROVE  FilesInv' /\ [Abstract!Next]_seen
  BY <1>9, WriteFileStep
<1>10. ASSUME NEW p \in Procs, NEW fd \in Fds, NEW s \in Writes, sys_write_pipe(p, fd, s)
       PROVE  FilesInv' /\ [Abstract!Next]_seen
  BY <1>10, WritePipeStep
<1>11. CASE UNCHANGED vars
  BY <1>11 DEF vars, FilesInv, seen, Texts, Queues
<1> QED
  BY <1>1, <1>2, <1>3, <1>4, <1>5, <1>6, <1>7, <1>8, <1>9, <1>10, <1>11, SMTT(20) DEF Next

(* What holds of the RAM file system, the pipes and the descriptor tables  *)
(* after every system call of syscall.c, for every number of processes,    *)
(* inodes, blocks, descriptors and pipes, and every block and pipe size.   *)
THEOREM FilesInvariant == Spec => []FilesInv
<1>1. Init => FilesInv
  BY InitFiles
<1>2. FilesInv /\ [Next]_vars => FilesInv'
  BY StepImplementsFiles
<1> QED BY <1>1, <1>2, PTL DEF Spec

(* The state of the file system calls keeps its type: chains lead to       *)
(* blocks, descriptors to inodes and pipes that exist.                     *)
THEOREM FilesTyped == Spec => []TypeOK
BY FilesInvariant, InvTypes, PTL

(* ramfs_write, ramfs_create_file and ramfs_create_dir never give a block  *)
(* to two owners nor lose one, also when allocate_block fails half way     *)
(* through a write, and a file has the blocks its size asks for.           *)
THEOREM BlocksAreOwned == Spec => []BlocksOwned
BY FilesInvariant, InvBlocks, PTL

(* Through open, pipe, dup2, close and fork a descriptor is never a file   *)
(* and a pipe at once, and a free one has forgotten its former use.        *)
THEOREM DescriptorsStayClean == Spec => []DescriptorsClean
BY FilesInvariant, InvDescriptors, PTL

(* However descriptors are shared and files written, no offset is behind   *)
(* the end of its file: ramfs_write leaves no hole.                        *)
THEOREM OffsetsStayInFile == Spec => []OffsetsInFile
BY FilesInvariant, InvDescriptors, PTL

(* The system calls implement FileSpec: through block chains, the bitmap,  *)
(* the ring buffer of pipe.c and shared descriptors, a file is a string    *)
(* of bytes that writes overwrite or extend, and a pipe a queue of bytes.  *)
THEOREM FilesImplementFileSpec == Spec => ImplementsFileSpec
<1>1. Init => FilesInv /\ Abstract!Init
  BY InitFiles, InitImplementsFiles
<1>2. FilesInv /\ [Next]_vars => FilesInv' /\ [Abstract!Next]_seen
  BY StepImplementsFiles
<1> QED
  BY <1>1, <1>2, PTL DEF Spec, ImplementsFileSpec, Abstract!Spec, seen, Texts, Queues
=============================================================================
