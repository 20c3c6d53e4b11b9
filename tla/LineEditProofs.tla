--------------------------- MODULE LineEditProofs ---------------------------
(***************************************************************************)
(* The shell's line editor implements the abstract one, and its history is *)
(* the last lines entered, for every buffer and history size, every        *)
(* alphabet and every list of commands.                                    *)
(***************************************************************************)
EXTENDS LineEdit, SequenceTheorems, TLAPS

(* u is t with s put in after position p, element by element. *)
HasInserted(u, t, s, p) ==
  /\ Len(u) = Len(t) + Len(s)
  /\ \A i \in 1 .. p : u[i] = t[i]
  /\ \A i \in 1 .. Len(s) : u[p + i] = s[i]
  /\ \A i \in p + 1 .. Len(t) : u[Len(s) + i] = t[i]

(* u is t without its element at position p. *)
HasErased(u, t, p) ==
  /\ Len(u) = Len(t) - 1
  /\ \A i \in 1 .. p - 1 : u[i] = t[i]
  /\ \A i \in p .. Len(t) - 1 : u[i] = t[i + 1]

LEMMA InsertSeq ==
  ASSUME NEW S, NEW t \in Seq(S), NEW s \in Seq(S), NEW u \in Seq(S),
         NEW p \in 0 .. Len(t), HasInserted(u, t, s, p)
  PROVE  u = SubSeq(t, 1, p) \o s \o SubSeq(t, p + 1, Len(t))
<1> DEFINE a == SubSeq(t, 1, p)
           c == SubSeq(t, p + 1, Len(t))
           v == (a \o s) \o c
<1>1. /\ p \in Nat /\ Len(t) \in Nat /\ p <= Len(t) /\ Len(s) \in Nat
      /\ Len(u) = Len(t) + Len(s)
  BY DEF HasInserted
<1>2. a \in Seq(S) /\ Len(a) = p /\ \A i \in 1 .. p : a[i] = t[i]
  <2>1. \A i \in 1 .. p : t[i] \in S
    BY <1>1
  <2> QED
    BY <1>1, <2>1, SubSeqProperties
<1>3. c \in Seq(S) /\ Len(c) = Len(t) - p /\ \A i \in 1 .. Len(t) - p : c[i] = t[p + i]
  <2>1. \A i \in p + 1 .. Len(t) : t[i] \in S
    BY <1>1
  <2>2. /\ c \in Seq(S)
        /\ Len(c) = IF p + 1 <= Len(t) THEN Len(t) - (p + 1) + 1 ELSE 0
        /\ \A i \in 1 .. Len(t) - (p + 1) + 1 : c[i] = t[(p + 1) + i - 1]
    BY <1>1, <2>1, SubSeqProperties
  <2> HIDE DEF c
  <2> QED
    BY <1>1, <2>2
<1> HIDE DEF a, c
<1>4. /\ a \o s \in Seq(S) /\ Len(a \o s) = p + Len(s)
      /\ \A i \in 1 .. p + Len(s) : (a \o s)[i] = IF i <= p THEN a[i] ELSE s[i - p]
  BY <1>2, ConcatProperties, Zenon
<1> DEFINE w == a \o s
<1>0. w = a \o s
  OBVIOUS
<1> HIDE DEF w
<1>5. /\ v \in Seq(S) /\ Len(v) = Len(u)
      /\ \A i \in 1 .. Len(u) : v[i] = IF i <= p + Len(s) THEN w[i] ELSE c[i - (p + Len(s))]
  <2>1. w \in Seq(S) /\ Len(w) = p + Len(s) /\ v = w \o c
    BY <1>0, <1>4
  <2>2. /\ v \in Seq(S) /\ Len(v) = (p + Len(s)) + (Len(t) - p)
        /\ \A i \in 1 .. (p + Len(s)) + (Len(t) - p) :
             v[i] = IF i <= p + Len(s) THEN w[i] ELSE c[i - (p + Len(s))]
    <3>1. /\ w \o c \in Seq(S) /\ Len(w \o c) = Len(w) + Len(c)
          /\ \A i \in 1 .. Len(w) + Len(c) : (w \o c)[i] = IF i <= Len(w) THEN w[i] ELSE c[i - Len(w)]
      BY <1>3, <2>1, ConcatProperties, Zenon
    <3>2. Len(w) = p + Len(s) /\ Len(c) = Len(t) - p /\ v = w \o c
      BY <1>3, <2>1
    <3> HIDE DEF v
    <3> QED
      BY <3>1, <3>2
  <2>3. (p + Len(s)) + (Len(t) - p) = Len(u)
    BY <1>1
  <2> QED
    BY <2>2, <2>3, SMTT(20)
<1> HIDE DEF v
<1>6. ASSUME NEW i \in 1 .. Len(u) PROVE u[i] = v[i]
  <2>0. i \in Nat /\ 1 <= i /\ i <= Len(t) + Len(s)
    BY <1>1
  <2>1. CASE i <= p
    <3>1. v[i] = w[i] /\ w[i] = a[i] /\ a[i] = t[i]
      BY <1>0, <1>1, <1>2, <1>4, <1>5, <2>0, <2>1
    <3> QED
      BY <1>1, <2>0, <2>1, <3>1 DEF HasInserted
  <2>2. CASE p < i /\ i <= p + Len(s)
    <3>1. v[i] = w[i] /\ w[i] = s[i - p]
      BY <1>0, <1>1, <1>4, <1>5, <2>0, <2>2
    <3>2. i - p \in 1 .. Len(s) /\ p + (i - p) = i
      BY <1>1, <2>0, <2>2
    <3>3. u[p + (i - p)] = s[i - p]
      BY <3>2 DEF HasInserted
    <3> QED
      BY <3>1, <3>2, <3>3
  <2>3. CASE p + Len(s) < i
    <3> DEFINE j == i - Len(s)
               k == i - (p + Len(s))
    <3>1. v[i] = c[k]
      BY <1>1, <1>5, <2>0, <2>3
    <3>2. /\ k \in 1 .. Len(t) - p
          /\ p + k = j
          /\ j \in p + 1 .. Len(t) /\ Len(s) + j = i
      BY <1>1, <2>0, <2>3
    <3> HIDE DEF j, k
    <3>3. c[k] = t[j]
      BY <1>3, <3>2
    <3>4. u[Len(s) + j] = t[j]
      BY <3>2 DEF HasInserted
    <3> QED
      BY <3>1, <3>2, <3>3, <3>4
  <2> QED
    BY <1>1, <2>0, <2>1, <2>2, <2>3
<1>7. u = v
  BY <1>5, <1>6, SeqEqual
<1> QED
  BY <1>7 DEF a, c, v

LEMMA EraseSeq ==
  ASSUME NEW S, NEW t \in Seq(S), NEW u \in Seq(S),
         NEW p \in 1 .. Len(t), HasErased(u, t, p)
  PROVE  u = SubSeq(t, 1, p - 1) \o SubSeq(t, p + 1, Len(t))
<1> DEFINE a == SubSeq(t, 1, p - 1)
           c == SubSeq(t, p + 1, Len(t))
           v == a \o c
<1>1. /\ p \in Nat /\ Len(t) \in Nat /\ 1 <= p /\ p <= Len(t)
      /\ Len(u) = Len(t) - 1
  BY DEF HasErased
<1>2. a \in Seq(S) /\ Len(a) = p - 1 /\ \A i \in 1 .. p - 1 : a[i] = t[i]
  <2>1. \A i \in 1 .. p - 1 : t[i] \in S
    BY <1>1
  <2> QED
    BY <1>1, <2>1, SubSeqProperties
<1>3. c \in Seq(S) /\ Len(c) = Len(t) - p /\ \A i \in 1 .. Len(t) - p : c[i] = t[p + i]
  <2>1. \A i \in p + 1 .. Len(t) : t[i] \in S
    BY <1>1
  <2>2. /\ c \in Seq(S)
        /\ Len(c) = IF p + 1 <= Len(t) THEN Len(t) - (p + 1) + 1 ELSE 0
        /\ \A i \in 1 .. Len(t) - (p + 1) + 1 : c[i] = t[(p + 1) + i - 1]
    BY <1>1, <2>1, SubSeqProperties
  <2> HIDE DEF c
  <2> QED
    BY <1>1, <2>2
<1> HIDE DEF a, c
<1>4. /\ v \in Seq(S) /\ Len(v) = Len(u)
      /\ \A i \in 1 .. Len(u) : v[i] = IF i <= p - 1 THEN a[i] ELSE c[i - (p - 1)]
  <2>1. /\ v \in Seq(S) /\ Len(v) = (p - 1) + (Len(t) - p)
        /\ \A i \in 1 .. (p - 1) + (Len(t) - p) :
             v[i] = IF i <= p - 1 THEN a[i] ELSE c[i - (p - 1)]
    <3>1. a \in Seq(S) /\ c \in Seq(S)
      BY <1>2, <1>3
    <3>2. /\ v \in Seq(S) /\ Len(v) = Len(a) + Len(c)
          /\ \A i \in 1 .. Len(a) + Len(c) : v[i] = IF i <= Len(a) THEN a[i] ELSE c[i - Len(a)]
      BY <3>1, ConcatProperties
    <3>3. Len(a) = p - 1 /\ Len(c) = Len(t) - p
      BY <1>2, <1>3
    <3> HIDE DEF v
    <3> QED
      BY <3>2, <3>3
  <2>2. (p - 1) + (Len(t) - p) = Len(u)
    BY <1>1
  <2> QED
    BY <2>1, <2>2, Zenon
<1> HIDE DEF v
<1>5. ASSUME NEW i \in 1 .. Len(u) PROVE u[i] = v[i]
  <2>0. i \in Nat /\ 1 <= i /\ i <= Len(t) - 1
    BY <1>1
  <2>1. CASE i <= p - 1
    <3>1. v[i] = a[i] /\ a[i] = t[i]
      BY <1>1, <1>2, <1>4, <2>0, <2>1
    <3> QED
      BY <1>1, <2>0, <2>1, <3>1 DEF HasErased
  <2>2. CASE p <= i
    <3> DEFINE k == i - (p - 1)
    <3>1. v[i] = c[k]
      BY <1>1, <1>4, <2>0, <2>2
    <3>2. k \in 1 .. Len(t) - p /\ p + k = i + 1
      BY <1>1, <2>0, <2>2
    <3> HIDE DEF k
    <3>3. c[k] = t[i + 1]
      BY <1>3, <3>2, Zenon
    <3>4. u[i] = t[i + 1]
      BY <1>1, <2>0, <2>2 DEF HasErased
    <3> QED
      BY <3>1, <3>3, <3>4
  <2> QED
    BY <1>1, <2>0, <2>1, <2>2
<1>6. u = v
  BY <1>4, <1>5, SeqEqual
<1> QED
  BY <1>6 DEF a, c, v

-----------------------------------------------------------------------------
(* The inductive invariant: no terminator inside the line, every used slot *)
(* of the history holds a line that was entered, every such line fits.     *)
LineHasText == \A i \in 0 .. cmd_len - 1 : cmd_buffer[i] \in Printable

SlotsEntered ==
  \A s \in Slots : s < history_count => \E i \in 1 .. Len(log) : history[s] = log[i]

LinesFit == \A i \in 1 .. Len(log) : Len(log[i]) <= MAX_CMD_LEN - 1

IInv == TypeOK /\ LineHasText /\ SlotsEntered /\ LinesFit /\ HistoryIsRecent

Text == Chars(cmd_buffer, cmd_len)

LEMMA CharsType ==
  ASSUME NEW b, NEW n \in Nat, \A i \in 0 .. n - 1 : b[i] \in Printable
  PROVE  /\ Chars(b, n) \in Seq(Printable)
         /\ Len(Chars(b, n)) = n
         /\ \A i \in 1 .. n : Chars(b, n)[i] = b[i - 1]
<1>1. \A i \in 1 .. n : b[i - 1] \in Printable
  <2> TAKE i \in 1 .. n
  <2>1. i - 1 \in 0 .. n - 1
    OBVIOUS
  <2> QED
    BY <2>1
<1> QED
  BY <1>1 DEF Chars

LEMMA TextType ==
  ASSUME TypeOK, LineHasText
  PROVE  /\ Text \in Seq(Printable)
         /\ Len(Text) = cmd_len
         /\ \A i \in 1 .. cmd_len : Text[i] = cmd_buffer[i - 1]
<1>1. cmd_len \in Nat
  BY SizesAssumption DEF TypeOK, Cells
<1> QED
  BY <1>1, CharsType DEF Text, LineHasText

(* A terminator right behind n characters that are none: the C string. *)
LEMMA CStringIsText ==
  ASSUME NEW b, NEW n \in Cells, b[n] = NUL, \A i \in 0 .. n - 1 : b[i] \in Printable
  PROVE  CString(b) = Chars(b, n)
<1>1. \A i \in 0 .. n - 1 : b[i] # NUL
  BY CharsAssumption
<1> DEFINE k == str_len(b)
<1>2. k \in Cells /\ b[k] = NUL /\ \A i \in 0 .. k - 1 : b[i] # NUL
  BY <1>1 DEF str_len
<1> HIDE DEF k
<1>3. n \in Int /\ k \in Int /\ 0 <= n /\ 0 <= k
  BY <1>2, SizesAssumption DEF Cells
<1>4. ~(k < n)
  <2> SUFFICES ASSUME k < n PROVE FALSE
    OBVIOUS
  <2>1. k \in 0 .. n - 1
    BY <1>3
  <2> QED
    BY <1>1, <1>2, <2>1
<1>5. ~(n < k)
  <2> SUFFICES ASSUME n < k PROVE FALSE
    OBVIOUS
  <2>1. n \in 0 .. k - 1
    BY <1>3
  <2> QED
    BY <1>2, <2>1
<1>6. k = n
  BY <1>3, <1>4, <1>5
<1> QED
  BY <1>6 DEF CString, k

(* Slots: i % HISTORY_SIZE is one, at most i, and differs for lines less   *)
(* than HISTORY_SIZE apart.                                                *)
LEMMA SmallSlot ==
  ASSUME NEW i \in Nat, i < HISTORY_SIZE
  PROVE  i % HISTORY_SIZE = i
  BY SizesAssumption

LEMMA SlotOf ==
  ASSUME NEW i \in Nat
  PROVE  i % HISTORY_SIZE \in Slots /\ i % HISTORY_SIZE <= i
<1>1. i % HISTORY_SIZE \in 0 .. HISTORY_SIZE - 1
  BY SizesAssumption
<1>2. CASE i < HISTORY_SIZE
  <2>1. i % HISTORY_SIZE = i
    BY <1>2, SmallSlot
  <2> QED
    BY <1>1, <2>1 DEF Slots
<1>3. CASE ~(i < HISTORY_SIZE)
  BY <1>1, <1>3, SizesAssumption DEF Slots
<1> QED
  BY <1>2, <1>3

LEMMA SlotsDiffer ==
  ASSUME NEW i \in Nat, NEW n \in Nat, i < n, n - i < HISTORY_SIZE
  PROVE  i % HISTORY_SIZE # n % HISTORY_SIZE
<1> DEFINE S == HISTORY_SIZE
           a == n \div S
           b == i \div S
<1>1. S \in Nat /\ S > 0
  BY SizesAssumption
<1> SUFFICES ASSUME i % S = n % S PROVE FALSE
  OBVIOUS
<1> HIDE DEF S
<1>2. /\ a \in Int /\ b \in Int
      /\ n = S * a + (n % S) /\ i = S * b + (i % S)
      /\ n % S \in Int
  BY <1>1
<1> HIDE DEF a, b
<1>3. n - i = S * a - S * b
  BY <1>1, <1>2
<1>4. S * a - S * b = S * (a - b)
  BY <1>1, <1>2
<1>5. a - b <= 0 \/ a - b >= 1
  BY <1>2
<1>6. CASE a - b <= 0
  <2>1. S * (a - b) <= 0
    BY <1>1, <1>2, <1>6
  <2> QED
    BY <1>3, <1>4, <2>1
<1>7. CASE a - b >= 1
  <2>1. S * (a - b) >= S
    BY <1>1, <1>2, <1>7
  <2> QED
    BY <1>1, <1>3, <1>4, <2>1 DEF S
<1> QED
  BY <1>5, <1>6, <1>7

(* The history part of the invariant only speaks of the history. *)
LEMMA HistoryKept ==
  ASSUME IInv, UNCHANGED hist
  PROVE  SlotsEntered' /\ LinesFit' /\ HistoryIsRecent'
  BY DEF IInv, hist, SlotsEntered, LinesFit, HistoryIsRecent, Oldest

LEMMA InsertedType ==
  ASSUME IInv, NEW s \in Seq(Printable)
  PROVE  Inserted(cmd_buffer, s) \in [Cells -> Printable \cup {NUL}]
<1>1. /\ cmd_buffer \in [Cells -> Printable \cup {NUL}]
      /\ cmd_pos \in Nat /\ cmd_len \in Nat /\ cmd_pos <= cmd_len /\ Len(s) \in Nat
  BY SizesAssumption DEF IInv, TypeOK, Cells
<1> SUFFICES ASSUME NEW i \in Cells
             PROVE  Inserted(cmd_buffer, s)[i] \in Printable \cup {NUL}
  BY DEF Inserted
<1>2. i \in Nat /\ i < MAX_CMD_LEN
  BY SizesAssumption DEF Cells
<1>3. CASE cmd_pos <= i /\ i < cmd_pos + Len(s)
  <2>1. i - cmd_pos + 1 \in 1 .. Len(s)
    BY <1>1, <1>2, <1>3
  <2>2. s[i - cmd_pos + 1] \in Printable
    BY <2>1
  <2> QED
    BY <1>1, <1>2, <1>3, <2>2 DEF Inserted
<1>4. CASE ~(i < cmd_pos + Len(s))
  <2>1. i - Len(s) \in Cells
    BY <1>1, <1>2, <1>4, SizesAssumption DEF Cells
  <2> QED
    BY <1>1, <1>2, <1>4, <2>1 DEF Inserted
<1> QED
  BY <1>1, <1>2, <1>3, <1>4 DEF Inserted

(* Putting s in at the cursor, whatever happens behind the new line. *)
LEMMA InsertStep ==
  ASSUME IInv, NEW s \in Seq(Printable), cmd_len + Len(s) <= MAX_CMD_LEN - 1,
         cmd_buffer' \in [Cells -> Printable \cup {NUL}],
         \A i \in 0 .. cmd_len + Len(s) - 1 : cmd_buffer'[i] = Inserted(cmd_buffer, s)[i],
         cmd_len' = cmd_len + Len(s), cmd_pos' = cmd_pos + Len(s),
         UNCHANGED <<hist, history_pos>>
  PROVE  IInv' /\ Editor!Insert(s)
<1>0. /\ cmd_len \in Nat /\ cmd_pos \in Nat /\ cmd_pos <= cmd_len /\ Len(s) \in Nat
      /\ cmd_len < MAX_CMD_LEN /\ MAX_CMD_LEN \in Nat
  BY SizesAssumption DEF IInv, TypeOK, Cells
<1>1. /\ Text \in Seq(Printable) /\ Len(Text) = cmd_len
      /\ \A i \in 1 .. cmd_len : Text[i] = cmd_buffer[i - 1]
  BY TextType DEF IInv
<1>2. \A i \in 0 .. cmd_pos - 1 : cmd_buffer'[i] = cmd_buffer[i]
  <2> TAKE i \in 0 .. cmd_pos - 1
  <2>1. i \in 0 .. cmd_len + Len(s) - 1 /\ i \in Cells /\ i < cmd_pos
    BY <1>0 DEF Cells
  <2> QED
    BY <2>1, Zenon DEF Inserted
<1>3. \A i \in 1 .. Len(s) : cmd_buffer'[cmd_pos + i - 1] = s[i]
  <2> TAKE i \in 1 .. Len(s)
  <2> DEFINE j == cmd_pos + i - 1
  <2>1. /\ j \in 0 .. cmd_len + Len(s) - 1 /\ j \in Cells
        /\ ~(j < cmd_pos) /\ j < cmd_pos + Len(s) /\ j - cmd_pos + 1 = i
    BY <1>0 DEF Cells
  <2> HIDE DEF j
  <2>2. cmd_buffer'[j] = s[i]
    BY <2>1, Zenon DEF Inserted
  <2> QED
    BY <2>2 DEF j
<1>4. \A i \in cmd_pos .. cmd_len - 1 : cmd_buffer'[Len(s) + i] = cmd_buffer[i]
  <2> TAKE i \in cmd_pos .. cmd_len - 1
  <2> DEFINE j == Len(s) + i
  <2>1. /\ j \in 0 .. cmd_len + Len(s) - 1 /\ j \in Cells
        /\ ~(j < cmd_pos) /\ ~(j < cmd_pos + Len(s))
        /\ j <= cmd_len + Len(s) /\ j - Len(s) = i
    BY <1>0 DEF Cells
  <2> HIDE DEF j
  <2>2. cmd_buffer'[j] = cmd_buffer[i]
    BY <2>1, Zenon DEF Inserted
  <2> QED
    BY <2>2 DEF j
<1>5. LineHasText'
  <2> SUFFICES ASSUME NEW i \in 0 .. cmd_len' - 1 PROVE cmd_buffer'[i] \in Printable
    BY DEF LineHasText
  <2>0. i \in Nat /\ i < cmd_len + Len(s)
    BY <1>0
  <2>1. CASE i < cmd_pos
    BY <1>0, <1>2, <2>0, <2>1 DEF IInv, LineHasText
  <2>2. CASE cmd_pos <= i /\ i < cmd_pos + Len(s)
    <3> DEFINE k == i - cmd_pos + 1
    <3>1. k \in 1 .. Len(s) /\ cmd_pos + k - 1 = i
      BY <1>0, <2>0, <2>2
    <3> HIDE DEF k
    <3>2. cmd_buffer'[cmd_pos + k - 1] = s[k] /\ s[k] \in Printable
      BY <1>3, <3>1
    <3> QED
      BY <3>1, <3>2
  <2>3. CASE cmd_pos + Len(s) <= i
    <3> DEFINE k == i - Len(s)
    <3>1. k \in cmd_pos .. cmd_len - 1 /\ k \in 0 .. cmd_len - 1 /\ Len(s) + k = i
      BY <1>0, <2>0, <2>3
    <3> HIDE DEF k
    <3>2. cmd_buffer'[Len(s) + k] = cmd_buffer[k] /\ cmd_buffer[k] \in Printable
      BY <1>4, <3>1 DEF IInv, LineHasText
    <3> QED
      BY <3>1, <3>2
  <2> QED
    BY <1>0, <2>0, <2>1, <2>2, <2>3
<1>6. TypeOK'
  <2>1. cmd_len' \in Cells /\ cmd_pos' \in 0 .. cmd_len'
    BY <1>0 DEF Cells
  <2> QED
    BY <2>1 DEF IInv, TypeOK, hist
<1>7. IInv'
  BY <1>5, <1>6, HistoryKept DEF IInv
<1>8. /\ Text' \in Seq(Printable) /\ Len(Text') = cmd_len + Len(s)
      /\ \A i \in 1 .. cmd_len + Len(s) : Text'[i] = cmd_buffer'[i - 1]
  <2>1. cmd_len' \in Nat /\ \A i \in 0 .. cmd_len' - 1 : cmd_buffer'[i] \in Printable
    BY <1>0, <1>5 DEF LineHasText
  <2>2. /\ Chars(cmd_buffer', cmd_len') \in Seq(Printable)
        /\ Len(Chars(cmd_buffer', cmd_len')) = cmd_len'
        /\ \A i \in 1 .. cmd_len' : Chars(cmd_buffer', cmd_len')[i] = cmd_buffer'[i - 1]
    BY <2>1, CharsType
  <2> QED
    BY <2>2 DEF Text
<1> DEFINE u == Text'
<1> HIDE DEF u
<1>9. HasInserted(u, Text, s, cmd_pos)
  <2>1. Len(u) = Len(Text) + Len(s)
    BY <1>1, <1>8 DEF u
  <2>2. \A i \in 1 .. cmd_pos : u[i] = Text[i]
    <3> TAKE i \in 1 .. cmd_pos
    <3>1. i - 1 \in 0 .. cmd_pos - 1 /\ i \in 1 .. cmd_len /\ i \in 1 .. cmd_len + Len(s)
      BY <1>0
    <3> QED
      BY <1>1, <1>2, <1>8, <3>1 DEF u
  <2>3. \A i \in 1 .. Len(s) : u[cmd_pos + i] = s[i]
    <3> TAKE i \in 1 .. Len(s)
    <3> DEFINE k == cmd_pos + i
    <3>1. k \in 1 .. cmd_len + Len(s) /\ k - 1 = cmd_pos + i - 1
      BY <1>0
    <3>2. cmd_buffer'[k - 1] = s[i]
      BY <1>3, <3>1
    <3> HIDE DEF k
    <3>3. u[k] = cmd_buffer'[k - 1]
      BY <1>8, <3>1 DEF u
    <3> QED
      BY <3>2, <3>3 DEF k
  <2>4. \A i \in cmd_pos + 1 .. Len(Text) : u[Len(s) + i] = Text[i]
    <3> TAKE i \in cmd_pos + 1 .. Len(Text)
    <3> DEFINE k == i - 1
    <3>1. /\ k \in cmd_pos .. cmd_len - 1 /\ i \in 1 .. cmd_len
          /\ Len(s) + i \in 1 .. cmd_len + Len(s) /\ Len(s) + i - 1 = Len(s) + k
      BY <1>0, <1>1
    <3>2. u[Len(s) + i] = cmd_buffer'[Len(s) + k]
      BY <1>8, <3>1 DEF u
    <3>3. Text[i] = cmd_buffer[k]
      BY <1>1, <3>1
    <3> HIDE DEF k
    <3> QED
      BY <1>4, <3>1, <3>2, <3>3
  <2> QED
    BY <2>1, <2>2, <2>3, <2>4 DEF HasInserted
<1>10. u = SubSeq(Text, 1, cmd_pos) \o s \o SubSeq(Text, cmd_pos + 1, Len(Text))
  <2>1. u \in Seq(Printable) /\ cmd_pos \in 0 .. Len(Text)
    BY <1>0, <1>1, <1>8 DEF u
  <2> QED
    BY <1>1, <1>9, <2>1, InsertSeq, Zenon
<1>11. Len(Text) + Len(s) <= MAX_CMD_LEN - 1
  BY <1>1
<1>12. Editor!Insert(s)
  BY <1>10, <1>11, Zenon DEF Editor!Insert, u, Text, hist
<1> QED
  BY <1>7, <1>12

LEMMA TypeStep ==
  ASSUME IInv, NEW c \in Printable, Type(c)
  PROVE  IInv' /\ Editor!Next
<1> DEFINE s == <<c>>
<1>1. s \in Seq(Printable) /\ Len(s) = 1 /\ s \in Texts
  BY DEF Texts
<1>2. /\ cmd_len \in Nat /\ cmd_len + Len(s) <= MAX_CMD_LEN - 1
      /\ cmd_buffer' = [Inserted(cmd_buffer, s) EXCEPT ![cmd_len + 1] = NUL]
      /\ cmd_len' = cmd_len + Len(s) /\ cmd_pos' = cmd_pos + Len(s)
      /\ UNCHANGED <<hist, history_pos>>
  BY <1>1, SizesAssumption DEF Type, Room, IInv, TypeOK, Cells
<1> HIDE DEF s
<1>3. \A i \in 0 .. cmd_len + Len(s) - 1 : cmd_buffer'[i] = Inserted(cmd_buffer, s)[i]
  <2> TAKE i \in 0 .. cmd_len + Len(s) - 1
  <2>1. i \in Int /\ 0 <= i /\ i <= cmd_len /\ cmd_len <= MAX_CMD_LEN - 2
    BY <1>1, <1>2, SizesAssumption
  <2>2. i \in Cells /\ i # cmd_len + 1
    BY <1>2, <2>1, SizesAssumption DEF Cells
  <2> QED
    BY <1>2, <2>2 DEF Inserted
<1>4. cmd_buffer' \in [Cells -> Printable \cup {NUL}]
  BY <1>1, <1>2, InsertedType, Zenon
<1>5. IInv' /\ Editor!Insert(s)
  BY <1>1, <1>2, <1>3, <1>4, InsertStep, Zenon
<1> QED
  BY <1>1, <1>5 DEF Editor!Next

LEMMA TabStep ==
  ASSUME IInv, Tab
  PROVE  IInv' /\ Editor!Next
<1>1. PICK w \in Cells, m \in Commands :
        /\ IsWordStart(w)
        /\ Matches(w) = {m}
        /\ cmd_len + (Len(m) - (cmd_pos - w)) < MAX_CMD_LEN - 1
        /\ Insert(SubSeq(m, cmd_pos - w + 1, Len(m)))
  BY DEF Tab
<1> DEFINE k == cmd_pos - w + 1
           s == SubSeq(m, k, Len(m))
<1>2. m \in Seq(Printable) /\ Len(m) \in Nat
  BY CharsAssumption
<1>3. k \in 1 .. MAX_CMD_LEN /\ k <= Len(m) + 1
  <2>1. cmd_pos \in Nat /\ cmd_pos < MAX_CMD_LEN /\ w \in Nat /\ w <= cmd_pos
    BY <1>1, SizesAssumption DEF IInv, TypeOK, Cells, IsWordStart
  <2>2. m \in Matches(w)
    BY <1>1
  <2>3. cmd_pos - w <= Len(m)
    BY <2>2 DEF Matches
  <2> QED
    BY <1>2, <2>1, <2>3, SizesAssumption
<1>4. s \in Texts
  BY <1>3 DEF Texts
<1> HIDE DEF k
<1>5. s \in Seq(Printable) /\ Len(s) = Len(m) - k + 1
  <2>1. k \in Nat /\ \A i \in k .. Len(m) : m[i] \in Printable
    BY <1>2, <1>3
  <2>2. /\ s \in Seq(Printable)
        /\ Len(s) = IF k <= Len(m) THEN Len(m) - k + 1 ELSE 0
    BY <1>2, <2>1, SubSeqProperties
  <2> HIDE DEF s
  <2> QED
    BY <1>2, <1>3, <2>2
<1>6. Insert(s)
  BY <1>1 DEF k
<1> HIDE DEF s
<1>7. cmd_len \in Nat /\ cmd_len + Len(s) <= MAX_CMD_LEN - 1
  BY <1>1, <1>2, <1>5, SizesAssumption DEF k, IInv, TypeOK, Cells
<1>8. cmd_buffer' \in [Cells -> Printable \cup {NUL}]
  BY <1>5, <1>6, <1>7, InsertedType DEF Insert
<1>9. IInv' /\ Editor!Insert(s)
  BY <1>5, <1>6, <1>7, <1>8, InsertStep DEF Insert
<1> QED
  BY <1>4, <1>9 DEF Editor!Next

LEMMA MoveStep ==
  ASSUME IInv, Left \/ Right
  PROVE  IInv' /\ Editor!Next
<1>1. /\ cmd_pos' \in 0 .. cmd_len /\ cmd_pos' \in Nat
      /\ UNCHANGED <<cmd_buffer, cmd_len, hist, history_pos>>
  BY SizesAssumption DEF IInv, TypeOK, Cells, Left, Right
<1>2. TypeOK' /\ LineHasText'
  BY <1>1 DEF IInv, TypeOK, LineHasText, hist
<1>3. IInv'
  BY <1>1, <1>2, HistoryKept DEF IInv
<1>4. Len(Text) = cmd_len /\ UNCHANGED <<Text, log>>
  BY <1>1, TextType DEF IInv, Text, hist
<1>5. Editor!Move
  BY <1>1, <1>4 DEF Editor!Move, Text
<1> QED
  BY <1>3, <1>5 DEF Editor!Next

LEMMA EraseStep ==
  ASSUME IInv, Backspace
  PROVE  IInv' /\ Editor!Next
<1>0. /\ cmd_len \in Nat /\ cmd_pos \in Nat /\ 0 < cmd_pos /\ cmd_pos <= cmd_len
      /\ cmd_len < MAX_CMD_LEN /\ MAX_CMD_LEN \in Nat
      /\ cmd_buffer \in [Cells -> Printable \cup {NUL}]
      /\ cmd_len' = cmd_len - 1 /\ cmd_pos' = cmd_pos - 1
      /\ UNCHANGED <<hist, history_pos>>
  BY SizesAssumption DEF IInv, TypeOK, Cells, Backspace
<1>1. /\ Text \in Seq(Printable) /\ Len(Text) = cmd_len
      /\ \A i \in 1 .. cmd_len : Text[i] = cmd_buffer[i - 1]
  BY TextType DEF IInv
<1>2. \A i \in 0 .. cmd_pos - 2 : cmd_buffer'[i] = cmd_buffer[i]
  BY <1>0 DEF Backspace, Erased, Cells
<1>3. \A i \in cmd_pos - 1 .. cmd_len - 2 : cmd_buffer'[i] = cmd_buffer[i + 1]
  BY <1>0 DEF Backspace, Erased, Cells
<1>4. LineHasText'
  <2> SUFFICES ASSUME NEW i \in 0 .. cmd_len' - 1 PROVE cmd_buffer'[i] \in Printable
    BY DEF LineHasText
  <2>1. i \in 0 .. cmd_len - 1 /\ i + 1 \in 0 .. cmd_len - 1
    BY <1>0
  <2>2. cmd_buffer[i] \in Printable /\ cmd_buffer[i + 1] \in Printable
    BY <2>1 DEF IInv, LineHasText
  <2>3. i \in 0 .. cmd_pos - 2 \/ i \in cmd_pos - 1 .. cmd_len - 2
    BY <1>0
  <2> QED
    BY <1>2, <1>3, <2>2, <2>3
<1>5. TypeOK'
  <2>1. cmd_len' \in Cells /\ cmd_pos' \in 0 .. cmd_len'
    BY <1>0 DEF Cells
  <2>2. cmd_buffer' \in [Cells -> Printable \cup {NUL}]
    BY <1>0 DEF Backspace, Erased, Cells
  <2> QED
    BY <1>0, <2>1, <2>2 DEF IInv, TypeOK, hist
<1>6. IInv'
  BY <1>0, <1>4, <1>5, HistoryKept DEF IInv
<1>7. /\ Text' \in Seq(Printable) /\ Len(Text') = cmd_len - 1
      /\ \A i \in 1 .. cmd_len - 1 : Text'[i] = cmd_buffer'[i - 1]
  <2>1. cmd_len' \in Nat /\ \A i \in 0 .. cmd_len' - 1 : cmd_buffer'[i] \in Printable
    BY <1>0, <1>4 DEF LineHasText
  <2>2. /\ Chars(cmd_buffer', cmd_len') \in Seq(Printable)
        /\ Len(Chars(cmd_buffer', cmd_len')) = cmd_len'
        /\ \A i \in 1 .. cmd_len' : Chars(cmd_buffer', cmd_len')[i] = cmd_buffer'[i - 1]
    BY <2>1, CharsType, Zenon
  <2> QED
    BY <1>0, <2>2 DEF Text
<1> DEFINE u == Text'
<1> HIDE DEF u
<1>8. HasErased(u, Text, cmd_pos)
  <2>1. Len(u) = Len(Text) - 1
    BY <1>1, <1>7 DEF u
  <2>2. \A i \in 1 .. cmd_pos - 1 : u[i] = Text[i]
    <3> TAKE i \in 1 .. cmd_pos - 1
    <3>1. i - 1 \in 0 .. cmd_pos - 2 /\ i \in 1 .. cmd_len /\ i \in 1 .. cmd_len - 1
      BY <1>0
    <3> QED
      BY <1>1, <1>2, <1>7, <3>1 DEF u
  <2>3. \A i \in cmd_pos .. Len(Text) - 1 : u[i] = Text[i + 1]
    <3> TAKE i \in cmd_pos .. Len(Text) - 1
    <3> DEFINE k == i - 1
    <3>1. /\ k \in cmd_pos - 1 .. cmd_len - 2 /\ i \in 1 .. cmd_len - 1
          /\ i + 1 \in 1 .. cmd_len /\ (i + 1) - 1 = k + 1
      BY <1>0, <1>1
    <3>2. u[i] = cmd_buffer'[k] /\ Text[i + 1] = cmd_buffer[k + 1]
      BY <1>1, <1>7, <3>1 DEF u
    <3> HIDE DEF k
    <3> QED
      BY <1>3, <3>1, <3>2
  <2> QED
    BY <2>1, <2>2, <2>3 DEF HasErased
<1>9. u = SubSeq(Text, 1, cmd_pos - 1) \o SubSeq(Text, cmd_pos + 1, Len(Text))
  <2>1. u \in Seq(Printable) /\ cmd_pos \in 1 .. Len(Text)
    BY <1>0, <1>1, <1>7 DEF u
  <2> QED
    BY <1>1, <1>8, <2>1, EraseSeq, Zenon
<1>10. Editor!Erase
  BY <1>0, <1>9, Zenon DEF Editor!Erase, u, Text, hist
<1> QED
  BY <1>6, <1>10 DEF Editor!Next

(* A line taken from the history was entered, and fits. *)
LEMMA ShowStep ==
  ASSUME IInv, NEW p \in Nat, p < history_count, Show(p),
         history_pos' \in 0 .. history_count, UNCHANGED hist
  PROVE  IInv' /\ Editor!Next
<1> DEFINE h == p % HISTORY_SIZE
           s == history[h]
<1>1. h \in Slots /\ h <= p
  BY SlotOf
<1>2. h < history_count
  BY <1>1, SizesAssumption DEF IInv, TypeOK, Slots
<1> HIDE DEF h
<1>3. PICK i \in 1 .. Len(log) : s = log[i]
  BY <1>1, <1>2 DEF IInv, SlotsEntered
<1>4. s \in Seq(Printable) /\ Len(s) \in Nat /\ Len(s) <= MAX_CMD_LEN - 1
  BY <1>1, <1>3 DEF IInv, TypeOK, LinesFit
<1>5. cmd_buffer' = str_cpy(cmd_buffer, s) /\ cmd_len' = Len(s) /\ cmd_pos' = Len(s)
  BY DEF Show, h
<1> HIDE DEF s
<1>6. \A j \in 0 .. Len(s) - 1 : cmd_buffer'[j] = s[j + 1] /\ s[j + 1] \in Printable
  <2> TAKE j \in 0 .. Len(s) - 1
  <2>1. j \in Cells /\ j < Len(s) /\ j + 1 \in 1 .. Len(s)
    BY <1>4, SizesAssumption DEF Cells
  <2> QED
    BY <1>4, <1>5, <2>1 DEF str_cpy
<1>7. LineHasText'
  BY <1>5, <1>6 DEF LineHasText
<1>8. TypeOK'
  <2>1. cmd_buffer' \in [Cells -> Printable \cup {NUL}]
    <3> SUFFICES ASSUME NEW j \in Cells
                 PROVE  str_cpy(cmd_buffer, s)[j] \in Printable \cup {NUL}
      BY <1>5 DEF str_cpy
    <3>1. j \in Nat
      BY SizesAssumption DEF Cells
    <3>2. CASE j < Len(s)
      <4>1. j \in 0 .. Len(s) - 1
        BY <1>4, <3>1, <3>2
      <4> QED
        BY <1>5, <1>6, <4>1
    <3>3. CASE ~(j < Len(s))
      BY <1>4, <3>3 DEF IInv, TypeOK, str_cpy
    <3> QED
      BY <3>2, <3>3
  <2>2. cmd_len' \in Cells /\ cmd_pos' \in 0 .. cmd_len'
    BY <1>4, <1>5, SizesAssumption DEF Cells
  <2> QED
    BY <2>1, <2>2 DEF IInv, TypeOK, hist
<1>9. IInv'
  BY <1>7, <1>8, HistoryKept DEF IInv
<1>10. Text' = s
  <2>1. cmd_len' \in Nat /\ \A j \in 0 .. cmd_len' - 1 : cmd_buffer'[j] \in Printable
    BY <1>4, <1>5, <1>7 DEF LineHasText
  <2>2. /\ Chars(cmd_buffer', cmd_len') \in Seq(Printable)
        /\ Len(Chars(cmd_buffer', cmd_len')) = cmd_len'
        /\ \A j \in 1 .. cmd_len' : Chars(cmd_buffer', cmd_len')[j] = cmd_buffer'[j - 1]
    BY <2>1, CharsType, Zenon
  <2> DEFINE u == Text'
  <2>3. /\ u \in Seq(Printable) /\ Len(u) = Len(s)
        /\ \A j \in 1 .. Len(s) : u[j] = cmd_buffer'[j - 1]
    BY <1>5, <2>2 DEF Text
  <2> HIDE DEF u
  <2>4. \A j \in 1 .. Len(s) : u[j] = s[j]
    <3> TAKE j \in 1 .. Len(s)
    <3> DEFINE k == j - 1
    <3>1. k \in 0 .. Len(s) - 1 /\ k + 1 = j
      BY <1>4
    <3>2. u[j] = cmd_buffer'[k]
      BY <2>3
    <3> HIDE DEF k
    <3> QED
      BY <1>6, <3>1, <3>2
  <2>5. u = s
    BY <1>4, <2>3, <2>4, SeqEqual
  <2> QED
    BY <2>5 DEF u
<1>11. Editor!Recall
  <2>1. UNCHANGED log
    BY DEF hist
  <2>2. Text' = log[i] /\ cmd_pos' = Len(Text')
    BY <1>3, <1>5, <1>10
  <2> QED
    BY <2>1, <2>2 DEF Editor!Recall, Text
<1> QED
  BY <1>9, <1>11 DEF Editor!Next

(* The line is emptied: what follows for it, whatever the history does. *)
LEMMA EmptyLine ==
  ASSUME cmd_len' = 0
  PROVE  LineHasText' /\ Text' = <<>>
<1>1. Text' = [i \in 1 .. 0 |-> cmd_buffer'[i - 1]]
  BY DEF Text, Chars
<1> QED
  BY <1>1 DEF LineHasText

LEMMA RecallStep ==
  ASSUME IInv, Up \/ Down
  PROVE  IInv' /\ Editor!Next
<1>0. history_count \in Nat /\ history_pos \in Nat /\ history_pos <= history_count
  BY DEF IInv, TypeOK
<1>1. CASE Up
  <2>1. history_pos - 1 \in Nat /\ history_pos - 1 < history_count
    BY <1>0, <1>1 DEF Up
  <2>2. /\ Show(history_pos - 1) /\ UNCHANGED hist
        /\ history_pos' \in 0 .. history_count
    BY <1>0, <1>1, <2>1 DEF Up
  <2> QED
    BY <2>1, <2>2, ShowStep
<1>2. CASE Down /\ history_pos < history_count - 1
  <2>1. history_pos + 1 \in Nat /\ history_pos + 1 < history_count
    BY <1>0, <1>2
  <2>2. /\ Show(history_pos + 1) /\ UNCHANGED hist
        /\ history_pos' \in 0 .. history_count
    BY <1>0, <1>2, <2>1 DEF Down
  <2> QED
    BY <2>1, <2>2, ShowStep
<1>3. CASE Down /\ ~(history_pos < history_count - 1)
  <2>1. /\ history_pos' = history_count /\ cmd_len' = 0 /\ cmd_pos' = 0
        /\ cmd_buffer' = [cmd_buffer EXCEPT ![0] = NUL] /\ UNCHANGED hist
    BY <1>3 DEF Down
  <2>2. TypeOK'
    BY <1>0, <2>1, SizesAssumption DEF IInv, TypeOK, hist, Cells
  <2>3. LineHasText' /\ Text' = <<>>
    BY <2>1, EmptyLine
  <2>4. IInv'
    BY <2>1, <2>2, <2>3, HistoryKept DEF IInv
  <2>5. Editor!Recall
    BY <2>1, <2>3 DEF Editor!Recall, Text, hist
  <2> QED
    BY <2>4, <2>5 DEF Editor!Next
<1> QED
  BY <1>1, <1>2, <1>3

-----------------------------------------------------------------------------
(* A line of at most MAX_CMD_LEN - 1 characters goes into the next slot:   *)
(* it overwrites the one line that is HISTORY_SIZE lines old.              *)
LEMMA HistoryGrows ==
  ASSUME IInv, NEW cmd \in Seq(Printable), Len(cmd) <= MAX_CMD_LEN - 1,
         history' = [history EXCEPT ![NextSlot] = cmd],
         history_count' = history_count + 1, log' = Append(log, cmd)
  PROVE  SlotsEntered' /\ LinesFit' /\ HistoryIsRecent'
<1> DEFINE S == HISTORY_SIZE
           n == history_count
<1>0. /\ n \in Nat /\ S \in Nat /\ S > 0 /\ Len(log) = n
      /\ log \in Seq(Seq(Printable)) /\ history \in [Slots -> Seq(Printable)]
  BY SizesAssumption DEF IInv, TypeOK, HistoryIsRecent
<1>1. NextSlot \in Slots /\ NextSlot = n % S
  BY <1>0, SlotOf DEF NextSlot
<1>2. /\ Len(log') = n + 1 /\ log'[n + 1] = cmd
      /\ \A i \in 1 .. n : log'[i] = log[i]
  BY <1>0
<1>3. /\ history'[NextSlot] = cmd
      /\ \A s \in Slots : s # NextSlot => history'[s] = history[s]
  BY <1>0, <1>1
<1>4. LinesFit'
  <2> SUFFICES ASSUME NEW i \in 1 .. Len(log') PROVE Len(log'[i]) <= MAX_CMD_LEN - 1
    BY DEF LinesFit
  <2>1. CASE i = n + 1
    BY <1>2, <2>1
  <2>2. CASE i # n + 1
    <3>1. i \in 1 .. n
      BY <1>0, <1>2, <2>2
    <3>2. log'[i] = log[i]
      BY <1>2, <3>1
    <3>3. Len(log[i]) <= MAX_CMD_LEN - 1
      BY <1>0, <3>1 DEF IInv, LinesFit
    <3> QED
      BY <3>2, <3>3
  <2> QED
    BY <2>1, <2>2
<1>5. SlotsEntered'
  <2> SUFFICES ASSUME NEW s \in Slots, s < n + 1
               PROVE  \E i \in 1 .. n + 1 : history'[s] = log'[i]
    BY <1>2 DEF SlotsEntered
  <2>1. CASE s = NextSlot
    BY <1>0, <1>2, <1>3, <2>1
  <2>2. CASE s # NextSlot
    <3>1. s < n
      <4> SUFFICES ASSUME s = n PROVE FALSE
        BY <1>0, SizesAssumption DEF Slots
      <4>1. n < S
        BY <1>0 DEF Slots
      <4>2. n % S = n
        BY <1>0, <4>1, SmallSlot, Zenon
      <4> QED
        BY <1>1, <2>2, <4>2
    <3>2. PICK i \in 1 .. n : history[s] = log[i]
      BY <1>0, <3>1 DEF IInv, SlotsEntered
    <3>3. history'[s] = log'[i] /\ i \in 1 .. n + 1
      BY <1>0, <1>2, <1>3, <2>2, <3>2
    <3> QED
      BY <3>3, Zenon
  <2> QED
    BY <2>1, <2>2, Zenon
<1>6. HistoryIsRecent'
  <2>0. Len(log') = history_count' /\ history_count' - 1 = n
    BY <1>0, <1>2
  <2> SUFFICES ASSUME NEW i \in Oldest' .. history_count' - 1
               PROVE  history'[i % S] = log'[i + 1]
    BY <2>0, Zenon DEF HistoryIsRecent
  <2>1. i \in Nat /\ i <= n /\ i >= Oldest' /\ n + 1 - i <= S
    BY <1>0, <2>0 DEF Oldest
  <2>2. CASE i = n
    BY <1>1, <1>2, <1>3, <2>2
  <2>3. CASE i # n
    <3>1. i < n /\ n - i < S
      BY <1>0, <2>1, <2>3
    <3>2. i % S # NextSlot
      BY <1>0, <1>1, <2>1, <3>1, SlotsDiffer, SMTT(20)
    <3>3. i % S \in Slots
      BY <2>1, SlotOf
    <3>4. history'[i % S] = history[i % S]
      BY <1>3, <3>2, <3>3
    <3>5. i \in Oldest .. n - 1
      BY <1>0, <2>1, <3>1 DEF Oldest
    <3>6. history[i % S] = log[i + 1]
      BY <3>5 DEF IInv, HistoryIsRecent
    <3>7. log'[i + 1] = log[i + 1]
      <4>1. i + 1 \in 1 .. n
        BY <1>0, <2>1, <3>1
      <4> QED
        BY <1>2, <4>1
    <3> QED
      BY <3>4, <3>6, <3>7
  <2> QED
    BY <2>2, <2>3, Zenon
<1> QED
  BY <1>4, <1>5, <1>6

(* The last slot written holds the last line entered. *)
LEMMA LastSlot ==
  ASSUME IInv, history_count # 0
  PROVE  history[(history_count - 1) % HISTORY_SIZE] = log[Len(log)]
<1>1. history_count - 1 \in Oldest .. history_count - 1
  BY SizesAssumption DEF IInv, TypeOK, Oldest
<1>2. Len(log) = history_count /\ (history_count - 1) + 1 = history_count
  BY DEF IInv, TypeOK, HistoryIsRecent
<1>3. history[(history_count - 1) % HISTORY_SIZE] = log[(history_count - 1) + 1]
  BY <1>1 DEF IInv, HistoryIsRecent
<1> QED
  BY <1>2, <1>3

LEMMA EnterStep ==
  ASSUME IInv, Enter
  PROVE  IInv' /\ Editor!Next
<1> DEFINE b == [cmd_buffer EXCEPT ![cmd_len] = NUL]
<1>0. /\ cmd_len \in Cells /\ cmd_len \in Nat /\ 0 \in Cells
      /\ cmd_buffer \in [Cells -> Printable \cup {NUL}]
      /\ cmd_len < MAX_CMD_LEN /\ MAX_CMD_LEN \in Nat
  BY SizesAssumption DEF IInv, TypeOK, Cells
<1>1. Text \in Seq(Printable) /\ Len(Text) = cmd_len
  BY TextType DEF IInv
<1>2. CString(b) = Text
  <2>1. b[cmd_len] = NUL
    BY <1>0
  <2>2. \A i \in 0 .. cmd_len - 1 : b[i] = cmd_buffer[i] /\ b[i] \in Printable
    BY <1>0 DEF Cells, IInv, LineHasText
  <2> HIDE DEF b
  <2>3. CString(b) = Chars(b, cmd_len)
    BY <1>0, <2>1, <2>2, CStringIsText
  <2>4. \A i \in 1 .. cmd_len : b[i - 1] = cmd_buffer[i - 1]
    BY <1>0, <2>2
  <2> QED
    BY <2>3, <2>4 DEF Text, Chars
<1>3. /\ add_to_history(Text)
      /\ cmd_buffer' = [cmd_buffer EXCEPT ![cmd_len] = NUL, ![0] = NUL]
      /\ cmd_len' = 0 /\ cmd_pos' = 0 /\ history_pos' = history_count'
  BY <1>2 DEF Enter
<1>4. LineHasText' /\ Text' = <<>>
  BY <1>3, EmptyLine
<1>5. cmd_buffer' \in [Cells -> Printable \cup {NUL}] /\ cmd_len' \in Cells
  BY <1>0, <1>3
<1>6. /\ history_count \in Nat /\ log \in Seq(Seq(Printable))
      /\ Len(log) = history_count /\ history \in [Slots -> Seq(Printable)]
  BY DEF IInv, TypeOK, HistoryIsRecent
<1> DEFINE Kept == Text = <<>> \/ (log # <<>> /\ log[Len(log)] = Text)
<1>7. (Text # <<>> /\ IsNew(Text)) <=> ~Kept
  <2>1. log = <<>> <=> history_count = 0
    BY <1>6
  <2>2. CASE history_count = 0
    BY <2>1, <2>2 DEF IsNew
  <2>3. CASE history_count # 0
    BY <2>1, <2>3, LastSlot DEF IsNew
  <2> QED
    BY <2>2, <2>3
<1>8. CASE Kept
  <2>1. UNCHANGED hist
    BY <1>3, <1>7, <1>8 DEF add_to_history
  <2>2. TypeOK'
    BY <1>3, <1>5, <1>6, <2>1 DEF IInv, TypeOK, hist
  <2>3. IInv'
    BY <1>4, <2>1, <2>2, HistoryKept DEF IInv
  <2>4. Editor!Enter
    BY <1>3, <1>4, <1>8, <2>1 DEF Editor!Enter, Text, hist
  <2> QED
    BY <2>3, <2>4 DEF Editor!Next
<1>9. CASE ~Kept
  <2>1. /\ history' = [history EXCEPT ![NextSlot] = Text]
        /\ history_count' = history_count + 1
        /\ log' = Append(log, Text)
    BY <1>3, <1>7, <1>9 DEF add_to_history
  <2>2. Len(Text) <= MAX_CMD_LEN - 1
    BY <1>0, <1>1
  <2>3. SlotsEntered' /\ LinesFit' /\ HistoryIsRecent'
    BY <1>1, <2>1, <2>2, HistoryGrows, Zenon
  <2>4. TypeOK'
    <3>1. log' \in Seq(Seq(Printable)) /\ history' \in [Slots -> Seq(Printable)]
      <4>1. Append(log, Text) \in Seq(Seq(Printable))
        BY <1>1, <1>6, AppendProperties
      <4>2. history' \in [Slots -> Seq(Printable)]
        BY <1>1, <1>6, <2>1, Zenon
      <4> QED
        BY <2>1, <4>1, <4>2
    <3>2. history_count' \in Nat /\ history_pos' \in 0 .. history_count'
      BY <1>3, <1>6, <2>1
    <3>3. cmd_pos' \in 0 .. cmd_len'
      BY <1>3
    <3> QED
      BY <1>5, <3>1, <3>2, <3>3 DEF TypeOK
  <2>5. IInv'
    BY <1>4, <2>3, <2>4 DEF IInv
  <2>6. Editor!Enter
    BY <1>3, <1>4, <1>9, <2>1 DEF Editor!Enter, Text
  <2> QED
    BY <2>5, <2>6 DEF Editor!Next
<1> QED
  BY <1>8, <1>9

-----------------------------------------------------------------------------
LEMMA InitIInv ==
  ASSUME Init
  PROVE  IInv /\ Editor!Init
<1>1. TypeOK
  BY SizesAssumption DEF Init, TypeOK, Cells, Slots
<1>2. LineHasText /\ LinesFit /\ SlotsEntered
  BY SizesAssumption DEF Init, LineHasText, LinesFit, SlotsEntered, Slots
<1>3. HistoryIsRecent
  BY SizesAssumption DEF Init, HistoryIsRecent, Oldest
<1>4. Text = <<>>
  <2>1. Text = [i \in 1 .. 0 |-> cmd_buffer[i - 1]]
    BY DEF Init, Text, Chars
  <2> QED
    BY <2>1
<1> QED
  BY <1>1, <1>2, <1>3, <1>4 DEF IInv, Init, Editor!Init, Text

LEMMA StepIInv ==
  ASSUME IInv, [Next]_vars
  PROVE  IInv' /\ [Editor!Next]_<<Text, cmd_pos, log>>
<1>1. CASE UNCHANGED vars
  <2>1. UNCHANGED <<line, hist, history_pos>>
    BY <1>1 DEF vars
  <2>2. TypeOK' /\ LineHasText'
    BY <2>1 DEF IInv, TypeOK, LineHasText, line, hist
  <2>3. IInv'
    BY <2>1, <2>2, HistoryKept DEF IInv
  <2> QED
    BY <2>1, <2>3 DEF line, hist, Text
<1>2. CASE Next
  <2>1. ASSUME NEW c \in Printable, Type(c) PROVE IInv' /\ Editor!Next
    BY <2>1, TypeStep
  <2>2. CASE Backspace
    BY <2>2, EraseStep
  <2>3. CASE Left \/ Right
    BY <2>3, MoveStep
  <2>4. CASE Up \/ Down
    BY <2>4, RecallStep
  <2>5. CASE Tab
    BY <2>5, TabStep
  <2>6. CASE Enter
    BY <2>6, EnterStep
  <2> QED
    BY <1>2, <2>1, <2>2, <2>3, <2>4, <2>5, <2>6 DEF Next
<1> QED
  BY <1>1, <1>2

LEMMA LineEditInvariant == Spec => []IInv
<1>1. Init => IInv
  BY InitIInv
<1>2. IInv /\ [Next]_vars => IInv'
  BY StepIInv
<1> QED
  BY <1>1, <1>2, PTL DEF Spec

(* add_to_history's ring of HISTORY_SIZE slots always holds the last lines *)
(* entered, each where history_pos modulo HISTORY_SIZE finds it.           *)
THEOREM HistoryKeepsRecentLines == Spec => []HistoryIsRecent
<1>1. IInv => HistoryIsRecent
  BY DEF IInv
<1> QED
  BY <1>1, LineEditInvariant, PTL

(* read_line's shifting of characters in cmd_buffer, its recalls and its   *)
(* completions are the operations of an abstract line editor.              *)
THEOREM LineEditImplementsEditor == Spec => ImplementsLineSpec
<1>1. Init => Editor!Init
  BY InitIInv
<1>2. IInv /\ [Next]_vars => [Editor!Next]_<<Text, cmd_pos, log>>
  BY StepIInv
<1> QED
  BY <1>1, <1>2, LineEditInvariant, PTL
     DEF Spec, ImplementsLineSpec, Editor!Spec, Text
=============================================================================
