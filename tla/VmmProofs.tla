------------------------------ MODULE VmmProofs ------------------------------
(***************************************************************************)
(* Address spaces, for any memory, page and table size, any number of      *)
(* processes and any images.                                               *)
(*                                                                         *)
(* The frames in use are labelled with the process they belong to and the  *)
(* level they have in its page tables (Labelled).  The operations of vmm.c *)
(* and elf.c are followed from the inside out: what one vmm_map_page does  *)
(* (Grew), what the loops over it do (MapsOk), the four nested loops of    *)
(* fork (CopyOf), and from these what a system call does to the frames of  *)
(* its caller and of everybody else (Effect).                              *)
(***************************************************************************)
EXTENDS Elf, WellFoundedInduction, TLAPS

(* The assumptions on the sizes, as the proofs use them. *)
LEMMA Sizes ==
  /\ Entries \in Nat /\ Entries > 0 /\ Entries % 2 = 0
  /\ TotalPages \in Nat /\ FirstPage \in Nat /\ BitmapBits \in Nat
  /\ FirstPage > 0 /\ FirstPage < TotalPages /\ TotalPages <= BitmapBits
BY LayoutAssumption, PagesAssumption

(* The managed pages are pages, and NoPage is none of them. *)
LEMMA PageSets ==
  /\ Managed \subseteq AllPages /\ AllPages \subseteq Nat /\ NoPage \notin Managed
  /\ NoPage = 0 /\ Managed \subseteq Nat
BY Sizes DEF Managed, AllPages, NoPage

Memories == [used : SUBSET AllPages, mem : [AllPages -> [Index -> Nat]]]

(* m2 is m with word i of frame t set to w. *)
WordSet(m2, m, t, i, w) ==
  /\ m2 \in Memories /\ m2.used = m.used
  /\ m2.mem[t][i] = w
  /\ \A j \in Index : j # i => m2.mem[t][j] = m.mem[t][j]
  /\ \A f \in AllPages : f # t => m2.mem[f] = m.mem[f]

(* m2 is m with frame t holding the words s. *)
PageSet(m2, m, t, s) ==
  /\ m2 \in Memories /\ m2.used = m.used
  /\ m2.mem[t] = s
  /\ \A f \in AllPages : f # t => m2.mem[f] = m.mem[f]

(* The parts of a memory have their types. *)
LEMMA MemFacts ==
  ASSUME NEW m \in Memories
  PROVE  /\ m.used \subseteq AllPages /\ m.mem \in [AllPages -> [Index -> Nat]]
         /\ \A f \in AllPages : m.mem[f] \in [Index -> Nat]
         /\ \A f \in AllPages, i \in Index : m.mem[f][i] \in Nat
BY Zenon DEF Memories

(* SetWord changes one word of one frame. *)
LEMMA SetWordFacts ==
  ASSUME NEW m \in Memories, NEW t \in AllPages, NEW i \in Index, NEW w \in Nat
  PROVE  WordSet(SetWord(m, t, i, w), m, t, i, w)
<1> DEFINE m2 == SetWord(m, t, i, w)
           s == [m.mem[t] EXCEPT ![i] = w]
           h == [m.mem EXCEPT ![t] = s]
<1>1. m.mem \in [AllPages -> [Index -> Nat]] /\ m.used \subseteq AllPages
  BY MemFacts, Zenon
<1>2. s \in [Index -> Nat] /\ s[i] = w /\ \A j \in Index : j # i => s[j] = m.mem[t][j]
  BY <1>1, Zenon
<1>3. m2.used = m.used /\ m2.mem = h /\ m2 = [used |-> m.used, mem |-> h]
  BY DEF SetWord, Memories
<1> HIDE DEF s, m2
<1>4. h \in [AllPages -> [Index -> Nat]] /\ h[t] = s /\ \A f \in AllPages : f # t => h[f] = m.mem[f]
  BY <1>1, <1>2, Zenon
<1> HIDE DEF h
<1>5. m2 \in Memories
  BY <1>1, <1>3, <1>4, Zenon DEF Memories
<1> QED BY <1>2, <1>3, <1>4, <1>5, Zenon DEF WordSet, m2

(* SetPage replaces the words of one frame. *)
LEMMA SetPageFacts ==
  ASSUME NEW m \in Memories, NEW t \in AllPages, NEW s \in [Index -> Nat]
  PROVE  PageSet(SetPage(m, t, s), m, t, s)
<1> DEFINE m2 == SetPage(m, t, s)
           h == [m.mem EXCEPT ![t] = s]
<1>1. m.mem \in [AllPages -> [Index -> Nat]] /\ m.used \subseteq AllPages
  BY MemFacts, Zenon
<1>2. m2.used = m.used /\ m2.mem = h
  BY Zenon DEF SetPage, Memories
<1>3. h \in [AllPages -> [Index -> Nat]] /\ h[t] = s /\ \A f \in AllPages : f # t => h[f] = m.mem[f]
  BY <1>1, Zenon
<1>4. m2 \in Memories
  <2> HIDE DEF h
  <2> QED BY <1>1, <1>3, Zenon DEF SetPage, Memories, h
<1> HIDE DEF h, m2
<1> QED BY <1>2, <1>3, <1>4, Zenon DEF PageSet, m2

(* a is what pmm_alloc_page returns on memory m. *)
Got(a, m) ==
  /\ a.page \in Managed /\ a.page \in AllPages /\ a.page # NoPage /\ a.page \notin m.used
  /\ a.m \in Memories /\ a.m.used = m.used \cup {a.page}
  /\ \A f \in AllPages : f # a.page => a.m.mem[f] = m.mem[f]
  /\ \A i \in Index : a.m.mem[a.page][i] = 0

(* pmm_alloc_page returns NoPage and changes nothing, or marks a free managed page. *)
LEMMA AllocFacts ==
  ASSUME NEW m \in Memories, InitialBitmap \subseteq m.used
  PROVE  \/ pmm_alloc_page(m).page = NoPage /\ pmm_alloc_page(m).m = m
         \/ Got(pmm_alloc_page(m), m)
<1>1. CASE FreePages(m.used) = {}
  BY <1>1, Zenon DEF pmm_alloc_page
<1>2. CASE FreePages(m.used) # {}
  <2> DEFINE p == CHOOSE q \in AllPages : bitmap_find_free(m.used, q)
             z == [i \in Index |-> 0]
             h == [m.mem EXCEPT ![p] = z]
             a == pmm_alloc_page(m)
  <2>1. \E q \in AllPages : bitmap_find_free(m.used, q)
    <3>1. FreePages(m.used) \in SUBSET Nat /\ FreePages(m.used) \subseteq AllPages
      BY PageSets, Zenon DEF FreePages
    <3>2. PICK q \in FreePages(m.used) : \A r \in FreePages(m.used) : ~ (<<r, q>> \in OpToRel(<, Nat))
      BY <1>2, <3>1, WFMin, NatLessThanWellFounded, Zenon
    <3>3. \A r \in FreePages(m.used) : ~ (r < q)
      BY <3>1, <3>2, Zenon DEF OpToRel
    <3>4. \A r \in FreePages(m.used) : q <= r
      BY <3>1, <3>3
    <3> QED BY <3>1, <3>4, Zenon DEF bitmap_find_free
  <2>2. p \in AllPages /\ bitmap_find_free(m.used, p)
    BY <2>1, Zenon
  <2>3. p \in Managed /\ p \notin m.used /\ p # NoPage
    BY <2>2, PageSets, Zenon DEF bitmap_find_free, FreePages, InitialBitmap
  <2>4. a = [m |-> [used |-> m.used \cup {p}, mem |-> h], page |-> p]
    BY <1>2, Zenon DEF pmm_alloc_page
  <2> HIDE DEF p, a
  <2>5. m.mem \in [AllPages -> [Index -> Nat]] /\ m.used \subseteq AllPages
    BY MemFacts, Zenon
  <2>6. h \in [AllPages -> [Index -> Nat]] /\ h[p] = z /\ \A f \in AllPages : f # p => h[f] = m.mem[f]
    BY <2>2, <2>5, Zenon
  <2>7. \A i \in Index : z[i] = 0
    BY Zenon
  <2> HIDE DEF h, z
  <2>8. a.page = p /\ a.m.used = m.used \cup {p} /\ a.m.mem = h /\ a.m = [used |-> m.used \cup {p}, mem |-> h]
    BY <2>4, Zenon
  <2>9. a.m \in Memories
    BY <2>2, <2>5, <2>6, <2>8, Zenon DEF Memories
  <2>10. Got(a, m)
    BY <2>2, <2>3, <2>6, <2>7, <2>8, <2>9, Zenon DEF Got
  <2> QED BY <2>10, Zenon DEF a
<1> QED BY <1>1, <1>2, Zenon

(* m2 is m without the mark of page p. *)
LEMMA FreeFacts ==
  ASSUME NEW m \in Memories, NEW p
  PROVE  /\ pmm_free_page(m, p) \in Memories
         /\ pmm_free_page(m, p).used = m.used \ {p}
         /\ pmm_free_page(m, p).mem = m.mem
BY Zenon DEF pmm_free_page, Memories

-----------------------------------------------------------------------------
(* Who owns a frame.  own and lv label frames with a process and a level:   *)
(* 4 for a PML4, 3 for a PDPT, 2 for a PD, 1 for a PT, 0 for data.  They    *)
(* label every frame a process can reach, and perhaps frames that were lost *)
(* to it.  An entry of a labelled table is empty or leads one level down,   *)
(* to the same owner; the upper half of a PML4 is empty.                    *)
Leads(own, lv, f, p, k) == f \in DOMAIN own /\ own[f] = p /\ lv[f] = k

Fits(m, own, lv, t, p, k) ==
  /\ k > 0 => \A i \in Index : m.mem[t][i] = 0 \/ Leads(own, lv, m.mem[t][i], p, k - 1)
  /\ k = 4 => \A i \in Index \ UserIndex : m.mem[t][i] = 0

Labelled(m, own, lv) ==
  /\ m \in Memories /\ InitialBitmap \subseteq m.used
  /\ DOMAIN own \subseteq m.used \cap Managed
  /\ own \in [DOMAIN own -> Procs] /\ lv \in [DOMAIN own -> 0 .. 4]
  /\ \A t \in DOMAIN own : Fits(m, own, lv, t, own[t], lv[t])

(* The second labels extend the first. *)
Extends(own, lv, own2, lv2) ==
  \A f \in DOMAIN own : f \in DOMAIN own2 /\ own2[f] = own[f] /\ lv2[f] = lv[f]

(* What labels say, taken apart. *)
LEMMA LabelledFacts ==
  ASSUME NEW m, NEW own, NEW lv, Labelled(m, own, lv)
  PROVE  /\ m \in Memories /\ InitialBitmap \subseteq m.used
         /\ DOMAIN own \subseteq m.used /\ DOMAIN own \subseteq Managed /\ DOMAIN own \subseteq AllPages
         /\ DOMAIN own \subseteq Nat /\ NoPage \notin DOMAIN own
         /\ own \in [DOMAIN own -> Procs] /\ lv \in [DOMAIN own -> 0 .. 4]
         /\ \A t \in DOMAIN own : Fits(m, own, lv, t, own[t], lv[t])
BY PageSets, Zenon DEF Labelled

(* Labels stay right when no labelled frame is written or freed. *)
LEMMA LabelsKept ==
  ASSUME NEW m, NEW own, NEW lv, Labelled(m, own, lv),
         NEW m2 \in Memories, InitialBitmap \subseteq m2.used, DOMAIN own \subseteq m2.used,
         \A f \in DOMAIN own : m2.mem[f] = m.mem[f]
  PROVE  Labelled(m2, own, lv)
BY DEF Labelled, Fits

Added(g, f, x) == [h \in DOMAIN g \cup {f} |-> IF h = f THEN x ELSE g[h]]

(* A frame that is in use, not labelled, and fits, may be labelled. *)
LEMMA LabelAdded ==
  ASSUME NEW m, NEW own, NEW lv, Labelled(m, own, lv),
         NEW f \in Managed, f \in m.used, f \notin DOMAIN own, NEW p \in Procs, NEW k \in 0 .. 4,
         Fits(m, own, lv, f, p, k)
  PROVE  /\ Labelled(m, Added(own, f, p), Added(lv, f, k))
         /\ Extends(own, lv, Added(own, f, p), Added(lv, f, k))
         /\ Leads(Added(own, f, p), Added(lv, f, k), f, p, k)
         /\ DOMAIN Added(own, f, p) = DOMAIN own \cup {f}
<1> DEFINE own2 == Added(own, f, p)
           lv2 == Added(lv, f, k)
           D == DOMAIN own \cup {f}
<1>1. /\ m \in Memories /\ InitialBitmap \subseteq m.used
      /\ DOMAIN own \subseteq m.used /\ DOMAIN own \subseteq Managed
      /\ own \in [DOMAIN own -> Procs] /\ lv \in [DOMAIN own -> 0 .. 4]
      /\ \A t \in DOMAIN own : Fits(m, own, lv, t, own[t], lv[t])
  BY LabelledFacts, Zenon
<1>2. DOMAIN lv = DOMAIN own
  BY <1>1, Zenon
<1>3. DOMAIN own2 = D /\ own2 \in [D -> Procs] /\ lv2 \in [D -> 0 .. 4]
  BY <1>1, <1>2, Zenon DEF Added
<1>4. own2[f] = p /\ lv2[f] = k /\ \A t \in DOMAIN own : own2[t] = own[t] /\ lv2[t] = lv[t]
  BY <1>2, Zenon DEF Added
<1> HIDE DEF own2, lv2
<1>5. \A g, q, j : Leads(own, lv, g, q, j) => Leads(own2, lv2, g, q, j)
  BY <1>3, <1>4, Zenon DEF Leads
<1>6. \A t, q, j : Fits(m, own, lv, t, q, j) => Fits(m, own2, lv2, t, q, j)
  BY <1>5, Zenon DEF Fits
<1>7. \A t \in D : Fits(m, own2, lv2, t, own2[t], lv2[t])
  BY <1>1, <1>4, <1>6, Zenon
<1>8. Labelled(m, own2, lv2)
  BY <1>1, <1>3, <1>7, Zenon DEF Labelled
<1>9. Extends(own, lv, own2, lv2) /\ Leads(own2, lv2, f, p, k)
  BY <1>3, <1>4, Zenon DEF Extends, Leads
<1> QED BY <1>3, <1>8, <1>9, Zenon DEF own2, lv2

(* An entry of a labelled table may be set to a frame one level down. *)
LEMMA EntrySet ==
  ASSUME NEW m, NEW own, NEW lv, Labelled(m, own, lv),
         NEW t \in DOMAIN own, NEW i \in Index, lv[t] > 0, lv[t] = 4 => i \in UserIndex,
         NEW f, Leads(own, lv, f, own[t], lv[t] - 1)
  PROVE  /\ Labelled(SetWord(m, t, i, f), own, lv)
         /\ WordSet(SetWord(m, t, i, f), m, t, i, f)
<1> DEFINE m2 == SetWord(m, t, i, f)
<1>1. /\ m \in Memories /\ InitialBitmap \subseteq m.used
      /\ DOMAIN own \subseteq m.used /\ DOMAIN own \subseteq Managed /\ DOMAIN own \subseteq AllPages
      /\ DOMAIN own \subseteq Nat
      /\ own \in [DOMAIN own -> Procs] /\ lv \in [DOMAIN own -> 0 .. 4]
      /\ \A u \in DOMAIN own : Fits(m, own, lv, u, own[u], lv[u])
  BY LabelledFacts, Zenon
<1>2. t \in AllPages /\ f \in Nat
  BY <1>1, Zenon DEF Leads
<1>3. WordSet(m2, m, t, i, f)
  BY <1>1, <1>2, SetWordFacts, Zenon
<1> HIDE DEF m2
<1>4. m2 \in Memories /\ m2.used = m.used
      /\ m2.mem[t][i] = f /\ (\A j \in Index : j # i => m2.mem[t][j] = m.mem[t][j])
      /\ \A u \in DOMAIN own : u # t => m2.mem[u] = m.mem[u]
  BY <1>1, <1>3, Zenon DEF WordSet
<1>5. ASSUME NEW u \in DOMAIN own PROVE Fits(m2, own, lv, u, own[u], lv[u])
  <2>1. Fits(m, own, lv, u, own[u], lv[u])
    BY <1>1, Zenon
  <2>2. CASE u # t
    <3>1. m2.mem[u] = m.mem[u]
      BY <1>4, <2>2, Zenon
    <3> QED BY <2>1, <3>1, Zenon DEF Fits
  <2>3. CASE u = t
    BY <1>4, <2>1, <2>3, Zenon DEF Fits
  <2> QED BY <2>2, <2>3, Zenon
<1>6. Labelled(m2, own, lv)
  BY <1>1, <1>4, <1>5, Zenon DEF Labelled
<1> QED BY <1>3, <1>6, Zenon DEF m2

(* Anything may be stored in a data frame. *)
LEMMA DataStored ==
  ASSUME NEW m, NEW own, NEW lv, Labelled(m, own, lv),
         NEW t \in DOMAIN own, NEW i \in Index, lv[t] = 0, NEW w \in Nat
  PROVE  /\ Labelled(SetWord(m, t, i, w), own, lv)
         /\ WordSet(SetWord(m, t, i, w), m, t, i, w)
<1> DEFINE m2 == SetWord(m, t, i, w)
<1>1. /\ m \in Memories /\ InitialBitmap \subseteq m.used
      /\ DOMAIN own \subseteq m.used /\ DOMAIN own \subseteq Managed /\ DOMAIN own \subseteq AllPages
      /\ own \in [DOMAIN own -> Procs] /\ lv \in [DOMAIN own -> 0 .. 4]
      /\ \A u \in DOMAIN own : Fits(m, own, lv, u, own[u], lv[u])
  BY LabelledFacts, Zenon
<1>2. WordSet(m2, m, t, i, w)
  BY <1>1, SetWordFacts, Zenon
<1> HIDE DEF m2
<1>3. m2 \in Memories /\ m2.used = m.used
      /\ \A u \in DOMAIN own : u # t => m2.mem[u] = m.mem[u]
  BY <1>1, <1>2, Zenon DEF WordSet
<1>4. ASSUME NEW u \in DOMAIN own PROVE Fits(m2, own, lv, u, own[u], lv[u])
  <2>1. Fits(m, own, lv, u, own[u], lv[u])
    BY <1>1, Zenon
  <2>2. CASE u # t
    <3>1. m2.mem[u] = m.mem[u]
      BY <1>3, <2>2, Zenon
    <3> QED BY <2>1, <3>1, Zenon DEF Fits
  <2>3. CASE u = t
    BY <2>3 DEF Fits
  <2> QED BY <2>2, <2>3, Zenon
<1>5. Labelled(m2, own, lv)
  BY <1>1, <1>3, <1>4, Zenon DEF Labelled
<1> QED BY <1>2, <1>5, Zenon DEF m2

(* Without the labels of process p. *)
Dropped(g, own, p) == [f \in {h \in DOMAIN own : own[h] # p} |-> g[f]]

(* Labels may be taken from all frames of one process. *)
LEMMA LabelsDropped ==
  ASSUME NEW m, NEW own, NEW lv, Labelled(m, own, lv), NEW p
  PROVE  /\ Labelled(m, Dropped(own, own, p), Dropped(lv, own, p))
         /\ \A f \in DOMAIN own : own[f] # p =>
              /\ f \in DOMAIN Dropped(own, own, p)
              /\ Dropped(own, own, p)[f] = own[f] /\ Dropped(lv, own, p)[f] = lv[f]
         /\ \A f \in DOMAIN Dropped(own, own, p) : f \in DOMAIN own /\ own[f] # p
<1> DEFINE own2 == Dropped(own, own, p)
           lv2 == Dropped(lv, own, p)
           D == {h \in DOMAIN own : own[h] # p}
<1>1. /\ m \in Memories /\ InitialBitmap \subseteq m.used
      /\ DOMAIN own \subseteq m.used /\ DOMAIN own \subseteq Managed
      /\ own \in [DOMAIN own -> Procs] /\ lv \in [DOMAIN own -> 0 .. 4]
      /\ \A t \in DOMAIN own : Fits(m, own, lv, t, own[t], lv[t])
  BY LabelledFacts, Zenon
<1>2. DOMAIN own2 = D /\ own2 \in [D -> Procs] /\ lv2 \in [D -> 0 .. 4]
      /\ \A f \in D : own2[f] = own[f] /\ lv2[f] = lv[f]
  BY <1>1, Zenon DEF Dropped
<1>3. \A f : f \in D <=> f \in DOMAIN own /\ own[f] # p
  BY Zenon
<1> HIDE DEF own2, lv2, D
<1>4. ASSUME NEW t \in D PROVE Fits(m, own2, lv2, t, own2[t], lv2[t])
  <2>1. Fits(m, own, lv, t, own[t], lv[t]) /\ own2[t] = own[t] /\ lv2[t] = lv[t] /\ own[t] # p
    BY <1>1, <1>2, <1>3, Zenon
  <2>2. \A g, j : Leads(own, lv, g, own[t], j) => Leads(own2, lv2, g, own[t], j)
    BY <1>2, <1>3, <2>1, Zenon DEF Leads
  <2> QED BY <2>1, <2>2, Zenon DEF Fits
<1>5. Labelled(m, own2, lv2)
  <2>1. D \subseteq m.used \cap Managed
    BY <1>1, <1>3, Zenon
  <2> QED BY <1>1, <1>2, <1>4, <2>1, Zenon DEF Labelled
<1> QED BY <1>2, <1>3, <1>5, Zenon DEF own2, lv2

-----------------------------------------------------------------------------
(* Addresses. *)

(* The product grows with each factor by the other factor. *)
LEMMA Rows ==
  ASSUME NEW a \in Nat, NEW b \in Nat, NEW w \in Nat, a < b
  PROVE  a * w + w <= b * w
<1>1. PICK d \in Nat : b = a + 1 + d
  <2>1. b - a - 1 \in Nat /\ b = a + 1 + (b - a - 1)
    OBVIOUS
  <2> QED BY <2>1, Zenon
<1>2. b * w = a * w + w + d * w
  BY <1>1
<1>3. d * w \in Nat /\ a * w \in Nat
  OBVIOUS
<1> QED BY <1>2, <1>3

(* Quotient and remainder: their bounds, and that they are the only ones.  *)
LEMMA Quotient ==
  ASSUME NEW a \in Nat, NEW w \in Nat \ {0}
  PROVE  /\ a \div w \in Nat /\ (a \div w) * w \in Nat
         /\ (a \div w) * w <= a /\ a < (a \div w) * w + w
         /\ (a % w) \in 0 .. w - 1 /\ a = (a \div w) * w + (a % w)
<1>1. a \div w \in Nat /\ (a \div w) * w <= a /\ a < (a \div w) * w + w
  OBVIOUS
<1>2. (a % w) \in 0 .. w - 1
  OBVIOUS
<1>3. a = (a \div w) * w + (a % w)
  OBVIOUS
<1>4. (a \div w) * w \in Nat
  BY <1>1
<1> QED BY <1>1, <1>2, <1>3, <1>4, Zenon

(* Quotient and remainder are unique. *)
LEMMA OnlyQuotient ==
  ASSUME NEW a \in Nat, NEW w \in Nat \ {0}, NEW q \in Nat,
         q * w <= a, a < q * w + w
  PROVE  a \div w = q /\ (a % w) = a - q * w
<1> DEFINE p == a \div w
<1>1. p \in Nat /\ p * w \in Nat /\ p * w <= a /\ a < p * w + w /\ a = p * w + (a % w)
  BY Quotient, Zenon
<1>2. (a % w) \in Int
  BY Quotient
<1> HIDE DEF p
<1>3. q * w \in Nat
  OBVIOUS
<1>4. ~ (p < q)
  <2> SUFFICES ASSUME p < q PROVE FALSE
    BY Zenon
  <2>1. p * w + w <= q * w
    BY <1>1, Rows, Zenon
  <2> QED BY <1>1, <1>3, <2>1
<1>5. ~ (q < p)
  <2> SUFFICES ASSUME q < p PROVE FALSE
    BY Zenon
  <2>1. q * w + w <= p * w
    BY <1>1, Rows, Zenon
  <2> QED BY <1>1, <1>3, <2>1
<1>6. p = q
  BY <1>1, <1>4, <1>5
<1> QED BY <1>1, <1>2, <1>3, <1>6 DEF p

(* An address below b pages has a page number below b. *)
LEMMA QuotientLess ==
  ASSUME NEW a \in Nat, NEW w \in Nat \ {0}, NEW b \in Nat, a < b * w
  PROVE  a \div w < b
<1> DEFINE q == a \div w
<1>1. q \in Nat /\ q * w \in Nat /\ q * w <= a
  BY Quotient, Zenon
<1> HIDE DEF q
<1>2. b * w \in Nat
  OBVIOUS
<1>3. ASSUME b <= q PROVE FALSE
  <2>1. CASE b = q
    BY <1>1, <1>2, <2>1
  <2>2. CASE b < q
    <3>1. b * w + w <= q * w
      BY <1>1, <2>2, Rows, Zenon
    <3> QED BY <1>1, <1>2, <3>1
  <2> QED BY <1>1, <1>3, <2>1, <2>2
<1> QED BY <1>1, <1>3 DEF q

Half == Entries \div 2

(* The kernel begins in the middle of the addresses. *)
LEMMA Halves ==
  /\ Half \in Nat /\ Entries = Half * 2 /\ Half <= Entries
  /\ KernelBase = Half * Entries * Entries * Entries * Entries
  /\ KernelBase \in Nat /\ AddressMod = 2 * KernelBase /\ AddressMod \in Nat
<1>1. Half \in Nat /\ Entries = Half * 2 /\ Half <= Entries /\ Entries \in Nat
  <2>1. Entries \in Nat /\ Entries % 2 = 0
    BY Sizes, Zenon
  <2> QED BY <2>1 DEF Half
<1> DEFINE s == Half * Entries * Entries * Entries * Entries
<1>2. s \in Nat
  <2>1. Half * Entries \in Nat
    BY <1>1
  <2>2. Half * Entries * Entries \in Nat
    BY <1>1, <2>1
  <2>3. Half * Entries * Entries * Entries \in Nat
    BY <1>1, <2>2
  <2> QED BY <1>1, <2>3
<1>3. AddressMod = 2 * s
  <2>1. Entries * Entries * Entries * Entries * Entries
          = (Half * 2) * Entries * Entries * Entries * Entries
    BY <1>1, Zenon
  <2>2. (Half * 2) * Entries * Entries * Entries * Entries = 2 * s
    BY <1>1
  <2> QED BY <2>1, <2>2, Zenon DEF AddressMod
<1> HIDE DEF s
<1>4. (2 * s) \div 2 = s
  BY <1>2
<1>5. KernelBase = s
  BY <1>3, <1>4, Zenon DEF KernelBase
<1> QED BY <1>1, <1>2, <1>3, <1>5 DEF s

(* The indices of an address are indices, and that of a user address in the PML4 is a lower one. *)
LEMMA Indices ==
  ASSUME NEW addr \in Nat
  PROVE  /\ PML4_INDEX(addr) \in Index /\ PDPT_INDEX(addr) \in Index
         /\ PD_INDEX(addr) \in Index /\ PT_INDEX(addr) \in Index
         /\ PageOf(addr) \in Nat /\ OffsetIn(addr) \in Index
         /\ addr = PageOf(addr) * Entries + OffsetIn(addr)
         /\ addr < KernelBase => PML4_INDEX(addr) \in UserIndex
<1> DEFINE a1 == PageOf(addr)
           a2 == a1 \div Entries
           a3 == a2 \div Entries
           a4 == a3 \div Entries
<1>0. Entries \in Nat \ {0} /\ Index = 0 .. Entries - 1 /\ UserIndex = 0 .. Half - 1
  BY Sizes DEF Index, UserIndex, Half
<1>1. a1 \in Nat /\ OffsetIn(addr) \in Index /\ addr = a1 * Entries + OffsetIn(addr)
  BY <1>0, Quotient, Zenon DEF PageOf, OffsetIn
<1>2. a2 \in Nat /\ PT_INDEX(addr) \in Index
  BY <1>0, <1>1, Quotient, Zenon DEF PT_INDEX
<1>3. a3 \in Nat /\ PD_INDEX(addr) \in Index
  BY <1>0, <1>2, Quotient, Zenon DEF PD_INDEX
<1>4. a4 \in Nat /\ PDPT_INDEX(addr) \in Index
  BY <1>0, <1>3, Quotient, Zenon DEF PDPT_INDEX
<1>5. PML4_INDEX(addr) \in Index /\ PML4_INDEX(addr) = a4 % Entries
  BY <1>0, <1>4, Quotient, Zenon DEF PML4_INDEX
<1>6. ASSUME addr < KernelBase PROVE PML4_INDEX(addr) \in UserIndex
  <2> DEFINE b1 == Half * Entries
             b2 == b1 * Entries
             b3 == b2 * Entries
  <2>1. Half \in Nat /\ b1 \in Nat
    BY <1>0, Halves
  <2>2. b2 \in Nat
    BY <1>0, <2>1
  <2>3. b3 \in Nat
    BY <1>0, <2>2
  <2>4. addr < b3 * Entries
    BY <1>6, Halves, Zenon
  <2>5. a1 < b3
    BY <1>0, <2>3, <2>4, QuotientLess, Zenon DEF PageOf
  <2> HIDE DEF a1
  <2>6. a2 < b2
    BY <1>0, <1>1, <2>2, <2>5, QuotientLess, Zenon
  <2> HIDE DEF a2
  <2>7. a3 < b1
    BY <1>0, <1>2, <2>1, <2>6, QuotientLess, Zenon
  <2> HIDE DEF a3
  <2>8. a4 < Half
    BY <1>0, <1>3, <2>1, <2>7, QuotientLess, Zenon
  <2> HIDE DEF a4, b1
  <2>9. a4 < Entries
    BY <1>0, <1>4, <2>1, <2>8, Halves
  <2>10. a4 % Entries = a4
    BY <1>0, <1>4, <2>9
  <2> QED BY <1>0, <1>4, <1>5, <2>1, <2>8, <2>10
<1> QED BY <1>1, <1>2, <1>3, <1>4, <1>5, <1>6, Zenon

-----------------------------------------------------------------------------
(* Mapping pages into the space of p.  From m, with labels own and lv, to   *)
(* m2: frames of the others are as they were, entries of p's tables that    *)
(* lead somewhere still do, and to the same table.                          *)
Grew(m, own, lv, m2, own2, lv2, p) ==
  /\ Labelled(m2, own2, lv2)
  /\ Extends(own, lv, own2, lv2)
  /\ \A f \in DOMAIN own : own[f] # p => m2.mem[f] = m.mem[f]
  /\ \A f \in DOMAIN own : own[f] = p /\ lv[f] > 0 =>
       \A i \in Index : m.mem[f][i] # 0 => m2.mem[f][i] # 0
                                           /\ (lv[f] > 1 => m2.mem[f][i] = m.mem[f][i])

(* Nothing done is a growth. *)
LEMMA GrewNot ==
  ASSUME NEW m, NEW own, NEW lv, Labelled(m, own, lv), NEW p
  PROVE  Grew(m, own, lv, m, own, lv, p)
BY Zenon DEF Grew, Extends

(* Two growths are one. *)
LEMMA GrewTwice ==
  ASSUME NEW m, NEW own, NEW lv, NEW m2, NEW own2, NEW lv2, NEW m3, NEW own3, NEW lv3, NEW p,
         Grew(m, own, lv, m2, own2, lv2, p), Grew(m2, own2, lv2, m3, own3, lv3, p)
  PROVE  Grew(m, own, lv, m3, own3, lv3, p)
<1>1. Extends(own, lv, own3, lv3)
  BY Zenon DEF Grew, Extends
<1>2. \A f \in DOMAIN own : own[f] # p => m3.mem[f] = m.mem[f]
  BY Zenon DEF Grew, Extends
<1>3. ASSUME NEW f \in DOMAIN own, own[f] = p, lv[f] > 0, NEW i \in Index, m.mem[f][i] # 0
      PROVE  m3.mem[f][i] # 0 /\ (lv[f] > 1 => m3.mem[f][i] = m.mem[f][i])
  <2>1. f \in DOMAIN own2 /\ own2[f] = p /\ lv2[f] = lv[f]
    BY <1>3, Zenon DEF Grew, Extends
  <2>2. m2.mem[f][i] # 0 /\ (lv[f] > 1 => m2.mem[f][i] = m.mem[f][i])
    BY <1>3, Zenon DEF Grew
  <2>3. m3.mem[f][i] # 0 /\ (lv[f] > 1 => m3.mem[f][i] = m2.mem[f][i])
    BY <1>3, <2>1, <2>2, Zenon DEF Grew
  <2> QED BY <2>2, <2>3, Zenon
<1>4. Labelled(m3, own3, lv3)
  BY Zenon DEF Grew
<1> QED BY <1>1, <1>2, <1>3, <1>4, Zenon DEF Grew

(* A label stays when labels are extended. *)
LEMMA LeadsKept ==
  ASSUME NEW own, NEW lv, NEW own2, NEW lv2, Extends(own, lv, own2, lv2),
         NEW f, NEW p, NEW k, Leads(own, lv, f, p, k)
  PROVE  Leads(own2, lv2, f, p, k)
BY Zenon DEF Extends, Leads

(* An entry of a labelled table. *)
LEMMA EntryFacts ==
  ASSUME NEW m, NEW own, NEW lv, Labelled(m, own, lv), NEW t, NEW p, NEW k, Leads(own, lv, t, p, k), k > 0,
         NEW i \in Index
  PROVE  /\ EntryOf(m, t, i) = m.mem[t][i]
         /\ m.mem[t][i] = 0 \/ Leads(own, lv, m.mem[t][i], p, k - 1)
         /\ Present(m.mem[t][i]) <=> m.mem[t][i] # 0
<1>1. /\ DOMAIN own \subseteq Managed /\ NoPage \notin DOMAIN own
      /\ \A u \in DOMAIN own : Fits(m, own, lv, u, own[u], lv[u])
  BY LabelledFacts, Zenon
<1>2. t \in DOMAIN own /\ own[t] = p /\ lv[t] = k /\ t # NoPage
  BY <1>1, Zenon DEF Leads
<1>3. m.mem[t][i] = 0 \/ Leads(own, lv, m.mem[t][i], p, k - 1)
  BY <1>1, <1>2, Zenon DEF Fits
<1>4. Present(m.mem[t][i]) <=> m.mem[t][i] # 0
  BY <1>1, <1>3, PageSets, Zenon DEF Present, Leads
<1> QED BY <1>2, <1>3, <1>4, PageSets, Zenon DEF EntryOf

(* No table, no entry. *)
LEMMA NoEntry ==
  ASSUME NEW m, NEW i
  PROVE  EntryOf(m, NoPage, i) = NoPage
BY Zenon DEF EntryOf

(* What vmm_get_or_create_table returns for entry i of table t of p. *)
TableGot(r, m, own, lv, t, i, p, k) ==
  \E own2, lv2 :
    /\ Grew(m, own, lv, r.m, own2, lv2, p)
    /\ m.used \subseteq r.m.used
    /\ \A f \in m.used : f \notin DOMAIN own => f \notin DOMAIN own2
    /\ r.page # NoPage => Leads(own2, lv2, r.page, p, k - 1) /\ r.m.mem[t][i] = r.page

(* vmm_get_or_create_table: the entry is there, or a zeroed table is linked, or memory is out. *)
LEMMA GetOrCreate ==
  ASSUME NEW m, NEW own, NEW lv, Labelled(m, own, lv), NEW p \in Procs, NEW t, NEW k \in 2 .. 4,
         Leads(own, lv, t, p, k), NEW i \in Index, k = 4 => i \in UserIndex
  PROVE  TableGot(vmm_get_or_create_table(m, t, i), m, own, lv, t, i, p, k)
<1> DEFINE r == vmm_get_or_create_table(m, t, i)
           a == pmm_alloc_page(m)
<1>0. /\ m \in Memories /\ InitialBitmap \subseteq m.used
      /\ DOMAIN own \subseteq m.used /\ DOMAIN own \subseteq Managed /\ DOMAIN own \subseteq AllPages
      /\ DOMAIN own \subseteq Nat /\ NoPage \notin DOMAIN own
  BY LabelledFacts, Zenon
<1>1. t \in DOMAIN own /\ own[t] = p /\ lv[t] = k /\ k > 0 /\ k - 1 \in 0 .. 4
  BY DEF Leads
<1>2. /\ m.mem[t][i] = 0 \/ Leads(own, lv, m.mem[t][i], p, k - 1)
      /\ Present(m.mem[t][i]) <=> m.mem[t][i] # 0
  BY <1>1, EntryFacts
<1>3. CASE Present(m.mem[t][i])
  <2>1. r.m = m /\ r.page = m.mem[t][i]
    BY <1>3, Zenon DEF vmm_get_or_create_table
  <2>2. Grew(m, own, lv, m, own, lv, p)
    BY GrewNot, Zenon
  <2>3. Leads(own, lv, m.mem[t][i], p, k - 1)
    BY <1>2, <1>3, Zenon
  <2> HIDE DEF r
  <2>4. TableGot(r, m, own, lv, t, i, p, k)
    BY <2>1, <2>2, <2>3, Zenon DEF TableGot
  <2> QED BY <2>4, Zenon DEF r
<1>4. CASE ~ Present(m.mem[t][i]) /\ a.page = NoPage /\ a.m = m
  <2>1. r.m = m /\ r.page = NoPage
    BY <1>4, Zenon DEF vmm_get_or_create_table, Linked
  <2>2. Grew(m, own, lv, m, own, lv, p)
    BY GrewNot, Zenon
  <2> HIDE DEF r
  <2>4. TableGot(r, m, own, lv, t, i, p, k)
    BY <2>1, <2>2, Zenon DEF TableGot
  <2> QED BY <2>4, Zenon DEF r
<1>5. CASE ~ Present(m.mem[t][i]) /\ Got(a, m)
  <2>1. r = [m |-> SetWord(a.m, t, i, a.page), page |-> a.page]
    BY <1>5, Zenon DEF vmm_get_or_create_table, Linked, Got
  <2>2. /\ a.page \in Managed /\ a.page \in AllPages /\ a.page # NoPage /\ a.page \notin m.used
        /\ a.m \in Memories /\ a.m.used = m.used \cup {a.page}
        /\ \A f \in AllPages : f # a.page => a.m.mem[f] = m.mem[f]
        /\ \A j \in Index : a.m.mem[a.page][j] = 0
    BY <1>5, Zenon DEF Got
  <2> HIDE DEF a, r
  <2>3. \A f \in DOMAIN own : f # a.page /\ a.m.mem[f] = m.mem[f]
    BY <1>0, <2>2, Zenon
  <2>4. Labelled(a.m, own, lv)
    BY <1>0, <2>2, <2>3, LabelsKept
  <2>5. Fits(a.m, own, lv, a.page, p, k - 1)
    BY <2>2, Zenon DEF Fits
  <2> DEFINE own2 == Added(own, a.page, p)
             lv2 == Added(lv, a.page, k - 1)
  <2>6. /\ Labelled(a.m, own2, lv2) /\ Extends(own, lv, own2, lv2)
        /\ Leads(own2, lv2, a.page, p, k - 1) /\ DOMAIN own2 = DOMAIN own \cup {a.page}
    <3>1. a.page \in a.m.used /\ a.page \notin DOMAIN own
      BY <1>0, <2>2, Zenon
    <3>2. PICK f, j, n : f = a.page /\ j = k - 1 /\ n = a.m
      BY Zenon
    <3>3. f \in Managed /\ f \in n.used /\ f \notin DOMAIN own /\ j \in 0 .. 4
          /\ Labelled(n, own, lv) /\ Fits(n, own, lv, f, p, j)
      BY <1>1, <2>2, <2>4, <2>5, <3>1, <3>2, Zenon
    <3>4. /\ Labelled(n, Added(own, f, p), Added(lv, f, j))
          /\ Extends(own, lv, Added(own, f, p), Added(lv, f, j))
          /\ Leads(Added(own, f, p), Added(lv, f, j), f, p, j)
          /\ DOMAIN Added(own, f, p) = DOMAIN own \cup {f}
      BY <3>3, LabelAdded
    <3> QED BY <3>2, <3>4, Zenon
  <2> HIDE DEF own2, lv2
  <2>7. t \in DOMAIN own2 /\ own2[t] = p /\ lv2[t] = k
    BY <1>1, <2>6, Zenon DEF Extends
  <2>8. Labelled(r.m, own2, lv2) /\ WordSet(r.m, a.m, t, i, a.page) /\ r.page = a.page
    BY <1>1, <2>1, <2>6, <2>7, EntrySet, Zenon
  <2>9. /\ r.m.used = a.m.used /\ r.m.mem[t][i] = a.page
        /\ \A j \in Index : j # i => r.m.mem[t][j] = a.m.mem[t][j]
        /\ \A f \in AllPages : f # t => r.m.mem[f] = a.m.mem[f]
    BY <2>8, Zenon DEF WordSet
  <2>10. \A f \in DOMAIN own : f # t => r.m.mem[f] = m.mem[f]
    BY <1>0, <2>3, <2>9, Zenon
  <2>11. \A j \in Index : m.mem[t][j] # 0 => r.m.mem[t][j] = m.mem[t][j]
    BY <1>1, <1>2, <1>5, <2>3, <2>9, Zenon
  <2>12. Grew(m, own, lv, r.m, own2, lv2, p)
    BY <1>1, <2>6, <2>8, <2>10, <2>11, Zenon DEF Grew
  <2>13. m.used \subseteq r.m.used /\ \A f \in m.used : f \notin DOMAIN own => f \notin DOMAIN own2
    BY <2>2, <2>6, <2>9, Zenon
  <2>14. TableGot(r, m, own, lv, t, i, p, k)
    BY <2>6, <2>8, <2>9, <2>12, <2>13, Zenon DEF TableGot
  <2> QED BY <2>14, Zenon DEF r
<1> QED BY <1>0, <1>3, <1>4, <1>5, AllocFacts, Zenon

(* The same, level by level. *)
LEMMA Entry4 ==
  ASSUME NEW m, NEW own, NEW lv, Labelled(m, own, lv), NEW t, NEW p, Leads(own, lv, t, p, 4),
         NEW i \in Index
  PROVE  /\ EntryOf(m, t, i) = m.mem[t][i]
         /\ m.mem[t][i] = 0 \/ Leads(own, lv, m.mem[t][i], p, 3)
<1>1. PICK k : k = 4
  BY Zenon
<1>2. Leads(own, lv, t, p, k) /\ k > 0 /\ k - 1 = 3
  BY <1>1
<1>3. EntryOf(m, t, i) = m.mem[t][i] /\ (m.mem[t][i] = 0 \/ Leads(own, lv, m.mem[t][i], p, k - 1))
  BY <1>2, EntryFacts
<1> QED BY <1>2, <1>3, Zenon

(* An entry of a PDPT leads to a PD of the same process. *)
LEMMA Entry3 ==
  ASSUME NEW m, NEW own, NEW lv, Labelled(m, own, lv), NEW t, NEW p, Leads(own, lv, t, p, 3),
         NEW i \in Index
  PROVE  /\ EntryOf(m, t, i) = m.mem[t][i]
         /\ m.mem[t][i] = 0 \/ Leads(own, lv, m.mem[t][i], p, 2)
<1>1. PICK k : k = 3
  BY Zenon
<1>2. Leads(own, lv, t, p, k) /\ k > 0 /\ k - 1 = 2
  BY <1>1
<1>3. EntryOf(m, t, i) = m.mem[t][i] /\ (m.mem[t][i] = 0 \/ Leads(own, lv, m.mem[t][i], p, k - 1))
  BY <1>2, EntryFacts
<1> QED BY <1>2, <1>3, Zenon

(* An entry of a PD leads to a PT of the same process. *)
LEMMA Entry2 ==
  ASSUME NEW m, NEW own, NEW lv, Labelled(m, own, lv), NEW t, NEW p, Leads(own, lv, t, p, 2),
         NEW i \in Index
  PROVE  /\ EntryOf(m, t, i) = m.mem[t][i]
         /\ m.mem[t][i] = 0 \/ Leads(own, lv, m.mem[t][i], p, 1)
<1>1. PICK k : k = 2
  BY Zenon
<1>2. Leads(own, lv, t, p, k) /\ k > 0 /\ k - 1 = 1
  BY <1>1
<1>3. EntryOf(m, t, i) = m.mem[t][i] /\ (m.mem[t][i] = 0 \/ Leads(own, lv, m.mem[t][i], p, k - 1))
  BY <1>2, EntryFacts
<1> QED BY <1>2, <1>3, Zenon

(* An entry of a PT leads to a data page of the same process. *)
LEMMA Entry1 ==
  ASSUME NEW m, NEW own, NEW lv, Labelled(m, own, lv), NEW t, NEW p, Leads(own, lv, t, p, 1),
         NEW i \in Index
  PROVE  /\ EntryOf(m, t, i) = m.mem[t][i]
         /\ m.mem[t][i] = 0 \/ Leads(own, lv, m.mem[t][i], p, 0)
<1>1. PICK k : k = 1
  BY Zenon
<1>2. Leads(own, lv, t, p, k) /\ k > 0 /\ k - 1 = 0
  BY <1>1
<1>3. EntryOf(m, t, i) = m.mem[t][i] /\ (m.mem[t][i] = 0 \/ Leads(own, lv, m.mem[t][i], p, k - 1))
  BY <1>2, EntryFacts
<1> QED BY <1>2, <1>3, Zenon

(* The walk of vmm_get_physical along the tables of p. *)
Path(m, addr, t4, t3, t2, t1) ==
  /\ t3 = m.mem[t4][PML4_INDEX(addr)] /\ t3 # 0
  /\ t2 = m.mem[t3][PDPT_INDEX(addr)] /\ t2 # 0
  /\ t1 = m.mem[t2][PD_INDEX(addr)] /\ t1 # 0

Chain(own, lv, p, t3, t2, t1) ==
  Leads(own, lv, t3, p, 3) /\ Leads(own, lv, t2, p, 2) /\ Leads(own, lv, t1, p, 1)

(* The tables on the path to an address belong to the process, level by level. *)
LEMMA WalkFacts ==
  ASSUME NEW m, NEW own, NEW lv, Labelled(m, own, lv), NEW p, NEW addr \in Nat,
         NEW t4, Leads(own, lv, t4, p, 4), NEW t3, NEW t2, NEW t1, Path(m, addr, t4, t3, t2, t1)
  PROVE  /\ Chain(own, lv, p, t3, t2, t1)
         /\ FrameOf(m, t4, addr) = m.mem[t1][PT_INDEX(addr)]
<1>0. /\ PML4_INDEX(addr) \in Index /\ PDPT_INDEX(addr) \in Index
      /\ PD_INDEX(addr) \in Index /\ PT_INDEX(addr) \in Index
  BY Indices, Zenon
<1>1. EntryOf(m, t4, PML4_INDEX(addr)) = t3 /\ Leads(own, lv, t3, p, 3)
  <2>1. t3 = m.mem[t4][PML4_INDEX(addr)] /\ t3 # 0
    BY Zenon DEF Path
  <2> QED BY <1>0, <2>1, Entry4
<1>2. EntryOf(m, t3, PDPT_INDEX(addr)) = t2 /\ Leads(own, lv, t2, p, 2)
  <2>1. t2 = m.mem[t3][PDPT_INDEX(addr)] /\ t2 # 0
    BY Zenon DEF Path
  <2> QED BY <1>0, <1>1, <2>1, Entry3
<1>3. EntryOf(m, t2, PD_INDEX(addr)) = t1 /\ Leads(own, lv, t1, p, 1)
  <2>1. t1 = m.mem[t2][PD_INDEX(addr)] /\ t1 # 0
    BY Zenon DEF Path
  <2> QED BY <1>0, <1>2, <2>1, Entry2
<1>4. EntryOf(m, t1, PT_INDEX(addr)) = m.mem[t1][PT_INDEX(addr)]
  BY <1>0, <1>3, Entry1
<1> QED BY <1>1, <1>2, <1>3, <1>4, Zenon DEF FrameOf, Chain

(* A walk that finds a frame went through three tables. *)
LEMMA WalkFound ==
  ASSUME NEW m, NEW own, NEW lv, Labelled(m, own, lv), NEW p, NEW addr \in Nat,
         NEW t4, Leads(own, lv, t4, p, 4), FrameOf(m, t4, addr) # NoPage
  PROVE  \E t3, t2, t1 :
           /\ Path(m, addr, t4, t3, t2, t1) /\ Chain(own, lv, p, t3, t2, t1)
           /\ FrameOf(m, t4, addr) = m.mem[t1][PT_INDEX(addr)]
           /\ Leads(own, lv, FrameOf(m, t4, addr), p, 0)
<1> DEFINE t3 == m.mem[t4][PML4_INDEX(addr)]
           t2 == m.mem[t3][PDPT_INDEX(addr)]
           t1 == m.mem[t2][PD_INDEX(addr)]
<1>0. /\ PML4_INDEX(addr) \in Index /\ PDPT_INDEX(addr) \in Index
      /\ PD_INDEX(addr) \in Index /\ PT_INDEX(addr) \in Index /\ NoPage = 0
  BY Indices, PageSets, Zenon
<1>1. EntryOf(m, t4, PML4_INDEX(addr)) = t3 /\ (t3 = 0 \/ Leads(own, lv, t3, p, 3))
  BY <1>0, Entry4, Zenon
<1>2. t3 # 0
  BY <1>0, <1>1, NoEntry, Zenon DEF FrameOf
<1> HIDE DEF t3
<1>3. EntryOf(m, t3, PDPT_INDEX(addr)) = t2 /\ (t2 = 0 \/ Leads(own, lv, t2, p, 2))
  BY <1>0, <1>1, <1>2, Entry3
<1>4. t2 # 0
  BY <1>0, <1>1, <1>3, NoEntry, Zenon DEF FrameOf
<1> HIDE DEF t2
<1>5. EntryOf(m, t2, PD_INDEX(addr)) = t1 /\ (t1 = 0 \/ Leads(own, lv, t1, p, 1))
  BY <1>0, <1>3, <1>4, Entry2
<1>6. t1 # 0
  BY <1>0, <1>1, <1>3, <1>5, NoEntry, Zenon DEF FrameOf
<1> HIDE DEF t1
<1>7. FrameOf(m, t4, addr) = m.mem[t1][PT_INDEX(addr)]
      /\ (FrameOf(m, t4, addr) = 0 \/ Leads(own, lv, FrameOf(m, t4, addr), p, 0))
  <2>1. FrameOf(m, t4, addr) = EntryOf(m, t1, PT_INDEX(addr))
    BY <1>1, <1>3, <1>5, Zenon DEF FrameOf
  <2> QED BY <1>0, <1>5, <1>6, <2>1, Entry1
<1> QED BY <1>0, <1>1, <1>2, <1>3, <1>4, <1>5, <1>6, <1>7, Zenon DEF t3, t2, t1, Path, Chain

(* What is mapped stays mapped. *)
LEMMA MappedKept ==
  ASSUME NEW m, NEW own, NEW lv, Labelled(m, own, lv), NEW p, NEW addr \in Nat,
         NEW t4, Leads(own, lv, t4, p, 4), FrameOf(m, t4, addr) # NoPage,
         NEW m2, NEW own2, NEW lv2, Grew(m, own, lv, m2, own2, lv2, p)
  PROVE  FrameOf(m2, t4, addr) # NoPage
<1>0. /\ PML4_INDEX(addr) \in Index /\ PDPT_INDEX(addr) \in Index
      /\ PD_INDEX(addr) \in Index /\ PT_INDEX(addr) \in Index /\ NoPage = 0
  BY Indices, PageSets, Zenon
<1>1. PICK t3, t2, t1 :
           /\ Path(m, addr, t4, t3, t2, t1) /\ Chain(own, lv, p, t3, t2, t1)
           /\ FrameOf(m, t4, addr) = m.mem[t1][PT_INDEX(addr)]
  BY WalkFound
<1>9. /\ t3 = m.mem[t4][PML4_INDEX(addr)] /\ t3 # 0
      /\ t2 = m.mem[t3][PDPT_INDEX(addr)] /\ t2 # 0
      /\ t1 = m.mem[t2][PD_INDEX(addr)] /\ t1 # 0
  BY <1>1, Zenon DEF Path
<1>2. /\ \A i \in Index : m.mem[t4][i] # 0 => m2.mem[t4][i] = m.mem[t4][i]
      /\ \A i \in Index : m.mem[t3][i] # 0 => m2.mem[t3][i] = m.mem[t3][i]
      /\ \A i \in Index : m.mem[t2][i] # 0 => m2.mem[t2][i] = m.mem[t2][i]
      /\ \A i \in Index : m.mem[t1][i] # 0 => m2.mem[t1][i] # 0
  <2>1. \A f \in DOMAIN own : own[f] = p /\ lv[f] > 0 =>
       \A i \in Index : m.mem[f][i] # 0 => m2.mem[f][i] # 0
                                           /\ (lv[f] > 1 => m2.mem[f][i] = m.mem[f][i])
    BY Zenon DEF Grew
  <2>2. /\ t4 \in DOMAIN own /\ own[t4] = p /\ lv[t4] = 4 /\ t3 \in DOMAIN own /\ own[t3] = p /\ lv[t3] = 3
        /\ t2 \in DOMAIN own /\ own[t2] = p /\ lv[t2] = 2 /\ t1 \in DOMAIN own /\ own[t1] = p /\ lv[t1] = 1
    BY <1>1, Zenon DEF Leads, Chain
  <2> QED BY <2>1, <2>2
<1>3. t3 = m2.mem[t4][PML4_INDEX(addr)]
  BY <1>0, <1>9, <1>2, Zenon
<1>4. t2 = m2.mem[t3][PDPT_INDEX(addr)]
  BY <1>0, <1>9, <1>2, Zenon
<1>5. t1 = m2.mem[t2][PD_INDEX(addr)]
  BY <1>0, <1>9, <1>2, Zenon
<1>6. m2.mem[t1][PT_INDEX(addr)] # 0
  BY <1>0, <1>1, <1>2, Zenon
<1>7. Labelled(m2, own2, lv2) /\ Leads(own2, lv2, t4, p, 4)
  BY LeadsKept DEF Grew
<1>10. Path(m2, addr, t4, t3, t2, t1)
  BY <1>3, <1>4, <1>5, <1>9, Zenon DEF Path
<1>8. FrameOf(m2, t4, addr) = m2.mem[t1][PT_INDEX(addr)]
  BY <1>7, <1>10, WalkFacts
<1> QED BY <1>0, <1>6, <1>8, Zenon

(* SetEntry: frame f, not labelled so far, becomes a data frame of p. *)
LEMMA EntryMapped ==
  ASSUME NEW m, NEW own, NEW lv, Labelled(m, own, lv), NEW p \in Procs, NEW t, Leads(own, lv, t, p, 1),
         NEW i \in Index, NEW f \in Managed, f \in m.used, f \notin DOMAIN own
  PROVE  /\ \E own2, lv2 : Grew(m, own, lv, SetWord(m, t, i, f), own2, lv2, p)
         /\ SetWord(m, t, i, f).mem[t][i] = f
<1> DEFINE own2 == Added(own, f, p)
           lv2 == Added(lv, f, 0)
           m2 == SetWord(m, t, i, f)
<1>0. DOMAIN own \subseteq AllPages
  BY LabelledFacts, Zenon
<1>1. t \in DOMAIN own /\ own[t] = p /\ lv[t] = 1
  BY Zenon DEF Leads
<1>2. Fits(m, own, lv, f, p, 0)
  BY DEF Fits
<1>3. /\ Labelled(m, own2, lv2) /\ Extends(own, lv, own2, lv2) /\ Leads(own2, lv2, f, p, 0)
  <2>1. PICK k : k = 0
    BY Zenon
  <2>2. k \in 0 .. 4 /\ Fits(m, own, lv, f, p, k)
    BY <1>2, <2>1
  <2>3. /\ Labelled(m, Added(own, f, p), Added(lv, f, k))
        /\ Extends(own, lv, Added(own, f, p), Added(lv, f, k))
        /\ Leads(Added(own, f, p), Added(lv, f, k), f, p, k)
    BY <2>2, LabelAdded, Zenon
  <2> QED BY <2>1, <2>3, Zenon
<1> HIDE DEF own2, lv2, m2
<1>4. t \in DOMAIN own2 /\ own2[t] = p /\ lv2[t] = 1
  BY <1>1, <1>3, Zenon DEF Extends
<1>5. Labelled(m2, own2, lv2) /\ WordSet(m2, m, t, i, f)
  <2>1. lv2[t] > 0 /\ lv2[t] # 4 /\ lv2[t] - 1 = 0
    BY <1>4
  <2> QED BY <1>3, <1>4, <2>1, EntrySet, Zenon DEF m2
<1>6. /\ m2.mem[t][i] = f /\ (\A j \in Index : j # i => m2.mem[t][j] = m.mem[t][j])
      /\ \A g \in DOMAIN own : g # t => m2.mem[g] = m.mem[g]
  BY <1>0, <1>5, Zenon DEF WordSet
<1>7. f # 0
  BY PageSets, Zenon
<1>8. Grew(m, own, lv, m2, own2, lv2, p)
  BY <1>1, <1>3, <1>5, <1>6, <1>7 DEF Grew
<1> QED BY <1>6, <1>8, Zenon DEF m2

(* What vmm_map_page of the new frame f at addr returns. *)
PageMapped(r, m, own, lv, p, t4, addr, f) ==
  \E own2, lv2 :
    /\ Grew(m, own, lv, r.m, own2, lv2, p)
    /\ r.ok => FrameOf(r.m, t4, addr) # NoPage
    /\ ~ r.ok => f \notin DOMAIN own2 /\ m.used \subseteq r.m.used

(* vmm_map_page is a growth: it maps the frame, or fails and leaves what was mapped. *)
LEMMA MapPage ==
  ASSUME NEW m, NEW own, NEW lv, Labelled(m, own, lv), NEW p \in Procs, NEW addr \in Nat,
         addr < KernelBase, NEW t4, Leads(own, lv, t4, p, 4),
         NEW f \in Managed, f \in m.used, f \notin DOMAIN own
  PROVE  PageMapped(vmm_map_page(m, t4, addr, f), m, own, lv, p, t4, addr, f)
<1> DEFINE r == vmm_map_page(m, t4, addr, f)
           a == vmm_get_or_create_table(m, t4, PML4_INDEX(addr))
           b == vmm_get_or_create_table(a.m, a.page, PDPT_INDEX(addr))
           c == vmm_get_or_create_table(b.m, b.page, PD_INDEX(addr))
<1>0. /\ PML4_INDEX(addr) \in Index /\ PDPT_INDEX(addr) \in Index
      /\ PD_INDEX(addr) \in Index /\ PT_INDEX(addr) \in Index
      /\ PML4_INDEX(addr) \in UserIndex
  BY Indices, Zenon
<1>f. f # 0 /\ NoPage = 0
  BY PageSets, Zenon
<1>fail. ASSUME NEW n, NEW own2, NEW lv2, Grew(m, own, lv, n, own2, lv2, p), f \notin DOMAIN own2,
                m.used \subseteq n.used, r = [m |-> n, ok |-> FALSE]
         PROVE  PageMapped(r, m, own, lv, p, t4, addr, f)
  <2> HIDE DEF r
  <2>1. r.m = n /\ r.ok = FALSE
    BY <1>fail, Zenon
  <2> QED BY <1>fail, <2>1, Zenon DEF PageMapped
<1>1. TableGot(a, m, own, lv, t4, PML4_INDEX(addr), p, 4)
  <2>1. PICK k : k = 4
    BY Zenon
  <2>2. k \in 2 .. 4 /\ Leads(own, lv, t4, p, k)
    BY <2>1
  <2>3. TableGot(a, m, own, lv, t4, PML4_INDEX(addr), p, k)
    BY <1>0, <2>2, GetOrCreate, Zenon
  <2> QED BY <2>1, <2>3, Zenon
<1>2. PICK own3, lv3 :
        /\ Grew(m, own, lv, a.m, own3, lv3, p) /\ m.used \subseteq a.m.used
        /\ \A g \in m.used : g \notin DOMAIN own => g \notin DOMAIN own3
        /\ a.page # NoPage => Leads(own3, lv3, a.page, p, 3) /\ a.m.mem[t4][PML4_INDEX(addr)] = a.page
  BY <1>1 DEF TableGot
<1>3. CASE a.page = NoPage
  <2>1. r = [m |-> a.m, ok |-> FALSE]
    BY <1>3, Zenon DEF vmm_map_page, SetEntry
  <2> HIDE DEF r, a
  <2>2. f \notin DOMAIN own3
    BY <1>2, Zenon
  <2>3. PICK n : n = a.m
    BY Zenon
  <2>4. Grew(m, own, lv, n, own3, lv3, p) /\ m.used \subseteq n.used /\ r = [m |-> n, ok |-> FALSE]
    BY <1>2, <2>1, <2>3, Zenon
  <2>5. PageMapped(r, m, own, lv, p, t4, addr, f)
    BY <2>2, <2>4, <1>fail, Zenon
  <2> QED BY <2>5, Zenon DEF r
<1>4. CASE a.page # NoPage
  <2>1. PICK n3, t3 : n3 = a.m /\ t3 = a.page
    BY Zenon
  <2>2. /\ Labelled(n3, own3, lv3) /\ Leads(own3, lv3, t3, p, 3) /\ n3.mem[t4][PML4_INDEX(addr)] = t3
        /\ f \in n3.used /\ f \notin DOMAIN own3 /\ m.used \subseteq n3.used
        /\ Grew(m, own, lv, n3, own3, lv3, p)
    BY <1>2, <1>4, <2>1, Zenon DEF Grew
  <2>3. TableGot(vmm_get_or_create_table(n3, t3, PDPT_INDEX(addr)), n3, own3, lv3, t3, PDPT_INDEX(addr), p, 3)
    <3>1. PICK k : k = 3
      BY Zenon
    <3>2. k \in 2 .. 4 /\ Leads(own3, lv3, t3, p, k) /\ k # 4
      BY <2>2, <3>1
    <3>3. TableGot(vmm_get_or_create_table(n3, t3, PDPT_INDEX(addr)), n3, own3, lv3, t3, PDPT_INDEX(addr), p, k)
      BY <1>0, <2>2, <3>2, GetOrCreate, Zenon
    <3> QED BY <3>1, <3>3, Zenon
  <2>4. b = vmm_get_or_create_table(n3, t3, PDPT_INDEX(addr))
    BY <2>1, Zenon
  <2>5. PICK own1, lv1 :
          /\ Grew(n3, own3, lv3, b.m, own1, lv1, p) /\ n3.used \subseteq b.m.used
          /\ \A g \in n3.used : g \notin DOMAIN own3 => g \notin DOMAIN own1
          /\ b.page # NoPage => Leads(own1, lv1, b.page, p, 2) /\ b.m.mem[t3][PDPT_INDEX(addr)] = b.page
    BY <2>3, <2>4 DEF TableGot
  <2>6. Grew(m, own, lv, b.m, own1, lv1, p) /\ f \notin DOMAIN own1 /\ m.used \subseteq b.m.used
    BY <2>2, <2>5, GrewTwice
  <2>7. CASE b.page = NoPage
    <3>1. r = [m |-> b.m, ok |-> FALSE]
      BY <1>4, <2>7, Zenon DEF vmm_map_page, SetEntry
    <3> HIDE DEF r, b
    <3>2. PICK n : n = b.m
      BY Zenon
    <3>3. Grew(m, own, lv, n, own1, lv1, p) /\ m.used \subseteq n.used /\ r = [m |-> n, ok |-> FALSE]
      BY <2>6, <3>1, <3>2, Zenon
    <3>4. PageMapped(r, m, own, lv, p, t4, addr, f)
      BY <2>6, <3>3, <1>fail, Zenon
    <3> QED BY <3>4, Zenon DEF r
  <2>8. CASE b.page # NoPage
    <3>1. PICK n2, t2 : n2 = b.m /\ t2 = b.page
      BY Zenon
    <3>2. /\ Labelled(n2, own1, lv1) /\ Leads(own1, lv1, t2, p, 2) /\ n2.mem[t3][PDPT_INDEX(addr)] = t2
          /\ f \in n2.used /\ f \notin DOMAIN own1 /\ m.used \subseteq n2.used
          /\ Grew(m, own, lv, n2, own1, lv1, p) /\ Grew(n3, own3, lv3, n2, own1, lv1, p)
      BY <2>5, <2>6, <2>8, <3>1, Zenon DEF Grew
    <3>3. TableGot(vmm_get_or_create_table(n2, t2, PD_INDEX(addr)), n2, own1, lv1, t2, PD_INDEX(addr), p, 2)
      <4>1. PICK k : k = 2
        BY Zenon
      <4>2. k \in 2 .. 4 /\ Leads(own1, lv1, t2, p, k) /\ k # 4
        BY <3>2, <4>1
      <4>3. TableGot(vmm_get_or_create_table(n2, t2, PD_INDEX(addr)), n2, own1, lv1, t2, PD_INDEX(addr), p, k)
        BY <1>0, <3>2, <4>2, GetOrCreate, Zenon
      <4> QED BY <4>1, <4>3, Zenon
    <3>4. c = vmm_get_or_create_table(n2, t2, PD_INDEX(addr))
      BY <3>1, Zenon
    <3>5. PICK ownc, lvc :
            /\ Grew(n2, own1, lv1, c.m, ownc, lvc, p) /\ n2.used \subseteq c.m.used
            /\ \A g \in n2.used : g \notin DOMAIN own1 => g \notin DOMAIN ownc
            /\ c.page # NoPage => Leads(ownc, lvc, c.page, p, 1) /\ c.m.mem[t2][PD_INDEX(addr)] = c.page
      BY <3>3, <3>4, SMTT(30) DEF TableGot
    <3>9. PICK n1, t1 : n1 = c.m /\ t1 = c.page
      BY Zenon
    <3>10. /\ Grew(n2, own1, lv1, n1, ownc, lvc, p) /\ n2.used \subseteq n1.used
           /\ \A g \in n2.used : g \notin DOMAIN own1 => g \notin DOMAIN ownc
           /\ t1 # NoPage => Leads(ownc, lvc, t1, p, 1) /\ n1.mem[t2][PD_INDEX(addr)] = t1
      BY <3>5, <3>9, Zenon
    <3>6. Grew(m, own, lv, n1, ownc, lvc, p) /\ f \notin DOMAIN ownc /\ m.used \subseteq n1.used
          /\ Grew(n3, own3, lv3, n1, ownc, lvc, p)
      <4>1. f \notin DOMAIN ownc /\ m.used \subseteq n1.used
        BY <3>2, <3>10, Zenon
      <4> QED BY <3>2, <3>10, <4>1, GrewTwice, Zenon
    <3>7. CASE c.page = NoPage
      <4>1. r = [m |-> n1, ok |-> FALSE]
        BY <1>4, <2>8, <3>7, <3>9, Zenon DEF vmm_map_page, SetEntry
      <4> HIDE DEF r, c
      <4>2. PageMapped(r, m, own, lv, p, t4, addr, f)
        BY <3>6, <4>1, <1>fail, Zenon
      <4> QED BY <4>2, Zenon DEF r
    <3>8. CASE c.page # NoPage
      <4>2. r = [m |-> SetWord(n1, t1, PT_INDEX(addr), f), ok |-> TRUE]
        BY <1>4, <2>8, <3>8, <3>9, Zenon DEF vmm_map_page, SetEntry
      <4>3. /\ Labelled(n1, ownc, lvc) /\ Leads(ownc, lvc, t1, p, 1) /\ n1.mem[t2][PD_INDEX(addr)] = t1
            /\ f \in n1.used /\ f \notin DOMAIN ownc
            /\ Grew(m, own, lv, n1, ownc, lvc, p) /\ Grew(n2, own1, lv1, n1, ownc, lvc, p)
            /\ Grew(n3, own3, lv3, n1, ownc, lvc, p)
        <5>1. t1 # NoPage
          BY <3>8, <3>9, Zenon
        <5>2. Labelled(n1, ownc, lvc)
          BY <3>6, Zenon DEF Grew
        <5> QED BY <3>2, <3>6, <3>10, <5>1, <5>2, Zenon
      <4> HIDE DEF r, c, b, a
      <4>4. /\ \E own2, lv2 : Grew(n1, ownc, lvc, SetWord(n1, t1, PT_INDEX(addr), f), own2, lv2, p)
            /\ SetWord(n1, t1, PT_INDEX(addr), f).mem[t1][PT_INDEX(addr)] = f
        BY <1>0, <4>3, EntryMapped
      <4>5. r.m = SetWord(n1, t1, PT_INDEX(addr), f) /\ r.ok = TRUE
        BY <4>2, Zenon
      <4>6. PICK n : n = r.m
        BY Zenon
      <4>7. PICK own2, lv2 : Grew(n1, ownc, lvc, n, own2, lv2, p)
        BY <4>4, <4>5, <4>6, Zenon
      <4>8. /\ Grew(m, own, lv, n, own2, lv2, p) /\ Grew(n2, own1, lv1, n, own2, lv2, p)
            /\ Grew(n3, own3, lv3, n, own2, lv2, p)
        BY <4>3, <4>7, GrewTwice, Zenon
      <4>9. t3 # 0 /\ t2 # 0 /\ t1 # 0
        BY <1>4, <2>1, <2>8, <3>1, <3>8, <3>9, <1>f, Zenon
      <4>10. n.mem[t4][PML4_INDEX(addr)] = t3
        <5>1. t4 \in DOMAIN own3 /\ own3[t4] = p /\ lv3[t4] = 4
          BY <2>2, Zenon DEF Grew, Extends, Leads
        <5> QED BY <1>0, <2>2, <4>8, <4>9, <5>1 DEF Grew
      <4>11. n.mem[t3][PDPT_INDEX(addr)] = t2
        <5>1. t3 \in DOMAIN own1 /\ own1[t3] = p /\ lv1[t3] = 3
          BY <2>2, <3>2, Zenon DEF Grew, Extends, Leads
        <5> QED BY <1>0, <3>2, <4>8, <4>9, <5>1 DEF Grew
      <4>12. n.mem[t2][PD_INDEX(addr)] = t1
        <5>1. t2 \in DOMAIN ownc /\ ownc[t2] = p /\ lvc[t2] = 2
          BY <3>2, <4>3, Zenon DEF Grew, Extends, Leads
        <5> QED BY <1>0, <4>3, <4>7, <4>9, <5>1 DEF Grew
      <4>13. n.mem[t1][PT_INDEX(addr)] = f
        BY <4>4, <4>5, <4>6, Zenon
      <4>14. Labelled(n, own2, lv2) /\ Leads(own2, lv2, t4, p, 4)
        BY <4>8, LeadsKept DEF Grew
      <4>15. Path(n, addr, t4, t3, t2, t1)
        BY <4>9, <4>10, <4>11, <4>12, Zenon DEF Path
      <4>16. FrameOf(n, t4, addr) = f
        <5>1. FrameOf(n, t4, addr) = n.mem[t1][PT_INDEX(addr)]
          BY ONLY addr \in Nat, <4>14, <4>15, WalkFacts
        <5> QED BY <4>13, <5>1, Zenon
      <4>17. PageMapped(r, m, own, lv, p, t4, addr, f)
        BY <1>f, <4>5, <4>6, <4>8, <4>16, Zenon DEF PageMapped
      <4> QED BY <4>17, Zenon DEF r
    <3> QED BY <3>7, <3>8, Zenon
  <2> QED BY <2>7, <2>8, Zenon
<1> QED BY <1>3, <1>4, Zenon

(* What mapping pages of p returns, so far for the addresses S. *)
PagesMapped(r, m, own, lv, p, t4, S) ==
  /\ \E own2, lv2 : Grew(m, own, lv, r.m, own2, lv2, p)
  /\ r.ok => \A addr \in S : FrameOf(r.m, t4, addr) # NoPage

(* A frame is allocated and mapped at an address, or the call fails; either way a growth. *)
LEMMA MapFrame ==
  ASSUME NEW acc, NEW own, NEW lv, Labelled(acc.m, own, lv), acc.ok, NEW p \in Procs, NEW addr \in Nat,
         addr < KernelBase, NEW t4, Leads(own, lv, t4, p, 4)
  PROVE  PagesMapped(AllocAndMap(acc, t4, addr), acc.m, own, lv, p, t4, {addr})
<1> DEFINE r == AllocAndMap(acc, t4, addr)
           a == pmm_alloc_page(acc.m)
<1>1. PICK m : m = acc.m
  BY Zenon
<1>2. Labelled(m, own, lv) /\ a = pmm_alloc_page(m)
  BY <1>1, Zenon
<1>3. /\ m \in Memories /\ InitialBitmap \subseteq m.used /\ DOMAIN own \subseteq m.used
      /\ DOMAIN own \subseteq AllPages
  BY <1>2, LabelledFacts, Zenon
<1>4. CASE a.page = NoPage
  <2>1. r = [m |-> m, ok |-> FALSE]
    BY <1>1, <1>4, Zenon DEF AllocAndMap
  <2>2. Grew(m, own, lv, m, own, lv, p)
    BY <1>2, GrewNot, Zenon
  <2> HIDE DEF r
  <2>3. r.m = m /\ r.ok = FALSE
    BY <2>1, Zenon
  <2>4. PagesMapped(r, m, own, lv, p, t4, {addr})
    BY <2>2, <2>3, Zenon DEF PagesMapped
  <2> QED BY <1>1, <2>4, Zenon DEF r
<1>5. CASE a.page # NoPage
  <2>0. Got(a, m)
    BY <1>2, <1>3, <1>5, AllocFacts, Zenon
  <2>1. PICK n, f : n = a.m /\ f = a.page
    BY Zenon
  <2>2. /\ f \in Managed /\ f \in AllPages /\ f \notin m.used
        /\ n \in Memories /\ n.used = m.used \cup {f}
        /\ \A g \in AllPages : g # f => n.mem[g] = m.mem[g]
    BY <2>0, <2>1, Zenon DEF Got
  <2> DEFINE map == vmm_map_page(n, t4, addr, f)
  <2>3. r = IF map.ok THEN map ELSE [m |-> pmm_free_page(map.m, f), ok |-> FALSE]
    BY <1>1, <1>5, <2>1, Zenon DEF AllocAndMap, KeptIfMapped
  <2> HIDE DEF a, r
  <2>4. \A g \in DOMAIN own : g # f /\ n.mem[g] = m.mem[g]
    BY <1>3, <2>2, Zenon
  <2>5. Labelled(n, own, lv)
    BY <1>2, <1>3, <2>2, <2>4, LabelsKept, Zenon
  <2>6. Grew(m, own, lv, n, own, lv, p)
    BY <2>4, <2>5, Zenon DEF Grew, Extends
  <2>7. f \in n.used /\ f \notin DOMAIN own
    BY <1>3, <2>2, Zenon
  <2>8. PageMapped(map, n, own, lv, p, t4, addr, f)
    BY <2>2, <2>5, <2>7, MapPage, Zenon
  <2> HIDE DEF map
  <2>9. PICK own2, lv2 :
          /\ Grew(n, own, lv, map.m, own2, lv2, p)
          /\ map.ok => FrameOf(map.m, t4, addr) # NoPage
          /\ ~ map.ok => f \notin DOMAIN own2 /\ n.used \subseteq map.m.used
    BY <2>8, Zenon DEF PageMapped
  <2>10. Grew(m, own, lv, map.m, own2, lv2, p)
    BY <2>6, <2>9, GrewTwice, Zenon
  <2>11. CASE map.ok
    <3>1. r.m = map.m /\ r.ok
      BY <2>3, <2>11, Zenon
    <3>2. PagesMapped(r, m, own, lv, p, t4, {addr})
      BY <2>9, <2>10, <2>11, <3>1, Zenon DEF PagesMapped
    <3> QED BY <1>1, <3>2, Zenon DEF r
  <2>12. CASE ~ map.ok
    <3>1. r.m = pmm_free_page(map.m, f) /\ r.ok = FALSE
      BY <2>3, <2>12, Zenon
    <3>2. PICK n2 : n2 = map.m
      BY Zenon
    <3>3. /\ Labelled(n2, own2, lv2) /\ Grew(m, own, lv, n2, own2, lv2, p) /\ f \notin DOMAIN own2
          /\ r.m = pmm_free_page(n2, f)
      BY <2>9, <2>10, <2>12, <3>1, <3>2, Zenon DEF Grew
    <3>4. n2 \in Memories /\ InitialBitmap \subseteq n2.used /\ DOMAIN own2 \subseteq n2.used
      BY <3>3, LabelledFacts, Zenon
    <3>5. PICK n3 : n3 = pmm_free_page(n2, f)
      BY Zenon
    <3>6. n3 \in Memories /\ n3.used = n2.used \ {f} /\ n3.mem = n2.mem
      BY <3>4, <3>5, FreeFacts, Zenon
    <3>7. f \notin InitialBitmap
      BY <2>2, Zenon DEF InitialBitmap
    <3>8. Labelled(n3, own2, lv2)
      BY <3>3, <3>4, <3>6, <3>7, LabelsKept, Zenon
    <3>9. Grew(m, own, lv, n3, own2, lv2, p)
      BY <3>3, <3>6, <3>8 DEF Grew
    <3>10. PagesMapped(r, m, own, lv, p, t4, {addr})
      BY <3>1, <3>3, <3>5, <3>9, Zenon DEF PagesMapped
    <3> QED BY <1>1, <3>10, Zenon DEF r
  <2> QED BY <2>11, <2>12, Zenon
<1> QED BY <1>4, <1>5, Zenon

-----------------------------------------------------------------------------
(* The loops.  A loop is a recursive function of the number of rounds done; *)
(* that such a function exists is shown by induction, once for each loop.   *)
LEMMA NatSetInduction ==
  ASSUME NEW G, 0 \in G, \A n \in Nat : n \in G => n + 1 \in G
  PROVE  Nat \subseteq G
<1> DEFINE T == Nat \ G
<1> SUFFICES ASSUME T # {} PROVE FALSE
  BY Zenon
<1>1. PICK x \in T : \A k \in T : ~ (<<k, x>> \in OpToRel(<, Nat))
  <2>1. T \subseteq Nat
    BY Zenon
  <2> HIDE DEF T
  <2> QED BY <2>1, NatLessThanWellFounded, WFMin, Zenon
<1>2. x \in Nat /\ x # 0
  BY Zenon
<1>3. x - 1 \in Nat /\ x - 1 < x /\ (x - 1) + 1 = x
  BY <1>2
<1>4. <<x - 1, x>> \in OpToRel(<, Nat)
  BY <1>2, <1>3, Zenon DEF OpToRel
<1>5. x - 1 \in G
  BY <1>1, <1>3, <1>4, Zenon
<1>6. (x - 1) + 1 \in G
  BY <1>3, <1>5, Zenon
<1> QED BY <1>3, <1>6, Zenon

MapPagesRounds(w, acc, pml4, addr, count) ==
  /\ w[0] = acc
  /\ \A k \in 1 .. count : w[k] = AllocAndMap(w[k - 1], pml4, addr + (k - 1) * Entries)
  /\ MapPages(acc, pml4, addr, count) = w[count]

(* The values of the loop MapPages after each of its rounds. *)
LEMMA MapPagesLoop ==
  ASSUME NEW acc, NEW pml4, NEW addr, NEW count, count \in Nat
  PROVE  \E w : MapPagesRounds(w, acc, pml4, addr, count)
<1> DEFINE G == {d \in Nat : \E f : f = [k \in 0 .. d |-> IF k = 0 THEN acc ELSE AllocAndMap(f[k - 1], pml4, addr + (k - 1) * Entries)]}
           v == CHOOSE f : f = [k \in 0 .. count |-> IF k = 0 THEN acc ELSE AllocAndMap(f[k - 1], pml4, addr + (k - 1) * Entries)]
<1>1. 0 \in G
  <2> DEFINE f == [k \in 0 .. 0 |-> acc]
  <2>1. f = [k \in 0 .. 0 |-> IF k = 0 THEN acc ELSE AllocAndMap(f[k - 1], pml4, addr + (k - 1) * Entries)]
    OBVIOUS
  <2> HIDE DEF f
  <2> QED BY <2>1, Zenon
<1>2. ASSUME NEW d \in Nat, d \in G PROVE d + 1 \in G
  <2>1. PICK f : f = [k \in 0 .. d |-> IF k = 0 THEN acc ELSE AllocAndMap(f[k - 1], pml4, addr + (k - 1) * Entries)]
    BY <1>2, Zenon
  <2> DEFINE g == [k \in 0 .. d + 1 |-> IF k = d + 1 THEN AllocAndMap(f[d], pml4, addr + ((d + 1) - 1) * Entries)
                                       ELSE f[k]]
  <2>2. ASSUME NEW k \in 0 .. d + 1
        PROVE  g[k] = IF k = 0 THEN acc ELSE AllocAndMap(g[k - 1], pml4, addr + (k - 1) * Entries)
    <3>1. CASE k = d + 1
      <4>1. g[k] = AllocAndMap(f[d], pml4, addr + (k - 1) * Entries) /\ k # 0 /\ k - 1 = d /\ d \in 0 .. d + 1 /\ d # d + 1
        BY <3>1
      <4>2. g[d] = f[d]
        BY <4>1, Zenon
      <4> HIDE DEF g
      <4> QED BY <4>1, <4>2, Zenon
    <3>2. CASE k # d + 1
      <4>1. k \in 0 .. d /\ g[k] = f[k]
        BY <3>2
      <4>2. f[k] = IF k = 0 THEN acc ELSE AllocAndMap(f[k - 1], pml4, addr + (k - 1) * Entries)
        BY <2>1, <4>1, Zenon
      <4>3. k # 0 => g[k - 1] = f[k - 1]
        BY <4>1
      <4> HIDE DEF g
      <4> QED BY <4>1, <4>2, <4>3, Zenon
    <3> QED BY <3>1, <3>2, Zenon
  <2>3. g = [k \in 0 .. d + 1 |-> g[k]]
    BY Zenon
  <2> HIDE DEF g
  <2>4. g = [k \in 0 .. d + 1 |-> IF k = 0 THEN acc ELSE AllocAndMap(g[k - 1], pml4, addr + (k - 1) * Entries)]
    BY <2>2, <2>3, Zenon
  <2>5. d + 1 \in Nat
    OBVIOUS
  <2> QED BY <2>4, <2>5, Zenon
<1>3. Nat \subseteq G
  <2> HIDE DEF G
  <2> QED BY <1>1, <1>2, NatSetInduction, Zenon
<1>4. v = [k \in 0 .. count |-> IF k = 0 THEN acc ELSE AllocAndMap(v[k - 1], pml4, addr + (k - 1) * Entries)]
  BY <1>3, Zenon
<1>5. MapPages(acc, pml4, addr, count) = v[count]
  BY Zenon DEF MapPages
<1> HIDE DEF v
<1>6. v[0] = acc /\ \A k \in 1 .. count : v[k] = AllocAndMap(v[k - 1], pml4, addr + (k - 1) * Entries)
  <2>1. 0 \in 0 .. count /\ \A k \in 1 .. count : k \in 0 .. count /\ k # 0
    OBVIOUS
  <2> QED BY <1>4, <2>1, Zenon
<1> QED BY <1>5, <1>6, Zenon DEF MapPagesRounds

GrowHeapRounds(w, m, pt, heap, new, pages) ==
  /\ w[0] = [m |-> m, ok |-> TRUE]
  /\ \A k \in 1 .. pages : w[k] = GrowPage(w[k - 1], pt, heap, PageOf(heap) + k - 1)
  /\ GrowHeap(m, pt, heap, new) = w[pages]

(* The values of the loop GrowHeap after each of its rounds. *)
LEMMA GrowHeapLoop ==
  ASSUME NEW m, NEW pt, NEW heap, NEW new, NEW pages, pages = RoundUp(new) - PageOf(heap), pages \in Nat
  PROVE  \E w : GrowHeapRounds(w, m, pt, heap, new, pages)
<1> DEFINE G == {d \in Nat : \E f : f = [k \in 0 .. d |-> IF k = 0 THEN [m |-> m, ok |-> TRUE] ELSE GrowPage(f[k - 1], pt, heap, PageOf(heap) + k - 1)]}
           v == CHOOSE f : f = [k \in 0 .. pages |-> IF k = 0 THEN [m |-> m, ok |-> TRUE] ELSE GrowPage(f[k - 1], pt, heap, PageOf(heap) + k - 1)]
<1>1. 0 \in G
  <2> DEFINE f == [k \in 0 .. 0 |-> [m |-> m, ok |-> TRUE]]
  <2>1. f = [k \in 0 .. 0 |-> IF k = 0 THEN [m |-> m, ok |-> TRUE] ELSE GrowPage(f[k - 1], pt, heap, PageOf(heap) + k - 1)]
    OBVIOUS
  <2> HIDE DEF f
  <2> QED BY <2>1, Zenon
<1>2. ASSUME NEW d \in Nat, d \in G PROVE d + 1 \in G
  <2>1. PICK f : f = [k \in 0 .. d |-> IF k = 0 THEN [m |-> m, ok |-> TRUE] ELSE GrowPage(f[k - 1], pt, heap, PageOf(heap) + k - 1)]
    BY <1>2, Zenon
  <2> DEFINE g == [k \in 0 .. d + 1 |-> IF k = d + 1 THEN GrowPage(f[d], pt, heap, PageOf(heap) + (d + 1) - 1)
                                       ELSE f[k]]
  <2>2. ASSUME NEW k \in 0 .. d + 1
        PROVE  g[k] = IF k = 0 THEN [m |-> m, ok |-> TRUE] ELSE GrowPage(g[k - 1], pt, heap, PageOf(heap) + k - 1)
    <3>1. CASE k = d + 1
      <4>1. g[k] = GrowPage(f[d], pt, heap, PageOf(heap) + k - 1) /\ k # 0 /\ k - 1 = d /\ d \in 0 .. d + 1 /\ d # d + 1
        BY <3>1
      <4>2. g[d] = f[d]
        BY <4>1, Zenon
      <4> HIDE DEF g
      <4> QED BY <4>1, <4>2, Zenon
    <3>2. CASE k # d + 1
      <4>1. k \in 0 .. d /\ g[k] = f[k]
        BY <3>2
      <4>2. f[k] = IF k = 0 THEN [m |-> m, ok |-> TRUE] ELSE GrowPage(f[k - 1], pt, heap, PageOf(heap) + k - 1)
        BY <2>1, <4>1, Zenon
      <4>3. k # 0 => g[k - 1] = f[k - 1]
        BY <4>1
      <4> HIDE DEF g
      <4> QED BY <4>1, <4>2, <4>3, Zenon
    <3> QED BY <3>1, <3>2, Zenon
  <2>3. g = [k \in 0 .. d + 1 |-> g[k]]
    BY Zenon
  <2> HIDE DEF g
  <2>4. g = [k \in 0 .. d + 1 |-> IF k = 0 THEN [m |-> m, ok |-> TRUE] ELSE GrowPage(g[k - 1], pt, heap, PageOf(heap) + k - 1)]
    BY <2>2, <2>3, Zenon
  <2>5. d + 1 \in Nat
    OBVIOUS
  <2> QED BY <2>4, <2>5, Zenon
<1>3. Nat \subseteq G
  <2> HIDE DEF G
  <2> QED BY <1>1, <1>2, NatSetInduction, Zenon
<1>4. v = [k \in 0 .. pages |-> IF k = 0 THEN [m |-> m, ok |-> TRUE] ELSE GrowPage(v[k - 1], pt, heap, PageOf(heap) + k - 1)]
  BY <1>3, Zenon
<1>5. GrowHeap(m, pt, heap, new) = v[pages]
  BY Zenon DEF GrowHeap
<1> HIDE DEF v
<1>6. v[0] = [m |-> m, ok |-> TRUE] /\ \A k \in 1 .. pages : v[k] = GrowPage(v[k - 1], pt, heap, PageOf(heap) + k - 1)
  <2>1. 0 \in 0 .. pages /\ \A k \in 1 .. pages : k \in 0 .. pages /\ k # 0
    OBVIOUS
  <2> QED BY <1>4, <2>1, Zenon
<1> QED BY <1>5, <1>6, Zenon DEF GrowHeapRounds

CopyOutRounds(w, acc, pt, addr, words) ==
  /\ w[0] = [m |-> acc.m, ok |-> acc.ok, to |-> 0]
  /\ \A k \in 1 .. Len(words) : w[k] = CopyWord(w[k - 1], pt, addr, k - 1, words[k])
  /\ CopyOut(acc, pt, addr, words) = w[Len(words)]

(* The values of the loop CopyOut after each of its rounds. *)
LEMMA CopyOutLoop ==
  ASSUME NEW acc, NEW pt, NEW addr, NEW words, Len(words) \in Nat
  PROVE  \E w : CopyOutRounds(w, acc, pt, addr, words)
<1> DEFINE G == {d \in Nat : \E f : f = [k \in 0 .. d |-> IF k = 0 THEN [m |-> acc.m, ok |-> acc.ok, to |-> 0] ELSE CopyWord(f[k - 1], pt, addr, k - 1, words[k])]}
           v == CHOOSE f : f = [k \in 0 .. Len(words) |-> IF k = 0 THEN [m |-> acc.m, ok |-> acc.ok, to |-> 0] ELSE CopyWord(f[k - 1], pt, addr, k - 1, words[k])]
<1>1. 0 \in G
  <2> DEFINE f == [k \in 0 .. 0 |-> [m |-> acc.m, ok |-> acc.ok, to |-> 0]]
  <2>1. f = [k \in 0 .. 0 |-> IF k = 0 THEN [m |-> acc.m, ok |-> acc.ok, to |-> 0] ELSE CopyWord(f[k - 1], pt, addr, k - 1, words[k])]
    OBVIOUS
  <2> HIDE DEF f
  <2> QED BY <2>1, Zenon
<1>2. ASSUME NEW d \in Nat, d \in G PROVE d + 1 \in G
  <2>1. PICK f : f = [k \in 0 .. d |-> IF k = 0 THEN [m |-> acc.m, ok |-> acc.ok, to |-> 0] ELSE CopyWord(f[k - 1], pt, addr, k - 1, words[k])]
    BY <1>2, Zenon
  <2> DEFINE g == [k \in 0 .. d + 1 |-> IF k = d + 1 THEN CopyWord(f[d], pt, addr, (d + 1) - 1, words[(d + 1)])
                                       ELSE f[k]]
  <2>2. ASSUME NEW k \in 0 .. d + 1
        PROVE  g[k] = IF k = 0 THEN [m |-> acc.m, ok |-> acc.ok, to |-> 0] ELSE CopyWord(g[k - 1], pt, addr, k - 1, words[k])
    <3>1. CASE k = d + 1
      <4>1. g[k] = CopyWord(f[d], pt, addr, k - 1, words[k]) /\ k # 0 /\ k - 1 = d /\ d \in 0 .. d + 1 /\ d # d + 1
        BY <3>1
      <4>2. g[d] = f[d]
        BY <4>1, Zenon
      <4> HIDE DEF g
      <4> QED BY <4>1, <4>2, Zenon
    <3>2. CASE k # d + 1
      <4>1. k \in 0 .. d /\ g[k] = f[k]
        BY <3>2
      <4>2. f[k] = IF k = 0 THEN [m |-> acc.m, ok |-> acc.ok, to |-> 0] ELSE CopyWord(f[k - 1], pt, addr, k - 1, words[k])
        BY <2>1, <4>1, Zenon
      <4>3. k # 0 => g[k - 1] = f[k - 1]
        BY <4>1
      <4> HIDE DEF g
      <4> QED BY <4>1, <4>2, <4>3, Zenon
    <3> QED BY <3>1, <3>2, Zenon
  <2>3. g = [k \in 0 .. d + 1 |-> g[k]]
    BY Zenon
  <2> HIDE DEF g
  <2>4. g = [k \in 0 .. d + 1 |-> IF k = 0 THEN [m |-> acc.m, ok |-> acc.ok, to |-> 0] ELSE CopyWord(g[k - 1], pt, addr, k - 1, words[k])]
    BY <2>2, <2>3, Zenon
  <2>5. d + 1 \in Nat
    OBVIOUS
  <2> QED BY <2>4, <2>5, Zenon
<1>3. Nat \subseteq G
  <2> HIDE DEF G
  <2> QED BY <1>1, <1>2, NatSetInduction, Zenon
<1>4. v = [k \in 0 .. Len(words) |-> IF k = 0 THEN [m |-> acc.m, ok |-> acc.ok, to |-> 0] ELSE CopyWord(v[k - 1], pt, addr, k - 1, words[k])]
  BY <1>3, Zenon
<1>5. CopyOut(acc, pt, addr, words) = v[Len(words)]
  BY Zenon DEF CopyOut
<1> HIDE DEF v
<1>6. v[0] = [m |-> acc.m, ok |-> acc.ok, to |-> 0] /\ \A k \in 1 .. Len(words) : v[k] = CopyWord(v[k - 1], pt, addr, k - 1, words[k])
  <2>1. 0 \in 0 .. Len(words) /\ \A k \in 1 .. Len(words) : k \in 0 .. Len(words) /\ k # 0
    OBVIOUS
  <2> QED BY <1>4, <2>1, Zenon
<1> QED BY <1>5, <1>6, Zenon DEF CopyOutRounds

ElfLoadRounds(w, m, pt, image) ==
  /\ w[0] = [m |-> m, ok |-> image.valid]
  /\ \A k \in 1 .. Len(image.segments) : w[k] = LoadSegment(w[k - 1], pt, image.segments[k])
  /\ elf_load(m, pt, image) = w[Len(image.segments)]

(* The values of the loop ElfLoad after each of its rounds. *)
LEMMA ElfLoadLoop ==
  ASSUME NEW m, NEW pt, NEW image, Len(image.segments) \in Nat
  PROVE  \E w : ElfLoadRounds(w, m, pt, image)
<1> DEFINE G == {d \in Nat : \E f : f = [k \in 0 .. d |-> IF k = 0 THEN [m |-> m, ok |-> image.valid] ELSE LoadSegment(f[k - 1], pt, image.segments[k])]}
           v == CHOOSE f : f = [k \in 0 .. Len(image.segments) |-> IF k = 0 THEN [m |-> m, ok |-> image.valid] ELSE LoadSegment(f[k - 1], pt, image.segments[k])]
<1>1. 0 \in G
  <2> DEFINE f == [k \in 0 .. 0 |-> [m |-> m, ok |-> image.valid]]
  <2>1. f = [k \in 0 .. 0 |-> IF k = 0 THEN [m |-> m, ok |-> image.valid] ELSE LoadSegment(f[k - 1], pt, image.segments[k])]
    OBVIOUS
  <2> HIDE DEF f
  <2> QED BY <2>1, Zenon
<1>2. ASSUME NEW d \in Nat, d \in G PROVE d + 1 \in G
  <2>1. PICK f : f = [k \in 0 .. d |-> IF k = 0 THEN [m |-> m, ok |-> image.valid] ELSE LoadSegment(f[k - 1], pt, image.segments[k])]
    BY <1>2, Zenon
  <2> DEFINE g == [k \in 0 .. d + 1 |-> IF k = d + 1 THEN LoadSegment(f[d], pt, image.segments[(d + 1)])
                                       ELSE f[k]]
  <2>2. ASSUME NEW k \in 0 .. d + 1
        PROVE  g[k] = IF k = 0 THEN [m |-> m, ok |-> image.valid] ELSE LoadSegment(g[k - 1], pt, image.segments[k])
    <3>1. CASE k = d + 1
      <4>1. g[k] = LoadSegment(f[d], pt, image.segments[k]) /\ k # 0 /\ k - 1 = d /\ d \in 0 .. d + 1 /\ d # d + 1
        BY <3>1
      <4>2. g[d] = f[d]
        BY <4>1, Zenon
      <4> HIDE DEF g
      <4> QED BY <4>1, <4>2, Zenon
    <3>2. CASE k # d + 1
      <4>1. k \in 0 .. d /\ g[k] = f[k]
        BY <3>2
      <4>2. f[k] = IF k = 0 THEN [m |-> m, ok |-> image.valid] ELSE LoadSegment(f[k - 1], pt, image.segments[k])
        BY <2>1, <4>1, Zenon
      <4>3. k # 0 => g[k - 1] = f[k - 1]
        BY <4>1
      <4> HIDE DEF g
      <4> QED BY <4>1, <4>2, <4>3, Zenon
    <3> QED BY <3>1, <3>2, Zenon
  <2>3. g = [k \in 0 .. d + 1 |-> g[k]]
    BY Zenon
  <2> HIDE DEF g
  <2>4. g = [k \in 0 .. d + 1 |-> IF k = 0 THEN [m |-> m, ok |-> image.valid] ELSE LoadSegment(g[k - 1], pt, image.segments[k])]
    BY <2>2, <2>3, Zenon
  <2>5. d + 1 \in Nat
    OBVIOUS
  <2> QED BY <2>4, <2>5, Zenon
<1>3. Nat \subseteq G
  <2> HIDE DEF G
  <2> QED BY <1>1, <1>2, NatSetInduction, Zenon
<1>4. v = [k \in 0 .. Len(image.segments) |-> IF k = 0 THEN [m |-> m, ok |-> image.valid] ELSE LoadSegment(v[k - 1], pt, image.segments[k])]
  BY <1>3, Zenon
<1>5. elf_load(m, pt, image) = v[Len(image.segments)]
  BY Zenon DEF elf_load
<1> HIDE DEF v
<1>6. v[0] = [m |-> m, ok |-> image.valid] /\ \A k \in 1 .. Len(image.segments) : v[k] = LoadSegment(v[k - 1], pt, image.segments[k])
  <2>1. 0 \in 0 .. Len(image.segments) /\ \A k \in 1 .. Len(image.segments) : k \in 0 .. Len(image.segments) /\ k # 0
    OBVIOUS
  <2> QED BY <1>4, <2>1, Zenon
<1> QED BY <1>5, <1>6, Zenon DEF ElfLoadRounds

ClonePtRounds(w, m, src) ==
  /\ w[0] = pmm_alloc_page(m)
  /\ \A k \in 1 .. Entries : w[k] = PtEntry(w[k - 1], src, k - 1)
  /\ clone_pt(m, src) = w[Entries]

(* The values of the loop ClonePt after each of its rounds. *)
LEMMA ClonePtLoop ==
  ASSUME NEW m, NEW src, Entries \in Nat
  PROVE  \E w : ClonePtRounds(w, m, src)
<1> DEFINE G == {d \in Nat : \E f : f = [k \in 0 .. d |-> IF k = 0 THEN pmm_alloc_page(m) ELSE PtEntry(f[k - 1], src, k - 1)]}
           v == CHOOSE f : f = [k \in 0 .. Entries |-> IF k = 0 THEN pmm_alloc_page(m) ELSE PtEntry(f[k - 1], src, k - 1)]
<1>1. 0 \in G
  <2> DEFINE f == [k \in 0 .. 0 |-> pmm_alloc_page(m)]
  <2>1. f = [k \in 0 .. 0 |-> IF k = 0 THEN pmm_alloc_page(m) ELSE PtEntry(f[k - 1], src, k - 1)]
    OBVIOUS
  <2> HIDE DEF f
  <2> QED BY <2>1, Zenon
<1>2. ASSUME NEW d \in Nat, d \in G PROVE d + 1 \in G
  <2>1. PICK f : f = [k \in 0 .. d |-> IF k = 0 THEN pmm_alloc_page(m) ELSE PtEntry(f[k - 1], src, k - 1)]
    BY <1>2, Zenon
  <2> DEFINE g == [k \in 0 .. d + 1 |-> IF k = d + 1 THEN PtEntry(f[d], src, (d + 1) - 1)
                                       ELSE f[k]]
  <2>2. ASSUME NEW k \in 0 .. d + 1
        PROVE  g[k] = IF k = 0 THEN pmm_alloc_page(m) ELSE PtEntry(g[k - 1], src, k - 1)
    <3>1. CASE k = d + 1
      <4>1. g[k] = PtEntry(f[d], src, k - 1) /\ k # 0 /\ k - 1 = d /\ d \in 0 .. d + 1 /\ d # d + 1
        BY <3>1
      <4>2. g[d] = f[d]
        BY <4>1, Zenon
      <4> HIDE DEF g
      <4> QED BY <4>1, <4>2, Zenon
    <3>2. CASE k # d + 1
      <4>1. k \in 0 .. d /\ g[k] = f[k]
        BY <3>2
      <4>2. f[k] = IF k = 0 THEN pmm_alloc_page(m) ELSE PtEntry(f[k - 1], src, k - 1)
        BY <2>1, <4>1, Zenon
      <4>3. k # 0 => g[k - 1] = f[k - 1]
        BY <4>1
      <4> HIDE DEF g
      <4> QED BY <4>1, <4>2, <4>3, Zenon
    <3> QED BY <3>1, <3>2, Zenon
  <2>3. g = [k \in 0 .. d + 1 |-> g[k]]
    BY Zenon
  <2> HIDE DEF g
  <2>4. g = [k \in 0 .. d + 1 |-> IF k = 0 THEN pmm_alloc_page(m) ELSE PtEntry(g[k - 1], src, k - 1)]
    BY <2>2, <2>3, Zenon
  <2>5. d + 1 \in Nat
    OBVIOUS
  <2> QED BY <2>4, <2>5, Zenon
<1>3. Nat \subseteq G
  <2> HIDE DEF G
  <2> QED BY <1>1, <1>2, NatSetInduction, Zenon
<1>4. v = [k \in 0 .. Entries |-> IF k = 0 THEN pmm_alloc_page(m) ELSE PtEntry(v[k - 1], src, k - 1)]
  BY <1>3, Zenon
<1>5. clone_pt(m, src) = v[Entries]
  BY Zenon DEF clone_pt
<1> HIDE DEF v
<1>6. v[0] = pmm_alloc_page(m) /\ \A k \in 1 .. Entries : v[k] = PtEntry(v[k - 1], src, k - 1)
  <2>1. 0 \in 0 .. Entries /\ \A k \in 1 .. Entries : k \in 0 .. Entries /\ k # 0
    OBVIOUS
  <2> QED BY <1>4, <2>1, Zenon
<1> QED BY <1>5, <1>6, Zenon DEF ClonePtRounds

ClonePdRounds(w, m, src) ==
  /\ w[0] = pmm_alloc_page(m)
  /\ \A k \in 1 .. Entries : w[k] = PdEntry(w[k - 1], src, k - 1)
  /\ clone_pd(m, src) = w[Entries]

(* The values of the loop ClonePd after each of its rounds. *)
LEMMA ClonePdLoop ==
  ASSUME NEW m, NEW src, Entries \in Nat
  PROVE  \E w : ClonePdRounds(w, m, src)
<1> DEFINE G == {d \in Nat : \E f : f = [k \in 0 .. d |-> IF k = 0 THEN pmm_alloc_page(m) ELSE PdEntry(f[k - 1], src, k - 1)]}
           v == CHOOSE f : f = [k \in 0 .. Entries |-> IF k = 0 THEN pmm_alloc_page(m) ELSE PdEntry(f[k - 1], src, k - 1)]
<1>1. 0 \in G
  <2> DEFINE f == [k \in 0 .. 0 |-> pmm_alloc_page(m)]
  <2>1. f = [k \in 0 .. 0 |-> IF k = 0 THEN pmm_alloc_page(m) ELSE PdEntry(f[k - 1], src, k - 1)]
    OBVIOUS
  <2> HIDE DEF f
  <2> QED BY <2>1, Zenon
<1>2. ASSUME NEW d \in Nat, d \in G PROVE d + 1 \in G
  <2>1. PICK f : f = [k \in 0 .. d |-> IF k = 0 THEN pmm_alloc_page(m) ELSE PdEntry(f[k - 1], src, k - 1)]
    BY <1>2, Zenon
  <2> DEFINE g == [k \in 0 .. d + 1 |-> IF k = d + 1 THEN PdEntry(f[d], src, (d + 1) - 1)
                                       ELSE f[k]]
  <2>2. ASSUME NEW k \in 0 .. d + 1
        PROVE  g[k] = IF k = 0 THEN pmm_alloc_page(m) ELSE PdEntry(g[k - 1], src, k - 1)
    <3>1. CASE k = d + 1
      <4>1. g[k] = PdEntry(f[d], src, k - 1) /\ k # 0 /\ k - 1 = d /\ d \in 0 .. d + 1 /\ d # d + 1
        BY <3>1
      <4>2. g[d] = f[d]
        BY <4>1, Zenon
      <4> HIDE DEF g
      <4> QED BY <4>1, <4>2, Zenon
    <3>2. CASE k # d + 1
      <4>1. k \in 0 .. d /\ g[k] = f[k]
        BY <3>2
      <4>2. f[k] = IF k = 0 THEN pmm_alloc_page(m) ELSE PdEntry(f[k - 1], src, k - 1)
        BY <2>1, <4>1, Zenon
      <4>3. k # 0 => g[k - 1] = f[k - 1]
        BY <4>1
      <4> HIDE DEF g
      <4> QED BY <4>1, <4>2, <4>3, Zenon
    <3> QED BY <3>1, <3>2, Zenon
  <2>3. g = [k \in 0 .. d + 1 |-> g[k]]
    BY Zenon
  <2> HIDE DEF g
  <2>4. g = [k \in 0 .. d + 1 |-> IF k = 0 THEN pmm_alloc_page(m) ELSE PdEntry(g[k - 1], src, k - 1)]
    BY <2>2, <2>3, Zenon
  <2>5. d + 1 \in Nat
    OBVIOUS
  <2> QED BY <2>4, <2>5, Zenon
<1>3. Nat \subseteq G
  <2> HIDE DEF G
  <2> QED BY <1>1, <1>2, NatSetInduction, Zenon
<1>4. v = [k \in 0 .. Entries |-> IF k = 0 THEN pmm_alloc_page(m) ELSE PdEntry(v[k - 1], src, k - 1)]
  BY <1>3, Zenon
<1>5. clone_pd(m, src) = v[Entries]
  BY Zenon DEF clone_pd
<1> HIDE DEF v
<1>6. v[0] = pmm_alloc_page(m) /\ \A k \in 1 .. Entries : v[k] = PdEntry(v[k - 1], src, k - 1)
  <2>1. 0 \in 0 .. Entries /\ \A k \in 1 .. Entries : k \in 0 .. Entries /\ k # 0
    OBVIOUS
  <2> QED BY <1>4, <2>1, Zenon
<1> QED BY <1>5, <1>6, Zenon DEF ClonePdRounds

ClonePdptRounds(w, m, src) ==
  /\ w[0] = pmm_alloc_page(m)
  /\ \A k \in 1 .. Entries : w[k] = PdptEntry(w[k - 1], src, k - 1)
  /\ clone_pdpt(m, src) = w[Entries]

(* The values of the loop ClonePdpt after each of its rounds. *)
LEMMA ClonePdptLoop ==
  ASSUME NEW m, NEW src, Entries \in Nat
  PROVE  \E w : ClonePdptRounds(w, m, src)
<1> DEFINE G == {d \in Nat : \E f : f = [k \in 0 .. d |-> IF k = 0 THEN pmm_alloc_page(m) ELSE PdptEntry(f[k - 1], src, k - 1)]}
           v == CHOOSE f : f = [k \in 0 .. Entries |-> IF k = 0 THEN pmm_alloc_page(m) ELSE PdptEntry(f[k - 1], src, k - 1)]
<1>1. 0 \in G
  <2> DEFINE f == [k \in 0 .. 0 |-> pmm_alloc_page(m)]
  <2>1. f = [k \in 0 .. 0 |-> IF k = 0 THEN pmm_alloc_page(m) ELSE PdptEntry(f[k - 1], src, k - 1)]
    OBVIOUS
  <2> HIDE DEF f
  <2> QED BY <2>1, Zenon
<1>2. ASSUME NEW d \in Nat, d \in G PROVE d + 1 \in G
  <2>1. PICK f : f = [k \in 0 .. d |-> IF k = 0 THEN pmm_alloc_page(m) ELSE PdptEntry(f[k - 1], src, k - 1)]
    BY <1>2, Zenon
  <2> DEFINE g == [k \in 0 .. d + 1 |-> IF k = d + 1 THEN PdptEntry(f[d], src, (d + 1) - 1)
                                       ELSE f[k]]
  <2>2. ASSUME NEW k \in 0 .. d + 1
        PROVE  g[k] = IF k = 0 THEN pmm_alloc_page(m) ELSE PdptEntry(g[k - 1], src, k - 1)
    <3>1. CASE k = d + 1
      <4>1. g[k] = PdptEntry(f[d], src, k - 1) /\ k # 0 /\ k - 1 = d /\ d \in 0 .. d + 1 /\ d # d + 1
        BY <3>1
      <4>2. g[d] = f[d]
        BY <4>1, Zenon
      <4> HIDE DEF g
      <4> QED BY <4>1, <4>2, Zenon
    <3>2. CASE k # d + 1
      <4>1. k \in 0 .. d /\ g[k] = f[k]
        BY <3>2
      <4>2. f[k] = IF k = 0 THEN pmm_alloc_page(m) ELSE PdptEntry(f[k - 1], src, k - 1)
        BY <2>1, <4>1, Zenon
      <4>3. k # 0 => g[k - 1] = f[k - 1]
        BY <4>1
      <4> HIDE DEF g
      <4> QED BY <4>1, <4>2, <4>3, Zenon
    <3> QED BY <3>1, <3>2, Zenon
  <2>3. g = [k \in 0 .. d + 1 |-> g[k]]
    BY Zenon
  <2> HIDE DEF g
  <2>4. g = [k \in 0 .. d + 1 |-> IF k = 0 THEN pmm_alloc_page(m) ELSE PdptEntry(g[k - 1], src, k - 1)]
    BY <2>2, <2>3, Zenon
  <2>5. d + 1 \in Nat
    OBVIOUS
  <2> QED BY <2>4, <2>5, Zenon
<1>3. Nat \subseteq G
  <2> HIDE DEF G
  <2> QED BY <1>1, <1>2, NatSetInduction, Zenon
<1>4. v = [k \in 0 .. Entries |-> IF k = 0 THEN pmm_alloc_page(m) ELSE PdptEntry(v[k - 1], src, k - 1)]
  BY <1>3, Zenon
<1>5. clone_pdpt(m, src) = v[Entries]
  BY Zenon DEF clone_pdpt
<1> HIDE DEF v
<1>6. v[0] = pmm_alloc_page(m) /\ \A k \in 1 .. Entries : v[k] = PdptEntry(v[k - 1], src, k - 1)
  <2>1. 0 \in 0 .. Entries /\ \A k \in 1 .. Entries : k \in 0 .. Entries /\ k # 0
    OBVIOUS
  <2> QED BY <1>4, <2>1, Zenon
<1> QED BY <1>5, <1>6, Zenon DEF ClonePdptRounds

CloneSpaceRounds(w, m, pml4) ==
  /\ w[0] = WithUpperHalf(pmm_alloc_page(m), m, pml4)
  /\ \A k \in 1 .. Entries \div 2 : w[k] = Pml4Entry(w[k - 1], pml4, k - 1)
  /\ vmm_clone_address_space(m, pml4) = w[Entries \div 2]

(* The values of the loop CloneSpace after each of its rounds. *)
LEMMA CloneSpaceLoop ==
  ASSUME NEW m, NEW pml4, Entries \div 2 \in Nat
  PROVE  \E w : CloneSpaceRounds(w, m, pml4)
<1> DEFINE G == {d \in Nat : \E f : f = [k \in 0 .. d |-> IF k = 0 THEN WithUpperHalf(pmm_alloc_page(m), m, pml4) ELSE Pml4Entry(f[k - 1], pml4, k - 1)]}
           v == CHOOSE f : f = [k \in 0 .. Entries \div 2 |-> IF k = 0 THEN WithUpperHalf(pmm_alloc_page(m), m, pml4) ELSE Pml4Entry(f[k - 1], pml4, k - 1)]
<1>1. 0 \in G
  <2> DEFINE f == [k \in 0 .. 0 |-> WithUpperHalf(pmm_alloc_page(m), m, pml4)]
  <2>1. f = [k \in 0 .. 0 |-> IF k = 0 THEN WithUpperHalf(pmm_alloc_page(m), m, pml4) ELSE Pml4Entry(f[k - 1], pml4, k - 1)]
    OBVIOUS
  <2> HIDE DEF f
  <2> QED BY <2>1, Zenon
<1>2. ASSUME NEW d \in Nat, d \in G PROVE d + 1 \in G
  <2>1. PICK f : f = [k \in 0 .. d |-> IF k = 0 THEN WithUpperHalf(pmm_alloc_page(m), m, pml4) ELSE Pml4Entry(f[k - 1], pml4, k - 1)]
    BY <1>2, Zenon
  <2> DEFINE g == [k \in 0 .. d + 1 |-> IF k = d + 1 THEN Pml4Entry(f[d], pml4, (d + 1) - 1)
                                       ELSE f[k]]
  <2>2. ASSUME NEW k \in 0 .. d + 1
        PROVE  g[k] = IF k = 0 THEN WithUpperHalf(pmm_alloc_page(m), m, pml4) ELSE Pml4Entry(g[k - 1], pml4, k - 1)
    <3>1. CASE k = d + 1
      <4>1. g[k] = Pml4Entry(f[d], pml4, k - 1) /\ k # 0 /\ k - 1 = d /\ d \in 0 .. d + 1 /\ d # d + 1
        BY <3>1
      <4>2. g[d] = f[d]
        BY <4>1, Zenon
      <4> HIDE DEF g
      <4> QED BY <4>1, <4>2, Zenon
    <3>2. CASE k # d + 1
      <4>1. k \in 0 .. d /\ g[k] = f[k]
        BY <3>2
      <4>2. f[k] = IF k = 0 THEN WithUpperHalf(pmm_alloc_page(m), m, pml4) ELSE Pml4Entry(f[k - 1], pml4, k - 1)
        BY <2>1, <4>1, Zenon
      <4>3. k # 0 => g[k - 1] = f[k - 1]
        BY <4>1
      <4> HIDE DEF g
      <4> QED BY <4>1, <4>2, <4>3, Zenon
    <3> QED BY <3>1, <3>2, Zenon
  <2>3. g = [k \in 0 .. d + 1 |-> g[k]]
    BY Zenon
  <2> HIDE DEF g
  <2>4. g = [k \in 0 .. d + 1 |-> IF k = 0 THEN WithUpperHalf(pmm_alloc_page(m), m, pml4) ELSE Pml4Entry(g[k - 1], pml4, k - 1)]
    BY <2>2, <2>3, Zenon
  <2>5. d + 1 \in Nat
    OBVIOUS
  <2> QED BY <2>4, <2>5, Zenon
<1>3. Nat \subseteq G
  <2> HIDE DEF G
  <2> QED BY <1>1, <1>2, NatSetInduction, Zenon
<1>4. v = [k \in 0 .. Entries \div 2 |-> IF k = 0 THEN WithUpperHalf(pmm_alloc_page(m), m, pml4) ELSE Pml4Entry(v[k - 1], pml4, k - 1)]
  BY <1>3, Zenon
<1>5. vmm_clone_address_space(m, pml4) = v[Entries \div 2]
  BY Zenon DEF vmm_clone_address_space
<1> HIDE DEF v
<1>6. v[0] = WithUpperHalf(pmm_alloc_page(m), m, pml4) /\ \A k \in 1 .. Entries \div 2 : v[k] = Pml4Entry(v[k - 1], pml4, k - 1)
  <2>1. 0 \in 0 .. Entries \div 2 /\ \A k \in 1 .. Entries \div 2 : k \in 0 .. Entries \div 2 /\ k # 0
    OBVIOUS
  <2> QED BY <1>4, <2>1, Zenon
<1> QED BY <1>5, <1>6, Zenon DEF CloneSpaceRounds

-----------------------------------------------------------------------------
(* Mapping and writing in the space of p, whatever the labels are, so that  *)
(* the steps of a loop compose.                                             *)
MapsOk(r, m, p, t4, S) ==
  \A own, lv : Labelled(m, own, lv) /\ Leads(own, lv, t4, p, 4) => PagesMapped(r, m, own, lv, p, t4, S)

(* Pages mapped in two parts are pages mapped. *)
LEMMA MapsThen ==
  ASSUME NEW r, NEW m, NEW p, NEW t4, NEW S \in SUBSET Nat, NEW r2, NEW n, n = r.m, NEW T,
         MapsOk(r, m, p, t4, S), MapsOk(r2, n, p, t4, T), r2.ok => r.ok
  PROVE  MapsOk(r2, m, p, t4, S \cup T)
<1> SUFFICES ASSUME NEW own, NEW lv, Labelled(m, own, lv), Leads(own, lv, t4, p, 4)
             PROVE  PagesMapped(r2, m, own, lv, p, t4, S \cup T)
  BY Zenon DEF MapsOk
<1>1. PagesMapped(r, m, own, lv, p, t4, S)
  BY Zenon DEF MapsOk
<1>2. PICK own1, lv1 : Grew(m, own, lv, n, own1, lv1, p)
  BY <1>1, Zenon DEF PagesMapped
<1>3. Labelled(n, own1, lv1) /\ Leads(own1, lv1, t4, p, 4)
  BY <1>2, LeadsKept DEF Grew
<1>4. PagesMapped(r2, n, own1, lv1, p, t4, T)
  BY <1>3, Zenon DEF MapsOk
<1>5. PICK n2 : n2 = r2.m
  BY Zenon
<1>6. PICK own2, lv2 : Grew(n, own1, lv1, n2, own2, lv2, p)
  BY <1>4, <1>5, Zenon DEF PagesMapped
<1>7. Grew(m, own, lv, n2, own2, lv2, p)
  BY <1>2, <1>6, GrewTwice, Zenon
<1>8. ASSUME r2.ok, NEW addr \in S \cup T PROVE FrameOf(n2, t4, addr) # NoPage
  <2>1. CASE addr \in T
    BY <1>4, <1>5, <1>8, <2>1, Zenon DEF PagesMapped
  <2>2. CASE addr \in S
    <3>1. FrameOf(n, t4, addr) # NoPage /\ addr \in Nat
      BY <1>1, <1>8, <2>2, Zenon DEF PagesMapped
    <3> QED BY ONLY <3>1, <1>3, <1>6, MappedKept, Zenon
  <2> QED BY <1>8, <2>1, <2>2, Zenon
<1> QED BY <1>5, <1>7, <1>8, Zenon DEF PagesMapped

(* No pages are mapped by doing nothing. *)
LEMMA MapsNone ==
  ASSUME NEW r, NEW m, r.m = m, NEW p, NEW t4, NEW S, r.ok => S = {}
  PROVE  MapsOk(r, m, p, t4, S)
BY GrewNot, Zenon DEF MapsOk, PagesMapped

(* One page mapped. *)
LEMMA MapFrameOk ==
  ASSUME NEW acc, NEW p \in Procs, NEW t4, NEW addr \in Nat, addr < KernelBase
  PROVE  /\ MapsOk(AllocAndMap(acc, t4, addr), acc.m, p, t4, {addr})
         /\ AllocAndMap(acc, t4, addr).ok => acc.ok
<1>1. CASE acc.ok
  <2>1. MapsOk(AllocAndMap(acc, t4, addr), acc.m, p, t4, {addr})
    BY <1>1, MapFrame, Zenon DEF MapsOk
  <2> QED BY <1>1, <2>1, Zenon
<1>2. CASE ~ acc.ok
  <2>1. AllocAndMap(acc, t4, addr) = acc
    BY <1>2, Zenon DEF AllocAndMap
  <2>2. PICK m, S : m = acc.m /\ S = {addr}
    BY Zenon
  <2>3. MapsOk(acc, m, p, t4, S)
    BY <1>2, <2>2, MapsNone, Zenon
  <2> QED BY <1>2, <2>1, <2>2, <2>3, Zenon
<1> QED BY <1>1, <1>2, Zenon

(* The beginnings of count pages from addr on. *)
PageStarts(addr, count) == {addr + j * Entries : j \in 0 .. count - 1}
UserRange(addr, count) == \A j \in 0 .. count - 1 : addr + j * Entries \in Nat /\ addr + j * Entries < KernelBase

(* The loop over the pages maps all of them, or fails with those before mapped. *)
LEMMA MapPagesOk ==
  ASSUME NEW acc, NEW p \in Procs, NEW t4, NEW addr, NEW count \in Nat, UserRange(addr, count)
  PROVE  /\ MapsOk(MapPages(acc, t4, addr, count), acc.m, p, t4, PageStarts(addr, count))
         /\ MapPages(acc, t4, addr, count).ok => acc.ok
<1>0. PICK w : MapPagesRounds(w, acc, t4, addr, count)
  BY MapPagesLoop, Zenon
<1>1. /\ w[0] = acc
      /\ \A k \in 1 .. count : w[k] = AllocAndMap(w[k - 1], t4, addr + (k - 1) * Entries)
      /\ MapPages(acc, t4, addr, count) = w[count]
  BY <1>0, Zenon DEF MapPagesRounds
<1>2. PICK m : m = acc.m
  BY Zenon
<1> DEFINE G == {k \in Nat : k <= count => /\ MapsOk(w[k], m, p, t4, PageStarts(addr, k))
                                           /\ w[k].ok => acc.ok}
<1>3. 0 \in G
  <2>1. PageStarts(addr, 0) = {}
    BY DEF PageStarts
  <2>2. PICK S : S = PageStarts(addr, 0)
    BY Zenon
  <2>3. MapsOk(acc, m, p, t4, S)
    BY <1>2, <2>1, <2>2, MapsNone, Zenon
  <2> QED BY <1>1, <2>2, <2>3, Zenon
<1>4. ASSUME NEW k \in Nat, k \in G PROVE k + 1 \in G
  <2> SUFFICES ASSUME k + 1 <= count
               PROVE  MapsOk(w[k + 1], m, p, t4, PageStarts(addr, k + 1)) /\ (w[k + 1].ok => acc.ok)
    OBVIOUS
  <2>1. PICK r, r2, a, S : r = w[k] /\ r2 = w[k + 1] /\ a = addr + k * Entries /\ S = PageStarts(addr, k)
    BY Zenon
  <2>2. MapsOk(r, m, p, t4, S) /\ (r.ok => acc.ok)
    BY <1>4, <2>1
  <2>3. k + 1 \in 1 .. count /\ (k + 1) - 1 = k /\ k \in 0 .. count - 1
    OBVIOUS
  <2>4. r2 = AllocAndMap(r, t4, a)
    BY <1>1, <2>1, <2>3, Zenon
  <2>5. a \in Nat /\ a < KernelBase
    BY <2>1, <2>3, Zenon DEF UserRange
  <2>6. PICK n, T : n = r.m /\ T = {a}
    BY Zenon
  <2>7. MapsOk(r2, n, p, t4, T) /\ (r2.ok => r.ok)
    BY <2>4, <2>5, <2>6, MapFrameOk, Zenon
  <2>8. S \in SUBSET Nat
    <3>1. \A j \in 0 .. k - 1 : j \in 0 .. count - 1
      BY <2>3
    <3> QED BY <2>1, <3>1, Zenon DEF PageStarts, UserRange
  <2>9. MapsOk(r2, m, p, t4, S \cup T)
    BY ONLY <2>2, <2>6, <2>7, <2>8, MapsThen, Zenon
  <2>10. S \cup T = PageStarts(addr, k + 1)
    <3>1. 0 .. (k + 1) - 1 = (0 .. k - 1) \cup {k}
      OBVIOUS
    <3> QED BY <2>1, <2>6, <3>1, Zenon DEF PageStarts
  <2> QED BY <2>1, <2>2, <2>7, <2>9, <2>10, Zenon
<1>5. Nat \subseteq G
  <2> HIDE DEF G
  <2> QED BY <1>3, <1>4, NatSetInduction, Zenon
<1>6. count \in G /\ count <= count
  BY <1>5
<1>7. MapsOk(w[count], m, p, t4, PageStarts(addr, count)) /\ (w[count].ok => acc.ok)
  BY <1>6, Zenon
<1> QED BY <1>1, <1>2, <1>7, Zenon

(* vmm_alloc_user_pages maps all its pages or fails. *)
LEMMA AllocUserPages ==
  ASSUME NEW m, NEW p \in Procs, NEW t4, NEW addr, NEW count \in Nat, UserRange(addr, count)
  PROVE  MapsOk(vmm_alloc_user_pages(m, t4, addr, count), m, p, t4, PageStarts(addr, count))
<1>1. PICK acc : acc = [m |-> m, ok |-> addr < KernelBase]
  BY Zenon
<1>2. acc.m = m
  BY <1>1, Zenon
<1>3. vmm_alloc_user_pages(m, t4, addr, count) = MapPages(acc, t4, addr, count)
  BY <1>1, Zenon DEF vmm_alloc_user_pages
<1> QED BY <1>2, <1>3, MapPagesOk, Zenon

StackStart == UserStackTop - StackPages * Entries

(* The pages of the stack are in user space. *)
LEMMA StackLayout ==
  /\ StackStart \in Nat /\ StackPages \in Nat /\ UserRange(StackStart, StackPages)
  /\ StackStart + StackPages * Entries = KernelBase
<1>1. /\ StackPages \in Nat /\ Entries \in Nat /\ Entries > 0 /\ KernelBase \in Nat
      /\ StackPages * Entries <= KernelBase /\ UserStackTop = KernelBase
  BY LayoutAssumption, Halves DEF UserStackTop
<1>2. StackPages * Entries \in Nat
  BY <1>1
<1>3. StackStart \in Nat /\ StackStart + StackPages * Entries = KernelBase
  BY <1>1, <1>2 DEF StackStart
<1>4. ASSUME NEW j \in 0 .. StackPages - 1
      PROVE  StackStart + j * Entries \in Nat /\ StackStart + j * Entries < KernelBase
  <2>1. j \in Nat /\ j < StackPages
    BY <1>1
  <2>2. j * Entries + Entries <= StackPages * Entries
    BY <1>1, <2>1, Rows, Zenon
  <2>3. j * Entries \in Nat
    BY <1>1, <2>1
  <2> QED BY <1>1, <1>2, <1>3, <2>2, <2>3
<1> QED BY <1>1, <1>3, <1>4, Zenon DEF UserRange

(* vmm_setup_user_stack maps the stack or fails. *)
LEMMA SetupStack ==
  ASSUME NEW m, NEW p \in Procs, NEW t4
  PROVE  MapsOk(vmm_setup_user_stack(m, t4), m, p, t4, PageStarts(StackStart, StackPages))
BY StackLayout, AllocUserPages, Zenon DEF vmm_setup_user_stack, StackStart

(* The pages sbrk maps: those of n pages from the break on that begin at or *)
(* above it.                                                                *)
GrowStarts(heap, n) ==
  {g * Entries : g \in {h \in PageOf(heap) .. PageOf(heap) + n - 1 : h * Entries >= heap}}

(* One page of a growing heap: mapped before, mapped now, or out of memory. *)
LEMMA GrowPageOk ==
  ASSUME NEW acc, NEW p \in Procs, NEW t4, NEW heap, NEW page \in Nat, NEW m, m = acc.m,
         NEW T, T = {g * Entries : g \in {h \in {page} : h * Entries >= heap}},
         page * Entries < KernelBase
  PROVE  /\ MapsOk(GrowPage(acc, t4, heap, page), m, p, t4, T)
         /\ GrowPage(acc, t4, heap, page).ok => acc.ok
<1> DEFINE r == GrowPage(acc, t4, heap, page)
<1>1. CASE acc.ok /\ page * Entries >= heap
  <2>1. r = vmm_alloc_user_pages(m, t4, page * Entries, 1)
    BY <1>1, Zenon DEF GrowPage, Grows
  <2>2. PICK a, c : a = page * Entries /\ c = 1
    BY Zenon
  <2>3. a \in Nat /\ a < KernelBase /\ c \in Nat
    BY <2>2, Sizes
  <2>4. 0 .. c - 1 = {0} /\ a + 0 * Entries = a
    BY <2>2, <2>3, Sizes
  <2>5. UserRange(a, c) /\ PageStarts(a, c) = {a}
    <3>1. UserRange(a, c)
      BY <2>3, <2>4, Zenon DEF UserRange
    <3>2. PageStarts(a, c) = {a + 0 * Entries}
      BY <2>4, Zenon DEF PageStarts
    <3> QED BY <2>4, <3>1, <3>2, Zenon
  <2>6. MapsOk(vmm_alloc_user_pages(m, t4, a, c), m, p, t4, PageStarts(a, c))
    BY <2>3, <2>5, AllocUserPages, Zenon
  <2>7. T = {a}
    BY <1>1, <2>2, Zenon
  <2> QED BY <1>1, <2>1, <2>2, <2>5, <2>6, <2>7, Zenon
<1>2. CASE ~ (acc.ok /\ page * Entries >= heap)
  <2>1. r = acc
    BY <1>2, Zenon DEF GrowPage, Grows
  <2>2. acc.ok => T = {}
    BY <1>2, Zenon
  <2>3. MapsOk(acc, m, p, t4, T)
    BY <2>2, MapsNone, Zenon
  <2> QED BY <2>1, <2>3, Zenon
<1> QED BY <1>1, <1>2, Zenon

(* The loop of sys_sbrk maps every page below the new break, or fails. *)
LEMMA GrowHeapOk ==
  ASSUME NEW m, NEW p \in Procs, NEW t4, NEW heap, NEW new, NEW pages \in Nat,
         pages = RoundUp(new) - PageOf(heap), PageOf(heap) \in Nat,
         \A g \in PageOf(heap) .. PageOf(heap) + pages - 1 : g * Entries < KernelBase
  PROVE  MapsOk(GrowHeap(m, t4, heap, new), m, p, t4, GrowStarts(heap, pages))
<1>0. PICK w : GrowHeapRounds(w, m, t4, heap, new, pages)
  BY GrowHeapLoop, Zenon
<1>1. /\ w[0] = [m |-> m, ok |-> TRUE]
      /\ \A k \in 1 .. pages : w[k] = GrowPage(w[k - 1], t4, heap, PageOf(heap) + k - 1)
      /\ GrowHeap(m, t4, heap, new) = w[pages]
  BY <1>0, Zenon DEF GrowHeapRounds
<1> DEFINE G == {k \in Nat : k <= pages => MapsOk(w[k], m, p, t4, GrowStarts(heap, k))}
<1>3. 0 \in G
  <2>1. GrowStarts(heap, 0) = {}
    BY DEF GrowStarts
  <2>2. PICK S, r : S = GrowStarts(heap, 0) /\ r = w[0]
    BY Zenon
  <2>3. r.m = m /\ S = {}
    BY <1>1, <2>1, <2>2
  <2>4. MapsOk(r, m, p, t4, S)
    BY <2>3, MapsNone, Zenon
  <2> QED BY <2>2, <2>4, Zenon
<1>4. ASSUME NEW k \in Nat, k \in G PROVE k + 1 \in G
  <2> SUFFICES ASSUME k + 1 <= pages PROVE MapsOk(w[k + 1], m, p, t4, GrowStarts(heap, k + 1))
    OBVIOUS
  <2>1. PICK r, r2, a, S : r = w[k] /\ r2 = w[k + 1] /\ a = PageOf(heap) + k /\ S = GrowStarts(heap, k)
    BY Zenon
  <2>2. MapsOk(r, m, p, t4, S)
    BY <1>4, <2>1
  <2>3. k + 1 \in 1 .. pages /\ (k + 1) - 1 = k /\ PageOf(heap) + (k + 1) - 1 = a
        /\ a \in PageOf(heap) .. PageOf(heap) + pages - 1 /\ a \in Nat
    BY <2>1
  <2>4. r2 = GrowPage(r, t4, heap, a)
    BY <1>1, <2>1, <2>3, Zenon
  <2>5. a * Entries < KernelBase
    BY <2>3, Zenon
  <2>6. PICK n, T : n = r.m /\ T = {g * Entries : g \in {h \in {a} : h * Entries >= heap}}
    BY Zenon
  <2>7. MapsOk(r2, n, p, t4, T) /\ (r2.ok => r.ok)
    BY <2>3, <2>4, <2>5, <2>6, GrowPageOk, Zenon
  <2>8. S \in SUBSET Nat
    <3>1. \A g \in PageOf(heap) .. PageOf(heap) + k - 1 : g \in Nat /\ g * Entries \in Nat
      BY Sizes
    <3> QED BY <2>1, <3>1, Zenon DEF GrowStarts
  <2>9. MapsOk(r2, m, p, t4, S \cup T)
    BY ONLY <2>2, <2>6, <2>7, <2>8, MapsThen, Zenon
  <2>10. S \cup T = GrowStarts(heap, k + 1)
    <3>1. PageOf(heap) .. PageOf(heap) + (k + 1) - 1 = (PageOf(heap) .. PageOf(heap) + k - 1) \cup {a}
      BY <2>1
    <3> QED BY <2>1, <2>6, <3>1, Zenon DEF GrowStarts
  <2> QED BY <2>1, <2>9, <2>10, Zenon
<1>5. Nat \subseteq G
  <2> HIDE DEF G
  <2> QED BY <1>3, <1>4, NatSetInduction, Zenon
<1>6. pages \in G /\ pages <= pages
  BY <1>5
<1>7. MapsOk(w[pages], m, p, t4, GrowStarts(heap, pages))
  BY <1>6, Zenon
<1> QED BY <1>1, <1>7, Zenon

(* Addresses in one page have one frame. *)
LEMMA SamePage ==
  ASSUME NEW m, NEW t4, NEW a, NEW b, PageOf(a) = PageOf(b)
  PROVE  FrameOf(m, t4, a) = FrameOf(m, t4, b)
<1>1. PML4_INDEX(a) = PML4_INDEX(b) /\ PDPT_INDEX(a) = PDPT_INDEX(b)
      /\ PD_INDEX(a) = PD_INDEX(b) /\ PT_INDEX(a) = PT_INDEX(b)
  BY Zenon DEF PML4_INDEX, PDPT_INDEX, PD_INDEX, PT_INDEX
<1> QED BY <1>1, Zenon DEF FrameOf

(* The physical address a mapped address has. *)
LEMMA PhysicalFacts ==
  ASSUME NEW m, NEW own, NEW lv, Labelled(m, own, lv), NEW p, NEW addr \in Nat,
         NEW t4, Leads(own, lv, t4, p, 4), NEW f, f = FrameOf(m, t4, addr), f # NoPage
  PROVE  /\ vmm_get_physical(m, t4, addr) \in Nat /\ vmm_get_physical(m, t4, addr) # 0
         /\ vmm_get_physical(m, t4, addr) = f * Entries + OffsetIn(addr)
         /\ PageOf(vmm_get_physical(m, t4, addr)) = f
         /\ OffsetIn(vmm_get_physical(m, t4, addr)) = OffsetIn(addr)
         /\ Leads(own, lv, f, p, 0) /\ f \in DOMAIN own /\ f \in Nat /\ OffsetIn(addr) \in Index
<1>1. Leads(own, lv, f, p, 0)
  BY WalkFound, Zenon
<1>2. f \in Nat /\ f > 0 /\ f \in DOMAIN own
  <2>1. f \in DOMAIN own
    BY <1>1, Zenon DEF Leads
  <2>2. DOMAIN own \subseteq Nat /\ NoPage \notin DOMAIN own /\ NoPage = 0
    BY LabelledFacts, PageSets, Zenon
  <2> QED BY <2>1, <2>2
<1>3. PICK o, x : o = OffsetIn(addr) /\ x = f * Entries + o
  BY Zenon
<1>4. o \in Index /\ o \in Nat /\ o < Entries /\ Entries \in Nat \ {0}
  BY <1>3, Indices, Sizes DEF Index
<1>5. f * Entries \in Nat /\ f * Entries > 0
  BY <1>2, <1>4
<1>6. x \in Nat /\ f * Entries <= x /\ x < f * Entries + Entries /\ x # 0 /\ x - f * Entries = o
  BY <1>3, <1>4, <1>5
<1>7. x \div Entries = f /\ x % Entries = o
  <2>1. x \div Entries = f /\ x % Entries = x - f * Entries
    BY <1>2, <1>4, <1>6, OnlyQuotient, Zenon
  <2> QED BY <1>6, <2>1, Zenon
<1>8. vmm_get_physical(m, t4, addr) = x
  BY <1>3, Zenon DEF vmm_get_physical
<1> QED BY <1>1, <1>2, <1>3, <1>4, <1>6, <1>7, <1>8, Zenon DEF PageOf, OffsetIn

-----------------------------------------------------------------------------
(* Writing to data frames: the stores of a program and the loader's copies. *)
LEMMA StoreOk ==
  ASSUME NEW m, NEW own, NEW lv, Labelled(m, own, lv), NEW p, NEW to, Leads(own, lv, PageOf(to), p, 0),
         OffsetIn(to) \in Index, NEW w \in Nat
  PROVE  Grew(m, own, lv, Store(m, to, w), own, lv, p)
<1>1. PICK f, i : f = PageOf(to) /\ i = OffsetIn(to)
  BY Zenon
<1>2. f \in DOMAIN own /\ own[f] = p /\ lv[f] = 0 /\ i \in Index
  BY <1>1, Zenon DEF Leads
<1>3. PICK n : n = SetWord(m, f, i, w)
  BY Zenon
<1>4. Labelled(n, own, lv) /\ WordSet(n, m, f, i, w)
  BY <1>2, <1>3, DataStored, Zenon
<1>5. \A g \in DOMAIN own : g # f => n.mem[g] = m.mem[g]
  BY <1>4, LabelledFacts, Zenon DEF WordSet
<1>6. Grew(m, own, lv, n, own, lv, p)
  BY <1>2, <1>4, <1>5 DEF Grew, Extends
<1> QED BY <1>1, <1>3, <1>6, Zenon DEF Store

(* The word after another is in the same page, or the first of a page. *)
LEMMA NextWord ==
  ASSUME NEW x \in Nat
  PROVE  /\ OffsetIn(x) \in 0 .. Entries - 1 /\ PageOf(x) \in Nat
         /\ OffsetIn(x + 1) # 0 => /\ PageOf(x + 1) = PageOf(x) /\ OffsetIn(x + 1) = OffsetIn(x) + 1
         /\ OffsetIn(x) + 1 < Entries => /\ PageOf(x + 1) = PageOf(x) /\ OffsetIn(x + 1) = OffsetIn(x) + 1
<1>0. Entries \in Nat \ {0}
  BY Sizes
<1>1. PICK q, o : q = PageOf(x) /\ o = OffsetIn(x)
  BY Zenon
<1>2. /\ q \in Nat /\ q * Entries \in Nat /\ o \in 0 .. Entries - 1 /\ x = q * Entries + o
  BY <1>0, <1>1, Quotient, Zenon DEF PageOf, OffsetIn
<1>3. ASSUME o + 1 < Entries PROVE PageOf(x + 1) = q /\ OffsetIn(x + 1) = o + 1
  <2>1. q * Entries <= x + 1 /\ x + 1 < q * Entries + Entries /\ x + 1 \in Nat /\ (x + 1) - q * Entries = o + 1
    BY <1>0, <1>2, <1>3
  <2>2. (x + 1) \div Entries = q /\ (x + 1) % Entries = (x + 1) - q * Entries
    BY <1>0, <1>2, <2>1, OnlyQuotient, Zenon
  <2> QED BY <2>1, <2>2, Zenon DEF PageOf, OffsetIn
<1>4. ASSUME ~ (o + 1 < Entries) PROVE OffsetIn(x + 1) = 0
  <2>1. (q + 1) * Entries = q * Entries + Entries
    BY <1>0, <1>2
  <2>2. x + 1 = q * Entries + Entries
    BY <1>0, <1>2, <1>4
  <2>3. (q + 1) * Entries <= x + 1 /\ x + 1 < (q + 1) * Entries + Entries /\ x + 1 \in Nat
    BY <1>0, <1>2, <2>1, <2>2, SMTT(30)
  <2>4. (x + 1) % Entries = (x + 1) - (q + 1) * Entries
    BY <1>0, <1>2, <2>3, OnlyQuotient
  <2> QED BY <1>0, <1>2, <2>1, <2>2, <2>4 DEF OffsetIn
<1> QED BY <1>1, <1>2, <1>3, <1>4, Zenon

(* After i words: the tables are as they were, and the last word went where *)
(* address addr + i - 1 is mapped.                                          *)
CopyInv(c, m, own, lv, p, addr, i) ==
  /\ Grew(m, own, lv, c.m, own, lv, p)
  /\ c.ok /\ i > 0 => /\ c.to \in Nat /\ Leads(own, lv, PageOf(c.to), p, 0)
                      /\ OffsetIn(c.to) = OffsetIn(addr + i - 1)

(* One word of a segment goes to a data page of the process, or none is mapped there. *)
LEMMA CopyWordOk ==
  ASSUME NEW m, NEW own, NEW lv, NEW p, NEW t4, Leads(own, lv, t4, p, 4), NEW addr \in Nat, OffsetIn(addr) = 0,
         NEW i \in Nat, NEW w \in Nat, NEW c, CopyInv(c, m, own, lv, p, addr, i)
  PROVE  /\ CopyInv(CopyWord(c, t4, addr, i, w), m, own, lv, p, addr, i + 1)
         /\ CopyWord(c, t4, addr, i, w).ok => c.ok
<1> DEFINE r == CopyWord(c, t4, addr, i, w)
           a == addr + i
           paddr == vmm_get_physical(c.m, t4, a)
<1>0. a \in Nat /\ addr + (i + 1) - 1 = a /\ i + 1 > 0
  OBVIOUS
<1>1. PICK n : n = c.m
  BY Zenon
<1>2. Grew(m, own, lv, n, own, lv, p) /\ Labelled(n, own, lv)
  BY <1>1, Zenon DEF CopyInv, Grew
<1>w. ASSUME NEW to \in Nat, Leads(own, lv, PageOf(to), p, 0), OffsetIn(to) = OffsetIn(a), c.ok,
             r = Written(c, to, w)
      PROVE  CopyInv(r, m, own, lv, p, addr, i + 1)
  <2> HIDE DEF r
  <2>1. OffsetIn(to) \in Index
    BY <1>0, <1>w, Indices, Zenon
  <2>2. PICK n2 : n2 = Store(n, to, w)
    BY Zenon
  <2>3. Grew(n, own, lv, n2, own, lv, p)
    BY <1>2, <1>w, <2>1, <2>2, StoreOk, Zenon
  <2>4. Grew(m, own, lv, n2, own, lv, p)
    BY <1>2, <2>3, GrewTwice, Zenon
  <2>5. r.m = n2 /\ r.to = to
    BY <1>1, <1>w, <2>2, Zenon DEF Written
  <2>6. OffsetIn(to) = OffsetIn(addr + (i + 1) - 1)
    BY <1>0, <1>w, Zenon
  <2> QED BY <1>w, <2>4, <2>5, <2>6, Zenon DEF CopyInv
<1>3. CASE ~ c.ok
  <2>1. r = c
    BY <1>3, Zenon DEF CopyWord
  <2> QED BY <1>1, <1>2, <1>3, <2>1, Zenon DEF CopyInv
<1>4. CASE c.ok /\ StartsPage(addr, i) /\ paddr = 0
  <2>1. r = [m |-> c.m, ok |-> FALSE, to |-> c.to]
    BY <1>4, Zenon DEF CopyWord
  <2>2. r.m = n /\ r.ok = FALSE
    BY <1>1, <2>1
  <2> HIDE DEF r
  <2>3. CopyInv(r, m, own, lv, p, addr, i + 1)
    BY <1>2, <2>2, Zenon DEF CopyInv
  <2> QED BY <1>4, <2>3, Zenon DEF r
<1>5. CASE c.ok /\ StartsPage(addr, i) /\ paddr # 0
  <2>1. OffsetIn(a) = 0
    BY <1>5 DEF StartsPage
  <2>2. r = Written(c, paddr + OffsetIn(a), w)
    BY <1>5, Zenon DEF CopyWord
  <2>3. PICK f : f = FrameOf(n, t4, a)
    BY Zenon
  <2>4. f # NoPage
    BY <1>1, <1>5, <2>3, Zenon DEF vmm_get_physical
  <2>5. PICK x : x = vmm_get_physical(n, t4, a)
    BY Zenon
  <2>6. x \in Nat /\ PageOf(x) = f /\ OffsetIn(x) = OffsetIn(a) /\ Leads(own, lv, f, p, 0)
    BY ONLY <1>0, <1>2, <2>3, <2>4, <2>5, PhysicalFacts, Leads(own, lv, t4, p, 4), SMTT(30)
  <2>7. r = Written(c, x, w)
    BY <1>1, <2>1, <2>2, <2>5, <2>6
  <2>8. CopyInv(r, m, own, lv, p, addr, i + 1)
    <3> HIDE DEF r, a
    <3> QED BY <1>5, <2>6, <2>7, <1>w, Zenon
  <2> QED BY <1>5, <2>8, Zenon
<1>6. CASE c.ok /\ ~ StartsPage(addr, i)
  <2>1. i > 0 /\ OffsetIn(a) # 0
    BY <1>6 DEF StartsPage
  <2>2. r = Written(c, c.to + 1, w)
    BY <1>6, Zenon DEF CopyWord
  <2>3. PICK to, b : to = c.to /\ b = addr + i - 1
    BY Zenon
  <2>4. to \in Nat /\ Leads(own, lv, PageOf(to), p, 0) /\ OffsetIn(to) = OffsetIn(b) /\ b \in Nat /\ b + 1 = a
    BY <1>6, <2>1, <2>3 DEF CopyInv
  <2>5. OffsetIn(a) = OffsetIn(b) + 1 /\ OffsetIn(a) \in 0 .. Entries - 1
    BY <1>0, <2>1, <2>4, NextWord, Zenon
  <2>6. OffsetIn(to) + 1 < Entries
    BY <2>4, <2>5, Sizes
  <2>7. PageOf(to + 1) = PageOf(to) /\ OffsetIn(to + 1) = OffsetIn(a) /\ to + 1 \in Nat
    BY <2>4, <2>5, <2>6, NextWord
  <2>8. r = Written(c, to + 1, w)
    BY <2>2, <2>3, Zenon
  <2>9. CopyInv(r, m, own, lv, p, addr, i + 1)
    <3> HIDE DEF r, a
    <3>1. PICK x : x = to + 1
      BY Zenon
    <3>2. x \in Nat /\ Leads(own, lv, PageOf(x), p, 0) /\ OffsetIn(x) = OffsetIn(a) /\ r = Written(c, x, w)
      BY <2>4, <2>7, <2>8, <3>1, Zenon
    <3> QED BY <1>6, <3>2, <1>w, Zenon
  <2> QED BY <1>6, <2>9, Zenon
<1> QED BY <1>3, <1>4, <1>5, <1>6, Zenon

(* Mapping pages is a growth, whatever the pages. *)
LEMMA MapsLess ==
  ASSUME NEW r, NEW m, NEW p, NEW t4, NEW S, MapsOk(r, m, p, t4, S)
  PROVE  MapsOk(r, m, p, t4, {})
BY Zenon DEF MapsOk, PagesMapped

(* Copying a segment writes to data pages of the process only. *)
LEMMA CopyOutOk ==
  ASSUME NEW acc, NEW m, m = acc.m, NEW p, NEW t4, NEW addr \in Nat, NEW words \in Seq(Nat),
         Len(words) > 0 => OffsetIn(addr) = 0
  PROVE  /\ MapsOk(CopyOut(acc, t4, addr, words), m, p, t4, {})
         /\ CopyOut(acc, t4, addr, words).ok => acc.ok
<1>0. Len(words) \in Nat /\ \A k \in 1 .. Len(words) : words[k] \in Nat
  OBVIOUS
<1>1. PICK w : CopyOutRounds(w, acc, t4, addr, words)
  BY <1>0, CopyOutLoop, Zenon
<1>2. /\ w[0] = [m |-> m, ok |-> acc.ok, to |-> 0]
      /\ \A k \in 1 .. Len(words) : w[k] = CopyWord(w[k - 1], t4, addr, k - 1, words[k])
      /\ CopyOut(acc, t4, addr, words) = w[Len(words)]
  BY <1>1, Zenon DEF CopyOutRounds
<1>3. ASSUME NEW own, NEW lv, Labelled(m, own, lv), Leads(own, lv, t4, p, 4)
      PROVE  CopyInv(w[Len(words)], m, own, lv, p, addr, Len(words))
  <2> DEFINE G == {k \in Nat : k <= Len(words) => CopyInv(w[k], m, own, lv, p, addr, k)}
  <2>1. 0 \in G
    <3>1. w[0].m = m
      BY <1>2
    <3> QED BY <1>3, <3>1, GrewNot, SMTT(30) DEF CopyInv
  <2>2. ASSUME NEW k \in Nat, k \in G PROVE k + 1 \in G
    <3> SUFFICES ASSUME k + 1 <= Len(words) PROVE CopyInv(w[k + 1], m, own, lv, p, addr, k + 1)
      OBVIOUS
    <3>1. PICK c, x : c = w[k] /\ x = words[k + 1]
      BY Zenon
    <3>2. k + 1 \in 1 .. Len(words) /\ (k + 1) - 1 = k /\ k <= Len(words)
      BY <1>0
    <3>3. CopyInv(c, m, own, lv, p, addr, k) /\ x \in Nat
      BY <1>0, <2>2, <3>1, <3>2, Zenon
    <3>4. w[k + 1] = CopyWord(c, t4, addr, k, x)
      BY <1>2, <3>1, <3>2, Zenon
    <3>5. OffsetIn(addr) = 0
      BY <1>0, <3>2
    <3> QED BY <1>3, <3>3, <3>4, <3>5, CopyWordOk, Zenon
  <2>3. Nat \subseteq G
    <3> HIDE DEF G
    <3> QED BY <2>1, <2>2, NatSetInduction, Zenon
  <2> QED BY <1>0, <2>3, SMTT(30)
<1>4. MapsOk(CopyOut(acc, t4, addr, words), m, p, t4, {})
  <2>1. ASSUME NEW own, NEW lv, Labelled(m, own, lv), Leads(own, lv, t4, p, 4)
        PROVE  PagesMapped(w[Len(words)], m, own, lv, p, t4, {})
    BY <1>3, <2>1, Zenon DEF CopyInv, PagesMapped
  <2> QED BY <1>2, <2>1, Zenon DEF MapsOk
<1>5. w[Len(words)].ok => acc.ok
  <2> DEFINE G == {k \in Nat : k <= Len(words) => (w[k].ok => acc.ok)}
  <2>1. 0 \in G
    BY <1>2
  <2>2. ASSUME NEW k \in Nat, k \in G PROVE k + 1 \in G
    <3> SUFFICES ASSUME k + 1 <= Len(words) PROVE w[k + 1].ok => acc.ok
      OBVIOUS
    <3>1. k + 1 \in 1 .. Len(words) /\ (k + 1) - 1 = k /\ k <= Len(words)
      BY <1>0
    <3>2. w[k + 1] = CopyWord(w[k], t4, addr, k, words[k + 1])
      BY <1>2, <3>1, Zenon
    <3>3. ~ w[k].ok => w[k + 1] = w[k]
      BY <3>2, Zenon DEF CopyWord
    <3> QED BY <2>2, <3>1, <3>3, Zenon
  <2>3. Nat \subseteq G
    <3> HIDE DEF G
    <3> QED BY <2>1, <2>2, NatSetInduction, Zenon
  <2> QED BY <1>0, <2>3, SMTT(30)
<1> QED BY <1>2, <1>4, <1>5, Zenon

(* A segment as ImagesAssumption has it. *)
SegmentOk(seg) ==
  /\ seg \in Segments /\ seg.filesz <= seg.memsz /\ seg.vaddr + seg.memsz <= KernelBase
  /\ seg.filesz > 0 => OffsetIn(seg.vaddr) = 0
  /\ seg.memsz > seg.filesz => OffsetIn(seg.vaddr + seg.filesz) = 0

(* Rounding up to a page gives the next multiple of the page size. *)
LEMMA RoundUpFacts ==
  ASSUME NEW x \in Nat
  PROVE  /\ RoundUp(x) \in Nat /\ x <= RoundUp(x) * Entries /\ RoundUp(x) * Entries \in Nat
         /\ \A g \in Nat : g < RoundUp(x) => g * Entries < x
<1>0. Entries \in Nat \ {0}
  BY Sizes
<1>1. PICK q : q = RoundUp(x)
  BY Zenon
<1>2. x + Entries - 1 \in Nat
  BY <1>0
<1>3. q \in Nat /\ q * Entries \in Nat /\ q * Entries <= x + Entries - 1 /\ x + Entries - 1 < q * Entries + Entries
  BY <1>0, <1>1, <1>2, Quotient, Zenon DEF RoundUp, PageOf
<1>4. ASSUME NEW g \in Nat, g < q PROVE g * Entries < x
  <2>1. g * Entries + Entries <= q * Entries /\ g * Entries \in Nat
    BY <1>0, <1>3, <1>4, Rows
  <2> QED BY <1>0, <1>3, <2>1
<1> QED BY <1>0, <1>1, <1>3, <1>4

(* Mapping a segment is a growth. *)
LEMMA MapSegmentOk ==
  ASSUME NEW acc, NEW m, m = acc.m, NEW p \in Procs, NEW t4, NEW seg, SegmentOk(seg)
  PROVE  /\ MapsOk(MapSegment(acc, t4, seg), m, p, t4, {})
         /\ MapSegment(acc, t4, seg).ok => acc.ok
<1>0. Entries \in Nat \ {0} /\ KernelBase \in Nat
  BY Sizes, Halves
<1>1. PICK v, e : v = seg.vaddr /\ e = seg.vaddr + seg.memsz
  BY Zenon
<1>2. v \in Nat /\ e \in Nat /\ v <= e /\ e <= KernelBase
  BY <1>1 DEF SegmentOk, Segments
<1>3. PICK q, n : q = PageOf(v) /\ n = RoundUp(e)
  BY Zenon
<1>4. q \in Nat /\ q * Entries \in Nat /\ q * Entries <= v /\ v < q * Entries + Entries
  BY <1>0, <1>2, <1>3, Quotient, Zenon DEF PageOf
<1>5. n \in Nat /\ e <= n * Entries /\ n * Entries \in Nat /\ \A g \in Nat : g < n => g * Entries < e
  BY <1>2, <1>3, RoundUpFacts, Zenon
<1>6. q <= n
  <2>1. ASSUME n < q PROVE FALSE
    <3>1. n * Entries + Entries <= q * Entries
      BY <1>0, <1>4, <1>5, <2>1, Rows, Zenon
    <3> QED BY <1>0, <1>2, <1>4, <1>5, <3>1
  <2> QED BY <1>4, <1>5, <2>1
<1>7. PICK a, c : a = q * Entries /\ c = n - q
  BY Zenon
<1>8. c \in Nat /\ a \in Nat
  BY <1>4, <1>5, <1>6, <1>7
<1>9. UserRange(a, c)
  <2>1. ASSUME NEW j \in 0 .. c - 1 PROVE a + j * Entries \in Nat /\ a + j * Entries < KernelBase
    <3>1. j \in Nat /\ q + j \in Nat /\ q + j < n
      BY <1>4, <1>5, <1>7, <1>8, SMTT(30)
    <3>2. (q + j) * Entries = q * Entries + j * Entries
      BY <1>0, <1>4, <3>1, SMTT(30)
    <3>3. (q + j) * Entries < e /\ (q + j) * Entries \in Nat
      BY <1>0, <1>5, <3>1
    <3>4. a + j * Entries = (q + j) * Entries
      BY <1>7, <3>2, Zenon
    <3> QED BY <1>0, <1>2, <3>3, <3>4, SMTT(30)
  <2> QED BY <2>1, Zenon DEF UserRange
<1>10. MapSegment(acc, t4, seg) = MapPages(acc, t4, a, c)
  BY <1>1, <1>3, <1>7, Zenon DEF MapSegment
<1>11. PICK r, S : r = MapPages(acc, t4, a, c) /\ S = PageStarts(a, c)
  BY Zenon
<1>12. MapsOk(r, m, p, t4, S) /\ (r.ok => acc.ok)
  BY <1>8, <1>9, <1>11, MapPagesOk, Zenon
<1>13. MapsOk(r, m, p, t4, {})
  BY <1>12, MapsLess, Zenon
<1> QED BY <1>10, <1>11, <1>12, <1>13, Zenon

(* One step after another, when nothing new is asked to be mapped. *)
LEMMA MapsAfter ==
  ASSUME NEW r, NEW m, NEW p, NEW t4, NEW r2, NEW n, n = r.m,
         MapsOk(r, m, p, t4, {}), MapsOk(r2, n, p, t4, {}), r2.ok => r.ok
  PROVE  MapsOk(r2, m, p, t4, {})
<1>1. PICK S : S = {}
  BY Zenon
<1>2. S \in SUBSET Nat /\ MapsOk(r, m, p, t4, S) /\ MapsOk(r2, n, p, t4, S) /\ S \cup S = {}
  BY <1>1, Zenon
<1>3. MapsOk(r2, m, p, t4, S \cup S)
  BY <1>2, MapsThen, Zenon
<1> QED BY <1>2, <1>3, Zenon

(* Loading a segment is a growth. *)
LEMMA LoadSegmentOk ==
  ASSUME NEW acc, NEW m, m = acc.m, NEW p \in Procs, NEW t4, NEW seg, SegmentOk(seg)
  PROVE  /\ MapsOk(LoadSegment(acc, t4, seg), m, p, t4, {})
         /\ LoadSegment(acc, t4, seg).ok => acc.ok
<1>1. PICK a, v, file, b, e, zeros :
        /\ a = MapSegment(acc, t4, seg) /\ v = seg.vaddr /\ file = FileContent(seg)
        /\ b = CopyOut(a, t4, v, file) /\ e = seg.vaddr + seg.filesz /\ zeros = Zeros(seg)
  BY Zenon
<1>2. PICK r : r = CopyOut(b, t4, e, zeros)
  BY Zenon
<1>3. LoadSegment(acc, t4, seg) = r
  BY <1>1, <1>2, Zenon DEF LoadSegment
<1>4. v \in Nat /\ e \in Nat /\ seg.filesz \in Nat /\ seg.memsz - seg.filesz \in Nat
  BY <1>1 DEF SegmentOk, Segments
<1>5. file \in Seq(Nat) /\ Len(file) = seg.filesz
  BY <1>1, <1>4 DEF FileContent, FileWord
<1>6. zeros \in Seq(Nat) /\ Len(zeros) = seg.memsz - seg.filesz
  BY <1>1, <1>4, SMTT(30) DEF Zeros
<1>7. (Len(file) > 0 => OffsetIn(v) = 0) /\ (Len(zeros) > 0 => OffsetIn(e) = 0)
  BY <1>1, <1>4, <1>5, <1>6 DEF SegmentOk, Segments
<1>8. MapsOk(a, m, p, t4, {}) /\ (a.ok => acc.ok)
  BY <1>1, MapSegmentOk, Zenon
<1>9. PICK m1, m2 : m1 = a.m /\ m2 = b.m
  BY Zenon
<1>10. MapsOk(b, m1, p, t4, {}) /\ (b.ok => a.ok)
  BY <1>1, <1>4, <1>5, <1>7, <1>9, CopyOutOk, Zenon
<1>11. MapsOk(r, m2, p, t4, {}) /\ (r.ok => b.ok)
  BY <1>2, <1>4, <1>6, <1>7, <1>9, CopyOutOk, Zenon
<1>12. MapsOk(b, m, p, t4, {})
  BY <1>8, <1>9, <1>10, MapsAfter, Zenon
<1>13. MapsOk(r, m, p, t4, {})
  BY <1>9, <1>11, <1>12, MapsAfter, Zenon
<1> QED BY <1>3, <1>8, <1>10, <1>11, <1>13, Zenon

(* Loading an image is a growth, complete or not. *)
LEMMA ElfLoadOk ==
  ASSUME NEW m, NEW p \in Procs, NEW t4, NEW image \in Images
  PROVE  MapsOk(elf_load(m, t4, image), m, p, t4, {})
<1>0. PICK len : len = Len(image.segments)
  BY Zenon
<1>1. len \in Nat /\ \A k \in 1 .. len : SegmentOk(image.segments[k])
  <2>1. image.segments \in Seq(Segments)
    BY ImagesAssumption, Zenon
  <2>2. ASSUME NEW k \in 1 .. len PROVE SegmentOk(image.segments[k])
    BY <1>0, <2>1, ImagesAssumption DEF SegmentOk
  <2> QED BY <1>0, <2>1, <2>2
<1>2. PICK w : ElfLoadRounds(w, m, t4, image)
  BY <1>0, <1>1, ElfLoadLoop, Zenon
<1>3. /\ w[0] = [m |-> m, ok |-> image.valid]
      /\ \A k \in 1 .. len : w[k] = LoadSegment(w[k - 1], t4, image.segments[k])
      /\ elf_load(m, t4, image) = w[len]
  BY <1>0, <1>2, Zenon DEF ElfLoadRounds
<1> DEFINE G == {k \in Nat : k <= len => MapsOk(w[k], m, p, t4, {})}
<1>4. 0 \in G
  <2>1. PICK r, S : r = w[0] /\ S = {}
    BY Zenon
  <2>2. r.m = m
    BY <1>3, <2>1
  <2>3. MapsOk(r, m, p, t4, S)
    BY <2>1, <2>2, MapsNone, Zenon
  <2> QED BY <2>1, <2>3, Zenon
<1>5. ASSUME NEW k \in Nat, k \in G PROVE k + 1 \in G
  <2> SUFFICES ASSUME k + 1 <= len PROVE MapsOk(w[k + 1], m, p, t4, {})
    OBVIOUS
  <2>1. k + 1 \in 1 .. len /\ (k + 1) - 1 = k /\ k <= len
    BY <1>1
  <2>2. PICK r, r2, n, seg : r = w[k] /\ r2 = w[k + 1] /\ n = r.m /\ seg = image.segments[k + 1]
    BY Zenon
  <2>3. r2 = LoadSegment(r, t4, seg) /\ SegmentOk(seg) /\ MapsOk(r, m, p, t4, {})
    BY <1>1, <1>3, <1>5, <2>1, <2>2, Zenon
  <2>4. MapsOk(r2, n, p, t4, {}) /\ (r2.ok => r.ok)
    BY <2>2, <2>3, LoadSegmentOk, Zenon
  <2>5. MapsOk(r2, m, p, t4, {})
    BY <2>2, <2>3, <2>4, MapsAfter, Zenon
  <2> QED BY <2>2, <2>5, Zenon
<1>6. Nat \subseteq G
  <2> HIDE DEF G
  <2> QED BY <1>4, <1>5, NatSetInduction, Zenon
<1>7. MapsOk(w[len], m, p, t4, {})
  BY <1>1, <1>6, SMTT(30)
<1> QED BY <1>3, <1>7, Zenon

-----------------------------------------------------------------------------
(* Copying.  The tree of tables and frames below b is a copy of the one     *)
(* below a, level by level.                                                 *)
Alike0(m, a, b) == m.mem[b] = m.mem[a]
Alike1(m, a, b) == \A i \in Index : IF m.mem[a][i] = 0 THEN m.mem[b][i] = 0
                                    ELSE m.mem[b][i] # 0 /\ Alike0(m, m.mem[a][i], m.mem[b][i])
Alike2(m, a, b) == \A i \in Index : IF m.mem[a][i] = 0 THEN m.mem[b][i] = 0
                                    ELSE m.mem[b][i] # 0 /\ Alike1(m, m.mem[a][i], m.mem[b][i])
Alike3(m, a, b) == \A i \in Index : IF m.mem[a][i] = 0 THEN m.mem[b][i] = 0
                                    ELSE m.mem[b][i] # 0 /\ Alike2(m, m.mem[a][i], m.mem[b][i])
Alike4(m, a, b) == \A i \in Index : IF m.mem[a][i] = 0 THEN m.mem[b][i] = 0
                                    ELSE m.mem[b][i] # 0 /\ Alike3(m, m.mem[a][i], m.mem[b][i])

CopyOf(m, a, b, k) ==
  /\ k = 0 => Alike0(m, a, b)
  /\ k = 1 => Alike1(m, a, b)
  /\ k = 2 => Alike2(m, a, b)
  /\ k = 3 => Alike3(m, a, b)
  /\ k = 4 => Alike4(m, a, b)

EntryCopied(m, a, b, k, i) ==
  IF m.mem[a][i] = 0 THEN m.mem[b][i] = 0
  ELSE m.mem[b][i] # 0 /\ CopyOf(m, m.mem[a][i], m.mem[b][i], k - 1)

(* A table is a copy if each of its entries is. *)
LEMMA CopyUnfold ==
  ASSUME NEW m, NEW a, NEW b, NEW k \in 1 .. 4
  PROVE  CopyOf(m, a, b, k) <=> \A i \in Index : EntryCopied(m, a, b, k, i)
<1>1. CASE k = 1
  BY <1>1, SMTT(30) DEF CopyOf, EntryCopied, Alike1
<1>2. CASE k = 2
  BY <1>2, SMTT(30) DEF CopyOf, EntryCopied, Alike2
<1>3. CASE k = 3
  BY <1>3, SMTT(30) DEF CopyOf, EntryCopied, Alike3
<1>4. CASE k = 4
  BY <1>4 DEF CopyOf, EntryCopied, Alike4
<1> QED BY <1>1, <1>2, <1>3, <1>4, SMTT(30)

(* Copies stay copies while no labelled frame is written. *)
Same(m, m2, own) == \A f \in DOMAIN own : m2.mem[f] = m.mem[f]

KeptAt(m, own, lv, m2, p, c, k) ==
  \A a, b : Leads(own, lv, a, p, k) /\ Leads(own, lv, b, c, k) /\ CopyOf(m, a, b, k) => CopyOf(m2, a, b, k)

(* If copies at one level stay copies, so do those a level up. *)
LEMMA KeptUp ==
  ASSUME NEW m, NEW own, NEW lv, Labelled(m, own, lv), NEW m2, Same(m, m2, own), NEW p, NEW c,
         NEW k \in 1 .. 4, NEW j, j = k - 1, KeptAt(m, own, lv, m2, p, c, j)
  PROVE  KeptAt(m, own, lv, m2, p, c, k)
<1> SUFFICES ASSUME NEW a, NEW b, Leads(own, lv, a, p, k), Leads(own, lv, b, c, k), CopyOf(m, a, b, k)
             PROVE  CopyOf(m2, a, b, k)
  BY Zenon DEF KeptAt
<1>1. m2.mem[a] = m.mem[a] /\ m2.mem[b] = m.mem[b]
  BY Zenon DEF Same, Leads
<1>2. ASSUME NEW i \in Index PROVE EntryCopied(m2, a, b, k, i)
  <2>1. EntryCopied(m, a, b, k, i)
    BY CopyUnfold, Zenon
  <2>2. PICK x, y : x = m.mem[a][i] /\ y = m.mem[b][i]
    BY Zenon
  <2>3. x = m2.mem[a][i] /\ y = m2.mem[b][i]
    BY <1>1, <2>2, Zenon
  <2>4. CASE x = 0
    BY <2>1, <2>2, <2>3, <2>4, Zenon DEF EntryCopied
  <2>5. CASE x # 0
    <3>1. y # 0 /\ CopyOf(m, x, y, j)
      BY <2>1, <2>2, <2>5, Zenon DEF EntryCopied
    <3>2. Leads(own, lv, x, p, j) /\ Leads(own, lv, y, c, j)
      BY <2>2, <2>5, <3>1, EntryFacts, SMTT(30)
    <3>3. CopyOf(m2, x, y, j)
      BY <3>1, <3>2, Zenon DEF KeptAt
    <3> QED BY <2>3, <2>5, <3>1, <3>3, Zenon DEF EntryCopied
  <2> QED BY <2>4, <2>5, Zenon
<1> QED BY <1>2, CopyUnfold, Zenon

(* A copy stays one while the frames of both keep their words. *)
LEMMA CopyKept ==
  ASSUME NEW m, NEW own, NEW lv, Labelled(m, own, lv), NEW m2, Same(m, m2, own), NEW p, NEW c,
         NEW k \in 0 .. 4
  PROVE  KeptAt(m, own, lv, m2, p, c, k)
<1>0. KeptAt(m, own, lv, m2, p, c, 0)
  <2> SUFFICES ASSUME NEW a, NEW b, Leads(own, lv, a, p, 0), Leads(own, lv, b, c, 0), CopyOf(m, a, b, 0)
               PROVE  CopyOf(m2, a, b, 0)
    BY Zenon DEF KeptAt
  <2>1. m2.mem[a] = m.mem[a] /\ m2.mem[b] = m.mem[b]
    BY Zenon DEF Same, Leads
  <2> QED BY <2>1 DEF CopyOf, Alike0
<1>1. KeptAt(m, own, lv, m2, p, c, 1)
  <2>1. PICK k1, j : k1 = 1 /\ j = 0
    BY Zenon
  <2>2. k1 \in 1 .. 4 /\ j = k1 - 1 /\ KeptAt(m, own, lv, m2, p, c, j)
    BY <1>0, <2>1
  <2> QED BY <2>1, <2>2, KeptUp, Zenon
<1>2. KeptAt(m, own, lv, m2, p, c, 2)
  <2>1. PICK k1, j : k1 = 2 /\ j = 1
    BY Zenon
  <2>2. k1 \in 1 .. 4 /\ j = k1 - 1 /\ KeptAt(m, own, lv, m2, p, c, j)
    BY <1>1, <2>1
  <2> QED BY <2>1, <2>2, KeptUp, Zenon
<1>3. KeptAt(m, own, lv, m2, p, c, 3)
  <2>1. PICK k1, j : k1 = 3 /\ j = 2
    BY Zenon
  <2>2. k1 \in 1 .. 4 /\ j = k1 - 1 /\ KeptAt(m, own, lv, m2, p, c, j)
    BY <1>2, <2>1
  <2> QED BY <2>1, <2>2, KeptUp, Zenon
<1>4. KeptAt(m, own, lv, m2, p, c, 4)
  <2>1. PICK k1, j : k1 = 4 /\ j = 3
    BY Zenon
  <2>2. k1 \in 1 .. 4 /\ j = k1 - 1 /\ KeptAt(m, own, lv, m2, p, c, j)
    BY <1>3, <2>1
  <2> QED BY <2>1, <2>2, KeptUp, Zenon
<1>5. k = 0 \/ k = 1 \/ k = 2 \/ k = 3 \/ k = 4
  OBVIOUS
<1> QED BY <1>0, <1>1, <1>2, <1>3, <1>4, <1>5, Zenon

(* Whatever was in use in m is in use and unwritten in m2, and frames that  *)
(* were in use without a label have none.                                   *)
Untouched(m, m2, own, own2) ==
  \A f \in m.used : /\ f \in m2.used /\ m2.mem[f] = m.mem[f]
                    /\ f \notin DOMAIN own => f \notin DOMAIN own2

(* Frames left alone by two steps are left alone. *)
LEMMA UntouchedTwice ==
  ASSUME NEW m, NEW m2, NEW m3, NEW own, NEW own2, NEW own3,
         Untouched(m, m2, own, own2), Untouched(m2, m3, own2, own3)
  PROVE  Untouched(m, m3, own, own3)
BY Zenon DEF Untouched

(* Labels that extend extended labels extend the first. *)
LEMMA ExtendsTwice ==
  ASSUME NEW own, NEW lv, NEW own2, NEW lv2, NEW own3, NEW lv3,
         Extends(own, lv, own2, lv2), Extends(own2, lv2, own3, lv3)
  PROVE  Extends(own, lv, own3, lv3)
BY Zenon DEF Extends

(* A table that was allocated since m and is not linked anywhere yet. *)
Loose(t, m, m2, own2) ==
  t \in Managed /\ t \in m2.used /\ t \notin m.used /\ t \notin DOMAIN own2

(* Table t holds copies for process c of the first n entries of src. *)
EntryDone(m2, t, own2, lv2, c, k, src, n, i) ==
  IF i < n /\ m2.mem[src][i] # 0
  THEN /\ Leads(own2, lv2, m2.mem[t][i], c, k - 1)
       /\ CopyOf(m2, m2.mem[src][i], m2.mem[t][i], k - 1)
  ELSE m2.mem[t][i] = 0

Filling(m2, t, m, own, lv, own2, lv2, c, k, src, n) ==
  /\ Labelled(m2, own2, lv2) /\ Extends(own, lv, own2, lv2) /\ Untouched(m, m2, own, own2)
  /\ t # NoPage => /\ Loose(t, m, m2, own2)
                   /\ \A i \in Index : EntryDone(m2, t, own2, lv2, c, k, src, n, i)

(* A finished copy of src, which fits below a table of c, or none. *)
Copied(m2, t, m, own, lv, own2, lv2, c, k, src) ==
  /\ Labelled(m2, own2, lv2) /\ Extends(own, lv, own2, lv2) /\ Untouched(m, m2, own, own2)
  /\ t # NoPage => /\ Loose(t, m, m2, own2) /\ Fits(m2, own2, lv2, t, c, k) /\ CopyOf(m2, src, t, k)

IsFilling(r, m, own, lv, c, k, src, n) ==
  \E own2, lv2 : Filling(r.m, r.page, m, own, lv, own2, lv2, c, k, src, n)
IsCopied(r, m, own, lv, c, k, src) ==
  \E own2, lv2 : Copied(r.m, r.page, m, own, lv, own2, lv2, c, k, src)

(* A page that was just allocated. *)
LEMMA JustGot ==
  ASSUME NEW m, NEW own, NEW lv, Labelled(m, own, lv), NEW a, Got(a, m)
  PROVE  /\ Labelled(a.m, own, lv) /\ Untouched(m, a.m, own, own) /\ Loose(a.page, m, a.m, own)
         /\ \A i \in Index : a.m.mem[a.page][i] = 0
<1>1. /\ m \in Memories /\ InitialBitmap \subseteq m.used
      /\ DOMAIN own \subseteq m.used /\ DOMAIN own \subseteq AllPages /\ m.used \subseteq AllPages
  BY LabelledFacts, MemFacts, Zenon
<1>2. /\ a.page \in Managed /\ a.page \notin m.used
      /\ a.m \in Memories /\ a.m.used = m.used \cup {a.page}
      /\ \A f \in AllPages : f # a.page => a.m.mem[f] = m.mem[f]
      /\ \A i \in Index : a.m.mem[a.page][i] = 0
  BY Zenon DEF Got
<1>3. \A f \in DOMAIN own : a.m.mem[f] = m.mem[f]
  BY <1>1, <1>2, Zenon
<1>4. Labelled(a.m, own, lv)
  BY <1>1, <1>2, <1>3, LabelsKept, Zenon
<1>5. Untouched(m, a.m, own, own)
  BY <1>1, <1>2, Zenon DEF Untouched
<1>6. Loose(a.page, m, a.m, own)
  BY <1>1, <1>2, Zenon DEF Loose
<1> QED BY <1>2, <1>4, <1>5, <1>6, Zenon

(* The frame a copy begins with, if there is one: no entry is copied yet. *)
LEMMA FillStart ==
  ASSUME NEW m, NEW own, NEW lv, Labelled(m, own, lv), NEW c, NEW k, NEW src
  PROVE  IsFilling(pmm_alloc_page(m), m, own, lv, c, k, src, 0)
<1> DEFINE a == pmm_alloc_page(m)
<1>0. m \in Memories /\ InitialBitmap \subseteq m.used
  BY LabelledFacts, Zenon
<1>1. Extends(own, lv, own, lv)
  BY Zenon DEF Extends
<1>2. CASE a.page = NoPage /\ a.m = m
  <2>1. Untouched(m, m, own, own)
    BY Zenon DEF Untouched
  <2> HIDE DEF a
  <2>2. Filling(a.m, a.page, m, own, lv, own, lv, c, k, src, 0)
    BY <1>1, <1>2, <2>1, Zenon DEF Filling
  <2>3. IsFilling(a, m, own, lv, c, k, src, 0)
    BY <2>2, Zenon DEF IsFilling
  <2> QED BY <2>3, Zenon DEF a
<1>3. CASE Got(a, m)
  <2> HIDE DEF a
  <2>1. /\ Labelled(a.m, own, lv) /\ Untouched(m, a.m, own, own) /\ Loose(a.page, m, a.m, own)
        /\ \A i \in Index : a.m.mem[a.page][i] = 0
    BY <1>3, JustGot, Zenon
  <2>2. \A i \in Index : ~ (i < 0)
    BY Sizes DEF Index
  <2>3. Filling(a.m, a.page, m, own, lv, own, lv, c, k, src, 0)
    BY <1>1, <2>1, <2>2, Zenon DEF Filling, EntryDone
  <2>4. IsFilling(a, m, own, lv, c, k, src, 0)
    BY <2>3, Zenon DEF IsFilling
  <2> QED BY <2>4, Zenon DEF a
<1> QED BY <1>0, <1>2, <1>3, AllocFacts, Zenon

(* An entry that is skipped. *)
LEMMA FillSkip ==
  ASSUME NEW r, NEW m, NEW own, NEW lv, NEW p, NEW c, NEW k \in 1 .. 4, NEW src, Leads(own, lv, src, p, k),
         NEW n \in Index, IsFilling(r, m, own, lv, c, k, src, n), Skipped(r, src, n)
  PROVE  IsFilling(r, m, own, lv, c, k, src, n + 1)
<1>1. PICK m2, t : m2 = r.m /\ t = r.page
  BY Zenon
<1>2. PICK own2, lv2 : Filling(m2, t, m, own, lv, own2, lv2, c, k, src, n)
  BY <1>1, Zenon DEF IsFilling
<1>3. /\ Labelled(m2, own2, lv2) /\ Extends(own, lv, own2, lv2) /\ Untouched(m, m2, own, own2)
      /\ t # NoPage => /\ Loose(t, m, m2, own2)
                       /\ \A i \in Index : EntryDone(m2, t, own2, lv2, c, k, src, n, i)
  BY <1>2, Zenon DEF Filling
<1>4. Leads(own2, lv2, src, p, k)
  BY <1>3, LeadsKept, Zenon
<1>5. t # NoPage => m2.mem[src][n] = 0
  <2>1. Present(m2.mem[src][n]) <=> m2.mem[src][n] # 0
    BY <1>3, <1>4, EntryFacts, SMTT(30)
  <2> QED BY <1>1, <2>1, Zenon DEF Skipped
<1>6. n \in Nat /\ \A i \in Index : i \in Nat /\ (i < n + 1 <=> i < n \/ i = n)
  BY Sizes DEF Index
<1>7. t # NoPage => \A i \in Index : EntryDone(m2, t, own2, lv2, c, k, src, n + 1, i)
  BY <1>3, <1>5, <1>6, Zenon DEF EntryDone
<1>8. Filling(m2, t, m, own, lv, own2, lv2, c, k, src, n + 1)
  BY <1>3, <1>7, Zenon DEF Filling
<1> QED BY <1>1, <1>8, Zenon DEF IsFilling

(* r copies s, a frame or table of p, for c, whatever the labels are. *)
CopiesTo(r, m, p, c, k, s) ==
  \A own, lv : Labelled(m, own, lv) /\ Leads(own, lv, s, p, k) => IsCopied(r, m, own, lv, c, k, s)

(* An entry whose copy could not be made: the table is freed. *)
LEMMA FillFails ==
  ASSUME NEW m, NEW own, NEW lv, NEW c, NEW k, NEW src, NEW n, NEW m2, NEW t, NEW own2, NEW lv2,
         Extends(own, lv, own2, lv2), Untouched(m, m2, own, own2), Loose(t, m, m2, own2),
         NEW m3, NEW own3, NEW lv3,
         Labelled(m3, own3, lv3), Extends(own2, lv2, own3, lv3), Untouched(m2, m3, own2, own3)
  PROVE  Filling(pmm_free_page(m3, t), NoPage, m, own, lv, own3, lv3, c, k, src, n)
<1>1. PICK m4 : m4 = pmm_free_page(m3, t)
  BY Zenon
<1>2. /\ m3 \in Memories /\ InitialBitmap \subseteq m3.used /\ DOMAIN own3 \subseteq m3.used
  BY LabelledFacts, Zenon
<1>3. m4 \in Memories /\ m4.used = m3.used \ {t} /\ m4.mem = m3.mem
  BY <1>1, <1>2, FreeFacts, Zenon
<1>4. t \in m2.used /\ t \notin DOMAIN own3 /\ t \notin InitialBitmap /\ t \notin m.used
  BY Zenon DEF Loose, Untouched, InitialBitmap
<1>5. Labelled(m4, own3, lv3)
  BY <1>2, <1>3, <1>4, LabelsKept, Zenon
<1>6. Extends(own, lv, own3, lv3)
  BY ExtendsTwice, Zenon
<1>7. Untouched(m, m4, own, own3)
  <2>1. Untouched(m, m3, own, own3)
    BY UntouchedTwice, Zenon
  <2> QED BY <1>3, <1>4, <2>1, Zenon DEF Untouched
<1> QED BY <1>1, <1>5, <1>6, <1>7, Zenon DEF Filling

(* An entry whose copy u is linked. *)
LEMMA FillLinks ==
  ASSUME NEW m, NEW own, NEW lv, NEW p, NEW c \in Procs, NEW k \in 1 .. 4, NEW j, j = k - 1,
         NEW src, NEW n \in Index, NEW m2, NEW t, t # NoPage, NEW own2, NEW lv2,
         Filling(m2, t, m, own, lv, own2, lv2, c, k, src, n), Leads(own2, lv2, src, p, k),
         NEW s, s = m2.mem[src][n], s # 0,
         NEW m3, NEW u, u # NoPage, NEW own3, NEW lv3,
         Copied(m3, u, m2, own2, lv2, own3, lv3, c, j, s)
  PROVE  \E own4, lv4 : Filling(SetWord(m3, t, n, u), t, m, own, lv, own4, lv4, c, k, src, n + 1)
<1>1. /\ Labelled(m2, own2, lv2) /\ Extends(own, lv, own2, lv2) /\ Untouched(m, m2, own, own2)
      /\ Loose(t, m, m2, own2) /\ \A i \in Index : EntryDone(m2, t, own2, lv2, c, k, src, n, i)
  BY Zenon DEF Filling
<1>2. /\ Labelled(m3, own3, lv3) /\ Extends(own2, lv2, own3, lv3) /\ Untouched(m2, m3, own2, own3)
      /\ Loose(u, m2, m3, own3) /\ Fits(m3, own3, lv3, u, c, j) /\ CopyOf(m3, s, u, j)
  BY Zenon DEF Copied
<1>3. j \in 0 .. 4 /\ k > 0
  BY SMTT(30)
<1> DEFINE own4 == Added(own3, u, c)
           lv4 == Added(lv3, u, j)
<1>4. /\ Labelled(m3, own4, lv4) /\ Extends(own3, lv3, own4, lv4) /\ Leads(own4, lv4, u, c, j)
      /\ DOMAIN own4 = DOMAIN own3 \cup {u}
  <2>1. u \in Managed /\ u \in m3.used /\ u \notin DOMAIN own3
    BY <1>2, Zenon DEF Loose
  <2>2. Labelled(m3, own3, lv3) /\ Fits(m3, own3, lv3, u, c, j)
    BY <1>2, Zenon
  <2>3. /\ Labelled(m3, own4, lv4) /\ Extends(own3, lv3, own4, lv4) /\ Leads(own4, lv4, u, c, j)
    BY ONLY c \in Procs, <1>3, <2>1, <2>2, LabelAdded, Zenon
  <2>4. DOMAIN own4 = DOMAIN own3 \cup {u}
    BY ONLY Zenon DEF Added
  <2> QED BY <2>3, <2>4, Zenon
<1> HIDE DEF own4, lv4
<1>5. PICK m4 : m4 = SetWord(m3, t, n, u)
  BY Zenon
<1>6. /\ m3 \in Memories /\ InitialBitmap \subseteq m3.used /\ DOMAIN own4 \subseteq m3.used
      /\ DOMAIN own4 \subseteq AllPages
  BY <1>4, LabelledFacts, Zenon
<1>7. /\ t \in Managed /\ t \in AllPages /\ t \in m2.used /\ t \notin m.used
      /\ t \notin DOMAIN own2 /\ t \notin DOMAIN own4 /\ t # u /\ t \in m3.used
      /\ u \in Nat /\ u \notin m2.used
  <2>1. t \in Managed /\ t \in m2.used /\ t \notin m.used /\ t \notin DOMAIN own2
    BY <1>1, Zenon DEF Loose
  <2>2. u \in Managed /\ u \notin m2.used
    BY <1>2, Zenon DEF Loose
  <2>3. t \notin DOMAIN own3 /\ t \in m3.used
    BY <1>2, <2>1, Zenon DEF Untouched
  <2> QED BY <1>4, <2>1, <2>2, <2>3, PageSets, Zenon
<1>8. WordSet(m4, m3, t, n, u)
  BY <1>5, <1>6, <1>7, SetWordFacts, Zenon
<1>9. /\ m4 \in Memories /\ m4.used = m3.used /\ m4.mem[t][n] = u
      /\ \A i \in Index : i # n => m4.mem[t][i] = m3.mem[t][i]
      /\ \A f \in AllPages : f # t => m4.mem[f] = m3.mem[f]
  BY <1>8, Zenon DEF WordSet
<1>10. Same(m3, m4, own4)
  BY <1>6, <1>7, <1>9, Zenon DEF Same
<1>11. Labelled(m4, own4, lv4)
  BY <1>4, <1>6, <1>9, <1>10, LabelsKept, Zenon DEF Same
<1>12. Extends(own, lv, own4, lv4) /\ Extends(own2, lv2, own4, lv4)
  BY <1>1, <1>2, <1>4, ExtendsTwice, Zenon
<1>13. m.used \subseteq m2.used /\ m2.used \subseteq m3.used /\ m3.used \subseteq AllPages
  <2>1. m3.used \subseteq AllPages
    BY <1>6, MemFacts, Zenon
  <2> QED BY <1>1, <1>2, <2>1, Zenon DEF Untouched
<1>14. Untouched(m, m4, own, own4)
  <2>1. Untouched(m, m3, own, own3)
    BY <1>1, <1>2, UntouchedTwice, Zenon
  <2> QED BY <1>4, <1>7, <1>9, <1>13, <2>1, Zenon DEF Untouched
<1>15. Loose(t, m, m4, own4)
  BY <1>7, <1>9, Zenon DEF Loose
<1>16. \A f \in m2.used : f # t => m4.mem[f] = m2.mem[f]
  BY <1>2, <1>9, <1>13, Zenon DEF Untouched
<1>17. src \in DOMAIN own2 /\ DOMAIN own2 \subseteq m2.used
  BY <1>1, LabelledFacts, Zenon DEF Leads
<1>18. m4.mem[src] = m2.mem[src] /\ Same(m2, m4, own2)
  BY <1>7, <1>16, <1>17, Zenon DEF Same
<1>19. n \in Nat /\ \A i \in Index : i \in Nat /\ (i < n + 1 <=> i < n \/ i = n)
  BY Sizes DEF Index
<1>20. ASSUME NEW i \in Index PROVE EntryDone(m4, t, own4, lv4, c, k, src, n + 1, i)
  <2>1. CASE i = n
    <3>1. Leads(own2, lv2, s, p, j)
      BY <1>1, <1>3, EntryFacts, Zenon
    <3>2. Leads(own4, lv4, s, p, j)
      BY <1>12, <3>1, LeadsKept, SMTT(30)
    <3>3. KeptAt(m3, own4, lv4, m4, p, c, j)
      BY <1>3, <1>4, <1>10, CopyKept, Zenon
    <3>4. CopyOf(m4, s, u, j)
      BY <1>2, <1>4, <3>2, <3>3, Zenon DEF KeptAt
    <3>5. n < n + 1 /\ m4.mem[src][n] = s
      BY <1>18, <1>19, Zenon
    <3> QED BY <1>4, <1>9, <2>1, <3>4, <3>5, Zenon DEF EntryDone
  <2>2. CASE i # n
    <3>1. m4.mem[t][i] = m2.mem[t][i]
      <4>1. m3.mem[t] = m2.mem[t]
        BY <1>2, <1>7, Zenon DEF Untouched
      <4> QED BY <1>9, <2>2, <4>1, Zenon
    <3>2. EntryDone(m2, t, own2, lv2, c, k, src, n, i)
      BY <1>1, Zenon
    <3>3. (i < n + 1) <=> (i < n)
      BY <1>19, <2>2, Zenon
    <3>4. CASE i < n /\ m2.mem[src][i] # 0
      <4>1. PICK a, b : a = m2.mem[src][i] /\ b = m2.mem[t][i]
        BY Zenon
      <4>2. Leads(own2, lv2, b, c, j) /\ CopyOf(m2, a, b, j)
        BY <3>2, <3>4, <4>1, Zenon DEF EntryDone
      <4>3. Leads(own2, lv2, a, p, j)
        BY <1>1, <1>3, <3>4, <4>1, EntryFacts, Zenon
      <4>4. KeptAt(m2, own2, lv2, m4, p, c, j)
        BY <1>1, <1>3, <1>18, CopyKept, Zenon
      <4>5. CopyOf(m4, a, b, j)
        BY <4>2, <4>3, <4>4, Zenon DEF KeptAt
      <4>6. Leads(own4, lv4, b, c, j)
        BY <1>12, <4>2, LeadsKept, Zenon
      <4>7. a = m4.mem[src][i] /\ b = m4.mem[t][i] /\ a # 0 /\ i < n + 1
        BY <1>18, <3>1, <3>3, <3>4, <4>1, Zenon
      <4> QED BY <4>5, <4>6, <4>7, Zenon DEF EntryDone
    <3>5. CASE ~ (i < n /\ m2.mem[src][i] # 0)
      BY <1>18, <3>1, <3>2, <3>3, <3>5, Zenon DEF EntryDone
    <3> QED BY <3>4, <3>5, Zenon
  <2> QED BY <2>1, <2>2, Zenon
<1>21. Filling(m4, t, m, own, lv, own4, lv4, c, k, src, n + 1)
  BY <1>11, <1>12, <1>14, <1>15, <1>20, Zenon DEF Filling
<1> QED BY <1>5, <1>21, Zenon

(* An entry that is copied. *)
LEMMA FillEntry ==
  ASSUME NEW r, NEW m, NEW own, NEW lv, NEW p, NEW c \in Procs, NEW k \in 1 .. 4, NEW j, j = k - 1,
         NEW src, Leads(own, lv, src, p, k), NEW n \in Index, IsFilling(r, m, own, lv, c, k, src, n),
         ~ Skipped(r, src, n), NEW m2, m2 = r.m, NEW s, s = m2.mem[src][n],
         NEW x, CopiesTo(x, m2, p, c, j, s)
  PROVE  IsFilling(Filled(r.page, n, x), m, own, lv, c, k, src, n + 1)
<1>1. PICK t, m3, u, f : t = r.page /\ m3 = x.m /\ u = x.page /\ f = Filled(r.page, n, x)
  BY Zenon
<1>2. PICK own2, lv2 : Filling(m2, t, m, own, lv, own2, lv2, c, k, src, n)
  BY <1>1, Zenon DEF IsFilling
<1>3. t # NoPage /\ Present(s)
  BY <1>1, Zenon DEF Skipped
<1>4. /\ Labelled(m2, own2, lv2) /\ Extends(own, lv, own2, lv2) /\ Untouched(m, m2, own, own2)
      /\ Loose(t, m, m2, own2)
  BY <1>2, <1>3, Zenon DEF Filling
<1>5. Leads(own2, lv2, src, p, k)
  BY <1>4, LeadsKept, Zenon
<1>6. s # 0 /\ Leads(own2, lv2, s, p, j)
  <2>1. k > 0
    OBVIOUS
  <2> QED BY <1>3, <1>4, <1>5, <2>1, EntryFacts, SMTT(30)
<1>7. IsCopied(x, m2, own2, lv2, c, j, s)
  BY <1>4, <1>6, Zenon DEF CopiesTo
<1>8. PICK own3, lv3 : Copied(m3, u, m2, own2, lv2, own3, lv3, c, j, s)
  BY <1>1, <1>7, Zenon DEF IsCopied
<1>9. CASE u = NoPage
  <2>1. f = [m |-> pmm_free_page(m3, t), page |-> NoPage]
    BY <1>1, <1>9, Zenon DEF Filled
  <2>2. Labelled(m3, own3, lv3) /\ Extends(own2, lv2, own3, lv3) /\ Untouched(m2, m3, own2, own3)
    BY <1>8, Zenon DEF Copied
  <2>3. PICK n1 : n1 = n + 1
    BY Zenon
  <2>4. Filling(pmm_free_page(m3, t), NoPage, m, own, lv, own3, lv3, c, k, src, n1)
    BY <1>4, <2>2, FillFails, Zenon
  <2>5. f.m = pmm_free_page(m3, t) /\ f.page = NoPage
    BY <2>1, Zenon
  <2>6. IsFilling(f, m, own, lv, c, k, src, n1)
    BY <2>4, <2>5, Zenon DEF IsFilling
  <2> QED BY <1>1, <2>3, <2>6, Zenon
<1>10. CASE u # NoPage
  <2>1. f = [m |-> SetWord(m3, t, n, u), page |-> t]
    BY <1>1, <1>10, Zenon DEF Filled
  <2>2. \E own4, lv4 : Filling(SetWord(m3, t, n, u), t, m, own, lv, own4, lv4, c, k, src, n + 1)
    BY <1>2, <1>3, <1>5, <1>6, <1>8, <1>10, FillLinks, Zenon
  <2>3. f.m = SetWord(m3, t, n, u) /\ f.page = t
    BY <2>1, Zenon
  <2>4. IsFilling(f, m, own, lv, c, k, src, n + 1)
    BY <2>2, <2>3, Zenon DEF IsFilling
  <2> QED BY <1>1, <2>4, Zenon
<1> QED BY <1>9, <1>10, Zenon

(* A table whose nonempty entries are all copied is a copy. *)
LEMMA FillEnd ==
  ASSUME NEW r, NEW m, NEW own, NEW lv, Labelled(m, own, lv), NEW p, NEW c, NEW k \in 1 .. 4,
         NEW src, Leads(own, lv, src, p, k), NEW n, IsFilling(r, m, own, lv, c, k, src, n),
         \A i \in Index : i < n \/ m.mem[src][i] = 0
  PROVE  IsCopied(r, m, own, lv, c, k, src)
<1>1. PICK m2, t : m2 = r.m /\ t = r.page
  BY Zenon
<1>2. PICK own2, lv2 : Filling(m2, t, m, own, lv, own2, lv2, c, k, src, n)
  BY <1>1, Zenon DEF IsFilling
<1>3. /\ Labelled(m2, own2, lv2) /\ Extends(own, lv, own2, lv2) /\ Untouched(m, m2, own, own2)
      /\ t # NoPage => /\ Loose(t, m, m2, own2)
                       /\ \A i \in Index : EntryDone(m2, t, own2, lv2, c, k, src, n, i)
  BY <1>2, Zenon DEF Filling
<1>4. m2.mem[src] = m.mem[src] /\ src \in DOMAIN own /\ Fits(m, own, lv, src, p, k)
  <2>1. src \in DOMAIN own /\ own[src] = p /\ lv[src] = k
    BY Zenon DEF Leads
  <2>2. DOMAIN own \subseteq m.used /\ Fits(m, own, lv, src, own[src], lv[src])
    BY <2>1, LabelledFacts, Zenon
  <2> QED BY <1>3, <2>1, <2>2, Zenon DEF Untouched
<1>5. k = 4 => \A i \in Index \ UserIndex : m2.mem[src][i] = 0
  BY <1>4, Zenon DEF Fits
<1>6. \A f, q, l : Leads(own2, lv2, f, q, l) => f # 0
  BY <1>3, LabelledFacts, PageSets, Zenon DEF Leads
<1>7. ASSUME t # NoPage PROVE Fits(m2, own2, lv2, t, c, k) /\ CopyOf(m2, src, t, k)
  <2>1. \A i \in Index : IF m2.mem[src][i] # 0
                         THEN /\ Leads(own2, lv2, m2.mem[t][i], c, k - 1)
                              /\ CopyOf(m2, m2.mem[src][i], m2.mem[t][i], k - 1)
                         ELSE m2.mem[t][i] = 0
    <3> SUFFICES ASSUME NEW i \in Index
                 PROVE  IF m2.mem[src][i] # 0
                        THEN /\ Leads(own2, lv2, m2.mem[t][i], c, k - 1)
                             /\ CopyOf(m2, m2.mem[src][i], m2.mem[t][i], k - 1)
                        ELSE m2.mem[t][i] = 0
      BY Zenon
    <3>1. EntryDone(m2, t, own2, lv2, c, k, src, n, i)
      BY <1>3, <1>7, Zenon
    <3>2. i < n \/ m2.mem[src][i] = 0
      BY <1>4, Zenon
    <3> QED BY <3>1, <3>2, Zenon DEF EntryDone
  <2>2. Fits(m2, own2, lv2, t, c, k)
    BY <1>5, <2>1, Zenon DEF Fits
  <2>3. \A i \in Index : EntryCopied(m2, src, t, k, i)
    BY <1>6, <2>1, Zenon DEF EntryCopied
  <2> QED BY <2>2, <2>3, CopyUnfold, Zenon
<1>8. Copied(m2, t, m, own, lv, own2, lv2, c, k, src)
  BY <1>3, <1>7, Zenon DEF Copied
<1> QED BY <1>1, <1>8, Zenon DEF IsCopied

(* The copies of a frame, and of the tables above it. *)
LEMMA ClonePageOk ==
  ASSUME NEW m, NEW src, NEW p, NEW c
  PROVE  CopiesTo(clone_page(m, src), m, p, c, 0, src)
<1> SUFFICES ASSUME NEW own, NEW lv, Labelled(m, own, lv), Leads(own, lv, src, p, 0)
             PROVE  IsCopied(clone_page(m, src), m, own, lv, c, 0, src)
  BY Zenon DEF CopiesTo
<1> DEFINE a == pmm_alloc_page(m)
           r == clone_page(m, src)
<1>0. m \in Memories /\ InitialBitmap \subseteq m.used /\ src \in DOMAIN own /\ DOMAIN own \subseteq m.used
      /\ DOMAIN own \subseteq AllPages
  BY LabelledFacts, Zenon DEF Leads
<1>1. Extends(own, lv, own, lv)
  BY Zenon DEF Extends
<1>2. CASE a.page = NoPage /\ a.m = m
  <2>1. r = a
    BY <1>2, Zenon DEF clone_page
  <2>2. Untouched(m, m, own, own)
    BY Zenon DEF Untouched
  <2> HIDE DEF a, r
  <2>3. Copied(r.m, r.page, m, own, lv, own, lv, c, 0, src)
    BY <1>1, <1>2, <2>1, <2>2, Zenon DEF Copied
  <2>4. IsCopied(r, m, own, lv, c, 0, src)
    BY <2>3, Zenon DEF IsCopied
  <2> QED BY <2>4, Zenon DEF r
<1>3. CASE Got(a, m)
  <2>1. a.page # NoPage
    BY <1>3, Zenon DEF Got
  <2>2. r = [m |-> SetPage(a.m, a.page, a.m.mem[src]), page |-> a.page]
    BY <2>1, Zenon DEF clone_page
  <2> HIDE DEF a, r
  <2>3. PICK n, t : n = a.m /\ t = a.page
    BY Zenon
  <2>4. /\ Labelled(n, own, lv) /\ Untouched(m, n, own, own) /\ Loose(t, m, n, own)
    BY <1>3, <2>3, JustGot, Zenon
  <2>5. PICK m2 : m2 = SetPage(n, t, n.mem[src])
    BY Zenon
  <2>6. t \in AllPages /\ t \notin DOMAIN own /\ t \notin m.used
    BY <2>4, PageSets, Zenon DEF Loose
  <2>7. n \in Memories /\ InitialBitmap \subseteq n.used /\ n.mem[src] \in [Index -> Nat]
        /\ DOMAIN own \subseteq n.used /\ m.used \subseteq AllPages
    <3>1. n \in Memories /\ InitialBitmap \subseteq n.used /\ DOMAIN own \subseteq n.used
      BY <2>4, LabelledFacts, Zenon
    <3>2. src \in AllPages
      BY <1>0, Zenon
    <3> QED BY <1>0, <3>1, <3>2, MemFacts, Zenon
  <2>8. PageSet(m2, n, t, n.mem[src])
    BY <2>5, <2>6, <2>7, SetPageFacts, Zenon
  <2>9. /\ m2 \in Memories /\ m2.used = n.used /\ m2.mem[t] = n.mem[src]
        /\ \A f \in AllPages : f # t => m2.mem[f] = n.mem[f]
    BY <2>8, Zenon DEF PageSet
  <2>10. \A f \in DOMAIN own : m2.mem[f] = n.mem[f]
    BY <1>0, <2>6, <2>9, Zenon
  <2>11. Labelled(m2, own, lv)
    BY <2>4, <2>7, <2>9, <2>10, LabelsKept, Zenon
  <2>12. Untouched(m, m2, own, own)
    BY <2>4, <2>6, <2>7, <2>9, Zenon DEF Untouched
  <2>13. Loose(t, m, m2, own)
    BY <2>4, <2>9, Zenon DEF Loose
  <2>14. Fits(m2, own, lv, t, c, 0) /\ CopyOf(m2, src, t, 0)
    BY <1>0, <2>9, <2>10, SMTT(30) DEF Fits, CopyOf, Alike0
  <2>15. Copied(m2, t, m, own, lv, own, lv, c, 0, src)
    BY <1>1, <2>11, <2>12, <2>13, <2>14, Zenon DEF Copied
  <2>16. r.m = m2 /\ r.page = t
    BY <2>2, <2>3, <2>5, Zenon
  <2>17. IsCopied(r, m, own, lv, c, 0, src)
    BY <2>15, <2>16, Zenon DEF IsCopied
  <2> QED BY <2>17, Zenon DEF r
<1> QED BY <1>0, <1>2, <1>3, AllocFacts, Zenon

(* clone_pt makes a copy of a PT or fails; labelled frames keep their words. *)
LEMMA ClonePtOk ==
  ASSUME NEW m, NEW src, NEW p, NEW c \in Procs
  PROVE  CopiesTo(clone_pt(m, src), m, p, c, 1, src)
<1> SUFFICES ASSUME NEW own, NEW lv, Labelled(m, own, lv), Leads(own, lv, src, p, 1)
             PROVE  IsCopied(clone_pt(m, src), m, own, lv, c, 1, src)
  BY Zenon DEF CopiesTo
<1>0. PICK N, l, j : N = Entries /\ l = 1 /\ j = 0
  BY Zenon
<1>1. N \in Nat /\ l \in 1 .. 4 /\ j = l - 1 /\ Leads(own, lv, src, p, l) /\ \A n \in Nat : n < N => n \in Index
  BY <1>0, Sizes, Halves DEF Index, Half
<1>2. PICK w : ClonePtRounds(w, m, src)
  BY <1>0, <1>1, ClonePtLoop, Zenon
<1>3. /\ w[0] = pmm_alloc_page(m)
      /\ \A n \in 1 .. N : w[n] = PtEntry(w[n - 1], src, n - 1)
      /\ clone_pt(m, src) = w[N]
  BY <1>0, <1>2, Zenon DEF ClonePtRounds
<1> DEFINE G == {n \in Nat : n <= N => IsFilling(w[n], m, own, lv, c, l, src, n)}
<1>4. 0 \in G
  BY <1>3, FillStart, Zenon
<1>5. ASSUME NEW n \in Nat, n \in G PROVE n + 1 \in G
  <2> SUFFICES ASSUME n + 1 <= N PROVE IsFilling(w[n + 1], m, own, lv, c, l, src, n + 1)
    OBVIOUS
  <2>1. n + 1 \in 1 .. N /\ (n + 1) - 1 = n /\ n <= N /\ n < N /\ n \in Index
    BY <1>1
  <2>2. PICK r, m2, s : r = w[n] /\ m2 = r.m /\ s = m2.mem[src][n]
    BY Zenon
  <2>3. IsFilling(r, m, own, lv, c, l, src, n) /\ w[n + 1] = PtEntry(r, src, n)
    BY <1>3, <1>5, <2>1, <2>2, Zenon
  <2>4. CASE Skipped(r, src, n)
    <3>1. w[n + 1] = r
      BY <2>3, <2>4, Zenon DEF PtEntry
    <3>2. IsFilling(r, m, own, lv, c, l, src, n + 1)
      BY ONLY <1>1, <2>1, <2>3, <2>4, FillSkip, Zenon
    <3> QED BY <3>1, <3>2, Zenon
  <2>5. CASE ~ Skipped(r, src, n)
    <3>1. PICK x : x = clone_page(m2, s)
      BY Zenon
    <3>2. CopiesTo(x, m2, p, c, j, s)
      BY <1>0, <3>1, ClonePageOk, Zenon
    <3>3. w[n + 1] = Filled(r.page, n, x)
      BY <2>2, <2>3, <2>5, <3>1, Zenon DEF PtEntry
    <3>4. IsFilling(Filled(r.page, n, x), m, own, lv, c, l, src, n + 1)
      BY ONLY c \in Procs, <1>1, <2>1, <2>2, <2>3, <2>5, <3>2, FillEntry, Zenon
    <3> QED BY <3>3, <3>4, Zenon
  <2> QED BY <2>4, <2>5, Zenon
<1>6. Nat \subseteq G
  <2> HIDE DEF G
  <2> QED BY <1>4, <1>5, NatSetInduction, Zenon
<1>7. IsFilling(w[N], m, own, lv, c, l, src, N)
  BY <1>1, <1>6, SMTT(30)
<1>8. \A i \in Index : i < N \/ m.mem[src][i] = 0
  BY <1>0, Sizes DEF Index
<1>9. PICK r : r = w[N]
  BY Zenon
<1>10. IsCopied(r, m, own, lv, c, l, src)
  BY <1>1, <1>7, <1>8, <1>9, FillEnd, Zenon
<1> QED BY <1>0, <1>3, <1>9, <1>10, Zenon

(* clone_pd makes a copy of a PD or fails. *)
LEMMA ClonePdOk ==
  ASSUME NEW m, NEW src, NEW p, NEW c \in Procs
  PROVE  CopiesTo(clone_pd(m, src), m, p, c, 2, src)
<1> SUFFICES ASSUME NEW own, NEW lv, Labelled(m, own, lv), Leads(own, lv, src, p, 2)
             PROVE  IsCopied(clone_pd(m, src), m, own, lv, c, 2, src)
  BY Zenon DEF CopiesTo
<1>0. PICK N, l, j : N = Entries /\ l = 2 /\ j = 1
  BY Zenon
<1>1. N \in Nat /\ l \in 1 .. 4 /\ j = l - 1 /\ Leads(own, lv, src, p, l) /\ \A n \in Nat : n < N => n \in Index
  BY <1>0, Sizes, Halves, SMTT(30) DEF Index, Half
<1>2. PICK w : ClonePdRounds(w, m, src)
  BY <1>0, <1>1, ClonePdLoop, Zenon
<1>3. /\ w[0] = pmm_alloc_page(m)
      /\ \A n \in 1 .. N : w[n] = PdEntry(w[n - 1], src, n - 1)
      /\ clone_pd(m, src) = w[N]
  BY <1>0, <1>2, Zenon DEF ClonePdRounds
<1> DEFINE G == {n \in Nat : n <= N => IsFilling(w[n], m, own, lv, c, l, src, n)}
<1>4. 0 \in G
  BY <1>3, FillStart, Zenon
<1>5. ASSUME NEW n \in Nat, n \in G PROVE n + 1 \in G
  <2> SUFFICES ASSUME n + 1 <= N PROVE IsFilling(w[n + 1], m, own, lv, c, l, src, n + 1)
    OBVIOUS
  <2>1. n + 1 \in 1 .. N /\ (n + 1) - 1 = n /\ n <= N /\ n < N /\ n \in Index
    BY <1>1
  <2>2. PICK r, m2, s : r = w[n] /\ m2 = r.m /\ s = m2.mem[src][n]
    BY Zenon
  <2>3. IsFilling(r, m, own, lv, c, l, src, n) /\ w[n + 1] = PdEntry(r, src, n)
    BY <1>3, <1>5, <2>1, <2>2, Zenon
  <2>4. CASE Skipped(r, src, n)
    <3>1. w[n + 1] = r
      BY <2>3, <2>4, Zenon DEF PdEntry
    <3>2. IsFilling(r, m, own, lv, c, l, src, n + 1)
      BY ONLY <1>1, <2>1, <2>3, <2>4, FillSkip, Zenon
    <3> QED BY <3>1, <3>2, Zenon
  <2>5. CASE ~ Skipped(r, src, n)
    <3>1. PICK x : x = clone_pt(m2, s)
      BY Zenon
    <3>2. CopiesTo(x, m2, p, c, j, s)
      BY <1>0, <3>1, ClonePtOk, Zenon
    <3>3. w[n + 1] = Filled(r.page, n, x)
      BY <2>2, <2>3, <2>5, <3>1, Zenon DEF PdEntry
    <3>4. IsFilling(Filled(r.page, n, x), m, own, lv, c, l, src, n + 1)
      BY ONLY c \in Procs, <1>1, <2>1, <2>2, <2>3, <2>5, <3>2, FillEntry, Zenon
    <3> QED BY <3>3, <3>4, Zenon
  <2> QED BY <2>4, <2>5, Zenon
<1>6. Nat \subseteq G
  <2> HIDE DEF G
  <2> QED BY <1>4, <1>5, NatSetInduction, Zenon
<1>7. IsFilling(w[N], m, own, lv, c, l, src, N)
  BY <1>1, <1>6, SMTT(30)
<1>8. \A i \in Index : i < N \/ m.mem[src][i] = 0
  BY <1>0, Sizes DEF Index
<1>9. PICK r : r = w[N]
  BY Zenon
<1>10. IsCopied(r, m, own, lv, c, l, src)
  BY <1>1, <1>7, <1>8, <1>9, FillEnd, Zenon
<1> QED BY <1>0, <1>3, <1>9, <1>10, Zenon

(* clone_pdpt makes a copy of a PDPT or fails. *)
LEMMA ClonePdptOk ==
  ASSUME NEW m, NEW src, NEW p, NEW c \in Procs
  PROVE  CopiesTo(clone_pdpt(m, src), m, p, c, 3, src)
<1> SUFFICES ASSUME NEW own, NEW lv, Labelled(m, own, lv), Leads(own, lv, src, p, 3)
             PROVE  IsCopied(clone_pdpt(m, src), m, own, lv, c, 3, src)
  BY Zenon DEF CopiesTo
<1>0. PICK N, l, j : N = Entries /\ l = 3 /\ j = 2
  BY Zenon
<1>1. N \in Nat /\ l \in 1 .. 4 /\ j = l - 1 /\ Leads(own, lv, src, p, l) /\ \A n \in Nat : n < N => n \in Index
  BY <1>0, Sizes, Halves DEF Index, Half
<1>2. PICK w : ClonePdptRounds(w, m, src)
  BY <1>0, <1>1, ClonePdptLoop, Zenon
<1>3. /\ w[0] = pmm_alloc_page(m)
      /\ \A n \in 1 .. N : w[n] = PdptEntry(w[n - 1], src, n - 1)
      /\ clone_pdpt(m, src) = w[N]
  BY <1>0, <1>2, Zenon DEF ClonePdptRounds
<1> DEFINE G == {n \in Nat : n <= N => IsFilling(w[n], m, own, lv, c, l, src, n)}
<1>4. 0 \in G
  BY <1>3, FillStart, Zenon
<1>5. ASSUME NEW n \in Nat, n \in G PROVE n + 1 \in G
  <2> SUFFICES ASSUME n + 1 <= N PROVE IsFilling(w[n + 1], m, own, lv, c, l, src, n + 1)
    OBVIOUS
  <2>1. n + 1 \in 1 .. N /\ (n + 1) - 1 = n /\ n <= N /\ n < N /\ n \in Index
    BY <1>1
  <2>2. PICK r, m2, s : r = w[n] /\ m2 = r.m /\ s = m2.mem[src][n]
    BY Zenon
  <2>3. IsFilling(r, m, own, lv, c, l, src, n) /\ w[n + 1] = PdptEntry(r, src, n)
    BY <1>3, <1>5, <2>1, <2>2, Zenon
  <2>4. CASE Skipped(r, src, n)
    <3>1. w[n + 1] = r
      BY <2>3, <2>4, Zenon DEF PdptEntry
    <3>2. IsFilling(r, m, own, lv, c, l, src, n + 1)
      BY ONLY <1>1, <2>1, <2>3, <2>4, FillSkip, Zenon
    <3> QED BY <3>1, <3>2, Zenon
  <2>5. CASE ~ Skipped(r, src, n)
    <3>1. PICK x : x = clone_pd(m2, s)
      BY Zenon
    <3>2. CopiesTo(x, m2, p, c, j, s)
      BY <1>0, <3>1, ClonePdOk, Zenon
    <3>3. w[n + 1] = Filled(r.page, n, x)
      BY <2>2, <2>3, <2>5, <3>1, Zenon DEF PdptEntry
    <3>4. IsFilling(Filled(r.page, n, x), m, own, lv, c, l, src, n + 1)
      BY ONLY c \in Procs, <1>1, <2>1, <2>2, <2>3, <2>5, <3>2, FillEntry, Zenon
    <3> QED BY <3>3, <3>4, Zenon
  <2> QED BY <2>4, <2>5, Zenon
<1>6. Nat \subseteq G
  <2> HIDE DEF G
  <2> QED BY <1>4, <1>5, NatSetInduction, Zenon
<1>7. IsFilling(w[N], m, own, lv, c, l, src, N)
  BY <1>1, <1>6, SMTT(30)
<1>8. \A i \in Index : i < N \/ m.mem[src][i] = 0
  BY <1>0, Sizes DEF Index
<1>9. PICK r : r = w[N]
  BY Zenon
<1>10. IsCopied(r, m, own, lv, c, l, src)
  BY <1>1, <1>7, <1>8, <1>9, FillEnd, Zenon
<1> QED BY <1>0, <1>3, <1>9, <1>10, Zenon

(* The PML4 begins with the upper half of its source, which is empty. *)
LEMMA SpaceStart ==
  ASSUME NEW m, NEW own, NEW lv, Labelled(m, own, lv), NEW c, NEW k, NEW p, NEW pml4, Leads(own, lv, pml4, p, 4)
  PROVE  IsFilling(WithUpperHalf(pmm_alloc_page(m), m, pml4), m, own, lv, c, k, pml4, 0)
<1> DEFINE a == pmm_alloc_page(m)
           z == [i \in Index |-> IF i \in UserIndex THEN 0 ELSE m.mem[pml4][i]]
<1>1. IsFilling(a, m, own, lv, c, k, pml4, 0)
  BY FillStart, Zenon
<1>2. CASE a.page = NoPage
  BY <1>1, <1>2, Zenon DEF WithUpperHalf
<1>3. CASE a.page # NoPage
  <2>1. PICK n, t : n = a.m /\ t = a.page
    BY Zenon
  <2>2. PICK own2, lv2 : Filling(n, t, m, own, lv, own2, lv2, c, k, pml4, 0)
    BY <1>1, <2>1, Zenon DEF IsFilling
  <2>3. WithUpperHalf(a, m, pml4) = [m |-> SetPage(n, t, z), page |-> t]
    BY <1>3, <2>1, Zenon DEF WithUpperHalf
  <2> HIDE DEF a
  <2>4. Fits(m, own, lv, pml4, p, 4)
    BY LabelledFacts, Zenon DEF Leads
  <2>5. z \in [Index -> Nat] /\ \A i \in Index : z[i] = 0
    BY <2>4 DEF Fits
  <2> HIDE DEF z
  <2>6. /\ Labelled(n, own2, lv2) /\ Extends(own, lv, own2, lv2) /\ Untouched(m, n, own, own2)
        /\ Loose(t, m, n, own2)
    BY <1>3, <2>1, <2>2, Zenon DEF Filling
  <2>7. PICK m2 : m2 = SetPage(n, t, z)
    BY Zenon
  <2>8. t \in AllPages /\ t \notin DOMAIN own2 /\ t \notin m.used
    BY <2>6, PageSets, Zenon DEF Loose
  <2>9. n \in Memories /\ InitialBitmap \subseteq n.used /\ DOMAIN own2 \subseteq n.used /\ DOMAIN own2 \subseteq AllPages
    BY <2>6, LabelledFacts, Zenon
  <2>10. PageSet(m2, n, t, z)
    BY <2>5, <2>7, <2>8, <2>9, SetPageFacts, Zenon
  <2>11. /\ m2 \in Memories /\ m2.used = n.used /\ m2.mem[t] = z
         /\ \A f \in AllPages : f # t => m2.mem[f] = n.mem[f]
    BY <2>10, Zenon DEF PageSet
  <2>12. Labelled(m2, own2, lv2)
    BY <2>6, <2>8, <2>9, <2>11, LabelsKept, Zenon
  <2>13. Untouched(m, m2, own, own2)
    <3>1. m.used \subseteq AllPages
      BY LabelledFacts, MemFacts, Zenon
    <3> QED BY <2>6, <2>8, <2>11, <3>1, Zenon DEF Untouched
  <2>14. Loose(t, m, m2, own2)
    BY <2>6, <2>11, Zenon DEF Loose
  <2>15. \A i \in Index : EntryDone(m2, t, own2, lv2, c, k, pml4, 0, i)
    <3>1. \A i \in Index : ~ (i < 0)
      BY Sizes DEF Index
    <3> QED BY <2>5, <2>11, <3>1, Zenon DEF EntryDone
  <2>16. Filling(m2, t, m, own, lv, own2, lv2, c, k, pml4, 0)
    BY <2>6, <2>12, <2>13, <2>14, <2>15, Zenon DEF Filling
  <2>17. PICK r : r = [m |-> m2, page |-> t]
    BY Zenon
  <2>18. r.m = m2 /\ r.page = t
    BY <2>17, Zenon
  <2>19. IsFilling(r, m, own, lv, c, k, pml4, 0)
    BY <2>16, <2>18, Zenon DEF IsFilling
  <2> QED BY <2>3, <2>7, <2>17, <2>19, Zenon DEF a
<1> QED BY <1>2, <1>3, Zenon

(* vmm_clone_address_space makes a copy or fails; labelled frames keep their words. *)
LEMMA CloneSpaceOk ==
  ASSUME NEW m, NEW pml4, NEW p, NEW c \in Procs
  PROVE  CopiesTo(vmm_clone_address_space(m, pml4), m, p, c, 4, pml4)
<1> SUFFICES ASSUME NEW own, NEW lv, Labelled(m, own, lv), Leads(own, lv, pml4, p, 4)
             PROVE  IsCopied(vmm_clone_address_space(m, pml4), m, own, lv, c, 4, pml4)
  BY Zenon DEF CopiesTo
<1>0. PICK N, l, j : N = Entries \div 2 /\ l = 4 /\ j = 3
  BY Zenon
<1>1. N \in Nat /\ l \in 1 .. 4 /\ j = l - 1 /\ Leads(own, lv, pml4, p, l) /\ \A n \in Nat : n < N => n \in Index
  BY <1>0, Sizes, Halves, SMTT(30) DEF Index, Half
<1>2. PICK w : CloneSpaceRounds(w, m, pml4)
  BY <1>0, <1>1, CloneSpaceLoop, Zenon
<1>3. /\ w[0] = WithUpperHalf(pmm_alloc_page(m), m, pml4)
      /\ \A n \in 1 .. N : w[n] = Pml4Entry(w[n - 1], pml4, n - 1)
      /\ vmm_clone_address_space(m, pml4) = w[N]
  BY <1>0, <1>2, Zenon DEF CloneSpaceRounds
<1> DEFINE G == {n \in Nat : n <= N => IsFilling(w[n], m, own, lv, c, l, pml4, n)}
<1>4. 0 \in G
  BY <1>3, SpaceStart, Zenon
<1>5. ASSUME NEW n \in Nat, n \in G PROVE n + 1 \in G
  <2> SUFFICES ASSUME n + 1 <= N PROVE IsFilling(w[n + 1], m, own, lv, c, l, pml4, n + 1)
    OBVIOUS
  <2>1. n + 1 \in 1 .. N /\ (n + 1) - 1 = n /\ n <= N /\ n < N /\ n \in Index
    BY <1>1
  <2>2. PICK r, m2, s : r = w[n] /\ m2 = r.m /\ s = m2.mem[pml4][n]
    BY Zenon
  <2>3. IsFilling(r, m, own, lv, c, l, pml4, n) /\ w[n + 1] = Pml4Entry(r, pml4, n)
    BY <1>3, <1>5, <2>1, <2>2, Zenon
  <2>4. CASE Skipped(r, pml4, n)
    <3>1. w[n + 1] = r
      BY <2>3, <2>4, Zenon DEF Pml4Entry
    <3>2. IsFilling(r, m, own, lv, c, l, pml4, n + 1)
      BY ONLY <1>1, <2>1, <2>3, <2>4, FillSkip, Zenon
    <3> QED BY <3>1, <3>2, Zenon
  <2>5. CASE ~ Skipped(r, pml4, n)
    <3>1. PICK x : x = clone_pdpt(m2, s)
      BY Zenon
    <3>2. CopiesTo(x, m2, p, c, j, s)
      BY <1>0, <3>1, ClonePdptOk, Zenon
    <3>3. w[n + 1] = Filled(r.page, n, x)
      BY <2>2, <2>3, <2>5, <3>1, Zenon DEF Pml4Entry
    <3>4. IsFilling(Filled(r.page, n, x), m, own, lv, c, l, pml4, n + 1)
      BY ONLY c \in Procs, <1>1, <2>1, <2>2, <2>3, <2>5, <3>2, FillEntry, Zenon
    <3> QED BY <3>3, <3>4, Zenon
  <2> QED BY <2>4, <2>5, Zenon
<1>6. Nat \subseteq G
  <2> HIDE DEF G
  <2> QED BY <1>4, <1>5, NatSetInduction, Zenon
<1>7. IsFilling(w[N], m, own, lv, c, l, pml4, N)
  BY <1>1, <1>6
<1>8. \A i \in Index : i < N \/ m.mem[pml4][i] = 0
  <2>1. Fits(m, own, lv, pml4, p, 4)
    BY LabelledFacts, Zenon DEF Leads
  <2>2. \A i \in Index : i < N \/ i \notin UserIndex
    BY <1>0, Sizes DEF Index, UserIndex
  <2> QED BY <2>1, <2>2, Zenon DEF Fits
<1>9. PICK r : r = w[N]
  BY Zenon
<1>10. IsCopied(r, m, own, lv, c, l, pml4)
  BY <1>1, <1>7, <1>8, <1>9, FillEnd, Zenon
<1> QED BY <1>0, <1>3, <1>9, <1>10, Zenon

-----------------------------------------------------------------------------
(* What a space looks like from inside. *)
ViewOf(m, t4) ==
  [page \in {g \in 0 .. PageOf(KernelBase) - 1 : vmm_get_physical(m, t4, g * Entries) # 0} |->
     m.mem[PageOf(vmm_get_physical(m, t4, page * Entries))]]

(* Two spaces look alike when the same addresses are mapped in both, to     *)
(* frames with the same words.                                              *)
LookAlike(m, t, m2, t2) ==
  \A addr \in Nat :
    /\ FrameOf(m2, t2, addr) = NoPage <=> FrameOf(m, t, addr) = NoPage
    /\ FrameOf(m, t, addr) # NoPage => m2.mem[FrameOf(m2, t2, addr)] = m.mem[FrameOf(m, t, addr)]

(* Address spaces that look alike show the same words. *)
LEMMA SameView ==
  ASSUME NEW m, NEW own, NEW lv, Labelled(m, own, lv), NEW p, NEW t, Leads(own, lv, t, p, 4),
         NEW m2, NEW own2, NEW lv2, Labelled(m2, own2, lv2), NEW q, NEW t2, Leads(own2, lv2, t2, q, 4),
         LookAlike(m, t, m2, t2)
  PROVE  ViewOf(m2, t2) = ViewOf(m, t)
<1>1. ASSUME NEW addr \in Nat
      PROVE  /\ vmm_get_physical(m2, t2, addr) # 0 <=> vmm_get_physical(m, t, addr) # 0
             /\ vmm_get_physical(m, t, addr) # 0 =>
                  m2.mem[PageOf(vmm_get_physical(m2, t2, addr))] = m.mem[PageOf(vmm_get_physical(m, t, addr))]
  <2>1. PICK f, f2 : f = FrameOf(m, t, addr) /\ f2 = FrameOf(m2, t2, addr)
    BY Zenon
  <2>2. (f2 = NoPage <=> f = NoPage) /\ (f # NoPage => m2.mem[f2] = m.mem[f])
    BY <2>1, Zenon DEF LookAlike
  <2>3. CASE f = NoPage
    <3>1. vmm_get_physical(m2, t2, addr) = 0 /\ vmm_get_physical(m, t, addr) = 0
      BY <2>1, <2>2, <2>3, Zenon DEF vmm_get_physical
    <3> QED BY <3>1, Zenon
  <2>4. CASE f # NoPage
    <3>1. vmm_get_physical(m, t, addr) # 0 /\ PageOf(vmm_get_physical(m, t, addr)) = f
      BY ONLY <2>1, <2>4, PhysicalFacts, Labelled(m, own, lv), Leads(own, lv, t, p, 4), addr \in Nat, SMTT(30)
    <3>2. f2 # NoPage
      BY <2>2, <2>4, Zenon
    <3>3. vmm_get_physical(m2, t2, addr) # 0 /\ PageOf(vmm_get_physical(m2, t2, addr)) = f2
      BY ONLY <2>1, <3>2, PhysicalFacts, Labelled(m2, own2, lv2), Leads(own2, lv2, t2, q, 4), addr \in Nat, SMTT(30)
    <3> QED BY <2>2, <2>4, <3>1, <3>3, Zenon
  <2> QED BY <2>3, <2>4, Zenon
<1>2. \A g \in 0 .. PageOf(KernelBase) - 1 : g * Entries \in Nat
  BY Sizes
<1>3. {g \in 0 .. PageOf(KernelBase) - 1 : vmm_get_physical(m2, t2, g * Entries) # 0}
        = {g \in 0 .. PageOf(KernelBase) - 1 : vmm_get_physical(m, t, g * Entries) # 0}
  BY <1>1, <1>2, Zenon
<1>4. \A g \in {h \in 0 .. PageOf(KernelBase) - 1 : vmm_get_physical(m, t, h * Entries) # 0} :
        m2.mem[PageOf(vmm_get_physical(m2, t2, g * Entries))] = m.mem[PageOf(vmm_get_physical(m, t, g * Entries))]
  BY <1>1, <1>2, Zenon
<1> QED BY <1>3, <1>4, Zenon DEF ViewOf

(* A space whose frames are not written looks as it did. *)
LEMMA FramesKept ==
  ASSUME NEW m, NEW own, NEW lv, Labelled(m, own, lv), NEW p, NEW t4, Leads(own, lv, t4, p, 4),
         NEW m2, \A f \in DOMAIN own : own[f] = p => m2.mem[f] = m.mem[f]
  PROVE  /\ \A addr \in Nat : FrameOf(m2, t4, addr) = FrameOf(m, t4, addr)
         /\ LookAlike(m, t4, m2, t4)
<1>1. \A t, k, i : t = NoPage \/ Leads(own, lv, t, p, k) => EntryOf(m2, t, i) = EntryOf(m, t, i)
  BY Zenon DEF EntryOf, Leads
<1>2. ASSUME NEW addr \in Nat
      PROVE  /\ FrameOf(m2, t4, addr) = FrameOf(m, t4, addr)
             /\ FrameOf(m, t4, addr) = NoPage \/ Leads(own, lv, FrameOf(m, t4, addr), p, 0)
  <2>0. /\ PML4_INDEX(addr) \in Index /\ PDPT_INDEX(addr) \in Index
        /\ PD_INDEX(addr) \in Index /\ PT_INDEX(addr) \in Index /\ NoPage = 0
    BY Indices, PageSets, Zenon
  <2>1. PICK t3, t2, t1, f : /\ t3 = EntryOf(m, t4, PML4_INDEX(addr)) /\ t2 = EntryOf(m, t3, PDPT_INDEX(addr))
                             /\ t1 = EntryOf(m, t2, PD_INDEX(addr)) /\ f = EntryOf(m, t1, PT_INDEX(addr))
    BY Zenon
  <2>2. t3 = NoPage \/ Leads(own, lv, t3, p, 3)
    BY <2>0, <2>1, Entry4, SMTT(30)
  <2>3. t2 = NoPage \/ Leads(own, lv, t2, p, 2)
    BY <2>0, <2>1, <2>2, Entry3, NoEntry, SMTT(30)
  <2>4. t1 = NoPage \/ Leads(own, lv, t1, p, 1)
    BY <2>0, <2>1, <2>3, Entry2, NoEntry, SMTT(30)
  <2>5. f = NoPage \/ Leads(own, lv, f, p, 0)
    BY <2>0, <2>1, <2>4, Entry1, NoEntry, SMTT(30)
  <2>6. /\ EntryOf(m2, t4, PML4_INDEX(addr)) = t3 /\ EntryOf(m2, t3, PDPT_INDEX(addr)) = t2
        /\ EntryOf(m2, t2, PD_INDEX(addr)) = t1 /\ EntryOf(m2, t1, PT_INDEX(addr)) = f
    BY <1>1, <2>1, <2>2, <2>3, <2>4, Zenon
  <2> QED BY <2>1, <2>5, <2>6, Zenon DEF FrameOf
<1>3. \A f : Leads(own, lv, f, p, 0) => m2.mem[f] = m.mem[f]
  BY Zenon DEF Leads
<1> QED BY <1>2, <1>3, Zenon DEF LookAlike

(* A copy looks like its original. *)
LEMMA CopyLooks ==
  ASSUME NEW m, NEW own, NEW lv, Labelled(m, own, lv), NEW p, NEW a4, Leads(own, lv, a4, p, 4),
         NEW c, NEW b4, Leads(own, lv, b4, c, 4), CopyOf(m, a4, b4, 4)
  PROVE  LookAlike(m, a4, m, b4)
<1> SUFFICES ASSUME NEW addr \in Nat
             PROVE  /\ FrameOf(m, b4, addr) = NoPage <=> FrameOf(m, a4, addr) = NoPage
                    /\ FrameOf(m, a4, addr) # NoPage => m.mem[FrameOf(m, b4, addr)] = m.mem[FrameOf(m, a4, addr)]
  BY Zenon DEF LookAlike
<1>0. /\ PML4_INDEX(addr) \in Index /\ PDPT_INDEX(addr) \in Index
      /\ PD_INDEX(addr) \in Index /\ PT_INDEX(addr) \in Index /\ NoPage = 0
  BY Indices, PageSets, Zenon
<1>1. PICK a3, a2, a1, a0 : /\ a3 = EntryOf(m, a4, PML4_INDEX(addr)) /\ a2 = EntryOf(m, a3, PDPT_INDEX(addr))
                            /\ a1 = EntryOf(m, a2, PD_INDEX(addr)) /\ a0 = EntryOf(m, a1, PT_INDEX(addr))
  BY Zenon
<1>2. PICK b3, b2, b1, b0 : /\ b3 = EntryOf(m, b4, PML4_INDEX(addr)) /\ b2 = EntryOf(m, b3, PDPT_INDEX(addr))
                            /\ b1 = EntryOf(m, b2, PD_INDEX(addr)) /\ b0 = EntryOf(m, b1, PT_INDEX(addr))
  BY Zenon
<1>3. FrameOf(m, a4, addr) = a0 /\ FrameOf(m, b4, addr) = b0
  BY <1>1, <1>2, Zenon DEF FrameOf
<1>4. \/ a3 = NoPage /\ b3 = NoPage
      \/ Leads(own, lv, a3, p, 3) /\ Leads(own, lv, b3, c, 3) /\ Alike3(m, a3, b3) /\ a3 # NoPage /\ b3 # NoPage
  <2>1. Alike4(m, a4, b4)
    BY Zenon DEF CopyOf
  <2>2. /\ a3 = m.mem[a4][PML4_INDEX(addr)] /\ (a3 = 0 \/ Leads(own, lv, a3, p, 3))
        /\ b3 = m.mem[b4][PML4_INDEX(addr)] /\ (b3 = 0 \/ Leads(own, lv, b3, c, 3))
    BY <1>0, <1>1, <1>2, Entry4, SMTT(30)
  <2> QED BY <1>0, <2>1, <2>2, Zenon DEF Alike4
<1>5. \/ a2 = NoPage /\ b2 = NoPage
      \/ Leads(own, lv, a2, p, 2) /\ Leads(own, lv, b2, c, 2) /\ Alike2(m, a2, b2) /\ a2 # NoPage /\ b2 # NoPage
  <2>1. CASE a3 = NoPage /\ b3 = NoPage
    BY <1>1, <1>2, <2>1, NoEntry, Zenon
  <2>2. CASE Leads(own, lv, a3, p, 3) /\ Leads(own, lv, b3, c, 3) /\ Alike3(m, a3, b3)
    <3>1. /\ a2 = m.mem[a3][PDPT_INDEX(addr)] /\ (a2 = 0 \/ Leads(own, lv, a2, p, 2))
          /\ b2 = m.mem[b3][PDPT_INDEX(addr)] /\ (b2 = 0 \/ Leads(own, lv, b2, c, 2))
      BY <1>0, <1>1, <1>2, <2>2, Entry3, SMTT(30)
    <3> QED BY <1>0, <2>2, <3>1, Zenon DEF Alike3
  <2> QED BY <1>4, <2>1, <2>2, Zenon
<1>6. \/ a1 = NoPage /\ b1 = NoPage
      \/ Leads(own, lv, a1, p, 1) /\ Leads(own, lv, b1, c, 1) /\ Alike1(m, a1, b1) /\ a1 # NoPage /\ b1 # NoPage
  <2>1. CASE a2 = NoPage /\ b2 = NoPage
    BY <1>1, <1>2, <2>1, NoEntry, Zenon
  <2>2. CASE Leads(own, lv, a2, p, 2) /\ Leads(own, lv, b2, c, 2) /\ Alike2(m, a2, b2)
    <3>1. /\ a1 = m.mem[a2][PD_INDEX(addr)] /\ (a1 = 0 \/ Leads(own, lv, a1, p, 1))
          /\ b1 = m.mem[b2][PD_INDEX(addr)] /\ (b1 = 0 \/ Leads(own, lv, b1, c, 1))
      BY <1>0, <1>1, <1>2, <2>2, Entry2, SMTT(30)
    <3> QED BY <1>0, <2>2, <3>1, Zenon DEF Alike2
  <2> QED BY <1>5, <2>1, <2>2, Zenon
<1>7. \/ a0 = NoPage /\ b0 = NoPage
      \/ Alike0(m, a0, b0) /\ a0 # NoPage /\ b0 # NoPage
  <2>1. CASE a1 = NoPage /\ b1 = NoPage
    BY <1>1, <1>2, <2>1, NoEntry, Zenon
  <2>2. CASE Leads(own, lv, a1, p, 1) /\ Leads(own, lv, b1, c, 1) /\ Alike1(m, a1, b1)
    <3>1. a0 = m.mem[a1][PT_INDEX(addr)] /\ b0 = m.mem[b1][PT_INDEX(addr)]
      BY <1>0, <1>1, <1>2, <2>2, Entry1, SMTT(30)
    <3> QED BY <1>0, <2>2, <3>1, Zenon DEF Alike1
  <2> QED BY <1>6, <2>1, <2>2, Zenon
<1> QED BY <1>3, <1>7, Zenon DEF Alike0

-----------------------------------------------------------------------------
(* Steps of process p.  The others keep their frames, labels and words. *)
Others(m, own, lv, m2, own2, lv2, p) ==
  /\ Labelled(m2, own2, lv2)
  /\ \A f \in DOMAIN own : own[f] # p => /\ f \in DOMAIN own2 /\ own2[f] = own[f] /\ lv2[f] = lv[f]
                                         /\ m2.mem[f] = m.mem[f]

(* Two steps of a process leave the others alone if each does. *)
LEMMA OthersTwice ==
  ASSUME NEW m, NEW own, NEW lv, NEW m2, NEW own2, NEW lv2, NEW m3, NEW own3, NEW lv3, NEW p,
         Others(m, own, lv, m2, own2, lv2, p), Others(m2, own2, lv2, m3, own3, lv3, p)
  PROVE  Others(m, own, lv, m3, own3, lv3, p)
BY Zenon DEF Others

(* A growth leaves the other processes alone. *)
LEMMA GrewOthers ==
  ASSUME NEW m, NEW own, NEW lv, NEW m2, NEW own2, NEW lv2, NEW p, Grew(m, own, lv, m2, own2, lv2, p)
  PROVE  Others(m, own, lv, m2, own2, lv2, p)
BY Zenon DEF Others, Grew, Extends

(* vmm_create_address_space: a PML4 for p, or nothing. *)
RootMade(r, m, own, lv, p) ==
  \E own2, lv2 : /\ Others(m, own, lv, r.m, own2, lv2, p)
                 /\ r.page # NoPage => Leads(own2, lv2, r.page, p, 4)

(* vmm_create_address_space gives a process a PML4 of its own, or nothing. *)
LEMMA NewRoot ==
  ASSUME NEW m, NEW own, NEW lv, Labelled(m, own, lv), NEW p \in Procs
  PROVE  RootMade(vmm_create_address_space(m), m, own, lv, p)
<1> DEFINE a == pmm_alloc_page(m)
           r == vmm_create_address_space(m)
           z == [i \in Index |-> IF i \in UserIndex THEN a.m.mem[a.page][i] ELSE KernelHalf[i]]
<1>0. m \in Memories /\ InitialBitmap \subseteq m.used
  BY LabelledFacts, Zenon
<1>1. CASE a.page = NoPage /\ a.m = m
  <2>1. r = a
    BY <1>1, Zenon DEF vmm_create_address_space
  <2>2. Others(m, own, lv, m, own, lv, p)
    BY Zenon DEF Others
  <2>3. RootMade(a, m, own, lv, p)
    <3> HIDE DEF a
    <3> QED BY <1>1, <2>2, Zenon DEF RootMade
  <2> QED BY <2>1, <2>3, Zenon
<1>2. CASE Got(a, m)
  <2>1. a.page # NoPage
    BY <1>2, Zenon DEF Got
  <2>2. r = [m |-> SetPage(a.m, a.page, z), page |-> a.page]
    BY <2>1, Zenon DEF vmm_create_address_space
  <2> HIDE DEF a, r
  <2>3. PICK n, t : n = a.m /\ t = a.page
    BY Zenon
  <2>4. /\ Labelled(n, own, lv) /\ Untouched(m, n, own, own) /\ Loose(t, m, n, own)
        /\ \A i \in Index : n.mem[t][i] = 0
    BY <1>2, <2>3, JustGot, Zenon
  <2>5. z \in [Index -> Nat] /\ \A i \in Index : z[i] = 0
    BY <2>3, <2>4, SMTT(30) DEF KernelHalf
  <2> HIDE DEF z
  <2>6. PICK m2 : m2 = SetPage(n, t, z)
    BY Zenon
  <2>7. t \in Managed /\ t \in AllPages /\ t \notin DOMAIN own /\ t \in n.used
    BY <2>4, PageSets, Zenon DEF Loose
  <2>8. n \in Memories /\ InitialBitmap \subseteq n.used /\ DOMAIN own \subseteq n.used
        /\ DOMAIN own \subseteq AllPages /\ DOMAIN own \subseteq m.used
    BY <2>4, LabelledFacts, Zenon
  <2>9. PageSet(m2, n, t, z)
    BY <2>5, <2>6, <2>7, <2>8, SetPageFacts, Zenon
  <2>10. /\ m2 \in Memories /\ m2.used = n.used /\ m2.mem[t] = z
         /\ \A f \in AllPages : f # t => m2.mem[f] = n.mem[f]
    BY <2>9, Zenon DEF PageSet
  <2>11. \A f \in DOMAIN own : m2.mem[f] = n.mem[f] /\ m2.mem[f] = m.mem[f]
    BY <2>4, <2>7, <2>8, <2>10, Zenon DEF Untouched
  <2>12. Labelled(m2, own, lv)
    BY <2>4, <2>8, <2>10, <2>11, LabelsKept, Zenon
  <2>13. Fits(m2, own, lv, t, p, 4)
    BY <2>5, <2>10, Zenon DEF Fits
  <2>14. PICK k : k = 4
    BY Zenon
  <2>15. k \in 0 .. 4 /\ Fits(m2, own, lv, t, p, k) /\ t \in m2.used
    BY <2>7, <2>10, <2>13, <2>14, SMTT(30)
  <2> DEFINE own2 == Added(own, t, p)
             lv2 == Added(lv, t, k)
  <2>16. Labelled(m2, own2, lv2) /\ Extends(own, lv, own2, lv2) /\ Leads(own2, lv2, t, p, k)
    BY ONLY p \in Procs, <2>7, <2>12, <2>15, LabelAdded, Zenon
  <2> HIDE DEF own2, lv2
  <2>17. Others(m, own, lv, m2, own2, lv2, p)
    BY <2>11, <2>16, Zenon DEF Others, Extends
  <2>18. r.m = m2 /\ r.page = t
    BY <2>2, <2>3, <2>6, Zenon
  <2>19. RootMade(r, m, own, lv, p)
    BY <2>14, <2>16, <2>17, <2>18, Zenon DEF RootMade
  <2> QED BY <2>19, Zenon DEF r
<1> QED BY <1>0, <1>1, <1>2, AllocFacts, Zenon

(* vmm_destroy_address_space: what p had is given up. *)
LEMMA Destroyed ==
  ASSUME NEW m, NEW own, NEW lv, Labelled(m, own, lv), NEW p, NEW t, Leads(own, lv, t, p, 4)
  PROVE  \E own2, lv2 : Others(m, own, lv, vmm_destroy_address_space(m, t), own2, lv2, p)
<1> DEFINE own2 == Dropped(own, own, p)
           lv2 == Dropped(lv, own, p)
<1>1. /\ Labelled(m, own2, lv2)
      /\ \A f \in DOMAIN own : own[f] # p => f \in DOMAIN own2 /\ own2[f] = own[f] /\ lv2[f] = lv[f]
      /\ \A f \in DOMAIN own2 : f \in DOMAIN own /\ own[f] # p
  BY LabelsDropped
<1> HIDE DEF own2, lv2
<1>2. m \in Memories /\ InitialBitmap \subseteq m.used /\ DOMAIN own2 \subseteq m.used
  BY <1>1, LabelledFacts, Zenon
<1>3. PICK m2 : m2 = pmm_free_page(m, t)
  BY Zenon
<1>4. m2 \in Memories /\ m2.used = m.used \ {t} /\ m2.mem = m.mem
  BY <1>2, <1>3, FreeFacts, Zenon
<1>5. t \in Managed /\ t \notin DOMAIN own2
  BY <1>1, LabelledFacts, Zenon DEF Leads
<1>6. Labelled(m2, own2, lv2)
  BY <1>1, <1>2, <1>4, <1>5, LabelsKept, Zenon DEF InitialBitmap
<1>7. Others(m, own, lv, m2, own2, lv2, p)
  BY <1>1, <1>4, <1>6, Zenon DEF Others
<1> QED BY <1>3, <1>7, Zenon DEF vmm_destroy_address_space

(* A space made for p, with its stack, or nothing. *)
SpaceMade(r, m, own, lv, p) ==
  \E own2, lv2 :
    /\ Others(m, own, lv, r.m, own2, lv2, p)
    /\ r.page # NoPage => /\ Leads(own2, lv2, r.page, p, 4)
                          /\ \A addr \in PageStarts(StackStart, StackPages) : FrameOf(r.m, r.page, addr) # NoPage

(* Of r, a space of p, work s is kept if it went well. *)
LEMMA KeptOrDestroyed ==
  ASSUME NEW m, NEW own, NEW lv, NEW p, NEW n, NEW t, NEW own1, NEW lv1,
         Others(m, own, lv, n, own1, lv1, p), Leads(own1, lv1, t, p, 4), NEW s, NEW S \in SUBSET Nat,
         MapsOk(s, n, p, t, S), s.ok => PageStarts(StackStart, StackPages) \subseteq S,
         NEW r, r = IF s.ok THEN [m |-> s.m, page |-> t]
                    ELSE [m |-> vmm_destroy_address_space(s.m, t), page |-> NoPage]
  PROVE  SpaceMade(r, m, own, lv, p)
<1>1. Labelled(n, own1, lv1)
  BY Zenon DEF Others
<1>2. PagesMapped(s, n, own1, lv1, p, t, S)
  BY <1>1, Zenon DEF MapsOk
<1>3. PICK m2 : m2 = s.m
  BY Zenon
<1>4. PICK own2, lv2 : Grew(n, own1, lv1, m2, own2, lv2, p)
  BY <1>2, <1>3, Zenon DEF PagesMapped
<1>5. Leads(own2, lv2, t, p, 4) /\ Labelled(m2, own2, lv2)
  BY <1>4, LeadsKept, SMTT(30) DEF Grew
<1>6. Others(m, own, lv, m2, own2, lv2, p)
  BY <1>4, GrewOthers, OthersTwice, SMTT(30)
<1>7. CASE s.ok
  <2>1. r.m = m2 /\ r.page = t
    BY <1>3, <1>7, Zenon
  <2>2. \A addr \in PageStarts(StackStart, StackPages) : FrameOf(m2, t, addr) # NoPage
    BY <1>2, <1>3, <1>7, Zenon DEF PagesMapped
  <2> QED BY <1>5, <1>6, <2>1, <2>2, Zenon DEF SpaceMade
<1>8. CASE ~ s.ok
  <2>1. r.m = vmm_destroy_address_space(m2, t) /\ r.page = NoPage
    BY <1>3, <1>8, Zenon
  <2>2. PICK m3 : m3 = vmm_destroy_address_space(m2, t)
    BY Zenon
  <2>3. PICK own3, lv3 : Others(m2, own2, lv2, m3, own3, lv3, p)
    BY <1>5, <2>2, Destroyed, Zenon
  <2>4. Others(m, own, lv, m3, own3, lv3, p)
    BY <1>6, <2>3, OthersTwice, Zenon
  <2> QED BY <2>1, <2>2, <2>4, Zenon DEF SpaceMade
<1> QED BY <1>7, <1>8, Zenon

(* process_create gives a process a PML4 and its stack, or nothing that is reachable. *)
LEMMA NewProcessOk ==
  ASSUME NEW own, NEW lv, Labelled(ram, own, lv), NEW p \in Procs
  PROVE  SpaceMade(NewProcess, ram, own, lv, p)
<1>1. PICK m : m = ram
  BY Zenon
<1>2. PICK a : a = vmm_create_address_space(m)
  BY Zenon
<1>3. RootMade(a, m, own, lv, p)
  BY <1>1, <1>2, NewRoot, Zenon
<1>4. PICK n, t : n = a.m /\ t = a.page
  BY Zenon
<1>5. PICK own1, lv1 : /\ Others(m, own, lv, n, own1, lv1, p)
                       /\ t # NoPage => Leads(own1, lv1, t, p, 4)
  BY <1>3, <1>4, Zenon DEF RootMade
<1>6. CASE t = NoPage
  <2>1. NewProcess = a
    BY <1>1, <1>2, <1>4, <1>6, Zenon DEF NewProcess
  <2>2. SpaceMade(a, m, own, lv, p)
    BY <1>4, <1>5, <1>6, Zenon DEF SpaceMade
  <2> QED BY <1>1, <2>1, <2>2, Zenon
<1>7. CASE t # NoPage
  <2>1. PICK s, S : s = vmm_setup_user_stack(n, t) /\ S = PageStarts(StackStart, StackPages)
    BY Zenon
  <2>2. PICK r : r = IF s.ok THEN [m |-> s.m, page |-> t]
                     ELSE [m |-> vmm_destroy_address_space(s.m, t), page |-> NoPage]
    BY Zenon
  <2>3. NewProcess = r
    BY <1>1, <1>2, <1>4, <1>7, <2>1, <2>2, Zenon DEF NewProcess
  <2>4. MapsOk(s, n, p, t, S)
    BY <2>1, SetupStack, Zenon
  <2>5. S \in SUBSET Nat
    BY <2>1, StackLayout, Zenon DEF PageStarts, UserRange
  <2>6. PageStarts(StackStart, StackPages) \subseteq S
    BY <2>1, Zenon
  <2>7. SpaceMade(r, m, own, lv, p)
    BY ONLY <1>5, <1>7, <2>2, <2>4, <2>5, <2>6, KeptOrDestroyed, Zenon
  <2> QED BY <1>1, <2>3, <2>7, Zenon
<1> QED BY <1>6, <1>7, Zenon

(* A new space with an image in it, or none. *)
LEMMA NewImageOk ==
  ASSUME NEW own, NEW lv, Labelled(ram, own, lv), NEW p \in Procs, NEW image \in Images
  PROVE  SpaceMade(NewImage(image), ram, own, lv, p)
<1>1. PICK m, a : m = ram /\ a = NewProcess
  BY Zenon
<1>2. SpaceMade(a, m, own, lv, p)
  BY <1>1, NewProcessOk, Zenon
<1>3. PICK n, t : n = a.m /\ t = a.page
  BY Zenon
<1>4. PICK own1, lv1 :
        /\ Others(m, own, lv, n, own1, lv1, p)
        /\ t # NoPage => /\ Leads(own1, lv1, t, p, 4)
                         /\ \A addr \in PageStarts(StackStart, StackPages) : FrameOf(n, t, addr) # NoPage
  BY <1>2, <1>3, Zenon DEF SpaceMade
<1>5. CASE t = NoPage
  <2>1. NewImage(image) = a
    BY <1>1, <1>3, <1>5, Zenon DEF NewImage
  <2> QED BY <1>1, <1>2, <2>1, Zenon
<1>6. CASE t # NoPage
  <2>1. PICK s, S : s = elf_load(n, t, image) /\ S = PageStarts(StackStart, StackPages)
    BY Zenon
  <2>2. PICK r : r = IF s.ok THEN [m |-> s.m, page |-> t]
                     ELSE [m |-> vmm_destroy_address_space(s.m, t), page |-> NoPage]
    BY Zenon
  <2>3. NewImage(image) = r
    BY <1>1, <1>3, <1>6, <2>1, <2>2, Zenon DEF NewImage
  <2>4. MapsOk(s, n, p, t, {})
    BY <2>1, ElfLoadOk, Zenon
  <2>5. S \in SUBSET Nat
    BY <2>1, StackLayout, Zenon DEF PageStarts, UserRange
  <2>6. Labelled(n, own1, lv1)
    BY <1>4, Zenon DEF Others
  <2>7. PICK m2 : m2 = s.m
    BY Zenon
  <2>8. PagesMapped(s, n, own1, lv1, p, t, {})
    BY <1>4, <1>6, <2>4, <2>6, Zenon DEF MapsOk
  <2>9. PICK own2, lv2 : Grew(n, own1, lv1, m2, own2, lv2, p)
    BY <2>7, <2>8, Zenon DEF PagesMapped
  <2>10. Leads(own2, lv2, t, p, 4) /\ Labelled(m2, own2, lv2)
    BY <1>4, <1>6, <2>9, LeadsKept, SMTT(30) DEF Grew
  <2>11. Others(m, own, lv, m2, own2, lv2, p)
    BY <1>4, <2>9, GrewOthers, OthersTwice
  <2>13. \A addr \in S : FrameOf(m2, t, addr) # NoPage
    <3> SUFFICES ASSUME NEW addr \in S PROVE FrameOf(m2, t, addr) # NoPage
      BY Zenon
    <3>1. addr \in Nat /\ FrameOf(n, t, addr) # NoPage /\ Leads(own1, lv1, t, p, 4)
      BY <1>4, <1>6, <2>1, <2>5, Zenon
    <3> QED BY ONLY <2>6, <2>9, <3>1, MappedKept, Zenon
  <2>14. CASE s.ok
    <3>1. r.m = m2 /\ r.page = t
      BY <2>2, <2>7, <2>14, Zenon
    <3>2. SpaceMade(r, m, own, lv, p)
      BY <2>1, <2>10, <2>11, <2>13, <3>1, Zenon DEF SpaceMade
    <3> QED BY <1>1, <2>3, <3>2, Zenon
  <2>15. CASE ~ s.ok
    <3>1. PICK T : T = {}
      BY Zenon
    <3>2. T \in SUBSET Nat /\ MapsOk(s, n, p, t, T)
      BY <2>4, <3>1, Zenon
    <3>3. SpaceMade(r, m, own, lv, p)
      BY ONLY <1>4, <1>6, <2>2, <2>15, <3>2, KeptOrDestroyed, Zenon
    <3> QED BY <1>1, <2>3, <3>3, Zenon
  <2> QED BY <2>14, <2>15, Zenon
<1> QED BY <1>5, <1>6, Zenon

-----------------------------------------------------------------------------
(* The invariant: there are labels under which every live process's PML4 is *)
(* its own, and a process that has not called execve has its stack and its  *)
(* heap mapped.                                                             *)
Spaces == [pt : Managed \cup {NoPage}, heap : UserHeapStart .. HeapLimit,
           execed : BOOLEAN, image : Seq(Segments)]

(* The pages that begin in the heap. *)
HeapStarts(heap) == {g * Entries : g \in {h \in Nat : UserHeapStart <= h * Entries /\ h * Entries < heap}}

Typed ==
  /\ proc \in [Procs -> Spaces] /\ who \in Procs /\ halted \in BOOLEAN
  /\ \A p \in Procs : proc[p].pt = NoPage => proc[p].heap = UserHeapStart

Owned(m, own, lv, pr) ==
  /\ Labelled(m, own, lv)
  /\ \A p \in Procs : pr[p].pt # NoPage => Leads(own, lv, pr[p].pt, p, 4)

BackedAt(m, t4, heap) ==
  \A addr \in PageStarts(StackStart, StackPages) \cup HeapStarts(heap) : FrameOf(m, t4, addr) # NoPage

BackedOf(p) ==
  proc[p].pt # NoPage /\ ~ proc[p].execed => BackedAt(ram, proc[p].pt, proc[p].heap)

SpaceInv ==
  /\ Typed
  /\ \E own, lv : Owned(ram, own, lv, proc)
  /\ \A p \in Procs : BackedOf(p)

(* c is a new copy of p. *)
NewCopy(c, p) ==
  /\ proc[c].pt = NoPage /\ proc[p].pt # NoPage /\ proc'[c].pt # NoPage
  /\ proc'[c].heap = proc[p].heap /\ proc'[c].execed = proc[p].execed
  /\ LookAlike(ram, proc[p].pt, ram', proc'[c].pt)

(* What a step of p does: the frames of the others keep their owners and    *)
(* words, no other process changes except one that becomes a copy of p, and *)
(* p is left with what it must have.                                        *)
Kept(p) ==
  \E own, lv, own2, lv2 :
    Owned(ram, own, lv, proc) /\ Others(ram, own, lv, ram', own2, lv2, p) /\ Owned(ram', own2, lv2, proc')

Effect(p) ==
  /\ Kept(p)
  /\ Typed'
  /\ \A q \in Procs : q = p \/ proc'[q] = proc[q] \/ NewCopy(q, p)
  /\ BackedOf(p)'

(* The heap is in user space and begins at a page. *)
LEMMA HeapLayout ==
  /\ UserHeapStart \in Nat /\ UserHeapStart % Entries = 0 /\ HeapLimit \in Nat /\ UserHeapStart <= HeapLimit
  /\ HeapLimit < KernelBase /\ KernelBase \in Nat
  /\ \A heap : HeapStarts(heap) \subseteq Nat
  /\ PageStarts(StackStart, StackPages) \subseteq Nat
  /\ HeapStarts(UserHeapStart) = {}
<1>1. /\ UserHeapStart \in Nat /\ UserHeapStart % Entries = 0 /\ HeapLimit \in Nat /\ UserHeapStart <= HeapLimit
      /\ HeapLimit < KernelBase
  BY LayoutAssumption, Zenon
<1>2. KernelBase \in Nat /\ Entries \in Nat
  BY Halves, Sizes, Zenon
<1>3. \A h \in Nat : h * Entries \in Nat
  BY <1>2
<1>4. \A heap : HeapStarts(heap) \subseteq Nat
  BY <1>3, Zenon DEF HeapStarts
<1>5. PageStarts(StackStart, StackPages) \subseteq Nat
  BY StackLayout, Zenon DEF PageStarts, UserRange
<1>6. HeapStarts(UserHeapStart) = {}
  BY <1>1, <1>3 DEF HeapStarts
<1> QED BY <1>1, <1>2, <1>4, <1>5, <1>6, Zenon

(* Owners after a step of p that gives p, and p only, a new PML4 or none. *)
LEMMA OwnedAfter ==
  ASSUME NEW m, NEW own, NEW lv, NEW m2, NEW own2, NEW lv2, NEW p, NEW pr, NEW pr2,
         Owned(m, own, lv, pr), Others(m, own, lv, m2, own2, lv2, p),
         \A q \in Procs : q # p => pr2[q] = pr[q],
         pr2[p].pt # NoPage => Leads(own2, lv2, pr2[p].pt, p, 4)
  PROVE  Owned(m2, own2, lv2, pr2)
<1>1. ASSUME NEW q \in Procs, pr2[q].pt # NoPage PROVE Leads(own2, lv2, pr2[q].pt, q, 4)
  <2>1. CASE q = p
    BY <1>1, <2>1, Zenon
  <2>2. CASE q # p
    <3>1. Leads(own, lv, pr[q].pt, q, 4) /\ pr2[q].pt = pr[q].pt
      BY <1>1, <2>2, Zenon DEF Owned
    <3> QED BY <2>2, <3>1, Zenon DEF Others, Leads
  <2> QED BY <2>1, <2>2, Zenon
<1> QED BY <1>1, Zenon DEF Owned, Others

(* A process keeps what it has mapped while its space grows. *)
LEMMA BackedGrew ==
  ASSUME NEW m, NEW own, NEW lv, Labelled(m, own, lv), NEW p, NEW t4, Leads(own, lv, t4, p, 4),
         NEW m2, NEW own2, NEW lv2, Grew(m, own, lv, m2, own2, lv2, p), NEW heap, BackedAt(m, t4, heap)
  PROVE  BackedAt(m2, t4, heap)
<1> SUFFICES ASSUME NEW addr \in PageStarts(StackStart, StackPages) \cup HeapStarts(heap)
             PROVE  FrameOf(m2, t4, addr) # NoPage
  BY Zenon DEF BackedAt
<1>1. addr \in Nat
  BY HeapLayout, Zenon
<1>2. FrameOf(m, t4, addr) # NoPage
  BY Zenon DEF BackedAt
<1> QED BY <1>1, <1>2, MappedKept, Zenon

(* p alone changes: it gets a PML4, or none. *)
GetsSpace(p, page) ==
  /\ \A q \in Procs : q # p => proc'[q] = proc[q]
  /\ proc'[p].pt = page /\ proc'[p].heap = proc[p].heap
  /\ page \in Managed \cup {NoPage} => proc' \in [Procs -> Spaces]

(* A process that gets a space has the effect of a step. *)
LEMMA CreateEffect ==
  ASSUME SpaceInv, NEW p \in Procs, who' = p, proc[p].pt = NoPage, NEW new, GetsSpace(p, new.page),
         \A own, lv : Labelled(ram, own, lv) => SpaceMade(new, ram, own, lv, p),
         ram' = new.m, halted' \in BOOLEAN
  PROVE  Effect(p)
<1>1. Typed /\ proc \in [Procs -> Spaces]
  BY Zenon DEF SpaceInv, Typed
<1>2. PICK own, lv : Owned(ram, own, lv, proc)
  BY Zenon DEF SpaceInv
<1>3. SpaceMade(new, ram, own, lv, p)
  BY <1>2, Zenon DEF Owned
<1>4. PICK m2, t : m2 = new.m /\ t = new.page
  BY Zenon
<1>5. PICK own2, lv2 :
        /\ Others(ram, own, lv, m2, own2, lv2, p)
        /\ t # NoPage => /\ Leads(own2, lv2, t, p, 4)
                         /\ \A addr \in PageStarts(StackStart, StackPages) : FrameOf(m2, t, addr) # NoPage
  BY <1>3, <1>4, Zenon DEF SpaceMade
<1>6. t \in Managed \cup {NoPage}
  BY <1>5, LabelledFacts, Zenon DEF Others, Leads
<1>7. /\ \A q \in Procs : q # p => proc'[q] = proc[q]
      /\ proc'[p].pt = t /\ proc'[p].heap = proc[p].heap
      /\ proc' \in [Procs -> Spaces]
  BY <1>4, <1>6, Zenon DEF GetsSpace
<1>8. proc[p].heap = UserHeapStart
  BY <1>1, Zenon DEF Typed
<1>9. Owned(ram', own2, lv2, proc')
  <2>1. PICK m, pr, pr2 : m = ram /\ pr = proc /\ pr2 = proc'
    BY Zenon
  <2>2. /\ Owned(m, own, lv, pr) /\ Others(m, own, lv, m2, own2, lv2, p)
        /\ \A q \in Procs : q # p => pr2[q] = pr[q]
        /\ pr2[p].pt # NoPage => Leads(own2, lv2, pr2[p].pt, p, 4)
    BY <1>2, <1>5, <1>7, <2>1, Zenon
  <2>3. Owned(m2, own2, lv2, pr2)
    BY ONLY <2>2, OwnedAfter, SMTT(30)
  <2> QED BY <1>4, <2>1, <2>3, Zenon
<1>10. Kept(p)
  BY <1>2, <1>4, <1>5, <1>9, Zenon DEF Kept
<1>11. Typed'
  BY <1>1, <1>7, <1>8, Zenon DEF Typed
<1>12. BackedOf(p)'
  <2> SUFFICES ASSUME t # NoPage PROVE BackedAt(m2, t, UserHeapStart)
    BY <1>4, <1>7, <1>8, Zenon DEF BackedOf
  <2> QED BY <1>5, HeapLayout, Zenon DEF BackedAt
<1> QED BY <1>7, <1>10, <1>11, <1>12, Zenon DEF Effect

(* A step that leaves the page tables alone and lets p's space grow. *)
LEMMA GrewEffect ==
  ASSUME SpaceInv, NEW p \in Procs, proc[p].pt # NoPage, NEW own, NEW lv, Owned(ram, own, lv, proc),
         NEW own2, NEW lv2, Grew(ram, own, lv, ram', own2, lv2, p),
         Typed', \A q \in Procs : q # p => proc'[q] = proc[q],
         proc'[p].pt = proc[p].pt,  BackedOf(p)'
  PROVE  Effect(p)
<1>1. Leads(own2, lv2, proc[p].pt, p, 4)
  BY LeadsKept DEF Owned, Grew
<1>2. Others(ram, own, lv, ram', own2, lv2, p)
  BY GrewOthers, Zenon
<1>3. Owned(ram', own2, lv2, proc')
  BY <1>1, <1>2, OwnedAfter, Zenon
<1> QED BY <1>2, <1>3, Zenon DEF Effect, Kept

(* A record with the four fields of a process is one. *)
LEMMA SpaceFields ==
  ASSUME NEW s \in Spaces
  PROVE  /\ s.pt \in Managed \cup {NoPage} /\ s.heap \in UserHeapStart .. HeapLimit
         /\ s.execed \in BOOLEAN /\ s.image \in Seq(Segments)
         /\ \A x \in Managed \cup {NoPage} :
              /\ [s EXCEPT !.pt = x] \in Spaces /\ [s EXCEPT !.pt = x].pt = x
              /\ [s EXCEPT !.pt = x].heap = s.heap /\ [s EXCEPT !.pt = x].execed = s.execed
         /\ \A x \in UserHeapStart .. HeapLimit :
              /\ [s EXCEPT !.heap = x] \in Spaces /\ [s EXCEPT !.heap = x].heap = x
              /\ [s EXCEPT !.heap = x].pt = s.pt /\ [s EXCEPT !.heap = x].execed = s.execed
         /\ \A x \in BOOLEAN :
              /\ [s EXCEPT !.execed = x] \in Spaces /\ [s EXCEPT !.execed = x].execed = x
              /\ [s EXCEPT !.execed = x].pt = s.pt /\ [s EXCEPT !.execed = x].heap = s.heap
         /\ \A x \in Seq(Segments) :
              /\ [s EXCEPT !.image = x] \in Spaces /\ [s EXCEPT !.image = x].execed = s.execed
              /\ [s EXCEPT !.image = x].pt = s.pt /\ [s EXCEPT !.image = x].heap = s.heap
<1>1. /\ s.pt \in Managed \cup {NoPage} /\ s.heap \in UserHeapStart .. HeapLimit
      /\ s.execed \in BOOLEAN /\ s.image \in Seq(Segments)
  BY Zenon DEF Spaces
<1>2. \A x \in Managed \cup {NoPage} :
        /\ [s EXCEPT !.pt = x] \in Spaces /\ [s EXCEPT !.pt = x].pt = x
        /\ [s EXCEPT !.pt = x].heap = s.heap /\ [s EXCEPT !.pt = x].execed = s.execed
  BY Zenon DEF Spaces
<1>3. \A x \in UserHeapStart .. HeapLimit :
        /\ [s EXCEPT !.heap = x] \in Spaces /\ [s EXCEPT !.heap = x].heap = x
        /\ [s EXCEPT !.heap = x].pt = s.pt /\ [s EXCEPT !.heap = x].execed = s.execed
  BY Zenon DEF Spaces
<1>4. \A x \in BOOLEAN :
        /\ [s EXCEPT !.execed = x] \in Spaces /\ [s EXCEPT !.execed = x].execed = x
        /\ [s EXCEPT !.execed = x].pt = s.pt /\ [s EXCEPT !.execed = x].heap = s.heap
  BY Zenon DEF Spaces
<1>5. \A x \in Seq(Segments) :
        /\ [s EXCEPT !.image = x] \in Spaces /\ [s EXCEPT !.image = x].execed = s.execed
        /\ [s EXCEPT !.image = x].pt = s.pt /\ [s EXCEPT !.image = x].heap = s.heap
  <2> SUFFICES ASSUME NEW x \in Seq(Segments)
               PROVE  /\ [s EXCEPT !.image = x] \in Spaces /\ [s EXCEPT !.image = x].execed = s.execed
                      /\ [s EXCEPT !.image = x].pt = s.pt /\ [s EXCEPT !.image = x].heap = s.heap
    BY Zenon
  <2> QED BY Zenon DEF Spaces
<1> QED BY <1>1, <1>2, <1>3, <1>4, <1>5, Zenon

(* process_create. *)
LEMMA CreateStep ==
  ASSUME SpaceInv, NEW p \in Procs, who' = p, process_create(p)
  PROVE  Effect(p)
<1>1. PICK new : new = NewProcess
  BY Zenon
<1>2. /\ proc[p].pt = NoPage /\ ram' = new.m /\ proc' = [proc EXCEPT ![p].pt = new.page]
      /\ halted' = (new.page = NoPage)
  BY <1>1, Zenon DEF process_create
<1>3. proc \in [Procs -> Spaces]
  BY Zenon DEF SpaceInv, Typed
<1>4. GetsSpace(p, new.page)
  BY <1>2, <1>3, Zenon DEF GetsSpace, Spaces
<1>5. \A own, lv : Labelled(ram, own, lv) => SpaceMade(new, ram, own, lv, p)
  BY <1>1, NewProcessOk, Zenon
<1>6. halted' \in BOOLEAN
  BY <1>2, Zenon
<1> QED BY <1>2, <1>4, <1>5, <1>6, CreateEffect, Zenon

(* elf_create_process. *)
LEMMA ElfCreateStep ==
  ASSUME SpaceInv, NEW p \in Procs, who' = p, NEW image \in Images, elf_create_process(p, image)
  PROVE  Effect(p)
<1>1. PICK new : new = NewImage(image)
  BY Zenon
<1>2. /\ proc[p].pt = NoPage /\ ram' = new.m
      /\ proc' = IF new.page = NoPage THEN proc
                 ELSE [proc EXCEPT ![p] = [@ EXCEPT !.pt = new.page, !.image = image.segments]]
      /\ halted' = (NewProcess.page = NoPage)
  BY <1>1, Zenon DEF elf_create_process
<1>3. proc \in [Procs -> Spaces] /\ image.segments \in Seq(Segments)
  BY ImagesAssumption, Zenon DEF SpaceInv, Typed
<1>4. GetsSpace(p, new.page)
  <2>1. CASE new.page = NoPage
    BY <1>2, <1>3, <2>1, Zenon DEF GetsSpace
  <2>2. CASE new.page # NoPage
    <3>1. PICK page, s : page = new.page /\ s = proc[p]
      BY Zenon
    <3>2. PICK s1 : s1 = [s EXCEPT !.pt = page]
      BY Zenon
    <3>3. PICK s2 : s2 = [s1 EXCEPT !.image = image.segments]
      BY Zenon
    <3>4. proc' = [proc EXCEPT ![p] = s2]
      BY <1>2, <1>3, <2>2, <3>1, <3>2, <3>3, Zenon
    <3>5. s \in Spaces
      BY <1>3, <3>1, Zenon
    <3>6. s1.pt = page /\ s1.heap = s.heap /\ s2.pt = s1.pt /\ s2.heap = s1.heap
      BY <3>2, <3>3, <3>5, Zenon DEF Spaces
    <3>7. page \in Managed \cup {NoPage} => s1 \in Spaces
      BY <3>2, <3>5, SpaceFields, Zenon
    <3>8. s1 \in Spaces => s2 \in Spaces
      BY <1>3, <3>3, SpaceFields, Zenon
    <3> QED BY <1>3, <3>1, <3>4, <3>6, <3>7, <3>8, Zenon DEF GetsSpace
  <2> QED BY <2>1, <2>2, Zenon
<1>5. \A own, lv : Labelled(ram, own, lv) => SpaceMade(new, ram, own, lv, p)
  BY <1>1, NewImageOk, Zenon
<1>6. halted' \in BOOLEAN
  BY <1>2, Zenon
<1> QED BY <1>2, <1>4, <1>5, <1>6, CreateEffect, Zenon

(* A store of a program. *)
LEMMA StoreStep ==
  ASSUME SpaceInv, NEW p \in Procs, who' = p, proc[p].pt # NoPage,
         NEW addr \in Stores, NEW w \in Data, UserStore(p, addr, w)
  PROVE  Effect(p)
<1>1. PICK own, lv : Owned(ram, own, lv, proc)
  BY Zenon DEF SpaceInv
<1>2. PICK m, t4 : m = ram /\ t4 = proc[p].pt
  BY Zenon
<1>3. PICK to : to = vmm_get_physical(m, t4, addr)
  BY Zenon
<1>4. to # 0 /\ ram' = Store(m, to, w) /\ proc' = proc /\ halted' = halted
  BY <1>2, <1>3, Zenon DEF UserStore
<1>5. Labelled(m, own, lv) /\ Leads(own, lv, t4, p, 4) /\ addr \in Nat /\ w \in Nat
  BY <1>1, <1>2, LayoutAssumption, Zenon DEF Owned
<1>6. PICK f : f = FrameOf(m, t4, addr)
  BY Zenon
<1>7. f # NoPage
  BY <1>3, <1>4, <1>6, Zenon DEF vmm_get_physical
<1>8. /\ PageOf(vmm_get_physical(m, t4, addr)) = f /\ Leads(own, lv, f, p, 0)
      /\ OffsetIn(vmm_get_physical(m, t4, addr)) = OffsetIn(addr) /\ OffsetIn(addr) \in Index
  BY ONLY <1>5, <1>6, <1>7, PhysicalFacts, SMTT(30)
<1>9. Leads(own, lv, PageOf(to), p, 0) /\ OffsetIn(to) \in Index
  BY <1>3, <1>8, Zenon
<1>10. Grew(m, own, lv, Store(m, to, w), own, lv, p)
  BY ONLY <1>5, <1>9, StoreOk, Zenon
<1>11. Grew(m, own, lv, ram', own, lv, p)
  BY <1>4, <1>10, Zenon
<1>12. Typed' /\ \A q \in Procs : proc'[q] = proc[q]
  BY <1>4, Zenon DEF SpaceInv, Typed
<1>13. BackedOf(p)'
  <2> SUFFICES ASSUME ~ proc[p].execed PROVE BackedAt(ram', t4, proc[p].heap)
    BY <1>2, <1>4, Zenon DEF BackedOf
  <2>1. BackedAt(m, t4, proc[p].heap)
    BY <1>2, Zenon DEF SpaceInv, BackedOf
  <2> QED BY <1>5, <1>11, <2>1, BackedGrew, SMTT(30)
<1> QED BY <1>1, <1>2, <1>11, <1>12, <1>13, GrewEffect, Zenon

(* free_process_struct. *)
LEMMA FreeStep ==
  ASSUME SpaceInv, NEW p \in Procs, who' = p, proc[p].pt # NoPage, free_process_struct(p)
  PROVE  Effect(p)
<1>1. PICK own, lv : Owned(ram, own, lv, proc)
  BY Zenon DEF SpaceInv
<1>2. PICK m, t4, m2 : m = ram /\ t4 = proc[p].pt /\ m2 = vmm_destroy_address_space(m, t4)
  BY Zenon
<1>3. ram' = m2 /\ proc' = [proc EXCEPT ![p] = NoSpace] /\ halted' = halted
  BY <1>2, Zenon DEF free_process_struct
<1>4. Labelled(m, own, lv) /\ Leads(own, lv, t4, p, 4)
  BY <1>1, <1>2, Zenon DEF Owned
<1>5. PICK own2, lv2 : Others(m, own, lv, m2, own2, lv2, p)
  BY <1>2, <1>4, Destroyed, Zenon
<1>6. Typed /\ proc \in [Procs -> Spaces]
  BY Zenon DEF SpaceInv, Typed
<1>7. NoSpace \in Spaces /\ NoSpace.pt = NoPage /\ NoSpace.heap = UserHeapStart
  <2>1. UserHeapStart \in UserHeapStart .. HeapLimit
    BY HeapLayout
  <2>2. << >> \in Seq(Segments)
    OBVIOUS
  <2> QED BY <2>1, <2>2, Zenon DEF NoSpace, Spaces
<1>8. /\ \A q \in Procs : q # p => proc'[q] = proc[q]
      /\ proc'[p].pt = NoPage /\ proc'[p].heap = UserHeapStart /\ proc' \in [Procs -> Spaces]
  BY <1>3, <1>6, <1>7, Zenon
<1>9. Owned(m2, own2, lv2, proc')
  BY <1>1, <1>2, <1>5, <1>8, OwnedAfter, Zenon
<1>10. Kept(p)
  BY <1>1, <1>2, <1>3, <1>5, <1>9, Zenon DEF Kept
<1>11. Typed'
  BY <1>3, <1>6, <1>8, Zenon DEF Typed
<1>12. BackedOf(p)'
  BY <1>8, Zenon DEF BackedOf
<1> QED BY <1>8, <1>10, <1>11, <1>12, Zenon DEF Effect

(* sys_execve. *)
LEMMA ExecveStep ==
  ASSUME SpaceInv, NEW p \in Procs, who' = p, proc[p].pt # NoPage, sys_execve(p)
  PROVE  Effect(p)
<1>1. PICK own, lv : Owned(ram, own, lv, proc)
  BY Zenon DEF SpaceInv
<1>2a. PICK m, t : m = ram /\ t = proc[p].pt
  BY Zenon
<1>2b. PICK z : z = [i \in Index |-> IF i \in UserIndex THEN 0 ELSE m.mem[t][i]]
  BY Zenon
<1>2. /\ m = ram /\ t = proc[p].pt
      /\ z = [i \in Index |-> IF i \in UserIndex THEN 0 ELSE m.mem[t][i]]
  BY <1>2a, <1>2b, Zenon
<1>3. ram' = SetPage(m, t, z) /\ proc' = [proc EXCEPT ![p].execed = TRUE] /\ halted' = halted
  BY <1>2, Zenon DEF sys_execve, vmm_clear_user_space
<1>4. Labelled(m, own, lv) /\ Leads(own, lv, t, p, 4)
  BY <1>1, <1>2, Zenon DEF Owned
<1>5. /\ m \in Memories /\ InitialBitmap \subseteq m.used
      /\ DOMAIN own \subseteq m.used /\ DOMAIN own \subseteq Managed /\ DOMAIN own \subseteq AllPages
      /\ own \in [DOMAIN own -> Procs] /\ lv \in [DOMAIN own -> 0 .. 4]
      /\ \A u \in DOMAIN own : Fits(m, own, lv, u, own[u], lv[u])
  BY <1>4, LabelledFacts, Zenon
<1>6. t \in DOMAIN own /\ own[t] = p /\ lv[t] = 4 /\ t \in AllPages
  BY <1>4, <1>5, Zenon DEF Leads
<1>7. \A i \in Index \ UserIndex : m.mem[t][i] = 0
  BY <1>5, <1>6, Zenon DEF Fits
<1>8. z \in [Index -> Nat] /\ \A i \in Index : z[i] = 0
  BY <1>2, <1>7, SMTT(30)
<1>9. PICK m2 : m2 = SetPage(m, t, z)
  BY Zenon
<1>10. PageSet(m2, m, t, z)
  BY <1>5, <1>6, <1>8, <1>9, SetPageFacts, Zenon
<1>11. /\ m2 \in Memories /\ m2.used = m.used /\ m2.mem[t] = z
       /\ \A f \in DOMAIN own : f # t => m2.mem[f] = m.mem[f]
  BY <1>5, <1>10, Zenon DEF PageSet
<1>12. ASSUME NEW u \in DOMAIN own PROVE Fits(m2, own, lv, u, own[u], lv[u])
  <2>1. CASE u = t
    BY <1>8, <1>11, <2>1, Zenon DEF Fits
  <2>2. CASE u # t
    <3>1. Fits(m, own, lv, u, own[u], lv[u]) /\ m2.mem[u] = m.mem[u]
      BY <1>5, <1>11, <2>2, Zenon
    <3> QED BY <3>1, Zenon DEF Fits
  <2> QED BY <2>1, <2>2, Zenon
<1>13. Labelled(m2, own, lv)
  BY <1>5, <1>11, <1>12, Zenon DEF Labelled
<1>14. Others(m, own, lv, m2, own, lv, p)
  BY <1>6, <1>11, <1>13, Zenon DEF Others
<1>15. Typed /\ proc \in [Procs -> Spaces]
  BY Zenon DEF SpaceInv, Typed
<1>16. /\ \A q \in Procs : q # p => proc'[q] = proc[q]
       /\ proc'[p].pt = t /\ proc'[p].heap = proc[p].heap /\ proc'[p].execed = TRUE
       /\ proc' \in [Procs -> Spaces]
  <2>1. /\ \A q \in Procs : q # p => proc'[q] = proc[q]
        /\ proc'[p].pt = proc[p].pt /\ proc'[p].heap = proc[p].heap /\ proc'[p].execed = TRUE
    BY <1>3, <1>15, Zenon DEF Spaces
  <2>2. proc' \in [Procs -> Spaces]
    <3>1. PICK x : x = TRUE
      BY Zenon
    <3>2. x \in BOOLEAN /\ proc[p] \in Spaces
      BY <1>15, <3>1, Zenon
    <3>3. PICK s : s = [proc[p] EXCEPT !.execed = x]
      BY Zenon
    <3>4. s \in Spaces
      BY <3>2, <3>3, SpaceFields, Zenon
    <3>5. proc' = [proc EXCEPT ![p] = s]
      BY <1>3, <3>1, <3>3, Zenon
    <3> QED BY <1>15, <3>4, <3>5, Zenon
  <2> QED BY <1>2, <2>1, <2>2, Zenon
<1>17. Owned(m2, own, lv, proc')
  BY <1>1, <1>2, <1>4, <1>14, <1>16, OwnedAfter, SMTT(30)
<1>18. Kept(p)
  <2>1. Owned(ram, own, lv, proc) /\ Others(ram, own, lv, ram', own, lv, p) /\ Owned(ram', own, lv, proc')
    BY <1>1, <1>2, <1>3, <1>9, <1>14, <1>17, Zenon
  <2> QED BY <2>1, Zenon DEF Kept
<1>19. Typed'
  BY <1>2, <1>3, <1>15, <1>16, Zenon DEF Typed
<1>20. BackedOf(p)'
  BY <1>16, Zenon DEF BackedOf
<1> QED BY <1>16, <1>18, <1>19, <1>20, Zenon DEF Effect

(* A copy has mapped what the original has. *)
LEMMA BackedCopy ==
  ASSUME NEW m, NEW t, NEW m2, NEW t2, LookAlike(m, t, m2, t2), NEW heap, BackedAt(m, t, heap)
  PROVE  BackedAt(m2, t2, heap)
<1>1. PageStarts(StackStart, StackPages) \cup HeapStarts(heap) \subseteq Nat
  BY HeapLayout, Zenon
<1> QED BY <1>1, Zenon DEF LookAlike, BackedAt

(* What looks like something that looks like a third looks like the third. *)
LEMMA LookTwice ==
  ASSUME NEW m, NEW t, NEW m2, NEW t2, NEW m3, NEW t3, LookAlike(m, t, m2, t2), LookAlike(m2, t2, m3, t3)
  PROVE  LookAlike(m, t, m3, t3)
<1> SUFFICES ASSUME NEW addr \in Nat
             PROVE  /\ FrameOf(m3, t3, addr) = NoPage <=> FrameOf(m, t, addr) = NoPage
                    /\ FrameOf(m, t, addr) # NoPage => m3.mem[FrameOf(m3, t3, addr)] = m.mem[FrameOf(m, t, addr)]
  BY Zenon DEF LookAlike
<1> QED BY Zenon DEF LookAlike

(* sys_fork. *)
LEMMA ForkStep ==
  ASSUME SpaceInv, NEW p \in Procs, who' = p, proc[p].pt # NoPage, NEW c \in Procs \ {p}, sys_fork(p, c)
  PROVE  Effect(p)
<1>1. PICK own, lv : Owned(ram, own, lv, proc)
  BY Zenon DEF SpaceInv
<1>2. PICK m, t4 : m = ram /\ t4 = proc[p].pt
  BY Zenon
<1>3. PICK f : f = vmm_clone_address_space(m, t4)
  BY Zenon
<1>4. PICK m2, t : m2 = f.m /\ t = f.page
  BY Zenon
<1>5. /\ proc[c].pt = NoPage /\ ram' = m2 /\ halted' = halted
      /\ t = NoPage => proc' = proc
      /\ t # NoPage => proc' = [proc EXCEPT ![c] = [proc[p] EXCEPT !.pt = t]]
  BY <1>2, <1>3, <1>4, Zenon DEF sys_fork
<1>6. Labelled(m, own, lv) /\ Leads(own, lv, t4, p, 4)
  BY <1>1, <1>2, Zenon DEF Owned
<1>7. IsCopied(f, m, own, lv, c, 4, t4)
  <2>1. CopiesTo(vmm_clone_address_space(m, t4), m, p, c, 4, t4)
    BY CloneSpaceOk, Zenon
  <2>2. CopiesTo(f, m, p, c, 4, t4)
    BY <1>3, <2>1, Zenon
  <2> QED BY <1>6, <2>2, Zenon DEF CopiesTo
<1>8. PICK own2, lv2 : Copied(m2, t, m, own, lv, own2, lv2, c, 4, t4)
  BY <1>4, <1>7, Zenon DEF IsCopied
<1>9. /\ Labelled(m2, own2, lv2) /\ Extends(own, lv, own2, lv2) /\ Untouched(m, m2, own, own2)
      /\ t # NoPage => Loose(t, m, m2, own2) /\ Fits(m2, own2, lv2, t, c, 4) /\ CopyOf(m2, t4, t, 4)
  BY <1>8, Zenon DEF Copied
<1>10. \A g \in DOMAIN own : m2.mem[g] = m.mem[g]
  BY <1>6, <1>9, LabelledFacts, Zenon DEF Untouched
<1>11. LookAlike(m, t4, m2, t4)
  <2>1. \A g \in DOMAIN own : own[g] = p => m2.mem[g] = m.mem[g]
    BY <1>10, Zenon
  <2> QED BY ONLY <1>6, <2>1, FramesKept, SMTT(30)
<1>12. Typed /\ proc \in [Procs -> Spaces] /\ c # p /\ c \in Procs
  BY Zenon DEF SpaceInv, Typed
<1>13. proc'[p] = proc[p]
  BY <1>5, <1>12, Zenon
<1>14. BackedOf(p)'
  <2> SUFFICES ASSUME ~ proc[p].execed PROVE BackedAt(m2, t4, proc[p].heap)
    BY <1>2, <1>5, <1>13, Zenon DEF BackedOf
  <2>1. BackedAt(m, t4, proc[p].heap)
    BY <1>2, Zenon DEF SpaceInv, BackedOf
  <2> QED BY <1>11, <2>1, BackedCopy, Zenon
<1>15. CASE t = NoPage
  <2>1. proc' = proc
    BY <1>5, <1>15, Zenon
  <2>2. Others(m, own, lv, m2, own2, lv2, p)
    BY <1>9, <1>10, Zenon DEF Others, Extends
  <2>3. Owned(m2, own2, lv2, proc)
    BY <1>1, <1>9, LeadsKept, SMTT(30) DEF Owned
  <2>4. Owned(ram, own, lv, proc) /\ Others(ram, own, lv, ram', own2, lv2, p) /\ Owned(ram', own2, lv2, proc')
    BY <1>1, <1>2, <1>5, <2>1, <2>2, <2>3, Zenon
  <2>5. Kept(p)
    BY <2>4, Zenon DEF Kept
  <2>6. Typed'
    BY <1>5, <1>12, <2>1, Zenon DEF Typed
  <2> QED BY <1>14, <2>1, <2>5, <2>6, Zenon DEF Effect
<1>16. CASE t # NoPage
  <2>1. t \in Managed /\ t \in m2.used /\ t \notin DOMAIN own2 /\ Fits(m2, own2, lv2, t, c, 4) /\ CopyOf(m2, t4, t, 4)
    BY <1>9, <1>16, Zenon DEF Loose
  <2>2. PICK k : k = 4
    BY Zenon
  <2>3. /\ k \in 0 .. 4 /\ Fits(m2, own2, lv2, t, c, k) /\ Labelled(m2, own2, lv2)
        /\ t \in Managed /\ t \in m2.used /\ t \notin DOMAIN own2 /\ c \in Procs
    BY <1>9, <1>12, <2>1, <2>2, SMTT(30)
  <2> DEFINE own3 == Added(own2, t, c)
             lv3 == Added(lv2, t, k)
  <2>4. Labelled(m2, own3, lv3) /\ Extends(own2, lv2, own3, lv3) /\ Leads(own3, lv3, t, c, k)
    BY ONLY <2>3, LabelAdded, Zenon
  <2> HIDE DEF own3, lv3
  <2>5. Extends(own, lv, own3, lv3)
    BY <1>9, <2>4, ExtendsTwice, Zenon
  <2>6. Others(m, own, lv, m2, own3, lv3, p)
    BY <1>10, <2>4, <2>5, Zenon DEF Others, Extends
  <2>7. PICK s : s = [proc[p] EXCEPT !.pt = t]
    BY Zenon
  <2>8. proc[p] \in Spaces
    BY <1>12, Zenon
  <2>9. s \in Spaces /\ s.pt = t /\ s.heap = proc[p].heap /\ s.execed = proc[p].execed
    BY <2>1, <2>7, <2>8, SpaceFields
  <2>10. proc' = [proc EXCEPT ![c] = s]
    BY <1>5, <1>16, <2>7, Zenon
  <2>11. proc'[c] = s /\ proc' \in [Procs -> Spaces] /\ \A q \in Procs : q # c => proc'[q] = proc[q]
    BY <1>12, <2>9, <2>10, Zenon
  <2>12. Owned(m2, own3, lv3, proc')
    <3>1. \A q \in Procs : proc[q].pt # NoPage => Leads(own3, lv3, proc[q].pt, q, 4)
      BY <1>1, <2>5, LeadsKept, SMTT(30) DEF Owned
    <3>2. Leads(own3, lv3, proc'[c].pt, c, 4)
      BY <2>2, <2>4, <2>9, <2>11, Zenon
    <3> QED BY <2>4, <2>11, <3>1, <3>2, Zenon DEF Owned
  <2>13. Owned(ram, own, lv, proc) /\ Others(ram, own, lv, ram', own3, lv3, p) /\ Owned(ram', own3, lv3, proc')
    BY <1>1, <1>2, <1>5, <2>6, <2>12, Zenon
  <2>14. Kept(p)
    BY <2>13, Zenon DEF Kept
  <2>15. LookAlike(m, t4, m2, t)
    <3>1. Leads(own3, lv3, t4, p, 4) /\ Leads(own3, lv3, t, c, 4)
      BY <1>6, <2>2, <2>4, <2>5, LeadsKept, SMTT(30)
    <3>2. LookAlike(m2, t4, m2, t)
      BY ONLY <2>1, <2>4, <3>1, CopyLooks, Zenon
    <3> QED BY <1>11, <3>2, LookTwice, Zenon
  <2>16. NewCopy(c, p)
    BY <1>2, <1>5, <1>16, <2>9, <2>11, <2>15, Zenon DEF NewCopy
  <2>17. Typed'
    BY <1>5, <1>12, <1>16, <2>9, <2>11, Zenon DEF Typed
  <2> QED BY <1>14, <2>11, <2>14, <2>16, <2>17, Zenon DEF Effect
<1> QED BY <1>15, <1>16, Zenon

(* The break stays below the middle of the space, so that it moves without  *)
(* wrapping upwards, and downwards only by a negative increment.            *)
LEMMA BreakFacts ==
  ASSUME NEW heap \in UserHeapStart .. HeapLimit, NEW inc \in Increments, NEW new,
         new = NewBreak(heap, inc), InHeap(new)
  PROVE  /\ new \in UserHeapStart .. HeapLimit
         /\ Negative(inc) => new < heap
         /\ ~ Negative(inc) => heap <= new
<1>1. /\ inc \in Nat /\ inc < AddressMod /\ KernelBase \in Nat /\ AddressMod = 2 * KernelBase
      /\ heap \in Nat /\ heap <= HeapLimit /\ HeapLimit \in Nat /\ HeapLimit < KernelBase /\ UserHeapStart \in Nat
  BY HeapLayout, Halves, LayoutAssumption, SMTT(30)
<1>2. AddressMod \in Nat \ {0} /\ heap + inc \in Nat
  BY <1>1, SMTT(30)
<1>3. CASE heap + inc < AddressMod
  <2>1. 0 * AddressMod = 0
    BY <1>2
  <2>2. (heap + inc) % AddressMod = heap + inc
    BY <1>2, <1>3, SMTT(30)
  <2>3. new = heap + inc
    BY <2>2, Zenon DEF NewBreak
  <2>4. ~ Negative(inc)
    BY <1>1, <2>3, SMTT(30) DEF Negative, InHeap, KernelBase
  <2> QED BY <1>1, <2>3, <2>4, SMTT(30) DEF InHeap
<1>4. CASE ~ (heap + inc < AddressMod)
  <2>1. (heap + inc) % AddressMod = heap + inc - AddressMod
    <3>1. PICK a, w, q : a = heap + inc /\ w = AddressMod /\ q = 1
      BY Zenon
    <3>2. a \in Nat /\ w \in Nat \ {0} /\ q \in Nat /\ q * w = w
      BY <1>2, <3>1, SMTT(30)
    <3>3. q * w <= a /\ a < q * w + w
      BY <1>1, <1>4, <3>1, <3>2, SMTT(30)
    <3>4. a % w = a - q * w
      BY ONLY <3>2, <3>3, OnlyQuotient, Zenon
    <3>5. a % w = a - w
      BY ONLY <3>2, <3>4, Zenon
    <3>6. (heap + inc) % AddressMod = a % w
      BY <3>1, Zenon
    <3>7. heap + inc - AddressMod = a - w
      BY <1>1, <1>2, <3>1, SMTT(30)
    <3> QED BY <3>5, <3>6, <3>7, Zenon
  <2>2. new = heap + inc - AddressMod
    BY <2>1, Zenon DEF NewBreak
  <2>3. new < heap /\ new \in Nat /\ Negative(inc)
    BY <1>1, <1>4, <2>2, SMTT(30) DEF Negative, KernelBase
  <2> QED BY <1>1, <2>2, <2>3, SMTT(30) DEF InHeap
<1> QED BY <1>3, <1>4, Zenon

(* The pages that begin below the new break, and not below the old one. *)
LEMMA GrowthFacts ==
  ASSUME NEW heap \in Nat, NEW new \in Nat, heap <= new, new < KernelBase
  PROVE  /\ RoundUp(new) - PageOf(heap) \in Nat /\ PageOf(heap) \in Nat
         /\ \A g \in PageOf(heap) .. RoundUp(new) - 1 : g * Entries < KernelBase
         /\ HeapStarts(new) \subseteq HeapStarts(heap) \cup GrowStarts(heap, RoundUp(new) - PageOf(heap))
<1>0. Entries \in Nat \ {0} /\ KernelBase \in Nat
  BY Sizes, Halves, SMTT(30)
<1>1. PICK b, r : b = PageOf(heap) /\ r = RoundUp(new)
  BY Zenon
<1>2. b \in Nat /\ b * Entries \in Nat /\ b * Entries <= heap /\ heap < b * Entries + Entries
  <2>1. PICK w : w = Entries
    BY Zenon
  <2>2. /\ heap \div w \in Nat /\ (heap \div w) * w \in Nat
        /\ (heap \div w) * w <= heap /\ heap < (heap \div w) * w + w
    BY <1>0, <2>1, Quotient, Zenon
  <2> QED BY <1>1, <2>1, <2>2, Zenon DEF PageOf
<1>3. r \in Nat /\ new <= r * Entries /\ r * Entries \in Nat /\ \A g \in Nat : g < r => g * Entries < new
  BY <1>1, RoundUpFacts, Zenon
<1>4. ASSUME NEW x \in Nat, NEW y \in Nat, x * Entries <= y * Entries PROVE x <= y
  <2> SUFFICES ASSUME y < x PROVE FALSE
    OBVIOUS
  <2>1. y * Entries + Entries <= x * Entries
    BY <1>0, Rows, Zenon
  <2>2. x * Entries \in Nat /\ y * Entries \in Nat
    BY <1>0, SMTT(30)
  <2> QED BY <1>0, <1>4, <2>1, <2>2, SMTT(30)
<1>5. b <= r
  BY <1>2, <1>3, <1>4, SMTT(30)
<1>6. \A g \in b .. r - 1 : g * Entries < KernelBase
  <2> SUFFICES ASSUME NEW g \in b .. r - 1 PROVE g * Entries < KernelBase
    BY Zenon
  <2>1. g \in Nat /\ g < r
    BY <1>2, <1>3, SMTT(30)
  <2>2. g * Entries < new /\ g * Entries \in Nat
    BY <1>0, <1>3, <2>1, SMTT(30)
  <2> QED BY <1>0, <2>2, SMTT(30)
<1>7. ASSUME NEW addr \in HeapStarts(new) PROVE addr \in HeapStarts(heap) \cup GrowStarts(heap, r - b)
  <2>1. PICK g \in Nat : UserHeapStart <= g * Entries /\ g * Entries < new /\ addr = g * Entries
    BY <1>7, Zenon DEF HeapStarts
  <2>2. g * Entries \in Nat
    BY <1>0, <2>1, SMTT(30)
  <2>3. CASE g * Entries < heap
    BY <2>1, <2>3, Zenon DEF HeapStarts
  <2>4. CASE g * Entries >= heap
    <3>1. b * Entries <= g * Entries
      BY <1>2, <2>2, <2>4, SMTT(30)
    <3>2. b <= g
      BY <1>2, <1>4, <3>1, Zenon
    <3>3. ~ (r <= g)
      <4> SUFFICES ASSUME r <= g PROVE FALSE
        BY Zenon
      <4>1. CASE r = g
        BY <1>3, <2>1, <2>2, <4>1, SMTT(30)
      <4>2. CASE r < g
        <5>1. r * Entries + Entries <= g * Entries
          BY <1>0, <1>3, <4>2, Rows, Zenon
        <5> QED BY <1>0, <1>3, <2>1, <2>2, <5>1, SMTT(30)
      <4> QED BY <1>3, <4>1, <4>2, SMTT(30)
    <3>4. g \in b .. b + (r - b) - 1
      BY <1>2, <1>3, <3>2, <3>3, SMTT(30)
    <3> QED BY <1>1, <2>1, <2>4, <3>4, Zenon DEF GrowStarts
  <2> QED BY <2>2, <2>3, <2>4, SMTT(30)
<1> QED BY <1>1, <1>2, <1>3, <1>5, <1>6, <1>7, SMTT(30)

(* sys_sbrk. *)
LEMMA SbrkStep ==
  ASSUME SpaceInv, NEW p \in Procs, who' = p, proc[p].pt # NoPage, NEW inc \in Increments, sys_sbrk(p, inc)
  PROVE  Effect(p)
<1>1. PICK own, lv : Owned(ram, own, lv, proc)
  BY Zenon DEF SpaceInv
<1>2. PICK m, t4, heap : m = ram /\ t4 = proc[p].pt /\ heap = proc[p].heap
  BY Zenon
<1>3. PICK new : new = NewBreak(heap, inc)
  BY Zenon
<1>4. PICK g : g = GrowHeap(m, t4, heap, new)
  BY Zenon
<1>5. /\ InHeap(new) /\ halted' = halted
      /\ Negative(inc) => proc' = [proc EXCEPT ![p].heap = new] /\ ram' = m
      /\ ~ Negative(inc) => ram' = g.m /\ proc' = [proc EXCEPT ![p].heap = IF g.ok THEN new ELSE heap]
  BY <1>2, <1>3, <1>4, Zenon DEF sys_sbrk
<1>6. Typed /\ proc \in [Procs -> Spaces] /\ proc[p] \in Spaces
  BY Zenon DEF SpaceInv, Typed
<1>7. heap \in UserHeapStart .. HeapLimit
  BY <1>2, <1>6, SpaceFields, Zenon
<1>8. /\ new \in UserHeapStart .. HeapLimit /\ (Negative(inc) => new < heap) /\ (~ Negative(inc) => heap <= new)
  BY <1>3, <1>5, <1>7, BreakFacts, Zenon
<1>9. Labelled(m, own, lv) /\ Leads(own, lv, t4, p, 4)
  BY <1>1, <1>2, Zenon DEF Owned
<1>10. ASSUME NEW x \in UserHeapStart .. HeapLimit, proc' = [proc EXCEPT ![p].heap = x]
       PROVE  /\ Typed' /\ \A q \in Procs : q # p => proc'[q] = proc[q]
              /\ proc'[p].pt = t4 /\ proc'[p].heap = x /\ proc'[p].execed = proc[p].execed
  <2>1. PICK s : s = [proc[p] EXCEPT !.heap = x]
    BY Zenon
  <2>2. s \in Spaces /\ s.heap = x /\ s.pt = t4 /\ s.execed = proc[p].execed
    BY <1>2, <1>6, <2>1, SpaceFields, SMTT(30)
  <2>3. proc' = [proc EXCEPT ![p] = s]
    BY <1>10, <2>1, Zenon
  <2>4. /\ \A q \in Procs : q # p => proc'[q] = proc[q]
        /\ proc'[p] = s /\ proc' \in [Procs -> Spaces]
    BY <1>6, <2>2, <2>3, Zenon
  <2>5. Typed'
    BY <1>2, <1>5, <1>6, <2>2, <2>4, Zenon DEF Typed
  <2> QED BY <2>2, <2>4, <2>5, Zenon
<1>11. ~ proc[p].execed => BackedAt(m, t4, heap)
  BY <1>2, Zenon DEF SpaceInv, BackedOf
<1>12. CASE Negative(inc)
  <2>1. proc' = [proc EXCEPT ![p].heap = new] /\ ram' = m /\ new < heap
    BY <1>5, <1>8, <1>12, Zenon
  <2>2. /\ Typed' /\ \A q \in Procs : q # p => proc'[q] = proc[q]
        /\ proc'[p].pt = t4 /\ proc'[p].heap = new /\ proc'[p].execed = proc[p].execed
    BY <1>8, <1>10, <2>1, Zenon
  <2>3. HeapStarts(new) \subseteq HeapStarts(heap)
    <3>1. \A h \in Nat : h * Entries \in Nat
      BY Sizes, SMTT(30)
    <3>2. heap \in Nat /\ new \in Nat
      BY <1>7, <1>8, HeapLayout, SMTT(30)
    <3> QED BY <2>1, <3>1, <3>2, SMTT(30) DEF HeapStarts
  <2>4. BackedOf(p)'
    BY <1>11, <2>1, <2>2, <2>3, Zenon DEF BackedOf, BackedAt
  <2>5. Grew(ram, own, lv, ram', own, lv, p)
    BY <1>2, <1>9, <2>1, GrewNot, Zenon
  <2> QED BY <1>1, <1>2, <2>2, <2>4, <2>5, GrewEffect, Zenon
<1>13. CASE ~ Negative(inc)
  <2>1. PICK x : x = IF g.ok THEN new ELSE heap
    BY Zenon
  <2>2. x \in UserHeapStart .. HeapLimit /\ proc' = [proc EXCEPT ![p].heap = x] /\ ram' = g.m /\ heap <= new
    BY <1>5, <1>7, <1>8, <1>13, <2>1, Zenon
  <2>3. /\ Typed' /\ \A q \in Procs : q # p => proc'[q] = proc[q]
        /\ proc'[p].pt = t4 /\ proc'[p].heap = x /\ proc'[p].execed = proc[p].execed
    BY <1>10, <2>2, Zenon
  <2>4. heap \in Nat /\ new \in Nat /\ heap <= new /\ new < KernelBase
    BY <1>7, <1>8, <2>2, HeapLayout, SMTT(30)
  <2>5. PICK pages : pages = RoundUp(new) - PageOf(heap)
    BY Zenon
  <2>6. /\ pages \in Nat /\ PageOf(heap) \in Nat
        /\ \A h \in PageOf(heap) .. RoundUp(new) - 1 : h * Entries < KernelBase
        /\ HeapStarts(new) \subseteq HeapStarts(heap) \cup GrowStarts(heap, pages)
    BY <2>4, <2>5, GrowthFacts, Zenon
  <2>7. RoundUp(new) - 1 = PageOf(heap) + pages - 1
    <3>1. RoundUp(new) \in Nat
      BY <2>4, RoundUpFacts, Zenon
    <3> QED BY <2>5, <2>6, <3>1, SMTT(30)
  <2>8. \A h \in PageOf(heap) .. PageOf(heap) + pages - 1 : h * Entries < KernelBase
    BY <2>6, <2>7, Zenon
  <2>9. MapsOk(GrowHeap(m, t4, heap, new), m, p, t4, GrowStarts(heap, pages))
    BY ONLY p \in Procs, <2>5, <2>6, <2>8, GrowHeapOk, Zenon
  <2>10. PagesMapped(g, m, own, lv, p, t4, GrowStarts(heap, pages))
    BY <1>4, <1>9, <2>9, Zenon DEF MapsOk
  <2>11. PICK m2 : m2 = g.m
    BY Zenon
  <2>12. PICK own2, lv2 : Grew(m, own, lv, m2, own2, lv2, p)
    BY <2>10, <2>11, Zenon DEF PagesMapped
  <2>13. BackedOf(p)'
    <3> SUFFICES ASSUME ~ proc[p].execed PROVE BackedAt(m2, t4, x)
      BY <2>2, <2>3, <2>11, Zenon DEF BackedOf
    <3>1. BackedAt(m2, t4, heap)
      BY <1>9, <1>11, <2>12, BackedGrew, Zenon
    <3>2. CASE ~ g.ok
      BY <2>1, <3>1, <3>2, Zenon
    <3>3. CASE g.ok
      <4>1. x = new /\ \A addr \in GrowStarts(heap, pages) : FrameOf(m2, t4, addr) # NoPage
        BY <2>1, <2>10, <2>11, <3>3, Zenon DEF PagesMapped
      <4> QED BY <2>6, <3>1, <4>1, Zenon DEF BackedAt
    <3> QED BY <3>2, <3>3, Zenon
  <2>14. Grew(ram, own, lv, ram', own2, lv2, p)
    BY <1>2, <2>2, <2>11, <2>12, Zenon
  <2> QED BY <1>1, <1>2, <2>3, <2>13, <2>14, GrewEffect, Zenon
<1> QED BY <1>12, <1>13, Zenon

(* Every step has the effect of a step of the process that makes it. *)
LEMMA StepEffect ==
  ASSUME SpaceInv, ElfNext
  PROVE  \E p \in Procs : who' = p /\ Effect(p)
<1>1. CASE Next
  <2>1. PICK p \in Procs : Step(p)
    BY <1>1, Zenon DEF Next
  <2>2. who' = p
    BY <2>1, Zenon DEF Step
  <2>3. CASE process_create(p)
    BY <2>2, <2>3, CreateStep, Zenon
  <2>4. CASE proc[p].pt # NoPage /\ \E c \in Procs \ {p} : sys_fork(p, c)
    BY <2>2, <2>4, ForkStep, Zenon
  <2>5. CASE proc[p].pt # NoPage /\ sys_execve(p)
    BY <2>2, <2>5, ExecveStep, Zenon
  <2>6. CASE proc[p].pt # NoPage /\ free_process_struct(p)
    BY <2>2, <2>6, FreeStep, Zenon
  <2>7. CASE proc[p].pt # NoPage /\ \E inc \in Increments : sys_sbrk(p, inc)
    BY <2>2, <2>7, SbrkStep, Zenon
  <2>8. CASE proc[p].pt # NoPage /\ \E addr \in Stores, w \in Data : UserStore(p, addr, w)
    BY <2>2, <2>8, StoreStep, Zenon
  <2> QED BY <2>1, <2>3, <2>4, <2>5, <2>6, <2>7, <2>8, Zenon DEF Step
<1>2. CASE \E p \in Procs : ElfStep(p)
  <2>1. PICK p \in Procs : ElfStep(p)
    BY <1>2, Zenon
  <2>2. PICK image \in Images : elf_create_process(p, image)
    BY <2>1, Zenon DEF ElfStep
  <2>3. who' = p
    BY <2>1, Zenon DEF ElfStep
  <2> QED BY <2>2, <2>3, ElfCreateStep, Zenon
<1> QED BY <1>1, <1>2, Zenon DEF ElfNext

(* A process that does not step, and is live before and after, is as it was. *)
LEMMA OthersLook ==
  ASSUME NEW p \in Procs, Effect(p), NEW q \in Procs, q # p, proc[q].pt # NoPage
  PROVE  proc'[q] = proc[q] /\ LookAlike(ram, proc[q].pt, ram', proc[q].pt)
<1>1. proc'[q] = proc[q]
  BY Zenon DEF Effect, NewCopy
<1>2. PICK own, lv, own2, lv2 :
        Owned(ram, own, lv, proc) /\ Others(ram, own, lv, ram', own2, lv2, p) /\ Owned(ram', own2, lv2, proc')
  BY Zenon DEF Effect, Kept
<1>3. PICK m, m2, t : m = ram /\ m2 = ram' /\ t = proc[q].pt
  BY Zenon
<1>4. Labelled(m, own, lv) /\ Leads(own, lv, t, q, 4)
  BY <1>2, <1>3, Zenon DEF Owned
<1>5. \A f \in DOMAIN own : own[f] = q => m2.mem[f] = m.mem[f]
  BY <1>2, <1>3, Zenon DEF Others
<1>6. LookAlike(m, t, m2, t)
  BY ONLY <1>4, <1>5, FramesKept, SMTT(30)
<1> QED BY <1>1, <1>3, <1>6, Zenon

(* A step with that effect keeps the invariant. *)
LEMMA EffectInv ==
  ASSUME SpaceInv, NEW p \in Procs, Effect(p)
  PROVE  SpaceInv'
<1>1. Typed' /\ \E own, lv : Owned(ram', own, lv, proc')
  BY Zenon DEF Effect, Kept
<1>2. ASSUME NEW q \in Procs PROVE BackedOf(q)'
  <2>1. CASE q = p
    BY <2>1, Zenon DEF Effect
  <2>2. CASE q # p /\ proc'[q] = proc[q]
    <3> SUFFICES ASSUME proc[q].pt # NoPage, ~ proc[q].execed
                 PROVE  BackedAt(ram', proc[q].pt, proc[q].heap)
      BY <2>2, Zenon DEF BackedOf
    <3>1. BackedAt(ram, proc[q].pt, proc[q].heap)
      BY Zenon DEF SpaceInv, BackedOf
    <3>2. LookAlike(ram, proc[q].pt, ram', proc[q].pt)
      BY <2>2, OthersLook, Zenon
    <3> QED BY <3>1, <3>2, BackedCopy, Zenon
  <2>3. CASE NewCopy(q, p)
    <3>1. /\ proc[p].pt # NoPage /\ proc'[q].heap = proc[p].heap /\ proc'[q].execed = proc[p].execed
          /\ LookAlike(ram, proc[p].pt, ram', proc'[q].pt)
      BY <2>3, Zenon DEF NewCopy
    <3> SUFFICES ASSUME ~ proc[p].execed
                 PROVE  BackedAt(ram', proc'[q].pt, proc[p].heap)
      BY <3>1, Zenon DEF BackedOf
    <3>2. BackedAt(ram, proc[p].pt, proc[p].heap)
      BY <3>1, Zenon DEF SpaceInv, BackedOf
    <3> QED BY <3>1, <3>2, BackedCopy, Zenon
  <2> QED BY <2>1, <2>2, <2>3, Zenon DEF Effect
<1> QED BY <1>1, <1>2, Zenon DEF SpaceInv

(* No process has a space at the start. *)
LEMMA SpaceInit ==
  ASSUME Init
  PROVE  SpaceInv
<1>1. NoSpace \in Spaces /\ NoSpace.pt = NoPage /\ NoSpace.heap = UserHeapStart
  <2>1. UserHeapStart \in UserHeapStart .. HeapLimit
    BY HeapLayout
  <2>2. << >> \in Seq(Segments)
    OBVIOUS
  <2> QED BY <2>1, <2>2, Zenon DEF NoSpace, Spaces
<1>2. Typed /\ \A p \in Procs : proc[p].pt = NoPage
  <2>1. proc \in [Procs -> Spaces] /\ \A p \in Procs : proc[p].pt = NoPage /\ proc[p].heap = UserHeapStart
    BY <1>1, Zenon DEF Init
  <2>2. halted = FALSE /\ who \in Procs
    BY Zenon DEF Init
  <2>3. halted \in BOOLEAN
    BY <2>2, Zenon
  <2> QED BY <2>1, <2>2, <2>3, Zenon DEF Typed
<1>3. PICK none : none = [f \in {} |-> 0]
  BY Zenon
<1>4. DOMAIN none = {} /\ none \in [DOMAIN none -> Procs] /\ none \in [DOMAIN none -> 0 .. 4]
  BY <1>3, Zenon
<1>5. ram \in Memories /\ InitialBitmap \subseteq ram.used
  <2>1. InitialBitmap \subseteq AllPages
    BY Zenon DEF InitialBitmap
  <2>2. [f \in AllPages |-> [i \in Index |-> 0]] \in [AllPages -> [Index -> Nat]]
    BY Zenon
  <2> QED BY <2>1, <2>2, Zenon DEF Init, Memories
<1>6. Labelled(ram, none, none)
  BY <1>4, <1>5, Zenon DEF Labelled
<1>7. Owned(ram, none, none, proc)
  BY <1>2, <1>6, Zenon DEF Owned
<1>8. \A p \in Procs : BackedOf(p)
  BY <1>2, Zenon DEF BackedOf
<1> QED BY <1>2, <1>7, <1>8, Zenon DEF SpaceInv

(* A stuttering step keeps the invariant. *)
LEMMA StutterInv ==
  ASSUME SpaceInv, UNCHANGED vars
  PROVE  SpaceInv'
BY Zenon DEF SpaceInv, vars, Typed, Owned, BackedOf

(* The invariant of the memory manager, for every memory size, layout and  *)
(* number of processes: the frames can be divided among the processes and  *)
(* the levels of their page tables as the labels say, and a process that   *)
(* has not called execve has its stack and the pages of its heap mapped.   *)
(* process_create, elf_create_process, sys_fork, sys_execve, sys_sbrk,     *)
(* free_process_struct and a program's stores keep it, also when they run  *)
(* out of memory half-way.                                                 *)
THEOREM SpaceInvariant == ElfSpec => []SpaceInv
<1>1. Init => SpaceInv
  BY SpaceInit, Zenon
<1>2. SpaceInv /\ [ElfNext]_vars => SpaceInv'
  <2> SUFFICES ASSUME SpaceInv, [ElfNext]_vars PROVE SpaceInv'
    BY Zenon
  <2>1. CASE ElfNext
    BY <2>1, StepEffect, EffectInv, Zenon
  <2>2. CASE UNCHANGED vars
    BY <2>2, StutterInv, Zenon
  <2> QED BY <2>1, <2>2, Zenon
<1> QED BY <1>1, <1>2, PTL DEF ElfSpec

-----------------------------------------------------------------------------
(* What is built on it is well formed: the bitmap covers the pages, every  *)
(* frame has its words, and a process has a PML4 of the managed pages or   *)
(* none, and a break between heap_start and heap_max.                      *)
THEOREM MemoryTyped == ElfSpec => []TypeOK
<1>1. SpaceInv => TypeOK
  <2> SUFFICES ASSUME SpaceInv PROVE TypeOK
    BY Zenon
  <2>1. PICK own, lv : Owned(ram, own, lv, proc)
    BY Zenon DEF SpaceInv
  <2>2. ram \in Memories
    BY <2>1, LabelledFacts, Zenon DEF Owned
  <2>3. /\ ram.used \subseteq AllPages /\ DOMAIN ram.mem = AllPages
        /\ \A f \in AllPages : DOMAIN ram.mem[f] = Index
    BY <2>2, MemFacts, Zenon
  <2>4. ASSUME NEW p \in Procs
        PROVE  /\ proc[p].pt \in Managed \cup {NoPage}
               /\ proc[p].heap \in UserHeapStart .. HeapLimit
               /\ proc[p].execed \in BOOLEAN
    <3>1. proc[p] \in Spaces
      BY Zenon DEF SpaceInv, Typed
    <3> QED BY <3>1, SpaceFields, Zenon
  <2>5. who \in Procs /\ halted \in BOOLEAN
    BY Zenon DEF SpaceInv, Typed
  <2> QED BY <2>3, <2>4, <2>5, Zenon DEF TypeOK
<1> QED BY <1>1, SpaceInvariant, PTL

(* The frames of process p at one level. *)
LevelOf(own, lv, p, k) == {f \in DOMAIN own : own[f] = p /\ lv[f] = k}

(* The frames below labelled frames have the label one level down. *)
LEMMA ChildrenLevel ==
  ASSUME NEW own, NEW lv, Labelled(ram, own, lv), NEW p, NEW k \in 0 .. 4, NEW j \in 0 .. 4, j = k - 1,
         NEW F, F \subseteq LevelOf(own, lv, p, k)
  PROVE  Children(F) \subseteq LevelOf(own, lv, p, j)
<1> SUFFICES ASSUME NEW f \in F, NEW i \in Index, ram.mem[f][i] \in Managed
             PROVE  ram.mem[f][i] \in LevelOf(own, lv, p, j)
  BY SMTT(30) DEF Children
<1>1. f \in DOMAIN own /\ own[f] = p /\ lv[f] = k /\ k > 0
  BY DEF LevelOf
<1>2. Fits(ram, own, lv, f, p, k)
  BY <1>1, LabelledFacts, Zenon
<1>3. ram.mem[f][i] # 0
  BY PageSets, Zenon
<1>4. Leads(own, lv, ram.mem[f][i], p, j)
  BY <1>1, <1>2, <1>3, Zenon DEF Fits
<1> QED BY <1>4, Zenon DEF Leads, LevelOf

(* The frames of a process have its label, tables and data theirs. *)
LEMMA FramesLabelled ==
  ASSUME NEW own, NEW lv, Owned(ram, own, lv, proc), NEW p \in Live
  PROVE  /\ DataFrames(p) \subseteq LevelOf(own, lv, p, 0)
         /\ Tables(p) \subseteq LevelOf(own, lv, p, 4) \cup LevelOf(own, lv, p, 3)
                                \cup LevelOf(own, lv, p, 2) \cup LevelOf(own, lv, p, 1)
<1>0. Labelled(ram, own, lv)
  BY Zenon DEF Owned
<1>1. {proc[p].pt} \subseteq LevelOf(own, lv, p, 4)
  BY Zenon DEF Owned, Live, Leads, LevelOf
<1>2. PICK s4 : s4 = {proc[p].pt}
  BY Zenon
<1>3. PICK s3 : s3 = Children(s4)
  BY Zenon
<1>4. PICK s2 : s2 = Children(s3)
  BY Zenon
<1>5. PICK s1 : s1 = Children(s2)
  BY Zenon
<1>6. PICK s0 : s0 = Children(s1)
  BY Zenon
<1>7. ASSUME NEW S, NEW T, NEW k \in 0 .. 4, NEW j \in 0 .. 4, j = k - 1,
             T = Children(S), S \subseteq LevelOf(own, lv, p, k)
      PROVE  T \subseteq LevelOf(own, lv, p, j)
  BY <1>0, <1>7, ChildrenLevel, Zenon
<1>8. s4 \subseteq LevelOf(own, lv, p, 4)
  BY <1>1, <1>2, Zenon
<1>9. s3 \subseteq LevelOf(own, lv, p, 3)
  <2>1. PICK k, j : k = 4 /\ j = 3
    BY Zenon
  <2>2. k \in 0 .. 4 /\ j \in 0 .. 4 /\ j = k - 1
    BY <2>1
  <2>3. s4 \subseteq LevelOf(own, lv, p, k)
    BY <1>8, <2>1, Zenon
  <2>4. s3 \subseteq LevelOf(own, lv, p, j)
    BY ONLY <1>3, <1>7, <2>2, <2>3, Zenon
  <2> QED BY <2>1, <2>4, Zenon
<1>10. s2 \subseteq LevelOf(own, lv, p, 2)
  <2>1. PICK k, j : k = 3 /\ j = 2
    BY Zenon
  <2>2. k \in 0 .. 4 /\ j \in 0 .. 4 /\ j = k - 1
    BY <2>1
  <2>3. s3 \subseteq LevelOf(own, lv, p, k)
    BY <1>9, <2>1, Zenon
  <2>4. s2 \subseteq LevelOf(own, lv, p, j)
    BY ONLY <1>4, <1>7, <2>2, <2>3, Zenon
  <2> QED BY <2>1, <2>4, Zenon
<1>11. s1 \subseteq LevelOf(own, lv, p, 1)
  <2>1. PICK k, j : k = 2 /\ j = 1
    BY Zenon
  <2>2. k \in 0 .. 4 /\ j \in 0 .. 4 /\ j = k - 1
    BY <2>1
  <2>3. s2 \subseteq LevelOf(own, lv, p, k)
    BY <1>10, <2>1, Zenon
  <2>4. s1 \subseteq LevelOf(own, lv, p, j)
    BY ONLY <1>5, <1>7, <2>2, <2>3, Zenon
  <2> QED BY <2>1, <2>4, Zenon
<1>12. s0 \subseteq LevelOf(own, lv, p, 0)
  <2>1. PICK k, j : k = 1 /\ j = 0
    BY Zenon
  <2>2. k \in 0 .. 4 /\ j \in 0 .. 4 /\ j = k - 1
    BY <2>1
  <2>3. s1 \subseteq LevelOf(own, lv, p, k)
    BY <1>11, <2>1, Zenon
  <2>4. s0 \subseteq LevelOf(own, lv, p, j)
    BY ONLY <1>6, <1>7, <2>2, <2>3, Zenon
  <2> QED BY <2>1, <2>4, Zenon
<1>13. DataFrames(p) = s0 /\ Tables(p) = s4 \cup s3 \cup s2 \cup s1
  BY <1>2, <1>3, <1>4, <1>5, <1>6, Zenon DEF DataFrames, Tables
<1> QED BY <1>8, <1>9, <1>10, <1>11, <1>12, <1>13, Zenon

(* Memory belongs to one process.  No frame is part of two address spaces, *)
(* none is a table and a data page at once, and whatever is mapped is      *)
(* marked used in the bitmap of pmm.c, so that no later allocation takes   *)
(* it: whatever mixture of fork, failed fork, execve, sbrk, exit and image *)
(* loading went before.                                                    *)
THEOREM MemoryIsolated == ElfSpec => []Isolated
<1>1. SpaceInv => Isolated
  <2> SUFFICES ASSUME SpaceInv PROVE Isolated
    BY Zenon
  <2>1. PICK own, lv : Owned(ram, own, lv, proc)
    BY Zenon DEF SpaceInv
  <2>2. DOMAIN own \subseteq ram.used
    BY <2>1, LabelledFacts, Zenon DEF Owned
  <2>3. \A p \in Live : /\ DataFrames(p) \subseteq LevelOf(own, lv, p, 0)
                        /\ Tables(p) \subseteq LevelOf(own, lv, p, 4) \cup LevelOf(own, lv, p, 3)
                                               \cup LevelOf(own, lv, p, 2) \cup LevelOf(own, lv, p, 1)
    BY <2>1, FramesLabelled, Zenon
  <2>4. \A p \in Live : \A f \in DataFrames(p) : f \in DOMAIN own /\ own[f] = p /\ lv[f] = 0
    BY <2>3, Zenon DEF LevelOf
  <2>5. \A p \in Live : \A f \in Tables(p) : f \in DOMAIN own /\ own[f] = p /\ lv[f] # 0
    BY <2>3, SMTT(30) DEF LevelOf
  <2> QED BY <2>2, <2>4, <2>5, SMTT(30) DEF Isolated
<1> QED BY <1>1, SpaceInvariant, PTL

(* An address is mapped when its page is. *)
LEMMA PageIsMapped ==
  ASSUME NEW m, NEW own, NEW lv, Labelled(m, own, lv), NEW p, NEW t4, Leads(own, lv, t4, p, 4),
         NEW addr \in Nat, FrameOf(m, t4, PageOf(addr) * Entries) # NoPage
  PROVE  vmm_get_physical(m, t4, addr) # 0
<1>1. PICK g, start : g = PageOf(addr) /\ start = g * Entries
  BY Zenon
<1>2. Entries \in Nat \ {0} /\ g \in Nat /\ g * Entries \in Nat
  BY <1>1, Sizes, Quotient, SMTT(30) DEF PageOf
<1>3. start \in Nat /\ g * Entries <= start /\ start < g * Entries + Entries
  BY <1>1, <1>2, SMTT(30)
<1>4. start \div Entries = g
  BY ONLY <1>2, <1>3, OnlyQuotient, Zenon
<1>5. PageOf(start) = PageOf(addr)
  BY <1>1, <1>4, Zenon DEF PageOf
<1>6. FrameOf(m, t4, start) = FrameOf(m, t4, addr)
  BY ONLY <1>5, SamePage, Zenon
<1>7. PICK f : f = FrameOf(m, t4, addr)
  BY Zenon
<1>8. f # NoPage
  BY <1>1, <1>6, <1>7, Zenon
<1> QED BY ONLY Labelled(m, own, lv), Leads(own, lv, t4, p, 4), addr \in Nat, <1>7, <1>8, PhysicalFacts, SMTT(30)

(* The page of a heap address begins in the heap, which begins with a page. *)
LEMMA HeapPages ==
  ASSUME NEW heap \in UserHeapStart .. HeapLimit, NEW addr \in UserHeapStart .. heap - 1
  PROVE  addr \in Nat /\ PageOf(addr) * Entries \in HeapStarts(heap)
<1>0. Entries \in Nat \ {0} /\ UserHeapStart \in Nat /\ HeapLimit \in Nat
  BY Sizes, HeapLayout, SMTT(30)
<1>1. addr \in Nat /\ addr < heap /\ UserHeapStart <= addr /\ heap \in Nat
  BY <1>0
<1>2. PICK g, u, w : g = PageOf(addr) /\ u = UserHeapStart \div Entries /\ w = Entries
  BY Zenon
<1>3. /\ w \in Nat \ {0} /\ g \in Nat /\ g * w \in Nat /\ g * w <= addr /\ addr < g * w + w
  BY <1>0, <1>1, <1>2, Quotient, Zenon DEF PageOf
<1>4. u \in Nat /\ u * w \in Nat /\ u * w = UserHeapStart
  <2>1. /\ UserHeapStart \div w \in Nat /\ (UserHeapStart \div w) * w \in Nat
        /\ UserHeapStart = (UserHeapStart \div w) * w + (UserHeapStart % w)
    BY ONLY <1>0, <1>3, Quotient, Zenon
  <2>2. UserHeapStart % w = 0
    BY <1>2, HeapLayout, Zenon
  <2> QED BY <1>2, <2>1, <2>2, SMTT(30)
<1>5. u <= g
  <2> SUFFICES ASSUME g < u PROVE FALSE
    BY <1>3, <1>4, SMTT(30)
  <2>1. g * w + w <= u * w
    BY <1>3, <1>4, Rows, Zenon
  <2> QED BY <1>0, <1>1, <1>3, <1>4, <2>1, SMTT(30)
<1>6. u * w <= g * w
  <2>1. CASE u = g
    BY <1>3, <2>1, SMTT(30)
  <2>2. CASE u < g
    <3>1. u * w + w <= g * w
      BY <1>0, <1>2, <1>3, <1>4, <2>2, Rows, Zenon
    <3> QED BY <1>0, <1>2, <1>3, <1>4, <3>1, SMTT(30)
  <2> QED BY <1>3, <1>4, <1>5, <2>1, <2>2, SMTT(30)
<1>7. UserHeapStart <= g * Entries /\ g * Entries < heap
  BY <1>0, <1>1, <1>2, <1>3, <1>4, <1>6, SMTT(30)
<1>8. g * Entries \in HeapStarts(heap)
  BY <1>3, <1>7, Zenon DEF HeapStarts
<1> QED BY <1>1, <1>2, <1>8, Zenon

(* The stack is whole pages, up to the top. *)
LEMMA StackIsPages ==
  ASSUME NEW addr \in UserStackTop - StackPages * Entries .. UserStackTop - 1
  PROVE  addr \in Nat /\ PageOf(addr) * Entries \in PageStarts(StackStart, StackPages)
<1>0. Entries \in Nat \ {0} /\ Half \in Nat /\ KernelBase = Half * Entries * Entries * Entries * Entries
  BY Sizes, Halves
<1>1. PICK w, k : w = Entries /\ k = Half * Entries * Entries * Entries
  BY Zenon
<1>2. k \in Nat /\ w \in Nat \ {0} /\ KernelBase = k * w
  <2>1. Half * Entries \in Nat
    BY <1>0
  <2>2. Half * Entries * Entries \in Nat
    BY <1>0, <2>1
  <2>3. Half * Entries * Entries * Entries \in Nat
    BY <1>0, <2>2
  <2> QED BY <1>0, <1>1, <2>3, Zenon
<1>3. /\ StackStart \in Nat /\ StackPages \in Nat /\ StackStart + StackPages * w = k * w
      /\ addr \in StackStart .. k * w - 1
  BY <1>1, <1>2, StackLayout, Zenon DEF StackStart, UserStackTop
<1>4. k * w \in Nat /\ StackPages * w \in Nat
  BY <1>2, <1>3
<1>5. addr \in Nat /\ StackStart <= addr /\ addr < k * w
  BY <1>3, <1>4
<1>6. PICK g : g = PageOf(addr)
  BY Zenon
<1>7. g \in Nat /\ g * w \in Nat /\ g * w <= addr /\ addr < g * w + w
  <2>1. PICK a : a = addr
    BY Zenon
  <2>2. a \in Nat /\ w \in Nat \ {0}
    BY <1>2, <1>5, <2>1, Zenon
  <2>3. /\ a \div w \in Nat /\ (a \div w) * w \in Nat
        /\ (a \div w) * w <= a /\ a < (a \div w) * w + w
    BY <2>2, Quotient, Zenon
  <2>4. g = a \div w
    BY <1>1, <1>6, <2>1, Zenon DEF PageOf
  <2> QED BY <2>1, <2>3, <2>4, Zenon
<1>8. g < k
  BY <1>1, <1>2, <1>5, <1>6, QuotientLess, Zenon DEF PageOf
<1>9. k <= g + StackPages
  <2> SUFFICES ASSUME g + StackPages < k PROVE FALSE
    BY <1>2, <1>3, <1>7
  <2>1. g + StackPages \in Nat
    BY <1>3, <1>7
  <2>2. (g + StackPages) * w + w <= k * w
    BY <1>2, <2>1, Rows, Zenon
  <2>3. (g + StackPages) * w = g * w + StackPages * w
    BY <1>2, <1>3, <1>7
  <2> QED BY <1>2, <1>3, <1>4, <1>5, <1>7, <2>2, <2>3, SMTT(30)
<1>10. PICK j : j = g - (k - StackPages)
  BY Zenon
<1>11. j \in 0 .. StackPages - 1 /\ j \in Nat /\ j + k = g + StackPages
  BY <1>2, <1>3, <1>7, <1>8, <1>9, <1>10, SMTT(30)
<1>12. g * w = StackStart + j * w
  <2>1. (j + k) * w = j * w + k * w /\ (g + StackPages) * w = g * w + StackPages * w
    BY <1>2, <1>3, <1>7, <1>11, SMTT(30)
  <2>2. j * w \in Nat
    BY <1>2, <1>11
  <2> QED BY <1>3, <1>4, <1>7, <1>11, <2>1, <2>2, SMTT(30)
<1> QED BY <1>1, <1>5, <1>6, <1>11, <1>12, Zenon DEF PageStarts

(* Until it calls execve a process has its stack, and a frame behind every *)
(* word below its break, however often sbrk moved the break down and up,   *)
(* and also when a growth ran out of memory half-way.                      *)
THEOREM MemoryBacked == ElfSpec => []Backed
<1>1. SpaceInv => Backed
  <2> SUFFICES ASSUME SpaceInv, NEW p \in Live, ~ proc[p].execed,
                      NEW addr \in UserHeapStart .. proc[p].heap - 1 \cup
                                   UserStackTop - StackPages * Entries .. UserStackTop - 1
               PROVE  Mapped(p, addr)
    BY Zenon DEF Backed
  <2>1. PICK own, lv : Owned(ram, own, lv, proc)
    BY Zenon DEF SpaceInv
  <2>2. PICK m, t4, heap : m = ram /\ t4 = proc[p].pt /\ heap = proc[p].heap
    BY Zenon
  <2>3. Labelled(m, own, lv) /\ Leads(own, lv, t4, p, 4) /\ p \in Procs /\ proc[p].pt # NoPage
    BY <2>1, <2>2, Zenon DEF Owned, Live
  <2>4. heap \in UserHeapStart .. HeapLimit
    <3>1. proc[p] \in Spaces
      BY <2>3, Zenon DEF SpaceInv, Typed
    <3> QED BY <2>2, <3>1, SpaceFields, Zenon
  <2>5. BackedAt(m, t4, heap)
    BY <2>2, <2>3, Zenon DEF SpaceInv, BackedOf
  <2>6. addr \in Nat /\ PageOf(addr) * Entries \in PageStarts(StackStart, StackPages) \cup HeapStarts(heap)
    <3>1. CASE addr \in UserHeapStart .. proc[p].heap - 1
      BY <2>2, <2>4, <3>1, HeapPages, Zenon
    <3>2. CASE addr \in UserStackTop - StackPages * Entries .. UserStackTop - 1
      BY <3>2, StackIsPages, Zenon
    <3> QED BY <3>1, <3>2, Zenon
  <2>7. FrameOf(m, t4, PageOf(addr) * Entries) # NoPage
    BY <2>5, <2>6, Zenon DEF BackedAt
  <2>8. vmm_get_physical(m, t4, addr) # 0
    BY ONLY <2>3, <2>6, <2>7, PageIsMapped, Zenon
  <2> QED BY <2>2, <2>8, Zenon DEF Mapped
<1> QED BY <1>1, SpaceInvariant, PTL

(* Processes that look alike see the same. *)
LEMMA Views ==
  ASSUME NEW p \in Procs, Effect(p), NEW q \in Procs, proc[q].pt # NoPage, NEW c \in Procs, proc'[c].pt # NoPage,
         LookAlike(ram, proc[q].pt, ram', proc'[c].pt)
  PROVE  View(c)' = View(q)
<1>1. PICK own, lv, own2, lv2 :
        Owned(ram, own, lv, proc) /\ Others(ram, own, lv, ram', own2, lv2, p) /\ Owned(ram', own2, lv2, proc')
  BY Zenon DEF Effect, Kept
<1>2. PICK m, m2, t, t2 : m = ram /\ m2 = ram' /\ t = proc[q].pt /\ t2 = proc'[c].pt
  BY Zenon
<1>3. /\ Labelled(m, own, lv) /\ Leads(own, lv, t, q, 4) /\ Labelled(m2, own2, lv2) /\ Leads(own2, lv2, t2, c, 4)
      /\ LookAlike(m, t, m2, t2)
  BY <1>1, <1>2, Zenon DEF Owned
<1>4. ViewOf(m2, t2) = ViewOf(m, t)
  BY ONLY <1>3, SameView
<1>5. View(c)' = ViewOf(m2, t2) /\ View(q) = ViewOf(m, t)
  BY <1>2, Zenon DEF View, Mapped, ViewOf
<1> QED BY <1>4, <1>5, Zenon

(* What a process sees changes only by its own steps: no other process's   *)
(* call, and no call that fails, alters a word of its memory or unmaps it. *)
THEOREM ProcessesApart == ElfSpec => OthersUnaffected
<1>1. SpaceInv /\ [ElfNext]_vars =>
        [\A q \in Live : q # who' /\ proc'[q].pt # NoPage => View(q)' = View(q)]_vars
  <2> SUFFICES ASSUME SpaceInv, ElfNext, NEW q \in Live, q # who', proc'[q].pt # NoPage
               PROVE  View(q)' = View(q)
    BY Zenon
  <2>1. PICK p \in Procs : who' = p /\ Effect(p)
    BY StepEffect, Zenon
  <2>2. q \in Procs /\ proc[q].pt # NoPage /\ q # p
    BY <2>1, Zenon DEF Live
  <2>3. proc'[q] = proc[q] /\ LookAlike(ram, proc[q].pt, ram', proc'[q].pt)
    BY <2>1, <2>2, OthersLook, Zenon
  <2> QED BY <2>1, <2>2, <2>3, Views, Zenon
<1> QED BY <1>1, SpaceInvariant, PTL DEF ElfSpec, OthersUnaffected

(* sys_fork gives the child a copy of everything the parent sees, made of  *)
(* the parent's words at that moment.                                      *)
THEOREM ForkIsCopy == ElfSpec => ForkCopies
<1>1. SpaceInv /\ [ElfNext]_vars =>
        [\A c \in Procs \ Live : proc'[c].pt # NoPage /\ c # who' => View(c)' = View(who')]_vars
  <2> SUFFICES ASSUME SpaceInv, ElfNext, NEW c \in Procs \ Live, proc'[c].pt # NoPage, c # who'
               PROVE  View(c)' = View(who')
    BY Zenon
  <2>1. PICK p \in Procs : who' = p /\ Effect(p)
    BY StepEffect, Zenon
  <2>2. c \in Procs /\ proc[c].pt = NoPage /\ c # p
    BY <2>1, Zenon DEF Live
  <2>3. NewCopy(c, p)
    BY <2>1, <2>2, Zenon DEF Effect
  <2>4. proc[p].pt # NoPage /\ LookAlike(ram, proc[p].pt, ram', proc'[c].pt)
    BY <2>3, Zenon DEF NewCopy
  <2>5. View(c)' = View(p)
    BY <2>1, <2>2, <2>4, Views, Zenon
  <2> QED BY <2>1, <2>5, Zenon
<1> QED BY <1>1, SpaceInvariant, PTL DEF ElfSpec, ForkCopies
=============================================================================
