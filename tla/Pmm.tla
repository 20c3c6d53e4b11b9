-------------------------------- MODULE Pmm --------------------------------
(***************************************************************************)
(* The physical memory manager, pmm.c: the page bitmap and the count of    *)
(* free pages.  Its functions take any argument; what they refuse ends in  *)
(* panic(), which halts the machine.                                       *)
(***************************************************************************)
EXTENDS PageBitmap, Panic

CONSTANT MaxCount  \* bound: the pages one call asks for

ASSUME CountAssumption == MaxCount \in Nat \ {0}

VARIABLES used,      \* pmm_bitmap
          free,      \* pmm_free_pages, the counter
          last       \* history: the last allocation and its result

vars == <<used, free, last, panicked>>

TypeOK ==
  /\ used \subseteq AllPages
  /\ free \in Nat
  /\ last \in [n : Nat, start : AllPages]
  /\ panicked \in BOOLEAN

Run(start, n) == start .. start + n - 1

(* pmm_init counts the pages while it clears their bits. *)
Init ==
  /\ used = InitialBitmap
  /\ free = TotalPages - FirstPage
  /\ last = [n |-> 0, start |-> NoPage]
  /\ panicked = FALSE

-----------------------------------------------------------------------------
pmm_alloc_page ==
  /\ ~ panicked
  /\ \E p \in AllPages :
       /\ bitmap_find_free(used, p)
       /\ used' = used \cup {p}
       /\ last' = [n |-> 1, start |-> p]
  /\ free' = free - 1
  /\ UNCHANGED panicked

AllocPageFails ==
  /\ ~ panicked
  /\ FreePages(used) = {}
  /\ last' = [n |-> 1, start |-> NoPage]
  /\ UNCHANGED <<used, free, panicked>>

(* The check of pmm_free_page: not below PMM_START, in range, bit set. *)
Freeable(p) == p >= FirstPage /\ p < TotalPages /\ p \in used

pmm_free_page(p, aligned) ==
  /\ ~ panicked
  /\ IF aligned /\ Freeable(p)
     THEN used' = used \ {p} /\ free' = free + 1 /\ UNCHANGED panicked
     ELSE panicked' = TRUE /\ UNCHANGED <<used, free>>
  /\ UNCHANGED last

(* pmm_alloc_pages: the first start with count clear bits. *)
MutFits_ShortOfEnd(start, n) ==
  /\ start >= FirstPage
  /\ start + n < TotalPages
  /\ Run(start, n) \cap used = {}

Fits(start, n) ==
  /\ start >= FirstPage
  /\ start + n <= TotalPages
  /\ Run(start, n) \cap used = {}

pmm_alloc_pages(n) ==
  /\ ~ panicked
  /\ \E start \in AllPages :
       /\ Fits(start, n)
       /\ \A s \in AllPages : Fits(s, n) => start <= s
       /\ used' = used \cup Run(start, n)
       /\ last' = [n |-> n, start |-> start]
  /\ free' = free - n
  /\ UNCHANGED panicked

AllocPagesFails(n) ==
  /\ ~ panicked
  /\ \A s \in AllPages : ~ Fits(s, n)
  /\ last' = [n |-> n, start |-> NoPage]
  /\ UNCHANGED <<used, free, panicked>>

MutFreePages_CountsAhead(p, n) ==
  /\ ~ panicked
  /\ \E k \in 0 .. n :
       /\ \A q \in Run(p, k) : Freeable(q)
       /\ k < n => ~ Freeable(p + k)
       /\ used' = used \ Run(p, k)
       /\ free' = free + n
       /\ panicked' = (k < n)
  /\ UNCHANGED last

(* pmm_free_pages: page by page, up to the first pmm_free_page refuses. *)
pmm_free_pages(p, n) ==
  /\ ~ panicked
  /\ \E k \in 0 .. n :
       /\ \A q \in Run(p, k) : Freeable(q)
       /\ k < n => ~ Freeable(p + k)
       /\ used' = used \ Run(p, k)
       /\ free' = free + k
       /\ panicked' = (k < n)
  /\ UNCHANGED last

Next ==
  \/ pmm_alloc_page
  \/ AllocPageFails
  \/ \E p \in AllPages, aligned \in BOOLEAN : pmm_free_page(p, aligned)
  \/ \E n \in 1 .. MaxCount : pmm_alloc_pages(n) \/ AllocPagesFails(n)
  \/ \E p \in AllPages, n \in 1 .. MaxCount : pmm_free_pages(p, n)

Spec == Init /\ [][Next]_vars

-----------------------------------------------------------------------------
(* The counter that pmm_get_stats reports is the number of clear bits,     *)
(* whatever mixture of single and multiple requests, refusals and bad      *)
(* frees went before, a free_pages that panics half-way included.          *)
CounterExact == free = Cardinality(FreePages(used))

(* Frames below PMM_START and behind the end of memory are never handed    *)
(* out: their bits stay set, although bitmap_find_free scans them all.     *)
OutsideStaysUsed == AllPages \ Managed \subseteq used

(* The manager is a pool of frames: it grants only what nobody holds, the  *)
(* pages of one request adjacent, refuses only what it does not have, and  *)
(* takes back only what is out.                                            *)
Pool == INSTANCE PageSpec
          WITH Pool <- Managed, Sizes <- 1 .. MaxCount, held <- used \cap Managed

ImplementsPageSpec == Pool!Spec
=============================================================================
