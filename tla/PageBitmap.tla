----------------------------- MODULE PageBitmap -----------------------------
(***************************************************************************)
(* The bitmap of pmm.c as the set of pages whose bit is set.  A page is a  *)
(* page number; pmm_init leaves the bits of FirstPage .. TotalPages - 1    *)
(* clear and all others set.                                               *)
(***************************************************************************)
EXTENDS Naturals, FiniteSets

CONSTANTS TotalPages,  \* pmm_total_pages
          FirstPage,   \* PMM_START / PAGE_SIZE
          BitmapBits   \* the bits of pmm_bitmap

ASSUME PagesAssumption ==
  /\ TotalPages \in Nat /\ FirstPage \in Nat \ {0} /\ BitmapBits \in Nat
  /\ FirstPage < TotalPages /\ TotalPages <= BitmapBits

AllPages == 0 .. BitmapBits - 1
Managed == FirstPage .. TotalPages - 1

NoPage == 0  \* NULL; page 0 is below PMM_START

(* The bitmap after pmm_init. *)
InitialBitmap == AllPages \ Managed

FreePages(u) == AllPages \ u

(* bitmap_find_free: the lowest clear bit. *)
bitmap_find_free(u, p) == p \in FreePages(u) /\ \A q \in FreePages(u) : p <= q
=============================================================================
