------------------------------ MODULE PageSpec ------------------------------
(***************************************************************************)
(* What the physical memory manager promises its callers (pmm.h): a pool   *)
(* of page frames.  A request is granted pages nobody holds, adjacent when *)
(* several are asked for, and refused only when there are none; pages come *)
(* back only from those who hold them.                                     *)
(***************************************************************************)
EXTENDS Naturals

CONSTANTS Pool,  \* the frames there are
          Sizes  \* how many frames a request may ask for

VARIABLES held,  \* frames handed out
          last   \* the last answer: how many were asked for, and the first, or 0

Run(start, n) == start .. start + n - 1

Init == held = {} /\ last = [n |-> 0, start |-> 0]

Grant(n, start) ==
  /\ Run(start, n) \subseteq Pool \ held
  /\ held' = held \cup Run(start, n)
  /\ last' = [n |-> n, start |-> start]

Refuse(n) ==
  /\ \A start \in Pool : ~ (Run(start, n) \subseteq Pool \ held)
  /\ last' = [n |-> n, start |-> 0]
  /\ UNCHANGED held

Return(pages) ==
  /\ pages \subseteq held
  /\ held' = held \ pages
  /\ UNCHANGED last

Next ==
  \/ \E n \in Sizes, start \in Pool : Grant(n, start)
  \/ \E n \in Sizes : Refuse(n)
  \/ \E pages \in SUBSET held : Return(pages)

Spec == Init /\ [][Next]_<<held, last>>
=============================================================================
