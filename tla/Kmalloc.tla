------------------------------ MODULE Kmalloc ------------------------------
(***************************************************************************)
(* The kernel heap of kmalloc.c: a list of blocks in address order, first  *)
(* fit, splitting, and coalescing of the whole list after every kfree.     *)
(* The list (head, next) is a sequence of headers.  Addresses are offsets  *)
(* from HEAP_START, in bytes.  Callers free what they were given, once.    *)
(***************************************************************************)
EXTENDS Panic, Integers, Sequences, FiniteSetsExt

CONSTANTS HeapSize,      \* HEAP_SIZE, a multiple of 8
          Header,        \* BLOCK_HEADER_SIZE, a multiple of 8
          MinBlock,      \* MIN_BLOCK_SIZE
          Requests       \* the sizes asked for

ASSUME HeapAssumption ==
  /\ HeapSize \in Nat /\ Header \in Nat \ {0} /\ Header <= HeapSize
  /\ MinBlock \in Nat /\ Requests \subseteq Nat

VARIABLES heap,      \* the block list, empty before init_heap; the statistics
          live       \* history: pointers in use |-> bytes asked for

heapVars == <<heap, live, panicked>>

Block(a, s, f) == [addr |-> a, size |-> s, free |-> f]
HeapBlocks == [addr : 0 .. HeapSize, size : 0 .. HeapSize, free : BOOLEAN]

HeapTypeOK ==
  /\ heap.blocks \in Seq(HeapBlocks)
  /\ heap.total_allocated \in 0 .. HeapSize
  /\ heap.total_free \in 0 .. HeapSize
  /\ heap.allocation_count \in Nat
  /\ live \in [DOMAIN live -> Requests]
  /\ panicked \in BOOLEAN

InitHeap ==
  /\ heap = [blocks |-> <<>>, total_allocated |-> 0, total_free |-> HeapSize,
             allocation_count |-> 0]
  /\ live = <<>>
  /\ panicked = FALSE

(* The block list kmalloc works on: init_heap on the first call. *)
init_heap(h) == IF h = <<>> THEN <<Block(0, HeapSize - Header, TRUE)>> ELSE h

(* size = (size + 7) & ~7 *)
MutAlign_Down(n) == (n \div 8) * 8

Align(n) == ((n + 7) \div 8) * 8

FirstOf(indices) == IF indices = {} THEN 0 ELSE Min(indices)

(* The index of the first free block that is large enough, or 0. *)
MutFind_IgnoresFree(h, n) == FirstOf({i \in DOMAIN h : h[i].size >= n})

find_free_block(h, n) == FirstOf({i \in DOMAIN h : h[i].free /\ h[i].size >= n})

(* The list with b linked in behind its i-th block. *)
Behind(h, i, b) == SubSeq(h, 1, i) \o <<b>> \o SubSeq(h, i + 1, Len(h))

(* split_block: the rest becomes a free block if it can hold a header and  *)
(* a minimum block.                                                        *)
MutSplit_RestKeepsHeader(h, i, n) ==
  LET b == h[i]
  IN  IF b.size >= n + Header + MinBlock
      THEN Behind([h EXCEPT ![i].size = n], i,
                  Block(b.addr + Header + n, b.size - n, TRUE))
      ELSE h

split_block(h, i, n) ==
  LET b == h[i]
  IN  IF b.size >= n + Header + MinBlock
      THEN Behind([h EXCEPT ![i].size = n], i,
                  Block(b.addr + Header + n, b.size - n - Header, TRUE))
      ELSE h

(* coalesce_free_blocks: the walk stays on a free block while its successor *)
(* is free too, and absorbs it with its header.                             *)
Absorb(h, b) ==
  IF h # <<>> /\ h[Len(h)].free /\ b.free
  THEN [h EXCEPT ![Len(h)].size = @ + Header + b.size]
  ELSE Append(h, b)

MutCoalesce_FirstPairOnly(h) ==
  LET i == FirstOf({j \in DOMAIN h : h[j].free})
  IN  IF i # 0 /\ i < Len(h) /\ h[i + 1].free
      THEN SubSeq([h EXCEPT ![i].size = @ + Header + h[i + 1].size], 1, i)
             \o SubSeq(h, i + 2, Len(h))
      ELSE h

coalesce_free_blocks(h) ==
  LET walked[k \in 0 .. Len(h)] == IF k = 0 THEN <<>> ELSE Absorb(walked[k - 1], h[k])
  IN  walked[Len(h)]

-----------------------------------------------------------------------------
(* kmalloc(n) on heap k: the new heap and the pointer, NULL (0) after the  *)
(* panic for lack of a block.                                              *)
kmalloc(k, n) ==
  LET size == Align(n)
      h0   == init_heap(k.blocks)
      i    == find_free_block(h0, size)
      h    == split_block(h0, i, size)
  IN  IF i = 0
      THEN [heap |-> [k EXCEPT !.blocks = h0], ptr |-> 0]
      ELSE [heap |-> [blocks |-> [h EXCEPT ![i].free = FALSE],
                      total_allocated |-> k.total_allocated + h[i].size,
                      total_free |-> k.total_free - h[i].size,
                      allocation_count |-> k.allocation_count + 1],
            ptr |-> h[i].addr + Header]

(* The index of the header in front of pointer p. *)
HeaderOf(k, p) == FirstOf({i \in DOMAIN k.blocks : k.blocks[i].addr + Header = p})

(* kfree(p) on heap k, past its two panics. *)
kfree(k, p) ==
  LET i == HeaderOf(k, p)
      s == k.blocks[i].size
  IN  [blocks |-> coalesce_free_blocks([k.blocks EXCEPT ![i].free = TRUE]),
       total_allocated |-> k.total_allocated - s,
       total_free |-> k.total_free + s,
       allocation_count |-> k.allocation_count - 1]

MayFree(k, p) == HeaderOf(k, p) # 0 /\ ~ k.blocks[HeaderOf(k, p)].free

(* The pointers in use when ps have been returned and p obtained for n. *)
NowLive(ps, p, n) ==
  [q \in (DOMAIN live \ ps) \cup {p} |-> IF q = p THEN n ELSE live[q]]

-----------------------------------------------------------------------------
(* kmalloc, and kzalloc, which writes n zeros from the pointer on. *)
Kmalloc(n) ==
  LET r == kmalloc(heap, n)
  IN  /\ ~ panicked
      /\ heap' = r.heap
      /\ panicked' = (r.ptr = 0)
      /\ live' = IF r.ptr = 0 THEN live ELSE NowLive({}, r.ptr, n)

Kfree(p) ==
  /\ ~ panicked
  /\ MayFree(heap, p)
  /\ heap' = kfree(heap, p)
  /\ live' = [q \in DOMAIN live \ {p} |-> live[q]]
  /\ UNCHANGED panicked

(* krealloc of a pointer in use: it stays if the block is large enough. *)
ReallocInPlace(p, n) ==
  /\ ~ panicked
  /\ n <= heap.blocks[HeaderOf(heap, p)].size
  /\ live' = NowLive({}, p, n)
  /\ UNCHANGED <<heap, panicked>>

(* ... or it is copied to a new block and freed. *)
ReallocMoves(p, n) ==
  LET r == kmalloc(heap, n)
  IN  /\ ~ panicked
      /\ n > heap.blocks[HeaderOf(heap, p)].size
      /\ panicked' = (r.ptr = 0)
      /\ IF r.ptr = 0
         THEN heap' = r.heap /\ UNCHANGED live
         ELSE /\ MayFree(r.heap, p)
              /\ heap' = kfree(r.heap, p)
              /\ live' = NowLive({p}, r.ptr, n)

NextHeap ==
  \/ \E n \in Requests : Kmalloc(n)
  \/ \E p \in DOMAIN live : \/ Kfree(p)
                             \/ \E n \in Requests : \/ ReallocInPlace(p, n)
                                                    \/ ReallocMoves(p, n)

SpecHeap == InitHeap /\ [][NextHeap]_heapVars

-----------------------------------------------------------------------------
End(b) == b.addr + Header + b.size

(* Splitting and coalescing neither lose nor duplicate a byte: the blocks  *)
(* lie end to end from the start of the heap to its end.                   *)
Tiled ==
  LET h == heap.blocks
  IN  h # <<>> =>
        /\ h[1].addr = 0
        /\ \A i \in 1 .. Len(h) - 1 : End(h[i]) = h[i + 1].addr
        /\ End(h[Len(h)]) = HeapSize

(* coalesce_free_blocks leaves no two free neighbours, whatever the order  *)
(* of the frees: what was freed can be allocated again in one piece.       *)
Coalesced ==
  \A i \in 1 .. Len(heap.blocks) - 1 :
    ~ (heap.blocks[i].free /\ heap.blocks[i + 1].free)

(* A pointer in use has its bytes to itself: they lie in a block that is   *)
(* not free, and no header or other block in use overlaps them.  So a      *)
(* caller that frees what it owns never meets "Double free detected".      *)
LiveIntact ==
  \A p \in DOMAIN live :
    /\ MayFree(heap, p)
    /\ p + live[p] <= End(heap.blocks[HeaderOf(heap, p)])
    /\ \A i \in DOMAIN heap.blocks :
         LET b == heap.blocks[i]
         IN  b.addr + Header # p => End(b) <= p - Header \/ p + live[p] <= b.addr

(* The bytes in the blocks in use. *)
Taken(b) == IF b.free THEN 0 ELSE b.size

TakenIn(h) ==
  LET sum[k \in 0 .. Len(h)] == IF k = 0 THEN 0 ELSE sum[k - 1] + Taken(h[k])
  IN  sum[Len(h)]

(* kmalloc_stats reports what the callers hold, also after krealloc.       *)
StatsMatch ==
  /\ heap.total_allocated = TakenIn(heap.blocks)
  /\ heap.total_allocated + heap.total_free = HeapSize
  /\ heap.allocation_count = Cardinality(DOMAIN live)
=============================================================================
