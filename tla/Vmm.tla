-------------------------------- MODULE Vmm --------------------------------
(***************************************************************************)
(* The virtual memory manager, vmm.c, over the physical memory it works    *)
(* in: page tables and data share the frames, a table entry is a word that *)
(* holds a frame number (0: not present), and pmm_alloc_page zeroes what   *)
(* it returns.  With it, the callers that build, copy, grow and drop       *)
(* address spaces: process_create, sys_fork, sys_execve, sys_sbrk and the  *)
(* end of a process.                                                       *)
(*                                                                         *)
(* A page has Entries words (512 entries, or 4096 bytes, in the code); an  *)
(* address is a word number of the space.  Entry flags are left out: the   *)
(* code gives every user entry the same ones and copies them unchanged.    *)
(***************************************************************************)
EXTENDS PageBitmap, Integers, Sequences

CONSTANTS Entries,        \* words in a page, entries in a table
          Procs,          \* the processes there may be
          UserHeapStart,  \* USER_HEAP_START
          HeapLimit,      \* heap_max
          StackPages,     \* USER_STACK_SIZE / PAGE_SIZE
          Increments,     \* arguments of sbrk
          Data,           \* words a program stores
          Stores          \* bound: the addresses it stores to

AddressMod == Entries * Entries * Entries * Entries * Entries  \* addresses wrap
KernelBase == AddressMod \div 2           \* KERNEL_BASE
UserStackTop == KernelBase                \* USER_STACK_TOP

ASSUME LayoutAssumption ==
  /\ Entries \in Nat \ {0} /\ Entries % 2 = 0
  /\ UserHeapStart \in Nat /\ UserHeapStart % Entries = 0
  /\ HeapLimit \in Nat /\ UserHeapStart <= HeapLimit /\ HeapLimit < KernelBase
  /\ StackPages \in Nat /\ StackPages * Entries <= UserStackTop
  /\ Increments \subseteq 0 .. AddressMod - 1 /\ Data \subseteq Nat /\ Stores \subseteq Nat

VARIABLES ram,     \* [used: the bitmap, mem: frame -> index -> word]
          proc,    \* process -> its page_table, heap_current, and history:
                   \* whether it called execve, the image it was loaded with
          who,     \* history: the process the last step belongs to
          halted   \* panic() was called

vars == <<ram, proc, who, halted>>

Index == 0 .. Entries - 1
UserIndex == 0 .. Entries \div 2 - 1      \* entries 0-255 of a PML4
PageOf(addr) == addr \div Entries
OffsetIn(addr) == addr % Entries

NoSpace == [pt |-> NoPage, heap |-> UserHeapStart, execed |-> FALSE, image |-> <<>>]

Present(word) == word \in Managed

TypeOK ==
  /\ ram.used \subseteq AllPages
  /\ DOMAIN ram.mem = AllPages
  /\ \A f \in AllPages : DOMAIN ram.mem[f] = Index
  /\ \A p \in Procs : /\ proc[p].pt \in Managed \cup {NoPage}
                      /\ proc[p].heap \in UserHeapStart .. HeapLimit
                      /\ proc[p].execed \in BOOLEAN
  /\ who \in Procs /\ halted \in BOOLEAN

-----------------------------------------------------------------------------
(* Physical pages.  An allocation is a memory and a page, NoPage for NULL. *)
pmm_alloc_page(m) ==
  IF FreePages(m.used) = {} THEN [m |-> m, page |-> NoPage]
  ELSE LET p == CHOOSE q \in AllPages : bitmap_find_free(m.used, q)
       IN [m |-> [used |-> m.used \cup {p},
                  mem  |-> [m.mem EXCEPT ![p] = [i \in Index |-> 0]]],
           page |-> p]

pmm_free_page(m, p) == [m EXCEPT !.used = @ \ {p}]

-----------------------------------------------------------------------------
(* Writes to physical memory: word i, or all words, of a frame. *)
SetWord(m, frame, i, w) == [m EXCEPT !.mem[frame][i] = w]
SetPage(m, frame, words) == [m EXCEPT !.mem[frame] = words]

-----------------------------------------------------------------------------
(* Walking and extending the four levels. *)
PT_INDEX(addr) == PageOf(addr) % Entries
PD_INDEX(addr) == (PageOf(addr) \div Entries) % Entries
PDPT_INDEX(addr) == ((PageOf(addr) \div Entries) \div Entries) % Entries
PML4_INDEX(addr) == (((PageOf(addr) \div Entries) \div Entries) \div Entries) % Entries

(* A new table goes into its entry, if there is one. *)
Linked(new, table, i) ==
  IF new.page = NoPage THEN new ELSE [m |-> SetWord(new.m, table, i, new.page), page |-> new.page]

vmm_get_or_create_table(m, table, i) ==
  IF Present(m.mem[table][i]) THEN [m |-> m, page |-> m.mem[table][i]]
  ELSE Linked(pmm_alloc_page(m), table, i)

SetEntry(pt, addr, frame) ==
  IF pt.page = NoPage THEN [m |-> pt.m, ok |-> FALSE]
  ELSE [m |-> SetWord(pt.m, pt.page, PT_INDEX(addr), frame), ok |-> TRUE]

vmm_map_page(m, pml4, addr, frame) ==
  LET Below(t, i) == IF t.page = NoPage THEN t ELSE vmm_get_or_create_table(t.m, t.page, i)
      pdpt == vmm_get_or_create_table(m, pml4, PML4_INDEX(addr))
      pd == Below(pdpt, PDPT_INDEX(addr))
  IN SetEntry(Below(pd, PD_INDEX(addr)), addr, frame)

(* What entry i of table t leads to, NoPage if there is nothing. *)
EntryOf(m, t, i) == IF t # NoPage /\ Present(m.mem[t][i]) THEN m.mem[t][i] ELSE NoPage

FrameOf(m, pml4, addr) ==
  LET pdpt == EntryOf(m, pml4, PML4_INDEX(addr))
      pd == EntryOf(m, pdpt, PDPT_INDEX(addr))
      pt == EntryOf(m, pd, PD_INDEX(addr))
  IN EntryOf(m, pt, PT_INDEX(addr))

(* The physical address, offset included; 0 when not mapped. *)
vmm_get_physical(m, pml4, addr) ==
  IF FrameOf(m, pml4, addr) = NoPage THEN 0
  ELSE FrameOf(m, pml4, addr) * Entries + OffsetIn(addr)

Load(m, paddr) == m.mem[PageOf(paddr)][OffsetIn(paddr)]
Store(m, paddr, w) == SetWord(m, PageOf(paddr), OffsetIn(paddr), w)

(* The upper half of the kernel's pml4, which init_paging leaves empty. *)
KernelHalf == [i \in Index \ UserIndex |-> 0]

vmm_create_address_space(m) ==
  LET a == pmm_alloc_page(m)
  IN IF a.page = NoPage THEN a
     ELSE [m |-> SetPage(a.m, a.page, [i \in Index |-> IF i \in UserIndex THEN a.m.mem[a.page][i]
                                                      ELSE KernelHalf[i]]),
           page |-> a.page]

vmm_destroy_address_space(m, pml4) == pmm_free_page(m, pml4)

MutKeptIfMapped_Frees(map, page) ==
  [m |-> pmm_free_page(map.m, page), ok |-> map.ok]

KeptIfMapped(map, page) ==
  IF map.ok THEN map ELSE [m |-> pmm_free_page(map.m, page), ok |-> FALSE]

(* A frame, then its mapping; the frame goes back when the mapping fails. *)
AllocAndMap(acc, pml4, addr) ==
  LET Map(a) ==
        IF a.page = NoPage THEN [m |-> acc.m, ok |-> FALSE]
        ELSE KeptIfMapped(vmm_map_page(a.m, pml4, addr, a.page), a.page)
  IN IF acc.ok THEN Map(pmm_alloc_page(acc.m)) ELSE acc

(* count pages from addr on, while all goes well. *)
MapPages(acc, pml4, addr, count) ==
  LET done[i \in 0 .. count] ==
        IF i = 0 THEN acc ELSE AllocAndMap(done[i - 1], pml4, addr + (i - 1) * Entries)
  IN done[count]

vmm_alloc_user_pages(m, pml4, addr, count) ==
  MapPages([m |-> m, ok |-> addr < KernelBase], pml4, addr, count)

vmm_setup_user_stack(m, pml4) ==
  vmm_alloc_user_pages(m, pml4, UserStackTop - StackPages * Entries, StackPages)

-----------------------------------------------------------------------------
(* Copying a space, table by table.  Each level frees its own table, and   *)
(* only that, when an entry cannot be copied.                              *)
MutClonePage_Empty(m, src) == pmm_alloc_page(m)

clone_page(m, src) ==
  LET a == pmm_alloc_page(m)
  IN IF a.page = NoPage THEN a
     ELSE [m |-> SetPage(a.m, a.page, a.m.mem[src]), page |-> a.page]

Filled(table, i, c) ==
  IF c.page = NoPage THEN [m |-> pmm_free_page(c.m, table), page |-> NoPage]
  ELSE [m |-> SetWord(c.m, table, i, c.page), page |-> table]

Skipped(child, src, i) == child.page = NoPage \/ ~ Present(child.m.mem[src][i])

PtEntry(child, src, i) ==
  IF Skipped(child, src, i) THEN child
  ELSE Filled(child.page, i, clone_page(child.m, child.m.mem[src][i]))

clone_pt(m, src) ==
  LET child[n \in 0 .. Entries] ==
        IF n = 0 THEN pmm_alloc_page(m) ELSE PtEntry(child[n - 1], src, n - 1)
  IN child[Entries]

PdEntry(child, src, i) ==
  IF Skipped(child, src, i) THEN child
  ELSE Filled(child.page, i, clone_pt(child.m, child.m.mem[src][i]))

clone_pd(m, src) ==
  LET child[n \in 0 .. Entries] ==
        IF n = 0 THEN pmm_alloc_page(m) ELSE PdEntry(child[n - 1], src, n - 1)
  IN child[Entries]

PdptEntry(child, src, i) ==
  IF Skipped(child, src, i) THEN child
  ELSE Filled(child.page, i, clone_pd(child.m, child.m.mem[src][i]))

clone_pdpt(m, src) ==
  LET child[n \in 0 .. Entries] ==
        IF n = 0 THEN pmm_alloc_page(m) ELSE PdptEntry(child[n - 1], src, n - 1)
  IN child[Entries]

(* The upper half as it is, then entries 0-255. *)
WithUpperHalf(child, m, pml4) ==
  IF child.page = NoPage THEN child
  ELSE [m |-> SetPage(child.m, child.page,
                      [i \in Index |-> IF i \in UserIndex THEN 0 ELSE m.mem[pml4][i]]),
        page |-> child.page]

Pml4Entry(child, src, i) ==
  IF Skipped(child, src, i) THEN child
  ELSE Filled(child.page, i, clone_pdpt(child.m, child.m.mem[src][i]))

vmm_clone_address_space(m, pml4) ==
  LET child[n \in 0 .. Entries \div 2] ==
        IF n = 0 THEN WithUpperHalf(pmm_alloc_page(m), m, pml4)
        ELSE Pml4Entry(child[n - 1], pml4, n - 1)
  IN child[Entries \div 2]

vmm_clear_user_space(m, pml4) ==
  SetPage(m, pml4, [i \in Index |-> IF i \in UserIndex THEN 0 ELSE m.mem[pml4][i]])

-----------------------------------------------------------------------------
(* sys_sbrk.  Growing maps a new frame at every page that begins at or     *)
(* above the old break; a frame it cannot get ends the call with the pages *)
(* mapped so far still mapped and the break where it was.                  *)
Negative(inc) == inc >= AddressMod \div 2
NewBreak(heap, inc) == (heap + inc) % AddressMod

MutRoundUp_Down(addr) == PageOf(addr)

RoundUp(addr) == PageOf(addr + Entries - 1)

MutGrows_FromBreakPage(heap, page) == TRUE

Grows(heap, page) == page * Entries >= heap

GrowPage(acc, pt, heap, page) ==
  IF acc.ok /\ Grows(heap, page) THEN vmm_alloc_user_pages(acc.m, pt, page * Entries, 1)
  ELSE acc

GrowHeap(m, pt, heap, new) ==
  LET pages == RoundUp(new) - PageOf(heap)
      grown[n \in 0 .. pages] ==
        IF n = 0 THEN [m |-> m, ok |-> TRUE]
        ELSE GrowPage(grown[n - 1], pt, heap, PageOf(heap) + n - 1)
  IN grown[pages]

InHeap(new) == new <= HeapLimit /\ new >= UserHeapStart

sys_sbrk(p, inc) ==
  LET new == NewBreak(proc[p].heap, inc)
      g == GrowHeap(ram, proc[p].pt, proc[p].heap, new)
  IN /\ inc # 0 /\ InHeap(new)
     /\ IF Negative(inc) THEN proc' = [proc EXCEPT ![p].heap = new] /\ UNCHANGED ram
        ELSE /\ ram' = g.m
             /\ proc' = [proc EXCEPT ![p].heap = IF g.ok THEN new ELSE @]
     /\ UNCHANGED halted

(* process_create; every failure ends in panic(). *)
NewProcess ==
  LET KeptIf(s, page) ==
        IF s.ok THEN [m |-> s.m, page |-> page]
        ELSE [m |-> vmm_destroy_address_space(s.m, page), page |-> NoPage]
      WithStack(a) ==
        IF a.page = NoPage THEN a ELSE KeptIf(vmm_setup_user_stack(a.m, a.page), a.page)
  IN WithStack(vmm_create_address_space(ram))

process_create(p) ==
  LET new == NewProcess
  IN /\ proc[p].pt = NoPage
     /\ ram' = new.m
     /\ proc' = [proc EXCEPT ![p].pt = new.page]
     /\ halted' = (new.page = NoPage)

sys_fork(p, c) ==
  LET f == vmm_clone_address_space(ram, proc[p].pt)
  IN /\ proc[c].pt = NoPage
     /\ ram' = f.m
     /\ proc' = IF f.page = NoPage THEN proc
                ELSE [proc EXCEPT ![c] = [proc[p] EXCEPT !.pt = f.page]]
     /\ UNCHANGED halted

(* sys_execve of a built-in program: the heap fields are left alone. *)
sys_execve(p) ==
  /\ ram' = vmm_clear_user_space(ram, proc[p].pt)
  /\ proc' = [proc EXCEPT ![p].execed = TRUE]
  /\ UNCHANGED halted

(* The address space in free_process_struct and process_destroy. *)
free_process_struct(p) ==
  /\ ram' = vmm_destroy_address_space(ram, proc[p].pt)
  /\ proc' = [proc EXCEPT ![p] = NoSpace]
  /\ UNCHANGED halted

(* A program stores to memory it has mapped. *)
UserStore(p, addr, w) ==
  LET paddr == vmm_get_physical(ram, proc[p].pt, addr)
  IN /\ paddr # 0
     /\ ram' = Store(ram, paddr, w)
     /\ UNCHANGED <<proc, halted>>

Init ==
  /\ ram = [used |-> InitialBitmap, mem |-> [f \in AllPages |-> [i \in Index |-> 0]]]
  /\ proc = [p \in Procs |-> NoSpace]
  /\ who \in Procs
  /\ halted = FALSE

Step(p) ==
  /\ ~ halted
  /\ who' = p
  /\ \/ process_create(p)
     \/ /\ proc[p].pt # NoPage
        /\ \/ \E c \in Procs \ {p} : sys_fork(p, c)
           \/ sys_execve(p)
           \/ free_process_struct(p)
           \/ \E inc \in Increments : sys_sbrk(p, inc)
           \/ \E addr \in Stores, w \in Data : UserStore(p, addr, w)

Next == \E p \in Procs : Step(p)

Spec == Init /\ [][Next]_vars

-----------------------------------------------------------------------------
Live == {p \in Procs : proc[p].pt # NoPage}

Mapped(p, addr) == vmm_get_physical(ram, proc[p].pt, addr) # 0

WordAt(p, addr) ==
  IF Mapped(p, addr) THEN Load(ram, vmm_get_physical(ram, proc[p].pt, addr)) ELSE -1

(* What a process sees: the words at its mapped pages. *)
View(p) ==
  [page \in {g \in 0 .. PageOf(KernelBase) - 1 : Mapped(p, g * Entries)} |->
     ram.mem[PageOf(vmm_get_physical(ram, proc[p].pt, page * Entries))]]

(* The frames of a space, once for every way they are reached. *)
Children(frames) ==
  {ram.mem[f][i] : f \in frames, i \in Index} \cap Managed

Tables(p) ==
  LET pdpts == Children({proc[p].pt})
      pds == Children(pdpts)
  IN {proc[p].pt} \cup pdpts \cup pds \cup Children(pds)

DataFrames(p) == Children(Children(Children(Children({proc[p].pt}))))

(* Memory belongs to one process.  No frame is part of two address spaces, *)
(* none is a table and a data page at once, and whatever is mapped is      *)
(* still marked used in the bitmap, so that no later allocation takes it:  *)
(* after any mixture of fork, failed fork, execve, sbrk, exit and reuse.   *)
Isolated ==
  /\ \A p \in Live : /\ Tables(p) \cap DataFrames(p) = {}
                     /\ Tables(p) \cup DataFrames(p) \subseteq ram.used
  /\ \A p, q \in Live :
       p # q => (Tables(p) \cup DataFrames(p)) \cap (Tables(q) \cup DataFrames(q)) = {}

(* What a process sees changes only by its own steps: no other process's   *)
(* call, and no call that fails, alters a word of its memory or unmaps it. *)
OthersUnaffected ==
  [][\A q \in Live : q # who' /\ proc'[q].pt # NoPage => View(q)' = View(q)]_vars

(* fork gives the child a copy of everything the parent sees, made of the  *)
(* parent's words at that moment.                                          *)
ForkCopies ==
  [][\A c \in Procs \ Live :
       proc'[c].pt # NoPage /\ c # who' => View(c)' = View(who')]_vars

(* Until it calls execve a process has its stack, and a frame behind every *)
(* word below its break, however often the break went down and up, and     *)
(* also when a growth ran out of memory half-way.                          *)
Backed ==
  \A p \in Live : ~ proc[p].execed =>
    \A addr \in UserHeapStart .. proc[p].heap - 1 \cup
                UserStackTop - StackPages * Entries .. UserStackTop - 1 :
      Mapped(p, addr)

(* sbrk never disturbs live heap: a word below both the old and the new    *)
(* break keeps its value, and the break stays in [heap_start, heap_max].   *)
SbrkKeepsHeap ==
  [][\A p \in Live :
       proc'[p].heap # proc[p].heap /\ proc'[p].pt = proc[p].pt =>
         /\ proc'[p].heap \in UserHeapStart .. HeapLimit
         /\ \A addr \in UserHeapStart .. proc[p].heap - 1 :
              addr < proc'[p].heap => WordAt(p, addr)' = WordAt(p, addr)]_vars

-----------------------------------------------------------------------------
(* What follows is said by comments of the code and refuted by TLC for the *)
(* code as it is (README, section 4).                                      *)

(* "Cleanup on failure": a fork that fails for want of memory gives back   *)
(* every frame it took.                                                    *)
FailedForkFreesAll ==
  [][\A p \in Live, c \in Procs \ Live :
       sys_fork(p, c) /\ proc' = proc => ram'.used = ram.used]_vars

(* "Growing heap - allocate new pages as needed": the words a successful   *)
(* sbrk adds to the heap are mapped when it returns.                       *)
GrownHeapMapped ==
  [][\A p \in Live :
       \A addr \in proc[p].heap .. proc'[p].heap - 1 :
         Mapped(p, addr)']_vars
=============================================================================
