------------------------------- MODULE MCElf -------------------------------
(* Vmm and Elf for TLC.  With two words to a page a space has 16 pages of  *)
(* two words: programs from word 8 on, the heap from word 12 on, the stack *)
(* in the last user page.  Small is shaped like hello_elf of userspace/,   *)
(* one page partly filled; Large fills two pages; Two has a second segment *)
(* with a page of BSS; Broken fails elf_validate.                          *)
EXTENDS Elf, TLC

CONSTANTS p1, p2

TwoProcs == {p1, p2}
Symmetric == Permutations(TwoProcs)

Segment(vaddr, filesz, memsz) == [vaddr |-> vaddr, filesz |-> filesz, memsz |-> memsz]

Small == [valid |-> TRUE, segments |-> <<Segment(8, 1, 1)>>]
Large == [valid |-> TRUE, segments |-> <<Segment(8, 4, 4)>>]
Two == [valid |-> TRUE, segments |-> <<Segment(8, 1, 1), Segment(10, 0, 2)>>]
Broken == [valid |-> FALSE, segments |-> <<>>]

AlignedImages == {Small, Large, Two, Broken}

AllIncrements == 0 .. 31
=============================================================================
