-------------------------------- MODULE Elf --------------------------------
(***************************************************************************)
(* The ELF loader, elf.c, over the memory of Vmm.  An image is whether its *)
(* header is valid and a sequence of PT_LOAD segments; the word at offset  *)
(* i of a segment's file content is FileWord(i).                           *)
(***************************************************************************)
EXTENDS Vmm

CONSTANT Images  \* the images elf_create_process is called with

(* Segments lie in user space, and file content begins at a page, where    *)
(* link.ld puts it.  So does a BSS: elf.c:122 and :148 add the offset      *)
(* within the page to an address that has it already.                      *)
Segments == [vaddr : Nat, filesz : Nat, memsz : Nat]

ASSUME ImagesAssumption ==
  \A image \in Images :
    /\ image.valid \in BOOLEAN /\ image.segments \in Seq(Segments)
    /\ \A s \in 1 .. Len(image.segments) :
         LET seg == image.segments[s]
         IN /\ seg.filesz <= seg.memsz /\ seg.vaddr + seg.memsz <= KernelBase
            /\ seg.filesz > 0 => OffsetIn(seg.vaddr) = 0
            /\ seg.memsz > seg.filesz => OffsetIn(seg.vaddr + seg.filesz) = 0

FileWord(i) == 200 + i
FileContent(seg) == [i \in 1 .. seg.filesz |-> FileWord(i - 1)]
Zeros(seg) == [i \in 1 .. seg.memsz - seg.filesz |-> 0]

(* Map the pages of a segment.  Here and below acc is the memory and       *)
(* whether all went well so far; the first failure ends the load.          *)
MapSegment(acc, pt, seg) ==
  MapPages(acc, pt, PageOf(seg.vaddr) * Entries,
           RoundUp(seg.vaddr + seg.memsz) - PageOf(seg.vaddr))

(* The copy and the BSS loops: page by page, the physical address looked   *)
(* up once a page, and written at paddr + page_off.                        *)
MutStartsPage_Once(addr, i) == i = 0

StartsPage(addr, i) == i = 0 \/ OffsetIn(addr + i) = 0

Written(c, to, w) == [m |-> Store(c.m, to, w), ok |-> TRUE, to |-> to]

(* Word i of what is copied to addr; c.to is where the last one went. *)
CopyWord(c, pt, addr, i, w) ==
  LET paddr == vmm_get_physical(c.m, pt, addr + i)
  IN CASE ~ c.ok -> c
       [] c.ok /\ StartsPage(addr, i) ->
            IF paddr = 0 THEN [m |-> c.m, ok |-> FALSE, to |-> c.to]
            ELSE Written(c, paddr + OffsetIn(addr + i), w)
       [] OTHER -> Written(c, c.to + 1, w)

CopyOut(acc, pt, addr, words) ==
  LET copy[n \in 0 .. Len(words)] ==
        IF n = 0 THEN [m |-> acc.m, ok |-> acc.ok, to |-> 0]
        ELSE CopyWord(copy[n - 1], pt, addr, n - 1, words[n])
  IN copy[Len(words)]

LoadSegment(acc, pt, seg) ==
  LET copied == CopyOut(MapSegment(acc, pt, seg), pt, seg.vaddr, FileContent(seg))
  IN CopyOut(copied, pt, seg.vaddr + seg.filesz, Zeros(seg))

MutElfLoad_CallersSpace(m, pt, image) ==
  LET caller == IF proc[who].pt = NoPage THEN pt ELSE proc[who].pt
      loaded[n \in 0 .. Len(image.segments)] ==
        IF n = 0 THEN [m |-> m, ok |-> image.valid]
        ELSE LoadSegment(loaded[n - 1], caller, image.segments[n])
  IN loaded[Len(image.segments)]

elf_load(m, pt, image) ==
  LET loaded[n \in 0 .. Len(image.segments)] ==
        IF n = 0 THEN [m |-> m, ok |-> image.valid]
        ELSE LoadSegment(loaded[n - 1], pt, image.segments[n])
  IN loaded[Len(image.segments)]

(* elf_create_process: a process, then its image; on failure               *)
(* process_destroy, which frees the PML4 and nothing below it.             *)
NewImage(image) ==
  LET KeptIf(load, page) ==
        IF load.ok THEN [m |-> load.m, page |-> page]
        ELSE [m |-> vmm_destroy_address_space(load.m, page), page |-> NoPage]
      Loaded(new) ==
        IF new.page = NoPage THEN new
        ELSE KeptIf(elf_load(new.m, new.page, image), new.page)
  IN Loaded(NewProcess)

elf_create_process(p, image) ==
  LET new == NewImage(image)
  IN /\ proc[p].pt = NoPage
     /\ ram' = new.m
     /\ proc' = IF new.page = NoPage THEN proc
                ELSE [proc EXCEPT ![p] = [@ EXCEPT !.pt = new.page, !.image = image.segments]]
     /\ halted' = (NewProcess.page = NoPage)

ElfStep(p) ==
  /\ ~ halted
  /\ who' = p
  /\ \E image \in Images : elf_create_process(p, image)

ElfNext == Next \/ \E p \in Procs : ElfStep(p)

ElfSpec == Init /\ [][ElfNext]_vars

-----------------------------------------------------------------------------
(* Every word of a segment's file content is at its address, and zeros     *)
(* from there to the end of the segment.                                   *)
SeesImage(p) ==
  \A s \in DOMAIN proc[p].image :
    LET seg == proc[p].image[s]
    IN \A i \in 0 .. seg.memsz - 1 :
         WordAt(p, seg.vaddr + i) = IF i < seg.filesz THEN FileWord(i) ELSE 0

(* A process that elf_create_process returns sees its image, the BSS       *)
(* zeroed ("Zero BSS section (memsz > filesz)").  Images whose BSS begins  *)
(* inside a page are not in the run: elf.c:148 adds the offset within the  *)
(* page twice, and the zeros land elsewhere.                               *)
ImageLoaded ==
  [][\A p \in Procs \ Live :
       proc'[p].pt # NoPage /\ p = who' => SeesImage(p)']_vars
=============================================================================
