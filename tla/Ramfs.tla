------------------------------- MODULE Ramfs -------------------------------
(***************************************************************************)
(* The RAM file system of fs.c, as operators on its state fs:              *)
(*   node        the inode table: inode number (0: free), type, size, and  *)
(*               the chain of blocks from first_block on, as a sequence    *)
(*   used        the block bitmap                                          *)
(*   data        the bytes of each block                                   *)
(*   entries     the directory entries in the root's block                 *)
(*   next_inode                                                            *)
(* Only the root has entries: sys_open and sys_mkdir pass no other parent. *)
(***************************************************************************)
EXTENDS Integers, Sequences, FiniteSetsExt, Functions

CONSTANTS MaxFiles,    \* FS_MAX_FILES
          MaxBlocks,   \* FS_MAX_BLOCKS
          BlockSize,   \* FS_BLOCK_SIZE
          MaxEntries,  \* directory entries in a block
          Names,       \* file names
          Byte         \* the values of a byte, 0 and 1 included

ASSUME FsAssumption ==
  /\ MaxFiles \in Nat /\ MaxFiles >= 3 /\ MaxBlocks \in Nat \ {0}
  /\ BlockSize \in Nat \ {0} /\ MaxEntries \in Nat /\ MaxEntries >= 2
  /\ {0, 1} \subseteq Byte

Nodes == 0 .. MaxFiles - 1
Blocks == 0 .. MaxBlocks - 1
Root == 0
NoNode == -1

Node(ino, t, sz, ch) == [inode |-> ino, type |-> t, size |-> sz, chain |-> ch]
NoEntry == [name |-> "", inode |-> 0]

(* The first block that is not in the bitmap; there may be none. *)
Full(used) == Blocks \subseteq used
allocate_block(used) == Min(Blocks \ used)

(* The first free inode, and the first free directory entry (0 for none).  *)
FirstOr(none, S) == IF S = {} THEN none ELSE Min(S)

FreeNode(fs) == FirstOr(NoNode, {n \in Nodes : fs.node[n].inode = 0})
FreeEntry(fs) == FirstOr(0, {i \in 1 .. MaxEntries : fs.entries[i].inode = 0})

-----------------------------------------------------------------------------
(* ramfs_finddir in the root: the node of the first entry with the name.   *)
Named(fs, name) ==
  {i \in 1 .. MaxEntries : /\ fs.entries[i].inode # 0
                           /\ fs.entries[i].name = name
                           /\ \E n \in Nodes : fs.node[n].inode = fs.entries[i].inode}
ramfs_finddir(fs, name) ==
  IF Named(fs, name) = {} THEN NoNode
  ELSE Min({n \in Nodes : fs.node[n].inode = fs.entries[Min(Named(fs, name))].inode})

(* "Add to parent directory": silently nothing when the block is full. *)
AddEntry(fs, name, ino) ==
  LET i == FreeEntry(fs)
  IN  IF i = 0 THEN fs
      ELSE [fs EXCEPT !.entries[i] = [name |-> name, inode |-> ino],
                      !.node[Root].size = @ + 1]

ramfs_create_file(fs, name) ==
  LET n == FreeNode(fs)
  IN  IF n = NoNode THEN [fs |-> fs, node |-> NoNode]
      ELSE [fs |-> AddEntry([fs EXCEPT !.node[n] = Node(fs.next_inode, "FILE", 0, <<>>),
                                       !.next_inode = @ + 1],
                            name, fs.next_inode),
            node |-> n]

(* A directory needs a block; without one the inode is given back, its     *)
(* number is not.                                                          *)
ramfs_create_dir(fs, name) ==
  LET n == FreeNode(fs)
      b == allocate_block(fs.used)
  IN  CASE n = NoNode -> fs
        [] n # NoNode /\ Full(fs.used) ->
             [fs EXCEPT !.node[n] = Node(0, "DIR", 0, <<>>), !.next_inode = @ + 1]
        [] OTHER ->
             AddEntry([fs EXCEPT !.node[n] = Node(fs.next_inode, "DIR", 0, <<b>>),
                                 !.next_inode = @ + 1,
                                 !.used = @ \cup {b},
                                 !.data[b] = [j \in 0 .. BlockSize - 1 |-> 0]],
                      name, fs.next_inode)

-----------------------------------------------------------------------------
(* Where byte i of a file with the given chain is: block and position. *)
BlockOf(chain, i) == chain[i \div BlockSize + 1]
Capacity(chain) == Len(chain) * BlockSize

(* ramfs_read of k bytes at off: at most to the end of the file. *)
MutReadable_Blocks(f, off, k) ==
  IF f.type # "FILE" THEN 0 ELSE Max({0, Min({k, Capacity(f.chain) - off})})

Readable(f, off, k) ==
  IF f.type # "FILE" THEN 0
  ELSE Max({0, Min({k, f.size - off, Capacity(f.chain) - off})})

(* Where byte at of a read that starts at off is in its block. *)
MutPos_NotReset(off, at) ==
  IF at \div BlockSize = off \div BlockSize THEN at % BlockSize
  ELSE (at + off) % BlockSize

PosInBlock(off, at) == at % BlockSize

ramfs_read(fs, n, off, k) ==
  [i \in 1 .. Readable(fs.node[n], off, k) |->
     LET at == off + i - 1
     IN  fs.data[BlockOf(fs.node[n].chain, at)][PosInBlock(off, at)]]

(* The chain ramfs_write works on, and the bitmap: blocks are added one by *)
(* one, as far as there are any, until byte last has a place.              *)
WithBlock(e) ==
  LET b == allocate_block(e.used)
  IN  IF Full(e.used) THEN e ELSE [chain |-> Append(e.chain, b), used |-> e.used \cup {b}]

Extended(fs, chain, last) ==
  LET missing == Max({0, last \div BlockSize + 1 - Len(chain)})
      grown[k \in 0 .. missing] ==
        IF k = 0 THEN [chain |-> chain, used |-> fs.used] ELSE WithBlock(grown[k - 1])
  IN  grown[missing]

(* The size of a file of the given size after a write up to end. *)
MutGrown_Shrinks(size, end) == end

Grown(size, end) == Max({size, end})

(* ramfs_write of the bytes s at off: all of them, those for which there   *)
(* were blocks, or -1 when the first byte has no place; blocks taken stay. *)
ramfs_write(fs, n, off, s) ==
  LET f    == fs.node[n]
      e    == Extended(fs, f.chain, off + Len(s) - 1)
      ch   == e.chain
      m    == Min({Len(s), Capacity(ch) - off})
      here(b, j) == {i \in 1 .. m : BlockOf(ch, off + i - 1) = b
                                   /\ (off + i - 1) % BlockSize = j}
  IN  CASE f.type # "FILE" -> [fs |-> fs, written |-> -1]
        [] f.type = "FILE" /\ m <= 0 ->
             [fs |-> [fs EXCEPT !.node[n].chain = ch, !.used = e.used],
              written |-> -1]
        [] OTHER ->
             [fs |-> [fs EXCEPT !.node[n].chain = ch,
                                !.node[n].size = Grown(@, off + m),
                                !.used = e.used,
                                !.data = [b \in Blocks |-> [j \in 0 .. BlockSize - 1 |->
                                   IF here(b, j) = {} THEN fs.data[b][j]
                                   ELSE s[Max(here(b, j))]]]],
              written |-> m]

-----------------------------------------------------------------------------
(* fs_init: the root directory with block 0, then the two welcome files,   *)
(* one with a block to spare, one that fills a block of two bytes.        *)
EmptyFs ==
  [node |-> [n \in Nodes |-> IF n = Root THEN Node(1, "DIR", 0, <<0>>)
                                          ELSE Node(0, "FILE", 0, <<>>)],
   used |-> {0},
   data |-> [b \in Blocks |-> [j \in 0 .. BlockSize - 1 |-> 0]],
   entries |-> [i \in 1 .. MaxEntries |-> NoEntry],
   next_inode |-> 2]

WithFile(fs, name, s) ==
  LET r == ramfs_create_file(fs, name)
  IN  ramfs_write(r.fs, r.node, 0, s).fs

fs_init ==
  WithFile(WithFile(EmptyFs, "hello.txt", <<1>>), "readme.txt", <<1, 0>>)
=============================================================================
