------------------------------- MODULE Files -------------------------------
(***************************************************************************)
(* The file system calls of syscall.c over the RAM file system and the     *)
(* pipes: one descriptor table per process, copied by fork.  A system call *)
(* is one step (interrupts are disabled in it); one that spins in the pipe *)
(* code never ends and nothing else runs: stuck.                           *)
(*                                                                         *)
(* Descriptors 0, 1 and 2 have entries in the table, which dup2 and close  *)
(* write, but read(0), write(1) and write(2) go to keyboard and terminal   *)
(* without looking at them.                                                *)
(***************************************************************************)
EXTENDS Ramfs

CONSTANTS Procs,      \* processes; the first is there from the start
          First,
          MaxFds,     \* MAX_FDS
          MaxPipes,   \* bound: the pipes created in a behaviour
          PipeSize,
          Writes,     \* the byte strings processes write
          Counts,     \* the sizes processes read
          DupTo,      \* bound: the targets of dup2
          MaxInode    \* bound: a failed mkdir uses up an inode number

P == INSTANCE Pipe

ASSUME FilesAssumption ==
  /\ First \in Procs
  /\ PipeSize \in Nat \ {0} /\ MaxPipes \in Nat
  /\ MaxFds \in Nat /\ MaxFds > 3
  /\ \A s \in Writes : s \in Seq(Byte) /\ s # <<>>
  /\ Counts \subseteq Nat \ {0}
  /\ DupTo \subseteq 0 .. MaxFds - 1

Fds == 0 .. MaxFds - 1
Pipes == 1 .. MaxPipes
NoPipe == 0

VARIABLES fs,      \* the RAM file system
          pipe,    \* the pipes created so far
          fds,     \* the descriptor table of each process that was created
          io,      \* history: the last read or write, where, and its bytes
          stuck    \* the pipe a system call spins on, or NoPipe

vars == <<fs, pipe, fds, io, stuck>>

FdEntry == [node : Nodes \cup {NoNode}, pipe : Pipes \cup {NoPipe},
            offset : Nat, flags : {0, 1}, is_pipe : BOOLEAN]

Closed == [node |-> NoNode, pipe |-> NoPipe, offset |-> 0, flags |-> 0,
           is_pipe |-> FALSE]

Io(op, on, at, bytes) == [op |-> op, on |-> on, at |-> at, bytes |-> bytes]

TypeOK ==
  /\ pipe \in Seq(P!PipeType) /\ Len(pipe) <= MaxPipes
  /\ DOMAIN fds \subseteq Procs
  /\ \A p \in DOMAIN fds : fds[p] \in [Fds -> FdEntry]
  /\ \A n \in Nodes : Range(fs.node[n].chain) \subseteq Blocks
  /\ fs.data \in [Blocks -> [0 .. BlockSize - 1 -> Byte]]
  /\ stuck \in Pipes \cup {NoPipe}

(* init_process_fd_table. *)
FreshTable == [fd \in Fds |-> Closed]

Init ==
  /\ fs = fs_init
  /\ pipe = <<>>
  /\ fds = [p \in {First} |-> FreshTable]
  /\ io = Io("none", 0, 0, <<>>)
  /\ stuck = NoPipe

Runs(p) == p \in DOMAIN fds /\ stuck = NoPipe

(* The descriptors from 3 on that are free in table t. *)
IsFree(e) == e.node = NoNode /\ e.pipe = NoPipe

FreeFds(t) == {fd \in 3 .. MaxFds - 1 : IsFree(t[fd])}

-----------------------------------------------------------------------------
(* sys_open: the file is created if it is not there. *)
sys_open(p, name) ==
  LET free  == FreeFds(fds[p])
      found == ramfs_finddir(fs, name)
      made  == ramfs_create_file(fs, name)
      node  == IF found # NoNode THEN found ELSE made.node
  IN  /\ Runs(p)
      /\ free # {}
      /\ node # NoNode
      /\ fs' = IF found # NoNode THEN fs ELSE made.fs
      /\ fds' = [fds EXCEPT ![p][Min(free)] =
                   [@ EXCEPT !.node = node, !.offset = 0, !.flags = 0,
                             !.is_pipe = FALSE]]
      /\ UNCHANGED <<pipe, io, stuck>>

MutClose_KeepsPipe(e) == [Closed EXCEPT !.pipe = e.pipe]

ClosedEntry(e) == Closed

sys_close(p, fd) ==
  /\ Runs(p)
  /\ fds' = [fds EXCEPT ![p][fd] = ClosedEntry(@)]
  /\ UNCHANGED <<fs, pipe, io, stuck>>

sys_mkdir(p, name) ==
  /\ Runs(p)
  /\ fs.next_inode <= MaxInode
  /\ fs' = ramfs_create_dir(fs, name)
  /\ UNCHANGED <<pipe, fds, io, stuck>>

-----------------------------------------------------------------------------
(* sys_read and sys_write look at is_pipe first, then at the node. *)
OpenPipe(e) == e.is_pipe /\ e.pipe # NoPipe
OpenNode(e) == ~ OpenPipe(e) /\ e.node # NoNode

sys_read_file(p, fd, k) ==
  LET e == fds[p][fd]
      s == ramfs_read(fs, e.node, e.offset, k)
  IN  /\ Runs(p)
      /\ OpenNode(e)
      /\ fds' = [fds EXCEPT ![p][fd].offset = @ + Len(s)]
      /\ io' = Io("read", e.node, e.offset, s)
      /\ UNCHANGED <<fs, pipe, stuck>>

sys_write_file(p, fd, s) ==
  LET e == fds[p][fd]
      r == ramfs_write(fs, e.node, e.offset, s)
      w == Max({0, r.written})
  IN  /\ Runs(p)
      /\ OpenNode(e)
      /\ fs' = r.fs
      /\ fds' = [fds EXCEPT ![p][fd].offset = @ + w]
      /\ io' = Io("write", e.node, e.offset, SubSeq(s, 1, w))
      /\ UNCHANGED <<pipe, stuck>>

sys_read_pipe(p, fd, k) ==
  LET e == fds[p][fd]
      r == P!pipe_read(pipe[e.pipe], k)
  IN  /\ Runs(p)
      /\ OpenPipe(e)
      /\ pipe' = [pipe EXCEPT ![e.pipe] = r.pipe]
      /\ io' = Io("get", e.pipe, 0, r.bytes)
      /\ stuck' = IF r.stuck THEN e.pipe ELSE NoPipe
      /\ UNCHANGED <<fs, fds>>

sys_write_pipe(p, fd, s) ==
  LET e == fds[p][fd]
      r == P!pipe_write(pipe[e.pipe], s)
  IN  /\ Runs(p)
      /\ OpenPipe(e)
      /\ pipe' = [pipe EXCEPT ![e.pipe] = r.pipe]
      /\ io' = Io("put", e.pipe, 0, SubSeq(s, 1, r.pipe.count - pipe[e.pipe].count))
      /\ stuck' = IF r.stuck THEN e.pipe ELSE NoPipe
      /\ UNCHANGED <<fs, fds>>

(* sys_pipe: the pipe is created first; without two free descriptors it is *)
(* destroyed, which frees nothing.                                         *)
sys_pipe(p) ==
  LET free  == FreeFds(fds[p])
      first == Min(free)
      later == free \ {first}
      id    == Len(pipe) + 1
      end(e, f) == [e EXCEPT !.pipe = id, !.is_pipe = TRUE, !.flags = f]
  IN  /\ Runs(p)
      /\ id \in Pipes
      /\ \E garbage \in Byte :
           LET new == P!pipe_create(garbage)
           IN  IF free = {} \/ later = {}
               THEN pipe' = Append(pipe, P!pipe_destroy(new)) /\ UNCHANGED fds
               ELSE /\ pipe' = Append(pipe, new)
                    /\ fds' = [fds EXCEPT ![p][first] = end(@, 0),
                                          ![p][Min(later)] = end(@, 1)]
      /\ UNCHANGED <<fs, io, stuck>>

sys_dup2(p, old, new) ==
  /\ Runs(p)
  /\ old # new
  /\ ~ IsFree(fds[p][old])
  /\ fds' = [fds EXCEPT ![p][new] = fds[p][old]]
  /\ UNCHANGED <<fs, pipe, io, stuck>>

(* What sys_fork does to descriptors: the child gets a copy of the table. *)
sys_fork(p, child) ==
  /\ Runs(p)
  /\ child \notin DOMAIN fds
  /\ fds' = [q \in DOMAIN fds \cup {child} |->
               IF q = child THEN fds[p] ELSE fds[q]]
  /\ UNCHANGED <<fs, pipe, io, stuck>>

Next ==
  \E p \in Procs :
    \/ \E name \in Names : sys_open(p, name) \/ sys_mkdir(p, name)
    \/ sys_pipe(p)
    \/ \E child \in Procs : sys_fork(p, child)
    \/ \E fd \in Fds :
         \/ sys_close(p, fd)
         \/ \E new \in DupTo : sys_dup2(p, fd, new)
         \/ fd # 0 /\ \E k \in Counts : sys_read_file(p, fd, k) \/ sys_read_pipe(p, fd, k)
         \/ fd \notin {1, 2} /\ \E s \in Writes : sys_write_file(p, fd, s)
                                               \/ sys_write_pipe(p, fd, s)

Spec == Init /\ [][Next]_vars

-----------------------------------------------------------------------------
(* The kernel's files and pipes are strings of bytes to their users,       *)
(* through block chains, the ring buffer, descriptors that were opened     *)
(* twice, duplicated or inherited, and a disk that fills up in the middle  *)
(* of a write.                                                             *)
Abstract ==
  INSTANCE FileSpec WITH
    Files <- Nodes,
    file <- [n \in Nodes |-> ramfs_read(fs, n, 0, fs.node[n].size)],
    pipe <- [i \in Pipes |-> IF i <= Len(pipe) THEN P!Contents(pipe[i]) ELSE <<>>]

ImplementsFileSpec == Abstract!Spec

(* Every block in use belongs to one file or directory, at one place; none *)
(* is lost when a write runs out of blocks; a file has the blocks its size *)
(* asks for.                                                               *)
BlocksOwned ==
  /\ \A m, n \in Nodes : m # n =>
       Range(fs.node[m].chain) \cap Range(fs.node[n].chain) = {}
  /\ \A n \in Nodes : IsInjective(fs.node[n].chain)
  /\ fs.used = UNION {Range(fs.node[n].chain) : n \in Nodes}
  /\ \A n \in Nodes : fs.node[n].type = "FILE" =>
       Len(fs.node[n].chain) = (fs.node[n].size + BlockSize - 1) \div BlockSize

(* Descriptors stay well formed through open, pipe, dup2, close and fork:  *)
(* never a file and a pipe at once; is_pipe tells which; one that sys_open *)
(* or sys_pipe may hand out again has forgotten its former use, which      *)
(* sys_pipe, not resetting the offset, relies on.                          *)
DescriptorsClean ==
  \A p \in DOMAIN fds, fd \in Fds :
    LET e == fds[p][fd]
    IN  /\ e.is_pipe <=> e.pipe # NoPipe
        /\ e.is_pipe => e.node = NoNode /\ e.offset = 0
        /\ IsFree(e) => e = Closed

(* No descriptor stands behind the end of its file, so ramfs_write never   *)
(* leaves a hole whose bytes nobody wrote.                                 *)
OffsetsInFile ==
  \A p \in DOMAIN fds, fd \in Fds :
    fds[p][fd].node # NoNode => fds[p][fd].offset <= fs.node[fds[p][fd].node].size

-----------------------------------------------------------------------------
(* What follows is said by comments of the code and refuted by TLC for the *)
(* code as it is (README, section 4).                                      *)

(* "Create file if it doesn't exist": a file a process has open is found   *)
(* under a name, so that another open can reach what is written to it.     *)
OpenFilesAreNamed ==
  \A p \in DOMAIN fds, fd \in Fds :
    fds[p][fd].node # NoNode =>
      \E i \in 1 .. MaxEntries : fs.entries[i].inode = fs.node[fds[p][fd].node].inode

(* "If writer closed and pipe empty, EOF": a reader waits for data only    *)
(* while somebody holds the write end.                                     *)
WriteEndOpen(i) ==
  \E p \in DOMAIN fds, fd \in Fds : fds[p][fd].pipe = i /\ fds[p][fd].flags = 1
ReaderSeesEof == stuck # NoPipe /\ pipe[stuck].count = 0 => WriteEndOpen(stuck)
=============================================================================
