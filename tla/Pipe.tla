-------------------------------- MODULE Pipe --------------------------------
(***************************************************************************)
(* The circular buffer of pipe.c, as operators on a pipe_t.  The loops of  *)
(* pipe_read and pipe_write move one byte at a time; system calls run with *)
(* interrupts disabled, so a loop that finds the pipe empty, or full,      *)
(* spins for ever: "stuck".                                                *)
(***************************************************************************)
EXTENDS Integers, Sequences, FiniteSetsExt

CONSTANTS PipeSize,  \* PIPE_SIZE
          Byte       \* the values of a byte

PipeType == [buffer : [0 .. PipeSize - 1 -> Byte], read_pos : 0 .. PipeSize - 1,
             write_pos : 0 .. PipeSize - 1, count : 0 .. PipeSize,
             reader_closed : BOOLEAN, writer_closed : BOOLEAN]

(* The buffer is not cleared: kmalloc leaves what was in memory, here the *)
(* same byte everywhere.                                                   *)
pipe_create(garbage) ==
  [buffer |-> [i \in 0 .. PipeSize - 1 |-> garbage], read_pos |-> 0, write_pos |-> 0, count |-> 0,
   reader_closed |-> FALSE, writer_closed |-> FALSE]

pipe_destroy(p) == [p EXCEPT !.reader_closed = TRUE, !.writer_closed = TRUE]

(* The position i bytes after pos, wrapping around. *)
At(pos, i) == (pos + i) % PipeSize

(* The bytes in the pipe, oldest first. *)
Contents(p) == [i \in 1 .. p.count |-> p.buffer[At(p.read_pos, i - 1)]]

(* pipe_read of n bytes: -1 when the reader is closed; at the end of the   *)
(* data it returns if the writer is closed.                                *)
pipe_read(p, n) ==
  LET k == IF p.reader_closed THEN 0 ELSE Min({n, p.count})
  IN  [pipe  |-> [p EXCEPT !.read_pos = At(@, k), !.count = @ - k],
       bytes |-> SubSeq(Contents(p), 1, k),
       stuck |-> ~ p.reader_closed /\ k < n /\ ~ p.writer_closed]

(* The bytes pipe_write can still place. *)
Room(p) == PipeSize - p.count

(* pipe_write of the bytes s: -1 when either end is closed. *)
pipe_write(p, s) ==
  LET k == IF p.writer_closed \/ p.reader_closed THEN 0
           ELSE Min({Len(s), Room(p)})
  IN  [pipe  |-> [p EXCEPT !.buffer = [j \in DOMAIN @ |->
                              IF \E i \in 1 .. k : At(p.write_pos, i - 1) = j
                              THEN s[CHOOSE i \in 1 .. k : At(p.write_pos, i - 1) = j]
                              ELSE @[j]],
                           !.write_pos = At(@, k), !.count = @ + k],
       stuck |-> ~ p.writer_closed /\ ~ p.reader_closed /\ k < Len(s)]
=============================================================================
