------------------------------ MODULE FileSpec ------------------------------
(***************************************************************************)
(* What the files and pipes of the kernel promise to their users, without  *)
(* blocks, bitmaps, chains, ring buffers and descriptors: a file is a      *)
(* string of bytes that writes overwrite or extend, a pipe a string that   *)
(* writes extend and reads consume.                                        *)
(***************************************************************************)
EXTENDS Integers, Sequences, FiniteSetsExt

CONSTANTS Files, Pipes, Byte

VARIABLES file,   \* the bytes of each file
          pipe,   \* the bytes in each pipe
          io      \* the last read or write: the operation, the file or
                  \* pipe, the offset in a file, the bytes it moved

(* f after the bytes s were written at off. *)
Written(f, off, s) ==
  [i \in 1 .. Max({Len(f), off + Len(s)}) |->
     IF i \in off + 1 .. off + Len(s) THEN s[i - off] ELSE f[i]]

Init ==
  /\ file \in [Files -> Seq(Byte)]
  /\ pipe = [i \in Pipes |-> <<>>]
  /\ io = [op |-> "none", on |-> 0, at |-> 0, bytes |-> <<>>]

(* A write inside the file or at its end. *)
Write(f) ==
  /\ io'.op = "write" /\ io'.on = f
  /\ io'.at <= Len(file[f])
  /\ file' = [file EXCEPT ![f] = Written(@, io'.at, io'.bytes)]
  /\ UNCHANGED pipe

(* A read returns the bytes as they stand in the file. *)
Read(f) ==
  /\ io'.op = "read" /\ io'.on = f
  /\ io'.at + Len(io'.bytes) <= Len(file[f])
  /\ \A i \in DOMAIN io'.bytes : io'.bytes[i] = file[f][io'.at + i]
  /\ UNCHANGED <<file, pipe>>

(* The writer's bytes go to the end of the pipe, the reader's come from    *)
(* its front.                                                              *)
Put(p) ==
  /\ io'.op = "put" /\ io'.on = p
  /\ pipe' = [pipe EXCEPT ![p] = @ \o io'.bytes]
  /\ UNCHANGED file

Get(p) ==
  /\ io'.op = "get" /\ io'.on = p
  /\ pipe[p] = io'.bytes \o pipe'[p]
  /\ pipe' = [pipe EXCEPT ![p] = pipe'[p]]
  /\ UNCHANGED file

Next == \/ \E f \in Files : Write(f) \/ Read(f)
        \/ \E p \in Pipes : Put(p) \/ Get(p)

Spec == Init /\ [][Next]_<<file, pipe, io>>
=============================================================================
