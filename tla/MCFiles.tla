------------------------------ MODULE MCFiles ------------------------------
(* Files for TLC: blocks of two bytes and a disk of a few blocks, so that  *)
(* writes cross blocks and run out of them; a pipe of three bytes.  Files  *)
(* and pipes meet in the descriptor table only, so a behaviour has one of  *)
(* two workloads: one process uses files, or two processes share pipes.    *)
EXTENDS Files

VARIABLE workload

WriteValues == {<<1>>, <<0, 1, 1>>}

MCInit == Init /\ workload \in {"files", "pipes"}

MCNext ==
  /\ Next
  /\ workload = "files" => pipe' = <<>> /\ DOMAIN fds' = {First}
  /\ workload = "pipes" => fs' = fs /\ \A p \in DOMAIN fds', fd \in Fds : fds'[p][fd].node = NoNode
  /\ UNCHANGED workload

MCSpec == MCInit /\ [][MCNext]_<<vars, workload>>
=============================================================================
