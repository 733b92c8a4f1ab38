------------------------------ MODULE MCDriver ------------------------------
(***************************************************************************)
(* Driver with two blocks at a time in a heap of six bytes.                *)
(***************************************************************************)
EXTENDS Driver

MCLow == [i \in 0 .. 2 |-> i]

Trace(ids, ops) == [num_ids |-> ids, num_ops |-> Len(ops), ops |-> ops]

\* A block is freed and reallocated beside another one.
Reuse  == Trace(2, <<Op("ALLOC", 0, 2), Op("ALLOC", 1, 1), Op("FREE", 0, 0), Op("REALLOC", 1, 3)>>)
\* A block grows under another one.
Grow   == Trace(2, <<Op("ALLOC", 0, 1), Op("ALLOC", 1, 4), Op("REALLOC", 0, 2), Op("FREE", 1, 0)>>)
\* A block is freed that met, or lay under, another one.
Two    == Trace(2, <<Op("ALLOC", 0, 2), Op("ALLOC", 1, 4), Op("FREE", 0, 0)>>)
Under  == [Two EXCEPT !.ops[1].size = 1]
One    == Trace(1, <<Op("ALLOC", 0, 1), Op("FREE", 0, 0)>>)
\* The generators may write a request for no byte, and a header may be wrong.
Zero   == Trace(1, <<Op("ALLOC", 0, 0)>>)
\* A block whose bytes are negative chars.
High   == Trace(3, <<Op("ALLOC", 2, 1), Op("REALLOC", 2, 1)>>)
Short  == [One EXCEPT !.num_ids = 2]

MCFiles == {<<Reuse>>, <<Grow>>, <<Two>>, <<Under>>, <<One, One>>, <<Zero>>, <<High>>, <<One, Short>>, <<One>>}

ASSUME MCFilesConsistent == FilesConsistent

\* fcyc, whose samples are many, with one simple trace.
MCInit == Init /\ (package = "gettod" \/ (files = <<One>> /\ ~ run_libc))
MCSpec == MCInit /\ [][Next]_vars /\ Fairness
=============================================================================
