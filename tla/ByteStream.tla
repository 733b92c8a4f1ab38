------------------------------ MODULE ByteStream ------------------------------
(***************************************************************************)
(* What the robust I/O package promises: the bytes handed over are those   *)
(* of the stream, from its beginning, in order, each one once.             *)
(***************************************************************************)
EXTENDS Naturals, Sequences

VARIABLES stream,  \* all the bytes there are
          got      \* the bytes handed over so far

Init == got = <<>>

\* The next k bytes are handed over.
Deliver(k) == /\ got' = [i \in 1 .. Len(got) + k |-> stream[i]]
              /\ UNCHANGED stream

Next == \E k \in 1 .. Len(stream) - Len(got) : Deliver(k)

Spec == Init /\ [][Next]_<<stream, got>>
=============================================================================
