---------------------------- MODULE BoundedFIFO ----------------------------
(***************************************************************************)
(* What proxy/lab/sbuf.h promises to the two sides of the proxy: a bounded *)
(* first-in first-out queue of connection descriptors.  An insertion and a *)
(* removal are single steps here; SBuf.tla shows that the semaphore code   *)
(* of sbuf.c implements them.                                              *)
(***************************************************************************)
EXTENDS Naturals, Sequences

CONSTANTS Values,     \* what can be queued
          Takers,     \* who removes from the queue
          Capacity,   \* how many values the queue holds at most
          Nothing     \* what a taker holds when it holds no value

VARIABLES queue,      \* the values inserted and not yet removed, oldest first
          held        \* held[c]: the value taker c removed and still works on

vars == <<queue, held>>

\* The values that are in the queue or in some taker's hands.
Owned == {queue[i] : i \in DOMAIN queue} \cup {held[c] : c \in Takers}

Init == /\ queue = <<>>
        /\ held = [c \in Takers |-> Nothing]

\* A value enters the queue only when there is room for it, and only when
\* nobody has it already.
Put(v) == /\ Len(queue) < Capacity
          /\ v \notin Owned
          /\ queue' = Append(queue, v)
          /\ UNCHANGED held

\* A taker with empty hands removes the oldest value.
Take(c) == /\ queue # <<>>
           /\ held[c] = Nothing
           /\ held' = [held EXCEPT ![c] = Head(queue)]
           /\ queue' = Tail(queue)

\* A taker is done with its value.
Drop(c) == /\ held[c] # Nothing
           /\ held' = [held EXCEPT ![c] = Nothing]
           /\ UNCHANGED queue

Next == \/ \E v \in Values : Put(v)
        \/ \E c \in Takers : Take(c) \/ Drop(c)

Spec == Init /\ [][Next]_vars
=============================================================================
