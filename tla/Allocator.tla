------------------------------ MODULE Allocator ------------------------------
(***************************************************************************)
(* What malloc, free and realloc promise their caller: a block is aligned, *)
(* lies in the heap, overlaps no other block, and keeps what the caller    *)
(* wrote until the caller frees it, also when realloc moves it.  Where     *)
(* blocks go, and when there is no room, is left open.                     *)
(***************************************************************************)
EXTENDS Integers

CONSTANTS Ids,       \* the caller's blocks
          Requests,  \* sizes it may ask for, in bytes
          MaxHeap,   \* size of the heap in bytes
          Null       \* no block

VARIABLES blocks,    \* the address of each block, Null while there is none
          sizes,     \* its size as asked for
          contents   \* the words the caller finds in it

vars == <<blocks, sizes, contents>>

\* The words of a block of n bytes.
WordsOf(n) == 0 .. (n + 3) \div 4 - 1

\* The caller fills each block with its number.
Filled(id, n) == [w \in WordsOf(n) |-> id]

Disjoint(p, n, q, k) == p + n =< q \/ q + k =< p

MayPlace(id, p, n) == /\ p % 8 = 0 /\ p + n =< MaxHeap
                      /\ \A o \in Ids \ {id} : blocks[o] # Null => Disjoint(p, n, blocks[o], sizes[o])

Placed(id, n) == /\ sizes' = [sizes EXCEPT ![id] = n]
                 /\ contents' = [contents EXCEPT ![id] = Filled(id, n)]
                 /\ \E p \in 1 .. MaxHeap : /\ blocks' = [blocks EXCEPT ![id] = p]
                                            /\ MayPlace(id, p, n)

Init == /\ blocks = [id \in Ids |-> Null]
        /\ sizes = [id \in Ids |-> 0]
        /\ contents = [id \in Ids |-> Filled(id, 0)]

\* A call that fails changes nothing: it is a stuttering step.
Malloc(id, n) == n # 0 /\ blocks[id] = Null /\ Placed(id, n)

Free(id) == /\ blocks[id] # Null
            /\ blocks' = [blocks EXCEPT ![id] = Null]
            /\ sizes' = [sizes EXCEPT ![id] = 0]
            /\ contents' = [contents EXCEPT ![id] = Filled(id, 0)]

\* The part of the block that both sizes cover keeps its contents, and the
\* caller fills the rest.
Realloc(id, n) == n # 0 /\ blocks[id] # Null /\ Placed(id, n)

Next == \E id \in Ids : Free(id) \/ \E n \in Requests : Malloc(id, n) \/ Realloc(id, n)

Spec == Init /\ [][Next]_vars
=============================================================================
