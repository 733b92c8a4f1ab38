--------------------------------- MODULE MM ---------------------------------
(***************************************************************************)
(* The allocator malloc/lab/mm.c on the simulated heap of memlib.c, used   *)
(* by a caller that does what eval_mm_valid of mdriver.c does: it fills    *)
(* every block it gets.                                                    *)
(*                                                                         *)
(* The heap is a memory of 4-byte words, addressed in bytes relative to    *)
(* mem_start_brk.  A block has a header and a footer word that hold its    *)
(* size and its allocated bit, and between them the caller's payload or,   *)
(* while it is free, the links of a doubly linked list.  There is one list *)
(* for each power of two; its head is an allocated block that mm_init      *)
(* makes.  The C functions are functions from heaps to heaps here, and a   *)
(* call of mm_malloc, mm_free or mm_realloc is one step, since nothing     *)
(* runs concurrently.                                                      *)
(***************************************************************************)
EXTENDS Integers, FiniteSets

CONSTANTS N,         \* number of lists (25 in mm.c)
          MaxHeap,   \* bytes, MAX_HEAP of config.h
          Ids,       \* the caller's blocks, positive numbers
          Requests,  \* sizes it asks for, in bytes
          Stale      \* what the memory may hold before mm_init

VARIABLES mem,    \* the words
          brk,    \* mem_brk
          alive,  \* FALSE once mm.c has read outside heap[]
          blocks, \* trace->blocks, Null for a block that is not allocated
          sizes   \* trace->block_sizes

vars == <<mem, brk, alive, blocks, sizes>>

Null == 0
Words == {4 * i : i \in 0 .. MaxHeap \div 4 - 1}
FirstBlock == 24 + 16 * N   \* mem_brk after mm_init

\* The powers of two, 1 << x, that an int holds.
MAX_SIZE[x \in 0 .. 30] == IF x = 0 THEN 1 ELSE 2 * MAX_SIZE[x - 1]

\* The sizes of lists and heap are ints.
ASSUME HeapAssumption == /\ N \in 1 .. 31 /\ MaxHeap \in FirstBlock .. MAX_SIZE[30] /\ MaxHeap % 8 = 0
                         /\ Ids \subseteq Nat \ {0} /\ Requests \subseteq Nat /\ Stale \subseteq Nat

-----------------------------------------------------------------------------
(* The macros.  bp is the address of a block as the lists hold it, eight    *)
(* bytes past the address that the caller has.                              *)

PACK(size, alloc) == size + alloc
GET_SIZE(m, a) == 8 * (m[a] \div 8)
GET_ALLOC(m, a) == m[a] % 2
HDRP(bp) == bp - 12
PRED(bp) == bp - 8
SUCC(bp) == bp - 4
Size(m, bp) == GET_SIZE(m, HDRP(bp))
FTRP(m, bp) == bp + Size(m, bp) - 16
NEXT_BLKP(m, bp) == bp + Size(m, bp)
PREV_BLKP(m, bp) == bp - GET_SIZE(m, bp - 16)
ALIGN(n) == 8 * ((n + 7) \div 8)

\* PUT of header and footer.
Tag(m, bp, size, alloc) == [m EXCEPT ![HDRP(bp)] = PACK(size, alloc),
                                     ![bp + size - 16] = PACK(size, alloc)]

\* The list that a block of this size belongs to.
U(size) == CHOOSE u \in 0 .. 30 : MAX_SIZE[u] >= size /\ \A v \in 0 .. u - 1 : MAX_SIZE[v] < size

heap(i) == 32 + 16 * i

-----------------------------------------------------------------------------
(* The lists.  A heap h has the memory, mem_brk and the flag that nothing   *)
(* has gone wrong.                                                          *)

MaxFree == (MaxHeap - FirstBlock) \div 16   \* free blocks that find room

\* The nodes of list i from its first; Null after the last.
List(m, i) ==
  LET n[j \in 0 .. MaxFree] ==
        LET previous == IF j = 0 THEN heap(i) ELSE n[j - 1]
        IN  IF previous = Null THEN Null ELSE m[SUCC(previous)]
  IN  n

\* The first of some places <<list, position>> in the order of the search.
FirstAt(m, places) ==
  LET Before(x, y) == x[1] < y[1] \/ (x[1] = y[1] /\ x[2] =< y[2])
      x == CHOOSE x \in places : \A y \in places : Before(x, y)
  IN  IF places = {} THEN Null ELSE List(m, x[1])[x[2]]

Nodes(m) == {x \in (0 .. N - 1) \X (0 .. MaxFree) : List(m, x[1])[x[2]] # Null}

\* Mutant: the search starts at the list above the request's own.
find_fitAbove(m, size) ==
  FirstAt(m, {x \in Nodes(m) : size < MAX_SIZE[x[1]] /\ Size(m, List(m, x[1])[x[2]]) >= size})

\* The first block that is large enough in the first list that has one.
find_fit(m, size) ==
  FirstAt(m, {x \in Nodes(m) : size =< MAX_SIZE[x[1]] /\ Size(m, List(m, x[1])[x[2]]) >= size})

\* Mutant: the predecessor link of the next node is not mended.
heap_removeOneWay(m, bp) == [m EXCEPT ![SUCC(m[PRED(bp)])] = m[SUCC(bp)],
                                      ![PRED(bp)] = Null, ![SUCC(bp)] = Null]

heap_remove(m, bp) ==
  LET pred == m[PRED(bp)]
      succ == m[SUCC(bp)]
      linked == [m EXCEPT ![SUCC(pred)] = succ]
      both == IF succ = Null THEN linked ELSE [linked EXCEPT ![PRED(succ)] = pred]
  IN  [both EXCEPT ![PRED(bp)] = Null, ![SUCC(bp)] = Null]

\* A block larger than the last list's reads past the end of heap[].
heap_add(h, bp) ==
  LET head == heap(U(Size(h.mem, bp)))
      nxt == h.mem[SUCC(head)]
      m == [h.mem EXCEPT ![SUCC(bp)] = nxt]
      both == IF nxt = Null THEN m ELSE [m EXCEPT ![PRED(nxt)] = bp]
  IN  IF U(Size(h.mem, bp)) >= N THEN [h EXCEPT !.alive = FALSE]
      ELSE [h EXCEPT !.mem = [both EXCEPT ![SUCC(head)] = bp, ![PRED(bp)] = head]]

\* Mutant: only the block after bp is looked at.
coalesceNext(h, bp) ==
  LET m == h.mem
      nxt == NEXT_BLKP(m, bp)
      nextFree == GET_ALLOC(m, HDRP(nxt)) = 0
      size == Size(m, bp) + IF nextFree THEN Size(m, nxt) ELSE 0
  IN  heap_add([h EXCEPT !.mem = Tag(IF nextFree THEN heap_remove(m, nxt) ELSE m, bp, size, 0)], bp)

\* Join bp, which is in no list, with its free neighbours and list the result.
coalesce(h, bp) ==
  LET m == h.mem
      pre == PREV_BLKP(m, bp)
      nxt == NEXT_BLKP(m, bp)
      prevFree == GET_ALLOC(m, FTRP(m, pre)) = 0
      nextFree == GET_ALLOC(m, HDRP(nxt)) = 0
      size == Size(m, bp) + (IF prevFree THEN Size(m, pre) ELSE 0)
                          + (IF nextFree THEN Size(m, nxt) ELSE 0)
      m1 == IF prevFree THEN heap_remove(m, pre) ELSE m
      m2 == IF nextFree THEN heap_remove(m1, nxt) ELSE m1
      first == IF prevFree THEN pre ELSE bp
  IN  heap_add([h EXCEPT !.mem = Tag(m2, first, size, 0)], first)

-----------------------------------------------------------------------------
(* memlib.c and the allocation functions.  A result has the heap and the    *)
(* pointer p; Null is NULL.                                                 *)

CanGrow(h, n) == h.brk + n =< MaxHeap          \* mem_sbrk succeeds

\* The block that extend_heap returns: the free one before the end of the
\* heap has been joined with the new words.
extend_heap(h, size) ==
  LET bp == h.brk + 8
      m == Tag(h.mem, bp, size, 0)
      h1 == [h EXCEPT !.mem = [m EXCEPT ![HDRP(bp + size)] = PACK(0, 1)], !.brk = h.brk + size]
      pre == PREV_BLKP(m, bp)
  IN  [h |-> coalesce(h1, bp), p |-> IF GET_ALLOC(m, FTRP(m, pre)) = 0 THEN pre ELSE bp]

\* Mutant: a block is split whatever the rest, even one too small for a block.
placeAlwaysSplits(h, bp, asize) ==
  LET size == Size(h.mem, bp)
      rest == size - asize
      m == Tag(heap_remove(h.mem, bp), bp, asize, 1)
  IN  [h |-> IF rest = 0 THEN [h EXCEPT !.mem = m]
             ELSE coalesce([h EXCEPT !.mem = Tag(m, bp + asize, rest, 0)], bp + asize),
       p |-> bp - 8]

place(h, bp, asize) ==
  LET size == Size(h.mem, bp)
      rest == size - asize
      split == rest >= 16
      m == Tag(heap_remove(h.mem, bp), bp, IF split THEN asize ELSE size, 1)
  IN  [h |-> IF split THEN coalesce([h EXCEPT !.mem = Tag(m, bp + asize, rest, 0)], bp + asize)
             ELSE [h EXCEPT !.mem = m],
       p |-> bp - 8]

\* Mutant: no room for header and footer.
AdjustedSizeBare(n) == IF n =< 8 THEN 16 ELSE 8 * ((n + 7) \div 8)

\* The size of a block with a payload of n bytes.
AdjustedSize(n) == IF n =< 8 THEN 16 ELSE 8 * ((n + 15) \div 8)

mm_malloc(h, n) ==
  LET asize == AdjustedSize(n)
      bp == find_fit(h.mem, asize)
      e == extend_heap(h, asize)
  IN  IF n = 0 THEN [h |-> h, p |-> Null]
      ELSE IF bp # Null THEN place(h, bp, asize)
      ELSE IF ~ CanGrow(h, asize) THEN [h |-> h, p |-> Null]
      ELSE IF ~ e.h.alive THEN e
      ELSE place(e.h, e.p, asize)

mm_free(h, ptr) ==
  LET bp == ptr + 8
  IN  coalesce([h EXCEPT !.mem = Tag(h.mem, bp, Size(h.mem, bp), 0)], bp)

\* Mutant: the copy stops a word early.
memcpyShort(m, to, from, n) == [a \in Words |-> IF a \in to .. to + n - 5 THEN m[a - to + from] ELSE m[a]]

memcpy(m, to, from, n) == [a \in Words |-> IF a \in to .. to + n - 1 THEN m[a - to + from] ELSE m[a]]

mm_realloc(h, ptr, n) ==
  LET bp == ptr + 8
      old == Size(h.mem, bp)
      old_size == old - 8
      nxt == NEXT_BLKP(h.mem, bp)
      d == ALIGN(n - old_size)
      grown == Tag(h.mem, bp, old + d, 1)
      new == mm_malloc(h, n)
  IN  IF ptr = Null THEN mm_malloc(h, n)
      ELSE IF n = 0 THEN [h |-> mm_free(h, ptr), p |-> Null]
      ELSE IF n =< old_size THEN [h |-> h, p |-> ptr]
      ELSE IF Size(h.mem, nxt) = 0        \* the last block: move the end of the heap
      THEN IF ~ CanGrow(h, d) THEN [h |-> h, p |-> Null]
           ELSE [h |-> [h EXCEPT !.mem = [grown EXCEPT ![HDRP(bp) + old + d] = PACK(0, 1)],
                                 !.brk = h.brk + d],
                 p |-> ptr]
      ELSE IF GET_ALLOC(h.mem, HDRP(nxt)) = 0 /\ Size(h.mem, nxt) + old_size >= n
      THEN [h |-> [h EXCEPT !.mem = Tag(heap_remove(h.mem, nxt), bp, old + Size(h.mem, nxt), 1)],
            p |-> ptr]
      ELSE IF new.p = Null \/ ~ new.h.alive THEN new
      ELSE [h |-> mm_free([new.h EXCEPT !.mem = memcpy(new.h.mem, new.p, ptr, old_size)], ptr),
            p |-> new.p]

-----------------------------------------------------------------------------
(* The caller: eval_mm_valid *)

WordsFor(n) == (n + 3) \div 4

\* memset: the words of a block past those that already hold the number.
Fill(m, id, p, from, n) ==
  [a \in Words |-> IF a \in p + 4 * WordsFor(from) .. p + 4 * WordsFor(n) - 1 THEN id ELSE m[a]]

FreshHeap(m) ==
  LET Heads == {heap(i) : i \in 0 .. N - 1}
      Prologue == 16
  IN  [a \in Words |->
        CASE a = 0 -> 0
          [] \E bp \in Heads \cup {Prologue} : a = HDRP(bp) \/ a = bp -> PACK(16, 1)
          [] \E bp \in Heads : a = PRED(bp) \/ a = SUCC(bp) -> 0
          [] a = FirstBlock - 4 -> PACK(0, 1)
          [] OTHER -> m[a]]

\* mem_reset_brk and mm_init.
Init == /\ \E s \in Stale : mem = FreshHeap([a \in Words |-> s])
        /\ brk = FirstBlock
        /\ alive = TRUE
        /\ blocks = [id \in Ids |-> Null]
        /\ sizes = [id \in Ids |-> 0]

Heap == [mem |-> mem, brk |-> brk, alive |-> alive]

\* The call has returned r.  A NULL that does not stand for an empty block is
\* a failure, and the caller still has what it had.
Returned(id, n, r) ==
  LET failed == r.p = Null /\ n # 0
  IN  /\ r.h.alive
      /\ mem' = IF failed THEN r.h.mem ELSE Fill(r.h.mem, id, r.p, sizes[id], n)
      /\ brk' = r.h.brk
      /\ blocks' = IF failed THEN blocks ELSE [blocks EXCEPT ![id] = r.p]
      /\ sizes' = IF failed THEN sizes ELSE [sizes EXCEPT ![id] = n]
      /\ UNCHANGED alive

\* heap_add has taken what lies behind heap[] for the head of a list: what
\* the program does from here on is undefined, so the model stops.
Wild(r) == ~ r.h.alive /\ alive' = FALSE /\ UNCHANGED <<mem, brk, blocks, sizes>>

Malloc(id, n) == /\ alive /\ blocks[id] = Null
                 /\ LET r == mm_malloc(Heap, n) IN Returned(id, n, r) \/ Wild(r)

Free(id) == /\ alive /\ blocks[id] # Null
            /\ LET r == [h |-> mm_free(Heap, blocks[id]), p |-> Null]
               IN  Returned(id, 0, r) \/ Wild(r)

Realloc(id, n) == /\ alive
                  /\ LET r == mm_realloc(Heap, blocks[id], n) IN Returned(id, n, r) \/ Wild(r)

Next == \E id \in Ids : \/ Free(id)
                         \/ \E n \in Requests : Malloc(id, n) \/ Realloc(id, n)

Spec == Init /\ [][Next]_vars

-----------------------------------------------------------------------------
(***************************************************************************)
(* Properties                                                              *)
(***************************************************************************)

\* The blocks from the prologue to the end of the heap, by their sizes.
Epilogue == brk + 8
AllBlocks ==
  LET Step(bp) == IF HDRP(bp) \in Words THEN NEXT_BLKP(mem, bp) ELSE bp
      n[j \in 0 .. N + 1 + MaxFree] == IF j = 0 THEN 16 ELSE Step(n[j - 1])
  IN  {n[j] : j \in 0 .. N + 1 + MaxFree} \ {Epilogue}
FreeIn(all) == {bp \in all : GET_ALLOC(mem, HDRP(bp)) = 0}
Heads == {heap(i) : i \in 0 .. N - 1}
Live == {id \in Ids : blocks[id] # Null}

TypeOK == /\ mem \in [Words -> Nat]
          /\ brk \in FirstBlock .. MaxHeap /\ brk % 8 = 0
          /\ alive \in BOOLEAN
          /\ blocks \in [Ids -> 0 .. MaxHeap - 1]
          /\ sizes \in [Ids -> Requests \cup {0}]

\* The blocks cover the heap from the prologue to the epilogue, which is its
\* last word, and each has the same footer as header: this is what coalesce
\* steps along in both directions.
HeapTiled == /\ mem[HDRP(Epilogue)] = PACK(0, 1)
             /\ \A bp \in AllBlocks : /\ bp % 8 = 0 /\ HDRP(bp) \in Words
                                      /\ Size(mem, bp) >= 16
                                      /\ NEXT_BLKP(mem, bp) =< Epilogue
                                      /\ mem[FTRP(mem, bp)] = mem[HDRP(bp)]

\* Each allocated block is a list head, the prologue, or belongs to exactly
\* one of the caller's pointers and is large enough for it: no call loses or
\* doubles a block.
BlocksOwned ==
  LET all == AllBlocks
      taken == all \ FreeIn(all)
  IN  /\ taken = {16} \cup Heads \cup {blocks[id] + 8 : id \in Live}
      /\ \A id \in Live : /\ blocks[id] + 8 >= FirstBlock
                           /\ sizes[id] + 8 =< Size(mem, blocks[id] + 8)
                           /\ \A o \in Live \ {id} : blocks[id] # blocks[o]

\* The lists hold the free blocks and nothing else, each once, in the list of
\* its size, and backward links mirror forward ones: what find_fit does not
\* find is not there, and heap_remove takes out the right node.
FreeBlocksListed ==
  LET all == AllBlocks
      free == FreeIn(all)
  IN  /\ \A bp \in free : U(Size(mem, bp)) < N
      /\ \A i \in 0 .. N - 1 :
           LET l == List(mem, i)
               nodes == {j \in 0 .. MaxFree : l[j] # Null}
           IN  /\ {l[j] : j \in nodes} = {bp \in free : U(Size(mem, bp)) = i}
               /\ \A j \in nodes : mem[PRED(l[j])] = IF j = 0 THEN heap(i) ELSE l[j - 1]

\* Two free blocks never lie side by side: free space is never lost to splitting.
Coalesced == LET all == AllBlocks
                 free == FreeIn(all)
             IN  \A bp \in free : NEXT_BLKP(mem, bp) \notin free

\* The heap grows for a new or moved block only if no free block would do.
GrowsOnlyWhenFull ==
  [][\A id \in Ids : brk' > brk /\ blocks'[id] # blocks[id]
        => \A bp \in FreeIn(AllBlocks) : Size(mem, bp) < sizes'[id] + 8]_vars

\* mm.c keeps the promises of an allocator: blocks are aligned, in the heap and
\* apart, and every word the caller wrote is still there, moved or not.
Contents == [id \in Ids |-> [w \in 0 .. WordsFor(sizes[id]) - 1 |-> mem[blocks[id] + 4 * w]]]
Allocates == INSTANCE Allocator WITH contents <- Contents
ImplementsAllocator == Allocates!Spec
=============================================================================
