-------------------------------- MODULE SBuf --------------------------------
(***************************************************************************)
(* The bounded buffer of the concurrent proxy: proxy/lab/sbuf.c together   *)
(* with its two callers in proxy/lab/proxy.c, the accepting main thread    *)
(* and the worker threads.                                                 *)
(*                                                                         *)
(* Every semaphore operation is one atomic step.  The access to the buffer *)
(* is two steps, because ++sp->rear and ++sp->front are a load and a later *)
(* store that only the semaphore `mutex' keeps apart.  The request itself  *)
(* (doit) is the single step Finish: what it does is the subject of other  *)
(* modules, here it only matters that it takes time and may never end.     *)
(***************************************************************************)
EXTENDS Integers, Sequences, FiniteSets

CONSTANTS Producers,  \* threads that run main's accept loop (one in proxy.c)
          Consumers,  \* the pool of worker threads (NTHREADS)
          Hung,       \* workers whose request may never end (a dead server)
          N,          \* the number of slots (SBUFSIZE)
          Fds,        \* descriptors accept can return
          None,       \* no descriptor
          MaxConn     \* bound: no accept once this many have been inserted

ASSUME ThreadsAssumption == /\ IsFiniteSet(Producers)
                            /\ IsFiniteSet(Consumers)
                            /\ Producers \cap Consumers = {}
                            /\ Hung \subseteq Consumers
ASSUME SizeAssumption == N \in Nat \ {0} /\ MaxConn \in Nat
ASSUME FdsAssumption == None \notin Fds

VARIABLES buf,        \* sp->buf, indexed 0 .. N-1
          front,      \* sp->front
          rear,       \* sp->rear
          mutex,      \* value of the semaphore sp->mutex
          slots,      \* value of the semaphore sp->slots
          items,      \* value of the semaphore sp->items
          pc,         \* where each thread is
          item,       \* the descriptor each thread has in a local variable
          idx,        \* the incremented index a thread has loaded
          open        \* the open connection descriptors

vars == <<buf, front, rear, mutex, slots, items, pc, item, idx, open>>

Threads == Producers \cup Consumers

Goto(t, from, to) == pc[t] = from /\ pc' = [pc EXCEPT ![t] = to]

\* Mutant: sbuf_init creates `slots' with one slot too many.
InitExtraSlot == /\ buf = [i \in 0 .. N-1 |-> None]
                 /\ front = 0 /\ rear = 0
                 /\ mutex = 1 /\ slots = N + 1 /\ items = 0
                 /\ pc = [t \in Threads |-> IF t \in Producers THEN "accept" ELSE "P_items"]
                 /\ item = [t \in Threads |-> None]
                 /\ idx = [t \in Threads |-> 0]
                 /\ open = {}

Init == /\ buf = [i \in 0 .. N-1 |-> None]
        /\ front = 0 /\ rear = 0
        /\ mutex = 1 /\ slots = N /\ items = 0
        /\ pc = [t \in Threads |-> IF t \in Producers THEN "accept" ELSE "P_items"]
        /\ item = [t \in Threads |-> None]
        /\ idx = [t \in Threads |-> 0]
        /\ open = {}

-----------------------------------------------------------------------------
(***************************************************************************)
(* The producer: connfd = Accept(...); sbuf_insert(&sbuf, connfd)          *)
(***************************************************************************)

\* The kernel returns a descriptor that is not open.
Accept(p) == /\ Goto(p, "accept", "P_slots")
             /\ rear < MaxConn
             /\ \E fd \in Fds \ open : /\ item' = [item EXCEPT ![p] = fd]
                                       /\ open' = open \cup {fd}
             /\ UNCHANGED <<buf, front, rear, mutex, slots, items, idx>>

P_slots(p) == /\ Goto(p, "P_slots", "P_mutex_in")
              /\ slots > 0
              /\ slots' = slots - 1
              /\ UNCHANGED <<buf, front, rear, mutex, items, item, idx, open>>

P_mutex_in(p) == /\ Goto(p, "P_mutex_in", "load_rear")
                 /\ mutex > 0
                 /\ mutex' = mutex - 1
                 /\ UNCHANGED <<buf, front, rear, slots, items, item, idx, open>>

LoadRear(p) == /\ Goto(p, "load_rear", "put")
               /\ idx' = [idx EXCEPT ![p] = rear + 1]
               /\ UNCHANGED <<buf, front, rear, mutex, slots, items, item, open>>

\* Mutant: sp->rear++ instead of ++sp->rear.
PutPostIncrement(p) == /\ Goto(p, "put", "V_mutex_in")
                       /\ rear' = idx[p]
                       /\ buf' = [buf EXCEPT ![(idx[p] - 1) % N] = item[p]]
                       /\ item' = [item EXCEPT ![p] = None]
                       /\ UNCHANGED <<front, mutex, slots, items, idx, open>>

Put(p) == /\ Goto(p, "put", "V_mutex_in")
          /\ rear' = idx[p]
          /\ buf' = [buf EXCEPT ![idx[p] % N] = item[p]]
          /\ item' = [item EXCEPT ![p] = None]
          /\ UNCHANGED <<front, mutex, slots, items, idx, open>>

V_mutex_in(p) == /\ Goto(p, "V_mutex_in", "V_items")
                 /\ mutex' = mutex + 1
                 /\ UNCHANGED <<buf, front, rear, slots, items, item, idx, open>>

\* Mutant: `items' as a binary semaphore or a condition flag.
V_items_binary(p) == /\ Goto(p, "V_items", "accept")
                     /\ items' = 1
                     /\ UNCHANGED <<buf, front, rear, mutex, slots, item, idx, open>>

V_items(p) == /\ Goto(p, "V_items", "accept")
              /\ items' = items + 1
              /\ UNCHANGED <<buf, front, rear, mutex, slots, item, idx, open>>

-----------------------------------------------------------------------------
(***************************************************************************)
(* A worker: connfd = sbuf_remove(&sbuf); doit(connfd); Close(connfd)      *)
(***************************************************************************)

P_items(c) == /\ Goto(c, "P_items", "P_mutex_out")
              /\ items > 0
              /\ items' = items - 1
              /\ UNCHANGED <<buf, front, rear, mutex, slots, item, idx, open>>

\* Mutant: sbuf_remove does not lock the buffer.
P_mutex_out_skip(c) == /\ Goto(c, "P_mutex_out", "load_front")
                       /\ UNCHANGED <<buf, front, rear, mutex, slots, items, item, idx, open>>

P_mutex_out(c) == /\ Goto(c, "P_mutex_out", "load_front")
                  /\ mutex > 0
                  /\ mutex' = mutex - 1
                  /\ UNCHANGED <<buf, front, rear, slots, items, item, idx, open>>

LoadFront(c) == /\ Goto(c, "load_front", "take")
                /\ idx' = [idx EXCEPT ![c] = front + 1]
                /\ UNCHANGED <<buf, front, rear, mutex, slots, items, item, open>>

Take(c) == /\ Goto(c, "take", "V_mutex_out")
           /\ front' = idx[c]
           /\ item' = [item EXCEPT ![c] = buf[idx[c] % N]]
           /\ UNCHANGED <<buf, rear, mutex, slots, items, idx, open>>

V_mutex_out(c) == /\ Goto(c, "V_mutex_out", "V_slots")
                  /\ mutex' = mutex + 1
                  /\ UNCHANGED <<buf, front, rear, slots, items, item, idx, open>>

V_slots(c) == /\ Goto(c, "V_slots", "serve")
              /\ slots' = slots + 1
              /\ UNCHANGED <<buf, front, rear, mutex, items, item, idx, open>>

\* doit returns and the worker closes the connection, which frees the
\* descriptor number for the next accept.
Finish(c) == /\ Goto(c, "serve", "P_items")
             /\ open' = open \ {item[c]}
             /\ item' = [item EXCEPT ![c] = None]
             /\ UNCHANGED <<buf, front, rear, mutex, slots, items, idx>>

-----------------------------------------------------------------------------
insert(p) == \/ P_slots(p) \/ P_mutex_in(p) \/ LoadRear(p) \/ Put(p)
             \/ V_mutex_in(p) \/ V_items(p)

remove(c) == \/ P_items(c) \/ P_mutex_out(c) \/ LoadFront(c) \/ Take(c)
             \/ V_mutex_out(c) \/ V_slots(c)

Next == \/ \E p \in Producers : Accept(p) \/ insert(p)
        \/ \E c \in Consumers : remove(c) \/ Finish(c)

Spec == Init /\ [][Next]_vars

(***************************************************************************)
(* The scheduler eventually runs a thread that can run, and a worker whose *)
(* server answers eventually returns from doit.  Nothing is assumed about  *)
(* accept: clients may stop coming.                                        *)
(***************************************************************************)
Fairness == /\ \A p \in Producers : WF_vars(insert(p))
            /\ \A c \in Consumers : WF_vars(remove(c))
            /\ \A c \in Consumers \ Hung : WF_vars(Finish(c))

FairSpec == Spec /\ Fairness

-----------------------------------------------------------------------------
(***************************************************************************)
(* Properties                                                              *)
(***************************************************************************)

ProducerPCs == {"accept", "P_slots", "P_mutex_in", "load_rear", "put",
                "V_mutex_in", "V_items"}
ConsumerPCs == {"P_items", "P_mutex_out", "load_front", "take",
                "V_mutex_out", "V_slots", "serve"}

\* Types of the buffer's fields, the semaphores and the threads' locals.
TypeOK == /\ buf \in [0 .. N-1 -> Fds \cup {None}]
          /\ front \in Nat /\ rear \in Nat
          /\ mutex \in Nat /\ slots \in Nat /\ items \in Nat
          /\ pc \in [Threads -> ProducerPCs \cup ConsumerPCs]
          /\ \A p \in Producers : pc[p] \in ProducerPCs
          /\ \A c \in Consumers : pc[c] \in ConsumerPCs
          /\ item \in [Threads -> Fds \cup {None}]
          /\ idx \in [Threads -> Nat]
          /\ open \subseteq Fds

\* Who is between P(&sp->mutex) and V(&sp->mutex).
InCritical(t) == pc[t] \in {"load_rear", "put", "V_mutex_in",
                            "load_front", "take", "V_mutex_out"}

\* At most one thread, of either side, touches buf, front and rear at a time.
MutualExclusion == \A s, t \in Threads : InCritical(s) /\ InCritical(t) => s = t

\* The buffer never holds fewer than no descriptors or more than n of them:
\* no insertion overwrites a descriptor that is still waiting, and no removal
\* reads a slot that was not filled.
NoOverwrite == front =< rear /\ rear - front =< N

\* Threads between taking a unit of one semaphore and giving it to the other.
Inside    == {t \in Threads : InCritical(t)}
Reserving == {p \in Producers : pc[p] \in {"P_mutex_in", "load_rear", "put"}}
Filled    == {p \in Producers : pc[p] \in {"V_mutex_in", "V_items"}}
Claiming  == {c \in Consumers : pc[c] \in {"P_mutex_out", "load_front", "take"}}
Emptied   == {c \in Consumers : pc[c] \in {"V_mutex_out", "V_slots"}}

\* The semaphores count what sbuf.h says they count: every slot is free
\* (slots), full, or in the hands of a thread between two semaphore calls;
\* every descriptor in the buffer is announced (items) or in such hands.
Conservation ==
  /\ mutex + Cardinality(Inside) = 1
  /\ slots + (rear - front) + Cardinality(Reserving) + Cardinality(Emptied) = N
  /\ items + Cardinality(Filled) + Cardinality(Claiming) = rear - front

\* The descriptors that wait in the buffer, oldest first.
Waiting == [i \in 1 .. rear - front |-> buf[(front + i) % N]]

\* Every open descriptor is in exactly one place: one thread's local variable
\* or one slot of the buffer.  None is leaked, and no two workers ever serve,
\* or close, the same connection, even though numbers are reused.
OneOwner ==
  \A fd \in Fds :
     Cardinality({t \in Threads : item[t] = fd})
       + Cardinality({i \in 1 .. rear - front : Waiting[i] = fd})
     = IF fd \in open THEN 1 ELSE 0

\* The semaphore code implements the queue that the proxy relies on: in the
\* order accept returned them, each connection to exactly one worker.
Queue == INSTANCE BoundedFIFO
            WITH Values <- Fds, Takers <- Consumers, Capacity <- N, Nothing <- None,
                 queue <- Waiting, held <- [c \in Consumers |-> item[c]]
ImplementsQueue == Queue!Spec

\* Every connection that main accepts is served and closed, or is the one that
\* a stuck worker serves: workers stuck in a request for ever do not keep the
\* others from their work, and no announcement of a descriptor or of a free
\* slot is lost.
EveryConnectionServed ==
  \A fd \in Fds :
     fd \in open ~> fd \notin open \/ \E c \in Hung : item[c] = fd /\ pc[c] = "serve"
=============================================================================
