--------------------------------- MODULE Lru ---------------------------------
(***************************************************************************)
(* The proxy's cache as its worker threads use it: the pointers of the     *)
(* doubly linked list of proxy/lab/lru.c, every access inside the sections *)
(* of the readers-writer lock of LruLock.tla, driven by the order in which *)
(* doit of proxy/lab/proxy.c calls lru_get and lru_put.                    *)
(*                                                                         *)
(* A thread has two program counters: pc is its place in the lock code and *)
(* `at' its place in the code around and inside the sections.  A statement *)
(* that follows pointers is one step.                                      *)
(***************************************************************************)
EXTENDS LruLock, Sequences

CONSTANTS Keys, Capacity, InitialSizes,  \* as in LruCache
          None,       \* no url, no response
          MaxGets,    \* bound: requests, and so calls of lru_get
          MaxPuts     \* bound: calls of lru_put, and so cells allocated

VARIABLES next, pre, \* the pointers of head, tail and the cells
          key, data, \* the other fields of the cells
          cells,     \* how many cells have been allocated
          size,      \* lru->size
          at,        \* where each thread is, see above
          op,        \* what it is doing
          want,      \* the url it works on
          val,       \* the response it stores
          p,         \* its pointer (curr, tar or list)
          gets, puts, \* calls of lru_get and of lru_put so far
          alive,     \* no thread has followed a pointer that is none
          model, modelSize, modelCrashed,
                     \* ghosts: the state of LruCache after the calls so far,
          overlap    \* and whether two threads have been in the list code at once

ASSUME LruAssumption == None \notin Keys /\ MaxPuts \in Nat

heapVars  == <<next, pre, key, data, cells, size>>
localVars == <<op, want, val, p, gets, puts>>
ghostVars == <<model, modelSize, modelCrashed, overlap>>
vars == <<lockVars, heapVars, localVars, at, alive, ghostVars>>

\* A response is known by its url and the lru_put call that stored it.
Responses == Keys \X (1 .. MaxPuts)
Cache == INSTANCE LruCache WITH Data <- Responses, list <- model, size <- modelSize,
                                crashed <- modelCrashed

HeadNode == 0
Cells == 1 .. MaxPuts
TailNode == MaxPuts + 1        \* the sentinel lru->tail
Nodes == {HeadNode, TailNode} \cup Cells
Null == -1
Garbage == -2              \* a pointer field of a cell fresh from malloc

Init == /\ LockInit
        /\ next = [n \in Nodes |-> CASE n = HeadNode -> TailNode [] n = TailNode -> Null [] OTHER -> Garbage]
        /\ pre = [n \in Nodes |-> CASE n = TailNode -> HeadNode [] n = HeadNode -> Null [] OTHER -> Garbage]
        /\ key = [n \in Cells |-> None] /\ data = [n \in Cells |-> None]
        /\ cells = 0 /\ size \in InitialSizes
        /\ at = [t \in Workers |-> "request"]
        /\ op = [t \in Workers |-> "get"]
        /\ want = [t \in Workers |-> None] /\ val = [t \in Workers |-> None]
        /\ p = [t \in Workers |-> Null]
        /\ gets = 0 /\ puts = 0 /\ alive = TRUE
        /\ Cache!Init /\ modelSize = size /\ overlap = FALSE

Inside(t) == pc[t] \in {"reading", "writing"}
Move(t, from, to) == at[t] = from /\ at' = [at EXCEPT ![t] = to]
Point(t, n) == p' = [p EXCEPT ![t] = n]

-----------------------------------------------------------------------------
(* doit *)

\* A request for url k: lru_get(lru, url).
Request(t, k) == /\ Move(t, "request", "first")
                 /\ gets < MaxGets /\ gets' = gets + 1
                 /\ StartRead(t)
                 /\ op' = [op EXCEPT ![t] = "get"]
                 /\ want' = [want EXCEPT ![t] = k]
                 /\ UNCHANGED <<heapVars, val, p, puts, alive, ghostVars>>

\* lru_get returns.  A hit is sent to the client, a miss goes to the server.
Returned(t) == /\ op[t] = "get" /\ pc[t] = "idle"
               /\ Move(t, "out", IF p[t] = Null THEN "fetch" ELSE "request")
               /\ UNCHANGED <<lockVars, heapVars, localVars, alive, ghostVars>>

\* The server's response fits MAX_OBJECT_SIZE: lru_put(lru, url, rev_data).
Store(t) == /\ Move(t, "fetch", "first")
            /\ puts < MaxPuts
            /\ StartWrite(t)
            /\ op' = [op EXCEPT ![t] = "put"]
            /\ puts' = puts + 1
            /\ val' = [val EXCEPT ![t] = <<want[t], puts + 1>>]
            /\ UNCHANGED <<heapVars, want, p, gets, alive, ghostVars>>

\* It does not fit, or the request is refused: nothing is cached.
GiveUp(t) == /\ Move(t, "fetch", "request")
             /\ UNCHANGED <<lockVars, heapVars, localVars, alive, ghostVars>>

\* lru_put returns.
Stored(t) == /\ op[t] # "get" /\ pc[t] = "idle"
             /\ Move(t, "out", "request")
             /\ UNCHANGED <<lockVars, heapVars, localVars, alive, ghostVars>>

\* A step of the lock code between doit and the list code.
LockStep(t) == /\ Enter(t) \/ W_w(t) \/ Leave(t) \/ W_post(t)
               /\ UNCHANGED <<heapVars, localVars, at, alive, ghostVars>>

\* The list code is over: dec_reader, or the sem_post of lru_put, follows.
EndSection(t) == /\ at[t] = "out"
                 /\ EndRead(t) \/ EndWrite(t)
                 /\ UNCHANGED <<heapVars, localVars, at, alive, ghostVars>>

-----------------------------------------------------------------------------
(* lru_find *)

InList(t) == Inside(t) /\ at[t] \notin {"first", "out"}

\* What LruCache makes of this call, done in one step.
CacheCall(t) ==
  /\ IF modelCrashed THEN UNCHANGED <<model, modelSize, modelCrashed>>
     ELSE IF op[t] = "get" THEN Cache!lru_get(want[t])
     ELSE Cache!lru_put(want[t], val[t])
  /\ overlap' = (overlap \/ \E s \in Workers \ {t} : InList(s))

FindFirst(t) == /\ Inside(t) /\ Move(t, "first", "find")
                /\ Point(t, next[HeadNode])
                /\ CacheCall(t)
                /\ UNCHANGED <<lockVars, heapVars, op, want, val, gets, puts, alive>>

FindNext(t) == /\ Inside(t) /\ at[t] = "find"
               /\ p[t] \in Cells /\ key[p[t]] # want[t]
               /\ Point(t, next[p[t]])
               /\ UNCHANGED <<lockVars, heapVars, op, want, val, gets, puts, at, alive, ghostVars>>

\* Mutant: if (strcmp(curr->key, key)) instead of == 0.
FindHitInverted(t) == /\ Inside(t) /\ Move(t, "find", "remove1")
                      /\ p[t] \in Cells /\ key[p[t]] # want[t]
                      /\ op' = [op EXCEPT ![t] = IF op[t] = "put" THEN "replace" ELSE @]
                      /\ UNCHANGED <<lockVars, heapVars, want, val, p, gets, puts, alive, ghostVars>>

FindHit(t) == /\ Inside(t) /\ Move(t, "find", "remove1")
              /\ p[t] \in Cells /\ key[p[t]] = want[t]
              /\ op' = [op EXCEPT ![t] = IF op[t] = "put" THEN "replace" ELSE @]
              /\ UNCHANGED <<lockVars, heapVars, want, val, p, gets, puts, alive, ghostVars>>

GetMiss(t) == /\ Inside(t) /\ op[t] = "get" /\ Move(t, "find", "out")
              /\ p[t] = TailNode /\ Point(t, Null)
              /\ UNCHANGED <<lockVars, heapVars, op, want, val, gets, puts, alive, ghostVars>>

\* Mutant: the cache counts as full one entry too early.
PutMissEarly(t) == /\ Inside(t) /\ op[t] = "put"
                   /\ Move(t, "find", IF Capacity = size + 1 THEN "remove1" ELSE "malloc")
                   /\ p[t] = TailNode /\ Point(t, next[HeadNode])
                   /\ op' = [op EXCEPT ![t] = "insert"]
                   /\ UNCHANGED <<lockVars, heapVars, want, val, gets, puts, alive, ghostVars>>

\* lru_put: the key is new, and lru->size decides whether the oldest goes.
PutMiss(t) == /\ Inside(t) /\ op[t] = "put"
              /\ Move(t, "find", IF Capacity = size THEN "remove1" ELSE "malloc")
              /\ p[t] = TailNode /\ Point(t, next[HeadNode])
              /\ op' = [op EXCEPT ![t] = "insert"]
              /\ UNCHANGED <<lockVars, heapVars, want, val, gets, puts, alive, ghostVars>>

-----------------------------------------------------------------------------
(* lru_remove, the assignment of tar->data, malloc and push_back *)

\* list->next->pre = list->pre
Remove1(t) == /\ Move(t, "remove1", "remove2")
              /\ p[t] \in Nodes /\ next[p[t]] \in Nodes
              /\ pre' = [pre EXCEPT ![next[p[t]]] = pre[p[t]]]
              /\ UNCHANGED <<lockVars, next, key, data, cells, size, localVars, alive, ghostVars>>

\* Mutant: list->next->pre is mended but list->pre->next is not.
Remove2Half(t) == /\ Move(t, "remove2", CASE op[t] = "get" -> "push1" [] op[t] = "replace" -> "data"
                                        [] OTHER -> "malloc")
                  /\ UNCHANGED <<lockVars, heapVars, localVars, alive, ghostVars>>

\* list->pre->next = list->next
Remove2(t) == /\ Move(t, "remove2", CASE op[t] = "get" -> "push1" [] op[t] = "replace" -> "data"
                                    [] OTHER -> "malloc")
              /\ pre[p[t]] \in Nodes
              /\ next' = [next EXCEPT ![pre[p[t]]] = next[p[t]]]
              /\ UNCHANGED <<lockVars, pre, key, data, cells, size, localVars, alive, ghostVars>>

SetData(t) == /\ Move(t, "data", "push1")
              /\ data' = [data EXCEPT ![p[t]] = val[t]]
              /\ UNCHANGED <<lockVars, next, pre, key, cells, size, localVars, alive, ghostVars>>

Malloc(t) == /\ Move(t, "malloc", "push1")
             /\ cells' = cells + 1 /\ Point(t, cells + 1)
             /\ key' = [key EXCEPT ![cells + 1] = want[t]]
             /\ data' = [data EXCEPT ![cells + 1] = val[t]]
             /\ UNCHANGED <<lockVars, next, pre, size, op, want, val, gets, puts, alive, ghostVars>>

\* tail->pre->next = list
Push1(t) == /\ Move(t, "push1", "push2")
            /\ pre[TailNode] \in Nodes
            /\ next' = [next EXCEPT ![pre[TailNode]] = p[t]]
            /\ UNCHANGED <<lockVars, pre, key, data, cells, size, localVars, alive, ghostVars>>

\* list->pre = tail->pre
Push2(t) == /\ Move(t, "push2", "push3")
            /\ pre' = [pre EXCEPT ![p[t]] = pre[TailNode]]
            /\ UNCHANGED <<lockVars, next, key, data, cells, size, localVars, alive, ghostVars>>

\* list->next = tail
Push3(t) == /\ Move(t, "push3", "push4")
            /\ next' = [next EXCEPT ![p[t]] = TailNode]
            /\ UNCHANGED <<lockVars, pre, key, data, cells, size, localVars, alive, ghostVars>>

\* tail->pre = list
Push4(t) == /\ Move(t, "push4", IF op[t] = "insert" THEN "grow" ELSE "out")
            /\ pre' = [pre EXCEPT ![TailNode] = p[t]]
            /\ UNCHANGED <<lockVars, next, key, data, cells, size, localVars, alive, ghostVars>>

\* lru->size++
Grow(t) == /\ Move(t, "grow", "out")
           /\ size' = size + 1
           /\ UNCHANGED <<lockVars, next, pre, key, data, cells, localVars, alive, ghostVars>>

\* A thread follows NULL or an uninitialised pointer; what the program does
\* from here on is undefined, so the model stops.
Wild(t) == /\ \/ at[t] = "find" /\ p[t] \notin Cells \cup {TailNode}
              \/ at[t] = "remove1" /\ (p[t] \in Nodes => next[p[t]] \notin Nodes)
              \/ at[t] = "remove2" /\ pre[p[t]] \notin Nodes
              \/ at[t] = "push1" /\ pre[TailNode] \notin Nodes
           /\ alive' = FALSE
           /\ UNCHANGED <<lockVars, heapVars, localVars, at, ghostVars>>

-----------------------------------------------------------------------------
doit(t) == \/ \E k \in Keys : Request(t, k)
           \/ Returned(t) \/ Store(t) \/ GiveUp(t) \/ Stored(t)
find(t) == FindFirst(t) \/ FindNext(t) \/ FindHit(t) \/ GetMiss(t) \/ PutMiss(t)
relink(t) == \/ Remove1(t) \/ Remove2(t) \/ SetData(t) \/ Malloc(t)
             \/ Push1(t) \/ Push2(t) \/ Push3(t) \/ Push4(t) \/ Grow(t)

Next == /\ alive
        /\ \E t \in Workers : \/ doit(t) \/ LockStep(t) \/ EndSection(t)
                              \/ find(t) \/ relink(t) \/ Wild(t)

Spec == Init /\ [][Next]_vars

-----------------------------------------------------------------------------
(***************************************************************************)
(* Properties                                                              *)
(***************************************************************************)

Places == {"request", "fetch", "first", "find", "remove1", "remove2", "data", "malloc",
           "push1", "push2", "push3", "push4", "grow", "out"}

TypeOK == /\ LockTypeOK
          /\ next \in [Nodes -> Nodes \cup {Null, Garbage}]
          /\ pre \in [Nodes -> Nodes \cup {Null, Garbage}]
          /\ key \in [Cells -> Keys \cup {None}]
          /\ data \in [Cells -> Responses \cup {None}]
          /\ cells \in 0 .. MaxPuts /\ puts \in 0 .. MaxPuts
          /\ p \in [Workers -> Nodes \cup {Null, Garbage}]
          /\ at \in [Workers -> Places]
          /\ op \in [Workers -> {"get", "put", "replace", "insert"}]
          /\ want \in [Workers -> Keys \cup {None}]
          /\ val \in [Workers -> Responses \cup {None}]
          /\ alive \in BOOLEAN

\* The nodes met from head along next, or from tail along pre, at most one
\* more than there are.
Walk(f, from) == LET n[i \in 0 .. MaxPuts + 1] ==
                       IF i = 0 THEN from
                       ELSE IF n[i - 1] \in Nodes THEN f[n[i - 1]] ELSE Null
                 IN  n

\* The entries in list order; an endless list shows as one entry too many.
Contents ==
  LET n == Walk(next, HeadNode)
      stops == {i \in 1 .. MaxPuts + 1 : n[i] \notin Cells}
      len == IF stops = {} THEN MaxPuts + 1
             ELSE (CHOOSE i \in stops : \A j \in stops : i =< j) - 1
  IN  [i \in 1 .. len |-> [key |-> key[n[i]], data |-> data[n[i]]]]

\* Nobody is in the list code, and threads have used it one at a time.
Quiet == alive /\ ~ overlap /\ \A t \in Workers : ~ InList(t)

\* As long as threads use it one at a time, the list is a list: both directions
\* hold the same nodes and end at the other sentinel.
ListIntact ==
  Quiet => LET f == Walk(next, HeadNode)
               b == Walk(pre, TailNode)
           IN  \E len \in 1 .. MaxPuts + 1 :
                  f[len] = TailNode /\ \A i \in 0 .. len : b[i] = f[len - i]

\* As long as threads use it one at a time, the cache is what the calls so far
\* make of it when each is one step: the pointer code implements LruCache.
ContentsAsCalled == Quiet => Contents = model /\ size = modelSize

\* As long as threads use it one at a time, the pointer code follows no NULL or
\* uninitialised pointer but in the one case that LruCache has, the eviction
\* from an empty list.
OnlyKnownCrash == alive \/ overlap \/ modelCrashed

\* Two workers that missed the same url both store their response: the later
\* call replaces the earlier one's, and a hit cannot return the older of two.
OneEntryPerKey == Cache!OneEntryPerKey

\* No call drops an entry while the cache keeps one that was used less recently.
LeastRecentlyUsed == Cache!LeastRecentlyUsed

\* However the threads interleave, a hit is answered with a response that was
\* stored for that very url.
HitIsForUrl == \A t \in Workers :
                  op[t] = "get" /\ at[t] = "out" /\ p[t] # Null
                    => p[t] \in Cells /\ data[p[t]][1] = want[t]
=============================================================================
