------------------------------- MODULE LruLock -------------------------------
(***************************************************************************)
(* The readers-writer lock of the proxy's cache: the semaphores and the    *)
(* counter that lru_get, dec_reader and lru_put of proxy/lab/lru.c use.    *)
(* What a thread does with the list while it is inside is the subject of   *)
(* Lru.tla; here it is the single steps EndRead and EndWrite.              *)
(*                                                                         *)
(* readcnt++ and readcnt-- are a load and a store, and the tests of        *)
(* readcnt load it again (the Makefile compiles without optimisation).     *)
(***************************************************************************)
EXTENDS Integers, FiniteSets

CONSTANTS Workers,         \* the threads that call the cache
          ReaderSameTime   \* initial value of lru->mutex: 1 in the comment of
                           \* lru.h, READER_SAME_TIME = 10 in lru.c

ASSUME WorkersAssumption == IsFiniteSet(Workers)
ASSUME ReaderSameTimeAssumption == ReaderSameTime \in Nat \ {0}

VARIABLES readcnt,  \* lru->readcnt
          mutex,    \* value of the semaphore lru->mutex
          w,        \* value of the semaphore lru->w
          pc,       \* where each thread is
          tmp       \* the value of readcnt a thread has loaded

lockVars == <<readcnt, mutex, w, pc, tmp>>

Goto(t, from, to) == pc[t] = from /\ pc' = [pc EXCEPT ![t] = to]

LockInit == /\ readcnt = 0 /\ mutex = ReaderSameTime /\ w = 1
        /\ pc = [t \in Workers |-> "idle"]
        /\ tmp = [t \in Workers |-> 0]

-----------------------------------------------------------------------------
(* lru_get up to the search of the list. *)

StartRead(t) == Goto(t, "idle", "R_mutex") /\ UNCHANGED <<readcnt, mutex, w, tmp>>

R_mutex(t) == /\ Goto(t, "R_mutex", "R_load")
              /\ mutex > 0 /\ mutex' = mutex - 1
              /\ UNCHANGED <<readcnt, w, tmp>>

R_load(t) == /\ Goto(t, "R_load", "R_store")
             /\ tmp' = [tmp EXCEPT ![t] = readcnt]
             /\ UNCHANGED <<readcnt, mutex, w>>

R_store(t) == /\ Goto(t, "R_store", "R_test")
              /\ readcnt' = tmp[t] + 1
              /\ UNCHANGED <<mutex, w, tmp>>

\* Mutant: the first reader does not take w.
R_test_never(t) == Goto(t, "R_test", "R_unlock") /\ UNCHANGED <<readcnt, mutex, w, tmp>>

R_test(t) == /\ Goto(t, "R_test", IF readcnt = 1 THEN "R_w" ELSE "R_unlock")
             /\ UNCHANGED <<readcnt, mutex, w, tmp>>

R_w(t) == /\ Goto(t, "R_w", "R_unlock")
          /\ w > 0 /\ w' = w - 1
          /\ UNCHANGED <<readcnt, mutex, tmp>>

R_unlock(t) == /\ Goto(t, "R_unlock", "reading")
               /\ mutex' = mutex + 1
               /\ UNCHANGED <<readcnt, w, tmp>>

EndRead(t) == Goto(t, "reading", "D_mutex") /\ UNCHANGED <<readcnt, mutex, w, tmp>>

-----------------------------------------------------------------------------
(* dec_reader. *)

D_mutex(t) == /\ Goto(t, "D_mutex", "D_load")
              /\ mutex > 0 /\ mutex' = mutex - 1
              /\ UNCHANGED <<readcnt, w, tmp>>

D_load(t) == /\ Goto(t, "D_load", "D_store")
             /\ tmp' = [tmp EXCEPT ![t] = readcnt]
             /\ UNCHANGED <<readcnt, mutex, w>>

D_store(t) == /\ Goto(t, "D_store", "D_test")
              /\ readcnt' = tmp[t] - 1
              /\ UNCHANGED <<mutex, w, tmp>>

\* Mutant: the reader before the last gives w back.
D_test_one(t) == /\ Goto(t, "D_test", IF readcnt = 1 THEN "D_w" ELSE "D_unlock")
                 /\ UNCHANGED <<readcnt, mutex, w, tmp>>

D_test(t) == /\ Goto(t, "D_test", IF readcnt = 0 THEN "D_w" ELSE "D_unlock")
             /\ UNCHANGED <<readcnt, mutex, w, tmp>>

D_w(t) == /\ Goto(t, "D_w", "D_unlock")
          /\ w' = w + 1
          /\ UNCHANGED <<readcnt, mutex, tmp>>

\* Mutant: dec_reader does not post mutex when others still read.
D_unlock_last(t) == /\ Goto(t, "D_unlock", "idle")
                    /\ mutex' = IF readcnt = 0 THEN mutex + 1 ELSE mutex
                    /\ UNCHANGED <<readcnt, w, tmp>>

D_unlock(t) == /\ Goto(t, "D_unlock", "idle")
               /\ mutex' = mutex + 1
               /\ UNCHANGED <<readcnt, w, tmp>>

-----------------------------------------------------------------------------
(* lru_put. *)

StartWrite(t) == Goto(t, "idle", "W_w") /\ UNCHANGED <<readcnt, mutex, w, tmp>>

W_w(t) == /\ Goto(t, "W_w", "writing")
          /\ w > 0 /\ w' = w - 1
          /\ UNCHANGED <<readcnt, mutex, tmp>>

EndWrite(t) == Goto(t, "writing", "W_post") /\ UNCHANGED <<readcnt, mutex, w, tmp>>

W_post(t) == /\ Goto(t, "W_post", "idle")
             /\ w' = w + 1
             /\ UNCHANGED <<readcnt, mutex, tmp>>

-----------------------------------------------------------------------------
Start(t) == StartRead(t) \/ StartWrite(t)

\* The steps of a thread that has entered the cache.
Enter(t) == R_mutex(t) \/ R_load(t) \/ R_store(t) \/ R_test(t) \/ R_w(t) \/ R_unlock(t)
Leave(t) == D_mutex(t) \/ D_load(t) \/ D_store(t) \/ D_test(t) \/ D_w(t) \/ D_unlock(t)
Continue(t) == Enter(t) \/ EndRead(t) \/ Leave(t) \/ W_w(t) \/ EndWrite(t) \/ W_post(t)

LockNext == \E t \in Workers : Start(t) \/ Continue(t)

LockSpec == LockInit /\ [][LockNext]_lockVars

\* The scheduler runs a thread that can run.  A semaphore wakes some waiter,
\* not a particular one: no strong fairness.
LockFairSpec == LockSpec /\ \A t \in Workers : WF_lockVars(Continue(t))

-----------------------------------------------------------------------------
(***************************************************************************)
(* Properties                                                              *)
(***************************************************************************)

InMutex == {t \in Workers : pc[t] \in {"R_load", "R_store", "R_test", "R_w", "R_unlock",
                                       "D_load", "D_store", "D_test", "D_w", "D_unlock"}}
\* The threads whose increment of readcnt is stored and whose decrement is not.
Counted == {t \in Workers : pc[t] \in {"R_test", "R_w", "R_unlock", "reading",
                                       "D_mutex", "D_load", "D_store"}}
Writers == {t \in Workers : pc[t] \in {"writing", "W_post"}}

LockTypeOK == /\ readcnt \in Int /\ mutex \in Nat /\ w \in Nat
          /\ pc \in [Workers -> {"idle", "reading", "writing", "R_mutex", "R_load",
                                 "R_store", "R_test", "R_w", "R_unlock", "D_mutex",
                                 "D_load", "D_store", "D_test", "D_w", "D_unlock",
                                 "W_w", "W_post"}]
          /\ tmp \in [Workers -> Int]

\* A thread in lru_put is alone: no second writer, and no reader in the part
\* of lru_get between the two uses of the lock.
WriterIsAlone ==
  \A s, t \in Workers : pc[s] = "writing" /\ pc[t] \in {"reading", "writing"} => s = t

\* Between requests the lock is as lru_init left it: no count was lost and no
\* semaphore gained or lost a unit, whatever the order of the requests was.
LockRestored ==
  (\A t \in Workers : pc[t] \in {"idle", "R_mutex", "W_w"})
     => readcnt = 0 /\ mutex = ReaderSameTime /\ w = 1

\* When requests stop coming, all of them complete: nobody is left waiting for
\* a semaphore that nobody will post.
Drains == []<><<\E t \in Workers : Start(t)>>_lockVars
          \/ <>[](\A t \in Workers : pc[t] = "idle")
=============================================================================
