------------------------------ MODULE LruProofs ------------------------------
(***************************************************************************)
(* Theorems about the proxy's cache (proxy/lab/lru.c), for every number of *)
(* worker threads, urls, calls and cells, every capacity and every value   *)
(* of the uninitialised lru->size.                                         *)
(*                                                                         *)
(* Some hold however the threads interleave.  The others say that the      *)
(* pointer code implements LruCache as long as no two threads have been in *)
(* it at once: LinkInv below says, for each place in the code, how far the *)
(* list has got from where it was to what the call makes of it.            *)
(***************************************************************************)
EXTENDS Lru, SequenceTheorems, FiniteSetTheorems, WellFoundedInduction, TLAPS

-----------------------------------------------------------------------------
(* The readers-writer lock.  With any number of workers it excludes writers  *)
(* if lru->mutex starts at 1, as the comment of lru.h says.  (lru.c starts   *)
(* it at 10, and TLC shows what then happens with three threads.)            *)

\* The threads for which the readers' unit of w is taken: readers inside, the
\* one that is leaving and those about to give w back.
Covered == {t \in Workers : \/ pc[t] \in {"R_unlock", "reading", "D_mutex",
                                          "D_load", "D_store", "D_w"}
                            \/ pc[t] = "D_test" /\ readcnt = 0}

\* readcnt counts the readers between the two changes they make to it.
CountExact == readcnt = Cardinality(Counted)

\* One thread at most is in the sections that mutex protects.
MutexExclusive == /\ mutex \in {0, 1}
                  /\ mutex = 1 <=> InMutex = {}
                  /\ \A s, t \in InMutex : s = t

\* The value of readcnt that a thread has loaded is the value it increments.
LoadedExact == \A t \in Workers : pc[t] \in {"R_store", "D_store"} => tmp[t] = readcnt

\* w is free, or held by one writer, or held for all the readers together.
WExclusive == /\ w \in {0, 1}
              /\ w = 1 <=> Writers = {} /\ Covered = {}
              /\ Writers = {} \/ Covered = {}
              /\ \A s, t \in Writers : s = t

\* A thread takes w as the only reader, and gives it back when none is left.
FirstAndLast == \A t \in Workers : /\ pc[t] = "R_w" => Counted = {t}
                                   /\ pc[t] = "D_w" => Counted = {}

LockInv == /\ LockTypeOK /\ CountExact /\ MutexExclusive /\ LoadedExact
        /\ WExclusive /\ FirstAndLast

-----------------------------------------------------------------------------
\* LockTypeOK is inductive on its own.
LEMMA LockTypeInductive == /\ LockInit => LockTypeOK
                           /\ LockTypeOK /\ [LockNext]_lockVars => LockTypeOK'
<1>1. LockInit => LockTypeOK
  BY ReaderSameTimeAssumption DEF LockInit, LockTypeOK
<1>2. LockTypeOK /\ [LockNext]_lockVars => LockTypeOK'
  <2> SUFFICES ASSUME LockTypeOK, [LockNext]_lockVars PROVE LockTypeOK'
    OBVIOUS
  <2> USE DEF LockTypeOK, Goto
  <2>1. ASSUME NEW t \in Workers, Start(t) PROVE LockTypeOK'
    BY <2>1 DEF Start, StartRead, StartWrite
  <2>2. ASSUME NEW t \in Workers, Enter(t) PROVE LockTypeOK'
    BY <2>2 DEF Enter, R_mutex, R_load, R_store, R_test, R_w, R_unlock
  <2>3. ASSUME NEW t \in Workers, Leave(t) PROVE LockTypeOK'
    BY <2>3 DEF Leave, D_mutex, D_load, D_store, D_test, D_w, D_unlock
  <2>4. ASSUME NEW t \in Workers, EndRead(t) \/ W_w(t) \/ EndWrite(t) \/ W_post(t)
        PROVE  LockTypeOK'
    BY <2>4 DEF EndRead, W_w, EndWrite, W_post
  <2>5. CASE UNCHANGED lockVars
    BY <2>5 DEF lockVars
  <2> QED BY <2>1, <2>2, <2>3, <2>4, <2>5 DEF LockNext, Continue
<1> QED BY <1>1, <1>2

\* Every state of the lock is well typed: no semaphore goes below zero.
THEOREM LockTypeCorrect == LockSpec => []LockTypeOK
<1>1. LockInit => LockTypeOK
  BY LockTypeInductive
<1>2. LockTypeOK /\ [LockNext]_lockVars => LockTypeOK'
  BY LockTypeInductive
<1> QED BY <1>1, <1>2, PTL DEF LockSpec

-----------------------------------------------------------------------------
\* The counted readers are finitely many, and their number tells none, one
\* and more apart.
LEMMA CountedFacts ==
  /\ IsFiniteSet(Counted) /\ Cardinality(Counted) \in Nat
  /\ Cardinality(Counted) = 0 <=> Counted = {}
  /\ \A t \in Counted : Cardinality(Counted) = 1 <=> Counted = {t}
<1>1. IsFiniteSet(Counted)
  BY WorkersAssumption, FS_Subset DEF Counted
<1>2. Cardinality(Counted) \in Nat
  BY <1>1, FS_CardinalityType
<1>3. Cardinality(Counted) = 0 <=> Counted = {}
  BY <1>1, FS_EmptySet
<1>4. ASSUME NEW t \in Counted PROVE Cardinality(Counted) = 1 <=> Counted = {t}
  <2>1. IsFiniteSet(Counted \ {t}) /\ Cardinality(Counted \ {t}) = Cardinality(Counted) - 1
    BY <1>1, FS_RemoveElement
  <2>2. Cardinality(Counted \ {t}) = 0 <=> Counted \ {t} = {}
    BY <2>1, FS_EmptySet
  <2> QED BY <2>1, <2>2, <1>2
<1> QED BY <1>1, <1>2, <1>3, <1>4

\* LockInv is inductive when lru->mutex starts at 1.
LEMMA LockInvInductive == ASSUME ReaderSameTime = 1
                          PROVE  /\ LockInit => LockInv
                                 /\ LockInv /\ [LockNext]_lockVars => LockInv'
<1>1. LockInit => LockInv
  <2> SUFFICES ASSUME LockInit PROVE LockInv
    OBVIOUS
  <2>1. InMutex = {} /\ Counted = {} /\ Writers = {} /\ Covered = {}
    BY DEF LockInit, InMutex, Counted, Writers, Covered
  <2>2. LockTypeOK
    BY LockTypeInductive
  <2>3. CountExact
    BY <2>1, CountedFacts DEF LockInit, CountExact
  <2>4. MutexExclusive /\ WExclusive
    BY <2>1 DEF LockInit, MutexExclusive, WExclusive
  <2>5. LoadedExact /\ FirstAndLast
    BY DEF LockInit, LoadedExact, FirstAndLast
  <2> QED BY <2>2, <2>3, <2>4, <2>5 DEF LockInv
<1>2. LockInv /\ [LockNext]_lockVars => LockInv'
  <2> SUFFICES ASSUME LockInv, [LockNext]_lockVars
               PROVE  CountExact' /\ MutexExclusive' /\ LoadedExact' /\ WExclusive' /\ FirstAndLast'
    BY LockTypeInductive DEF LockInv
  <2> DEFINE Rest == MutexExclusive /\ LoadedExact /\ WExclusive /\ FirstAndLast
  <2> USE DEF LockInv, LockTypeOK, Goto
  <2>1. ASSUME NEW t \in Workers, Start(t) PROVE CountExact' /\ Rest'
    <3>1. Counted' = Counted
      BY <2>1 DEF Start, StartRead, StartWrite, Counted
    <3>2. CountExact'
      BY <2>1, <3>1 DEF Start, StartRead, StartWrite, CountExact
    <3>3. MutexExclusive'
      BY <2>1 DEF Start, StartRead, StartWrite, MutexExclusive, InMutex
    <3>4. LoadedExact'
      BY <2>1 DEF Start, StartRead, StartWrite, LoadedExact, MutexExclusive, InMutex
    <3>5. WExclusive'
      BY <2>1, <3>1, <3>2 DEF Start, StartRead, StartWrite, WExclusive, FirstAndLast, Writers, Covered, Counted, MutexExclusive, InMutex
    <3>6. FirstAndLast'
      BY <2>1, <3>1, <3>2 DEF Start, StartRead, StartWrite, FirstAndLast, Counted, MutexExclusive, InMutex
    <3> QED BY <3>2, <3>3, <3>4, <3>5, <3>6
  <2>2. ASSUME NEW t \in Workers, R_mutex(t) PROVE CountExact' /\ Rest'
    <3>1. Counted' = Counted
      BY <2>2 DEF R_mutex, Counted
    <3>2. CountExact'
      BY <2>2, <3>1 DEF R_mutex, CountExact
    <3>3. MutexExclusive'
      BY <2>2 DEF R_mutex, MutexExclusive, InMutex
    <3>4. LoadedExact'
      BY <2>2 DEF R_mutex, LoadedExact, MutexExclusive, InMutex
    <3>5. WExclusive'
      BY <2>2, <3>1, <3>2 DEF R_mutex, WExclusive, FirstAndLast, Writers, Covered, Counted, MutexExclusive, InMutex
    <3>6. FirstAndLast'
      BY <2>2, <3>1, <3>2 DEF R_mutex, FirstAndLast, Counted, MutexExclusive, InMutex
    <3> QED BY <3>2, <3>3, <3>4, <3>5, <3>6
  <2>3. ASSUME NEW t \in Workers, R_load(t) PROVE CountExact' /\ Rest'
    <3>1. Counted' = Counted
      BY <2>3 DEF R_load, Counted
    <3>2. CountExact'
      BY <2>3, <3>1 DEF R_load, CountExact
    <3>3. MutexExclusive'
      BY <2>3 DEF R_load, MutexExclusive, InMutex
    <3>4. LoadedExact'
      BY <2>3 DEF R_load, LoadedExact, MutexExclusive, InMutex
    <3>5. WExclusive'
      BY <2>3, <3>1, <3>2 DEF R_load, WExclusive, FirstAndLast, Writers, Covered, Counted, MutexExclusive, InMutex
    <3>6. FirstAndLast'
      BY <2>3, <3>1, <3>2 DEF R_load, FirstAndLast, Counted, MutexExclusive, InMutex
    <3> QED BY <3>2, <3>3, <3>4, <3>5, <3>6
  <2>4. ASSUME NEW t \in Workers, R_store(t) PROVE CountExact' /\ Rest'
    <3>1. t \notin Counted /\ Counted' = Counted \cup {t}
      BY <2>4 DEF R_store, Counted
    <3>2. CountExact'
      BY <2>4, <3>1, CountedFacts, FS_AddElement DEF R_store, CountExact, LoadedExact
    <3>3. MutexExclusive'
      BY <2>4 DEF R_store, MutexExclusive, InMutex
    <3>4. LoadedExact'
      BY <2>4 DEF R_store, LoadedExact, MutexExclusive, InMutex
    <3>5. WExclusive'
      BY <2>4, <3>1, <3>2, CountedFacts DEF R_store, CountExact, WExclusive, FirstAndLast, Writers, Covered, Counted, MutexExclusive, InMutex
    <3>6. FirstAndLast'
      BY <2>4, <3>1, <3>2, CountedFacts DEF R_store, CountExact, FirstAndLast, Counted, MutexExclusive, InMutex
    <3> QED BY <3>2, <3>3, <3>4, <3>5, <3>6
  <2>5. ASSUME NEW t \in Workers, R_test(t) PROVE CountExact' /\ Rest'
    <3>1. Counted' = Counted
      BY <2>5 DEF R_test, Counted
    <3>2. CountExact'
      BY <2>5, <3>1 DEF R_test, CountExact
    <3>3. MutexExclusive'
      BY <2>5 DEF R_test, MutexExclusive, InMutex
    <3>4. LoadedExact'
      BY <2>5 DEF R_test, LoadedExact, MutexExclusive, InMutex
    <3>5. WExclusive'
      BY <2>5, <3>1, <3>2, CountedFacts DEF R_test, CountExact, WExclusive, FirstAndLast, Writers, Covered, Counted, MutexExclusive, InMutex
    <3>6. FirstAndLast'
      BY <2>5, <3>1, <3>2, CountedFacts DEF R_test, CountExact, FirstAndLast, Counted, MutexExclusive, InMutex
    <3> QED BY <3>2, <3>3, <3>4, <3>5, <3>6
  <2>6. ASSUME NEW t \in Workers, R_w(t) PROVE CountExact' /\ Rest'
    <3>1. Counted' = Counted
      BY <2>6 DEF R_w, Counted
    <3>2. CountExact'
      BY <2>6, <3>1 DEF R_w, CountExact
    <3>3. MutexExclusive'
      BY <2>6 DEF R_w, MutexExclusive, InMutex
    <3>4. LoadedExact'
      BY <2>6 DEF R_w, LoadedExact, MutexExclusive, InMutex
    <3>5. WExclusive'
      BY <2>6, <3>1, <3>2 DEF R_w, WExclusive, FirstAndLast, Writers, Covered, Counted, MutexExclusive, InMutex
    <3>6. FirstAndLast'
      BY <2>6, <3>1, <3>2 DEF R_w, FirstAndLast, Counted, MutexExclusive, InMutex
    <3> QED BY <3>2, <3>3, <3>4, <3>5, <3>6
  <2>7. ASSUME NEW t \in Workers, R_unlock(t) PROVE CountExact' /\ Rest'
    <3>1. Counted' = Counted
      BY <2>7 DEF R_unlock, Counted
    <3>2. CountExact'
      BY <2>7, <3>1 DEF R_unlock, CountExact
    <3>3. MutexExclusive'
      BY <2>7 DEF R_unlock, MutexExclusive, InMutex
    <3>4. LoadedExact'
      BY <2>7 DEF R_unlock, LoadedExact, MutexExclusive, InMutex
    <3>5. WExclusive'
      BY <2>7, <3>1, <3>2 DEF R_unlock, WExclusive, FirstAndLast, Writers, Covered, Counted, MutexExclusive, InMutex
    <3>6. FirstAndLast'
      BY <2>7, <3>1, <3>2 DEF R_unlock, FirstAndLast, Counted, MutexExclusive, InMutex
    <3> QED BY <3>2, <3>3, <3>4, <3>5, <3>6
  <2>8. ASSUME NEW t \in Workers, EndRead(t) PROVE CountExact' /\ Rest'
    <3>1. Counted' = Counted
      BY <2>8 DEF EndRead, Counted
    <3>2. CountExact'
      BY <2>8, <3>1 DEF EndRead, CountExact
    <3>3. MutexExclusive'
      BY <2>8 DEF EndRead, MutexExclusive, InMutex
    <3>4. LoadedExact'
      BY <2>8 DEF EndRead, LoadedExact, MutexExclusive, InMutex
    <3>5. WExclusive'
      BY <2>8, <3>1, <3>2 DEF EndRead, WExclusive, FirstAndLast, Writers, Covered, Counted, MutexExclusive, InMutex
    <3>6. FirstAndLast'
      BY <2>8, <3>1, <3>2 DEF EndRead, FirstAndLast, Counted, MutexExclusive, InMutex
    <3> QED BY <3>2, <3>3, <3>4, <3>5, <3>6
  <2>9. ASSUME NEW t \in Workers, D_mutex(t) PROVE CountExact' /\ Rest'
    <3>1. Counted' = Counted
      BY <2>9 DEF D_mutex, Counted
    <3>2. CountExact'
      BY <2>9, <3>1 DEF D_mutex, CountExact
    <3>3. MutexExclusive'
      BY <2>9 DEF D_mutex, MutexExclusive, InMutex
    <3>4. LoadedExact'
      BY <2>9 DEF D_mutex, LoadedExact, MutexExclusive, InMutex
    <3>5. WExclusive'
      BY <2>9, <3>1, <3>2 DEF D_mutex, WExclusive, FirstAndLast, Writers, Covered, Counted, MutexExclusive, InMutex
    <3>6. FirstAndLast'
      BY <2>9, <3>1, <3>2 DEF D_mutex, FirstAndLast, Counted, MutexExclusive, InMutex
    <3> QED BY <3>2, <3>3, <3>4, <3>5, <3>6
  <2>10. ASSUME NEW t \in Workers, D_load(t) PROVE CountExact' /\ Rest'
    <3>1. Counted' = Counted
      BY <2>10 DEF D_load, Counted
    <3>2. CountExact'
      BY <2>10, <3>1 DEF D_load, CountExact
    <3>3. MutexExclusive'
      BY <2>10 DEF D_load, MutexExclusive, InMutex
    <3>4. LoadedExact'
      BY <2>10 DEF D_load, LoadedExact, MutexExclusive, InMutex
    <3>5. WExclusive'
      BY <2>10, <3>1, <3>2 DEF D_load, WExclusive, FirstAndLast, Writers, Covered, Counted, MutexExclusive, InMutex
    <3>6. FirstAndLast'
      BY <2>10, <3>1, <3>2 DEF D_load, FirstAndLast, Counted, MutexExclusive, InMutex
    <3> QED BY <3>2, <3>3, <3>4, <3>5, <3>6
  <2>11. ASSUME NEW t \in Workers, D_store(t) PROVE CountExact' /\ Rest'
    <3>1. t \in Counted /\ Counted' = Counted \ {t}
      BY <2>11 DEF D_store, Counted
    <3>2. CountExact'
      BY <2>11, <3>1, CountedFacts, FS_RemoveElement DEF D_store, CountExact, LoadedExact
    <3>3. MutexExclusive'
      BY <2>11 DEF D_store, MutexExclusive, InMutex
    <3>4. LoadedExact'
      BY <2>11 DEF D_store, LoadedExact, MutexExclusive, InMutex
    <3>5. WExclusive'
      <4>1. w = 0 /\ Writers = {} /\ UNCHANGED <<w, Writers>>
        BY <2>11 DEF D_store, WExclusive, Writers, Covered
      <4>2. Covered' # {}
        <5>1. CASE readcnt' = 0
          BY <2>11, <5>1 DEF D_store, Covered
        <5>2. CASE readcnt' # 0
          <6>1. Cardinality(Counted) # 1
            BY <2>11, <5>2 DEF D_store, CountExact, LoadedExact
          <6>2. PICK u \in Counted : u # t
            BY <6>1, <3>1, CountedFacts
          <6>3. pc[u] \in {"reading", "D_mutex"}
            BY <2>11, <6>2 DEF D_store, Counted, MutexExclusive, InMutex
          <6> QED BY <2>11, <6>2, <6>3 DEF D_store, Covered, Counted
        <5> QED BY <5>1, <5>2
      <4> QED BY <4>1, <4>2 DEF WExclusive
    <3>6. FirstAndLast'
      BY <2>11, <3>1, <3>2, CountedFacts DEF D_store, CountExact, FirstAndLast, Counted, MutexExclusive, InMutex
    <3> QED BY <3>2, <3>3, <3>4, <3>5, <3>6
  <2>12. ASSUME NEW t \in Workers, D_test(t) PROVE CountExact' /\ Rest'
    <3>1. Counted' = Counted
      BY <2>12 DEF D_test, Counted
    <3>2. CountExact'
      BY <2>12, <3>1 DEF D_test, CountExact
    <3>3. MutexExclusive'
      BY <2>12 DEF D_test, MutexExclusive, InMutex
    <3>4. LoadedExact'
      BY <2>12 DEF D_test, LoadedExact, MutexExclusive, InMutex
    <3>5. WExclusive'
      BY <2>12, <3>1, <3>2, CountedFacts DEF D_test, CountExact, WExclusive, FirstAndLast, Writers, Covered, Counted, MutexExclusive, InMutex
    <3>6. FirstAndLast'
      BY <2>12, <3>1, <3>2, CountedFacts DEF D_test, CountExact, FirstAndLast, Counted, MutexExclusive, InMutex
    <3> QED BY <3>2, <3>3, <3>4, <3>5, <3>6
  <2>13. ASSUME NEW t \in Workers, D_w(t) PROVE CountExact' /\ Rest'
    <3>1. Counted' = Counted
      BY <2>13 DEF D_w, Counted
    <3>2. CountExact'
      BY <2>13, <3>1 DEF D_w, CountExact
    <3>3. MutexExclusive'
      BY <2>13 DEF D_w, MutexExclusive, InMutex
    <3>4. LoadedExact'
      BY <2>13 DEF D_w, LoadedExact, MutexExclusive, InMutex
    <3>5. WExclusive'
      BY <2>13, <3>1, <3>2 DEF D_w, WExclusive, FirstAndLast, Writers, Covered, Counted, MutexExclusive, InMutex
    <3>6. FirstAndLast'
      BY <2>13, <3>1, <3>2 DEF D_w, FirstAndLast, Counted, MutexExclusive, InMutex
    <3> QED BY <3>2, <3>3, <3>4, <3>5, <3>6
  <2>14. ASSUME NEW t \in Workers, D_unlock(t) PROVE CountExact' /\ Rest'
    <3>1. Counted' = Counted
      BY <2>14 DEF D_unlock, Counted
    <3>2. CountExact'
      BY <2>14, <3>1 DEF D_unlock, CountExact
    <3>3. MutexExclusive'
      BY <2>14 DEF D_unlock, MutexExclusive, InMutex
    <3>4. LoadedExact'
      BY <2>14 DEF D_unlock, LoadedExact, MutexExclusive, InMutex
    <3>5. WExclusive'
      BY <2>14, <3>1, <3>2 DEF D_unlock, WExclusive, FirstAndLast, Writers, Covered, Counted, MutexExclusive, InMutex
    <3>6. FirstAndLast'
      BY <2>14, <3>1, <3>2 DEF D_unlock, FirstAndLast, Counted, MutexExclusive, InMutex
    <3> QED BY <3>2, <3>3, <3>4, <3>5, <3>6
  <2>15. ASSUME NEW t \in Workers, W_w(t) PROVE CountExact' /\ Rest'
    <3>1. Counted' = Counted
      BY <2>15 DEF W_w, Counted
    <3>2. CountExact'
      BY <2>15, <3>1 DEF W_w, CountExact
    <3>3. MutexExclusive'
      BY <2>15 DEF W_w, MutexExclusive, InMutex
    <3>4. LoadedExact'
      BY <2>15 DEF W_w, LoadedExact, MutexExclusive, InMutex
    <3>5. WExclusive'
      BY <2>15, <3>1, <3>2 DEF W_w, WExclusive, FirstAndLast, Writers, Covered, Counted, MutexExclusive, InMutex
    <3>6. FirstAndLast'
      BY <2>15, <3>1, <3>2 DEF W_w, FirstAndLast, Counted, MutexExclusive, InMutex
    <3> QED BY <3>2, <3>3, <3>4, <3>5, <3>6
  <2>16. ASSUME NEW t \in Workers, EndWrite(t) PROVE CountExact' /\ Rest'
    <3>1. Counted' = Counted
      BY <2>16 DEF EndWrite, Counted
    <3>2. CountExact'
      BY <2>16, <3>1 DEF EndWrite, CountExact
    <3>3. MutexExclusive'
      BY <2>16 DEF EndWrite, MutexExclusive, InMutex
    <3>4. LoadedExact'
      BY <2>16 DEF EndWrite, LoadedExact, MutexExclusive, InMutex
    <3>5. WExclusive'
      BY <2>16, <3>1, <3>2 DEF EndWrite, WExclusive, FirstAndLast, Writers, Covered, Counted, MutexExclusive, InMutex
    <3>6. FirstAndLast'
      BY <2>16, <3>1, <3>2 DEF EndWrite, FirstAndLast, Counted, MutexExclusive, InMutex
    <3> QED BY <3>2, <3>3, <3>4, <3>5, <3>6
  <2>17. ASSUME NEW t \in Workers, W_post(t) PROVE CountExact' /\ Rest'
    <3>1. Counted' = Counted
      BY <2>17 DEF W_post, Counted
    <3>2. CountExact'
      BY <2>17, <3>1 DEF W_post, CountExact
    <3>3. MutexExclusive'
      BY <2>17 DEF W_post, MutexExclusive, InMutex
    <3>4. LoadedExact'
      BY <2>17 DEF W_post, LoadedExact, MutexExclusive, InMutex
    <3>5. WExclusive'
      BY <2>17, <3>1, <3>2 DEF W_post, WExclusive, FirstAndLast, Writers, Covered, Counted, MutexExclusive, InMutex
    <3>6. FirstAndLast'
      BY <2>17, <3>1, <3>2 DEF W_post, FirstAndLast, Counted, MutexExclusive, InMutex
    <3> QED BY <3>2, <3>3, <3>4, <3>5, <3>6
  <2>18. CASE UNCHANGED lockVars
    <3>1. UNCHANGED <<Counted, InMutex, Writers, Covered>>
      BY <2>18 DEF lockVars, Counted, InMutex, Writers, Covered
    <3> QED BY <2>18, <3>1
            DEF lockVars, CountExact, MutexExclusive, LoadedExact, WExclusive, FirstAndLast
  <2> QED BY <2>1, <2>2, <2>3, <2>4, <2>5, <2>6, <2>7, <2>8, <2>9,
             <2>10, <2>11, <2>12, <2>13, <2>14, <2>15, <2>16, <2>17, <2>18
          DEF LockNext, Continue, Enter, Leave
<1> QED BY <1>1, <1>2

\* With lru->mutex = 1 a thread in lru_put is alone in the cache.
THEOREM WriterExclusion == ASSUME ReaderSameTime = 1
                           PROVE  LockSpec => []WriterIsAlone
<1>1. LockSpec => []LockInv
  BY LockInvInductive, PTL DEF LockSpec
<1>2. LockInv => WriterIsAlone
  BY DEF LockInv, WExclusive, WriterIsAlone, Writers, Covered
<1> QED BY <1>1, <1>2, PTL

\* With lru->mutex = 1 the lock returns to its initial state whenever nobody
\* is between its operations.
THEOREM LockReturns == ASSUME ReaderSameTime = 1
                       PROVE  LockSpec => []LockRestored
<1>1. LockSpec => []LockInv
  BY LockInvInductive, PTL DEF LockSpec
<1>2. LockInv => LockRestored
  <2> SUFFICES ASSUME LockInv, \A t \in Workers : pc[t] \in {"idle", "R_mutex", "W_w"}
               PROVE  readcnt = 0 /\ mutex = ReaderSameTime /\ w = 1
    BY DEF LockRestored
  <2>1. InMutex = {} /\ Counted = {} /\ Writers = {} /\ Covered = {}
    BY DEF InMutex, Counted, Writers, Covered
  <2> QED BY <2>1, CountedFacts DEF LockInv, CountExact, MutexExclusive, WExclusive
<1> QED BY <1>1, <1>2, PTL

-----------------------------------------------------------------------------
(* The cache. *)

EmptyPlaces == {"request", "fetch"}
ListPlaces  == {"find", "remove1", "remove2", "data", "malloc", "push1", "push2", "push3",
                "push4", "grow"}

-----------------------------------------------------------------------------
(* What a thread knows, however the threads interleave. *)

\* Where a thread is, in the lock code and in the list code.
PlaceOK(t) == /\ at[t] \in EmptyPlaces => pc[t] = "idle"
              /\ at[t] \in ListPlaces => Inside(t)

\* The call that it makes.
CallOK(t) == /\ at[t] # "request" => want[t] \in Keys
             /\ op[t] # "get" => want[t] \in Keys /\ val[t] \in Responses /\ val[t][1] = want[t]
             /\ at[t] = "fetch" => op[t] = "get"
             /\ at[t] = "data" => op[t] = "replace"
             /\ at[t] \in {"malloc", "grow"} => op[t] = "insert"
             /\ at[t] \in {"first", "find"} => op[t] \in {"get", "put"}
             /\ at[t] \in {"remove1", "remove2", "push1", "push2", "push3", "push4"} => op[t] # "put"

\* The cell for the url, once lru_find has found it.
HasFound(t) == \/ op[t] \in {"get", "replace"} /\ at[t] \in ListPlaces \ {"find"}
               \/ op[t] = "get" /\ at[t] = "out" /\ p[t] # Null
FoundOK(t) == /\ HasFound(t) => p[t] \in Cells /\ key[p[t]] = want[t]
              /\ at[t] = "remove2" => p[t] \in Nodes

\* A cell holds a response for its key, and one that is not allocated no key.
CellsOK == /\ \A n \in Cells : key[n] # None => data[n] \in Responses /\ data[n][1] = key[n]
           /\ \A n \in Cells : n > cells => key[n] = None

ThreadInv == TypeOK /\ CellsOK /\ \A t \in Workers : PlaceOK(t) /\ CallOK(t) /\ FoundOK(t)

\* The calls of lru_put that may still take a cell.
Pending == {t \in Workers : op[t] \in {"put", "insert"}
                            /\ at[t] \in {"first", "find", "remove1", "remove2", "malloc"}}
CellsLeft == cells + Cardinality(Pending) =< puts

-----------------------------------------------------------------------------
(* The list, as long as threads use it one at a time. *)

\* The nodes of the list whose cells are s, head and tail included.
Node(s, i) == IF i = 0 THEN HeadNode ELSE IF i = Len(s) + 1 THEN TailNode ELSE s[i]

Allocated(s) == /\ s \in Seq(Cells)
                /\ \A i \in 1 .. Len(s) : s[i] =< cells
                /\ \A i, j \in 1 .. Len(s) : s[i] = s[j] => i = j
                /\ next[TailNode] = Null /\ pre[HeadNode] = Null

NextIs(s, i) == next[Node(s, i)] = Node(s, i + 1)
PreIs(s, i)  == pre[Node(s, i + 1)] = Node(s, i)
Linked(s) == \A i \in 0 .. Len(s) : NextIs(s, i) /\ PreIs(s, i)

EntryAt(n) == [key |-> key[n], data |-> data[n]]
Entries(s) == [i \in 1 .. Len(s) |-> EntryAt(s[i])]
Without(s, i) == [j \in 1 .. Len(s) - 1 |-> IF j < i THEN s[j] ELSE s[j + 1]]

\* model is what the call of t makes of the entries l.
Called(t, l) ==
  \/ /\ op[t] = "get" /\ model = Cache!Touch(l, want[t])
     /\ modelSize = size /\ ~ modelCrashed
  \/ /\ op[t] = "put" /\ Cache!Hit(l, want[t]) /\ model = Cache!Replace(l, want[t], val[t])
     /\ modelSize = size /\ ~ modelCrashed
  \/ /\ op[t] = "put" /\ ~ Cache!Hit(l, want[t]) /\ (Capacity # size \/ l # <<>>)
     /\ model = Cache!Insert(l, size, want[t], val[t])
     /\ modelSize = size + 1 /\ ~ modelCrashed
  \/ /\ op[t] = "put" /\ ~ Cache!Hit(l, want[t]) /\ Capacity = size /\ l = <<>>
     /\ modelCrashed

\* What is left to do is to append this entry.
Last(t) == IF op[t] = "get" THEN EntryAt(p[t]) ELSE [key |-> want[t], data |-> val[t]]
Coming(t, l, e) == /\ model = Append(l, e) /\ ~ modelCrashed
                   /\ modelSize = IF op[t] = "insert" THEN size + 1 ELSE size

Fresh(t, s) == p[t] \in 1 .. cells /\ \A i \in 1 .. Len(s) : s[i] # p[t]

\* The list when t is at one of the places.
FindOK(t, s) == /\ at[t] = "find" /\ Linked(s) /\ Called(t, Entries(s))
                /\ \E i \in 1 .. Len(s) + 1 : p[t] = Node(s, i) /\ \A j \in 1 .. i - 1 : key[s[j]] # want[t]

RemoveOK(t, s) ==
  \E i \in 1 .. Len(s) :
     /\ p[t] = s[i] /\ Coming(t, Without(Entries(s), i), Last(t))
     /\ \/ at[t] = "remove1" /\ Linked(s)
        \/ /\ at[t] = "remove2"
           /\ \A j \in 0 .. Len(s) : NextIs(s, j) /\ (j # i => PreIs(s, j))
           /\ pre[Node(s, i + 1)] = Node(s, i - 1)

CrashOK(t, s) == /\ at[t] = "remove1" /\ op[t] = "insert" /\ modelCrashed
                 /\ s = <<>> /\ Linked(s) /\ p[t] = TailNode

\* SetData and Malloc come before push_back.
RemovedOK(t, s) == /\ Linked(s)
                   /\ \/ at[t] = "malloc" /\ Coming(t, Entries(s), Last(t))
                      \/ at[t] = "data" /\ Fresh(t, s) /\ Coming(t, Entries(s), Last(t))

PushOK(t, s) ==
  /\ Fresh(t, s) /\ Coming(t, Entries(s), EntryAt(p[t]))
  /\ \A i \in 0 .. Len(s) : PreIs(s, i) /\ (i # Len(s) => NextIs(s, i))
  /\ \/ at[t] = "push1" /\ NextIs(s, Len(s))
     \/ at[t] \in {"push2", "push3", "push4"} /\ next[Node(s, Len(s))] = p[t]
  /\ at[t] \in {"push3", "push4"} => pre[p[t]] = Node(s, Len(s))
  /\ at[t] = "push4" => next[p[t]] = TailNode

GrowOK(t, s) == /\ at[t] = "grow" /\ Linked(s) /\ model = Entries(s)
                /\ modelSize = size + 1 /\ ~ modelCrashed

SettledOK(s) == /\ Linked(s) /\ model = Entries(s) /\ modelSize = size /\ ~ modelCrashed

\* At most one thread is in the list code, and the list is as it left it.
Busy(t) == at[t] \in ListPlaces
StageOK(t, s) == \/ FindOK(t, s) \/ RemoveOK(t, s) \/ CrashOK(t, s) \/ RemovedOK(t, s)
                 \/ PushOK(t, s) \/ GrowOK(t, s)
ListOK(s) == /\ Allocated(s)
             /\ \/ (\A t \in Workers : ~ Busy(t)) /\ SettledOK(s)
                \/ \E t \in Workers : /\ \A u \in Workers \ {t} : ~ Busy(u)
                                      /\ StageOK(t, s)
LinkInv == alive /\ ~ overlap => \E s \in Seq(Cells) : ListOK(s)

-----------------------------------------------------------------------------
(* However the threads interleave: types, cells and what a thread knows *)

\* The steps of the lock.
LockMoves(t) == \/ StartRead(t) \/ Enter(t) \/ EndRead(t) \/ Leave(t)
                \/ StartWrite(t) \/ W_w(t) \/ EndWrite(t) \/ W_post(t)

\* The lock's types, and where its steps lead.
LEMMA LockTyped ==
  ASSUME LockTypeOK, NEW t \in Workers, LockMoves(t)
  PROVE  /\ LockTypeOK' /\ \A u \in Workers \ {t} : pc'[u] = pc[u]
         /\ Enter(t) \/ W_w(t) \/ Leave(t) \/ W_post(t)
              => pc[t] \notin {"idle", "reading", "writing"}
<1> USE DEF LockTypeOK, Goto
<1>1. CASE StartRead(t) \/ EndRead(t) \/ StartWrite(t) \/ EndWrite(t)
  BY <1>1 DEF StartRead, EndRead, StartWrite, EndWrite, Enter,
        R_mutex, R_load, R_store, R_test, R_w, R_unlock,
        Leave, D_mutex, D_load, D_store, D_test, D_w, D_unlock,
        W_w, W_post
<1>2. CASE Enter(t)
  BY <1>2 DEF Enter, R_mutex, R_load, R_store, R_test, R_w, R_unlock
<1>3. CASE Leave(t)
  BY <1>3 DEF Leave, D_mutex, D_load, D_store, D_test, D_w, D_unlock
<1>4. CASE W_w(t) \/ W_post(t)
  BY <1>4 DEF W_w, W_post
<1> QED BY <1>1, <1>2, <1>3, <1>4 DEF LockMoves

\* No step gives a cell another key.
KeyKept == \A n \in Cells : key[n] # None => key'[n] = key[n]

\* A thread that does not move knows what it knew.
LEMMA OthersKnow ==
  ASSUME ThreadInv, KeyKept, NEW u \in Workers,
         pc'[u] = pc[u], at'[u] = at[u], op'[u] = op[u], want'[u] = want[u], val'[u] = val[u],
         p'[u] = p[u]
  PROVE  PlaceOK(u)' /\ CallOK(u)' /\ FoundOK(u)'
<1>1. PlaceOK(u) /\ CallOK(u) /\ FoundOK(u)
  BY DEF ThreadInv
<1>2. PlaceOK(u)' /\ CallOK(u)'
  BY <1>1 DEF PlaceOK, CallOK, Inside
<1>3. FoundOK(u)'
  <2>1. at[u] \in ListPlaces \cup {"out"} => want[u] \in Keys
    BY <1>1 DEF CallOK, ListPlaces
  <2> QED BY <1>1, <2>1, LruAssumption DEF FoundOK, HasFound, KeyKept
<1> QED BY <1>2, <1>3

\* The threads' invariant, when one of them moves and keeps its own part.
LEMMA OneKnows ==
  ASSUME ThreadInv, KeyKept, NEW t \in Workers, TypeOK', CellsOK',
         PlaceOK(t)', CallOK(t)', FoundOK(t)',
         \A u \in Workers \ {t} : /\ pc'[u] = pc[u] /\ at'[u] = at[u] /\ op'[u] = op[u]
                                  /\ want'[u] = want[u] /\ val'[u] = val[u] /\ p'[u] = p[u]
  PROVE  ThreadInv'
<1>1. \A u \in Workers : PlaceOK(u)' /\ CallOK(u)' /\ FoundOK(u)'
  BY OthersKnow
<1> QED BY <1>1 DEF ThreadInv

\* doit and the lock.
LEMMA CallerStep ==
  ASSUME ThreadInv, NEW t \in Workers, doit(t) \/ LockStep(t) \/ EndSection(t)
  PROVE  /\ ThreadInv' /\ UNCHANGED <<heapVars, p, alive, ghostVars>>
         /\ at[t] \notin ListPlaces /\ at'[t] \notin ListPlaces
         /\ \A u \in Workers \ {t} : at'[u] = at[u] /\ op'[u] = op[u] /\ want'[u] = want[u] /\ val'[u] = val[u]
<1>0. TypeOK /\ CellsOK /\ PlaceOK(t) /\ CallOK(t) /\ FoundOK(t) /\ LockTypeOK
  BY DEF ThreadInv, TypeOK
<1>1. /\ UNCHANGED <<heapVars, p, alive, ghostVars>>
      /\ UNCHANGED <<next, pre, key, data, cells, size, p, alive>>
  BY DEF doit, Request, Returned, Store, GiveUp, Stored, LockStep, EndSection, heapVars, localVars
<1>2. CellsOK' /\ KeyKept
  BY <1>0, <1>1 DEF CellsOK, KeyKept
<1>3. /\ LockTypeOK' /\ \A u \in Workers \ {t} : pc'[u] = pc[u]
      /\ LockStep(t) => pc[t] \notin {"idle", "reading", "writing"}
  <2>1. LockMoves(t) \/ UNCHANGED lockVars
    BY DEF LockMoves, doit, Request, Returned, Store, GiveUp, Stored, LockStep, EndSection
  <2>2. CASE UNCHANGED lockVars
    BY <1>0, <2>1, <2>2, LockTyped DEF lockVars, LockTypeOK, LockStep, LockMoves
  <2>3. CASE LockMoves(t)
    BY <1>0, <2>3, LockTyped DEF LockStep
  <2> QED BY <2>1, <2>2, <2>3
<1>4. ASSUME /\ at' \in [Workers -> Places] /\ op' \in [Workers -> {"get", "put", "replace", "insert"}]
             /\ want' \in [Workers -> Keys \cup {None}] /\ val' \in [Workers -> Responses \cup {None}]
             /\ puts' \in 0 .. MaxPuts
      PROVE  TypeOK'
  BY <1>0, <1>1, <1>3, <1>4 DEF TypeOK
<1>5. \/ \E k \in Keys : Request(t, k)
      \/ Returned(t) \/ Store(t) \/ GiveUp(t) \/ Stored(t) \/ LockStep(t) \/ EndSection(t)
  BY DEF doit
<1> DEFINE Rest(u) == at'[u] = at[u] /\ op'[u] = op[u] /\ want'[u] = want[u] /\ val'[u] = val[u]
<1>6. CASE \E k \in Keys : Request(t, k)
  <2> PICK k \in Keys : Request(t, k)
    BY <1>6
  <2>1. /\ at[t] = "request" /\ at' = [at EXCEPT ![t] = "first"]
        /\ op' = [op EXCEPT ![t] = "get"] /\ want' = [want EXCEPT ![t] = k] /\ UNCHANGED <<val, puts>>
    BY DEF Request, Move
  <2>2. TypeOK'
    BY <1>0, <1>4, <2>1 DEF TypeOK, Places
  <2>3. at'[t] = "first" /\ op'[t] = "get" /\ want'[t] = k /\ \A u \in Workers \ {t} : Rest(u)
    BY <1>0, <2>1 DEF TypeOK
  <2>4. PlaceOK(t)' /\ CallOK(t)' /\ FoundOK(t)'
    BY <2>3 DEF PlaceOK, CallOK, FoundOK, HasFound, EmptyPlaces, ListPlaces
  <2> QED BY <1>1, <1>2, <1>3, <2>1, <2>2, <2>3, <2>4, OneKnows DEF ListPlaces
<1>7. CASE Returned(t)
  <2>1. /\ op[t] = "get" /\ pc' = pc /\ pc[t] = "idle" /\ at[t] = "out"
        /\ \E q \in {"fetch", "request"} : at' = [at EXCEPT ![t] = q]
        /\ UNCHANGED <<op, want, val, puts>>
    BY <1>7 DEF Returned, Move, lockVars, localVars
  <2>2. TypeOK'
    BY <1>0, <1>4, <2>1 DEF TypeOK, Places
  <2>3. at'[t] \in {"fetch", "request"} /\ \A u \in Workers \ {t} : Rest(u)
    BY <1>0, <2>1 DEF TypeOK
  <2>4. PlaceOK(t)' /\ CallOK(t)' /\ FoundOK(t)'
    BY <1>0, <2>1, <2>3 DEF PlaceOK, CallOK, FoundOK, HasFound, EmptyPlaces, ListPlaces
  <2> QED BY <1>1, <1>2, <1>3, <2>1, <2>2, <2>3, <2>4, OneKnows DEF ListPlaces
<1>8. CASE Store(t)
  <2>1. /\ at[t] = "fetch" /\ at' = [at EXCEPT ![t] = "first"] /\ want[t] \in Keys
        /\ op' = [op EXCEPT ![t] = "put"] /\ val' = [val EXCEPT ![t] = <<want[t], puts + 1>>]
        /\ puts < MaxPuts /\ puts' = puts + 1 /\ want' = want
    BY <1>0, <1>8 DEF Store, Move, CallOK
  <2>2. <<want[t], puts + 1>> \in Responses /\ puts' \in 0 .. MaxPuts
    BY <1>0, <2>1, LruAssumption DEF Responses, TypeOK
  <2>3. TypeOK'
    BY <1>0, <1>4, <2>1, <2>2 DEF TypeOK, Places
  <2>4. /\ at'[t] = "first" /\ op'[t] = "put" /\ val'[t] = <<want[t], puts + 1>>
        /\ \A u \in Workers \ {t} : Rest(u)
    BY <1>0, <2>1 DEF TypeOK
  <2>5. PlaceOK(t)' /\ CallOK(t)' /\ FoundOK(t)'
    BY <2>1, <2>2, <2>4 DEF PlaceOK, CallOK, FoundOK, HasFound, EmptyPlaces, ListPlaces
  <2> QED BY <1>1, <1>2, <1>3, <2>1, <2>3, <2>4, <2>5, OneKnows DEF ListPlaces
<1>9. CASE GiveUp(t) \/ Stored(t)
  <2>1. /\ pc' = pc /\ pc[t] = "idle" /\ at[t] \in {"fetch", "out"} /\ at' = [at EXCEPT ![t] = "request"]
        /\ UNCHANGED <<op, want, val, puts>>
    BY <1>0, <1>9 DEF GiveUp, Stored, Move, lockVars, localVars, PlaceOK, EmptyPlaces
  <2>2. TypeOK'
    BY <1>0, <1>4, <2>1 DEF TypeOK, Places
  <2>3. at'[t] = "request" /\ \A u \in Workers \ {t} : Rest(u)
    BY <1>0, <2>1 DEF TypeOK
  <2>4. PlaceOK(t)' /\ CallOK(t)' /\ FoundOK(t)'
    BY <1>0, <2>1, <2>3 DEF PlaceOK, CallOK, FoundOK, HasFound, EmptyPlaces, ListPlaces
  <2> QED BY <1>1, <1>2, <1>3, <2>1, <2>2, <2>3, <2>4, OneKnows DEF ListPlaces
<1>10. CASE LockStep(t) \/ EndSection(t)
  <2>1. UNCHANGED <<at, op, want, val, puts>>
    BY <1>10 DEF LockStep, EndSection, localVars
  <2>2. at[t] \notin EmptyPlaces \cup ListPlaces
    BY <1>0, <1>3, <1>10 DEF EndSection, PlaceOK, Inside, EmptyPlaces, ListPlaces
  <2>3. TypeOK'
    BY <1>0, <1>4, <2>1 DEF TypeOK
  <2>4. PlaceOK(t)' /\ CallOK(t)' /\ FoundOK(t)'
    BY <1>0, <1>1, <2>1, <2>2 DEF PlaceOK, CallOK, FoundOK, HasFound, ListPlaces
  <2> QED BY <1>1, <1>2, <1>3, <2>1, <2>2, <2>3, <2>4, OneKnows
<1> QED BY <1>5, <1>6, <1>7, <1>8, <1>9, <1>10

\* lru_find.
LEMMA FindStep ==
  ASSUME ThreadInv, NEW t \in Workers, find(t)
  PROVE  /\ ThreadInv' /\ UNCHANGED <<lockVars, heapVars, gets, puts, alive>>
         /\ \A u \in Workers \ {t} : at'[u] = at[u] /\ op'[u] = op[u] /\ want'[u] = want[u] /\ val'[u] = val[u]
<1>0. TypeOK /\ CellsOK /\ PlaceOK(t) /\ CallOK(t) /\ FoundOK(t) /\ LockTypeOK
  BY DEF ThreadInv, TypeOK
<1>1. /\ UNCHANGED <<lockVars, heapVars, gets, puts, alive>>
      /\ UNCHANGED <<readcnt, mutex, w, pc, tmp, next, pre, key, data, cells, size, puts, alive, want, val>>
  BY DEF find, FindFirst, FindNext, FindHit, GetMiss, PutMiss, heapVars, lockVars
<1>2. CellsOK' /\ KeyKept /\ LockTypeOK'
  BY <1>0, <1>1 DEF CellsOK, KeyKept, LockTypeOK
<1>3. \E a \in Places, o \in {"get", "put", "replace", "insert"}, n \in Nodes \cup {Null, Garbage} :
         /\ at' = [at EXCEPT ![t] = a] /\ op' = [op EXCEPT ![t] = o] /\ p' = [p EXCEPT ![t] = n]
         /\ a # "request" /\ at[t] \in {"first", "find"} /\ Inside(t)
         /\ \/ a = "find" /\ o \in {"get", "put"} /\ o = op[t]
            \/ a = "remove1" /\ o = (IF op[t] = "put" THEN "replace" ELSE op[t]) /\ n \in Cells /\ key[n] = want[t]
            \/ a = "out" /\ o = "get" /\ n = Null
            \/ a \in {"remove1", "malloc"} /\ o = "insert" /\ op[t] = "put"
  <2> USE DEF TypeOK, Move, Point, CallOK, Places
  <2>1. CASE FindFirst(t)
    <3>1. /\ at[t] = "first" /\ at' = [at EXCEPT ![t] = "find"] /\ p' = [p EXCEPT ![t] = next[HeadNode]]
          /\ op[t] \in {"get", "put"} /\ op' = [op EXCEPT ![t] = op[t]] /\ Inside(t)
      BY <1>0, <2>1 DEF FindFirst
    <3>2. next[HeadNode] \in Nodes \cup {Null, Garbage}
      BY <1>0 DEF Nodes
    <3> QED BY <3>1, <3>2
  <2>2. CASE FindNext(t)
    <3>1. /\ at[t] = "find" /\ at' = [at EXCEPT ![t] = "find"] /\ p' = [p EXCEPT ![t] = next[p[t]]]
          /\ op[t] \in {"get", "put"} /\ op' = [op EXCEPT ![t] = op[t]] /\ Inside(t)
      BY <1>0, <2>2 DEF FindNext
    <3>2. next[p[t]] \in Nodes \cup {Null, Garbage}
      BY <1>0, <2>2 DEF Nodes, FindNext
    <3> QED BY <3>1, <3>2
  <2>3. CASE FindHit(t)
    <3> DEFINE o == IF op[t] = "put" THEN "replace" ELSE op[t]
    <3>1. /\ at[t] = "find" /\ at' = [at EXCEPT ![t] = "remove1"] /\ p' = [p EXCEPT ![t] = p[t]]
          /\ op[t] \in {"get", "put"} /\ Inside(t) /\ p[t] \in Cells /\ key[p[t]] = want[t]
      BY <1>0, <2>3 DEF FindHit
    <3>2. op' = [op EXCEPT ![t] = o] /\ p[t] \in Nodes
      BY <3>1, <2>3 DEF FindHit, Nodes
    <3> QED BY <3>1, <3>2
  <2>4. CASE GetMiss(t)
    <3>1. /\ at[t] = "find" /\ at' = [at EXCEPT ![t] = "out"] /\ p' = [p EXCEPT ![t] = Null] /\ Inside(t)
          /\ op' = [op EXCEPT ![t] = "get"]
      BY <1>0, <2>4 DEF GetMiss
    <3> QED BY <3>1
  <2>5. CASE PutMiss(t)
    <3>1. /\ at[t] = "find" /\ p' = [p EXCEPT ![t] = next[HeadNode]] /\ Inside(t)
          /\ op' = [op EXCEPT ![t] = "insert"] /\ op[t] = "put"
          /\ \E a \in {"remove1", "malloc"} : at' = [at EXCEPT ![t] = a]
      BY <1>0, <2>5 DEF PutMiss
    <3>2. next[HeadNode] \in Nodes \cup {Null, Garbage}
      BY <1>0 DEF Nodes
    <3> QED BY <3>1, <3>2
  <2> QED BY <2>1, <2>2, <2>3, <2>4, <2>5 DEF find
<1>4. PICK a \in Places, o \in {"get", "put", "replace", "insert"}, n \in Nodes \cup {Null, Garbage} :
         /\ at' = [at EXCEPT ![t] = a] /\ op' = [op EXCEPT ![t] = o] /\ p' = [p EXCEPT ![t] = n]
         /\ a # "request" /\ at[t] \in {"first", "find"} /\ Inside(t)
         /\ \/ a = "find" /\ o \in {"get", "put"} /\ o = op[t]
            \/ a = "remove1" /\ o = (IF op[t] = "put" THEN "replace" ELSE op[t]) /\ n \in Cells /\ key[n] = want[t]
            \/ a = "out" /\ o = "get" /\ n = Null
            \/ a \in {"remove1", "malloc"} /\ o = "insert" /\ op[t] = "put"
  BY <1>3
<1>5. /\ at'[t] = a /\ op'[t] = o /\ p'[t] = n
      /\ \A u \in Workers \ {t} : at'[u] = at[u] /\ op'[u] = op[u] /\ p'[u] = p[u]
  BY <1>0, <1>4 DEF TypeOK
<1>6. TypeOK'
  BY <1>0, <1>1, <1>2, <1>4 DEF TypeOK
<1>7. PlaceOK(t)'
  BY <1>1, <1>4, <1>5 DEF PlaceOK, Inside, EmptyPlaces
<1>8. CallOK(t)' /\ FoundOK(t)'
  <2>1. want[t] \in Keys /\ op[t] \in {"get", "put"}
    BY <1>0, <1>4 DEF CallOK
  <2>2. op[t] # "get" => val[t] \in Responses /\ val[t][1] = want[t]
    BY <1>0 DEF CallOK
  <2>3. o # "get" => op[t] # "get"
    BY <1>4
  <2>4. CallOK(t)'
    BY <1>1, <1>4, <1>5, <2>1, <2>2, <2>3 DEF CallOK
  <2>5. FoundOK(t)'
    BY <1>1, <1>4, <1>5 DEF FoundOK, HasFound, ListPlaces
  <2> QED BY <2>4, <2>5
<1> QED BY <1>1, <1>2, <1>5, <1>6, <1>7, <1>8, OneKnows

\* lru_remove, push_back and what lies between them.
LEMMA RelinkStep ==
  ASSUME ThreadInv, NEW t \in Workers, relink(t), at[t] = "malloc" => cells < MaxPuts
  PROVE  /\ ThreadInv' /\ UNCHANGED <<lockVars, op, want, val, gets, puts, alive, ghostVars>>
         /\ Busy(t) /\ at[t] # "find" /\ \A u \in Workers \ {t} : at'[u] = at[u]
         /\ at[t] # "malloc" => UNCHANGED <<key, cells>>
<1>0. TypeOK /\ CellsOK /\ PlaceOK(t) /\ CallOK(t) /\ FoundOK(t) /\ LockTypeOK
  BY DEF ThreadInv, TypeOK
<1>1. /\ UNCHANGED <<lockVars, op, want, val, gets, puts, alive, ghostVars>>
      /\ UNCHANGED <<readcnt, mutex, w, pc, tmp>>
  BY DEF relink, Remove1, Remove2, SetData, Malloc, Push1, Push2, Push3, Push4, Grow, lockVars, localVars
<1>2. LockTypeOK'
  BY <1>0, <1>1 DEF LockTypeOK
<1>3. /\ Busy(t) /\ at[t] # "find"
      /\ \E a \in ListPlaces \cup {"out"} :
         /\ at' = [at EXCEPT ![t] = a]
         /\ op[t] \in {"get", "replace"} => p' = p
         /\ a \in {"remove1", "remove2"} => at[t] = "remove1" /\ p[t] \in Nodes /\ p' = p
         /\ a # "find" /\ op[t] # "put"
         /\ a \in {"data", "malloc", "grow"} => op[t] = IF a = "data" THEN "replace" ELSE "insert"
         /\ a = "out" => p' = p
  <2> USE DEF Move, Busy, ListPlaces, CallOK, localVars
  <2>1. CASE Remove1(t)
    BY <1>0, <2>1 DEF Remove1
  <2>2. CASE Remove2(t)
    <3>1. op[t] \in {"get", "replace", "insert"} /\ at[t] = "remove2" /\ p' = p
      BY <1>0, <2>2 DEF Remove2, TypeOK
    <3>2. at' = [at EXCEPT ![t] = IF op[t] = "get" THEN "push1" ELSE IF op[t] = "replace" THEN "data" ELSE "malloc"]
      BY <2>2, <3>1 DEF Remove2
    <3> QED BY <3>1, <3>2
  <2>3. CASE SetData(t) \/ Push1(t) \/ Push2(t) \/ Push3(t)
    BY <1>0, <2>3 DEF SetData, Push1, Push2, Push3
  <2>4. CASE Malloc(t)
    BY <1>0, <2>4 DEF Malloc
  <2>5. CASE Push4(t) \/ Grow(t)
    BY <1>0, <2>5 DEF Push4, Grow
  <2> QED BY <2>1, <2>2, <2>3, <2>4, <2>5 DEF relink
<1>4. /\ next' \in [Nodes -> Nodes \cup {Null, Garbage}] /\ pre' \in [Nodes -> Nodes \cup {Null, Garbage}]
      /\ p' \in [Workers -> Nodes \cup {Null, Garbage}] /\ \A u \in Workers \ {t} : p'[u] = p[u]
      /\ at' \in [Workers -> Places]
  <2>0. /\ next \in [Nodes -> Nodes \cup {Null, Garbage}] /\ pre \in [Nodes -> Nodes \cup {Null, Garbage}]
        /\ p \in [Workers -> Nodes \cup {Null, Garbage}] /\ TailNode \in Nodes
    BY <1>0 DEF TypeOK, Nodes
  <2>1. at' \in [Workers -> Places]
    BY <1>0, <1>3 DEF TypeOK, Places, ListPlaces
  <2>2. CASE Remove1(t)
    BY <2>0, <2>1, <2>2 DEF Remove1, localVars
  <2>3. CASE Remove2(t)
    <3>1. p[t] \in Nodes
      BY <1>0, <2>3 DEF FoundOK, HasFound, Remove2, Move
    <3> QED BY <2>0, <2>1, <2>3, <3>1 DEF Remove2, localVars
  <2>4. CASE SetData(t) \/ Grow(t)
    BY <2>0, <2>1, <2>4 DEF SetData, Grow, localVars
  <2>5. CASE Malloc(t)
    <3>1. cells + 1 \in Nodes
      BY <1>0, <2>5, LruAssumption DEF Malloc, Move, TypeOK, Nodes, Cells
    <3> QED BY <2>0, <2>1, <2>5, <3>1 DEF Malloc, Point
  <2>6. CASE Push1(t) \/ Push2(t) \/ Push3(t) \/ Push4(t)
    BY <2>0, <2>1, <2>6 DEF Push1, Push2, Push3, Push4, localVars
  <2> QED BY <2>2, <2>3, <2>4, <2>5, <2>6 DEF relink
<1>5. /\ CellsOK' /\ KeyKept /\ cells' \in 0 .. MaxPuts
      /\ key' \in [Cells -> Keys \cup {None}] /\ data' \in [Cells -> Responses \cup {None}]
      /\ at[t] # "malloc" => UNCHANGED <<key, cells>>
      /\ at[t] = "malloc" => p'[t] \in Cells /\ key'[p'[t]] = want[t]
  <2>1. CASE UNCHANGED <<key, data, cells>> /\ at[t] # "malloc"
    BY <1>0, <2>1 DEF CellsOK, KeyKept, TypeOK
  <2>2. CASE SetData(t)
    <3>1. /\ at[t] = "data" /\ op[t] = "replace" /\ p[t] \in Cells /\ key[p[t]] = want[t]
          /\ val[t] \in Responses /\ val[t][1] = want[t]
      BY <1>0, <2>2 DEF SetData, Move, CallOK, FoundOK, HasFound, ListPlaces
    <3>2. data' = [data EXCEPT ![p[t]] = val[t]] /\ UNCHANGED <<key, cells>>
      BY <2>2 DEF SetData
    <3> QED BY <1>0, <3>1, <3>2 DEF CellsOK, KeyKept, TypeOK
  <2>3. CASE Malloc(t)
    <3>1. /\ at[t] = "malloc" /\ op[t] = "insert" /\ want[t] \in Keys /\ cells + 1 \in Cells
          /\ val[t] \in Responses /\ val[t][1] = want[t] /\ cells \in 0 .. MaxPuts
      <4>1. at[t] = "malloc" /\ cells \in 0 .. MaxPuts /\ cells < MaxPuts
        BY <1>0, <2>3 DEF Malloc, Move, TypeOK
      <4>2. cells + 1 \in Cells
        BY <4>1, LruAssumption DEF Cells
      <4> QED BY <1>0, <4>1, <4>2 DEF CallOK
    <3>2. /\ data' = [data EXCEPT ![cells + 1] = val[t]] /\ key' = [key EXCEPT ![cells + 1] = want[t]]
          /\ cells' = cells + 1 /\ p' = [p EXCEPT ![t] = cells + 1]
      BY <2>3 DEF Malloc, Point
    <3>3. key \in [Cells -> Keys \cup {None}] /\ data \in [Cells -> Responses \cup {None}]
          /\ p \in [Workers -> Nodes \cup {Null, Garbage}]
      BY <1>0 DEF TypeOK
    <3>4. key[cells + 1] = None
      BY <1>0, <3>1 DEF CellsOK
    <3>5. cells' \in 0 .. MaxPuts
      BY <3>1, <3>2 DEF Cells
    <3>6. /\ key'[cells + 1] = want[t] /\ data'[cells + 1] = val[t]
          /\ \A n \in Cells \ {cells + 1} : key'[n] = key[n] /\ data'[n] = data[n]
      BY <3>1, <3>2, <3>3
    <3>7. CellsOK'
      <4>1. \A n \in Cells : n > cells + 1 => n > cells /\ n # cells + 1
        BY <3>1 DEF Cells
      <4> QED BY <1>0, <3>1, <3>2, <3>6, <4>1 DEF CellsOK
    <3>8. KeyKept
      BY <3>4, <3>6 DEF KeyKept
    <3> QED BY <3>1, <3>2, <3>3, <3>5, <3>7, <3>8
  <2>4. (UNCHANGED <<key, data, cells>> /\ at[t] # "malloc") \/ SetData(t) \/ Malloc(t)
    BY DEF relink, Remove1, Remove2, Push1, Push2, Push3, Push4, Grow, Move
  <2> QED BY <2>1, <2>2, <2>3, <2>4
<1>6. TypeOK'
  BY <1>0, <1>1, <1>2, <1>4, <1>5 DEF TypeOK
<1>7. PICK a \in ListPlaces \cup {"out"} :
         /\ at' = [at EXCEPT ![t] = a]
         /\ op[t] \in {"get", "replace"} => p' = p
         /\ a \in {"remove1", "remove2"} => at[t] = "remove1" /\ p[t] \in Nodes /\ p' = p
         /\ a # "find" /\ op[t] # "put"
         /\ a \in {"data", "malloc", "grow"} => op[t] = IF a = "data" THEN "replace" ELSE "insert"
         /\ a = "out" => p' = p
  BY <1>3
<1>8. at'[t] = a /\ \A u \in Workers \ {t} : at'[u] = at[u]
  BY <1>0, <1>7 DEF TypeOK
<1>9. PlaceOK(t)'
  BY <1>0, <1>1, <1>3, <1>7, <1>8 DEF PlaceOK, Inside, EmptyPlaces, ListPlaces, Busy
<1>10. CallOK(t)'
  <2>1. want[t] \in Keys
    BY <1>0, <1>3 DEF CallOK, Busy, ListPlaces
  <2> QED BY <1>0, <1>1, <1>7, <1>8, <2>1 DEF CallOK, ListPlaces
<1>11. FoundOK(t)'
  <2>1. ASSUME op[t] \in {"get", "replace"} PROVE p'[t] \in Cells /\ key'[p'[t]] = want[t]
    <3>1. p'[t] = p[t] /\ p[t] \in Cells /\ key[p[t]] = want[t]
      BY <1>0, <1>3, <1>7, <2>1 DEF FoundOK, HasFound, Busy
    <3>2. want[t] \in Keys
      BY <1>0, <1>3 DEF CallOK, Busy, ListPlaces
    <3> QED BY <1>5, <3>1, <3>2, LruAssumption DEF KeyKept
  <2> QED BY <1>0, <1>1, <1>7, <1>8, <2>1 DEF FoundOK, HasFound
<1> QED BY <1>1, <1>3, <1>4, <1>5, <1>6, <1>8, <1>9, <1>10, <1>11, OneKnows

\* Nothing but lru_put being called makes a thread pending, and only Malloc
\* takes a cell.
LEMMA CountStep ==
  ASSUME CellsLeft, TypeOK, TypeOK', NEW t \in Workers,
         \A u \in Workers \ {t} : at'[u] = at[u] /\ op'[u] = op[u],
         \/ cells' = cells /\ puts' = puts /\ (t \in Pending' => t \in Pending)
         \/ cells' = cells /\ puts' = puts + 1
         \/ cells' = cells + 1 /\ puts' = puts /\ t \in Pending \ Pending'
  PROVE  CellsLeft'
<1>1. Pending \subseteq Workers /\ Pending' \subseteq Workers /\ IsFiniteSet(Workers)
  BY WorkersAssumption DEF Pending
<1>2. Pending' \ {t} = Pending \ {t}
  BY DEF Pending
<1>3. IsFiniteSet(Pending) /\ IsFiniteSet(Pending')
  BY <1>1, FS_Subset
<1>4. /\ Cardinality(Pending) \in Nat /\ Cardinality(Pending') \in Nat
      /\ cells \in Int /\ puts \in Int
  BY <1>3, FS_CardinalityType DEF TypeOK
<1>5. CASE cells' = cells /\ puts' = puts /\ (t \in Pending' => t \in Pending)
  <2>1. Pending' \subseteq Pending
    BY <1>2, <1>5
  <2>2. Cardinality(Pending') =< Cardinality(Pending)
    BY <1>3, <2>1, FS_Subset
  <2> QED BY <1>4, <1>5, <2>2 DEF CellsLeft
<1>6. CASE cells' = cells /\ puts' = puts + 1
  <2>1. Pending' \subseteq Pending \cup {t} /\ IsFiniteSet(Pending \cup {t})
    BY <1>2, <1>3, FS_AddElement
  <2>2. /\ Cardinality(Pending') =< Cardinality(Pending \cup {t})
        /\ Cardinality(Pending \cup {t}) =< Cardinality(Pending) + 1
        /\ Cardinality(Pending \cup {t}) \in Nat
    BY <1>3, <1>4, <2>1, FS_Subset, FS_AddElement, FS_CardinalityType
  <2> QED BY <1>4, <1>6, <2>2 DEF CellsLeft
<1>7. CASE cells' = cells + 1 /\ puts' = puts /\ t \in Pending \ Pending'
  <2>1. Pending' = Pending \ {t} /\ t \in Pending
    BY <1>2, <1>7
  <2>2. Cardinality(Pending') = Cardinality(Pending) - 1
    BY <1>3, <2>1, FS_RemoveElement
  <2> QED BY <1>4, <1>7, <2>2 DEF CellsLeft
<1> QED BY <1>5, <1>6, <1>7

\* The call at malloc is one of them, so there is a cell for it.
LEMMA CellForMalloc ==
  ASSUME TypeOK, CellsLeft, NEW t \in Workers, at[t] = "malloc", op[t] = "insert"
  PROVE  cells < MaxPuts
<1>1. t \in Pending /\ Pending \subseteq Workers
  BY DEF Pending
<1>2. IsFiniteSet(Pending)
  BY <1>1, WorkersAssumption, FS_Subset
<1>3. Cardinality(Pending) \in Nat /\ Cardinality(Pending) # 0
  BY <1>1, <1>2, FS_CardinalityType, FS_EmptySet
<1> QED BY <1>3, LruAssumption DEF CellsLeft, TypeOK

ThreadStep(t) == \/ doit(t) \/ LockStep(t) \/ EndSection(t) \/ find(t) \/ relink(t) \/ Wild(t)

\* What the threads know is inductive.
LEMMA ThreadInvKept == ThreadInv /\ CellsLeft /\ [Next]_vars => (ThreadInv /\ CellsLeft)'
<1> SUFFICES ASSUME ThreadInv, CellsLeft, [Next]_vars PROVE (ThreadInv /\ CellsLeft)'
  OBVIOUS
<1>0. TypeOK /\ \A t \in Workers : CallOK(t)
  BY DEF ThreadInv
<1>1. CASE UNCHANGED vars
  <2>1. /\ UNCHANGED <<readcnt, mutex, w, pc, tmp, next, pre, key, data, cells, size, op, want, val, p,
                        gets, puts, at, alive>>
    BY <1>1 DEF vars, lockVars, heapVars, localVars
  <2>2. TypeOK' /\ CellsOK'
    BY <2>1 DEF ThreadInv, TypeOK, LockTypeOK, CellsOK
  <2>3. \A t \in Workers : PlaceOK(t)' /\ CallOK(t)' /\ FoundOK(t)'
    BY <2>1 DEF ThreadInv, PlaceOK, CallOK, FoundOK, HasFound, Inside
  <2> QED BY <2>1, <2>2, <2>3 DEF ThreadInv, CellsLeft, Pending
<1>2. ASSUME NEW t \in Workers, doit(t) \/ LockStep(t) \/ EndSection(t) PROVE (ThreadInv /\ CellsLeft)'
  <2>1. /\ ThreadInv' /\ cells' = cells /\ \A u \in Workers \ {t} : at'[u] = at[u] /\ op'[u] = op[u]
    BY <1>2, CallerStep DEF heapVars
  <2>2. TypeOK'
    BY <2>1 DEF ThreadInv
  <2>3. CASE Store(t)
    BY <1>0, <2>1, <2>2, <2>3, CountStep DEF Store
  <2>4. CASE \E k \in Keys : Request(t, k)
    BY <1>0, <2>1, <2>2, <2>4, CountStep DEF Request, Pending, TypeOK
  <2>5. CASE Returned(t) \/ GiveUp(t) \/ Stored(t)
    <3>1. at'[t] \in {"fetch", "request"} /\ puts' = puts
      BY <1>0, <2>5 DEF Returned, GiveUp, Stored, Move, localVars, TypeOK
    <3> QED BY <1>0, <2>1, <2>2, <3>1, CountStep DEF Pending
  <2>6. CASE LockStep(t) \/ EndSection(t)
    <3>1. UNCHANGED <<at, op, puts>>
      BY <2>6 DEF LockStep, EndSection, localVars
    <3> QED BY <1>0, <2>1, <2>2, <3>1, CountStep DEF Pending
  <2> QED BY <1>2, <2>1, <2>3, <2>4, <2>5, <2>6 DEF doit
<1>3. ASSUME NEW t \in Workers, find(t) PROVE (ThreadInv /\ CellsLeft)'
  <2>1. /\ ThreadInv' /\ cells' = cells /\ puts' = puts
        /\ \A u \in Workers \ {t} : at'[u] = at[u] /\ op'[u] = op[u]
    BY <1>3, FindStep DEF heapVars
  <2>2. t \in Pending' => t \in Pending
    <3>1. op'[t] \in {"put", "insert"} => op[t] = "put" /\ at[t] \in {"first", "find"}
      BY <1>0, <1>3 DEF find, FindFirst, FindNext, FindHit, GetMiss, PutMiss, Move, TypeOK, CallOK
    <3> QED BY <3>1 DEF Pending
  <2> QED BY <1>0, <2>1, <2>2, CountStep DEF ThreadInv
<1>4. ASSUME NEW t \in Workers, relink(t) PROVE (ThreadInv /\ CellsLeft)'
  <2>1. at[t] = "malloc" => cells < MaxPuts
    BY <1>0, CellForMalloc DEF CallOK
  <2>2. /\ ThreadInv' /\ puts' = puts /\ op' = op /\ \A u \in Workers \ {t} : at'[u] = at[u]
        /\ at[t] # "malloc" => cells' = cells
    BY <1>4, <2>1, RelinkStep
  <2>3. CASE at[t] = "malloc"
    <3>1. Malloc(t)
      BY <1>4, <2>3 DEF relink, Remove1, Remove2, SetData, Push1, Push2, Push3, Push4, Grow, Move
    <3>2. cells' = cells + 1 /\ at'[t] = "push1"
      BY <1>0, <3>1 DEF Malloc, Move, TypeOK
    <3>3. t \in Pending \ Pending'
      BY <1>0, <2>3, <3>2 DEF Pending, CallOK
    <3> QED BY <1>0, <2>2, <3>2, <3>3, CountStep DEF ThreadInv
  <2>4. CASE at[t] # "malloc"
    <3>1. at'[t] \in {"remove1", "remove2", "malloc", "first", "find"} => at[t] \in {"remove1", "remove2"}
      BY <1>0, <1>4, <2>4 DEF relink, Remove1, Remove2, SetData, Malloc, Push1, Push2, Push3, Push4, Grow,
            Move, TypeOK
    <3>2. t \in Pending' => t \in Pending
      BY <2>2, <3>1 DEF Pending
    <3> QED BY <1>0, <2>2, <2>4, <3>2, CountStep DEF ThreadInv
  <2> QED BY <2>3, <2>4
<1>5. ASSUME NEW t \in Workers, Wild(t) PROVE (ThreadInv /\ CellsLeft)'
  <2>1. /\ UNCHANGED <<readcnt, mutex, w, pc, tmp, next, pre, key, data, cells, size, op, want, val, p,
                        gets, puts, at>> /\ alive' = FALSE
    BY <1>5 DEF Wild, lockVars, heapVars, localVars
  <2>2. TypeOK' /\ CellsOK'
    BY <2>1 DEF ThreadInv, TypeOK, LockTypeOK, CellsOK
  <2>3. \A u \in Workers : PlaceOK(u)' /\ CallOK(u)' /\ FoundOK(u)'
    BY <2>1 DEF ThreadInv, PlaceOK, CallOK, FoundOK, HasFound, Inside
  <2> QED BY <2>1, <2>2, <2>3 DEF ThreadInv, CellsLeft, Pending
<1> QED BY <1>1, <1>2, <1>3, <1>4, <1>5 DEF Next

\* What the threads know, in every reachable state.
LEMMA ThreadInvHolds == Spec => [](ThreadInv /\ CellsLeft)
<1>1. ASSUME Init PROVE ThreadInv /\ CellsLeft
  <2>1. LockTypeOK
    BY <1>1, ReaderSameTimeAssumption DEF Init, LockInit, LockTypeOK
  <2>2. TypeOK
    BY <1>1, <2>1, LruAssumption DEF Init, TypeOK, Nodes, Cells, HeadNode, TailNode, Places
  <2>3. CellsOK
    BY <1>1 DEF Init, CellsOK
  <2>4. \A t \in Workers : PlaceOK(t) /\ CallOK(t) /\ FoundOK(t)
    BY <1>1 DEF Init, LockInit, PlaceOK, CallOK, FoundOK, HasFound, ListPlaces
  <2>5. Pending = {} /\ cells = 0 /\ puts = 0
    BY <1>1 DEF Init, Pending
  <2> QED BY <2>2, <2>3, <2>4, <2>5, FS_EmptySet DEF ThreadInv, CellsLeft
<1> QED BY <1>1, ThreadInvKept, PTL DEF Spec

\* However the threads interleave, every variable keeps its type.
THEOREM TypeCorrect == Spec => []TypeOK
<1>1. ThreadInv => TypeOK
  BY DEF ThreadInv
<1> QED BY <1>1, ThreadInvHolds, PTL

\* A hit is answered with a response that was stored for the url asked for,
\* however the threads interleave: what lru_get returns is a cell that lru_find
\* compared with the url, and no cell ever changes its key.
THEOREM AnswersAreForTheUrl == Spec => []HitIsForUrl
<1>1. ThreadInv => HitIsForUrl
  <2> SUFFICES ASSUME ThreadInv, NEW t \in Workers, op[t] = "get", at[t] = "out", p[t] # Null
               PROVE  p[t] \in Cells /\ data[p[t]][1] = want[t]
    BY DEF HitIsForUrl
  <2>1. p[t] \in Cells /\ key[p[t]] = want[t] /\ want[t] \in Keys
    BY DEF ThreadInv, FoundOK, HasFound, CallOK
  <2> QED BY <2>1, LruAssumption DEF ThreadInv, CellsOK
<1> QED BY <1>1, ThreadInvHolds, PTL

-----------------------------------------------------------------------------
(* What the operators of LruCache do to a sequence of entries *)

\* A set of natural numbers has a least one.
LEMMA Least == ASSUME NEW S, S \subseteq Nat, S # {}
               PROVE  \E i \in S : \A j \in S : i =< j
<1>1. PICK i \in S : \A j \in S : ~ (<<j, i>> \in OpToRel(<, Nat))
  BY NatLessThanWellFounded, WFMin, Zenon
<1>2. \A j \in S : <<j, i>> \in OpToRel(<, Nat) <=> j < i
  BY DEF OpToRel
<1>3. \A j \in S : ~ (j < i)
  BY <1>1, <1>2, Zenon
<1>4. \A j \in S : i =< j
  BY <1>3
<1> QED BY <1>4

\* lru_find: the first entry with the key, or none.
LEMMA FindIs ==
  ASSUME NEW S, NEW l \in Seq(S), NEW k
  PROVE  /\ Cache!Find(l, k) = 0 => \A j \in 1 .. Len(l) : l[j].key # k
         /\ Cache!Find(l, k) # 0 => /\ Cache!Find(l, k) \in 1 .. Len(l) /\ l[Cache!Find(l, k)].key = k
                                    /\ \A j \in 1 .. Cache!Find(l, k) - 1 : l[j].key # k
<1> DEFINE hits == {i \in DOMAIN l : l[i].key = k}
<1>1. DOMAIN l = 1 .. Len(l) /\ Len(l) \in Nat /\ hits \subseteq 1 .. Len(l)
  OBVIOUS
<1>2. CASE hits = {}
  BY <1>1, <1>2 DEF Cache!Find
<1>3. CASE hits # {}
  <2>1. hits \subseteq Nat
    BY <1>1
  <2>2. \E i \in hits : \A j \in hits : i =< j
    BY <1>3, <2>1, Least
  <2> HIDE DEF hits
  <2>3. Cache!Find(l, k) = CHOOSE i \in hits : \A j \in hits : i =< j
    BY <1>3 DEF Cache!Find, hits
  <2>4. Cache!Find(l, k) \in hits /\ \A j \in hits : Cache!Find(l, k) =< j
    BY <2>2, <2>3
  <2> QED BY <1>1, <2>4 DEF hits
<1> QED BY <1>2, <1>3

\* lru_find returns the first entry with the key.
LEMMA FindFirstHit ==
  ASSUME NEW S, NEW l \in Seq(S), NEW k, NEW i \in 1 .. Len(l), l[i].key = k,
         \A j \in 1 .. i - 1 : l[j].key # k
  PROVE  Cache!Find(l, k) = i
<1>1. Cache!Find(l, k) # 0
  BY FindIs
<1>2. /\ Cache!Find(l, k) \in 1 .. Len(l) /\ l[Cache!Find(l, k)].key = k
      /\ \A j \in 1 .. Cache!Find(l, k) - 1 : l[j].key # k
  BY <1>1, FindIs
<1> QED BY <1>2

\* lru_find returns 0 if there is no entry with the key.
LEMMA FindNothing ==
  ASSUME NEW S, NEW l \in Seq(S), NEW k, \A j \in 1 .. Len(l) : l[j].key # k
  PROVE  Cache!Find(l, k) = 0
BY FindIs

\* lru_remove: RemoveAt and Tail drop one entry and keep the order of the others.
LEMMA WithoutIs ==
  ASSUME NEW S, NEW l \in Seq(S), NEW i \in 1 .. Len(l)
  PROVE  /\ Without(l, i) \in Seq(S) /\ Len(Without(l, i)) = Len(l) - 1
         /\ \A j \in 1 .. Len(l) - 1 : Without(l, i)[j] = IF j < i THEN l[j] ELSE l[j + 1]
         /\ Cache!RemoveAt(l, i) = Without(l, i)
         /\ i = 1 => Tail(l) = Without(l, i)
<1>1. Without(l, i) \in Seq(S) /\ Len(Without(l, i)) = Len(l) - 1
  <2>1. Without(l, i) \in [1 .. Len(l) - 1 -> S] /\ Len(l) - 1 \in Nat
    BY DEF Without
  <2> QED BY <2>1, IsASeq
<1>2. \A j \in 1 .. Len(l) - 1 : Without(l, i)[j] = IF j < i THEN l[j] ELSE l[j + 1]
  BY DEF Without
<1>3. Cache!RemoveAt(l, i) = Without(l, i)
  <2> DEFINE a == SubSeq(l, 1, i - 1)
             b == SubSeq(l, i + 1, Len(l))
  <2>1. /\ a \in Seq(S) /\ Len(a) = i - 1 /\ \A j \in 1 .. i - 1 : a[j] = l[j]
    <3>1. 1 \in 1 .. Len(l) + 1 /\ i - 1 \in 1 - 1 .. Len(l)
      OBVIOUS
    <3> QED BY <3>1, SubSeqProperties
  <2>2. /\ b \in Seq(S) /\ Len(b) = Len(l) - i /\ \A j \in 1 .. Len(l) - i : b[j] = l[i + j]
    <3>1. i + 1 \in 1 .. Len(l) + 1 /\ Len(l) \in (i + 1) - 1 .. Len(l)
      OBVIOUS
    <3> QED BY <3>1, SubSeqProperties
  <2> HIDE DEF a, b
  <2>3. /\ a \o b \in Seq(S) /\ Len(a \o b) = Len(l) - 1
        /\ \A j \in 1 .. Len(l) - 1 : (a \o b)[j] = IF j < i THEN l[j] ELSE l[j + 1]
    BY <2>1, <2>2
  <2>4. a \o b = Without(l, i)
    BY <1>1, <1>2, <2>3, SeqEqual
  <2> QED BY <2>4 DEF Cache!RemoveAt, a, b
<1>4. i = 1 => Tail(l) = Without(l, i)
  BY <1>1, <1>2, SeqEqual
<1> QED BY <1>1, <1>2, <1>3, <1>4

-----------------------------------------------------------------------------
(* What the calls make of the cache *)

DistinctKeys(l) == \A i, j \in 1 .. Len(l) : l[i].key = l[j].key => i = j

\* LeastRecentlyUsed, of a list and the next one.
KeepsOrder(l, m) ==
  \A i, j \in DOMAIN l :
     LET a == l[i].key  b == l[j].key
     IN  i < j /\ Cache!Hit(m, a)
           => /\ Cache!Hit(m, b)
              /\ \/ Cache!Find(m, a) < Cache!Find(m, b)
                 \/ Cache!Find(m, a) = Len(m)

\* In a list without duplicates, lru_find returns the entry with the key.
LEMMA FindDistinct ==
  ASSUME NEW S, NEW m \in Seq(S), DistinctKeys(m), NEW i \in 1 .. Len(m)
  PROVE  Cache!Find(m, m[i].key) = i
<1>1. \A j \in 1 .. i - 1 : m[j].key # m[i].key
  BY DEF DistinctKeys
<1> QED BY <1>1, FindFirstHit

\* An entry leaves and one comes: the entry for the same key, or for a new key
\* in place of the first.
LEMMA EntryMoved ==
  ASSUME NEW S, NEW l \in Seq(S), DistinctKeys(l), NEW i \in 1 .. Len(l), NEW e \in S,
         \/ e.key = l[i].key
         \/ i = 1 /\ \A j \in 1 .. Len(l) : l[j].key # e.key,
         NEW m, m = Append(Without(l, i), e)
  PROVE  m \in Seq(S) /\ DistinctKeys(m) /\ KeepsOrder(l, m)
<1> DEFINE At(x) == IF x < i THEN x ELSE x + 1
<1>1. /\ m \in Seq(S) /\ Len(m) = Len(l) /\ m[Len(l)] = e
      /\ \A x \in 1 .. Len(l) - 1 : m[x] = l[At(x)]
  <2>1. /\ Without(l, i) \in Seq(S) /\ Len(Without(l, i)) = Len(l) - 1
        /\ \A x \in 1 .. Len(l) - 1 : Without(l, i)[x] = l[At(x)]
    BY WithoutIs
  <2> QED BY <2>1
<1>2. \A x \in 1 .. Len(l) - 1 : At(x) \in 1 .. Len(l) /\ At(x) # i
  OBVIOUS
<1>3. \A x \in 1 .. Len(l) - 1 : m[x].key # e.key
  BY <1>1, <1>2 DEF DistinctKeys
<1>4. DistinctKeys(m)
  <2> SUFFICES ASSUME NEW x \in 1 .. Len(m), NEW y \in 1 .. Len(m), m[x].key = m[y].key PROVE x = y
    BY DEF DistinctKeys
  <2>1. CASE x = Len(l) \/ y = Len(l)
    BY <1>1, <1>3, <2>1
  <2>2. CASE x # Len(l) /\ y # Len(l)
    <3>1. x \in 1 .. Len(l) - 1 /\ y \in 1 .. Len(l) - 1
      BY <1>1, <2>2
    <3>2. At(x) = At(y)
      BY <1>1, <1>2, <3>1 DEF DistinctKeys
    <3> QED BY <3>1, <3>2
  <2> QED BY <2>1, <2>2
<1>5. \A x \in 1 .. Len(m) : Cache!Find(m, m[x].key) = x
  BY <1>1, <1>4, FindDistinct
<1> DEFINE Pos(x) == IF x < i THEN x ELSE x - 1
<1>6. \A x \in 1 .. Len(l) : x # i => Cache!Find(m, l[x].key) = Pos(x) /\ Pos(x) \in 1 .. Len(l) - 1
  <2> TAKE x \in 1 .. Len(l)
  <2> HAVE x # i
  <2>1. Pos(x) \in 1 .. Len(l) - 1 /\ At(Pos(x)) = x
    OBVIOUS
  <2>2. PICK y \in 1 .. Len(l) - 1 : y = Pos(x) /\ At(y) = x
    BY <2>1
  <2>3. m[y] = l[x] /\ y \in 1 .. Len(m)
    <3>1. m[y] = l[At(y)] /\ At(y) = x
      BY <1>1, <2>2, Zenon
    <3>2. y \in 1 .. Len(m)
      BY <1>1
    <3> HIDE DEF At
    <3> QED BY <3>1, <3>2
  <2> QED BY <1>5, <2>1, <2>2, <2>3
<1>7. Cache!Hit(m, l[i].key) => e.key = l[i].key /\ Cache!Find(m, l[i].key) = Len(m)
  <2>1. e.key = l[i].key => Cache!Find(m, l[i].key) = Len(m)
    BY <1>1, <1>5
  <2>2. e.key # l[i].key => \A x \in 1 .. Len(m) : m[x].key # l[i].key
    BY <1>1, <1>2 DEF DistinctKeys
  <2>3. e.key # l[i].key => Cache!Find(m, l[i].key) = 0
    BY <1>1, <2>2, FindNothing
  <2> QED BY <2>1, <2>3 DEF Cache!Hit
<1>8. KeepsOrder(l, m)
  <2> SUFFICES ASSUME NEW x \in 1 .. Len(l), NEW y \in 1 .. Len(l), x < y, Cache!Hit(m, l[x].key)
               PROVE  /\ Cache!Hit(m, l[y].key)
                      /\ \/ Cache!Find(m, l[x].key) < Cache!Find(m, l[y].key)
                         \/ Cache!Find(m, l[x].key) = Len(m)
    BY DEF KeepsOrder
  <2>1. CASE x = i
    BY <1>6, <1>7, <2>1 DEF Cache!Hit
  <2>2. CASE y = i
    <3>1. e.key = l[i].key
      BY <2>2
    <3>2. Cache!Find(m, l[y].key) = Len(m)
      BY <1>1, <1>5, <2>2, <3>1
    <3>3. Cache!Find(m, l[x].key) = Pos(x) /\ Pos(x) \in 1 .. Len(l) - 1
      BY <1>6, <2>2
    <3> QED BY <1>1, <3>2, <3>3 DEF Cache!Hit
  <2>3. CASE x # i /\ y # i
    <3>1. /\ Cache!Find(m, l[x].key) = Pos(x) /\ Cache!Find(m, l[y].key) = Pos(y)
          /\ Pos(x) \in 1 .. Len(l) - 1 /\ Pos(y) \in 1 .. Len(l) - 1
      BY <1>6, <2>3
    <3>2. Pos(x) < Pos(y)
      BY <2>3
    <3> QED BY <3>1, <3>2 DEF Cache!Hit
  <2> QED BY <2>1, <2>2, <2>3
<1> QED BY <1>1, <1>4, <1>8

\* An entry for a new key comes.
LEMMA EntryAdded ==
  ASSUME NEW S, NEW l \in Seq(S), DistinctKeys(l), NEW e \in S,
         \A j \in 1 .. Len(l) : l[j].key # e.key, NEW m, m = Append(l, e)
  PROVE  m \in Seq(S) /\ DistinctKeys(m) /\ KeepsOrder(l, m)
<1>1. /\ m \in Seq(S) /\ Len(m) = Len(l) + 1 /\ m[Len(l) + 1] = e
      /\ \A x \in 1 .. Len(l) : m[x] = l[x]
  BY AppendProperties
<1>2. DistinctKeys(m)
  BY <1>1 DEF DistinctKeys
<1>3. \A x \in 1 .. Len(l) : Cache!Find(m, l[x].key) = x
  <2> TAKE x \in 1 .. Len(l)
  <2>1. m[x] = l[x] /\ x \in 1 .. Len(m)
    BY <1>1
  <2> QED BY <1>1, <1>2, <2>1, FindDistinct
<1>4. KeepsOrder(l, m)
  BY <1>3 DEF KeepsOrder, Cache!Hit
<1> QED BY <1>1, <1>2, <1>4

\* A list keeps its own order.
LEMMA NothingMoved ==
  ASSUME NEW S, NEW l \in Seq(S), DistinctKeys(l)
  PROVE  KeepsOrder(l, l)
<1>1. \A x \in 1 .. Len(l) : Cache!Find(l, l[x].key) = x
  BY FindDistinct
<1> QED BY <1>1 DEF KeepsOrder, Cache!Hit

ModelInv == model \in Seq(Cache!Entry) /\ DistinctKeys(model)

\* The three things that a call can do to the list.
LEMMA TouchMoves ==
  ASSUME NEW S, NEW l \in Seq(S), DistinctKeys(l), NEW k
  PROVE  Cache!Touch(l, k) \in Seq(S) /\ DistinctKeys(Cache!Touch(l, k)) /\ KeepsOrder(l, Cache!Touch(l, k))
<1> DEFINE i == Cache!Find(l, k)
<1>1. CASE i = 0
  BY <1>1, NothingMoved DEF Cache!Touch
<1>2. CASE i # 0
  <2>1. i \in 1 .. Len(l)
    BY <1>2, FindIs
  <2>2. Cache!Touch(l, k) = Append(Without(l, i), l[i]) /\ l[i] \in S
    BY <1>2, <2>1, WithoutIs DEF Cache!Touch
  <2> HIDE DEF i
  <2> QED BY <2>1, <2>2, EntryMoved
<1> QED BY <1>1, <1>2

\* An lru_put that finds the key keeps the others in order.
LEMMA ReplaceMoves ==
  ASSUME NEW l \in Seq(Cache!Entry), DistinctKeys(l), NEW k \in Keys, NEW d \in Responses, Cache!Hit(l, k),
         NEW m, m = Cache!Replace(l, k, d)
  PROVE  m \in Seq(Cache!Entry) /\ DistinctKeys(m) /\ KeepsOrder(l, m)
<1> DEFINE i == Cache!Find(l, k)
           e == [key |-> k, data |-> d]
<1>1. i \in 1 .. Len(l) /\ l[i].key = k
  BY FindIs DEF Cache!Hit
<1>2. m = Append(Without(l, i), e) /\ e \in Cache!Entry /\ e.key = l[i].key
  BY <1>1, WithoutIs DEF Cache!Replace, Cache!Entry
<1> HIDE DEF i, e
<1> QED BY <1>1, <1>2, EntryMoved

\* An lru_put that adds a key drops the oldest entry at most.
LEMMA InsertMoves ==
  ASSUME NEW l \in Seq(Cache!Entry), DistinctKeys(l), NEW k \in Keys, NEW d \in Responses, ~ Cache!Hit(l, k),
         NEW z, Capacity # z \/ l # <<>>,
         NEW m, m = Cache!Insert(l, z, k, d)
  PROVE  m \in Seq(Cache!Entry) /\ DistinctKeys(m) /\ KeepsOrder(l, m)
<1> DEFINE e == [key |-> k, data |-> d]
<1>1. e \in Cache!Entry /\ e.key = k
  BY DEF Cache!Entry
<1>2. \A j \in 1 .. Len(l) : l[j].key # e.key
  BY FindIs DEF Cache!Hit
<1>3. CASE Capacity # z
  <2>1. m = Append(l, e)
    BY <1>3 DEF Cache!Insert
  <2> HIDE DEF e
  <2> QED BY <1>1, <1>2, <2>1, EntryAdded
<1>4. CASE Capacity = z
  <2>1. l # <<>> /\ 1 \in 1 .. Len(l)
    BY <1>4, EmptySeq
  <2>2. m = Append(Without(l, 1), e)
    BY <1>4, <2>1, WithoutIs DEF Cache!Insert
  <2> HIDE DEF e
  <2> QED BY <1>1, <1>2, <2>1, <2>2, EntryMoved
<1> QED BY <1>3, <1>4

\* lru_get and lru_put, each as one step.
LEMMA ModelKept ==
  ThreadInv /\ ModelInv /\ [Next]_vars => ModelInv' /\ KeepsOrder(model, model')
<1> SUFFICES ASSUME ThreadInv, ModelInv, [Next]_vars PROVE ModelInv' /\ KeepsOrder(model, model')
  OBVIOUS
<1>1. CASE model' = model
  BY <1>1, NothingMoved DEF ModelInv
<1>2. ASSUME NEW t \in Workers, FindFirst(t) PROVE ModelInv' /\ KeepsOrder(model, model')
  <2>1. op[t] \in {"get", "put"} /\ want[t] \in Keys /\ (op[t] = "put" => val[t] \in Responses)
    BY <1>2 DEF ThreadInv, CallOK, FindFirst, Move
  <2>2. \/ model' = model
        \/ model' = Cache!Touch(model, want[t])
        \/ op[t] = "put" /\ (Cache!PutFound(want[t], val[t]) \/ Cache!PutNew(want[t], val[t]))
    BY <1>2, <2>1 DEF FindFirst, CacheCall, Cache!lru_get, Cache!lru_put, Cache!PutCrash
  <2>3. CASE model' = Cache!Touch(model, want[t])
    BY <2>3, TouchMoves DEF ModelInv
  <2>4. CASE op[t] = "put" /\ Cache!PutFound(want[t], val[t])
    BY <2>1, <2>4, ReplaceMoves DEF ModelInv, Cache!PutFound
  <2>5. CASE op[t] = "put" /\ Cache!PutNew(want[t], val[t])
    BY <2>1, <2>5, InsertMoves DEF ModelInv, Cache!PutNew
  <2> QED BY <1>1, <2>2, <2>3, <2>4, <2>5
<1>3. model' = model \/ \E t \in Workers : FindFirst(t)
  <2>1. UNCHANGED vars => model' = model
    BY DEF vars, ghostVars
  <2>2. ASSUME NEW t \in Workers, doit(t) \/ LockStep(t) \/ EndSection(t) PROVE model' = model
    BY <2>2, CallerStep DEF ghostVars
  <2>3. ASSUME NEW t \in Workers, find(t) PROVE model' = model \/ FindFirst(t)
    BY <2>3 DEF find, FindNext, FindHit, GetMiss, PutMiss, ghostVars
  <2>4. ASSUME NEW t \in Workers, relink(t) \/ Wild(t) PROVE model' = model
    BY <2>4 DEF relink, Remove1, Remove2, SetData, Malloc, Push1, Push2, Push3, Push4, Grow, Wild, ghostVars
  <2> QED BY <2>1, <2>2, <2>3, <2>4 DEF Next
<1> QED BY <1>1, <1>2, <1>3

\* The list of the abstract cache, in every reachable state.
LEMMA ModelHolds == Spec => [](ThreadInv /\ ModelInv)
<1>1. Init => ModelInv
  BY EmptySeq DEF Init, Cache!Init, ModelInv, DistinctKeys
<1>2. Spec => []ThreadInv
  BY ThreadInvHolds, PTL
<1> QED BY <1>1, <1>2, ModelKept, PTL DEF Spec

\* Whatever the calls and whatever the uninitialised lru->size, the cache holds
\* one entry for a key: a second lru_put for a url replaces the first one's
\* response, so a hit cannot return the older one.
THEOREM KeysAreDistinct == Spec => []OneEntryPerKey
<1>1. ModelInv => OneEntryPerKey
  <2> SUFFICES ASSUME ModelInv PROVE OneEntryPerKey
    OBVIOUS
  <2>1. DOMAIN model = 1 .. Len(model)
    BY DEF ModelInv
  <2>2. DOMAIN Cache!KeyAt(model) = 1 .. Len(model) /\ \A i \in 1 .. Len(model) : Cache!KeyAt(model)[i] = model[i].key
    BY <2>1 DEF Cache!KeyAt
  <2> QED BY <2>2 DEF OneEntryPerKey, Cache!OneEntryPerKey, Cache!IsInjective, ModelInv, DistinctKeys
<1> QED BY <1>1, ModelHolds, PTL

\* No call drops an entry while it keeps one that was used less recently, and
\* the entries that a call does not use keep their order.
THEOREM RecencyKept == Spec => LeastRecentlyUsed
<1>1. ThreadInv /\ ModelInv /\ [Next]_vars => [KeepsOrder(model, model')]_(Cache!cacheVars)
  BY ModelKept
<1> QED BY <1>1, ModelHolds, PTL DEF Spec, LeastRecentlyUsed, Cache!LeastRecentlyUsed, KeepsOrder

-----------------------------------------------------------------------------
(* The nodes and the entries of a list *)

\* The nodes of a chain, sentinels included, are distinct.
LEMMA NodeIs ==
  ASSUME NEW s, Allocated(s)
  PROVE  /\ Len(s) \in Nat /\ s \in Seq(Cells)
         /\ Node(s, 0) = HeadNode /\ Node(s, Len(s) + 1) = TailNode
         /\ \A i \in 1 .. Len(s) : Node(s, i) = s[i] /\ s[i] \in Cells
         /\ \A i \in 0 .. Len(s) + 1 : Node(s, i) \in Nodes
         /\ \A i, j \in 0 .. Len(s) + 1 : Node(s, i) = Node(s, j) => i = j
<1>1. s \in Seq(Cells) /\ Len(s) \in Nat /\ \A i, j \in 1 .. Len(s) : s[i] = s[j] => i = j
  BY DEF Allocated
<1>2. \A i \in 1 .. Len(s) : Node(s, i) = s[i] /\ s[i] \in Cells
  BY <1>1 DEF Node
<1>3. Node(s, 0) = HeadNode /\ Node(s, Len(s) + 1) = TailNode
  BY <1>1 DEF Node
<1>4. HeadNode \notin Cells /\ TailNode \notin Cells /\ HeadNode # TailNode
  BY LruAssumption DEF HeadNode, TailNode, Cells
<1>5. \A i \in 0 .. Len(s) + 1 : i = 0 \/ i = Len(s) + 1 \/ i \in 1 .. Len(s)
  BY <1>1
<1>6. \A i \in 0 .. Len(s) + 1 : Node(s, i) \in Nodes
  BY <1>2, <1>3, <1>5 DEF Nodes
<1>7. \A i, j \in 0 .. Len(s) + 1 : Node(s, i) = Node(s, j) => i = j
  BY <1>1, <1>2, <1>3, <1>4, <1>5
<1> QED BY <1>1, <1>2, <1>3, <1>6, <1>7

AnyEntry == {EntryAt(n) : n \in Cells}

\* The entries of a chain are those of its cells.
LEMMA EntriesAre ==
  ASSUME NEW s \in Seq(Cells)
  PROVE  /\ Entries(s) \in Seq(AnyEntry) /\ Len(Entries(s)) = Len(s)
         /\ \A i \in 1 .. Len(s) : /\ Entries(s)[i] = EntryAt(s[i]) /\ Entries(s)[i].key = key[s[i]]
                                   /\ EntryAt(s[i]) \in AnyEntry
         /\ Entries(s) = <<>> <=> s = <<>>
<1>1. \A i \in 1 .. Len(s) : EntryAt(s[i]) \in AnyEntry
  BY DEF AnyEntry
<1>2. Entries(s) \in [1 .. Len(s) -> AnyEntry] /\ Len(s) \in Nat
  BY <1>1 DEF Entries
<1>3. Entries(s) \in Seq(AnyEntry) /\ Len(Entries(s)) = Len(s)
  BY <1>2
<1>4. \A i \in 1 .. Len(s) : Entries(s)[i] = EntryAt(s[i]) /\ Entries(s)[i].key = key[s[i]]
  BY DEF Entries, EntryAt
<1>5. Entries(s) = <<>> <=> s = <<>>
  BY <1>3, EmptySeq
<1> QED BY <1>1, <1>3, <1>4, <1>5

\* Removing a cell removes its entry.
LEMMA WithoutCell ==
  ASSUME NEW s, Allocated(s), NEW i \in 1 .. Len(s)
  PROVE  /\ Without(s, i) \in Seq(Cells) /\ Len(Without(s, i)) = Len(s) - 1
         /\ Entries(Without(s, i)) = Without(Entries(s), i)
         /\ \A j \in 0 .. Len(s) : Node(Without(s, i), j) = Node(s, IF j < i THEN j ELSE j + 1)
         /\ \A j \in 1 .. Len(s) - 1 : \E x \in 1 .. Len(s) : x # i /\ Without(s, i)[j] = s[x]
         /\ \A j, x \in 1 .. Len(s) - 1 : Without(s, i)[j] = Without(s, i)[x] => j = x
<1> DEFINE r == Without(s, i)
           At(j) == IF j < i THEN j ELSE j + 1
<1>1. s \in Seq(Cells) /\ Len(s) \in Nat
  BY NodeIs
<1>2. /\ r \in Seq(Cells) /\ Len(r) = Len(s) - 1
      /\ \A j \in 1 .. Len(s) - 1 : r[j] = s[At(j)]
  BY <1>1, WithoutIs
<1>3. \A j \in 1 .. Len(s) - 1 : At(j) \in 1 .. Len(s) /\ At(j) # i
  BY <1>1
<1> HIDE DEF r
<1>4. Entries(r) = Without(Entries(s), i)
  <2>1. /\ Without(Entries(s), i) \in Seq(AnyEntry) /\ Len(Without(Entries(s), i)) = Len(s) - 1
        /\ \A j \in 1 .. Len(s) - 1 : Without(Entries(s), i)[j] = Entries(s)[At(j)]
    BY <1>1, EntriesAre, WithoutIs
  <2>2. Entries(r) \in Seq(AnyEntry) /\ Len(Entries(r)) = Len(s) - 1
    BY <1>2, EntriesAre
  <2>3. \A j \in 1 .. Len(s) - 1 : Entries(r)[j] = EntryAt(s[At(j)])
    BY <1>2, EntriesAre
  <2>4. \A j \in 1 .. Len(s) - 1 : Without(Entries(s), i)[j] = EntryAt(s[At(j)])
    BY <1>1, <1>3, <2>1, EntriesAre
  <2> QED BY <2>1, <2>2, <2>3, <2>4, SeqEqual
<1>5. \A j \in 0 .. Len(s) : Node(r, j) = Node(s, At(j))
  BY <1>1, <1>2, <1>3 DEF Node
<1>6. \A j \in 1 .. Len(s) - 1 : \E x \in 1 .. Len(s) : x # i /\ r[j] = s[x]
  BY <1>2, <1>3
<1>7. \A j, x \in 1 .. Len(s) - 1 : r[j] = r[x] => j = x
  <2> TAKE j, x \in 1 .. Len(s) - 1
  <2> HAVE r[j] = r[x]
  <2>1. s[At(j)] = s[At(x)] /\ At(j) \in 1 .. Len(s) /\ At(x) \in 1 .. Len(s)
    BY <1>2, <1>3
  <2>2. At(j) = At(x)
    BY <2>1 DEF Allocated
  <2> QED BY <1>1, <2>2
<1> QED BY <1>2, <1>4, <1>5, <1>6, <1>7 DEF r

\* Appending a cell appends its entry.
LEMMA WithCell ==
  ASSUME NEW s, Allocated(s), NEW n \in Cells
  PROVE  /\ Append(s, n) \in Seq(Cells) /\ Len(Append(s, n)) = Len(s) + 1
         /\ Entries(Append(s, n)) = Append(Entries(s), EntryAt(n))
         /\ \A j \in 0 .. Len(s) : Node(Append(s, n), j) = Node(s, j)
         /\ Node(Append(s, n), Len(s) + 1) = n /\ Node(Append(s, n), Len(s) + 2) = TailNode
<1> DEFINE r == Append(s, n)
<1>1. s \in Seq(Cells) /\ Len(s) \in Nat
  BY NodeIs
<1>2. /\ r \in Seq(Cells) /\ Len(r) = Len(s) + 1 /\ r[Len(s) + 1] = n
      /\ \A j \in 1 .. Len(s) : r[j] = s[j]
  BY <1>1, AppendProperties
<1> HIDE DEF r
<1>3. Entries(r) = Append(Entries(s), EntryAt(n))
  <2>1. Entries(s) \in Seq(AnyEntry) /\ Len(Entries(s)) = Len(s) /\ EntryAt(n) \in AnyEntry
    BY <1>1, EntriesAre DEF AnyEntry
  <2> DEFINE q == Append(Entries(s), EntryAt(n))
  <2>2. /\ q \in Seq(AnyEntry)
        /\ Len(q) = Len(s) + 1
        /\ \A j \in 1 .. Len(s) : q[j] = Entries(s)[j]
        /\ q[Len(s) + 1] = EntryAt(n)
    BY <2>1, AppendProperties
  <2> HIDE DEF q
  <2>3. /\ Entries(r) \in Seq(AnyEntry) /\ Len(Entries(r)) = Len(s) + 1
        /\ \A j \in 1 .. Len(s) + 1 : Entries(r)[j] = EntryAt(r[j])
    BY <1>2, EntriesAre
  <2>4. \A j \in 1 .. Len(s) : Entries(s)[j] = EntryAt(s[j])
    BY <1>1, EntriesAre
  <2>5. \A j \in 1 .. Len(s) + 1 : Entries(r)[j] = q[j]
    <3> TAKE j \in 1 .. Len(s) + 1
    <3>1. CASE j = Len(s) + 1
      BY <1>2, <2>2, <2>3, <3>1
    <3>2. CASE j \in 1 .. Len(s)
      BY <1>2, <2>2, <2>3, <2>4, <3>2
    <3> QED BY <1>1, <3>1, <3>2
  <2> QED BY <2>2, <2>3, <2>5, SeqEqual DEF q
<1>4. /\ \A j \in 0 .. Len(s) : Node(r, j) = Node(s, j)
      /\ Node(r, Len(s) + 1) = n /\ Node(r, Len(s) + 2) = TailNode
  BY <1>1, <1>2 DEF Node
<1> QED BY <1>2, <1>3, <1>4 DEF r

-----------------------------------------------------------------------------
(* The list, step by step *)

\* Where the call is says how far the list has got.
LEMMA StageAt ==
  ASSUME NEW t, NEW s, StageOK(t, s)
  PROVE  /\ Busy(t)
         /\ at[t] = "find" => FindOK(t, s)
         /\ at[t] = "remove1" => RemoveOK(t, s) \/ CrashOK(t, s)
         /\ at[t] = "remove2" => RemoveOK(t, s)
         /\ at[t] \in {"data", "malloc"} => RemovedOK(t, s)
         /\ at[t] \in {"push1", "push2", "push3", "push4"} => PushOK(t, s)
         /\ at[t] = "grow" => GrowOK(t, s)
BY DEF StageOK, FindOK, RemoveOK, CrashOK, RemovedOK, PushOK, GrowOK, Busy, ListPlaces

\* The list after a step of the thread that is in the list code.
After(t, s) == Allocated(s) /\ IF at[t] = "out" THEN SettledOK(s) ELSE StageOK(t, s)

\* lru_find reads the first node: the chain stays.
LEMMA FindFirstKeeps ==
  ASSUME ThreadInv, NEW t \in Workers, NEW s, Allocated(s), SettledOK(s), FindFirst(t)
  PROVE  After(t, s)'
<1>1. /\ at[t] = "first" /\ at'[t] = "find" /\ p'[t] = next[HeadNode] /\ op[t] \in {"get", "put"}
      /\ UNCHANGED <<next, pre, key, data, cells, size, op, want, val>>
  BY DEF ThreadInv, TypeOK, CallOK, FindFirst, Move, Point, heapVars
<1>2. Allocated(s)' /\ Linked(s)' /\ Entries(s)' = Entries(s) /\ Node(s, 1) = next[HeadNode]
  <2>1. NextIs(s, 0) /\ Node(s, 0) = HeadNode
    BY NodeIs DEF SettledOK, Linked
  <2>2. Allocated(s)' /\ Linked(s)' /\ Entries(s)' = Entries(s)
    BY <1>1 DEF Allocated, SettledOK, Linked, NextIs, PreIs, Entries, EntryAt
  <2> QED BY <2>1, <2>2 DEF NextIs
<1>3. Called(t, Entries(s))'
  <2>1. model = Entries(s) /\ modelSize = size /\ ~ modelCrashed
    BY DEF SettledOK
  <2>2. CASE op[t] = "get"
    <3>1. Cache!lru_get(want[t])
      BY <2>1, <2>2 DEF FindFirst, CacheCall
    <3> QED BY <1>1, <1>2, <2>1, <2>2, <3>1 DEF Cache!lru_get, Called
  <2>3. CASE op[t] = "put"
    <3>1. Cache!lru_put(want[t], val[t])
      BY <2>1, <2>3 DEF FindFirst, CacheCall
    <3> QED BY <1>1, <1>2, <2>1, <2>3, <3>1
        DEF Cache!lru_put, Cache!PutFound, Cache!PutNew, Cache!PutCrash, Called
  <2> QED BY <1>1, <2>2, <2>3
<1>4. FindOK(t, s)'
  <2>1. 1 \in 1 .. Len(s) + 1 /\ p'[t] = Node(s, 1) /\ \A j \in 1 .. 1 - 1 : key'[s[j]] # want'[t]
    BY <1>1, <1>2, NodeIs
  <2> QED BY <1>1, <1>2, <1>3, <2>1 DEF FindOK
<1> QED BY <1>1, <1>2, <1>4 DEF After, StageOK

\* lru_find goes on to the next node: the chain stays.
LEMMA FindNextKeeps ==
  ASSUME ThreadInv, NEW t \in Workers, NEW s, Allocated(s), StageOK(t, s), FindNext(t)
  PROVE  After(t, s)'
<1>1. /\ at[t] = "find" /\ p'[t] = next[p[t]] /\ p[t] \in Cells /\ key[p[t]] # want[t]
      /\ UNCHANGED <<next, pre, key, data, cells, size, op, want, val, at, model, modelSize, modelCrashed>>
  BY DEF ThreadInv, TypeOK, FindNext, Point, heapVars, ghostVars
<1>2. FindOK(t, s)
  BY <1>1, StageAt
<1>3. PICK i \in 1 .. Len(s) + 1 : p[t] = Node(s, i) /\ \A j \in 1 .. i - 1 : key[s[j]] # want[t]
  BY <1>2 DEF FindOK
<1>4. TailNode \notin Cells
  BY LruAssumption DEF TailNode, Cells
<1>5. i \in 1 .. Len(s) /\ Node(s, i) = s[i]
  BY <1>1, <1>3, <1>4, NodeIs
<1>6. p'[t] = Node(s, i + 1) /\ i + 1 \in 1 .. Len(s) + 1
  BY <1>1, <1>2, <1>3, <1>5, NodeIs DEF FindOK, Linked, NextIs
<1>7. \A j \in 1 .. (i + 1) - 1 : key'[s[j]] # want'[t]
  BY <1>1, <1>3, <1>5
<1>8. Allocated(s)' /\ Linked(s)' /\ Called(t, Entries(s))'
  BY <1>1, <1>2 DEF FindOK, Allocated, Linked, NextIs, PreIs, Entries, EntryAt, Called
<1>9. FindOK(t, s)'
  BY <1>1, <1>6, <1>7, <1>8 DEF FindOK
<1> QED BY <1>1, <1>8, <1>9 DEF After, StageOK

\* lru_find has found the key: the chain stays.
LEMMA FindHitKeeps ==
  ASSUME ThreadInv, NEW t \in Workers, NEW s, Allocated(s), StageOK(t, s), FindHit(t)
  PROVE  After(t, s)'
<1>1. /\ at[t] = "find" /\ p[t] \in Cells /\ key[p[t]] = want[t] /\ op[t] \in {"get", "put"}
      /\ at'[t] = "remove1" /\ op'[t] = IF op[t] = "put" THEN "replace" ELSE "get"
      /\ UNCHANGED <<next, pre, key, data, cells, size, p, want, val, model, modelSize, modelCrashed>>
  BY DEF ThreadInv, TypeOK, CallOK, FindHit, Move, heapVars, ghostVars
<1>2. FindOK(t, s)
  BY <1>1, StageAt
<1>3. PICK i \in 1 .. Len(s) + 1 : p[t] = Node(s, i) /\ \A j \in 1 .. i - 1 : key[s[j]] # want[t]
  BY <1>2 DEF FindOK
<1>4. TailNode \notin Cells
  BY LruAssumption DEF TailNode, Cells
<1>5. i \in 1 .. Len(s) /\ p[t] = s[i] /\ s \in Seq(Cells) /\ Len(s) \in Nat
  BY <1>1, <1>3, <1>4, NodeIs
<1> DEFINE l == Entries(s)
<1>6. /\ l \in Seq(AnyEntry) /\ Len(l) = Len(s) /\ i \in 1 .. Len(l) /\ l[i].key = want[t]
      /\ \A j \in 1 .. i - 1 : l[j].key # want[t]
      /\ l[i] = EntryAt(p[t])
  BY <1>1, <1>3, <1>5, EntriesAre
<1> HIDE DEF l
<1>7. Cache!Find(l, want[t]) = i
  BY <1>6, FindFirstHit
<1>8. Cache!RemoveAt(l, i) = Without(l, i) /\ i # 0
  BY <1>6, WithoutIs
<1>9. Called(t, l)
  BY <1>2 DEF FindOK, l
<1>10. model = Append(Without(l, i), Last(t)') /\ modelSize = size /\ ~ modelCrashed
  <2>1. CASE op[t] = "get"
    <3>1. Last(t)' = l[i]
      BY <1>1, <1>6, <2>1 DEF Last, EntryAt
    <3> QED BY <1>7, <1>8, <1>9, <2>1, <3>1 DEF Called, Cache!Touch
  <2>2. CASE op[t] = "put"
    <3>1. Last(t)' = [key |-> want[t], data |-> val[t]]
      BY <1>1, <2>2 DEF Last
    <3> QED BY <1>7, <1>8, <1>9, <2>2, <3>1 DEF Called, Cache!Hit, Cache!Replace
  <2> QED BY <1>1, <2>1, <2>2
<1>11. Allocated(s)' /\ Linked(s)' /\ Entries(s)' = l
  BY <1>1, <1>2 DEF FindOK, Allocated, Linked, NextIs, PreIs, Entries, EntryAt, l
<1>12. Coming(t, Without(Entries(s), i), Last(t))'
  BY <1>1, <1>10, <1>11 DEF Coming, Without
<1>13. RemoveOK(t, s)'
  BY <1>1, <1>5, <1>11, <1>12 DEF RemoveOK
<1> QED BY <1>1, <1>11, <1>13 DEF After, StageOK

\* The search that reaches the tail has found nothing.
LEMMA NotFound ==
  ASSUME ThreadInv, NEW t \in Workers, NEW s, Allocated(s), FindOK(t, s), p[t] = TailNode
  PROVE  Cache!Find(Entries(s), want[t]) = 0
<1>1. PICK i \in 1 .. Len(s) + 1 : p[t] = Node(s, i) /\ \A j \in 1 .. i - 1 : key[s[j]] # want[t]
  BY DEF FindOK
<1>2. i = Len(s) + 1 /\ s \in Seq(Cells)
  BY <1>1, NodeIs
<1>3. Entries(s) \in Seq(AnyEntry) /\ \A j \in 1 .. Len(Entries(s)) : Entries(s)[j].key # want[t]
  BY <1>1, <1>2, EntriesAre, NodeIs
<1> QED BY <1>3, FindNothing

\* lru_get has found nothing: the chain stays.
LEMMA GetMissKeeps ==
  ASSUME ThreadInv, NEW t \in Workers, NEW s, Allocated(s), StageOK(t, s), GetMiss(t)
  PROVE  After(t, s)'
<1>1. /\ at[t] = "find" /\ p[t] = TailNode /\ op[t] = "get" /\ at'[t] = "out"
      /\ UNCHANGED <<next, pre, key, data, cells, size, model, modelSize, modelCrashed>>
  BY DEF ThreadInv, TypeOK, GetMiss, Move, heapVars, ghostVars
<1>2. FindOK(t, s)
  BY <1>1, StageAt
<1>3. Cache!Touch(Entries(s), want[t]) = Entries(s)
  BY <1>1, <1>2, NotFound DEF Cache!Touch
<1>4. SettledOK(s)
  BY <1>1, <1>2, <1>3 DEF FindOK, Called, SettledOK
<1>5. Allocated(s)' /\ SettledOK(s)'
  BY <1>1, <1>4 DEF SettledOK, Allocated, Linked, NextIs, PreIs, Entries, EntryAt
<1> QED BY <1>1, <1>5 DEF After

\* lru_put has found nothing: the chain stays.
LEMMA PutMissKeeps ==
  ASSUME ThreadInv, NEW t \in Workers, NEW s, Allocated(s), StageOK(t, s), PutMiss(t)
  PROVE  After(t, s)'
<1>1. /\ at[t] = "find" /\ p[t] = TailNode /\ op[t] = "put" /\ op'[t] = "insert"
      /\ at'[t] = (IF Capacity = size THEN "remove1" ELSE "malloc") /\ p'[t] = next[HeadNode]
      /\ UNCHANGED <<next, pre, key, data, cells, size, want, val, model, modelSize, modelCrashed>>
  BY DEF ThreadInv, TypeOK, PutMiss, Move, Point, heapVars, ghostVars
<1>2. FindOK(t, s) /\ s \in Seq(Cells) /\ Len(s) \in Nat
  BY <1>1, StageAt, NodeIs
<1> DEFINE l == Entries(s)
           e == [key |-> want[t], data |-> val[t]]
<1>3. ~ Cache!Hit(l, want[t])
  BY <1>1, <1>2, NotFound DEF Cache!Hit
<1>4. /\ Allocated(s)' /\ Linked(s)' /\ Entries(s)' = l /\ Last(t)' = e
      /\ l \in Seq(AnyEntry) /\ Len(l) = Len(s) /\ (l = <<>> <=> s = <<>>)
  <2>1. Allocated(s)' /\ Linked(s)' /\ Entries(s)' = l
    BY <1>1, <1>2 DEF FindOK, Allocated, Linked, NextIs, PreIs, Entries, EntryAt
  <2>2. Last(t)' = e
    BY <1>1 DEF Last
  <2> QED BY <1>2, <2>1, <2>2, EntriesAre
<1>5. /\ Capacity # size \/ l # <<>> => /\ model = Cache!Insert(l, size, want[t], val[t])
                                         /\ modelSize = size + 1 /\ ~ modelCrashed
      /\ Capacity = size /\ l = <<>> => modelCrashed
  BY <1>1, <1>2, <1>3 DEF FindOK, Called
<1> HIDE DEF l
<1>6. CASE Capacity # size
  <2>1. Coming(t, Entries(s), Last(t))'
    BY <1>1, <1>4, <1>5, <1>6 DEF Coming, Cache!Insert
  <2> QED BY <1>1, <1>4, <1>6, <2>1 DEF After, StageOK, RemovedOK
<1>7. next[HeadNode] = Node(s, 1)
  <2>1. NextIs(s, 0) /\ Node(s, 0) = HeadNode
    BY <1>2, NodeIs DEF FindOK, Linked
  <2> QED BY <2>1 DEF NextIs
<1>8. CASE Capacity = size /\ l = <<>>
  <2>1. Node(s, 1) = TailNode
    BY <1>4, <1>8 DEF Node
  <2>2. CrashOK(t, s)'
    BY <1>1, <1>4, <1>5, <1>7, <1>8, <2>1 DEF CrashOK
  <2> QED BY <1>1, <1>4, <1>8, <2>2 DEF After, StageOK
<1>9. CASE Capacity = size /\ l # <<>>
  <2>1. 1 \in 1 .. Len(l) /\ 1 \in 1 .. Len(s)
    BY <1>4, <1>9, EmptySeq
  <2>2. Tail(l) = Without(l, 1)
    BY <1>4, <2>1, WithoutIs
  <2>3. Coming(t, Without(Entries(s), 1), Last(t))'
    BY <1>1, <1>4, <1>5, <1>9, <2>2 DEF Coming, Cache!Insert, Without
  <2>4. p'[t] = s[1]
    BY <1>1, <1>7, <2>1, NodeIs
  <2>5. RemoveOK(t, s)'
    BY <1>1, <1>4, <1>9, <2>1, <2>3, <2>4 DEF RemoveOK
  <2> QED BY <1>1, <1>4, <1>9, <2>5 DEF After, StageOK
<1> QED BY <1>6, <1>8, <1>9

\* What no step between lru_find and the end of push_back changes.
LEMMA RelinkFrame ==
  ASSUME ThreadInv, NEW t \in Workers, relink(t)
  PROVE  /\ UNCHANGED <<op, want, val, model, modelSize, modelCrashed>>
         /\ next \in [Nodes -> Nodes \cup {Null, Garbage}] /\ pre \in [Nodes -> Nodes \cup {Null, Garbage}]
         /\ Null \notin Nodes /\ HeadNode \in Nodes /\ TailNode \in Nodes /\ TailNode \notin Cells
         /\ cells \in 0 .. MaxPuts
         /\ (at[t] = "remove1" => at'[t] = "remove2")
         /\ (at[t] = "remove2" => at'[t] = CASE op[t] = "get" -> "push1" [] op[t] = "replace" -> "data"
                                                [] OTHER -> "malloc")
         /\ (at[t] \in {"data", "malloc"} => at'[t] = "push1")
         /\ (at[t] = "push1" => at'[t] = "push2") /\ (at[t] = "push2" => at'[t] = "push3")
         /\ (at[t] = "push3" => at'[t] = "push4")
         /\ (at[t] = "push4" => at'[t] = IF op[t] = "insert" THEN "grow" ELSE "out")
         /\ (at[t] = "grow" => at'[t] = "out")
<1>1. TypeOK
  BY DEF ThreadInv
<1>2. UNCHANGED <<op, want, val, model, modelSize, modelCrashed>>
  BY DEF relink, Remove1, Remove2, SetData, Malloc, Push1, Push2, Push3, Push4, Grow, localVars, ghostVars
<1>3. Null \notin Nodes /\ HeadNode \in Nodes /\ TailNode \in Nodes /\ TailNode \notin Cells
  BY LruAssumption DEF Null, Nodes, HeadNode, TailNode, Cells
<1>4. \A q : at' = [at EXCEPT ![t] = q] => at'[t] = q
  BY <1>1 DEF TypeOK
<1>5. /\ (at[t] = "remove1" => at'[t] = "remove2")
      /\ (at[t] = "remove2" => at'[t] = CASE op[t] = "get" -> "push1" [] op[t] = "replace" -> "data"
                                             [] OTHER -> "malloc")
      /\ (at[t] \in {"data", "malloc"} => at'[t] = "push1")
      /\ (at[t] = "push1" => at'[t] = "push2") /\ (at[t] = "push2" => at'[t] = "push3")
      /\ (at[t] = "push3" => at'[t] = "push4")
      /\ (at[t] = "push4" => at'[t] = IF op[t] = "insert" THEN "grow" ELSE "out")
      /\ (at[t] = "grow" => at'[t] = "out")
  <2> USE DEF Move
  <2>1. CASE Remove1(t)
    BY <1>4, <2>1 DEF Remove1
  <2>2. CASE Remove2(t)
    BY <1>4, <2>2 DEF Remove2
  <2>3. CASE SetData(t) \/ Malloc(t)
    BY <1>4, <2>3 DEF SetData, Malloc
  <2>4. CASE Push1(t) \/ Push2(t) \/ Push3(t)
    BY <1>4, <2>4 DEF Push1, Push2, Push3
  <2>5. CASE Push4(t)
    BY <1>4, <2>5 DEF Push4
  <2>6. CASE Grow(t)
    BY <1>4, <2>6 DEF Grow
  <2> QED BY <2>1, <2>2, <2>3, <2>4, <2>5, <2>6 DEF relink
<1> QED BY <1>1, <1>2, <1>3, <1>5 DEF TypeOK

\* list->next->pre = list->pre: the successor points back past the entry.
LEMMA Remove1Keeps ==
  ASSUME ThreadInv, NEW t \in Workers, NEW s, Allocated(s), StageOK(t, s), Remove1(t)
  PROVE  After(t, s)'
<1>1. /\ at[t] = "remove1" /\ at'[t] = "remove2" /\ next[p[t]] \in Nodes
      /\ pre' = [pre EXCEPT ![next[p[t]]] = pre[p[t]]]
      /\ UNCHANGED <<next, key, data, cells, size, p, op, want, val, model, modelSize, modelCrashed>>
      /\ pre \in [Nodes -> Nodes \cup {Null, Garbage}] /\ Null \notin Nodes
  <2>1. relink(t)
    BY DEF relink
  <2> QED BY <2>1, RelinkFrame DEF Remove1, Move, localVars
<1>2. s \in Seq(Cells) /\ Len(s) \in Nat
  BY NodeIs
<1>3. ~ CrashOK(t, s)
  BY <1>1 DEF CrashOK, Allocated
<1>4. RemoveOK(t, s)
  BY <1>1, <1>3, StageAt
<1>5. PICK i \in 1 .. Len(s) : p[t] = s[i] /\ Coming(t, Without(Entries(s), i), Last(t)) /\ Linked(s)
  BY <1>1, <1>4 DEF RemoveOK
<1>6. s[i] = Node(s, i) /\ s[i] = Node(s, (i - 1) + 1) /\ i - 1 \in 0 .. Len(s) /\ i \in 0 .. Len(s)
  BY <1>2, NodeIs
<1>7. next[p[t]] = Node(s, i + 1) /\ pre[p[t]] = Node(s, i - 1)
  <2>1. NextIs(s, i) /\ PreIs(s, i - 1)
    BY <1>5, <1>6 DEF Linked
  <2> QED BY <1>5, <1>6, <2>1 DEF NextIs, PreIs
<1>8. /\ \A n \in Nodes : n # Node(s, i + 1) => pre'[n] = pre[n]
      /\ pre'[Node(s, i + 1)] = Node(s, i - 1)
  BY <1>1, <1>7
<1>9. \A j \in 0 .. Len(s) : NextIs(s, j)' /\ (j # i => PreIs(s, j)')
  <2> TAKE j \in 0 .. Len(s)
  <2>1. NextIs(s, j) /\ PreIs(s, j)
    BY <1>5 DEF Linked
  <2>2. NextIs(s, j)'
    BY <1>1, <2>1 DEF NextIs
  <2>3. j # i => PreIs(s, j)'
    <3>1. j + 1 \in 0 .. Len(s) + 1 /\ i + 1 \in 0 .. Len(s) + 1
      BY <1>2
    <3>2. j # i => Node(s, j + 1) # Node(s, i + 1)
      BY <1>2, <3>1, NodeIs
    <3>3. Node(s, j + 1) \in Nodes
      BY <3>1, NodeIs
    <3> QED BY <1>8, <2>1, <3>2, <3>3 DEF PreIs
  <2> QED BY <2>2, <2>3
<1>10. Allocated(s)' /\ Coming(t, Without(Entries(s), i), Last(t))'
  <2>1. Node(s, 0) = HeadNode /\ Node(s, 0) \in Nodes /\ Node(s, 0) # Node(s, i + 1)
    BY <1>2, NodeIs
  <2>2. pre'[HeadNode] = pre[HeadNode]
    BY <1>8, <2>1
  <2> QED BY <1>1, <1>5, <2>2 DEF Allocated, Coming, Without, Entries, EntryAt, Last
<1>11. RemoveOK(t, s)'
  BY <1>1, <1>5, <1>8, <1>9, <1>10 DEF RemoveOK
<1> QED BY <1>1, <1>10, <1>11 DEF After, StageOK

\* list->pre->next = list->next: the entry is out of the list.
LEMMA Remove2Keeps ==
  ASSUME ThreadInv, NEW t \in Workers, NEW s, Allocated(s), StageOK(t, s), Remove2(t)
  PROVE  \E r : After(t, r)'
<1>1. /\ at[t] = "remove2" /\ next' = [next EXCEPT ![pre[p[t]]] = next[p[t]]]
      /\ at'[t] = (CASE op[t] = "get" -> "push1" [] op[t] = "replace" -> "data" [] OTHER -> "malloc")
      /\ UNCHANGED <<pre, key, data, cells, size, p, op, want, val, model, modelSize, modelCrashed>>
      /\ next \in [Nodes -> Nodes \cup {Null, Garbage}] /\ cells \in 0 .. MaxPuts /\ TailNode \in Nodes
  <2>1. relink(t)
    BY DEF relink
  <2> QED BY <2>1, RelinkFrame DEF Remove2, Move, localVars
<1>2. s \in Seq(Cells) /\ Len(s) \in Nat
  BY NodeIs
<1>3. PICK i \in 1 .. Len(s) :
         /\ p[t] = s[i] /\ Coming(t, Without(Entries(s), i), Last(t))
         /\ \A j \in 0 .. Len(s) : NextIs(s, j) /\ (j # i => PreIs(s, j))
         /\ pre[Node(s, i + 1)] = Node(s, i - 1)
  <2>1. RemoveOK(t, s)
    BY <1>1, StageAt
  <2> QED BY <1>1, <2>1 DEF RemoveOK
<1>4. /\ s[i] = Node(s, i) /\ s[i] = Node(s, (i - 1) + 1) /\ i - 1 \in 0 .. Len(s) /\ i \in 0 .. Len(s)
      /\ s[i] \in Cells
  BY <1>2, NodeIs
<1>5. next[p[t]] = Node(s, i + 1) /\ pre[p[t]] = Node(s, i - 1)
  <2>1. NextIs(s, i) /\ PreIs(s, i - 1)
    BY <1>3, <1>4
  <2> QED BY <1>3, <1>4, <2>1 DEF NextIs, PreIs
<1>6. /\ \A n \in Nodes : n # Node(s, i - 1) => next'[n] = next[n]
      /\ next'[Node(s, i - 1)] = Node(s, i + 1)
  <2>1. Node(s, i - 1) \in Nodes
    BY <1>2, <1>4, NodeIs
  <2> QED BY <1>1, <1>5, <2>1
<1> DEFINE r == Without(s, i)
<1>7. /\ r \in Seq(Cells) /\ Len(r) = Len(s) - 1 /\ Entries(r) = Without(Entries(s), i)
      /\ \A j \in 0 .. Len(s) : Node(r, j) = Node(s, IF j < i THEN j ELSE j + 1)
      /\ \A j \in 1 .. Len(s) - 1 : \E x \in 1 .. Len(s) : x # i /\ r[j] = s[x]
      /\ \A j, x \in 1 .. Len(s) - 1 : r[j] = r[x] => j = x
  <2> HIDE DEF r
  <2>1. r = Without(s, i)
    BY DEF r
  <2>2. /\ Without(s, i) \in Seq(Cells) /\ Len(Without(s, i)) = Len(s) - 1
        /\ Entries(Without(s, i)) = Without(Entries(s), i)
        /\ \A j \in 0 .. Len(s) : Node(Without(s, i), j) = Node(s, IF j < i THEN j ELSE j + 1)
        /\ \A j \in 1 .. Len(s) - 1 : \E x \in 1 .. Len(s) : x # i /\ Without(s, i)[j] = s[x]
        /\ \A j, x \in 1 .. Len(s) - 1 : Without(s, i)[j] = Without(s, i)[x] => j = x
    BY WithoutCell
  <2> QED BY <2>1, <2>2
<1> HIDE DEF r
<1>8. Allocated(r)'
  <2>1. \A j \in 1 .. Len(r) : r[j] =< cells'
    BY <1>1, <1>7 DEF Allocated
  <2>2. next'[TailNode] = Null
    <3>1. Node(s, i - 1) # Node(s, Len(s) + 1)
      BY <1>2, <1>4, NodeIs
    <3>2. Node(s, Len(s) + 1) = TailNode /\ next[TailNode] = Null
      BY NodeIs DEF Allocated
    <3> QED BY <1>1, <1>6, <3>1, <3>2
  <2>3. pre'[HeadNode] = Null
    BY <1>1 DEF Allocated
  <2> QED BY <1>7, <2>1, <2>2, <2>3 DEF Allocated
<1>9. Linked(r)'
  <2> SUFFICES ASSUME NEW j \in 0 .. Len(r) PROVE NextIs(r, j)' /\ PreIs(r, j)'
    BY DEF Linked
  <2>0. j \in 0 .. Len(s) /\ j + 1 \in 0 .. Len(s) /\ j + 2 \in 0 .. Len(s) + 1 /\ j + 1 \in 0 .. Len(s) + 1
    BY <1>2, <1>7
  <2>1. /\ Node(r, j) = (IF j < i THEN Node(s, j) ELSE Node(s, j + 1))
        /\ Node(r, j + 1) = (IF j + 1 < i THEN Node(s, j + 1) ELSE Node(s, j + 2))
    BY <1>7, <2>0
  <2>2. /\ next[Node(s, j)] = Node(s, j + 1) /\ next[Node(s, j + 1)] = Node(s, j + 2)
        /\ (j # i => pre[Node(s, j + 1)] = Node(s, j))
        /\ (j + 1 # i => pre[Node(s, j + 2)] = Node(s, j + 1))
    BY <1>3, <2>0 DEF NextIs, PreIs
  <2>3. /\ Node(s, j) \in Nodes /\ Node(s, j + 1) \in Nodes
        /\ (j # i - 1 => Node(s, j) # Node(s, i - 1)) /\ (j + 1 # i - 1 => Node(s, j + 1) # Node(s, i - 1))
    BY <1>2, <1>4, <2>0, NodeIs
  <2>4. CASE j + 1 < i
    <3>1. j < i /\ j # i - 1 /\ j # i
      BY <1>2, <2>0, <2>4
    <3> QED BY <1>1, <1>6, <2>1, <2>2, <2>3, <2>4, <3>1 DEF NextIs, PreIs
  <2>5. CASE j + 1 = i
    <3>1. j = i - 1 /\ j < i /\ ~ (j + 1 < i) /\ j + 2 = i + 1
      BY <1>2, <2>0, <2>5
    <3> QED BY <1>1, <1>3, <1>6, <2>1, <3>1 DEF NextIs, PreIs
  <2>6. CASE j + 1 > i
    <3>1. ~ (j < i) /\ ~ (j + 1 < i) /\ j + 1 # i - 1 /\ j + 1 # i
      BY <1>2, <2>0, <2>6
    <3> QED BY <1>1, <1>6, <2>1, <2>2, <2>3, <3>1 DEF NextIs, PreIs
  <2> QED BY <1>2, <2>0, <2>4, <2>5, <2>6
<1>10. Entries(r)' = Entries(r) /\ Coming(t, Entries(r), Last(t))'
  BY <1>1, <1>3, <1>7 DEF Coming, Entries, EntryAt, Last
<1>11. op[t] # "insert" => Fresh(t, r)'
  <2>1. p'[t] \in 1 .. cells'
    BY <1>1, <1>3, <1>4 DEF Allocated, Cells
  <2>2. \A j \in 1 .. Len(r) : r[j] # p'[t]
    BY <1>1, <1>3, <1>7 DEF Allocated
  <2> QED BY <2>1, <2>2 DEF Fresh
<1>12. StageOK(t, r)'
  <2>0. op[t] \in {"get", "replace", "insert"}
    BY <1>1 DEF ThreadInv, TypeOK, CallOK
  <2>1. CASE op[t] = "get"
    <3>1. at'[t] = "push1"
      BY <1>1, <2>1
    <3>2. Last(t)' = EntryAt(p[t])'
      BY <1>1, <2>1 DEF Last
    <3>3. PushOK(t, r)'
      BY <1>7, <1>9, <1>10, <1>11, <2>1, <3>1, <3>2, <1>2 DEF PushOK, Linked
    <3> QED BY <3>3 DEF StageOK
  <2>2. CASE op[t] = "replace"
    <3>1. at'[t] = "data"
      BY <1>1, <2>2
    <3> QED BY <1>9, <1>10, <1>11, <2>2, <3>1 DEF RemovedOK, StageOK
  <2>3. CASE op[t] = "insert"
    <3>1. at'[t] = "malloc"
      BY <1>1, <2>3
    <3> QED BY <1>9, <1>10, <3>1 DEF RemovedOK, StageOK
  <2> QED BY <2>0, <2>1, <2>2, <2>3
<1>13. at'[t] # "out"
  BY <1>1
<1> QED BY <1>8, <1>12, <1>13 DEF After

\* lru_put replaces the data: the chain stays.
LEMMA SetDataKeeps ==
  ASSUME ThreadInv, NEW t \in Workers, NEW s, Allocated(s), StageOK(t, s), SetData(t)
  PROVE  After(t, s)'
<1>1. /\ at[t] = "data" /\ at'[t] = "push1" /\ data' = [data EXCEPT ![p[t]] = val[t]]
      /\ UNCHANGED <<next, pre, key, cells, size, p, op, want, val, model, modelSize, modelCrashed>>
  <2>1. relink(t)
    BY DEF relink
  <2> QED BY <2>1, RelinkFrame DEF SetData, Move, localVars
<1>2. /\ op[t] = "replace" /\ p[t] \in Cells /\ key[p[t]] = want[t]
      /\ data \in [Cells -> Responses \cup {None}]
  BY <1>1 DEF ThreadInv, CallOK, FoundOK, HasFound, ListPlaces, TypeOK
<1>3. RemovedOK(t, s) /\ s \in Seq(Cells)
  BY <1>1, StageAt, NodeIs
<1>4. Fresh(t, s) /\ Coming(t, Entries(s), Last(t)) /\ Linked(s)
  BY <1>1, <1>3 DEF RemovedOK
<1>5. \A n \in Cells : n # p[t] => data'[n] = data[n]
  BY <1>1, <1>2
<1>6. Entries(s)' = Entries(s)
  <2>1. \A i \in 1 .. Len(s) : s[i] \in Cells /\ s[i] # p[t]
    BY <1>3, <1>4 DEF Fresh
  <2>2. \A i \in 1 .. Len(s) : data'[s[i]] = data[s[i]]
    BY <1>5, <2>1
  <2> QED BY <1>1, <2>2 DEF Entries, EntryAt
<1>7. EntryAt(p[t])' = Last(t)
  <2>1. data'[p[t]] = val[t]
    BY <1>1, <1>2
  <2> QED BY <1>1, <1>2, <2>1 DEF Last, EntryAt
<1>8. Coming(t, Entries(s), EntryAt(p[t]))'
  BY <1>1, <1>4, <1>6, <1>7 DEF Coming
<1>9. Allocated(s)' /\ Fresh(t, s)' /\ Linked(s)'
  BY <1>1, <1>4 DEF Allocated, Fresh, Linked, NextIs, PreIs
<1>10. PushOK(t, s)'
  BY <1>1, <1>3, <1>8, <1>9 DEF PushOK, Linked
<1> QED BY <1>1, <1>9, <1>10 DEF After, StageOK

\* lru_put has a new node: the chain stays.
LEMMA MallocKeeps ==
  ASSUME ThreadInv, NEW t \in Workers, NEW s, Allocated(s), StageOK(t, s), Malloc(t), cells < MaxPuts
  PROVE  After(t, s)'
<1>1. /\ at[t] = "malloc" /\ at'[t] = "push1" /\ cells' = cells + 1 /\ p' = [p EXCEPT ![t] = cells + 1]
      /\ data' = [data EXCEPT ![cells + 1] = val[t]] /\ key' = [key EXCEPT ![cells + 1] = want[t]]
      /\ UNCHANGED <<next, pre, size, op, want, val, model, modelSize, modelCrashed>>
      /\ cells \in 0 .. MaxPuts
  <2>1. relink(t)
    BY DEF relink
  <2> QED BY <2>1, RelinkFrame DEF Malloc, Move, Point
<1>2. /\ op[t] = "insert" /\ data \in [Cells -> Responses \cup {None}] /\ key \in [Cells -> Keys \cup {None}]
      /\ p'[t] = cells + 1 /\ cells + 1 \in Cells /\ cells + 1 \in 1 .. cells'
  <2>1. op[t] = "insert"
    BY <1>1 DEF ThreadInv, CallOK
  <2>2. cells + 1 \in Cells /\ cells + 1 \in 1 .. cells'
    BY <1>1, LruAssumption DEF Cells
  <2> QED BY <1>1, <2>1, <2>2 DEF ThreadInv, TypeOK
<1>3. RemovedOK(t, s) /\ s \in Seq(Cells)
  BY <1>1, StageAt, NodeIs
<1>4. Coming(t, Entries(s), Last(t)) /\ Linked(s)
  BY <1>1, <1>3 DEF RemovedOK
<1>5. \A i \in 1 .. Len(s) : s[i] \in Cells /\ s[i] =< cells /\ s[i] # cells + 1
  <2> TAKE i \in 1 .. Len(s)
  <2>1. s[i] \in Cells /\ s[i] =< cells
    BY <1>3 DEF Allocated
  <2> QED BY <1>1, <2>1 DEF Cells
<1>6. Entries(s)' = Entries(s)
  <2>1. \A i \in 1 .. Len(s) : data'[s[i]] = data[s[i]] /\ key'[s[i]] = key[s[i]]
    BY <1>1, <1>2, <1>5
  <2> QED BY <2>1 DEF Entries, EntryAt
<1>7. EntryAt(p[t])' = Last(t)
  <2>1. data'[cells + 1] = val[t] /\ key'[cells + 1] = want[t]
    BY <1>1, <1>2
  <2> QED BY <1>2, <2>1 DEF Last, EntryAt
<1>8. Coming(t, Entries(s), EntryAt(p[t]))'
  BY <1>1, <1>4, <1>6, <1>7 DEF Coming
<1>9. Allocated(s)'
  <2>1. \A i \in 1 .. Len(s) : s[i] =< cells'
    BY <1>1, <1>5 DEF Cells
  <2> QED BY <1>1, <2>1 DEF Allocated
<1>10. Fresh(t, s)' /\ Linked(s)'
  BY <1>1, <1>2, <1>4, <1>5 DEF Fresh, Linked, NextIs, PreIs
<1>11. PushOK(t, s)'
  BY <1>1, <1>3, <1>8, <1>10 DEF PushOK, Linked
<1> QED BY <1>1, <1>9, <1>11 DEF After, StageOK

\* A new node is none of the chain's.
LEMMA FreshIs ==
  ASSUME ThreadInv, NEW t \in Workers, NEW s, Fresh(t, s)
  PROVE  /\ p[t] \in Cells /\ p[t] \in Nodes /\ p[t] =< cells /\ p[t] # TailNode
         /\ \A i \in 1 .. Len(s) : s[i] # p[t]
<1>1. cells \in 0 .. MaxPuts
  BY DEF ThreadInv, TypeOK
<1>2. p[t] \in 1 .. MaxPuts /\ p[t] =< cells
  BY <1>1, LruAssumption DEF Fresh
<1> QED BY <1>2, LruAssumption DEF Fresh, Cells, Nodes, TailNode

\* push_back, statement by statement.
LEMMA Push1Keeps ==
  ASSUME ThreadInv, NEW t \in Workers, NEW s, Allocated(s), StageOK(t, s), Push1(t)
  PROVE  After(t, s)'
<1>1. /\ at[t] = "push1" /\ at'[t] = "push2" /\ next' = [next EXCEPT ![pre[TailNode]] = p[t]]
      /\ UNCHANGED <<pre, key, data, cells, size, p, op, want, val, model, modelSize, modelCrashed>>
      /\ next \in [Nodes -> Nodes \cup {Null, Garbage}] /\ TailNode \in Nodes
  <2>1. relink(t)
    BY DEF relink
  <2> QED BY <2>1, RelinkFrame DEF Push1, Move, localVars
<1>2. PushOK(t, s) /\ s \in Seq(Cells) /\ Len(s) \in Nat
  BY <1>1, StageAt, NodeIs
<1>3. pre[TailNode] = Node(s, Len(s))
  <2>1. Len(s) \in 0 .. Len(s) /\ Node(s, Len(s) + 1) = TailNode
    BY <1>2, NodeIs
  <2> QED BY <1>2, <2>1 DEF PushOK, PreIs
<1>4. /\ \A n \in Nodes : n # Node(s, Len(s)) => next'[n] = next[n]
      /\ next'[Node(s, Len(s))] = p[t]
  <2>1. Node(s, Len(s)) \in Nodes
    BY <1>2, NodeIs
  <2> QED BY <1>1, <1>3, <2>1
<1>5. \A i \in 0 .. Len(s) : PreIs(s, i)' /\ (i # Len(s) => NextIs(s, i)')
  <2> TAKE i \in 0 .. Len(s)
  <2>1. Node(s, i) \in Nodes /\ (i # Len(s) => Node(s, i) # Node(s, Len(s)))
    BY <1>2, NodeIs
  <2>2. PreIs(s, i) /\ (i # Len(s) => NextIs(s, i))
    BY <1>2 DEF PushOK
  <2> QED BY <1>1, <1>4, <2>1, <2>2 DEF PreIs, NextIs
<1>6. Allocated(s)'
  <2>1. Node(s, Len(s)) # TailNode
    BY <1>2, NodeIs
  <2>2. next'[TailNode] = next[TailNode]
    BY <1>1, <1>4, <2>1
  <2> QED BY <1>1, <2>2 DEF Allocated
<1>7. Fresh(t, s)' /\ Coming(t, Entries(s), EntryAt(p[t]))'
  BY <1>1, <1>2 DEF PushOK, Fresh, Coming, Entries, EntryAt
<1>8. PushOK(t, s)'
  BY <1>1, <1>4, <1>5, <1>7 DEF PushOK
<1> QED BY <1>1, <1>6, <1>8 DEF After, StageOK

\* The second assignment of lru_push: the chain stays.
LEMMA Push2Keeps ==
  ASSUME ThreadInv, NEW t \in Workers, NEW s, Allocated(s), StageOK(t, s), Push2(t)
  PROVE  After(t, s)'
<1>1. /\ at[t] = "push2" /\ at'[t] = "push3" /\ pre' = [pre EXCEPT ![p[t]] = pre[TailNode]]
      /\ UNCHANGED <<next, key, data, cells, size, p, op, want, val, model, modelSize, modelCrashed>>
      /\ pre \in [Nodes -> Nodes \cup {Null, Garbage}] /\ TailNode \notin Cells
  <2>1. relink(t)
    BY DEF relink
  <2> QED BY <2>1, RelinkFrame DEF Push2, Move, localVars
<1>2. PushOK(t, s) /\ s \in Seq(Cells) /\ Len(s) \in Nat
  BY <1>1, StageAt, NodeIs
<1>3. pre[TailNode] = Node(s, Len(s))
  <2>1. Len(s) \in 0 .. Len(s) /\ Node(s, Len(s) + 1) = TailNode
    BY <1>2, NodeIs
  <2> QED BY <1>2, <2>1 DEF PushOK, PreIs
<1>4. p[t] \in Cells /\ p[t] \in Nodes
  BY <1>2, FreshIs DEF PushOK
<1>5. (\A n \in Nodes : n # p[t] => pre'[n] = pre[n]) /\ pre'[p[t]] = Node(s, Len(s))
  BY <1>1, <1>3, <1>4
<1>6. \A i \in 0 .. Len(s) : PreIs(s, i)' /\ (i # Len(s) => NextIs(s, i)')
  <2> TAKE i \in 0 .. Len(s)
  <2>1. Node(s, i + 1) \in Nodes
    BY <1>2, NodeIs
  <2>2. Node(s, i + 1) # p[t]
    <3>1. CASE i = Len(s)
      BY <1>1, <1>4, <3>1, NodeIs
    <3>2. CASE i # Len(s)
      <4>1. i + 1 \in 1 .. Len(s)
        BY <1>2, <3>2
      <4> QED BY <1>2, <4>1, NodeIs DEF PushOK, Fresh
    <3> QED BY <3>1, <3>2
  <2>3. PreIs(s, i) /\ (i # Len(s) => NextIs(s, i))
    BY <1>2 DEF PushOK
  <2> QED BY <1>1, <1>5, <2>1, <2>2, <2>3 DEF PreIs, NextIs
<1>7. Allocated(s)' /\ Fresh(t, s)' /\ Coming(t, Entries(s), EntryAt(p[t]))'
  <2>1. HeadNode \in Nodes /\ HeadNode # p[t]
    BY <1>4, LruAssumption DEF HeadNode, Nodes, Cells
  <2>2. pre'[HeadNode] = pre[HeadNode]
    BY <1>5, <2>1
  <2> QED BY <1>1, <1>2, <2>2 DEF PushOK, Allocated, Fresh, Coming, Entries, EntryAt
<1>8. PushOK(t, s)'
  BY <1>1, <1>2, <1>5, <1>6, <1>7 DEF PushOK
<1> QED BY <1>1, <1>7, <1>8 DEF After, StageOK

\* The third assignment of lru_push: the chain stays.
LEMMA Push3Keeps ==
  ASSUME ThreadInv, NEW t \in Workers, NEW s, Allocated(s), StageOK(t, s), Push3(t)
  PROVE  After(t, s)'
<1>1. /\ at[t] = "push3" /\ at'[t] = "push4" /\ next' = [next EXCEPT ![p[t]] = TailNode]
      /\ UNCHANGED <<pre, key, data, cells, size, p, op, want, val, model, modelSize, modelCrashed>>
      /\ next \in [Nodes -> Nodes \cup {Null, Garbage}] /\ TailNode \in Nodes /\ TailNode \notin Cells
  <2>1. relink(t)
    BY DEF relink
  <2> QED BY <2>1, RelinkFrame DEF Push3, Move, localVars
<1>2. PushOK(t, s) /\ s \in Seq(Cells) /\ Len(s) \in Nat
  BY <1>1, StageAt, NodeIs
<1>3. p[t] \in Cells /\ p[t] \in Nodes
  BY <1>2, FreshIs DEF PushOK
<1>4. (\A n \in Nodes : n # p[t] => next'[n] = next[n]) /\ next'[p[t]] = TailNode
  BY <1>1, <1>3
<1>5. \A i \in 0 .. Len(s) : Node(s, i) \in Nodes /\ Node(s, i) # p[t]
  <2> TAKE i \in 0 .. Len(s)
  <2>1. CASE i = 0
    BY <1>2, <1>3, <2>1, NodeIs DEF HeadNode, Cells
  <2>2. CASE i \in 1 .. Len(s)
    BY <1>2, <2>2, NodeIs DEF PushOK, Fresh
  <2>3. Node(s, i) \in Nodes
    BY <1>2, NodeIs
  <2> QED BY <1>2, <2>1, <2>2, <2>3
<1>6. \A i \in 0 .. Len(s) : PreIs(s, i)' /\ (i # Len(s) => NextIs(s, i)')
  <2> TAKE i \in 0 .. Len(s)
  <2>1. PreIs(s, i) /\ (i # Len(s) => NextIs(s, i))
    BY <1>2 DEF PushOK
  <2> QED BY <1>1, <1>4, <1>5, <2>1 DEF PreIs, NextIs
<1>7. next'[Node(s, Len(s))] = p[t]
  <2>1. next[Node(s, Len(s))] = p[t] /\ Len(s) \in 0 .. Len(s)
    BY <1>1, <1>2 DEF PushOK
  <2> QED BY <1>4, <1>5, <2>1
<1>8. next'[TailNode] = next[TailNode]
  BY <1>1, <1>3, <1>4
<1>9. Allocated(s)' /\ Fresh(t, s)' /\ Coming(t, Entries(s), EntryAt(p[t]))'
  BY <1>1, <1>2, <1>8 DEF PushOK, Allocated, Fresh, Coming, Entries, EntryAt
<1>10. pre'[p'[t]] = Node(s, Len(s))
  BY <1>1, <1>2 DEF PushOK
<1>11. PushOK(t, s)'
  BY <1>1, <1>4, <1>6, <1>7, <1>9, <1>10 DEF PushOK
<1> QED BY <1>1, <1>9, <1>11 DEF After, StageOK

\* The last assignment of lru_push: the chain has grown by the node.
LEMMA Push4Keeps ==
  ASSUME ThreadInv, NEW t \in Workers, NEW s, Allocated(s), StageOK(t, s), Push4(t)
  PROVE  \E r : After(t, r)'
<1>1. /\ at[t] = "push4" /\ pre' = [pre EXCEPT ![TailNode] = p[t]]
      /\ at'[t] = (IF op[t] = "insert" THEN "grow" ELSE "out")
      /\ UNCHANGED <<next, key, data, cells, size, p, op, want, val, model, modelSize, modelCrashed>>
      /\ pre \in [Nodes -> Nodes \cup {Null, Garbage}] /\ TailNode \in Nodes /\ TailNode \notin Cells
  <2>1. relink(t)
    BY DEF relink
  <2> QED BY <2>1, RelinkFrame DEF Push4, Move, localVars
<1>2. PushOK(t, s) /\ s \in Seq(Cells) /\ Len(s) \in Nat
  BY <1>1, StageAt, NodeIs
<1>3. /\ p[t] \in Cells /\ p[t] \in Nodes /\ p[t] =< cells /\ p[t] # TailNode
      /\ \A i \in 1 .. Len(s) : s[i] # p[t]
  BY <1>2, FreshIs DEF PushOK
<1>4. (\A n \in Nodes : n # TailNode => pre'[n] = pre[n]) /\ pre'[TailNode] = p[t]
  BY <1>1
<1>5. PICK n \in Cells : n = p[t]
  BY <1>3
<1> DEFINE r == Append(s, n)
<1>6. /\ r \in Seq(Cells) /\ Len(r) = Len(s) + 1 /\ Entries(r) = Append(Entries(s), EntryAt(n))
      /\ \A j \in 0 .. Len(s) : Node(r, j) = Node(s, j)
      /\ Node(r, Len(s) + 1) = n /\ Node(r, Len(s) + 2) = TailNode
      /\ \A j \in 1 .. Len(s) : r[j] = s[j]
      /\ r[Len(s) + 1] = n
  <2>1. \A j \in 1 .. Len(s) : r[j] = s[j]
    BY <1>2
  <2>2. r[Len(s) + 1] = n
    BY <1>2
  <2> HIDE DEF r
  <2>3. r = Append(s, n)
    BY DEF r
  <2>4. /\ Append(s, n) \in Seq(Cells) /\ Len(Append(s, n)) = Len(s) + 1
        /\ Entries(Append(s, n)) = Append(Entries(s), EntryAt(n))
        /\ \A j \in 0 .. Len(s) : Node(Append(s, n), j) = Node(s, j)
        /\ Node(Append(s, n), Len(s) + 1) = n /\ Node(Append(s, n), Len(s) + 2) = TailNode
    BY WithCell
  <2> QED BY <2>1, <2>2, <2>3, <2>4
<1> HIDE DEF r
<1>7. Allocated(r)'
  <2>1. \A j \in 1 .. Len(r) : r[j] =< cells'
    BY <1>1, <1>2, <1>3, <1>5, <1>6 DEF Allocated
  <2>2. \A j, x \in 1 .. Len(r) : r[j] = r[x] => j = x
    BY <1>2, <1>3, <1>5, <1>6 DEF Allocated
  <2>3. next'[TailNode] = Null /\ pre'[HeadNode] = Null
    <3>1. HeadNode \in Nodes /\ HeadNode # TailNode
      BY LruAssumption DEF HeadNode, Nodes, TailNode
    <3> QED BY <1>1, <1>4, <3>1 DEF Allocated
  <2> QED BY <1>6, <2>1, <2>2, <2>3 DEF Allocated
<1>8. Linked(r)'
  <2> SUFFICES ASSUME NEW j \in 0 .. Len(s) + 1 PROVE NextIs(r, j)' /\ PreIs(r, j)'
    BY <1>6 DEF Linked
  <2>1. CASE j = Len(s) + 1
    <3>1. Node(r, j) = n /\ Node(r, j + 1) = TailNode
      BY <1>2, <1>6, <2>1
    <3>2. next[p[t]] = TailNode
      BY <1>1, <1>2 DEF PushOK
    <3> QED BY <1>1, <1>4, <1>5, <3>1, <3>2 DEF NextIs, PreIs
  <2>2. CASE j = Len(s)
    <3>1. Node(r, j) = Node(s, Len(s)) /\ Node(r, j + 1) = n
      BY <1>2, <1>6, <2>2
    <3>2. next[Node(s, Len(s))] = p[t] /\ pre[p[t]] = Node(s, Len(s))
      BY <1>1, <1>2 DEF PushOK
    <3> QED BY <1>1, <1>3, <1>4, <1>5, <3>1, <3>2 DEF NextIs, PreIs
  <2>3. CASE j \in 0 .. Len(s) - 1
    <3>1. j + 1 \in 0 .. Len(s) /\ j \in 0 .. Len(s) /\ j # Len(s)
      BY <1>2, <2>3
    <3>2. Node(r, j) = Node(s, j) /\ Node(r, j + 1) = Node(s, j + 1)
      BY <1>6, <3>1
    <3>3. next[Node(s, j)] = Node(s, j + 1) /\ pre[Node(s, j + 1)] = Node(s, j)
      BY <1>2, <3>1 DEF PushOK, NextIs, PreIs
    <3>4. Node(s, j + 1) \in Nodes /\ Node(s, j + 1) # TailNode
      <4>1. j + 1 \in 0 .. Len(s) + 1 /\ Len(s) + 1 \in 0 .. Len(s) + 1 /\ j + 1 # Len(s) + 1
        BY <1>2, <3>1
      <4> QED BY <4>1, NodeIs
    <3> QED BY <1>1, <1>4, <3>2, <3>3, <3>4 DEF NextIs, PreIs
  <2> QED BY <1>2, <2>1, <2>2, <2>3
<1>9. model = Entries(r) /\ ~ modelCrashed /\ modelSize = IF op[t] = "insert" THEN size + 1 ELSE size
  BY <1>2, <1>5, <1>6 DEF PushOK, Coming
<1>10. Entries(r)' = Entries(r)
  BY <1>1 DEF Entries, EntryAt
<1>11. CASE op[t] = "insert"
  BY <1>1, <1>7, <1>8, <1>9, <1>10, <1>11 DEF After, StageOK, GrowOK
<1>12. CASE op[t] # "insert"
  BY <1>1, <1>7, <1>8, <1>9, <1>10, <1>12 DEF After, SettledOK
<1> QED BY <1>11, <1>12

\* lru_put counts the node: the chain stays.
LEMMA GrowKeeps ==
  ASSUME ThreadInv, NEW t \in Workers, NEW s, Allocated(s), StageOK(t, s), Grow(t)
  PROVE  After(t, s)'
<1>1. /\ at[t] = "grow" /\ at'[t] = "out" /\ size' = size + 1
      /\ UNCHANGED <<next, pre, key, data, cells, model, modelSize, modelCrashed>>
  <2>1. relink(t)
    BY DEF relink
  <2> QED BY <2>1, RelinkFrame DEF Grow, Move
<1>2. GrowOK(t, s)
  BY <1>1, StageAt
<1>3. Allocated(s)' /\ SettledOK(s)'
  BY <1>1, <1>2 DEF GrowOK, SettledOK, Allocated, Linked, NextIs, PreIs, Entries, EntryAt
<1> QED BY <1>1, <1>3 DEF After

-----------------------------------------------------------------------------
(* The list, as long as threads use it one at a time *)

\* The thread that is in the list is the one that is busy with it.
LEMMA InListIsBusy == ThreadInv => \A t \in Workers : InList(t) <=> Busy(t)
<1> SUFFICES ASSUME ThreadInv, NEW t \in Workers PROVE InList(t) <=> Busy(t)
  OBVIOUS
<1>1. PlaceOK(t) /\ at[t] \in Places
  BY DEF ThreadInv, TypeOK
<1> QED BY <1>1 DEF InList, Busy, PlaceOK, Inside, EmptyPlaces, ListPlaces, Places

\* A thread in the list code is the one the invariant speaks of.
LEMMA TheOne ==
  ASSUME NEW t \in Workers, NEW s, ListOK(s), Busy(t)
  PROVE  Allocated(s) /\ StageOK(t, s) /\ \A u \in Workers \ {t} : ~ Busy(u)
<1>1. PICK u \in Workers : (\A v \in Workers \ {u} : ~ Busy(v)) /\ StageOK(u, s)
  BY DEF ListOK
<1>2. u = t
  BY <1>1
<1> QED BY <1>1, <1>2 DEF ListOK

\* One step of the thread in the list code.
LEMMA ListStep ==
  ASSUME ThreadInv, NEW t \in Workers, NEW s, Allocated(s), StageOK(t, s),
         find(t) \/ relink(t), at[t] = "malloc" => cells < MaxPuts
  PROVE  \E r : After(t, r)'
<1>1. ~ FindFirst(t)
  BY StageAt DEF FindFirst, Move, Busy, ListPlaces
<1>2. CASE FindNext(t)
  BY <1>2, FindNextKeeps
<1>3. CASE FindHit(t)
  BY <1>3, FindHitKeeps
<1>4. CASE GetMiss(t)
  BY <1>4, GetMissKeeps
<1>5. CASE PutMiss(t)
  BY <1>5, PutMissKeeps
<1>6. CASE Remove1(t)
  BY <1>6, Remove1Keeps
<1>7. CASE Remove2(t)
  BY <1>7, Remove2Keeps
<1>8. CASE SetData(t)
  BY <1>8, SetDataKeeps
<1>9. CASE Malloc(t)
  <2>1. at[t] = "malloc"
    BY <1>9 DEF Malloc, Move
  <2> QED BY <1>9, <2>1, MallocKeeps
<1>10. CASE Push1(t)
  BY <1>10, Push1Keeps
<1>11. CASE Push2(t)
  BY <1>11, Push2Keeps
<1>12. CASE Push3(t)
  BY <1>12, Push3Keeps
<1>13. CASE Push4(t)
  BY <1>13, Push4Keeps
<1>14. CASE Grow(t)
  BY <1>14, GrowKeeps
<1> QED BY <1>1, <1>2, <1>3, <1>4, <1>5, <1>6, <1>7, <1>8, <1>9, <1>10, <1>11, <1>12, <1>13, <1>14
    DEF find, relink

\* After it, the invariant holds again.
LEMMA ListAgain ==
  ASSUME NEW t \in Workers, NEW s, After(t, s)', \A u \in Workers \ {t} : ~ Busy(u)'
  PROVE  \E r \in Seq(Cells) : ListOK(r)'
<1>1. Allocated(s)' /\ s \in Seq(Cells)
  BY DEF After, Allocated
<1>2. CASE at'[t] = "out"
  <2>1. ~ Busy(t)' /\ SettledOK(s)'
    BY <1>2 DEF After, Busy, ListPlaces
  <2>2. ListOK(s)'
    BY <1>1, <2>1 DEF ListOK
  <2> QED BY <1>1, <2>2
<1>3. CASE at'[t] # "out"
  <2>1. StageOK(t, s)'
    BY <1>3 DEF After
  <2>2. ListOK(s)'
    BY <1>1, <2>1 DEF ListOK
  <2> QED BY <1>1, <2>2
<1> QED BY <1>2, <1>3

\* Steps outside the list code leave the list alone.
LEMMA ListLeft ==
  ASSUME NEW s, ListOK(s), UNCHANGED <<heapVars, p, ghostVars>>,
         \A u \in Workers : /\ Busy(u)' <=> Busy(u)
                            /\ Busy(u) => /\ at'[u] = at[u] /\ op'[u] = op[u]
                                          /\ want'[u] = want[u] /\ val'[u] = val[u]
  PROVE  ListOK(s)'
<1>1. UNCHANGED <<next, pre, key, data, cells, size, p, model, modelSize, modelCrashed>>
  BY DEF heapVars, ghostVars
<1>2. Allocated(s)' /\ (Linked(s)' <=> Linked(s)) /\ Entries(s)' = Entries(s)
  BY <1>1 DEF ListOK, Allocated, Linked, NextIs, PreIs, Entries, EntryAt
<1>3. \A u \in Workers : Busy(u)' <=> Busy(u)
  OBVIOUS
<1>4. CASE (\A u \in Workers : ~ Busy(u)) /\ SettledOK(s)
  BY <1>1, <1>2, <1>3, <1>4 DEF ListOK, SettledOK
<1>5. ASSUME NEW u \in Workers, \A v \in Workers \ {u} : ~ Busy(v), StageOK(u, s)
      PROVE  ListOK(s)'
  <2>1. Busy(u)
    BY <1>5, StageAt
  <2>2. at'[u] = at[u] /\ op'[u] = op[u] /\ want'[u] = want[u] /\ val'[u] = val[u] /\ p'[u] = p[u]
    BY <1>1, <2>1
  <2>3. Last(u)' = Last(u) /\ EntryAt(p[u])' = EntryAt(p[u])
    BY <1>1, <2>2 DEF Last, EntryAt
  <2>4. FindOK(u, s) => FindOK(u, s)'
    BY <1>1, <1>2, <2>2 DEF FindOK, Called
  <2>5. RemoveOK(u, s) => RemoveOK(u, s)'
    BY <1>1, <1>2, <2>2, <2>3 DEF RemoveOK, Coming, NextIs, PreIs, Without
  <2>6. CrashOK(u, s) => CrashOK(u, s)'
    BY <1>1, <1>2, <2>2 DEF CrashOK
  <2>7. RemovedOK(u, s) => RemovedOK(u, s)'
    BY <1>1, <1>2, <2>2, <2>3 DEF RemovedOK, Coming, Fresh
  <2>8. PushOK(u, s) => PushOK(u, s)'
    BY <1>1, <1>2, <2>2, <2>3 DEF PushOK, Coming, Fresh, NextIs, PreIs
  <2>9. GrowOK(u, s) => GrowOK(u, s)'
    BY <1>1, <1>2, <2>2 DEF GrowOK
  <2>10. StageOK(u, s)'
    BY <1>5, <2>4, <2>5, <2>6, <2>7, <2>8, <2>9 DEF StageOK
  <2> QED BY <1>2, <1>3, <1>5, <2>10 DEF ListOK
<1> QED BY <1>4, <1>5 DEF ListOK

\* That the nodes form a chain is inductive.
LEMMA LinkKept == ThreadInv /\ CellsLeft /\ LinkInv /\ [Next]_vars => LinkInv'
<1> SUFFICES ASSUME ThreadInv, CellsLeft, LinkInv, [Next]_vars, alive', ~ overlap'
             PROVE  \E s \in Seq(Cells) : ListOK(s)'
  BY DEF LinkInv
<1>0. ThreadInv' /\ TypeOK /\ \A t \in Workers : CallOK(t)
  BY ThreadInvKept DEF ThreadInv
<1>1. alive /\ ~ overlap
  <2>1. UNCHANGED vars => alive /\ ~ overlap
    BY DEF vars, ghostVars
  <2>2. Next => alive
    BY DEF Next
  <2>3. ASSUME NEW t \in Workers, doit(t) \/ LockStep(t) \/ EndSection(t) PROVE ~ overlap
    BY <2>3, CallerStep DEF ghostVars
  <2>4. ASSUME NEW t \in Workers, find(t) PROVE ~ overlap
    BY <2>4 DEF find, FindFirst, CacheCall, FindNext, FindHit, GetMiss, PutMiss, ghostVars
  <2>5. ASSUME NEW t \in Workers, relink(t) \/ Wild(t) PROVE ~ overlap
    BY <2>5 DEF relink, Remove1, Remove2, SetData, Malloc, Push1, Push2, Push3, Push4, Grow, Wild, ghostVars
  <2> QED BY <2>1, <2>2, <2>3, <2>4, <2>5 DEF Next
<1>2. PICK s \in Seq(Cells) : ListOK(s)
  BY <1>1 DEF LinkInv
<1>3. CASE UNCHANGED vars
  <2>1. UNCHANGED <<heapVars, p, ghostVars>> /\ UNCHANGED <<at, op, want, val>>
    BY <1>3 DEF vars, localVars
  <2>2. ListOK(s)'
    BY <1>2, <2>1, ListLeft DEF Busy
  <2> QED BY <2>2
<1>4. ASSUME NEW t \in Workers, doit(t) \/ LockStep(t) \/ EndSection(t) PROVE \E r \in Seq(Cells) : ListOK(r)'
  <2>1. /\ UNCHANGED <<heapVars, p, ghostVars>> /\ ~ Busy(t) /\ ~ Busy(t)'
        /\ \A u \in Workers \ {t} : at'[u] = at[u] /\ op'[u] = op[u] /\ want'[u] = want[u] /\ val'[u] = val[u]
    BY <1>4, CallerStep DEF Busy
  <2>2. \A u \in Workers : /\ Busy(u)' <=> Busy(u)
                           /\ Busy(u) => /\ at'[u] = at[u] /\ op'[u] = op[u]
                                         /\ want'[u] = want[u] /\ val'[u] = val[u]
    BY <2>1 DEF Busy
  <2>3. ListOK(s)'
    BY <1>2, <2>1, <2>2, ListLeft
  <2> QED BY <2>3
<1>5. ASSUME NEW t \in Workers, FindFirst(t) PROVE \E r \in Seq(Cells) : ListOK(r)'
  <2>1. at[t] = "first" /\ \A u \in Workers \ {t} : at'[u] = at[u]
    BY <1>0, <1>5 DEF FindFirst, Move, TypeOK
  <2>2. \A u \in Workers \ {t} : ~ Busy(u)
    BY <1>5, InListIsBusy DEF FindFirst, CacheCall
  <2>3. ~ Busy(t)
    BY <2>1 DEF Busy, ListPlaces
  <2>4. \A u \in Workers : ~ Busy(u)
    BY <2>2, <2>3
  <2>5. SettledOK(s) /\ Allocated(s)
    BY <1>2, <2>4, StageAt DEF ListOK
  <2>6. After(t, s)'
    BY <1>5, <2>5, FindFirstKeeps
  <2>7. \A u \in Workers \ {t} : ~ Busy(u)'
    BY <2>1, <2>2 DEF Busy
  <2> QED BY <2>6, <2>7, ListAgain
<1>6. ASSUME NEW t \in Workers, find(t) \/ relink(t), ~ FindFirst(t) PROVE \E r \in Seq(Cells) : ListOK(r)'
  <2>1. at[t] = "malloc" => cells < MaxPuts
    BY <1>0, CellForMalloc DEF CallOK
  <2>2. Busy(t) /\ \A u \in Workers \ {t} : at'[u] = at[u]
    <3>1. CASE relink(t)
      BY <2>1, <3>1, RelinkStep
    <3>2. CASE find(t)
      <4>1. at[t] = "find"
        BY <1>6, <3>2 DEF find, FindNext, FindHit, GetMiss, PutMiss, Move
      <4> QED BY <3>2, <4>1, FindStep DEF Busy, ListPlaces
    <3> QED BY <1>6, <3>1, <3>2
  <2>3. Allocated(s) /\ StageOK(t, s) /\ \A u \in Workers \ {t} : ~ Busy(u)
    BY <1>2, <2>2, TheOne
  <2>4. \E r : After(t, r)'
    BY <1>6, <2>1, <2>3, ListStep
  <2>5. \A u \in Workers \ {t} : ~ Busy(u)'
    BY <2>2, <2>3 DEF Busy
  <2> QED BY <2>4, <2>5, ListAgain
<1>7. ASSUME NEW t \in Workers, Wild(t) PROVE FALSE
  BY <1>7 DEF Wild
<1> QED BY <1>3, <1>4, <1>5, <1>6, <1>7 DEF Next, find

\* Nobody is in the list code: the list is settled.
LEMMA QuietList ==
  ASSUME ThreadInv, LinkInv, Quiet
  PROVE  \E s : Allocated(s) /\ SettledOK(s)
<1>1. \A t \in Workers : ~ Busy(t)
  BY InListIsBusy DEF Quiet
<1>2. PICK s \in Seq(Cells) : ListOK(s)
  BY DEF LinkInv, Quiet
<1> QED BY <1>1, <1>2, StageAt DEF ListOK

\* The nodes form a chain, in every reachable state.
LEMMA LinkHolds == Spec => [](ThreadInv /\ LinkInv)
<1>1. ASSUME Init PROVE LinkInv
  <2> DEFINE s == <<>>
  <2>1. s \in Seq(Cells) /\ Len(s) = 0
    BY EmptySeq
  <2> HIDE DEF s
  <2>2. Node(s, 0) = HeadNode /\ Node(s, 1) = TailNode
    BY <2>1 DEF Node
  <2>3. /\ next[HeadNode] = TailNode /\ next[TailNode] = Null
        /\ pre[TailNode] = HeadNode /\ pre[HeadNode] = Null
    BY <1>1, LruAssumption DEF Init, HeadNode, TailNode, Nodes, Cells
  <2>4. Allocated(s)
    BY <2>1, <2>3 DEF Allocated
  <2>5. Linked(s)
    BY <2>1, <2>2, <2>3 DEF Linked, NextIs, PreIs
  <2>6. model = Entries(s)
    <3>1. Entries(s) = <<>>
      BY <2>1, EntriesAre DEF s
    <3> QED BY <1>1, <3>1 DEF Init, Cache!Init
  <2>7. SettledOK(s)
    BY <1>1, <2>5, <2>6 DEF Init, Cache!Init, SettledOK
  <2>8. \A t \in Workers : ~ Busy(t)
    BY <1>1 DEF Init, Busy, ListPlaces
  <2> QED BY <2>1, <2>4, <2>7, <2>8 DEF LinkInv, ListOK
<1>2. Spec => [](ThreadInv /\ CellsLeft)
  BY ThreadInvHolds
<1> QED BY <1>1, <1>2, LinkKept, PTL DEF Spec

\* As long as threads use the list one at a time, the pointer code follows no
\* NULL or uninitialised pointer, but in the one case that LruCache has: the
\* uninitialised lru->size says "full" of an empty list.
THEOREM NoOtherCrash == Spec => []OnlyKnownCrash
<1>1. Init => OnlyKnownCrash
  BY DEF Init, OnlyKnownCrash
<1>2. ASSUME ThreadInv, LinkInv, OnlyKnownCrash, [Next]_vars PROVE OnlyKnownCrash'
  <2>1. CASE UNCHANGED vars
    BY <1>2, <2>1 DEF vars, ghostVars, OnlyKnownCrash
  <2>2. ASSUME NEW t \in Workers, alive, doit(t) \/ LockStep(t) \/ EndSection(t) \/ find(t) \/ relink(t)
        PROVE  alive'
    BY <2>2 DEF doit, Request, Returned, Store, GiveUp, Stored, LockStep, EndSection,
          find, FindFirst, FindNext, FindHit, GetMiss, PutMiss,
          relink, Remove1, Remove2, SetData, Malloc, Push1, Push2, Push3, Push4, Grow
  <2>3. ASSUME NEW t \in Workers, alive, Wild(t) PROVE overlap' \/ modelCrashed'
    <3>1. UNCHANGED <<overlap, modelCrashed>>
      BY <2>3 DEF Wild, ghostVars
    <3>2. CASE overlap
      BY <3>1, <3>2
    <3>3. CASE ~ overlap
      <4>1. PICK s \in Seq(Cells) : ListOK(s)
        BY <1>2, <2>3, <3>3 DEF LinkInv
      <4>2. Busy(t)
        BY <2>3 DEF Wild, Busy, ListPlaces
      <4>3. Allocated(s) /\ StageOK(t, s) /\ Len(s) \in Nat
        BY <4>1, <4>2, TheOne, NodeIs
      <4>4. CASE at[t] = "find" /\ p[t] \notin Cells \cup {TailNode}
        <5>1. PICK i \in 1 .. Len(s) + 1 : p[t] = Node(s, i)
          BY <4>3, <4>4, StageAt DEF FindOK
        <5>2. i = Len(s) + 1 \/ i \in 1 .. Len(s)
          BY <4>3
        <5> QED BY <4>3, <4>4, <5>1, <5>2, NodeIs
      <4>5. CASE at[t] = "remove1" /\ (p[t] \in Nodes => next[p[t]] \notin Nodes)
        <5>1. CASE CrashOK(t, s)
          BY <3>1, <5>1 DEF CrashOK
        <5>2. CASE RemoveOK(t, s)
          <6>1. PICK i \in 1 .. Len(s) : p[t] = s[i] /\ Linked(s)
            BY <4>5, <5>2 DEF RemoveOK
          <6>2. /\ p[t] = Node(s, i) /\ Node(s, i) \in Nodes /\ Node(s, i + 1) \in Nodes
                /\ i \in 0 .. Len(s)
            BY <4>3, <6>1, NodeIs
          <6>3. next[p[t]] = Node(s, i + 1)
            BY <6>1, <6>2 DEF Linked, NextIs
          <6> QED BY <4>5, <6>2, <6>3
        <5> QED BY <4>3, <4>5, <5>1, <5>2, StageAt
      <4>6. CASE at[t] = "remove2" /\ pre[p[t]] \notin Nodes
        <5>1. PICK i \in 1 .. Len(s) : p[t] = s[i] /\ \A j \in 0 .. Len(s) : j # i => PreIs(s, j)
          BY <4>3, <4>6, StageAt DEF RemoveOK
        <5>2. p[t] = Node(s, (i - 1) + 1) /\ Node(s, i - 1) \in Nodes /\ i - 1 \in 0 .. Len(s)
          BY <4>3, <5>1, NodeIs
        <5>3. pre[p[t]] = Node(s, i - 1)
          BY <5>1, <5>2 DEF PreIs
        <5> QED BY <4>6, <5>2, <5>3
      <4>7. CASE at[t] = "push1" /\ pre[TailNode] \notin Nodes
        <5>1. PreIs(s, Len(s)) /\ Node(s, Len(s) + 1) = TailNode /\ Node(s, Len(s)) \in Nodes
          BY <4>3, <4>7, StageAt, NodeIs DEF PushOK
        <5> QED BY <4>7, <5>1 DEF PreIs
      <4> QED BY <2>3, <4>4, <4>5, <4>6, <4>7 DEF Wild
    <3> QED BY <3>2, <3>3
  <2> QED BY <1>2, <2>1, <2>2, <2>3 DEF Next, OnlyKnownCrash
<1> QED BY <1>1, <1>2, LinkHolds, PTL DEF Spec

-----------------------------------------------------------------------------
(* The walk along the pointers *)

Steps == 0 .. MaxPuts + 1

\* A function that satisfies the equation of Walk is the walk.
LEMMA WalkIs ==
  ASSUME NEW f, NEW from, NEW g,
         g = [i \in Steps |-> IF i = 0 THEN from ELSE IF g[i - 1] \in Nodes THEN f[g[i - 1]] ELSE Null]
  PROVE  Walk(f, from) = g
<1> DEFINE Walks(n) == n = [i \in Steps |-> IF i = 0 THEN from
                                            ELSE IF n[i - 1] \in Nodes THEN f[n[i - 1]] ELSE Null]
           n == Walk(f, from)
<1>1. n = CHOOSE m : Walks(m)
  BY DEF Walk, Steps
<1>2. Walks(g)
  OBVIOUS
<1>3. Walks(n)
  BY <1>1, <1>2, Zenon
<1> DEFINE differ == {i \in Steps : n[i] # g[i]}
<1> HIDE DEF n
<1>4. differ = {}
  <2> SUFFICES ASSUME differ # {} PROVE FALSE
    OBVIOUS
  <2>1. differ \subseteq Nat
    BY LruAssumption DEF Steps
  <2>2. PICK i \in differ : \A j \in differ : i =< j
    BY <2>1, Least
  <2>3. CASE i = 0
    BY <1>2, <1>3, <2>3
  <2>4. CASE i # 0
    <3>1. i - 1 \in Steps /\ i \in Steps /\ i - 1 \notin differ
      BY <2>1, <2>2, <2>4, LruAssumption DEF Steps
    <3>2. n[i - 1] = g[i - 1]
      BY <3>1
    <3>3. n[i] = g[i]
      BY <1>2, <1>3, <2>4, <3>1, <3>2
    <3> QED BY <2>2, <3>3
  <2> QED BY <2>3, <2>4
<1>5. n = g
  BY <1>2, <1>3, <1>4
<1> QED BY <1>5 DEF n

\* The list's own way from head to tail, and from tail to head.
There(s) == [i \in Steps |-> IF i =< Len(s) + 1 THEN Node(s, i) ELSE Null]
Back(s) == [i \in Steps |-> IF i =< Len(s) + 1 THEN Node(s, Len(s) + 1 - i) ELSE Null]

\* A chain has no more nodes than were allocated.
LEMMA LenFits == ASSUME NEW s, Allocated(s) PROVE Len(s) =< MaxPuts
<1>1. s \in [1 .. Len(s) -> Cells] /\ Len(s) \in Nat
  BY LenProperties DEF Allocated
<1>2. s \in Injection(1 .. Len(s), Cells)
  BY <1>1 DEF Allocated, Injection, IsInjective
<1>3. \A n \in Nat : IsFiniteSet(1 .. n) /\ Cardinality(1 .. n) = n
  <2> TAKE n \in Nat
  <2>1. 1 \in Int /\ n \in Int
    OBVIOUS
  <2>2. IsFiniteSet(1 .. n) /\ Cardinality(1 .. n) = IF 1 > n THEN 0 ELSE n - 1 + 1
    BY <2>1, FS_Interval
  <2> QED BY <2>2
<1>4. IsFiniteSet(Cells) /\ Cardinality(Cells) = MaxPuts /\ Cardinality(1 .. Len(s)) = Len(s)
  BY <1>1, <1>3, LruAssumption DEF Cells
<1> QED BY <1>2, <1>4, FS_Injection

\* From head by next, one meets the nodes of the chain in order.
LEMMA WalkThere ==
  ASSUME NEW s, Allocated(s), Linked(s)
  PROVE  Walk(next, HeadNode) = There(s)
<1>1. Len(s) \in Nat /\ Len(s) =< MaxPuts /\ Null \notin Nodes
  BY NodeIs, LenFits, LruAssumption DEF Null, Nodes, HeadNode, TailNode, Cells
<1> DEFINE g == There(s)
<1>2. g = [i \in Steps |-> IF i = 0 THEN HeadNode ELSE IF g[i - 1] \in Nodes THEN next[g[i - 1]] ELSE Null]
  <2> SUFFICES ASSUME NEW i \in Steps
               PROVE  g[i] = IF i = 0 THEN HeadNode ELSE IF g[i - 1] \in Nodes THEN next[g[i - 1]] ELSE Null
    BY DEF There
  <2>1. CASE i = 0
    BY <1>1, <2>1, NodeIs DEF There
  <2>2. CASE i # 0 /\ i =< Len(s) + 1
    <3>1. i - 1 \in 0 .. Len(s) /\ i - 1 \in Steps /\ (i - 1) + 1 = i /\ i - 1 =< Len(s) + 1
      BY <1>1, <2>2, LruAssumption DEF Steps
    <3>2. NextIs(s, i - 1) /\ Node(s, i - 1) \in Nodes
      BY <1>1, <3>1, NodeIs DEF Linked
    <3> QED BY <2>2, <3>1, <3>2 DEF There, NextIs
  <2>3. CASE i = Len(s) + 2
    <3>1. i - 1 = Len(s) + 1 /\ i - 1 \in Steps /\ i # 0 /\ ~ (i =< Len(s) + 1)
      BY <1>1, <2>3, LruAssumption DEF Steps
    <3>2. g[i - 1] = TailNode /\ TailNode \in Nodes /\ next[TailNode] = Null
      BY <1>1, <3>1, NodeIs DEF There, Allocated, Nodes
    <3> QED BY <3>1, <3>2 DEF There
  <2>4. CASE i > Len(s) + 2
    <3>1. i - 1 \in Steps /\ i # 0 /\ ~ (i =< Len(s) + 1) /\ ~ (i - 1 =< Len(s) + 1)
      BY <1>1, <2>4, LruAssumption DEF Steps
    <3> QED BY <1>1, <3>1 DEF There
  <2> QED BY <1>1, <2>1, <2>2, <2>3, <2>4 DEF Steps
<1> HIDE DEF g
<1>3. Walk(next, HeadNode) = g
  BY <1>2, WalkIs
<1> QED BY <1>3 DEF g

\* From tail by pre, one meets them in the opposite order.
LEMMA WalkBack ==
  ASSUME NEW s, Allocated(s), Linked(s)
  PROVE  Walk(pre, TailNode) = Back(s)
<1>1. Len(s) \in Nat /\ Len(s) =< MaxPuts /\ Null \notin Nodes
  BY NodeIs, LenFits, LruAssumption DEF Null, Nodes, HeadNode, TailNode, Cells
<1> DEFINE g == Back(s)
<1>2. g = [i \in Steps |-> IF i = 0 THEN TailNode ELSE IF g[i - 1] \in Nodes THEN pre[g[i - 1]] ELSE Null]
  <2> SUFFICES ASSUME NEW i \in Steps
               PROVE  g[i] = IF i = 0 THEN TailNode ELSE IF g[i - 1] \in Nodes THEN pre[g[i - 1]] ELSE Null
    BY DEF Back
  <2>1. CASE i = 0
    BY <1>1, <2>1, NodeIs DEF Back
  <2>2. CASE i # 0 /\ i =< Len(s) + 1
    <3>1. /\ Len(s) + 1 - i \in 0 .. Len(s) /\ i - 1 \in Steps /\ i - 1 =< Len(s) + 1
          /\ Len(s) + 1 - (i - 1) = (Len(s) + 1 - i) + 1 /\ (Len(s) + 1 - i) + 1 \in 0 .. Len(s) + 1
      BY <1>1, <2>2, LruAssumption DEF Steps
    <3>2. PreIs(s, Len(s) + 1 - i) /\ Node(s, (Len(s) + 1 - i) + 1) \in Nodes
      BY <1>1, <3>1, NodeIs DEF Linked
    <3>3. g[i - 1] = Node(s, (Len(s) + 1 - i) + 1) /\ g[i] = Node(s, Len(s) + 1 - i)
      BY <2>2, <3>1 DEF Back
    <3> QED BY <2>2, <3>2, <3>3 DEF PreIs
  <2>3. CASE i = Len(s) + 2
    <3>1. i - 1 = Len(s) + 1 /\ i - 1 \in Steps /\ i # 0 /\ ~ (i =< Len(s) + 1) /\ Len(s) + 1 - (i - 1) = 0
      BY <1>1, <2>3, LruAssumption DEF Steps
    <3>2. g[i - 1] = HeadNode /\ HeadNode \in Nodes /\ pre[HeadNode] = Null
      BY <1>1, <3>1, NodeIs DEF Back, Allocated, Nodes
    <3> QED BY <3>1, <3>2 DEF Back
  <2>4. CASE i > Len(s) + 2
    <3>1. i - 1 \in Steps /\ i # 0 /\ ~ (i =< Len(s) + 1) /\ ~ (i - 1 =< Len(s) + 1)
      BY <1>1, <2>4, LruAssumption DEF Steps
    <3> QED BY <1>1, <3>1 DEF Back
  <2> QED BY <1>1, <2>1, <2>2, <2>3, <2>4 DEF Steps
<1> HIDE DEF g
<1>3. Walk(pre, TailNode) = g
  BY <1>2, WalkIs
<1> QED BY <1>3 DEF g

\* As long as threads use it one at a time, the list is a list whenever none of
\* them is in the list code: the walk along next from head and the walk along
\* pre from tail meet the same nodes and end at the other sentinel.
THEOREM ListStaysAList == Spec => []ListIntact
<1>1. ThreadInv /\ LinkInv => ListIntact
  <2> SUFFICES ASSUME ThreadInv, LinkInv, Quiet
               PROVE  \E len \in 1 .. MaxPuts + 1 :
                         /\ Walk(next, HeadNode)[len] = TailNode
                         /\ \A i \in 0 .. len : Walk(pre, TailNode)[i] = Walk(next, HeadNode)[len - i]
    BY DEF ListIntact
  <2>1. PICK s : Allocated(s) /\ SettledOK(s)
    BY QuietList
  <2>2. Walk(next, HeadNode) = There(s) /\ Walk(pre, TailNode) = Back(s)
    BY <2>1, WalkThere, WalkBack DEF SettledOK
  <2>3. Len(s) \in Nat /\ Len(s) =< MaxPuts /\ Node(s, Len(s) + 1) = TailNode
    BY <2>1, NodeIs, LenFits
  <2> DEFINE len == Len(s) + 1
  <2>4. len \in 1 .. MaxPuts + 1 /\ There(s)[len] = TailNode
    BY <2>3, LruAssumption DEF There, Steps
  <2>5. ASSUME NEW i \in 0 .. len PROVE Back(s)[i] = There(s)[len - i]
    <3>1. i \in Steps /\ len - i \in Steps /\ i =< Len(s) + 1 /\ len - i =< Len(s) + 1
      BY <2>3, LruAssumption DEF Steps
    <3> QED BY <3>1 DEF There, Back
  <2> QED BY <2>2, <2>4, <2>5
<1> QED BY <1>1, LinkHolds, PTL

\* As long as threads use it one at a time, the entries met from head to tail
\* and lru->size are, whenever no thread is in the list code, what LruCache makes
\* of the calls so far, each as one step: the pointer code implements LruCache.
THEOREM PointersImplementCache == Spec => []ContentsAsCalled
<1>1. ThreadInv /\ LinkInv => ContentsAsCalled
  <2> SUFFICES ASSUME ThreadInv, LinkInv, Quiet PROVE Contents = model /\ size = modelSize
    BY DEF ContentsAsCalled
  <2>1. PICK s : Allocated(s) /\ SettledOK(s)
    BY QuietList
  <2>2. Walk(next, HeadNode) = There(s)
    BY <2>1, WalkThere DEF SettledOK
  <2>3. Len(s) \in Nat /\ Len(s) =< MaxPuts
    BY <2>1, NodeIs, LenFits
  <2> DEFINE n == There(s)
             stops == {i \in 1 .. MaxPuts + 1 : n[i] \notin Cells}
             len == IF stops = {} THEN MaxPuts + 1
                    ELSE (CHOOSE i \in stops : \A j \in stops : i =< j) - 1
  <2>4. \A i \in 1 .. Len(s) : n[i] = s[i] /\ n[i] \in Cells
    <3> TAKE i \in 1 .. Len(s)
    <3>1. i \in Steps /\ i =< Len(s) + 1
      BY <2>3, LruAssumption DEF Steps
    <3> QED BY <2>1, <3>1, NodeIs DEF There
  <2>5. Len(s) + 1 \in stops
    <3>1. Len(s) + 1 \in Steps /\ Len(s) + 1 \in 1 .. MaxPuts + 1
      BY <2>3, LruAssumption DEF Steps
    <3>2. n[Len(s) + 1] = TailNode /\ TailNode \notin Cells
      BY <2>1, <2>3, <3>1, NodeIs, LruAssumption DEF There, TailNode, Cells
    <3> QED BY <3>1, <3>2
  <2>6. \A j \in stops : Len(s) + 1 =< j
    <3> TAKE j \in stops
    <3>1. j \in 1 .. MaxPuts + 1 /\ j \notin 1 .. Len(s)
      BY <2>4
    <3> QED BY <2>3, <3>1, LruAssumption
  <2>7. stops \subseteq Int
    OBVIOUS
  <2>8. len = Len(s)
    <3> HIDE DEF stops
    <3>1. (CHOOSE i \in stops : \A j \in stops : i =< j) = Len(s) + 1
      <4> DEFINE m == CHOOSE i \in stops : \A j \in stops : i =< j
      <4>1. m \in stops /\ \A j \in stops : m =< j
        BY <2>5, <2>6, Zenon
      <4> HIDE DEF m
      <4>2. m = Len(s) + 1
        BY <2>3, <2>5, <2>6, <2>7, <4>1
      <4> QED BY <4>2 DEF m
    <3>2. stops # {}
      BY <2>5
    <3>3. len = (CHOOSE i \in stops : \A j \in stops : i =< j) - 1
      BY <3>2
    <3>4. len = (Len(s) + 1) - 1
      BY <3>1, <3>3
    <3> QED BY <2>3, <3>4
  <2>9. Contents = [i \in 1 .. len |-> [key |-> key[n[i]], data |-> data[n[i]]]]
    BY <2>2 DEF Contents
  <2> HIDE DEF len, n
  <2>10. Contents = Entries(s)
    BY <2>4, <2>8, <2>9 DEF Entries, EntryAt
  <2> QED BY <2>1, <2>10 DEF SettledOK
<1> QED BY <1>1, LinkHolds, PTL
=============================================================================
