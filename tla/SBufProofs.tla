----------------------------- MODULE SBufProofs -----------------------------
(***************************************************************************)
(* Theorems about the bounded buffer of proxy/lab/sbuf.c, for every finite *)
(* set of producers and consumers and every number of slots.               *)
(***************************************************************************)
EXTENDS SBuf, FiniteSetTheorems, SequenceTheorems, TLAPS

\* The index a thread loaded in its critical section is still one ahead of
\* the shared counter when the thread stores it.
LoadedIndex == /\ \A p \in Producers : pc[p] = "put" => idx[p] = rear + 1
               /\ \A c \in Consumers : pc[c] = "take" => idx[c] = front + 1

\* The inductive invariant: what the semaphores count, and that nobody moves
\* an index between another thread's load and store.
IInv == TypeOK /\ Conservation /\ LoadedIndex

-----------------------------------------------------------------------------
\* TypeOK is inductive on its own.
LEMMA TypeInductive == /\ Init => TypeOK
                       /\ TypeOK /\ [Next]_vars => TypeOK'
<1>1. Init => TypeOK
  BY ThreadsAssumption, SizeAssumption
  DEF Init, TypeOK, Threads, ProducerPCs, ConsumerPCs
<1>2. TypeOK /\ [Next]_vars => TypeOK'
  <2> SUFFICES ASSUME TypeOK, [Next]_vars PROVE TypeOK'
    OBVIOUS
  <2> USE ThreadsAssumption, SizeAssumption DEF TypeOK, Threads, ProducerPCs, ConsumerPCs, Goto
  <2>1. ASSUME NEW p \in Producers, Accept(p) PROVE TypeOK'
    BY <2>1 DEF Accept
  <2>2. ASSUME NEW p \in Producers, insert(p) PROVE TypeOK'
    <3>1. CASE P_slots(p)     BY <3>1 DEF P_slots
    <3>2. CASE P_mutex_in(p)  BY <3>2 DEF P_mutex_in
    <3>3. CASE LoadRear(p)    BY <3>3 DEF LoadRear
    <3>4. CASE Put(p)         BY <3>4 DEF Put
    <3>5. CASE V_mutex_in(p)  BY <3>5 DEF V_mutex_in
    <3>6. CASE V_items(p)     BY <3>6 DEF V_items
    <3> QED BY <2>2, <3>1, <3>2, <3>3, <3>4, <3>5, <3>6 DEF insert
  <2>3. ASSUME NEW c \in Consumers, remove(c) PROVE TypeOK'
    <3>1. CASE P_items(c)     BY <3>1 DEF P_items
    <3>2. CASE P_mutex_out(c) BY <3>2 DEF P_mutex_out
    <3>3. CASE LoadFront(c)   BY <3>3 DEF LoadFront
    <3>4. CASE Take(c)
      <4>1. buf[idx[c] % N] \in Fds \cup {None}
        BY idx[c] % N \in 0 .. N-1
      <4> QED BY <3>4, <4>1 DEF Take
    <3>5. CASE V_mutex_out(c) BY <3>5 DEF V_mutex_out
    <3>6. CASE V_slots(c)     BY <3>6 DEF V_slots
    <3> QED BY <2>3, <3>1, <3>2, <3>3, <3>4, <3>5, <3>6 DEF remove
  <2>4. ASSUME NEW c \in Consumers, Finish(c) PROVE TypeOK'
    BY <2>4 DEF Finish
  <2>5. CASE UNCHANGED vars
    BY <2>5 DEF vars
  <2> QED BY <2>1, <2>2, <2>3, <2>4, <2>5 DEF Next
<1> QED BY <1>1, <1>2

\* Every state of the model is well typed: in particular no semaphore goes
\* below zero and no index leaves the naturals.
THEOREM TypeCorrect == Spec => []TypeOK
  BY TypeInductive, PTL DEF Spec

-----------------------------------------------------------------------------
\* Adding an absent element, or removing a present one, changes the
\* cardinality of a finite set by one.
LEMMA AddOne == ASSUME NEW S, NEW x, IsFiniteSet(S), x \notin S
                PROVE  Cardinality(S \cup {x}) = Cardinality(S) + 1
  BY FS_AddElement

\* A finite set without one of its elements has one element less.
LEMMA RemoveOne == ASSUME NEW S, NEW x, IsFiniteSet(S), x \in S
                   PROVE  Cardinality(S \ {x}) = Cardinality(S) - 1
  BY FS_RemoveElement

\* The sets of threads that Conservation counts are finite.
LEMMA CountedFinite ==
  /\ IsFiniteSet(Inside)    /\ Cardinality(Inside) \in Nat
  /\ IsFiniteSet(Reserving) /\ Cardinality(Reserving) \in Nat
  /\ IsFiniteSet(Filled)    /\ Cardinality(Filled) \in Nat
  /\ IsFiniteSet(Claiming)  /\ Cardinality(Claiming) \in Nat
  /\ IsFiniteSet(Emptied)   /\ Cardinality(Emptied) \in Nat
<1>1. IsFiniteSet(Threads)
  BY ThreadsAssumption, FS_Union DEF Threads
<1>2. /\ Inside \subseteq Threads
      /\ Reserving \subseteq Producers /\ Filled \subseteq Producers
      /\ Claiming \subseteq Consumers  /\ Emptied \subseteq Consumers
  BY DEF Inside, Reserving, Filled, Claiming, Emptied
<1>3. /\ IsFiniteSet(Inside)
      /\ IsFiniteSet(Reserving) /\ IsFiniteSet(Filled)
      /\ IsFiniteSet(Claiming)  /\ IsFiniteSet(Emptied)
  BY <1>1, <1>2, ThreadsAssumption, FS_Subset
<1> QED BY <1>3, FS_CardinalityType

\* The semaphore `mutex' admits one thread.
LEMMA OneInside == ASSUME TypeOK, Conservation,
                          NEW s \in Inside, NEW t \in Inside
                   PROVE  s = t /\ mutex = 0
<1>1. Cardinality(Inside) =< 1
  BY CountedFinite DEF TypeOK, Conservation
<1>2. s = t
  <2> SUFFICES ASSUME s # t PROVE FALSE
    OBVIOUS
  <2>1. Cardinality(Inside \ {s}) = Cardinality(Inside) - 1
    BY CountedFinite, RemoveOne
  <2>2. Cardinality((Inside \ {s}) \ {t}) = Cardinality(Inside \ {s}) - 1
        /\ IsFiniteSet((Inside \ {s}) \ {t})
    BY CountedFinite, FS_RemoveElement
  <2>3. Cardinality((Inside \ {s}) \ {t}) \in Nat
    BY <2>2, FS_CardinalityType
  <2> QED BY <1>1, <2>1, <2>2, <2>3, CountedFinite
<1>3. Cardinality(Inside \ {s}) = Cardinality(Inside) - 1
      /\ IsFiniteSet(Inside \ {s})
  BY CountedFinite, FS_RemoveElement
<1>4. Cardinality(Inside \ {s}) \in Nat
  BY <1>3, FS_CardinalityType
<1> QED BY <1>1, <1>2, <1>3, <1>4, CountedFinite DEF TypeOK, Conservation
\* IInv is inductive.
LEMMA InvInductive == /\ Init => IInv
                      /\ IInv /\ [Next]_vars => IInv'
<1> USE ThreadsAssumption, SizeAssumption DEF Threads
<1>1. Init => IInv
  <2> SUFFICES ASSUME Init PROVE Conservation /\ LoadedIndex
    BY TypeInductive DEF IInv
  <2>1. /\ Inside = {} /\ Reserving = {} /\ Filled = {}
        /\ Claiming = {} /\ Emptied = {}
    BY DEF Init, Inside, InCritical, Reserving, Filled, Claiming, Emptied
  <2>2. Conservation
    BY <2>1, FS_EmptySet DEF Init, Conservation
  <2>3. LoadedIndex
    BY DEF Init, LoadedIndex
  <2> QED BY <2>2, <2>3
<1>2. IInv /\ [Next]_vars => IInv'
  <2> SUFFICES ASSUME IInv, [Next]_vars PROVE Conservation' /\ LoadedIndex'
    BY TypeInductive DEF IInv
  <2>a. /\ front \in Nat /\ rear \in Nat
        /\ mutex \in Nat /\ slots \in Nat /\ items \in Nat
        /\ pc \in [Threads -> ProducerPCs \cup ConsumerPCs]
        /\ idx \in [Threads -> Nat]
        /\ Conservation /\ LoadedIndex
    BY DEF IInv, TypeOK
  <2>b. /\ Cardinality(Inside) \in Nat /\ Cardinality(Reserving) \in Nat
        /\ Cardinality(Filled) \in Nat /\ Cardinality(Claiming) \in Nat
        /\ Cardinality(Emptied) \in Nat
    BY CountedFinite
  <2>1. ASSUME NEW p \in Producers, Accept(p) PROVE Conservation' /\ LoadedIndex'
    <3>1. UNCHANGED <<Inside, Reserving, Filled, Claiming, Emptied>>
      BY <2>1, <2>a DEF Accept, Goto, Inside, InCritical, Reserving, Filled, Claiming, Emptied
    <3> QED BY <2>1, <2>a, <3>1 DEF Accept, Goto, Conservation, LoadedIndex
  <2>2. ASSUME NEW p \in Producers, P_slots(p) PROVE Conservation' /\ LoadedIndex'
    <3>1. p \notin Reserving /\ Reserving' = Reserving \cup {p}
      BY <2>2, <2>a DEF P_slots, Goto, Reserving
    <3>2. UNCHANGED <<Inside, Filled, Claiming, Emptied>>
      BY <2>2, <2>a DEF P_slots, Goto, Inside, Filled, Claiming, Emptied, InCritical
    <3>3. Cardinality(Reserving)' = Cardinality(Reserving) + 1
      BY <3>1, AddOne, CountedFinite
    <3>4. Conservation'
      BY <2>2, <3>2, <3>3, <2>a, <2>b DEF P_slots, Conservation
    <3>5. LoadedIndex'
      BY <2>2, <2>a DEF P_slots, Goto, LoadedIndex
    <3> QED BY <3>4, <3>5
  <2>3. ASSUME NEW p \in Producers, P_mutex_in(p) PROVE Conservation' /\ LoadedIndex'
    <3>1. p \notin Inside /\ Inside' = Inside \cup {p}
      BY <2>3, <2>a DEF P_mutex_in, Goto, Inside, InCritical
    <3>2. UNCHANGED <<Reserving, Filled, Claiming, Emptied>>
      BY <2>3, <2>a DEF P_mutex_in, Goto, Reserving, Filled, Claiming, Emptied
    <3>3. Cardinality(Inside)' = Cardinality(Inside) + 1
      BY <3>1, AddOne, CountedFinite
    <3>4. Conservation'
      BY <2>3, <3>2, <3>3, <2>a, <2>b DEF P_mutex_in, Conservation
    <3>5. LoadedIndex'
      BY <2>3, <2>a DEF P_mutex_in, Goto, LoadedIndex
    <3> QED BY <3>4, <3>5
  <2>4. ASSUME NEW p \in Producers, LoadRear(p) PROVE Conservation' /\ LoadedIndex'
    <3>1. UNCHANGED <<Inside, Reserving, Filled, Claiming, Emptied>>
      BY <2>4, <2>a DEF LoadRear, Goto, Inside, Reserving, Filled, Claiming, Emptied, InCritical
    <3>2. Conservation'
      BY <2>4, <3>1, <2>a, <2>b DEF LoadRear, Conservation
    <3>3. LoadedIndex'
      BY <2>4, <2>a DEF LoadRear, Goto, LoadedIndex
    <3> QED BY <3>2, <3>3
  <2>5. ASSUME NEW p \in Producers, Put(p) PROVE Conservation' /\ LoadedIndex'
    <3>1. p \notin Filled /\ Filled' = Filled \cup {p}
      BY <2>5, <2>a DEF Put, Goto, Filled
    <3>2. p \in Reserving /\ Reserving' = Reserving \ {p}
      BY <2>5, <2>a DEF Put, Goto, Reserving
    <3>3. UNCHANGED <<Inside, Claiming, Emptied>>
      BY <2>5, <2>a DEF Put, Goto, Inside, Claiming, Emptied, InCritical
    <3>4. Cardinality(Filled)' = Cardinality(Filled) + 1
      BY <3>1, AddOne, CountedFinite
    <3>5. Cardinality(Reserving)' = Cardinality(Reserving) - 1
      BY <3>2, RemoveOne, CountedFinite
    <3>6. Conservation'
      BY <2>5, <3>3, <3>4, <3>5, <2>a, <2>b DEF Put, Conservation, LoadedIndex, Goto
    <3>7. LoadedIndex'
      <4>1. \A t \in Threads \ {p} : ~ InCritical(t)
        BY <2>5, OneInside DEF Put, Goto, IInv, Inside, InCritical
      <4> QED BY <2>5, <2>a, <4>1 DEF Put, Goto, LoadedIndex, InCritical
    <3> QED BY <3>6, <3>7
  <2>6. ASSUME NEW p \in Producers, V_mutex_in(p) PROVE Conservation' /\ LoadedIndex'
    <3>1. p \in Inside /\ Inside' = Inside \ {p}
      BY <2>6, <2>a DEF V_mutex_in, Goto, Inside, InCritical
    <3>2. UNCHANGED <<Reserving, Filled, Claiming, Emptied>>
      BY <2>6, <2>a DEF V_mutex_in, Goto, Reserving, Filled, Claiming, Emptied
    <3>3. Cardinality(Inside)' = Cardinality(Inside) - 1
      BY <3>1, RemoveOne, CountedFinite
    <3>4. Conservation'
      BY <2>6, <3>2, <3>3, <2>a, <2>b DEF V_mutex_in, Conservation
    <3>5. LoadedIndex'
      BY <2>6, <2>a DEF V_mutex_in, Goto, LoadedIndex
    <3> QED BY <3>4, <3>5
  <2>7. ASSUME NEW p \in Producers, V_items(p) PROVE Conservation' /\ LoadedIndex'
    <3>1. p \in Filled /\ Filled' = Filled \ {p}
      BY <2>7, <2>a DEF V_items, Goto, Filled
    <3>2. UNCHANGED <<Inside, Reserving, Claiming, Emptied>>
      BY <2>7, <2>a DEF V_items, Goto, Inside, Reserving, Claiming, Emptied, InCritical
    <3>3. Cardinality(Filled)' = Cardinality(Filled) - 1
      BY <3>1, RemoveOne, CountedFinite
    <3>4. Conservation'
      BY <2>7, <3>2, <3>3, <2>a, <2>b DEF V_items, Conservation
    <3>5. LoadedIndex'
      BY <2>7, <2>a DEF V_items, Goto, LoadedIndex
    <3> QED BY <3>4, <3>5
  <2>8. ASSUME NEW c \in Consumers, P_items(c) PROVE Conservation' /\ LoadedIndex'
    <3>1. c \notin Claiming /\ Claiming' = Claiming \cup {c}
      BY <2>8, <2>a DEF P_items, Goto, Claiming
    <3>2. UNCHANGED <<Inside, Reserving, Filled, Emptied>>
      BY <2>8, <2>a DEF P_items, Goto, Inside, Reserving, Filled, Emptied, InCritical
    <3>3. Cardinality(Claiming)' = Cardinality(Claiming) + 1
      BY <3>1, AddOne, CountedFinite
    <3>4. Conservation'
      BY <2>8, <3>2, <3>3, <2>a, <2>b DEF P_items, Conservation
    <3>5. LoadedIndex'
      BY <2>8, <2>a DEF P_items, Goto, LoadedIndex
    <3> QED BY <3>4, <3>5
  <2>9. ASSUME NEW c \in Consumers, P_mutex_out(c) PROVE Conservation' /\ LoadedIndex'
    <3>1. c \notin Inside /\ Inside' = Inside \cup {c}
      BY <2>9, <2>a DEF P_mutex_out, Goto, Inside, InCritical
    <3>2. UNCHANGED <<Reserving, Filled, Claiming, Emptied>>
      BY <2>9, <2>a DEF P_mutex_out, Goto, Reserving, Filled, Claiming, Emptied
    <3>3. Cardinality(Inside)' = Cardinality(Inside) + 1
      BY <3>1, AddOne, CountedFinite
    <3>4. Conservation'
      BY <2>9, <3>2, <3>3, <2>a, <2>b DEF P_mutex_out, Conservation
    <3>5. LoadedIndex'
      BY <2>9, <2>a DEF P_mutex_out, Goto, LoadedIndex
    <3> QED BY <3>4, <3>5
  <2>10. ASSUME NEW c \in Consumers, LoadFront(c) PROVE Conservation' /\ LoadedIndex'
    <3>1. UNCHANGED <<Inside, Reserving, Filled, Claiming, Emptied>>
      BY <2>10, <2>a DEF LoadFront, Goto, Inside, Reserving, Filled, Claiming, Emptied, InCritical
    <3>2. Conservation'
      BY <2>10, <3>1, <2>a, <2>b DEF LoadFront, Conservation
    <3>3. LoadedIndex'
      BY <2>10, <2>a DEF LoadFront, Goto, LoadedIndex
    <3> QED BY <3>2, <3>3
  <2>11. ASSUME NEW c \in Consumers, Take(c) PROVE Conservation' /\ LoadedIndex'
    <3>1. c \notin Emptied /\ Emptied' = Emptied \cup {c}
      BY <2>11, <2>a DEF Take, Goto, Emptied
    <3>2. c \in Claiming /\ Claiming' = Claiming \ {c}
      BY <2>11, <2>a DEF Take, Goto, Claiming
    <3>3. UNCHANGED <<Inside, Reserving, Filled>>
      BY <2>11, <2>a DEF Take, Goto, Inside, Reserving, Filled, InCritical
    <3>4. Cardinality(Emptied)' = Cardinality(Emptied) + 1
      BY <3>1, AddOne, CountedFinite
    <3>5. Cardinality(Claiming)' = Cardinality(Claiming) - 1
      BY <3>2, RemoveOne, CountedFinite
    <3>6. Conservation'
      BY <2>11, <3>3, <3>4, <3>5, <2>a, <2>b DEF Take, Conservation, LoadedIndex, Goto
    <3>7. LoadedIndex'
      <4>1. \A t \in Threads \ {c} : ~ InCritical(t)
        BY <2>11, OneInside DEF Take, Goto, IInv, Inside, InCritical
      <4> QED BY <2>11, <2>a, <4>1 DEF Take, Goto, LoadedIndex, InCritical
    <3> QED BY <3>6, <3>7
  <2>12. ASSUME NEW c \in Consumers, V_mutex_out(c) PROVE Conservation' /\ LoadedIndex'
    <3>1. c \in Inside /\ Inside' = Inside \ {c}
      BY <2>12, <2>a DEF V_mutex_out, Goto, Inside, InCritical
    <3>2. UNCHANGED <<Reserving, Filled, Claiming, Emptied>>
      BY <2>12, <2>a DEF V_mutex_out, Goto, Reserving, Filled, Claiming, Emptied
    <3>3. Cardinality(Inside)' = Cardinality(Inside) - 1
      BY <3>1, RemoveOne, CountedFinite
    <3>4. Conservation'
      BY <2>12, <3>2, <3>3, <2>a, <2>b DEF V_mutex_out, Conservation
    <3>5. LoadedIndex'
      BY <2>12, <2>a DEF V_mutex_out, Goto, LoadedIndex
    <3> QED BY <3>4, <3>5
  <2>13. ASSUME NEW c \in Consumers, V_slots(c) PROVE Conservation' /\ LoadedIndex'
    <3>1. c \in Emptied /\ Emptied' = Emptied \ {c}
      BY <2>13, <2>a DEF V_slots, Goto, Emptied
    <3>2. UNCHANGED <<Inside, Reserving, Filled, Claiming>>
      BY <2>13, <2>a DEF V_slots, Goto, Inside, Reserving, Filled, Claiming, InCritical
    <3>3. Cardinality(Emptied)' = Cardinality(Emptied) - 1
      BY <3>1, RemoveOne, CountedFinite
    <3>4. Conservation'
      BY <2>13, <3>2, <3>3, <2>a, <2>b DEF V_slots, Conservation
    <3>5. LoadedIndex'
      BY <2>13, <2>a DEF V_slots, Goto, LoadedIndex
    <3> QED BY <3>4, <3>5
  <2>14. ASSUME NEW c \in Consumers, Finish(c) PROVE Conservation' /\ LoadedIndex'
    <3>1. UNCHANGED <<Inside, Reserving, Filled, Claiming, Emptied>>
      BY <2>14, <2>a DEF Finish, Goto, Inside, InCritical, Reserving, Filled, Claiming, Emptied
    <3> QED BY <2>14, <2>a, <3>1 DEF Finish, Goto, Conservation, LoadedIndex
  <2>15. CASE UNCHANGED vars
    <3>1. UNCHANGED <<Inside, Reserving, Filled, Claiming, Emptied>>
      BY <2>15 DEF vars, Inside, InCritical, Reserving, Filled, Claiming, Emptied
    <3> QED BY <2>15, <2>a, <3>1 DEF vars, Conservation, LoadedIndex
  <2> QED BY <2>1, <2>2, <2>3, <2>4, <2>5, <2>6, <2>7, <2>8, <2>9, <2>10,
             <2>11, <2>12, <2>13, <2>14, <2>15 DEF Next, insert, remove
<1> QED BY <1>1, <1>2

\* The semaphores count exactly the free slots, the filled slots and the
\* threads between two semaphore calls.
THEOREM SemaphoresConserve == Spec => []Conservation
<1>1. Spec => []IInv
  BY InvInductive, PTL DEF Spec
<1> QED BY <1>1, PTL DEF IInv

\* No two threads are ever between P and V of sp->mutex.
THEOREM Exclusion == Spec => []MutualExclusion
<1>1. Spec => []IInv
  BY InvInductive, PTL DEF Spec
<1>2. IInv => MutualExclusion
  BY OneInside DEF IInv, MutualExclusion, Inside
<1> QED BY <1>1, <1>2, PTL

\* The buffer never underruns and never holds more than N descriptors, so an
\* insertion never lands on a slot whose descriptor still waits.
THEOREM Bounded == Spec => []NoOverwrite
<1>1. Spec => []IInv
  BY InvInductive, PTL DEF Spec
<1>2. IInv => NoOverwrite
  BY CountedFinite, SizeAssumption DEF IInv, TypeOK, Conservation, NoOverwrite
<1> QED BY <1>1, <1>2, PTL

-----------------------------------------------------------------------------
(* The buffer as a queue *)

\* Indices that are less than n apart use different slots.
LEMMA SlotsDiffer == ASSUME NEW n \in Nat \ {0}, NEW a \in Nat, NEW b \in Nat, a < b, b - a < n
                     PROVE  a % n # b % n
<1> SUFFICES ASSUME a % n = b % n PROVE FALSE
  OBVIOUS
<1> DEFINE p == a \div n
           q == b \div n
           r == a % n
<1>1. p \in Int /\ q \in Int /\ r \in Int /\ a = n * p + r /\ b = n * q + r
  OBVIOUS
<1> HIDE DEF p, q, r
<1>2. CASE q =< p
  <2>1. n * q =< n * p
    BY <1>1, <1>2
  <2> QED BY <1>1, <2>1
<1>3. CASE q >= p + 1
  <2>1. n * q >= n * (p + 1)
    BY <1>1, <1>3
  <2>2. n * (p + 1) = n * p + n
    BY <1>1
  <2> QED BY <1>1, <2>1, <2>2
<1> QED BY <1>1, <1>2, <1>3

Count  == rear - front
Places == 1 .. Count

QueueTyped == /\ Count \in Nat /\ front \in Nat /\ rear \in Nat
              /\ Waiting \in Seq(Fds \cup {None}) /\ Len(Waiting) = Count
              /\ DOMAIN Waiting = Places
              /\ \A i \in Places : Waiting[i] = buf[(front + i) % N]

\* The connections that wait are typed, which OneOwner needs.
LEMMA WaitingTyped == IInv => QueueTyped
<1> SUFFICES ASSUME IInv PROVE QueueTyped
  OBVIOUS
<1>1. front \in Nat /\ rear \in Nat /\ Count \in Nat
  BY CountedFinite DEF IInv, TypeOK, Conservation, Count
<1>2. \A i \in Places : buf[(front + i) % N] \in Fds \cup {None}
  <2> SUFFICES ASSUME NEW i \in Places PROVE buf[(front + i) % N] \in Fds \cup {None}
    OBVIOUS
  <2>1. (front + i) % N \in 0 .. N - 1
    BY <1>1, SizeAssumption DEF Places
  <2> QED BY <2>1 DEF IInv, TypeOK
<1>3. Waiting = [i \in 1 .. Count |-> buf[(front + i) % N]]
  BY DEF Waiting, Count
<1>4. Waiting \in Seq(Fds \cup {None})
  BY <1>1, <1>2, <1>3, IsASeq DEF Places
<1> QED BY <1>1, <1>3, <1>4, LenProperties DEF Places, QueueTyped

\* The same of this state and of the next.
LEMMA WaitingType == ASSUME IInv
                     PROVE  /\ Count \in Nat /\ front \in Nat /\ rear \in Nat
                            /\ Waiting \in Seq(Fds \cup {None}) /\ Len(Waiting) = Count
                            /\ DOMAIN Waiting = Places
                            /\ \A i \in Places : Waiting[i] = buf[(front + i) % N]
  BY WaitingTyped DEF QueueTyped

\* The buffer as the abstract queue sees it, after a step.
LEMMA WaitingTypeNext == ASSUME IInv'
                         PROVE  Waiting' \in Seq(Fds \cup {None}) /\ Len(Waiting') = Count'
<1>1. IInv' => QueueTyped'
  BY WaitingTyped, PTL
<1> QED BY <1>1 DEF QueueTyped

\* A step that leaves the buffer alone leaves the queue alone.
LEMMA WaitingKept == ASSUME UNCHANGED <<buf, front, rear>>
                     PROVE  Waiting' = Waiting /\ Count' = Count /\ Places' = Places
  BY DEF Waiting, Count, Places

\* An insertion finds room and appends.
LEMMA PutAppends ==
  ASSUME IInv, IInv', NEW p \in Producers, Put(p)
  PROVE  /\ Count < N /\ Count' = Count + 1
         /\ \A i \in Places : Waiting'[i] = Waiting[i]
         /\ Waiting'[Count + 1] = item[p]
<1>1. Count < N
  <2>1. p \in Reserving
    BY DEF Put, Goto, Reserving
  <2>2. Cardinality(Reserving) # 0
    BY <2>1, CountedFinite, FS_EmptySet
  <2>3. Cardinality(Reserving) \in Nat /\ Cardinality(Emptied) \in Nat
    BY CountedFinite
  <2>4. slots \in Nat /\ N \in Nat /\ slots + Count + Cardinality(Reserving) + Cardinality(Emptied) = N
    BY SizeAssumption DEF IInv, TypeOK, Conservation, Count
  <2> QED BY <2>2, <2>3, <2>4, WaitingType
<1>2. front' = front /\ rear' = rear + 1 /\ buf' = [buf EXCEPT ![(rear + 1) % N] = item[p]]
  BY DEF Put, Goto, IInv, LoadedIndex
<1>3. Count' = Count + 1
  BY <1>2, WaitingType DEF Count
<1>4. (rear + 1) % N \in 0 .. N - 1
  BY WaitingType, SizeAssumption
<1>5. DOMAIN buf = 0 .. N - 1
  BY DEF IInv, TypeOK
<1>6. \A i \in Places' : Waiting'[i] = buf'[(front + i) % N]
  BY <1>2 DEF Waiting, Places, Count
<1>7. ASSUME NEW i \in Places PROVE Waiting'[i] = Waiting[i]
  <2>0. i \in 1 .. Count /\ front \in Nat /\ rear \in Nat /\ Count = rear - front
    BY WaitingType DEF Places, Count
  <2>1. /\ i \in Places' /\ front + i \in Nat /\ rear + 1 \in Nat
        /\ front + i < rear + 1 /\ (rear + 1) - (front + i) < N
    <3>1. Places' = 1 .. Count + 1
      BY <1>3 DEF Places
    <3> QED BY <1>1, <2>0, <3>1, SizeAssumption
  <2>2. (front + i) % N # (rear + 1) % N
    BY <2>1, SlotsDiffer, SizeAssumption
  <2>3. (front + i) % N \in 0 .. N - 1
    BY <2>1, SizeAssumption
  <2>4. buf'[(front + i) % N] = buf[(front + i) % N]
    BY <1>2, <1>5, <2>2, <2>3
  <2> QED BY <1>6, <2>1, <2>4, WaitingType
<1>8. Waiting'[Count + 1] = item[p]
  <2>1. Count + 1 \in Places' /\ front + (Count + 1) = rear + 1
    BY <1>3, WaitingType DEF Places, Count
  <2> QED BY <1>2, <1>4, <1>5, <1>6, <2>1
<1> QED BY <1>1, <1>3, <1>7, <1>8

\* A removal finds a descriptor and takes the oldest.
LEMMA TakeRemoves ==
  ASSUME IInv, NEW c \in Consumers, Take(c)
  PROVE  /\ Count > 0 /\ Count' = Count - 1
         /\ item' = [item EXCEPT ![c] = Waiting[1]]
         /\ \A i \in Places' : i + 1 \in Places /\ Waiting'[i] = Waiting[i + 1]
<1>1. Count > 0
  <2>1. c \in Claiming
    BY DEF Take, Goto, Claiming
  <2>2. Cardinality(Claiming) # 0
    BY <2>1, CountedFinite, FS_EmptySet
  <2> QED BY <2>2, CountedFinite DEF IInv, TypeOK, Conservation, Count
<1>2. front' = front + 1 /\ rear' = rear /\ buf' = buf
      /\ item' = [item EXCEPT ![c] = buf[(front + 1) % N]]
  BY DEF Take, Goto, IInv, LoadedIndex
<1>3. Count' = Count - 1
  BY <1>2, WaitingType DEF Count
<1>4. Waiting[1] = buf[(front + 1) % N]
  BY <1>1, WaitingType DEF Places
<1>5. ASSUME NEW i \in Places' PROVE i + 1 \in Places /\ Waiting'[i] = Waiting[i + 1]
  <2>1. i + 1 \in Places /\ (front + 1) + i = front + (i + 1)
    BY <1>3, WaitingType DEF Places
  <2>2. Waiting'[i] = buf[((front + 1) + i) % N]
    BY <1>2 DEF Waiting, Places, Count
  <2> QED BY <2>1, <2>2, WaitingType
<1> QED BY <1>1, <1>2, <1>3, <1>4, <1>5

-----------------------------------------------------------------------------
(* Who has a connection *)

\* Where a thread is when it has a descriptor in its local variable.
Holding == {"P_slots", "P_mutex_in", "load_rear", "put", "V_mutex_out", "V_slots", "serve"}

HoldersRight == \A t \in Threads : IF pc[t] \in Holding THEN item[t] \in open ELSE item[t] = None
WaitingOpen  == \A i \in Places : Waiting[i] \in open
OneThread    == \A s, t \in Threads : item[s] = item[t] /\ item[s] # None => s = t
OnePlace     == \A i, j \in Places : Waiting[i] = Waiting[j] => i = j
NotBoth      == \A t \in Threads, i \in Places : item[t] # Waiting[i]
Accounted    == \A fd \in open : \/ \E t \in Threads : item[t] = fd
                                 \/ \E i \in Places : Waiting[i] = fd

\* The inductive form of OneOwner, without cardinalities.
Ownership == /\ HoldersRight /\ WaitingOpen /\ OneThread /\ OnePlace /\ NotBoth
             /\ Accounted

\* The steps that move no descriptor.
LEMMA OwnershipKept ==
  ASSUME IInv, Ownership, UNCHANGED <<buf, front, rear, item, open>>,
         \A t \in Threads : pc'[t] \in Holding <=> pc[t] \in Holding
  PROVE  Ownership'
<1> USE WaitingKept
<1>1. HoldersRight'
  BY DEF Ownership, HoldersRight
<1>2. WaitingOpen' /\ OnePlace'
  BY DEF Ownership, WaitingOpen, OnePlace
<1>3. OneThread' /\ NotBoth' /\ Accounted'
  BY DEF Ownership, OneThread, NotBoth, Accounted
<1> QED BY <1>1, <1>2, <1>3 DEF Ownership

\* Owners, when main accepts a connection: nobody had it.
LEMMA AcceptOwnership == ASSUME IInv, Ownership, NEW p \in Producers, Accept(p) PROVE Ownership'
<1> USE DEF Threads
<1>1. PICK fd \in Fds \ open : item' = [item EXCEPT ![p] = fd] /\ open' = open \cup {fd}
  BY DEF Accept
<1>2. /\ Waiting' = Waiting /\ Places' = Places
      /\ pc[p] = "accept" /\ pc' = [pc EXCEPT ![p] = "P_slots"] /\ fd # None
      /\ item \in [Threads -> Fds \cup {None}] /\ pc \in [Threads -> ProducerPCs \cup ConsumerPCs]
      /\ open \subseteq Fds
  BY WaitingKept, FdsAssumption DEF Accept, Goto, IInv, TypeOK
<1>3. item[p] = None /\ item'[p] = fd /\ \A t \in Threads : t # p => item'[t] = item[t] /\ pc'[t] = pc[t]
  BY <1>1, <1>2 DEF Ownership, HoldersRight, Holding
<1>4. \A t \in Threads : item[t] \in open \cup {None}
  BY DEF Ownership, HoldersRight
<1>5. HoldersRight'
  BY <1>1, <1>2, <1>3 DEF Ownership, HoldersRight, Holding
<1>6. WaitingOpen' /\ OnePlace'
  BY <1>1, <1>2 DEF Ownership, WaitingOpen, OnePlace
<1>7. OneThread'
  BY <1>1, <1>2, <1>3, <1>4 DEF Ownership, OneThread
<1>8. NotBoth'
  BY <1>1, <1>2, <1>3 DEF Ownership, NotBoth, WaitingOpen
<1>9. Accounted'
  <2> SUFFICES ASSUME NEW d \in open'
               PROVE  \/ \E t \in Threads : item'[t] = d
                      \/ \E i \in Places : Waiting[i] = d
    BY <1>2 DEF Accounted
  <2>1. CASE d = fd
    BY <1>3, <2>1
  <2>2. CASE d # fd
    <3>1. d \in open /\ d # None
      BY <1>1, <1>2, <2>2, FdsAssumption
    <3> QED BY <1>3, <3>1 DEF Ownership, Accounted
  <2> QED BY <2>1, <2>2
<1> QED BY <1>5, <1>6, <1>7, <1>8, <1>9 DEF Ownership

\* Owners, when the connection goes from main into its slot.
LEMMA PutOwnership ==
  ASSUME IInv, IInv', Ownership, NEW p \in Producers, Put(p) PROVE Ownership'
<1> USE DEF Threads
<1>1. /\ Count \in Nat /\ Places' = Places \cup {Count + 1} /\ Count + 1 \notin Places
      /\ \A i \in Places : Waiting'[i] = Waiting[i]
      /\ Waiting'[Count + 1] = item[p]
  BY PutAppends, WaitingType DEF Places
<1>2. /\ pc[p] = "put" /\ pc' = [pc EXCEPT ![p] = "V_mutex_in"] /\ open' = open
      /\ item' = [item EXCEPT ![p] = None]
      /\ item \in [Threads -> Fds \cup {None}] /\ pc \in [Threads -> ProducerPCs \cup ConsumerPCs]
      /\ open \subseteq Fds
  BY DEF Put, Goto, IInv, TypeOK
<1>3. /\ item[p] \in open /\ item[p] # None /\ item'[p] = None
      /\ \A t \in Threads : t # p => item'[t] = item[t] /\ pc'[t] = pc[t]
  BY <1>2, FdsAssumption DEF Ownership, HoldersRight, Holding
<1>5. HoldersRight'
  BY <1>2, <1>3 DEF Ownership, HoldersRight, Holding
<1>6. WaitingOpen'
  BY <1>1, <1>2, <1>3 DEF Ownership, WaitingOpen
<1>7. OnePlace'
  BY <1>1, <1>3 DEF Ownership, OnePlace, NotBoth
<1>8. OneThread'
  BY <1>2, <1>3 DEF Ownership, OneThread
<1>9. NotBoth'
  <2>1. \A i \in Places' : Waiting'[i] # None
    BY <1>2, <1>6, FdsAssumption DEF WaitingOpen
  <2> SUFFICES ASSUME NEW t \in Threads, NEW i \in Places', t # p PROVE item[t] # Waiting'[i]
    BY <1>3, <2>1 DEF NotBoth
  <2>2. CASE i \in Places
    BY <1>1, <2>2 DEF Ownership, NotBoth
  <2>3. CASE i = Count + 1
    BY <1>1, <1>3, <2>3 DEF Ownership, OneThread
  <2> QED BY <1>1, <2>2, <2>3
<1>10. Accounted'
  <2> SUFFICES ASSUME NEW d \in open
               PROVE  \/ \E t \in Threads : item'[t] = d
                      \/ \E i \in Places' : Waiting'[i] = d
    BY <1>2 DEF Accounted
  <2>1. CASE d = item[p]
    BY <1>1, <2>1
  <2>2. CASE d # item[p]
    BY <1>1, <1>3, <2>2 DEF Ownership, Accounted
  <2> QED BY <2>1, <2>2
<1> QED BY <1>5, <1>6, <1>7, <1>8, <1>9, <1>10 DEF Ownership

\* Owners, when it goes from the slot to a worker.
LEMMA TakeOwnership == ASSUME IInv, Ownership, NEW c \in Consumers, Take(c) PROVE Ownership'
<1> USE DEF Threads
<1>1. /\ Count \in Nat /\ Count > 0 /\ 1 \in Places
      /\ \A i \in Places' : i \in Nat /\ i + 1 \in Places /\ i + 1 # 1 /\ Waiting'[i] = Waiting[i + 1]
      /\ \A i \in Places : i = 1 \/ (i - 1 \in Places' /\ (i - 1) + 1 = i)
  BY TakeRemoves, WaitingType DEF Places
<1>2. /\ pc[c] = "take" /\ pc' = [pc EXCEPT ![c] = "V_mutex_out"] /\ open' = open
      /\ item' = [item EXCEPT ![c] = Waiting[1]]
      /\ item \in [Threads -> Fds \cup {None}] /\ pc \in [Threads -> ProducerPCs \cup ConsumerPCs]
      /\ open \subseteq Fds
  BY TakeRemoves DEF Take, Goto, IInv, TypeOK
<1>3. /\ item[c] = None /\ item'[c] = Waiting[1] /\ Waiting[1] \in open
      /\ \A t \in Threads : t # c => item'[t] = item[t] /\ pc'[t] = pc[t]
  BY <1>1, <1>2 DEF Ownership, HoldersRight, Holding, WaitingOpen
<1>5. HoldersRight'
  BY <1>2, <1>3 DEF Ownership, HoldersRight, Holding
<1>6. WaitingOpen'
  BY <1>1, <1>2 DEF Ownership, WaitingOpen
<1>7. OnePlace'
  <2> SUFFICES ASSUME NEW i \in Places', NEW j \in Places', Waiting[i + 1] = Waiting[j + 1]
               PROVE  i = j
    BY <1>1 DEF OnePlace
  <2>1. i + 1 = j + 1
    BY <1>1 DEF Ownership, OnePlace
  <2> QED BY <1>1, <2>1
<1>8. OneThread'
  BY <1>1, <1>2, <1>3 DEF Ownership, OneThread, NotBoth
<1>9. NotBoth'
  <2> SUFFICES ASSUME NEW t \in Threads, NEW i \in Places' PROVE item'[t] # Waiting[i + 1]
    BY <1>1 DEF NotBoth
  <2>1. CASE t = c
    BY <1>1, <1>3, <2>1 DEF Ownership, OnePlace
  <2>2. CASE t # c
    BY <1>1, <1>3, <2>2 DEF Ownership, NotBoth
  <2> QED BY <2>1, <2>2
<1>10. Accounted'
  <2> SUFFICES ASSUME NEW d \in open
               PROVE  \/ \E t \in Threads : item'[t] = d
                      \/ \E i \in Places' : Waiting'[i] = d
    BY <1>2 DEF Accounted
  <2>0. d # None
    BY <1>2, FdsAssumption
  <2>1. CASE \E t \in Threads : item[t] = d
    BY <1>3, <2>0, <2>1
  <2>2. ASSUME NEW i \in Places, Waiting[i] = d
        PROVE  \/ \E t \in Threads : item'[t] = d
               \/ \E j \in Places' : Waiting'[j] = d
    <3>1. CASE i = 1
      BY <1>3, <2>2, <3>1
    <3>2. CASE i # 1
      <4>1. i - 1 \in Places' /\ Waiting'[i - 1] = Waiting[i]
        BY <1>1, <3>2
      <4> QED BY <2>2, <4>1
    <3> QED BY <3>1, <3>2
  <2> QED BY <2>1, <2>2 DEF Ownership, Accounted
<1> QED BY <1>5, <1>6, <1>7, <1>8, <1>9, <1>10 DEF Ownership

\* Owners, when the worker closes it.
LEMMA FinishOwnership == ASSUME IInv, Ownership, NEW c \in Consumers, Finish(c) PROVE Ownership'
<1> USE DEF Threads
<1>1. /\ Waiting' = Waiting /\ Places' = Places
      /\ pc[c] = "serve" /\ pc' = [pc EXCEPT ![c] = "P_items"] /\ open' = open \ {item[c]}
      /\ item' = [item EXCEPT ![c] = None]
      /\ item \in [Threads -> Fds \cup {None}] /\ pc \in [Threads -> ProducerPCs \cup ConsumerPCs]
      /\ open \subseteq Fds
  BY WaitingKept DEF Finish, Goto, IInv, TypeOK
<1>2. /\ item[c] \in open /\ item[c] # None /\ item'[c] = None
      /\ \A t \in Threads : t # c => item'[t] = item[t] /\ pc'[t] = pc[t]
  BY <1>1, FdsAssumption DEF Ownership, HoldersRight, Holding
<1>3. \A t \in Threads : t # c => item[t] # item[c]
  BY <1>2 DEF Ownership, OneThread
<1>5. HoldersRight'
  BY <1>1, <1>2, <1>3 DEF Ownership, HoldersRight, Holding
<1>6. WaitingOpen' /\ OnePlace'
  BY <1>1 DEF Ownership, WaitingOpen, OnePlace, NotBoth
<1>8. OneThread'
  BY <1>1, <1>2 DEF Ownership, OneThread
<1>9. NotBoth'
  <2>1. \A i \in Places : Waiting[i] # None
    BY <1>1, FdsAssumption DEF Ownership, WaitingOpen
  <2> QED BY <1>1, <1>2, <2>1 DEF Ownership, NotBoth
<1>10. Accounted'
  BY <1>1, <1>2 DEF Ownership, Accounted
<1> QED BY <1>5, <1>6, <1>8, <1>9, <1>10 DEF Ownership

OInv == IInv /\ Ownership

\* The invariant of OneOwner is inductive.
LEMMA OwnershipInductive == /\ Init => OInv
                            /\ OInv /\ [Next]_vars => OInv'
<1>1. Init => OInv
  <2> SUFFICES ASSUME Init PROVE Ownership
    BY InvInductive DEF OInv
  <2>1. Places = {} /\ open = {}
    BY DEF Init, Places, Count
  <2>2. \A t \in Threads : item[t] = None /\ pc[t] \notin Holding
    BY DEF Init, Holding
  <2> QED BY <2>1, <2>2 DEF Ownership, HoldersRight, WaitingOpen, OneThread, OnePlace, NotBoth, Accounted
<1>2. OInv /\ [Next]_vars => OInv'
  <2> SUFFICES ASSUME IInv, Ownership, [Next]_vars, IInv' PROVE Ownership'
    BY InvInductive DEF OInv
  <2>0. pc \in [Threads -> ProducerPCs \cup ConsumerPCs]
    BY DEF IInv, TypeOK
  <2> USE DEF Threads
  <2>1. ASSUME NEW p \in Producers, Accept(p) \/ insert(p) PROVE Ownership'
    <3>1. CASE P_slots(p)    BY <2>0, <3>1, OwnershipKept DEF P_slots, Goto, Holding
    <3>2. CASE P_mutex_in(p) BY <2>0, <3>2, OwnershipKept DEF P_mutex_in, Goto, Holding
    <3>3. CASE LoadRear(p)   BY <2>0, <3>3, OwnershipKept DEF LoadRear, Goto, Holding
    <3>4. CASE V_mutex_in(p) BY <2>0, <3>4, OwnershipKept DEF V_mutex_in, Goto, Holding
    <3>5. CASE V_items(p)    BY <2>0, <3>5, OwnershipKept DEF V_items, Goto, Holding
    <3> QED BY <2>1, <3>1, <3>2, <3>3, <3>4, <3>5, AcceptOwnership, PutOwnership DEF insert
  <2>2. ASSUME NEW c \in Consumers, remove(c) \/ Finish(c) PROVE Ownership'
    <3>1. CASE P_items(c)     BY <2>0, <3>1, OwnershipKept DEF P_items, Goto, Holding
    <3>2. CASE P_mutex_out(c) BY <2>0, <3>2, OwnershipKept DEF P_mutex_out, Goto, Holding
    <3>3. CASE LoadFront(c)   BY <2>0, <3>3, OwnershipKept DEF LoadFront, Goto, Holding
    <3>4. CASE V_mutex_out(c) BY <2>0, <3>4, OwnershipKept DEF V_mutex_out, Goto, Holding
    <3>5. CASE V_slots(c)     BY <2>0, <3>5, OwnershipKept DEF V_slots, Goto, Holding
    <3> QED BY <2>2, <3>1, <3>2, <3>3, <3>4, <3>5, TakeOwnership, FinishOwnership DEF remove
  <2>3. CASE UNCHANGED vars
    BY <2>3, OwnershipKept DEF vars
  <2> QED BY <2>1, <2>2, <2>3 DEF Next
<1> QED BY <1>1, <1>2

\* A set is empty or has one element.
LEMMA AtMostOne == ASSUME NEW S, \A x, y \in S : x = y
                   PROVE  Cardinality(S) = IF S = {} THEN 0 ELSE 1
<1>1. CASE S = {}
  BY <1>1, FS_EmptySet
<1>2. CASE S # {}
  <2>1. PICK x \in S : S = {x}
    BY <1>2
  <2> QED BY <1>2, <2>1, FS_Singleton
<1> QED BY <1>1, <1>2

\* Every open connection is in one thread's hands or in one slot, and no
\* other connection is anywhere: none is leaked, none is served twice.
THEOREM EachHasOneOwner == Spec => []OneOwner
<1>1. OInv => OneOwner
  <2> SUFFICES ASSUME IInv, Ownership, NEW fd \in Fds
               PROVE  Cardinality({t \in Threads : item[t] = fd})
                        + Cardinality({i \in Places : Waiting[i] = fd})
                      = IF fd \in open THEN 1 ELSE 0
    BY DEF OInv, OneOwner, Places, Count
  <2> DEFINE T == {t \in Threads : item[t] = fd}
             P == {i \in Places : Waiting[i] = fd}
  <2>1. fd # None
    BY FdsAssumption
  <2>2. Cardinality(T) = IF T = {} THEN 0 ELSE 1
    <3>1. \A s, t \in T : s = t
      BY <2>1 DEF Ownership, OneThread
    <3> QED BY <3>1, AtMostOne
  <2>3. Cardinality(P) = IF P = {} THEN 0 ELSE 1
    <3>1. \A i, j \in P : i = j
      BY DEF Ownership, OnePlace
    <3> QED BY <3>1, AtMostOne
  <2>4. T = {} \/ P = {}
    BY DEF Ownership, NotBoth
  <2>5. fd \in open <=> T # {} \/ P # {}
    <3>1. T # {} => fd \in open
      BY <2>1 DEF Ownership, HoldersRight
    <3>2. P # {} => fd \in open
      BY DEF Ownership, WaitingOpen
    <3>3. fd \in open => T # {} \/ P # {}
      BY DEF Ownership, Accounted
    <3> QED BY <3>1, <3>2, <3>3
  <2> HIDE DEF T, P
  <2>6. Cardinality(T) + Cardinality(P) = IF fd \in open THEN 1 ELSE 0
    BY <2>2, <2>3, <2>4, <2>5
  <2> QED BY <2>6 DEF T, P
<1> QED BY <1>1, OwnershipInductive, PTL DEF Spec

-----------------------------------------------------------------------------
(* The refinement *)

\* The empty buffer is an empty queue.
LEMMA InitQueue == Init => Queue!Init
<1> SUFFICES ASSUME Init PROVE Waiting = <<>> /\ [c \in Consumers |-> item[c]] = [c \in Consumers |-> None]
  BY DEF Queue!Init
<1>1. IInv
  BY InvInductive
<1>2. Len(Waiting) = 0 /\ Waiting \in Seq(Fds \cup {None})
  BY <1>1, WaitingType DEF Init, Count
<1>3. Waiting = <<>>
  BY <1>2, EmptySeq
<1>4. \A c \in Consumers : item[c] = None
  BY DEF Init, Threads
<1> QED BY <1>3, <1>4

\* The values of the abstract queue and of its takers are those of the buffer
\* and of the workers.
LEMMA QueueOwned ==
  ASSUME IInv
  PROVE  Queue!Owned = {Waiting[i] : i \in Places} \cup {item[c] : c \in Consumers}
  BY WaitingType DEF Queue!Owned

\* Every step of the buffer is a step of the queue, or none.
LEMMA StepQueue == OInv /\ OInv' /\ [Next]_vars => [Queue!Next]_<<Waiting, [c \in Consumers |-> item[c]]>>
<1> SUFFICES ASSUME IInv, IInv', Ownership, [Next]_vars
             PROVE  [Queue!Next]_<<Waiting, [c \in Consumers |-> item[c]]>>
  BY DEF OInv
<1> DEFINE held == [c \in Consumers |-> item[c]]
<1>0. /\ item \in [Threads -> Fds \cup {None}] /\ Producers \cap Consumers = {}
      /\ pc \in [Threads -> ProducerPCs \cup ConsumerPCs]
  BY ThreadsAssumption DEF IInv, TypeOK
<1> USE DEF Threads
<1>1. ASSUME NEW p \in Producers, Put(p) PROVE Queue!Put(item[p])
  <2>1. item[p] \in Fds /\ item[p] # None
    <3>1. pc[p] = "put"
      BY <1>1 DEF Put, Goto
    <3> QED BY <3>1, FdsAssumption DEF Ownership, HoldersRight, Holding, IInv, TypeOK
  <2>2. Len(Waiting) < N
    BY <1>1, PutAppends, WaitingType
  <2>3. item[p] \notin Queue!Owned
    <3>1. \A c \in Consumers : item[c] # item[p]
      BY <1>0, <2>1 DEF Ownership, OneThread
    <3>2. \A i \in Places : Waiting[i] # item[p]
      BY DEF Ownership, NotBoth
    <3> QED BY <3>1, <3>2, QueueOwned
  <2>4. Waiting' = Append(Waiting, item[p])
    <3> DEFINE S == Fds \cup {None}
               w == Append(Waiting, item[p])
    <3>1. /\ Waiting \in Seq(S) /\ item[p] \in S /\ Count \in Nat /\ Places = 1 .. Count
          /\ Len(Waiting) = Count
      BY <2>1, WaitingType DEF Places
    <3>2. Waiting' \in Seq(S) /\ Len(Waiting') = Count + 1
      BY <1>1, PutAppends, WaitingTypeNext
    <3>3. /\ w \in Seq(S) /\ Len(w) = Count + 1 /\ w[Count + 1] = item[p]
          /\ \A i \in 1 .. Count : w[i] = Waiting[i]
      BY <3>1, AppendProperties
    <3>4. \A i \in 1 .. Count + 1 : Waiting'[i] = w[i]
      BY <1>1, <3>1, <3>3, PutAppends
    <3> HIDE DEF w
    <3>5. Waiting' = w
      BY <3>2, <3>3, <3>4, SeqEqual
    <3> QED BY <3>5 DEF w
  <2>5. held' = held
    BY <1>0, <1>1 DEF Put
  <2> QED BY <2>2, <2>3, <2>4, <2>5 DEF Queue!Put
<1>2. ASSUME NEW c \in Consumers, Take(c) PROVE Queue!Take(c)
  <2>1. item[c] = None
    <3>1. pc[c] = "take"
      BY <1>2 DEF Take, Goto
    <3> QED BY <3>1 DEF Ownership, HoldersRight, Holding
  <2>2. Waiting # <<>> /\ Waiting \in Seq(Fds \cup {None})
    BY <1>2, TakeRemoves, WaitingType, EmptySeq
  <2>3. item' = [item EXCEPT ![c] = Head(Waiting)]
    BY <1>2, <2>2, TakeRemoves
  <2>4. held' = [held EXCEPT ![c] = Head(Waiting)]
    BY <1>0, <2>3
  <2>5. Waiting' = Tail(Waiting)
    <3> DEFINE S == Fds \cup {None}
               w == Tail(Waiting)
    <3>1. /\ Count \in Nat /\ Count > 0 /\ Len(Waiting) = Count /\ Count' = Count - 1
      BY <1>2, TakeRemoves, WaitingType
    <3>2. /\ Waiting' \in Seq(S) /\ Len(Waiting') = Count - 1 /\ Places' = 1 .. Count - 1
      BY <3>1, WaitingTypeNext DEF Places
    <3>3. /\ w \in Seq(S) /\ Len(w) = Count - 1 /\ \A i \in 1 .. Count - 1 : w[i] = Waiting[i + 1]
      BY <2>2, <3>1, HeadTailProperties
    <3>4. \A i \in 1 .. Count - 1 : Waiting'[i] = w[i]
      BY <1>2, <3>2, <3>3, TakeRemoves
    <3> HIDE DEF w
    <3>5. Waiting' = w
      BY <3>1, <3>2, <3>3, <3>4, SeqEqual
    <3> QED BY <3>5 DEF w
  <2> QED BY <2>1, <2>2, <2>4, <2>5 DEF Queue!Take
<1>3. ASSUME NEW c \in Consumers, Finish(c) PROVE Queue!Drop(c)
  <2>1. pc[c] = "serve"
    BY <1>3 DEF Finish, Goto
  <2>2. item[c] \in open /\ None \notin open
    BY <2>1, FdsAssumption DEF Ownership, HoldersRight, Holding, IInv, TypeOK
  <2>3. held' = [held EXCEPT ![c] = None]
    BY <1>0, <1>3 DEF Finish
  <2>4. Waiting' = Waiting
    BY <1>3, WaitingKept DEF Finish
  <2> QED BY <2>2, <2>3, <2>4 DEF Queue!Drop
<1>4. ASSUME NEW p \in Producers, Accept(p) PROVE UNCHANGED <<Waiting, held>>
  <2>1. Waiting' = Waiting
    BY <1>4, WaitingKept DEF Accept
  <2>2. \A c \in Consumers : item'[c] = item[c]
    BY <1>0, <1>4 DEF Accept
  <2> QED BY <2>1, <2>2
<1>5. ASSUME UNCHANGED <<buf, front, rear, item>> PROVE UNCHANGED <<Waiting, held>>
  BY <1>5, WaitingKept
<1>6. \A p \in Producers : insert(p) => Put(p) \/ UNCHANGED <<buf, front, rear, item>>
  BY DEF insert, P_slots, P_mutex_in, LoadRear, V_mutex_in, V_items
<1>7. \A c \in Consumers : remove(c) => Take(c) \/ UNCHANGED <<buf, front, rear, item>>
  BY DEF remove, P_items, P_mutex_out, LoadFront, V_mutex_out, V_slots
<1>8. \A p \in Producers : Put(p) => item[p] \in Fds
  BY FdsAssumption DEF Put, Goto, Ownership, HoldersRight, Holding, IInv, TypeOK
<1>9. CASE UNCHANGED vars
  BY <1>5, <1>9 DEF vars
<1>10. CASE \E p \in Producers : Accept(p) \/ insert(p)
  BY <1>1, <1>4, <1>5, <1>6, <1>8, <1>10 DEF Queue!Next
<1>11. CASE \E c \in Consumers : remove(c) \/ Finish(c)
  BY <1>2, <1>3, <1>5, <1>7, <1>11 DEF Queue!Next
<1> QED BY <1>9, <1>10, <1>11 DEF Next

\* sbuf.c implements the queue: in the order accept returned them to sbuf_insert,
\* each connection goes to one worker, which has no other.
THEOREM RefinesQueue == Spec => ImplementsQueue
<1>1. [Queue!Next]_<<Waiting, [c \in Consumers |-> item[c]]>> => [Queue!Next]_(Queue!vars)
  BY DEF Queue!vars
<1> QED BY <1>1, InitQueue, StepQueue, OwnershipInductive, PTL DEF Spec, ImplementsQueue, Queue!Spec
=============================================================================
