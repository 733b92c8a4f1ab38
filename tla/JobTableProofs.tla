--------------------------- MODULE JobTableProofs ---------------------------
(***************************************************************************)
(* Theorems about the job list of shell/lab/job.c, for every length of the *)
(* list, every set of process ids and every bound on nextjid.              *)
(***************************************************************************)
EXTENDS JobTable, WellFoundedInduction, TLAPS

\* The inductive invariant.  That a new ID is above the others depends on free
\* slots having no ID, which is the first half of OneSlotPerProcess.
IInv == TypeOK /\ OneSlotPerProcess /\ FreshUnlessWrapped

-----------------------------------------------------------------------------
\* Every non-empty set of numbers has a least element.
LEMMA Least == ASSUME NEW S, S \subseteq Nat, S # {}
               PROVE  \E i \in S : \A j \in S : i =< j
<1>1. PICK i \in S : \A j \in S : ~ (<<j, i>> \in OpToRel(<, Nat))
  BY NatLessThanWellFounded, WFMin, Zenon
<1>2. \A j \in S : <<j, i>> \in OpToRel(<, Nat) <=> j < i
  BY DEF OpToRel
<1>3. \A j \in S : ~ (j < i)
  BY <1>1, <1>2, Zenon
<1>4. \A j \in S : i =< j
  BY <1>3
<1> QED BY <1>4

\* What the loops of job.c find: nothing, or a slot that qualifies.
LEMMA FirstSlotFound ==
  ASSUME NEW S, S \subseteq Slots
  PROVE  /\ S = {} => FirstSlot(S) = 0
         /\ S # {} => FirstSlot(S) \in S /\ FirstSlot(S) # 0
<1>1. CASE S = {}
  BY <1>1 DEF FirstSlot
<1>2. CASE S # {}
  <2>1. S \subseteq Nat
    BY MaxJobsAssumption DEF Slots
  <2>2. \E i \in S : \A j \in S : i =< j
    BY <2>1, <1>2, Least
  <2>3. FirstSlot(S) = CHOOSE i \in S : \A j \in S : i =< j
    BY <1>2 DEF FirstSlot
  <2>4. FirstSlot(S) \in S
    BY <2>2, <2>3, Zenon
  <2>5. 0 \notin S
    BY MaxJobsAssumption DEF Slots
  <2> QED BY <1>2, <2>4, <2>5, Zenon
<1> QED BY <1>1, <1>2

\* getjobpid returns a slot of the process, or NULL when it has none.
LEMMA JobFound ==
  ASSUME NEW pid \in Pids
  PROVE  \/ getjobpid(pid) = 0 /\ \A i \in Slots : jobs[i].pid # pid
         \/ getjobpid(pid) \in Slots /\ jobs[getjobpid(pid)].pid = pid
<1> DEFINE S == {i \in Slots : jobs[i].pid = pid}
<1>1. getjobpid(pid) = FirstSlot(S)
  BY PidsAssumption DEF getjobpid
<1>2. S \subseteq Slots
  OBVIOUS
<1>3. CASE S = {}
  BY <1>1, <1>2, <1>3, FirstSlotFound
<1>4. CASE S # {}
  BY <1>1, <1>2, <1>4, FirstSlotFound
<1> QED BY <1>3, <1>4

\* The job IDs of the first k slots have a maximum.
LEMMA MaxOfSlots ==
  ASSUME NEW js \in [Slots -> Job]
  PROVE  \E m \in {0} \cup {js[i].jid : i \in Slots} : \A i \in Slots : js[i].jid =< m
<1> DEFINE Ids == {0} \cup {js[i].jid : i \in Slots}
           IsMax(m, k) == \A i \in 1 .. k : js[i].jid =< m
           Bad == {k \in 0 .. MAXJOBS : \A m \in Ids : ~ IsMax(m, k)}
<1>1. Bad = {}
  <2>1. SUFFICES ASSUME Bad # {} PROVE FALSE
    OBVIOUS
  <2>2. PICK k \in Bad : \A n \in Bad : k =< n
    <3>1. Bad \subseteq Nat
      BY MaxJobsAssumption
    <3> HIDE DEF Bad
    <3> QED BY <2>1, <3>1, Least
  <2>3. k # 0
    <3>1. IsMax(0, 0)
      OBVIOUS
    <3> QED BY <3>1, <2>2
  <2>4. k - 1 \in 0 .. MAXJOBS /\ k - 1 \notin Bad
    BY <2>2, <2>3, MaxJobsAssumption
  <2>5. PICK m \in Ids : IsMax(m, k - 1)
    BY <2>4
  <2>6. k \in Slots /\ js[k].jid \in Nat /\ js[k].jid \in Ids
    BY <2>2, <2>3, MaxJobsAssumption DEF Slots, Job
  <2>7. m \in Nat
    BY DEF Job
  <2>8. ~ IsMax(m, k) /\ ~ IsMax(js[k].jid, k)
    BY <2>2, <2>5, <2>6
  <2>9. \A i \in 1 .. k : i \in 1 .. (k - 1) \/ i = k
    BY <2>2, MaxJobsAssumption
  <2>4a. \A i \in 1 .. k : js[i].jid \in Nat
    BY <2>2, MaxJobsAssumption DEF Slots, Job
  <2>11. CASE js[k].jid =< m
    BY <2>5, <2>8, <2>9, <2>11
  <2>12. CASE m =< js[k].jid
    <3>1. ASSUME NEW i \in 1 .. (k - 1) PROVE js[i].jid =< js[k].jid
      <4>1. js[i].jid =< m
        BY <2>5, <3>1
      <4>2. i \in 1 .. k
        BY <2>2, MaxJobsAssumption
      <4> QED BY <4>1, <4>2, <2>6, <2>7, <2>4a, <2>12
    <3> QED BY <3>1, <2>6, <2>8, <2>9
  <2> QED BY <2>6, <2>7, <2>11, <2>12
<1>2. MAXJOBS \notin Bad
  BY <1>1
<1>3. MAXJOBS \in 0 .. MAXJOBS
  BY MaxJobsAssumption
<1>4. PICK m \in Ids : IsMax(m, MAXJOBS)
  BY <1>2, <1>3
<1> QED BY <1>4 DEF Slots

\* maxjid is the largest of the job IDs, 0 when there is none.
LEMMA MaxJidIsMax ==
  ASSUME NEW js \in [Slots -> Job]
  PROVE  /\ maxjid(js) \in Nat
         /\ \A i \in Slots : js[i].jid =< maxjid(js)
         /\ maxjid(js) = 0 \/ \E i \in Slots : js[i].jid = maxjid(js)
<1> DEFINE Ids == {0} \cup {js[i].jid : i \in Slots}
<1>1. Ids \subseteq Nat
  BY DEF Job
<1>2. PICK m \in Ids : \A i \in Slots : js[i].jid =< m
  BY MaxOfSlots
<1>3. \A n \in Ids : n =< m
  BY <1>1, <1>2
<1>4. maxjid(js) \in Ids /\ \A n \in Ids : n =< maxjid(js)
  BY <1>3 DEF maxjid
<1> QED BY <1>1, <1>4

-----------------------------------------------------------------------------
\* The invariant holds of the initialised list.
LEMMA InitInv == Init => IInv
<1> SUFFICES ASSUME Init PROVE IInv
  OBVIOUS
<1>1. jobs \in [Slots -> Job] /\ nextjid = 1 /\ \A i \in Slots : jobs[i] = NoJob
  BY DEF Init, initjobs, NoJob, Job, States
<1>2. maxjid(jobs) = 0
  BY <1>1, MaxJidIsMax DEF NoJob
<1> QED BY <1>1, <1>2 DEF IInv, TypeOK, OneSlotPerProcess, FreshUnlessWrapped, NoJob

\* addjob, called for a process that is not in the list.
LEMMA AddInv == ASSUME IInv, NEW pid \in Pids, Add(pid) PROVE IInv'
<1> PICK st \in {"FG", "BG"} : addjob(pid, st)
  BY DEF Add
<1> DEFINE free == {i \in Slots : jobs[i].pid = 0}
           slot == FirstSlot(free)
           j == [pid |-> pid, jid |-> nextjid, state |-> st]
<1>1. pid \in Nat /\ pid >= 1 /\ MAXJOBS \in Nat /\ MAXJOBS >= 1
  BY PidsAssumption, MaxJobsAssumption
<1>2. CASE slot = 0
  BY <1>1, <1>2 DEF addjob, jobVars, IInv, TypeOK, OneSlotPerProcess, FreshUnlessWrapped, maxjid
<1>3. CASE slot # 0
  <2>1. slot \in Slots /\ jobs[slot].pid = 0
    BY <1>3, FirstSlotFound
  <2>2. /\ jobs' = [jobs EXCEPT ![slot] = j]
        /\ nextjid' = IF nextjid + 1 > MAXJOBS THEN 1 ELSE nextjid + 1
    BY <1>1, <1>3 DEF addjob
  <2>3. \A i \in Slots : jobs[i].pid # pid
    BY JobFound DEF Add, InList, Slots
  <2>4. j \in Job
    BY DEF IInv, TypeOK, Job, States
  <2>4a. j.pid = pid /\ j.jid = nextjid /\ pid # 0 /\ nextjid \in Nat /\ nextjid # 0
    BY <1>1 DEF IInv, TypeOK
  <2> HIDE DEF slot, j
  <2>5. TypeOK'
    BY <2>1, <2>2, <2>4, <1>1 DEF IInv, TypeOK
  <2>6. \A i \in Slots : jobs'[i] = IF i = slot THEN j ELSE jobs[i]
    BY <2>1, <2>2 DEF IInv, TypeOK
  <2>7. OneSlotPerProcess'
    BY <2>4a, <2>3, <2>6 DEF IInv, OneSlotPerProcess
  <2>8. FreshUnlessWrapped'
    <3>1. jobs[slot].jid = 0
      BY <2>1 DEF IInv, OneSlotPerProcess
    <3>2. CASE nextjid + 1 > MAXJOBS
      <4>1. nextjid' = 1 /\ jobs'[slot].jid >= MAXJOBS
        BY <2>4a, <2>1, <2>2, <2>6, <3>2, <1>1
      <4> QED BY <4>1, <2>1, <1>1 DEF FreshUnlessWrapped
    <3>3. CASE ~ (nextjid + 1 > MAXJOBS) /\ nextjid > maxjid(jobs)
      <4>1. nextjid' = nextjid + 1 /\ nextjid \in Nat
        BY <2>2, <3>3 DEF IInv, TypeOK
      <4>2. /\ maxjid(jobs)  \in Nat /\ \A i \in Slots : jobs[i].jid =< maxjid(jobs)
            /\ maxjid(jobs') \in Nat
            /\ maxjid(jobs') = 0 \/ \E i \in Slots : jobs'[i].jid = maxjid(jobs')
        BY MaxJidIsMax, <2>5 DEF IInv, TypeOK
      <4>3. \A i \in Slots : jobs[i].jid \in Nat
        BY DEF IInv, TypeOK, Job
      <4>4. \A i \in Slots : jobs'[i].jid =< nextjid
        BY <2>4a, <2>6, <3>3, <4>1, <4>2, <4>3
      <4>5. maxjid(jobs') =< nextjid
        BY <4>1, <4>2, <4>4
      <4> QED BY <4>1, <4>2, <4>5 DEF FreshUnlessWrapped, maxjid
    <3>4. CASE ~ (nextjid + 1 > MAXJOBS) /\ ~ (nextjid > maxjid(jobs))
      <4>1. PICK i \in Slots : jobs[i].jid >= MAXJOBS
        BY <3>4 DEF IInv, FreshUnlessWrapped
      <4>2. i # slot
        BY <3>1, <4>1, <1>1
      <4>3. nextjid' =< MAXJOBS
        BY <2>2, <3>4, <1>1 DEF IInv, TypeOK
      <4> QED BY <2>6, <4>1, <4>2, <4>3 DEF FreshUnlessWrapped
    <3> QED BY <3>2, <3>3, <3>4
  <2> QED BY <2>5, <2>7, <2>8 DEF IInv
<1> QED BY <1>2, <1>3

\* deletejob, called for any process.
LEMMA DeleteInv == ASSUME IInv, NEW pid \in Pids, Delete(pid) PROVE IInv'
<1>1. CASE getjobpid(pid) = 0
  BY <1>1 DEF Delete, deletejob, jobVars, IInv, TypeOK, OneSlotPerProcess,
              FreshUnlessWrapped, maxjid
<1>2. CASE getjobpid(pid) # 0
  <2> DEFINE slot == getjobpid(pid)
  <2>1. slot \in Slots
    BY <1>2, JobFound
  <2>2. jobs' = [jobs EXCEPT ![slot] = NoJob] /\ nextjid' = maxjid(jobs') + 1
    BY <1>2 DEF Delete, deletejob
  <2>3. NoJob \in Job
    BY DEF NoJob, Job, States
  <2>4. jobs' \in [Slots -> Job]
    BY <2>1, <2>2, <2>3 DEF IInv, TypeOK
  <2>5. maxjid(jobs') \in Nat
    BY <2>4, MaxJidIsMax
  <2>6. TypeOK'
    BY <2>2, <2>4, <2>5 DEF TypeOK
  <2>7. \A i \in Slots : jobs'[i] = IF i = slot THEN NoJob ELSE jobs[i]
    BY <2>1, <2>2 DEF IInv, TypeOK
  <2>8. OneSlotPerProcess'
    BY <2>7 DEF IInv, OneSlotPerProcess, NoJob
  <2>9. FreshUnlessWrapped'
    BY <2>2, <2>5 DEF FreshUnlessWrapped, maxjid
  <2> QED BY <2>6, <2>8, <2>9 DEF IInv
<1> QED BY <1>1, <1>2

\* The shell sets the state of a job.
LEMMA ChangeInv == ASSUME IInv, NEW pid \in Pids, Change(pid) PROVE IInv'
<1> PICK st \in States : getjobpid(pid) # 0 /\ setstate(getjobpid(pid), st)
  BY DEF Change, InList
<1> DEFINE slot == getjobpid(pid)
<1>1. slot \in Slots
  BY JobFound
<1>2. jobs' = [jobs EXCEPT ![slot].state = st] /\ nextjid' = nextjid
  BY DEF setstate
<1>3. TypeOK'
  BY <1>1, <1>2 DEF IInv, TypeOK, Job
<1>4. \A i \in Slots : jobs'[i].pid = jobs[i].pid /\ jobs'[i].jid = jobs[i].jid
  BY <1>1, <1>2 DEF IInv, TypeOK, Job
<1>5. OneSlotPerProcess'
  BY <1>4 DEF IInv, OneSlotPerProcess
<1>6. maxjid(jobs') = maxjid(jobs)
  BY <1>4 DEF maxjid
<1>7. FreshUnlessWrapped'
  BY <1>2, <1>4, <1>6 DEF IInv, FreshUnlessWrapped, maxjid
<1> QED BY <1>3, <1>5, <1>7 DEF IInv

\* The types and the order of the job numbers, in every reachable state.
LEMMA Invariance == Spec => []IInv
<1>1. IInv /\ [Next]_jobVars => IInv'
  <2> SUFFICES ASSUME IInv, [Next]_jobVars PROVE IInv'
    OBVIOUS
  <2>1. ASSUME NEW pid \in Pids, Add(pid) \/ Delete(pid) \/ Change(pid) PROVE IInv'
    BY <2>1, AddInv, DeleteInv, ChangeInv
  <2>2. CASE UNCHANGED jobVars
    BY <2>2 DEF jobVars, IInv, TypeOK, OneSlotPerProcess, FreshUnlessWrapped, maxjid
  <2> QED BY <2>1, <2>2 DEF Next
<1> QED BY InitInv, <1>1, PTL DEF Spec

-----------------------------------------------------------------------------
\* Every slot of the list holds a job or what clearjob leaves.
THEOREM TypeCorrect == Spec => []TypeOK
<1>1. IInv => TypeOK
  BY DEF IInv
<1> QED BY <1>1, Invariance, PTL

\* addjob and deletejob keep a process in one slot, whatever the order of calls.
THEOREM OneSlot == Spec => []OneSlotPerProcess
<1>1. IInv => OneSlotPerProcess
  BY DEF IInv
<1> QED BY <1>1, Invariance, PTL

\* The next job ID is new, or the counter has wrapped at MAXJOBS.
THEOREM FreshJid == Spec => []FreshUnlessWrapped
<1>1. IInv => FreshUnlessWrapped
  BY DEF IInv
<1> QED BY <1>1, Invariance, PTL
=============================================================================
