------------------------------ MODULE JobTable ------------------------------
(***************************************************************************)
(* The job list of the shell: shell/lab/job.c.  The functions that read    *)
(* the list are operators, those that change it actions.  Slots are        *)
(* numbered from 1, so jobs[1] is the C program's jobs[0]; 0 stands for a  *)
(* NULL job pointer.                                                       *)
(***************************************************************************)
EXTENDS Integers, FiniteSets

CONSTANTS MAXJOBS,   \* slots in the list
          Pids,      \* process ids, all at least 1
          MaxJid     \* bound: no job is added when nextjid is beyond it

ASSUME MaxJobsAssumption == MAXJOBS \in Nat \ {0} /\ MaxJid \in Nat
ASSUME PidsAssumption == Pids \subseteq Nat \ {0}

VARIABLES jobs,      \* the list
          nextjid    \* next job ID to allocate

jobVars == <<jobs, nextjid>>

Slots  == 1 .. MAXJOBS
States == {"UNDEF", "FG", "BG", "ST"}
NoJob  == [pid |-> 0, jid |-> 0, state |-> "UNDEF"]   \* what clearjob leaves

\* The loops of job.c stop at the first slot that qualifies.
FirstSlot(S) == IF S = {} THEN 0 ELSE CHOOSE i \in S : \A j \in S : i =< j

fgpid == LET fg == FirstSlot({i \in Slots : jobs[i].state = "FG"})
         IN  IF fg = 0 THEN 0 ELSE jobs[fg].pid
getjobpid(pid) == IF pid < 1 THEN 0 ELSE FirstSlot({i \in Slots : jobs[i].pid = pid})
getjobjid(jid) == IF jid < 1 THEN 0 ELSE FirstSlot({i \in Slots : jobs[i].jid = jid})
maxjid(js) == LET jids == {0} \cup {js[i].jid : i \in Slots}
              IN  CHOOSE m \in jids : \A n \in jids : n =< m

initjobs == jobs = [i \in Slots |-> NoJob] /\ nextjid = 1

\* Mutant: the loop does not return after it filled a slot.
addjobNoReturn(pid, st) ==
  /\ jobs' = [i \in Slots |-> IF jobs[i].pid = 0
                              THEN [pid |-> pid, jid |-> nextjid, state |-> st] ELSE jobs[i]]
  /\ nextjid' = IF nextjid + 1 > MAXJOBS THEN 1 ELSE nextjid + 1

addjob(pid, st) ==
  LET slot == FirstSlot({i \in Slots : jobs[i].pid = 0})
  IN  IF pid < 1 \/ slot = 0
      THEN UNCHANGED jobVars
      ELSE /\ jobs' = [jobs EXCEPT ![slot] = [pid |-> pid, jid |-> nextjid, state |-> st]]
           /\ nextjid' = IF nextjid + 1 > MAXJOBS THEN 1 ELSE nextjid + 1

\* Mutant: the job IDs of the jobs that remain are not looked at.
deletejobReset(pid) ==
  LET slot == getjobpid(pid)
  IN  IF slot = 0
      THEN UNCHANGED jobVars
      ELSE jobs' = [jobs EXCEPT ![slot] = NoJob] /\ nextjid' = 1

deletejob(pid) ==
  LET slot == getjobpid(pid)
  IN  IF slot = 0
      THEN UNCHANGED jobVars
      ELSE /\ jobs' = [jobs EXCEPT ![slot] = NoJob]
           /\ nextjid' = maxjid(jobs') + 1

setstate(slot, st) == /\ jobs' = [jobs EXCEPT ![slot].state = st]
                      /\ UNCHANGED nextjid

-----------------------------------------------------------------------------
(***************************************************************************)
(* The list on its own, under any sequence of calls that the shell could   *)
(* make: a process is added once, by the parent that forked it.            *)
(***************************************************************************)

InList(pid) == getjobpid(pid) # 0

Add(pid) == /\ ~ InList(pid) /\ nextjid =< MaxJid
            /\ \E st \in {"FG", "BG"} : addjob(pid, st)
Delete(pid) == deletejob(pid)
Change(pid) == \E st \in States \ {"UNDEF"} : InList(pid) /\ setstate(getjobpid(pid), st)

Init == initjobs
Next == \E pid \in Pids : Add(pid) \/ Delete(pid) \/ Change(pid)
Spec == Init /\ [][Next]_jobVars

-----------------------------------------------------------------------------
(***************************************************************************)
(* Properties                                                              *)
(***************************************************************************)

Job == [pid : Pids \cup {0}, jid : Nat, state : States]

TypeOK == jobs \in [Slots -> Job] /\ nextjid \in Nat \ {0}

\* A slot has a process id exactly when it has a job ID, and no process has
\* two slots: the reaper's deletejob(pid) leaves nothing of a dead job behind.
OneSlotPerProcess ==
  /\ \A i \in Slots : jobs[i].pid = 0 <=> jobs[i].jid = 0
  /\ \A i, j \in Slots : jobs[i].pid = jobs[j].pid /\ jobs[i].pid # 0 => i = j

\* A new job gets an ID above every other one, or wraps around to 1 only after
\* an ID of at least MAXJOBS was given.
FreshUnlessWrapped ==
  \/ nextjid > maxjid(jobs)
  \/ nextjid =< MAXJOBS /\ \E i \in Slots : jobs[i].jid >= MAXJOBS
=============================================================================
