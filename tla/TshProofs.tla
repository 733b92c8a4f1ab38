----------------------------- MODULE TshProofs -----------------------------
EXTENDS Tsh, SequenceTheorems, FiniteSetTheorems, TLAPS

(***************************************************************************)
(* Theorems about the shell of shell/lab/tsh.c, its signal handlers and    *)
(* its job list, for every length of the list, every set of process ids,   *)
(* every content of the uninitialised mask and any number of keys.         *)
(***************************************************************************)

MainPCs == {"prompt", "block", "fork", "addjob", "unblock", "lookup", "cont", "setstate",
            "waitfg", "suspend", "suspended"}
KeyPCs  == {"enter", "body", "kill", "waitfg", "suspend", "suspended", "leave", "return"}
ChldPCs == {"enter", "body", "leave", "return"}

\* main is at the bottom of the stack, and the handlers are above it.
FrameOK(f, i) == IF i = 1 THEN f.fn = "main" /\ f.pc \in MainPCs
                 ELSE /\ f.fn \in Signals
                      /\ f.pc \in IF f.fn = "CHLD" THEN ChldPCs ELSE KeyPCs
                      /\ f.pc = "kill" => f.pid \in Pids

StackOK == \A i \in 1 .. Len(stack) : FrameOK(stack[i], i)

\* do_bgfg goes on only with a job that it has found.
JobChosen == stack[1].pc \in {"cont", "setstate"} => job \in Table!Slots

Fg(i) == jobs[i].state = "FG"

\* No command is read or carried out while a process is in the foreground.
Quiet == \/ stack[1].pc \in {"prompt", "block", "fork", "addjob", "lookup", "cont", "setstate"}
         \/ stack[1].pc = "unblock" /\ cmd # "run"
NoForegroundWhenQuiet == Quiet => \A i \in Table!Slots : Fg(i) => jobs[i].pid = 0

OneFg == \A i, j \in Table!Slots : Fg(i) /\ Fg(j) => i = j

\* Only `fg' on a list whose first slot is free marks a slot without a process.
EmptyFgIsFirst == \A i \in Table!Slots : Fg(i) /\ jobs[i].pid = 0 => i = 1


-----------------------------------------------------------------------------
(* The job list.  JobTableProofs.tla has what holds of its functions.       *)

TableProofs == INSTANCE JobTableProofs WITH MaxJid <- 0

\* The slots are numbered from 1.
LEMMA SlotsAreNat == /\ MAXJOBS \in Nat \ {0} /\ Table!Slots = 1 .. MAXJOBS
                     /\ Table!Slots \subseteq Nat \ {0} /\ 1 \in Table!Slots
  BY TshAssumption DEF Table!Slots

\* The loops of job.c find the first slot that qualifies.
LEMMA FirstSlotIsFirst ==
  ASSUME NEW S, S \subseteq Table!Slots
  PROVE  /\ S = {} => Table!FirstSlot(S) = 0
         /\ S # {} => /\ Table!FirstSlot(S) \in S /\ Table!FirstSlot(S) # 0
                      /\ \A j \in S : Table!FirstSlot(S) =< j
<1>1. CASE S = {}
  BY <1>1 DEF Table!FirstSlot
<1>2. CASE S # {}
  <2>1. S \subseteq Nat /\ 0 \notin S
    BY SlotsAreNat
  <2>2. \E i \in S : \A j \in S : i =< j
    BY <1>2, <2>1, TshAssumption, TableProofs!Least
  <2>3. Table!FirstSlot(S) = CHOOSE i \in S : \A j \in S : i =< j
    BY <1>2 DEF Table!FirstSlot
  <2>4. Table!FirstSlot(S) \in S /\ \A j \in S : Table!FirstSlot(S) =< j
    BY <2>2, <2>3, Zenon
  <2> QED BY <1>2, <2>1, <2>4, Zenon
<1> QED BY <1>1, <1>2

\* getjobpid returns a slot that holds the pid, if there is one.
LEMMA JobFound ==
  ASSUME NEW pid \in Pids
  PROVE  \/ Table!getjobpid(pid) = 0 /\ (\A i \in Table!Slots : jobs[i].pid # pid)
         \/ Table!getjobpid(pid) \in Table!Slots /\ jobs[Table!getjobpid(pid)].pid = pid
<1> DEFINE S == {i \in Table!Slots : jobs[i].pid = pid}
<1>1. Table!getjobpid(pid) = Table!FirstSlot(S)
  BY TshAssumption DEF Table!getjobpid
<1>2. (S = {} => Table!FirstSlot(S) = 0) /\ (S # {} => Table!FirstSlot(S) \in S)
  BY FirstSlotIsFirst
<1> QED BY <1>1, <1>2

\* fgpid returns 0 only if no slot with a job is in the foreground.
LEMMA FgPid ==
  ASSUME TypeOK
  PROVE  /\ Table!fgpid \in Pids \cup {0}
         /\ OneFg /\ ~ (Table!fgpid > 0) => \A i \in Table!Slots : Fg(i) => jobs[i].pid = 0
<1> DEFINE S == {i \in Table!Slots : jobs[i].state = "FG"}
<1>1. Table!fgpid = IF Table!FirstSlot(S) = 0 THEN 0 ELSE jobs[Table!FirstSlot(S)].pid
  BY DEF Table!fgpid
<1>2. \A i \in Table!Slots : jobs[i].pid \in Pids \cup {0} /\ (jobs[i].pid > 0 \/ jobs[i].pid = 0)
  <2>1. \A i \in Table!Slots : jobs[i].pid \in Pids \cup {0}
    BY DEF TypeOK, Table!TypeOK, Table!Job
  <2>2. \A c \in Pids \cup {0} : c > 0 \/ c = 0
    BY TshAssumption
  <2> QED BY <2>1, <2>2
<1>3. (S = {} => Table!FirstSlot(S) = 0) /\ (S # {} => Table!FirstSlot(S) \in S /\ Table!FirstSlot(S) # 0)
  BY FirstSlotIsFirst
<1>4. CASE S = {}
  BY <1>1, <1>3, <1>4 DEF Fg
<1>5. CASE S # {}
  <2>1. Table!fgpid = jobs[Table!FirstSlot(S)].pid /\ Table!FirstSlot(S) \in S
    BY <1>1, <1>3, <1>5
  <2> QED BY <1>2, <2>1 DEF OneFg, Fg
<1> QED BY <1>4, <1>5

\* What addjob does.
Added(pid, st, slot) ==
  /\ slot \in Table!Slots /\ jobs[slot].pid = 0 /\ (\A i \in Table!Slots : i < slot => jobs[i].pid # 0)
  /\ jobs' = [jobs EXCEPT ![slot] = [pid |-> pid, jid |-> nextjid, state |-> st]]
  /\ nextjid' \in Nat \ {0}

\* addjob fails on a bad pid or a full list, and fills a slot otherwise.
LEMMA AddCases ==
  ASSUME TypeOK, NEW pid \in Pids \cup {0, -1}, NEW st \in Table!States, Table!addjob(pid, st)
  PROVE  \/ /\ UNCHANGED jobVars
            /\ pid \notin Pids \/ (\A i \in Table!Slots : jobs[i].pid # 0)
         \/ pid \in Pids /\ \E slot \in Table!Slots : Added(pid, st, slot)
<1> DEFINE S == {i \in Table!Slots : jobs[i].pid = 0}
           slot == Table!FirstSlot(S)
<1>1. S # {} => slot \in S /\ slot # 0 /\ \A j \in S : slot =< j
  BY FirstSlotIsFirst
<1>2. S = {} => slot = 0
  BY FirstSlotIsFirst
<1>3. pid < 1 <=> pid \notin Pids
  BY TshAssumption
<1>4. CASE pid < 1 \/ slot = 0
  BY <1>1, <1>3, <1>4 DEF Table!addjob, Table!jobVars, jobVars
<1>5. CASE ~ (pid < 1 \/ slot = 0)
  <2>1. /\ jobs' = [jobs EXCEPT ![slot] = [pid |-> pid, jid |-> nextjid, state |-> st]]
        /\ nextjid' = IF nextjid + 1 > MAXJOBS THEN 1 ELSE nextjid + 1
    BY <1>5 DEF Table!addjob
  <2>2. nextjid' \in Nat \ {0}
    BY <2>1 DEF TypeOK, Table!TypeOK
  <2>3. slot \in S /\ \A j \in S : slot =< j
    BY <1>1, <1>2, <1>5
  <2> HIDE DEF slot
  <2>4. \A i \in Table!Slots : i < slot => jobs[i].pid # 0
    BY <2>3, SlotsAreNat
  <2>5. Added(pid, st, slot)
    BY <2>1, <2>2, <2>3, <2>4 DEF Added
  <2> QED BY <1>3, <1>5, <2>3, <2>5
<1> QED BY <1>4, <1>5

\* What deletejob does.
Deleted(c, slot) == /\ slot \in Table!Slots /\ jobs[slot].pid = c
                    /\ jobs' = [jobs EXCEPT ![slot] = Table!NoJob]
                    /\ nextjid' \in Nat \ {0}

\* deletejob does nothing if there is no such job, and empties its slot otherwise.
LEMMA DeleteCases ==
  ASSUME TypeOK, NEW c \in Pids, Table!deletejob(c)
  PROVE  \/ UNCHANGED jobVars /\ Table!getjobpid(c) = 0 /\ (\A i \in Table!Slots : jobs[i].pid # c)
         \/ Table!getjobpid(c) # 0 /\ \E slot \in Table!Slots : Deleted(c, slot)
<1> DEFINE slot == Table!getjobpid(c)
<1>1. CASE slot = 0
  <2>1. \A i \in Table!Slots : jobs[i].pid # c
    BY <1>1, JobFound, SlotsAreNat
  <2> QED BY <1>1, <2>1 DEF Table!deletejob, Table!jobVars, jobVars
<1>2. CASE slot # 0
  <2>1. slot \in Table!Slots /\ jobs[slot].pid = c
    BY <1>2, JobFound
  <2>2. jobs' = [jobs EXCEPT ![slot] = Table!NoJob] /\ nextjid' = Table!maxjid(jobs') + 1
    BY <1>2 DEF Table!deletejob
  <2> HIDE DEF slot
  <2>3. jobs' \in [Table!Slots -> Table!Job]
    BY <2>1, <2>2 DEF TypeOK, Table!TypeOK, Table!NoJob, Table!Job, Table!States
  <2>4. Table!maxjid(jobs') \in Nat
    <3> DEFINE js == jobs'
    <3>1. js \in [TableProofs!Slots -> TableProofs!Job]
      BY <2>3 DEF TableProofs!Slots, TableProofs!Job, TableProofs!States,
                  Table!Slots, Table!Job, Table!States
    <3> HIDE DEF js
    <3>2. TableProofs!maxjid(js) \in Nat
      BY <3>1, TshAssumption, TableProofs!MaxJidIsMax
    <3>3. TableProofs!maxjid(js) = Table!maxjid(js)
      BY DEF TableProofs!maxjid, Table!maxjid, TableProofs!Slots, Table!Slots
    <3> QED BY <3>2, <3>3 DEF js
  <2>5. Deleted(c, slot)
    BY <2>1, <2>2, <2>4 DEF Deleted
  <2> QED BY <1>2, <2>1, <2>5 DEF slot
<1> QED BY <1>1, <1>2

-----------------------------------------------------------------------------
(* The stack *)

\* Where the stack stands.
LEMMA TopFacts ==
  ASSUME TypeOK, StackOK
  PROVE  /\ Len(stack) \in Nat \ {0} /\ DOMAIN stack = 1 .. Len(stack)
         /\ Top \in Frame /\ Top = stack[Len(stack)] /\ FrameOK(Top, Len(stack))
         /\ stack[1] \in Frame /\ FrameOK(stack[1], 1)
         /\ Top.fn = "main" <=> Len(stack) = 1
         /\ \A i \in 1 .. Len(stack) : stack[i] \in Frame /\ FrameOK(stack[i], i)
<1>1. Len(stack) \in Nat \ {0} /\ DOMAIN stack = 1 .. Len(stack)
  BY LenProperties DEF TypeOK
<1>2. \A i \in 1 .. Len(stack) : stack[i] \in Frame
  BY <1>1, ElementOfSeq DEF TypeOK
<1>3. \A i \in 1 .. Len(stack) : FrameOK(stack[i], i)
  BY DEF StackOK
<1>4. Top = stack[Len(stack)] /\ 1 \in 1 .. Len(stack) /\ Len(stack) \in 1 .. Len(stack)
  BY <1>1 DEF Top
<1>5. Top.fn = "main" <=> Len(stack) = 1
  BY <1>1, <1>3, <1>4 DEF FrameOK, Signals
<1> QED BY <1>1, <1>2, <1>3, <1>4, <1>5

\* A new frame in the place of the top one.
LEMMA TopReplaced ==
  ASSUME TypeOK, StackOK, NEW f \in Frame, FrameOK(f, Len(stack)), stack' = WithTop(f)
  PROVE  /\ stack' \in Seq(Frame) /\ Len(stack') = Len(stack) /\ StackOK'
         /\ stack'[Len(stack)] = f
         /\ \A i \in 1 .. Len(stack) : i # Len(stack) => stack'[i] = stack[i]
<1>1. Len(stack) \in 1 .. Len(stack) /\ stack \in Seq(Frame)
  BY TopFacts DEF TypeOK
<1>2. stack' = [stack EXCEPT ![Len(stack)] = f]
  BY DEF WithTop
<1>3. /\ stack' \in Seq(Frame) /\ Len(stack') = Len(stack)
      /\ \A i \in 1 .. Len(stack) : stack'[i] = IF i = Len(stack) THEN f ELSE stack[i]
  BY <1>1, <1>2, ExceptSeq
<1>4. StackOK'
  BY <1>3 DEF StackOK
<1> QED BY <1>1, <1>3, <1>4

\* The top frame at another place of the same function.
LEMMA TopAtPc ==
  ASSUME NEW f \in Frame, NEW p \in PCs
  PROVE  /\ [f EXCEPT !.pc = p] \in Frame
         /\ [f EXCEPT !.pc = p].pc = p /\ [f EXCEPT !.pc = p].fn = f.fn
         /\ [f EXCEPT !.pc = p].pid = f.pid
  BY DEF Frame

\* A step from one place of main, or of a handler, to another.
LEMMA Moved ==
  ASSUME TypeOK, StackOK, NEW p \in PCs, Goto(p),
         IF Top.fn = "main" THEN p \in MainPCs
         ELSE p # "kill" /\ p \in IF Top.fn = "CHLD" THEN ChldPCs ELSE KeyPCs
  PROVE  /\ stack' \in Seq(Frame) /\ Len(stack') = Len(stack) /\ StackOK'
         /\ IF Top.fn = "main" THEN stack'[1] = [stack[1] EXCEPT !.pc = p] /\ stack'[1].pc = p
                               ELSE stack'[1] = stack[1]
<1> DEFINE f == [Top EXCEPT !.pc = p]
<1>1. f \in Frame /\ f.pc = p /\ f.fn = Top.fn /\ f.pid = Top.pid
  BY TopFacts, TopAtPc
<1>2. stack' = WithTop(f)
  BY DEF Goto
<1>3. FrameOK(f, Len(stack))
  BY <1>1, TopFacts DEF FrameOK
<1>4. f = [stack[Len(stack)] EXCEPT !.pc = p]
  BY TopFacts
<1> HIDE DEF f
<1>5. /\ stack' \in Seq(Frame) /\ Len(stack') = Len(stack) /\ StackOK'
      /\ stack'[Len(stack)] = f
      /\ \A i \in 1 .. Len(stack) : i # Len(stack) => stack'[i] = stack[i]
  BY <1>1, <1>2, <1>3, TopReplaced
<1>6. CASE Top.fn = "main"
  BY <1>1, <1>4, <1>5, <1>6, TopFacts
<1>7. CASE Top.fn # "main"
  <2>1. 1 \in 1 .. Len(stack) /\ 1 # Len(stack)
    BY <1>7, TopFacts
  <2> QED BY <1>5, <1>7, <2>1
<1> QED BY <1>6, <1>7

\* A signal is delivered: a handler's frame comes on top.
LEMMA Delivered ==
  ASSUME TypeOK, StackOK, NEW s \in Signals, Deliver(s)
  PROVE  /\ stack' \in Seq(Frame) /\ Len(stack') = Len(stack) + 1 /\ StackOK'
         /\ stack'[Len(stack) + 1].fn = s /\ stack'[Len(stack) + 1].pc = "enter"
         /\ stack'[1] = [stack[1] EXCEPT !.pc = "waitfg"] \/ stack'[1] = stack[1]
<1> DEFINE waits == Top.pc = "suspended"
           frame == [fn |-> s, pc |-> "enter", saved |-> {}, pid |-> 0,
                     ret |-> IF waits THEN Top.saved ELSE mask]
           f     == [Top EXCEPT !.pc = "waitfg"]
           below == IF waits THEN WithTop(f) ELSE stack
<1>1. stack' = Append(below, frame)
  BY DEF Deliver
<1>2. frame \in Frame /\ frame.fn = s /\ frame.pc = "enter"
  BY TopFacts DEF Frame, PCs, TypeOK
<1>3. /\ below \in Seq(Frame) /\ Len(below) = Len(stack)
      /\ \A i \in 1 .. Len(stack) : FrameOK(below[i], i)
      /\ below[1] = [stack[1] EXCEPT !.pc = "waitfg"] \/ below[1] = stack[1]
  <2>1. CASE ~ waits
    BY <2>1, TopFacts DEF TypeOK
  <2>2. CASE waits
    <3>1. below = [stack EXCEPT ![Len(stack)] = f]
      BY <2>2 DEF WithTop
    <3>2. f \in Frame /\ f.pc = "waitfg" /\ f.fn = Top.fn /\ f.pid = Top.pid
      BY TopFacts, TopAtPc DEF PCs
    <3>3. FrameOK(f, Len(stack))
      BY <2>2, <3>2, TopFacts DEF FrameOK, MainPCs, KeyPCs, ChldPCs
    <3>4. f = [stack[Len(stack)] EXCEPT !.pc = "waitfg"]
      BY TopFacts
    <3>5. Len(stack) \in 1 .. Len(stack) /\ stack \in Seq(Frame)
      BY TopFacts DEF TypeOK
    <3> HIDE DEF f, below
    <3>6. /\ below \in Seq(Frame) /\ Len(below) = Len(stack)
          /\ \A i \in 1 .. Len(stack) : below[i] = IF i = Len(stack) THEN f ELSE stack[i]
      BY <3>1, <3>2, <3>5, ExceptSeq
    <3> QED BY <3>3, <3>4, <3>6, TopFacts
  <2> QED BY <2>1, <2>2
<1> HIDE DEF below, frame
<1>4. /\ stack' \in Seq(Frame) /\ Len(stack') = Len(stack) + 1
      /\ \A i \in 1 .. Len(stack) : stack'[i] = below[i]
      /\ stack'[Len(stack) + 1] = frame
  BY <1>1, <1>2, <1>3, AppendProperties
<1>5. FrameOK(frame, Len(stack) + 1)
  BY <1>2, TopFacts DEF FrameOK, ChldPCs, KeyPCs
<1>6. StackOK'
  BY <1>3, <1>4, <1>5, TopFacts DEF StackOK
<1> QED BY <1>2, <1>3, <1>4, <1>6, TopFacts

\* A handler returns.
LEMMA Returned ==
  ASSUME TypeOK, StackOK, Return
  PROVE  /\ Len(stack) > 1 /\ stack' \in Seq(Frame) /\ Len(stack') = Len(stack) - 1 /\ StackOK'
         /\ \A i \in 1 .. Len(stack) - 1 : stack'[i] = stack[i]
<1>1. Len(stack) > 1 /\ Len(stack) \in Nat
  BY TopFacts DEF Return, FrameOK, MainPCs
<1>2. stack' = SubSeq(stack, 1, Len(stack) - 1)
  BY DEF Return, Front
<1>3. /\ stack' \in Seq(Frame) /\ Len(stack') = Len(stack) - 1
      /\ \A i \in 1 .. Len(stack) - 1 : stack'[i] = stack[i]
  <2>1. \A i \in 1 .. Len(stack) - 1 : stack[i] \in Frame
    BY <1>1, TopFacts
  <2>2. /\ SubSeq(stack, 1, Len(stack) - 1) \in Seq(Frame)
        /\ Len(SubSeq(stack, 1, Len(stack) - 1)) = Len(stack) - 1
        /\ \A i \in 1 .. Len(stack) - 1 : SubSeq(stack, 1, Len(stack) - 1)[i] = stack[1 + i - 1]
    BY <1>1, <2>1, SubSeqProperties
  <2> QED BY <1>1, <1>2, <2>2
<1>4. StackOK'
  BY <1>1, <1>3 DEF StackOK
<1> QED BY <1>1, <1>3, <1>4

-----------------------------------------------------------------------------
(* Types, and where main is *)

Typed == TypeOK /\ StackOK /\ JobChosen

\* The type invariant without the stack.
LEMMA TypeOfParts ==
  ASSUME Table!TypeOK', stack' \in Seq(Frame), Len(stack') > 0,
         mask' \subseteq Signals, pending' \subseteq Signals,
         shell' \in {"up", "quit", "error", "crash"}, cmd' \in Commands \cup {"none"},
         job' \in Table!Slots \cup {0}, chld' \subseteq Signals,
         proc' \in [Pids -> {"none", "forked", "running", "stopped", "exited", "killed", "reaped"}],
         report' \in [Pids -> {"none", "stopped", "continued"}],
         sigs' \in [Pids -> SUBSET {"INT", "TSTP"}], keys' \in 0 .. MaxKeys
  PROVE  TypeOK'
  BY DEF TypeOK

\* main waits, or stays where it is.
MainStays == /\ stack'[1].pc = stack[1].pc \/ stack'[1].pc \in {"waitfg", "suspend", "suspended"}
             /\ UNCHANGED <<cmd, job>>

\* A builtin's job stays chosen while main does nothing.
LEMMA JobStaysChosen == ASSUME JobChosen, MainStays PROVE JobChosen'
  BY DEF JobChosen, MainStays

\* The steps in which a frame moves on and nothing but the mask changes.
LEMMA FrameStep ==
  ASSUME Typed, waitfg \/ Suspend \/ LeaveHandler \/ Return
                \/ (\E s \in Signals : EnterHandler(s) \/ ReadFg(s))
  PROVE  /\ Typed' /\ UNCHANGED <<jobVars, cmd>>
         /\ MainStays \/ (stack[1].pc = "waitfg" /\ stack'[1].pc = "prompt" /\ ~ (Table!fgpid > 0))
<1> USE DEF Typed
<1>0. /\ UNCHANGED <<jobVars, mainVars, kernelVars, pending, shell, keys>>
      /\ UNCHANGED <<jobs, nextjid, cmd, job, chld, proc, report, sigs>>
  BY DEF waitfg, Suspend, LeaveHandler, Return, EnterHandler, ReadFg, jobVars, mainVars, kernelVars
<1>1. ASSUME mask' \subseteq Signals, stack' \in Seq(Frame), Len(stack') > 0 PROVE TypeOK'
  BY <1>0, <1>1 DEF TypeOK, Table!TypeOK
<1>2. CASE waitfg
  <2> DEFINE p == IF Table!fgpid > 0 THEN "suspend" ELSE Caller(Top)
  <2>1. Goto(p) /\ mask' = mask /\ Top.pc = "waitfg"
    BY <1>2 DEF waitfg
  <2>2. /\ p \in PCs
        /\ IF Top.fn = "main" THEN p \in MainPCs
           ELSE p # "kill" /\ p \in IF Top.fn = "CHLD" THEN ChldPCs ELSE KeyPCs
    BY <2>1, TopFacts DEF Caller, PCs, FrameOK, MainPCs, KeyPCs, ChldPCs
  <2>3. Top.fn = "main" => Top = stack[1] /\ (p = "suspend" \/ (p = "prompt" /\ ~ (Table!fgpid > 0)))
    BY TopFacts DEF Caller
  <2> HIDE DEF p
  <2>4. /\ stack' \in Seq(Frame) /\ Len(stack') = Len(stack) /\ StackOK'
        /\ IF Top.fn = "main" THEN stack'[1] = [stack[1] EXCEPT !.pc = p] /\ stack'[1].pc = p
                              ELSE stack'[1] = stack[1]
    BY <2>1, <2>2, Moved
  <2>5. TypeOK'
    BY <1>1, <2>1, <2>4, TopFacts DEF TypeOK
  <2>6. MainStays \/ (stack[1].pc = "waitfg" /\ stack'[1].pc = "prompt" /\ ~ (Table!fgpid > 0))
    BY <1>0, <2>1, <2>3, <2>4 DEF MainStays
  <2>7. JobChosen'
    BY <2>6, JobStaysChosen DEF JobChosen
  <2> QED BY <1>0, <2>4, <2>5, <2>6, <2>7
<1>3. CASE LeaveHandler
  <2>1. Goto("return") /\ mask' = Top.saved /\ Top.pc = "leave"
    BY <1>3 DEF LeaveHandler
  <2>2. Top.fn # "main" /\ "return" \in PCs /\ "return" \in ChldPCs /\ "return" \in KeyPCs
    BY <2>1, TopFacts DEF PCs, FrameOK, MainPCs, KeyPCs, ChldPCs
  <2>4. /\ stack' \in Seq(Frame) /\ Len(stack') = Len(stack) /\ StackOK'
        /\ stack'[1] = stack[1]
    BY <2>1, <2>2, Moved
  <2>5. TypeOK'
    BY <1>1, <2>1, <2>4, TopFacts DEF TypeOK, Frame
  <2>6. MainStays
    BY <1>0, <2>4 DEF MainStays
  <2> QED BY <1>0, <2>4, <2>5, <2>6, JobStaysChosen
<1>4. CASE Return
  <2>1. /\ Len(stack) > 1 /\ stack' \in Seq(Frame) /\ Len(stack') = Len(stack) - 1 /\ StackOK'
        /\ \A i \in 1 .. Len(stack) - 1 : stack'[i] = stack[i]
    BY <1>4, Returned
  <2>2. stack'[1] = stack[1] /\ Len(stack') > 0
    BY <2>1, TopFacts
  <2>3. TypeOK'
    BY <1>1, <1>4, <2>1, <2>2, TopFacts DEF Return, TypeOK, Frame
  <2>6. MainStays
    BY <1>0, <2>2 DEF MainStays
  <2> QED BY <1>0, <2>1, <2>3, <2>6, JobStaysChosen
<1>5. CASE Suspend
  <2> DEFINE f == [Top EXCEPT !.pc = "suspended", !.saved = mask]
  <2>1. stack' = WithTop(f) /\ mask' = {} /\ Top.pc = "suspend"
    BY <1>5 DEF Suspend
  <2>2. f \in Frame /\ f.pc = "suspended" /\ f.fn = Top.fn
    BY TopFacts DEF Frame, PCs, TypeOK
  <2>3. FrameOK(f, Len(stack))
    BY <2>1, <2>2, TopFacts DEF FrameOK, MainPCs, KeyPCs, ChldPCs
  <2> HIDE DEF f
  <2>4. /\ stack' \in Seq(Frame) /\ Len(stack') = Len(stack) /\ StackOK'
        /\ stack'[Len(stack)] = f
        /\ \A i \in 1 .. Len(stack) : i # Len(stack) => stack'[i] = stack[i]
    BY <2>1, <2>2, <2>3, TopReplaced
  <2>5. TypeOK'
    BY <1>1, <2>1, <2>4, TopFacts DEF TypeOK
  <2>6. stack'[1].pc = stack[1].pc \/ stack'[1].pc = "suspended"
    BY <2>2, <2>4, TopFacts
  <2>7. MainStays
    BY <1>0, <2>6 DEF MainStays
  <2> QED BY <1>0, <2>4, <2>5, <2>7, JobStaysChosen
<1>6. ASSUME NEW s \in Signals, EnterHandler(s)
      PROVE  Typed' /\ MainStays
  <2> DEFINE f == [Top EXCEPT !.pc = "body", !.saved = mask]
  <2>1. stack' = WithTop(f) /\ mask' \subseteq Signals /\ Top.pc = "enter" /\ Top.fn = s
    BY <1>6 DEF EnterHandler, At, Signals
  <2>2. f \in Frame /\ f.pc = "body" /\ f.fn = Top.fn
    BY TopFacts DEF Frame, PCs, TypeOK
  <2>3. FrameOK(f, Len(stack)) /\ Len(stack) # 1
    BY <2>1, <2>2, TopFacts DEF FrameOK, MainPCs, KeyPCs, ChldPCs, Signals
  <2> HIDE DEF f
  <2>4. /\ stack' \in Seq(Frame) /\ Len(stack') = Len(stack) /\ StackOK'
        /\ \A i \in 1 .. Len(stack) : i # Len(stack) => stack'[i] = stack[i]
    BY <2>1, <2>2, <2>3, TopReplaced
  <2>5. TypeOK'
    BY <1>1, <2>1, <2>4, TopFacts DEF TypeOK
  <2>7. MainStays
    BY <1>0, <2>3, <2>4, TopFacts DEF MainStays
  <2> QED BY <2>4, <2>5, <2>7, JobStaysChosen
<1>7. ASSUME NEW s \in Signals, ReadFg(s)
      PROVE  Typed' /\ MainStays
  <2> DEFINE f == [Top EXCEPT !.pid = Table!fgpid, !.pc = IF Table!fgpid = 0 THEN "leave" ELSE "kill"]
  <2>1. stack' = WithTop(f) /\ mask' = mask /\ Top.pc = "body" /\ Top.fn = s /\ s # "CHLD"
    BY <1>7 DEF ReadFg, At
  <2>2. /\ f \in Frame /\ f.fn = Top.fn /\ f.pc \in {"leave", "kill"}
        /\ f.pc = "kill" => f.pid \in Pids
    BY TopFacts, FgPid DEF Frame, PCs
  <2>3. FrameOK(f, Len(stack)) /\ Len(stack) # 1
    BY <2>1, <2>2, TopFacts DEF FrameOK, MainPCs, KeyPCs, ChldPCs, Signals
  <2> HIDE DEF f
  <2>4. /\ stack' \in Seq(Frame) /\ Len(stack') = Len(stack) /\ StackOK'
        /\ \A i \in 1 .. Len(stack) : i # Len(stack) => stack'[i] = stack[i]
    BY <2>1, <2>2, <2>3, TopReplaced
  <2>5. TypeOK'
    BY <1>1, <2>1, <2>4, TopFacts DEF TypeOK
  <2>7. MainStays
    BY <1>0, <2>3, <2>4, TopFacts DEF MainStays
  <2> QED BY <2>4, <2>5, <2>7, JobStaysChosen
<1> QED BY <1>0, <1>2, <1>3, <1>4, <1>5, <1>6, <1>7

\* The steps of the kernel, the children and the user, and kill.
LEMMA OutsideStep ==
  ASSUME Typed, \/ ChildStep \/ Key \/ ReapNone
                \/ \E s \in Signals : Deliver(s) \/ KillFg(s)
  PROVE  Typed' /\ UNCHANGED <<jobVars, cmd>> /\ MainStays
<1> USE DEF Typed
<1>0. /\ UNCHANGED <<jobVars, mainVars>>
      /\ UNCHANGED <<jobs, nextjid, cmd, job, chld>>
  BY DEF ChildStep, Key, ReapNone, Deliver, KillFg, jobVars, mainVars
<1>1. Table!TypeOK'
  BY <1>0 DEF TypeOK, Table!TypeOK
<1>2. ASSUME stack' = stack PROVE StackOK' /\ MainStays /\ JobChosen'
  BY <1>0, <1>2 DEF StackOK, MainStays, JobChosen
<1>3. CASE ChildStep
  <2>1. UNCHANGED <<stack, mask, shell, keys>>
    BY <1>3 DEF ChildStep
  <2>2. /\ pending' \subseteq Signals
        /\ proc' \in [Pids -> {"none", "forked", "running", "stopped", "exited", "killed", "reaped"}]
        /\ report' \in [Pids -> {"none", "stopped", "continued"}]
        /\ sigs' \in [Pids -> SUBSET {"INT", "TSTP"}]
    <3> PICK c \in Pids : Setpgid(c) \/ Exit(c) \/ SelfStop(c) \/ TakeTstp(c) \/ TakeInt(c)
      BY <1>3 DEF ChildStep
    <3>0. /\ proc \in [Pids -> {"none", "forked", "running", "stopped", "exited", "killed", "reaped"}]
          /\ report \in [Pids -> {"none", "stopped", "continued"}]
          /\ sigs \in [Pids -> SUBSET {"INT", "TSTP"}] /\ pending \subseteq Signals
      BY DEF TypeOK
    <3>1. CASE Setpgid(c)  BY <3>0, <3>1 DEF Setpgid, Become
    <3>2. CASE Exit(c)     BY <3>0, <3>2 DEF Exit, Become, NoteChild, Signals
    <3>3. CASE SelfStop(c) BY <3>0, <3>3 DEF SelfStop, Stop, Become, NoteChild, Signals
    <3>4. CASE TakeTstp(c) BY <3>0, <3>4 DEF TakeTstp, Stop, Become, NoteChild, Signals
    <3>5. CASE TakeInt(c)  BY <3>0, <3>5 DEF TakeInt, Become, NoteChild, Signals
    <3> QED BY <3>1, <3>2, <3>3, <3>4, <3>5
  <2>3. TypeOK'
    BY <1>0, <1>1, <2>1, <2>2, TypeOfParts DEF TypeOK
  <2> QED BY <1>0, <1>2, <2>1, <2>3
<1>4. CASE Key
  <2>1. UNCHANGED <<stack, mask, shell, proc, report, sigs>>
    BY <1>4 DEF Key, kernelVars
  <2>2. pending' \subseteq Signals /\ keys' \in 0 .. MaxKeys
    BY <1>4, TshAssumption DEF Key, TypeOK, Signals
  <2>3. TypeOK'
    BY <1>0, <1>1, <2>1, <2>2, TypeOfParts DEF TypeOK
  <2> QED BY <1>0, <1>2, <2>1, <2>3
<1>5. CASE ReapNone
  <2>1. At("CHLD", "body") /\ Goto("leave") /\ UNCHANGED <<mask, pending, shell, keys, proc, report, sigs>>
    BY <1>5 DEF ReapNone, kernelVars
  <2>2. Top.fn = "CHLD" /\ "leave" \in PCs /\ "leave" \in ChldPCs
    BY <2>1 DEF At, PCs, ChldPCs
  <2>3. /\ stack' \in Seq(Frame) /\ Len(stack') = Len(stack) /\ StackOK' /\ stack'[1] = stack[1]
    BY <2>1, <2>2, Moved
  <2>4. TypeOK'
    BY <1>0, <1>1, <2>1, <2>3, TypeOfParts DEF TypeOK
  <2>5. MainStays
    BY <1>0, <2>3 DEF MainStays
  <2> QED BY <1>0, <2>3, <2>4, <2>5, JobStaysChosen
<1>6. ASSUME NEW s \in Signals, Deliver(s) PROVE Typed' /\ MainStays
  <2>1. UNCHANGED <<shell, keys, proc, report, sigs>> /\ pending' \subseteq Signals /\ mask' \subseteq Signals
    BY <1>6 DEF Deliver, kernelVars, TypeOK
  <2>2. /\ stack' \in Seq(Frame) /\ Len(stack') = Len(stack) + 1 /\ StackOK'
        /\ stack'[1] = [stack[1] EXCEPT !.pc = "waitfg"] \/ stack'[1] = stack[1]
    BY <1>6, Delivered
  <2>3. TypeOK'
    BY <1>0, <1>1, <2>1, <2>2, TypeOfParts, TopFacts DEF TypeOK
  <2>4. stack[1] \in Frame /\ "waitfg" \in PCs
    BY TopFacts DEF PCs
  <2>5. stack'[1].pc = "waitfg" \/ stack'[1] = stack[1]
    <3>1. [stack[1] EXCEPT !.pc = "waitfg"].pc = "waitfg"
      BY <2>4, TopAtPc
    <3> QED BY <2>2, <3>1
  <2>6. MainStays
    BY <1>0, <2>5 DEF MainStays
  <2> QED BY <2>2, <2>3, <2>6, JobStaysChosen
<1>7. ASSUME NEW s \in Signals, KillFg(s) PROVE Typed' /\ MainStays
  <2>1. At(s, "kill") /\ UNCHANGED <<mask, pending, keys, proc, report>>
    BY <1>7 DEF KillFg
  <2>2. Top.fn = s /\ Top.fn # "main" /\ s \in {"INT", "TSTP"} /\ Top.pid \in Pids
    BY <2>1, TopFacts DEF At, FrameOK, MainPCs, ChldPCs, Signals
  <2>3. CASE Group(Top.pid)
    <3>1. /\ sigs' = IF Zombie(Top.pid) THEN sigs ELSE [sigs EXCEPT ![Top.pid] = @ \cup {s}]
          /\ Goto("waitfg") /\ shell' = shell
      BY <1>7, <2>3 DEF KillFg
    <3>2. sigs' \in [Pids -> SUBSET {"INT", "TSTP"}]
      BY <2>2, <3>1 DEF TypeOK
    <3>3. "waitfg" \in PCs /\ "waitfg" \in KeyPCs /\ Top.fn # "CHLD"
      BY <2>2 DEF PCs, KeyPCs
    <3>4. stack' \in Seq(Frame) /\ Len(stack') = Len(stack) /\ StackOK' /\ stack'[1] = stack[1]
      BY <2>2, <3>1, <3>3, Moved
    <3>5. TypeOK'
      BY <1>0, <1>1, <2>1, <3>1, <3>2, <3>4, TypeOfParts DEF TypeOK
    <3>6. MainStays
      BY <1>0, <3>4 DEF MainStays
    <3> QED BY <3>4, <3>5, <3>6, JobStaysChosen
  <2>4. CASE ~ Group(Top.pid)
    <3>1. shell' = "error" /\ UNCHANGED <<sigs, stack>>
      BY <1>7, <2>4 DEF KillFg
    <3>2. TypeOK'
      BY <1>0, <1>1, <2>1, <3>1, TypeOfParts DEF TypeOK
    <3> QED BY <1>2, <3>1, <3>2
  <2> QED BY <2>3, <2>4
<1> QED BY <1>0, <1>3, <1>4, <1>5, <1>6, <1>7

\* What sigchld_handler does to the job list.
JobStopped(slot) == slot \in Table!Slots /\ jobs[slot].pid \in Pids
                    /\ jobs' = [jobs EXCEPT ![slot].state = "ST"] /\ nextjid' = nextjid

\* What a round of sigchld_handler's loop does to the list.
LEMMA ReapStep ==
  ASSUME Typed, Reap
  PROVE  /\ Typed' /\ UNCHANGED <<stack, cmd>> /\ MainStays
         /\ \/ UNCHANGED jobVars
            \/ \E slot \in Table!Slots : JobStopped(slot) \/ \E c \in Pids : Deleted(c, slot)
<1> USE DEF Typed
<1>0. UNCHANGED <<stack, cmd, job, chld, sigs, mask, pending, keys>>
  BY DEF Reap, mainVars
<1>1. PICK c \in Pids : ReapStopped(c) \/ ReapContinued(c) \/ ReapExited(c) \/ ReapKilled(c)
  BY DEF Reap
<1>2. /\ proc' \in [Pids -> {"none", "forked", "running", "stopped", "exited", "killed", "reaped"}]
      /\ report' \in [Pids -> {"none", "stopped", "continued"}]
      /\ shell' \in {"up", "quit", "error", "crash"}
  <2>0. shell \in {"up", "quit", "error", "crash"}
    BY DEF TypeOK
  <2>1. shell' = shell \/ shell' = "crash"
    BY <1>1 DEF ReapStopped, ReapContinued, ReapExited, ReapKilled
  <2>2. /\ proc' = proc \/ proc' = [proc EXCEPT ![c] = "reaped"]
        /\ report' = report \/ report' = [report EXCEPT ![c] = "none"]
    BY <1>1 DEF ReapStopped, ReapContinued, ReapExited, ReapKilled, Become
  <2> QED BY <2>0, <2>1, <2>2 DEF TypeOK
<1>3. \/ UNCHANGED jobVars
      \/ \E slot \in Table!Slots : JobStopped(slot) \/ Deleted(c, slot)
  <2>1. CASE ReapStopped(c)
    <3>1. CASE Table!getjobpid(c) = 0
      BY <2>1, <3>1 DEF ReapStopped
    <3>2. CASE Table!getjobpid(c) # 0
      <4>1. Table!getjobpid(c) \in Table!Slots /\ jobs[Table!getjobpid(c)].pid = c
        BY <3>2, JobFound
      <4>2. Table!setstate(Table!getjobpid(c), "ST")
        BY <2>1, <3>2 DEF ReapStopped
      <4>3. JobStopped(Table!getjobpid(c))
        BY <4>1, <4>2 DEF Table!setstate, JobStopped
      <4> QED BY <4>1, <4>3
    <3> QED BY <3>1, <3>2
  <2>2. CASE ReapContinued(c)
    BY <2>2 DEF ReapContinued
  <2>3. CASE ReapExited(c) \/ ReapKilled(c)
    <3>1. Table!deletejob(c)
      BY <2>3 DEF ReapExited, ReapKilled
    <3> QED BY <3>1, DeleteCases
  <2> QED BY <1>1, <2>1, <2>2, <2>3
<1>4. Table!TypeOK'
  <2>1. jobs \in [Table!Slots -> Table!Job] /\ nextjid \in Nat \ {0}
    BY DEF TypeOK, Table!TypeOK
  <2>2. CASE UNCHANGED jobVars
    BY <2>1, <2>2 DEF jobVars, Table!TypeOK
  <2>3. ASSUME NEW slot \in Table!Slots, JobStopped(slot) PROVE Table!TypeOK'
    BY <2>1, <2>3 DEF JobStopped, Table!TypeOK, Table!Job, Table!States
  <2>4. ASSUME NEW slot \in Table!Slots, Deleted(c, slot) PROVE Table!TypeOK'
    BY <2>1, <2>4 DEF Deleted, Table!TypeOK, Table!Job, Table!States, Table!NoJob
  <2> QED BY <1>3, <2>2, <2>3, <2>4
<1>5. TypeOK'
  BY <1>0, <1>2, <1>4, TypeOfParts DEF TypeOK
<1>6. StackOK' /\ MainStays /\ JobChosen'
  BY <1>0 DEF StackOK, MainStays, JobChosen
<1> QED BY <1>0, <1>3, <1>5, <1>6

\* main moves on: no handler is above it.
LEMMA MainMoves ==
  ASSUME Typed, NEW from, NEW to \in MainPCs, At("main", from), Goto(to)
  PROVE  /\ stack[1].pc = from /\ stack' \in Seq(Frame) /\ Len(stack') = 1 /\ StackOK'
         /\ stack'[1].pc = to /\ stack'[1].pid = stack[1].pid
<1> USE DEF Typed
<1>1. Len(stack) = 1 /\ Top = stack[1] /\ stack[1] \in Frame
  BY TopFacts DEF At
<1>2. to \in PCs
  BY DEF MainPCs, PCs
<1>3. /\ stack' \in Seq(Frame) /\ Len(stack') = 1 /\ StackOK'
      /\ stack'[1] = [stack[1] EXCEPT !.pc = to] /\ stack'[1].pc = to
  BY <1>1, <1>2, Moved DEF At
<1> QED BY <1>1, <1>2, <1>3, TopAtPc DEF At

\* The steps of main but those that change the job list.
LEMMA MainStep ==
  ASSUME Typed, Block \/ Fork \/ Unblock \/ Lookup \/ Cont \/ \E c \in Commands : Read(c)
  PROVE  /\ Typed' /\ UNCHANGED jobVars /\ Len(stack) = 1 /\ Len(stack') = 1
         /\ \/ stack[1].pc = "prompt" /\ stack'[1].pc \in {"prompt", "block", "lookup"}
            \/ stack[1].pc = "block" /\ stack'[1].pc = "fork" /\ cmd' = cmd
            \/ stack[1].pc = "fork" /\ stack'[1].pc = "addjob" /\ cmd' = cmd
            \/ stack[1].pc = "unblock" /\ cmd' = cmd
               /\ stack'[1].pc = IF cmd = "run" THEN "waitfg" ELSE "prompt"
            \/ stack[1].pc = "lookup" /\ stack'[1].pc \in {"cont", "prompt"} /\ cmd' = cmd
            \/ stack[1].pc = "cont" /\ stack'[1].pc = "setstate" /\ cmd' = cmd
<1> USE DEF Typed
<1>0. UNCHANGED <<jobVars, keys>> /\ UNCHANGED <<jobs, nextjid>>
  BY DEF Block, Fork, Unblock, Lookup, Cont, Read, jobVars
<1>1. Table!TypeOK'
  BY <1>0 DEF TypeOK, Table!TypeOK
<1> USE <1>0, <1>1
<1>8. Len(stack) = 1
  BY TopFacts DEF Block, Fork, Unblock, Lookup, Cont, Read, At
<1> USE <1>8
<1>2. CASE Block
  <2>1. /\ At("main", "block") /\ Goto("fork")
        /\ UNCHANGED <<cmd, job, pending, shell, proc, report, sigs>>
    BY <1>2 DEF Block, kernelVars
  <2>2. chld' \subseteq Signals /\ mask' \subseteq Signals
    BY <1>2, TshAssumption DEF Block, Signals, TypeOK
  <2>3. /\ stack[1].pc = "block" /\ stack' \in Seq(Frame) /\ Len(stack') = 1 /\ StackOK'
        /\ stack'[1].pc = "fork"
    BY <2>1, MainMoves DEF MainPCs
  <2>4. TypeOK'
    BY <2>1, <2>2, <2>3, TypeOfParts DEF TypeOK
  <2> QED BY <2>1, <2>3, <2>4 DEF JobChosen
<1>3. CASE Fork
  <2>1. At("main", "fork") /\ UNCHANGED <<cmd, job, chld, report, sigs, mask, pending, shell>>
    BY <1>3 DEF Fork, mainVars
  <2>2. PICK c \in Pids \cup {-1} : stack' = WithTop([Top EXCEPT !.pid = c, !.pc = "addjob"])
    BY <1>3 DEF Fork
  <2>3. proc' \in [Pids -> {"none", "forked", "running", "stopped", "exited", "killed", "reaped"}]
    BY <1>3 DEF Fork, Become, TypeOK
  <2> DEFINE f == [Top EXCEPT !.pid = c, !.pc = "addjob"]
  <2>4. Len(stack) = 1 /\ Top = stack[1] /\ stack[1].pc = "fork"
    BY <2>1, TopFacts DEF At
  <2>5. f \in Frame /\ f.pc = "addjob" /\ f.fn = Top.fn
    BY TopFacts DEF Frame, PCs
  <2>6. FrameOK(f, Len(stack))
    BY <2>4, <2>5, TopFacts DEF FrameOK, MainPCs
  <2> HIDE DEF f
  <2>7. /\ stack' \in Seq(Frame) /\ Len(stack') = 1 /\ StackOK' /\ stack'[1] = f
    BY <2>2, <2>4, <2>5, <2>6, TopReplaced DEF f
  <2>8. TypeOK'
    BY <2>1, <2>3, <2>7, TypeOfParts DEF TypeOK
  <2> QED BY <2>1, <2>4, <2>5, <2>7, <2>8 DEF JobChosen
<1>4. CASE Unblock
  <2> DEFINE p == IF cmd = "run" THEN "waitfg" ELSE "prompt"
  <2>1. /\ At("main", "unblock") /\ Goto(p)
        /\ UNCHANGED <<cmd, job, chld, pending, shell, proc, report, sigs>>
    BY <1>4 DEF Unblock, mainVars, kernelVars
  <2>2. mask' \subseteq Signals /\ p \in MainPCs
    BY <1>4 DEF Unblock, TypeOK, MainPCs
  <2> HIDE DEF p
  <2>3. /\ stack[1].pc = "unblock" /\ stack' \in Seq(Frame) /\ Len(stack') = 1 /\ StackOK'
        /\ stack'[1].pc = p
    BY <2>1, <2>2, MainMoves
  <2>4. TypeOK'
    BY <2>1, <2>2, <2>3, TypeOfParts DEF TypeOK
  <2> QED BY <2>1, <2>3, <2>4 DEF JobChosen, p
<1>5. CASE Lookup
  <2>1. /\ At("main", "lookup")
        /\ UNCHANGED <<cmd, chld, mask, pending, shell, proc, report, sigs>>
    BY <1>5 DEF Lookup, kernelVars
  <2>2. \/ Goto("cont") /\ job' \in Table!Slots
        \/ Goto("prompt") /\ job' = job
    <3>1. ASSUME NEW i \in {Table!getjobpid(c) : c \in Pids}
                        \cup {Table!getjobjid(jobs[k].jid) : k \in Table!Slots}, i # 0
          PROVE  i \in Table!Slots
      <4>1. CASE \E c \in Pids : i = Table!getjobpid(c)
        BY <3>1, <4>1, JobFound
      <4>2. ASSUME NEW k \in Table!Slots, i = Table!getjobjid(jobs[k].jid) PROVE i \in Table!Slots
        <5> DEFINE S == {l \in Table!Slots : jobs[l].jid = jobs[k].jid}
        <5>1. i = Table!FirstSlot(S)
          BY <3>1, <4>2 DEF Table!getjobjid
        <5>2. S # {}
          BY <4>2
        <5> QED BY <5>1, <5>2, FirstSlotIsFirst
      <4> QED BY <3>1, <4>1, <4>2
    <3> QED BY <1>5, <3>1 DEF Lookup
  <2>3. CASE Goto("cont") /\ job' \in Table!Slots
    <3>1. /\ stack[1].pc = "lookup" /\ stack' \in Seq(Frame) /\ Len(stack') = 1 /\ StackOK'
          /\ stack'[1].pc = "cont"
      BY <2>1, <2>3, MainMoves DEF MainPCs
    <3>2. TypeOK'
      BY <2>1, <2>3, <3>1, TypeOfParts DEF TypeOK
    <3> QED BY <2>1, <2>3, <3>1, <3>2 DEF JobChosen, Table!Slots
  <2>4. CASE Goto("prompt") /\ job' = job
    <3>1. /\ stack[1].pc = "lookup" /\ stack' \in Seq(Frame) /\ Len(stack') = 1 /\ StackOK'
          /\ stack'[1].pc = "prompt"
      BY <2>1, <2>4, MainMoves DEF MainPCs
    <3>2. TypeOK'
      BY <2>1, <2>4, <3>1, TypeOfParts DEF TypeOK
    <3> QED BY <2>1, <3>1, <3>2 DEF JobChosen
  <2> QED BY <2>2, <2>3, <2>4
<1>6. CASE Cont
  <2>1. /\ At("main", "cont") /\ Goto("setstate")
        /\ UNCHANGED <<cmd, job, chld, mask, shell>>
    BY <1>6 DEF Cont, mainVars
  <2>2. /\ stack[1].pc = "cont" /\ stack' \in Seq(Frame) /\ Len(stack') = 1 /\ StackOK'
        /\ stack'[1].pc = "setstate"
    BY <2>1, MainMoves DEF MainPCs
  <2>3. /\ pending' \subseteq Signals
        /\ proc' \in [Pids -> {"none", "forked", "running", "stopped", "exited", "killed", "reaped"}]
        /\ report' \in [Pids -> {"none", "stopped", "continued"}]
        /\ sigs' \in [Pids -> SUBSET {"INT", "TSTP"}]
    <3>0. /\ proc \in [Pids -> {"none", "forked", "running", "stopped", "exited", "killed", "reaped"}]
          /\ report \in [Pids -> {"none", "stopped", "continued"}]
          /\ sigs \in [Pids -> SUBSET {"INT", "TSTP"}] /\ pending \subseteq Signals
      BY DEF TypeOK
    <3>1. CASE Continue(jobs[job].pid)
      <4> DEFINE c == jobs[job].pid
      <4>1. sigs' = [sigs EXCEPT ![c] = @ \ {"TSTP"}]
        BY <3>1 DEF Continue
      <4>2. CASE proc[c] = "stopped"
        <5>1. /\ proc' = [proc EXCEPT ![c] = "running"] /\ pending' = pending \cup {"CHLD"}
              /\ report' = [report EXCEPT ![c] = "continued"]
          BY <3>1, <4>2 DEF Continue, Become, NoteChild
        <5> HIDE DEF c
        <5> QED BY <3>0, <4>1, <5>1 DEF Signals
      <4>3. CASE proc[c] # "stopped"
        <5>1. UNCHANGED <<proc, pending, report>>
          BY <3>1, <4>3 DEF Continue
        <5> HIDE DEF c
        <5> QED BY <3>0, <4>1, <5>1
      <4> QED BY <4>2, <4>3
    <3>2. CASE UNCHANGED <<kernelVars, pending>>
      BY <3>0, <3>2 DEF kernelVars
    <3> QED BY <1>6, <3>1, <3>2 DEF Cont
  <2>4. TypeOK'
    BY <2>1, <2>2, <2>3, TypeOfParts DEF TypeOK
  <2> QED BY <2>1, <2>2, <2>4 DEF JobChosen
<1>7. ASSUME NEW c \in Commands, Read(c)
      PROVE  /\ Typed' /\ Len(stack') = 1
             /\ stack[1].pc = "prompt" /\ stack'[1].pc \in {"prompt", "block", "lookup"}
  <2>1. /\ At("main", "prompt") /\ cmd' = c
        /\ UNCHANGED <<job, chld, mask, pending, proc, report, sigs>>
    BY <1>7 DEF Read, kernelVars
  <2>2. stack[1].pc = "prompt"
    BY <2>1, TopFacts DEF At
  <2>3. \/ c \in {"run", "run_bg"} /\ Goto("block") /\ shell' = shell
        \/ c \in {"fg", "bg"} /\ Goto("lookup") /\ shell' = shell
        \/ stack' = stack /\ shell' \in {"quit", "crash"}
    <3>1. c \in {"run", "run_bg", "fg", "bg", "blank", "quit"}
      BY TshAssumption
    <3> QED BY <1>7, <3>1 DEF Read
  <2>4. CASE Goto("block") /\ shell' = shell
    <3>1. stack' \in Seq(Frame) /\ Len(stack') = 1 /\ StackOK' /\ stack'[1].pc = "block"
      BY <2>1, <2>4, MainMoves DEF MainPCs
    <3>2. TypeOK'
      BY <2>1, <2>4, <3>1, TypeOfParts DEF TypeOK
    <3> QED BY <2>2, <3>1, <3>2 DEF JobChosen
  <2>5. CASE Goto("lookup") /\ shell' = shell
    <3>1. stack' \in Seq(Frame) /\ Len(stack') = 1 /\ StackOK' /\ stack'[1].pc = "lookup"
      BY <2>1, <2>5, MainMoves DEF MainPCs
    <3>2. TypeOK'
      BY <2>1, <2>5, <3>1, TypeOfParts DEF TypeOK
    <3> QED BY <2>2, <3>1, <3>2 DEF JobChosen
  <2>6. CASE stack' = stack /\ shell' \in {"quit", "crash"}
    <3>1. TypeOK'
      BY <2>1, <2>6, TypeOfParts DEF TypeOK
    <3> QED BY <1>8, <2>2, <2>6, <3>1 DEF JobChosen, StackOK
  <2> QED BY <2>3, <2>4, <2>5, <2>6
<1> QED BY <1>2, <1>3, <1>4, <1>5, <1>6, <1>7, <1>8

\* addjob and setstate.
JobMarked(slot, st) == slot \in Table!Slots /\ st \in Table!States
                       /\ jobs' = [jobs EXCEPT ![slot].state = st] /\ nextjid' = nextjid

\* What main's call of addjob does.
LEMMA AddStep ==
  ASSUME Typed, AddJob
  PROVE  /\ Typed' /\ cmd' = cmd /\ stack[1].pc = "addjob" /\ stack'[1].pc = "unblock"
         /\ \/ UNCHANGED jobVars /\ (stack[1].pid \notin Pids \/ \A i \in Table!Slots : jobs[i].pid # 0)
            \/ /\ stack[1].pid \in Pids
               /\ \E slot \in Table!Slots : Added(stack[1].pid, IF cmd = "run" THEN "FG" ELSE "BG", slot)
<1> USE DEF Typed
<1> DEFINE st == IF cmd = "run" THEN "FG" ELSE "BG"
<1>1. /\ At("main", "addjob") /\ Goto("unblock") /\ Table!addjob(Top.pid, st)
      /\ UNCHANGED <<cmd, job, chld, proc, report, sigs, mask, pending, shell, keys>>
  BY DEF AddJob, mainVars, kernelVars
<1>2. /\ stack[1].pc = "addjob" /\ stack' \in Seq(Frame) /\ Len(stack') = 1 /\ StackOK'
      /\ stack'[1].pc = "unblock"
  BY <1>1, MainMoves DEF MainPCs
<1>3. Top = stack[1] /\ Top.pid \in Pids \cup {0, -1}
  BY <1>1, TopFacts DEF At, Frame
<1>4. st \in Table!States
  BY DEF Table!States
<1> HIDE DEF st
<1>5. \/ UNCHANGED jobVars /\ (Top.pid \notin Pids \/ \A i \in Table!Slots : jobs[i].pid # 0)
      \/ Top.pid \in Pids /\ \E slot \in Table!Slots : Added(Top.pid, st, slot)
  BY <1>1, <1>3, <1>4, AddCases
<1>6. Table!TypeOK'
  <2>1. jobs \in [Table!Slots -> Table!Job] /\ nextjid \in Nat \ {0}
    BY DEF TypeOK, Table!TypeOK
  <2>2. CASE UNCHANGED jobVars
    BY <2>1, <2>2 DEF jobVars, Table!TypeOK
  <2>3. ASSUME Top.pid \in Pids, NEW slot \in Table!Slots, Added(Top.pid, st, slot) PROVE Table!TypeOK'
    BY <1>4, <2>1, <2>3 DEF Added, Table!TypeOK, Table!Job
  <2> QED BY <1>5, <2>2, <2>3
<1>7. TypeOK'
  BY <1>1, <1>2, <1>6, TypeOfParts DEF TypeOK
<1>8. JobChosen'
  BY <1>2 DEF JobChosen
<1> QED BY <1>1, <1>2, <1>3, <1>5, <1>7, <1>8 DEF st

\* What main's fg or bg does to the job's state.
LEMMA SetStep ==
  ASSUME Typed, SetState
  PROVE  /\ Typed' /\ stack[1].pc = "setstate"
         /\ \/ stack'[1].pc = "waitfg" /\ JobMarked(1, "FG")
            \/ stack'[1].pc = "prompt" /\ JobMarked(job, "BG")
<1> USE DEF Typed
<1>1. /\ At("main", "setstate")
      /\ UNCHANGED <<cmd, job, chld, proc, report, sigs, mask, pending, shell, keys>>
      /\ \/ Table!setstate(1, "FG") /\ Goto("waitfg")
         \/ Table!setstate(job, "BG") /\ Goto("prompt")
  BY DEF SetState, mainVars, kernelVars
<1>2. Top = stack[1] /\ stack[1].pc = "setstate" /\ job \in Table!Slots
  BY <1>1, TopFacts DEF At, JobChosen
<1>3. ASSUME NEW slot, NEW st, JobMarked(slot, st), NEW to \in {"waitfg", "prompt"}, Goto(to)
      PROVE  Typed' /\ stack'[1].pc = to
  <2>1. to \in MainPCs
    BY DEF MainPCs
  <2>2. stack' \in Seq(Frame) /\ Len(stack') = 1 /\ StackOK' /\ stack'[1].pc = to
    BY <1>1, <1>3, <2>1, MainMoves
  <2>3. Table!TypeOK'
    BY <1>3 DEF TypeOK, Table!TypeOK, Table!Job, JobMarked
  <2>4. TypeOK'
    BY <1>1, <2>2, <2>3, TypeOfParts DEF TypeOK
  <2>5. JobChosen'
    BY <2>2 DEF JobChosen
  <2> QED BY <2>2, <2>4, <2>5
<1>4. CASE Table!setstate(1, "FG") /\ Goto("waitfg")
  <2>1. JobMarked(1, "FG")
    BY <1>4, SlotsAreNat DEF JobMarked, Table!setstate, Table!States
  <2> QED BY <1>2, <1>3, <1>4, <2>1
<1>5. CASE Table!setstate(job, "BG") /\ Goto("prompt")
  <2>1. JobMarked(job, "BG")
    BY <1>2, <1>5 DEF JobMarked, Table!setstate, Table!States
  <2> QED BY <1>2, <1>3, <1>5, <2>1
<1> QED BY <1>1, <1>4, <1>5

-----------------------------------------------------------------------------
(* Type correctness *)

\* The types of the initial states.
LEMMA InitTyped == Init => Typed
<1> SUFFICES ASSUME Init PROVE Typed
  OBVIOUS
<1> DEFINE f == [fn |-> "main", pc |-> "prompt", ret |-> {}, saved |-> {}, pid |-> 0]
<1>1. f \in Frame /\ f.pc = "prompt" /\ f.fn = "main"
  BY DEF Frame, PCs
<1>2. stack = <<f>>
  BY DEF Init
<1> HIDE DEF f
<1>3. stack \in Seq(Frame) /\ Len(stack) = 1 /\ stack[1] = f
  BY <1>1, <1>2
<1>4. Table!TypeOK
  BY DEF Init, Table!initjobs, Table!TypeOK, Table!Job, Table!NoJob, Table!States
<1>5. TypeOK
  BY <1>3, <1>4, TshAssumption DEF Init, TypeOK
<1>6. StackOK /\ JobChosen
  BY <1>1, <1>3 DEF StackOK, JobChosen, FrameOK, MainPCs
<1> QED BY <1>5, <1>6 DEF Typed

\* The steps, by what they do to main and to the job list.
LEMMA StepKinds ==
  ASSUME [Next]_vars
  PROVE  \/ waitfg \/ Suspend \/ LeaveHandler \/ Return
            \/ (\E s \in Signals : EnterHandler(s) \/ ReadFg(s))
         \/ ChildStep \/ Key \/ ReapNone \/ (\E s \in Signals : Deliver(s) \/ KillFg(s))
         \/ Reap
         \/ Block \/ Fork \/ Unblock \/ Lookup \/ Cont \/ (\E c \in Commands : Read(c))
         \/ AddJob \/ SetState
         \/ UNCHANGED vars
  BY DEF Next, Run

\* The types are inductive.
LEMMA TypedStep == Typed /\ [Next]_vars => Typed'
<1> SUFFICES ASSUME Typed, [Next]_vars PROVE Typed'
  OBVIOUS
<1>1. CASE UNCHANGED vars
  <2>1. UNCHANGED <<jobs, nextjid, stack, mask, pending, shell, cmd, job, chld, proc, report, sigs, keys>>
    BY <1>1 DEF vars
  <2> QED BY <2>1 DEF Typed, TypeOK, Table!TypeOK, StackOK, JobChosen
<1>2. CASE Reap
  BY <1>2, ReapStep
<1>3. CASE AddJob
  BY <1>3, AddStep
<1>4. CASE SetState
  BY <1>4, SetStep
<1> QED BY <1>1, <1>2, <1>3, <1>4, StepKinds, FrameStep, OutsideStep, MainStep

\* The types, in every reachable state.
LEMMA AlwaysTyped == Spec => []Typed
  BY InitTyped, TypedStep, PTL DEF Spec

\* The list, the stack of frames, the masks and the kernel's tables have their
\* types: waitpid's answers, kill and the handlers' own masks included.
THEOREM TypeCorrect == Spec => []TypeOK
<1>1. Typed => TypeOK
  BY DEF Typed
<1> QED BY <1>1, AlwaysTyped, PTL

-----------------------------------------------------------------------------
(* At most one foreground job *)

FgOK == OneFg /\ EmptyFgIsFirst /\ NoForegroundWhenQuiet

\* The list is as it was, and main has read no command.
LEMMA FgStays ==
  ASSUME FgOK, jobs' = jobs, Quiet' => Quiet
  PROVE  FgOK'
  BY DEF FgOK, OneFg, EmptyFgIsFirst, NoForegroundWhenQuiet, Fg

\* main is between commands only if it was.
LEMMA StaysQuiet ==
  ASSUME MainStays PROVE Quiet' => Quiet
  BY DEF MainStays, Quiet

\* A slot is emptied, or its job stops or goes to the background.
LEMMA FgLess ==
  ASSUME Typed, FgOK, Quiet' => Quiet, NEW slot \in Table!Slots,
         \/ jobs' = [jobs EXCEPT ![slot] = Table!NoJob]
         \/ \E st \in {"ST", "BG"} : jobs' = [jobs EXCEPT ![slot].state = st]
  PROVE  FgOK'
<1>1. jobs \in [Table!Slots -> Table!Job]
  BY DEF Typed, TypeOK, Table!TypeOK
<1>2. \A i \in Table!Slots : Fg(i)' => Fg(i) /\ jobs'[i] = jobs[i]
  <2>1. CASE jobs' = [jobs EXCEPT ![slot] = Table!NoJob]
    BY <1>1, <2>1 DEF Fg, Table!NoJob
  <2>2. ASSUME NEW st \in {"ST", "BG"}, jobs' = [jobs EXCEPT ![slot].state = st]
        PROVE  \A i \in Table!Slots : Fg(i)' => Fg(i) /\ jobs'[i] = jobs[i]
    <3>1. jobs'[slot].state = st /\ \A i \in Table!Slots \ {slot} : jobs'[i] = jobs[i]
      BY <1>1, <2>2 DEF Table!Job
    <3> QED BY <3>1 DEF Fg
  <2> QED BY <2>1, <2>2
<1> QED BY <1>2 DEF FgOK, OneFg, EmptyFgIsFirst, NoForegroundWhenQuiet

\* The foreground, when main adds a job.
LEMMA FgAdded ==
  ASSUME Typed, FgOK, AddJob
  PROVE  FgOK'
<1>0. jobs \in [Table!Slots -> Table!Job]
  BY DEF Typed, TypeOK, Table!TypeOK
<1>1. /\ cmd' = cmd /\ stack[1].pc = "addjob" /\ stack'[1].pc = "unblock"
      /\ \/ UNCHANGED jobVars
         \/ /\ stack[1].pid \in Pids
            /\ \E slot \in Table!Slots : Added(stack[1].pid, IF cmd = "run" THEN "FG" ELSE "BG", slot)
  BY AddStep
<1>2. Quiet /\ (Quiet' => cmd # "run")
  BY <1>1 DEF Quiet
<1>3. \A i \in Table!Slots : Fg(i) => jobs[i].pid = 0 /\ i = 1
  BY <1>2 DEF FgOK, NoForegroundWhenQuiet, EmptyFgIsFirst
<1>4. CASE UNCHANGED jobVars
  BY <1>2, <1>4, FgStays DEF jobVars
<1>5. ASSUME stack[1].pid \in Pids, NEW slot \in Table!Slots,
             Added(stack[1].pid, IF cmd = "run" THEN "FG" ELSE "BG", slot)
      PROVE  FgOK'
  <2>1. /\ \A i \in Table!Slots \ {slot} : jobs'[i] = jobs[i]
        /\ jobs'[slot].state = IF cmd = "run" THEN "FG" ELSE "BG"
    BY <1>0, <1>5 DEF Added
  \* A slot that is marked without a process is the first: it is filled now.
  <2>2. \A i \in Table!Slots \ {slot} : Fg(i) => slot = 1
    BY <1>3, <1>5, SlotsAreNat DEF Added
  <2>3. \A i \in Table!Slots \ {slot} : ~ Fg(i)'
    BY <1>3, <2>1, <2>2 DEF Fg
  <2>4. Fg(slot)' => cmd = "run" /\ jobs'[slot].pid # 0
    <3>1. jobs'[slot].pid = stack[1].pid
      BY <1>0, <1>5 DEF Added
    <3>2. stack[1].pid # 0
      BY <1>5, TshAssumption
    <3> QED BY <2>1, <3>1, <3>2 DEF Fg
  <2> QED BY <1>2, <2>3, <2>4 DEF FgOK, OneFg, EmptyFgIsFirst, NoForegroundWhenQuiet
<1> QED BY <1>1, <1>4, <1>5

\* The foreground, when main sets a job's state.
LEMMA FgSet ==
  ASSUME Typed, FgOK, SetState
  PROVE  FgOK'
<1>0. jobs \in [Table!Slots -> Table!Job]
  BY DEF Typed, TypeOK, Table!TypeOK
<1>1. /\ stack[1].pc = "setstate"
      /\ \/ stack'[1].pc = "waitfg" /\ JobMarked(1, "FG")
         \/ stack'[1].pc = "prompt" /\ JobMarked(job, "BG")
  BY SetStep
<1>2. Quiet
  BY <1>1 DEF Quiet
<1>3. CASE JobMarked(job, "BG")
  BY <1>2, <1>3, FgLess DEF JobMarked
<1>4. CASE stack'[1].pc = "waitfg" /\ JobMarked(1, "FG")
  <2>1. \A i \in Table!Slots : Fg(i) => i = 1
    BY <1>2 DEF FgOK, NoForegroundWhenQuiet, EmptyFgIsFirst
  <2>2. \A i \in Table!Slots : Fg(i)' => i = 1
    BY <1>0, <1>4, <2>1 DEF JobMarked, Fg
  <2>3. ~ Quiet'
    BY <1>4 DEF Quiet
  <2> QED BY <2>2, <2>3 DEF FgOK, OneFg, EmptyFgIsFirst, NoForegroundWhenQuiet
<1> QED BY <1>1, <1>3, <1>4

\* The invariant of OneForeground is inductive.
LEMMA FgStep == Typed /\ FgOK /\ [Next]_vars => FgOK'
<1> SUFFICES ASSUME Typed, FgOK, [Next]_vars PROVE FgOK'
  OBVIOUS
<1>1. CASE waitfg \/ Suspend \/ LeaveHandler \/ Return
           \/ (\E s \in Signals : EnterHandler(s) \/ ReadFg(s))
  <2>1. /\ UNCHANGED <<jobVars, cmd>>
        /\ MainStays \/ (stack[1].pc = "waitfg" /\ stack'[1].pc = "prompt" /\ ~ (Table!fgpid > 0))
    BY <1>1, FrameStep
  <2>2. CASE MainStays
    BY <2>1, <2>2, FgStays, StaysQuiet DEF jobVars
  <2>3. CASE ~ (Table!fgpid > 0)
    <3>1. \A i \in Table!Slots : Fg(i) => jobs[i].pid = 0
      BY <2>3, FgPid DEF Typed, FgOK
    <3> QED BY <2>1, <3>1 DEF FgOK, OneFg, EmptyFgIsFirst, NoForegroundWhenQuiet, Fg, jobVars
  <2> QED BY <2>1, <2>2, <2>3
<1>2. CASE ChildStep \/ Key \/ ReapNone \/ \E s \in Signals : Deliver(s) \/ KillFg(s)
  <2>1. UNCHANGED jobVars /\ MainStays
    BY <1>2, OutsideStep
  <2> QED BY <2>1, FgStays, StaysQuiet DEF jobVars
<1>3. CASE Reap
  <2>1. /\ MainStays
        /\ \/ UNCHANGED jobVars
           \/ \E slot \in Table!Slots : JobStopped(slot) \/ \E c \in Pids : Deleted(c, slot)
    BY <1>3, ReapStep
  <2>2. CASE UNCHANGED jobVars
    BY <2>1, <2>2, FgStays, StaysQuiet DEF jobVars
  <2>3. CASE \E slot \in Table!Slots : JobStopped(slot) \/ \E c \in Pids : Deleted(c, slot)
    BY <2>1, <2>3, FgLess, StaysQuiet DEF JobStopped, Deleted
  <2> QED BY <2>1, <2>2, <2>3
<1>4. CASE Block \/ Fork \/ Unblock \/ Lookup \/ Cont \/ \E c \in Commands : Read(c)
  <2>1. /\ UNCHANGED jobVars
        /\ \/ stack[1].pc = "prompt"
           \/ stack[1].pc \in {"block", "fork", "lookup", "cont"}
           \/ stack[1].pc = "unblock" /\ cmd' = cmd
              /\ stack'[1].pc = IF cmd = "run" THEN "waitfg" ELSE "prompt"
    BY <1>4, MainStep
  <2>2. Quiet' => Quiet
    BY <2>1 DEF Quiet
  <2> QED BY <2>1, <2>2, FgStays DEF jobVars
<1>5. CASE AddJob
  BY <1>5, FgAdded
<1>6. CASE SetState
  BY <1>6, FgSet
<1>7. CASE UNCHANGED vars
  BY <1>7, FgStays DEF vars, Quiet
<1> QED BY <1>1, <1>2, <1>3, <1>4, <1>5, <1>6, <1>7, StepKinds

\* It holds in the beginning.
LEMMA InitFg == Init => FgOK
  BY DEF Init, Table!initjobs, Table!NoJob, FgOK, OneFg, EmptyFgIsFirst,
         NoForegroundWhenQuiet, Fg

\* A set in which any two elements are the same one has at most one element.
LEMMA AtMostOne ==
  ASSUME NEW S, \A i, j \in S : i = j
  PROVE  Cardinality(S) =< 1
<1>1. CASE S = {}
  BY <1>1, FS_EmptySet
<1>2. CASE S # {}
  <2>1. PICK x \in S : S = {x}
    BY <1>2
  <2> QED BY <2>1, FS_Singleton
<1> QED BY <1>1, <1>2

\* At most one job is in the foreground, whatever is typed, signalled and
\* reaped in between: main starts or resumes a job only when the last one in
\* the foreground has stopped or gone, and `fg', which marks the first slot
\* whatever job it resumes, marks it only then.
THEOREM ForegroundIsOne == Spec => []OneForeground
<1>1. FgOK => OneForeground
  <2> SUFFICES ASSUME FgOK PROVE OneForeground
    OBVIOUS
  <2> DEFINE S == {i \in Table!Slots : jobs[i].state = "FG"}
  <2>1. \A i, j \in S : i = j
    BY DEF FgOK, OneFg, Fg
  <2> HIDE DEF S
  <2>2. Cardinality(S) =< 1
    BY <2>1, AtMostOne
  <2> QED BY <2>2 DEF S, OneForeground
<1> QED BY <1>1, InitFg, FgStep, AlwaysTyped, PTL DEF Spec

-----------------------------------------------------------------------------
(***************************************************************************)
(* The list and the children                                               *)
(*                                                                         *)
(* As long as no key is typed, the signals the shell gets are SIGCHLD, and *)
(* the masks keep sigchld_handler away from main between fork and addjob.  *)
(* With keys it is not so: sigint_handler and sigtstp_handler replace the  *)
(* mask, and unblock SIGCHLD wherever they interrupt.                      *)
(***************************************************************************)

Blocked == {"fork", "addjob", "unblock"}

Masked ==
  /\ pending \subseteq {"CHLD"} /\ Len(stack) =< 2
  /\ Len(stack) = 2 => /\ stack[2].fn = "CHLD" /\ "CHLD" \in mask
                       /\ stack[2].pc \in {"body", "leave"} => "CHLD" \in stack[2].saved
  /\ stack[1].pc \in Blocked => Len(stack) = 1 /\ "CHLD" \in mask

Child(c) == proc[c] \notin {"none", "reaped"}
Listed(c) == \E i \in Table!Slots : jobs[i].pid = c
Adding == stack[1].pc = "addjob" /\ stack[1].pid \in Pids

\* The list holds children only, each once, and not the one that main adds.
ListedLive == \A i \in Table!Slots : jobs[i].pid # 0 => Child(jobs[i].pid)
ListedOnce == \A i, j \in Table!Slots : jobs[i].pid = jobs[j].pid /\ jobs[i].pid # 0 => i = j
AddedNew   == Adding => Child(stack[1].pid) /\ ~ Listed(stack[1].pid)

\* It holds all of them, and a stop is reported of a stopped child.
AllListed  == \A c \in Pids : Child(c) => Listed(c) \/ Unlisted(c)
StopsRight == \A c \in Pids : report[c] = "stopped" => proc[c] = "stopped"

ListRight == ListedLive /\ ListedOnce /\ AddedNew /\ AllListed /\ StopsRight

\* A process that is added finds a free slot.
Room == Adding => \E i \in Table!Slots : jobs[i].pid = 0

\* Which frame runs.
LEMMA WhoRuns ==
  ASSUME Typed, Masked
  PROVE  \/ Len(stack) = 1 /\ Top = stack[1] /\ Top.fn = "main" /\ Top.pc \in MainPCs
         \/ /\ Len(stack) = 2 /\ Top = stack[2] /\ Top.fn = "CHLD" /\ Top.pc \in ChldPCs
            /\ stack[1].pc \notin Blocked /\ "CHLD" \in mask
<1>1. Len(stack) = 1 \/ Len(stack) = 2
  BY TopFacts DEF Typed, Masked
<1> QED BY <1>1, TopFacts DEF Typed, Masked, FrameOK

\* main is where it was with respect to addjob.
AddingSame == \/ stack'[1] = stack[1]
              \/ stack[1].pc # "addjob" /\ stack'[1].pc # "addjob"

\* The steps of main keep the handler away where it must be.
LEMMA MainMasked ==
  ASSUME Typed, Masked, Block \/ Fork \/ Unblock \/ Lookup \/ Cont \/ AddJob \/ SetState
                        \/ \E c \in Commands : Read(c)
  PROVE  Masked' /\ (Fork \/ AddJob \/ AddingSame)
<1>1. CASE AddJob
  <2>1. stack[1].pc = "addjob" /\ stack'[1].pc = "unblock" /\ Len(stack') = 1
    BY <1>1, AddStep, MainMoves DEF AddJob, MainPCs
  <2> QED BY <1>1, <2>1 DEF AddJob, Masked, Blocked
<1>2. CASE SetState
  <2>1. stack[1].pc = "setstate" /\ stack'[1].pc \in {"waitfg", "prompt"}
    BY <1>2, SetStep
  <2>2. Len(stack') = 1
    BY <1>2, MainMoves DEF SetState, MainPCs
  <2> QED BY <1>2, <2>1, <2>2 DEF SetState, Masked, Blocked, AddingSame
<1>3. CASE Block \/ Fork \/ Unblock \/ Lookup \/ Cont \/ \E c \in Commands : Read(c)
  <2>1. /\ Len(stack) = 1 /\ Len(stack') = 1
        /\ \/ stack[1].pc = "prompt" /\ stack'[1].pc \in {"prompt", "block", "lookup"}
           \/ stack[1].pc = "block" /\ stack'[1].pc = "fork" /\ cmd' = cmd
           \/ stack[1].pc = "fork" /\ stack'[1].pc = "addjob" /\ cmd' = cmd
           \/ stack[1].pc = "unblock" /\ cmd' = cmd
              /\ stack'[1].pc = IF cmd = "run" THEN "waitfg" ELSE "prompt"
           \/ stack[1].pc = "lookup" /\ stack'[1].pc \in {"cont", "prompt"} /\ cmd' = cmd
           \/ stack[1].pc = "cont" /\ stack'[1].pc = "setstate" /\ cmd' = cmd
    BY <1>3, MainStep
  <2>2. Top = stack[1]
    BY <2>1 DEF Top
  <2>3. pending' \subseteq {"CHLD"}
    BY <1>3 DEF Masked, Block, Fork, Unblock, Lookup, Cont, Read, Continue, NoteChild
  <2>4. stack'[1].pc \in Blocked => "CHLD" \in mask'
    <3>1. CASE Block
      BY <3>1 DEF Block
    <3>2. CASE Fork
      BY <2>2, <3>2 DEF Fork, At, Masked, Blocked
    <3>3. CASE Unblock \/ Lookup \/ Cont \/ \E c \in Commands : Read(c)
      <4>1. stack[1].pc \notin {"block", "fork"}
        BY <2>2, <3>3 DEF Unblock, Lookup, Cont, Read, At
      <4> QED BY <2>1, <4>1 DEF Blocked
    <3> QED BY <1>3, <3>1, <3>2, <3>3
  <2>5. Fork \/ AddingSame
    <3>1. Fork \/ stack[1].pc # "fork"
      BY <1>3, <2>2 DEF Block, Unblock, Lookup, Cont, Read, At
    <3> QED BY <2>1, <3>1 DEF AddingSame
  <2> QED BY <2>1, <2>3, <2>4, <2>5 DEF Masked
<1> QED BY <1>1, <1>2, <1>3

\* So do the others, if no key is typed.
LEMMA OtherMasked ==
  ASSUME MaxKeys = 0, Typed, Masked,
         \/ waitfg \/ Suspend \/ LeaveHandler \/ Return
         \/ \E s \in Signals : EnterHandler(s) \/ ReadFg(s) \/ KillFg(s) \/ Deliver(s)
         \/ ChildStep \/ Key \/ ReapNone \/ Reap \/ UNCHANGED vars
  PROVE  Masked' /\ AddingSame /\ ~ Key /\ \A s \in Signals : ~ KillFg(s)
<1> USE DEF Typed
<1>1. ~ Key
  BY DEF Key, TypeOK
<1>2. ASSUME NEW s \in Signals PROVE ~ ReadFg(s) /\ ~ KillFg(s)
  BY WhoRuns DEF ReadFg, KillFg, At, ChldPCs, MainPCs, Signals
<1>3. CASE waitfg \/ Suspend
  <2>1. /\ Len(stack) = 1 /\ Top = stack[1] /\ At("main", Top.pc) /\ UNCHANGED pending
        /\ Top.pc \in {"waitfg", "suspend"}
    BY <1>3, WhoRuns DEF waitfg, Suspend, At, ChldPCs
  <2>2. CASE waitfg
    <3> DEFINE p == IF Table!fgpid > 0 THEN "suspend" ELSE Caller(Top)
    <3>1. p \in {"suspend", "prompt"} /\ p \in MainPCs /\ Goto(p)
      BY <2>1, <2>2 DEF waitfg, Caller, At, MainPCs
    <3> HIDE DEF p
    <3>2. Len(stack') = 1 /\ stack'[1].pc = p
      BY <2>1, <3>1, MainMoves
    <3> QED BY <1>1, <1>2, <2>1, <3>1, <3>2 DEF Masked, Blocked, AddingSame
  <2>3. CASE Suspend
    <3> DEFINE f == [Top EXCEPT !.pc = "suspended", !.saved = mask]
    <3>1. f \in Frame /\ f.pc = "suspended" /\ f.fn = Top.fn
      BY TopFacts DEF Frame, PCs, TypeOK
    <3>2. FrameOK(f, Len(stack))
      BY <2>1, <3>1 DEF FrameOK, MainPCs, At
    <3>3. stack' = WithTop(f)
      BY <2>3 DEF Suspend
    <3> HIDE DEF f
    <3>4. Len(stack') = 1 /\ stack'[1] = f
      BY <2>1, <3>1, <3>2, <3>3, TopReplaced
    <3> QED BY <1>1, <1>2, <2>1, <3>1, <3>4 DEF Masked, Blocked, AddingSame
  <2> QED BY <1>3, <2>2, <2>3
<1>4. ASSUME Top.pc \in {"leave", "return", "enter", "body"}, Top.fn # "main" \/ Top.pc # "enter"
      PROVE  /\ Len(stack) = 2 /\ Top = stack[2] /\ Top.fn = "CHLD" /\ stack[1].pc \notin Blocked
             /\ "CHLD" \in mask
  BY <1>4, WhoRuns DEF MainPCs
<1>5. ASSUME NEW f \in Frame, FrameOK(f, Len(stack)), stack' = WithTop(f), pending' = pending,
             Top.pc \in {"leave", "enter", "body"}, Top.fn = "CHLD", f.fn = "CHLD", "CHLD" \in mask',
             f.pc \in {"body", "leave"} => "CHLD" \in f.saved
      PROVE  Masked' /\ AddingSame
  <2>1. /\ Len(stack) = 2 /\ Top = stack[2] /\ stack[1].pc \notin Blocked
    BY <1>4, <1>5
  <2>2. Len(stack') = 2 /\ stack'[2] = f /\ stack'[1] = stack[1]
    BY <1>5, <2>1, TopReplaced
  <2> QED BY <1>5, <2>1, <2>2 DEF Masked, AddingSame
<1>6. CASE LeaveHandler \/ ReapNone
  <2> DEFINE p == IF LeaveHandler THEN "return" ELSE "leave"
             f == [Top EXCEPT !.pc = p]
  <2>1. /\ Top.pc \in {"leave", "body"} /\ pending' = pending /\ stack' = WithTop(f)
        /\ mask' = IF LeaveHandler THEN Top.saved ELSE mask
    BY <1>6 DEF LeaveHandler, ReapNone, At, Goto
  <2>2. /\ Len(stack) = 2 /\ Top = stack[2] /\ Top.fn = "CHLD" /\ "CHLD" \in mask /\ "CHLD" \in Top.saved
    BY <1>4, <2>1 DEF Masked
  <2>3. /\ f \in Frame /\ f.pc = p /\ f.fn = Top.fn /\ f.saved = Top.saved
    BY TopFacts DEF Frame, PCs
  <2>4. FrameOK(f, Len(stack))
    BY <2>2, <2>3 DEF FrameOK, ChldPCs, Signals
  <2> HIDE DEF f
  <2>5. Masked' /\ AddingSame
    BY <1>5, <2>1, <2>2, <2>3, <2>4
  <2> QED BY <1>1, <1>2, <2>5
<1>7. CASE Return
  <2>1. Len(stack) = 2 /\ stack[1].pc \notin Blocked /\ pending' = pending
    BY <1>4, <1>7 DEF Return
  <2>2. Len(stack') = 1 /\ stack'[1] = stack[1]
    BY <1>7, <2>1, Returned
  <2> QED BY <1>1, <1>2, <2>1, <2>2 DEF Masked, AddingSame
<1>8. ASSUME NEW s \in Signals, EnterHandler(s)
      PROVE  Masked' /\ AddingSame
  <2> DEFINE f == [Top EXCEPT !.pc = "body", !.saved = mask]
  <2>1. Top.pc = "enter" /\ Top.fn = s /\ stack' = WithTop(f) /\ pending' = pending
    BY <1>8 DEF EnterHandler, At
  <2>2. Len(stack) = 2 /\ Top.fn = "CHLD" /\ "CHLD" \in mask
    BY <1>4, <2>1 DEF Signals
  <2>3. "CHLD" \in mask'
    BY <1>8, <2>1, <2>2 DEF EnterHandler, Signals
  <2>4. /\ f \in Frame /\ f.pc = "body" /\ f.fn = Top.fn /\ f.saved = mask
    BY TopFacts DEF Frame, PCs, TypeOK
  <2>5. FrameOK(f, Len(stack))
    BY <2>2, <2>4 DEF FrameOK, ChldPCs, Signals
  <2> HIDE DEF f
  <2> QED BY <1>5, <2>1, <2>2, <2>3, <2>4, <2>5
<1>9. ASSUME NEW s \in Signals, Deliver(s)
      PROVE  Masked' /\ AddingSame
  <2>1. s = "CHLD" /\ "CHLD" \notin mask /\ pending' \subseteq {"CHLD"} /\ "CHLD" \in mask'
    BY <1>9 DEF Deliver, Masked
  <2>2. Len(stack) = 1 /\ Top = stack[1] /\ stack[1].pc \notin Blocked
    BY <2>1, WhoRuns DEF Masked
  <2>3. /\ Len(stack') = 2 /\ stack'[2].fn = "CHLD" /\ stack'[2].pc = "enter"
        /\ stack'[1] = [stack[1] EXCEPT !.pc = "waitfg"] \/ stack'[1] = stack[1]
    BY <1>9, <2>1, <2>2, Delivered
  <2>4. stack'[1].pc = "waitfg" \/ stack'[1] = stack[1]
    <3>1. [stack[1] EXCEPT !.pc = "waitfg"].pc = "waitfg"
      BY TopFacts, TopAtPc DEF PCs
    <3> QED BY <2>3, <3>1
  <2> QED BY <2>1, <2>2, <2>3, <2>4 DEF Masked, Blocked, AddingSame
<1>10. CASE ChildStep
  BY <1>1, <1>2, <1>10 DEF ChildStep, Setpgid, Exit, SelfStop, TakeTstp, TakeInt, Stop, NoteChild,
        Masked, AddingSame
<1>11. CASE Reap \/ UNCHANGED vars
  BY <1>1, <1>2, <1>11 DEF Reap, vars, Masked, AddingSame
<1> QED BY <1>1, <1>2, <1>3, <1>6, <1>7, <1>8, <1>9, <1>10, <1>11

\* The list, the children and main's part in them are as they were.
LEMMA ListStays ==
  ASSUME ListRight, AddingSame, UNCHANGED <<jobs, proc, report>>
  PROVE  ListRight'
<1>1. (Adding' <=> Adding) /\ (Adding => stack'[1].pid = stack[1].pid)
      /\ \A c : Unlisted(c)' <=> Unlisted(c)
  BY DEF AddingSame, Adding, Unlisted
<1> QED BY <1>1 DEF ListRight, ListedLive, ListedOnce, AddedNew, AllListed, StopsRight, Child, Listed

\* The children are the same ones, in other states, and so are the listed.
LEMMA ListSame ==
  ASSUME ListRight, AddingSame,
         \A c \in Pids : Child(c)' <=> Child(c),
         \A i \in Table!Slots : jobs'[i].pid = jobs[i].pid /\ jobs[i].pid \in Pids \cup {0},
         \A c \in Pids : report'[c] = "stopped" => proc'[c] = "stopped"
  PROVE  ListRight'
<1>1. (Adding' <=> Adding) /\ (Adding => stack'[1].pid = stack[1].pid)
      /\ \A c : Unlisted(c)' <=> Unlisted(c)
  BY DEF AddingSame, Adding, Unlisted
<1>2. \A c : Listed(c)' <=> Listed(c)
  BY DEF Listed
<1>3. ListedLive'
  BY DEF ListRight, ListedLive, Child
<1>4. ListedOnce'
  BY DEF ListRight, ListedOnce
<1>5. AddedNew'
  BY <1>1, <1>2 DEF ListRight, AddedNew, Adding, Child, Listed
<1>6. AllListed'
  BY <1>1, <1>2 DEF ListRight, AllListed
<1> QED BY <1>3, <1>4, <1>5, <1>6 DEF ListRight, StopsRight

\* A child changes its state: it remains a child.
LEMMA ChildrenMove ==
  ASSUME Typed, ListRight, AddingSame, ChildStep \/ Cont
  PROVE  ListRight'
<1>0. /\ proc \in [Pids -> {"none", "forked", "running", "stopped", "exited", "killed", "reaped"}]
      /\ report \in [Pids -> {"none", "stopped", "continued"}]
      /\ jobs \in [Table!Slots -> Table!Job] /\ jobs' = jobs
      /\ \A c \in Pids : report[c] = "stopped" => proc[c] = "stopped"
  BY DEF Typed, TypeOK, Table!TypeOK, ListRight, StopsRight, ChildStep, Cont, jobVars
<1>1. ASSUME NEW c \in Pids, NEW p, NEW r,
             proc[c] \in {"forked", "running", "stopped"}, p \in {"running", "stopped", "exited", "killed"},
             proc' = [proc EXCEPT ![c] = p],
             report' = report \/ report' = [report EXCEPT ![c] = r],
             report'[c] = "stopped" => p = "stopped"
      PROVE  /\ \A d \in Pids : Child(d)' <=> Child(d)
             /\ \A d \in Pids : report'[d] = "stopped" => proc'[d] = "stopped"
  <2>1. proc'[c] = p /\ \A d \in Pids \ {c} : proc'[d] = proc[d] /\ report'[d] = report[d]
    BY <1>0, <1>1
  <2> QED BY <1>0, <1>1, <2>1 DEF Child
<1>2. /\ \A d \in Pids : Child(d)' <=> Child(d)
      /\ \A d \in Pids : report'[d] = "stopped" => proc'[d] = "stopped"
  <2>1. CASE ChildStep
    <3> PICK c \in Pids : Setpgid(c) \/ Exit(c) \/ SelfStop(c) \/ TakeTstp(c) \/ TakeInt(c)
      BY <2>1 DEF ChildStep
    <3>1. CASE Setpgid(c)
      BY <1>0, <1>1, <3>1 DEF Setpgid, Become
    <3>2. CASE Exit(c) \/ TakeInt(c)
      BY <1>0, <1>1, <3>2 DEF Exit, TakeInt, Become
    <3>3. CASE SelfStop(c) \/ TakeTstp(c)
      BY <1>0, <1>1, <3>3 DEF SelfStop, TakeTstp, Stop, Become
    <3> QED BY <3>1, <3>2, <3>3
  <2>2. CASE Cont
    <3> DEFINE c == jobs[job].pid
    <3>1. Top = stack[1] /\ stack[1].pc = "cont" /\ job \in Table!Slots
      BY <2>2, TopFacts DEF Cont, At, Typed, JobChosen
    <3>2. c \in Pids \cup {0}
      BY <1>0, <3>1 DEF Table!Job
    <3>3. UNCHANGED <<proc, report>> \/ (c # 0 /\ Continue(c))
      BY <2>2 DEF Cont, kernelVars
    <3> HIDE DEF c
    <3>4. CASE UNCHANGED <<proc, report>>
      BY <1>0, <3>4 DEF Child
    <3>5. CASE c # 0 /\ Continue(c) /\ proc[c] = "stopped"
      BY <1>0, <1>1, <3>2, <3>5 DEF Continue, Become
    <3>6. CASE c # 0 /\ Continue(c) /\ proc[c] # "stopped"
      BY <3>4, <3>6 DEF Continue
    <3> QED BY <3>3, <3>4, <3>5, <3>6
  <2> QED BY <2>1, <2>2
<1>3. \A i \in Table!Slots : jobs'[i].pid = jobs[i].pid /\ jobs[i].pid \in Pids \cup {0}
  BY <1>0 DEF Table!Job
<1> QED BY <1>2, <1>3, ListSame

\* sigchld_handler reaps: what it reports has a job.
LEMMA ReapListed ==
  ASSUME Typed, Masked, ListRight, AddingSame, Reap
  PROVE  ListRight' /\ shell' # "crash"
<1>0. /\ proc \in [Pids -> {"none", "forked", "running", "stopped", "exited", "killed", "reaped"}]
      /\ report \in [Pids -> {"none", "stopped", "continued"}]
      /\ jobs \in [Table!Slots -> Table!Job]
      /\ \A d \in Pids : report[d] = "stopped" => proc[d] = "stopped"
  BY DEF Typed, TypeOK, Table!TypeOK, ListRight, StopsRight
<1>1. PICK c \in Pids : ReapStopped(c) \/ ReapContinued(c) \/ ReapExited(c) \/ ReapKilled(c)
  BY DEF Reap
<1>2. stack' = stack /\ shell = "up" /\ stack[1].pc # "addjob"
  BY WhoRuns DEF Reap, At, Blocked
<1>3. \A i \in Table!Slots : jobs[i].pid \in Pids \cup {0}
  BY <1>0 DEF Table!Job
<1>4. CASE ReapContinued(c)
  <2>1. report' = [report EXCEPT ![c] = "none"] /\ UNCHANGED <<jobs, proc, shell>>
    BY <1>4 DEF ReapContinued, jobVars
  <2>2. \A d \in Pids : report'[d] = "stopped" => proc'[d] = "stopped"
    BY <1>0, <2>1
  <2> QED BY <1>2, <1>3, <2>1, <2>2, ListSame DEF Child
<1>5. CASE ReapStopped(c)
  <2>1. proc[c] = "stopped" /\ report' = [report EXCEPT ![c] = "none"] /\ proc' = proc
    BY <1>0, <1>5 DEF ReapStopped
  <2>2. Listed(c)
    BY <1>2, <2>1 DEF ListRight, AllListed, Child, Unlisted
  <2>3. Table!getjobpid(c) # 0 /\ Table!getjobpid(c) \in Table!Slots
    BY <2>2, JobFound, SlotsAreNat DEF Listed
  <2>4. jobs' = [jobs EXCEPT ![Table!getjobpid(c)].state = "ST"] /\ shell' = shell
    BY <1>5, <2>3 DEF ReapStopped, Table!setstate
  <2>5. \A i \in Table!Slots : jobs'[i].pid = jobs[i].pid
    BY <1>0, <2>3, <2>4 DEF Table!Job
  <2>6. \A d \in Pids : report'[d] = "stopped" => proc'[d] = "stopped"
    BY <1>0, <2>1
  <2> QED BY <1>2, <1>3, <2>1, <2>4, <2>5, <2>6, ListSame DEF Child
<1>6. CASE ReapExited(c) \/ ReapKilled(c)
  <2>1. /\ proc[c] \in {"exited", "killed"} /\ proc' = [proc EXCEPT ![c] = "reaped"] /\ report' = report
        /\ Table!deletejob(c)
    BY <1>6 DEF ReapExited, ReapKilled, Become
  <2>2. Listed(c)
    BY <1>2, <2>1 DEF ListRight, AllListed, Child, Unlisted
  <2>3. Table!getjobpid(c) # 0 /\ \E slot \in Table!Slots : Deleted(c, slot)
    BY <2>1, <2>2, DeleteCases DEF Typed, Listed
  <2>4. PICK slot \in Table!Slots : Deleted(c, slot)
    BY <2>3
  <2>5. shell' # "crash"
    BY <1>2, <1>6, <2>3 DEF ReapExited, ReapKilled
  <2>6. /\ jobs'[slot].pid = 0 /\ jobs[slot].pid = c /\ c # 0
        /\ \A i \in Table!Slots \ {slot} : jobs'[i] = jobs[i]
    BY <1>0, <2>4, TshAssumption DEF Deleted, Table!NoJob
  <2>7. \A i \in Table!Slots \ {slot} : jobs[i].pid # c
    BY <2>6 DEF ListRight, ListedOnce
  <2>8. /\ \A d \in Pids \ {c} : (Child(d)' <=> Child(d)) /\ (Listed(d)' <=> Listed(d))
        /\ ~ Child(c)'
    <3>1. \A d \in Pids \ {c} : proc'[d] = proc[d] /\ proc'[c] = "reaped"
      BY <1>0, <2>1
    <3>2. proc'[c] = "reaped"
      BY <1>0, <2>1
    <3>3. \A d \in Pids \ {c} : Listed(d)' <=> Listed(d)
      BY <2>6, TshAssumption DEF Listed
    <3> QED BY <3>1, <3>2, <3>3 DEF Child
  <2>9. ListedLive'
    BY <1>3, <2>6, <2>7, <2>8 DEF ListRight, ListedLive
  <2>10. ListedOnce'
    BY <2>6 DEF ListRight, ListedOnce
  <2>11. AddedNew'
    BY <1>2 DEF AddedNew, Adding
  <2>12. AllListed'
    BY <1>2, <2>8 DEF ListRight, AllListed, Unlisted
  <2>13. \A d \in Pids : report'[d] = "stopped" => proc'[d] = "stopped"
    BY <1>0, <2>1
  <2> QED BY <2>5, <2>9, <2>10, <2>11, <2>12, <2>13 DEF ListRight, StopsRight
<1> QED BY <1>1, <1>4, <1>5, <1>6

\* fork: a process that was not there, and is not listed yet.
LEMMA ForkListed ==
  ASSUME Typed, ListRight, Fork
  PROVE  ListRight'
<1>0. /\ proc \in [Pids -> {"none", "forked", "running", "stopped", "exited", "killed", "reaped"}]
      /\ jobs \in [Table!Slots -> Table!Job]
      /\ \A d \in Pids : report[d] = "stopped" => proc[d] = "stopped"
  BY DEF Typed, TypeOK, Table!TypeOK, ListRight, StopsRight
<1>1. At("main", "fork") /\ UNCHANGED <<jobs, report>>
  BY DEF Fork, jobVars
<1>2. Len(stack) = 1 /\ Top = stack[1] /\ stack[1].pc = "fork"
  BY <1>1, TopFacts DEF At, Typed
<1>3. ASSUME NEW c \in Pids \cup {-1}, stack' = WithTop([Top EXCEPT !.pid = c, !.pc = "addjob"])
      PROVE  stack'[1].pid = c /\ stack'[1].pc = "addjob"
  <2> DEFINE f == [Top EXCEPT !.pid = c, !.pc = "addjob"]
  <2>1. f \in Frame /\ f.pc = "addjob" /\ f.fn = Top.fn /\ f.pid = c
    BY TopFacts DEF Typed, Frame, PCs
  <2>2. FrameOK(f, Len(stack))
    BY <1>1, <1>2, <2>1 DEF FrameOK, MainPCs, At
  <2> HIDE DEF f
  <2>3. stack'[1] = f
    BY <1>2, <1>3, <2>1, <2>2, TopReplaced DEF Typed, f
  <2> QED BY <2>1, <2>3
<1>4. \A d \in Pids : ~ Unlisted(d)
  BY <1>2 DEF Unlisted
<1>5. CASE stack' = WithTop([Top EXCEPT !.pid = -1, !.pc = "addjob"]) /\ UNCHANGED proc
  <2>1. stack'[1].pid = -1
    BY <1>3, <1>5
  <2>2. ~ Adding'
    BY <2>1, TshAssumption DEF Adding
  <2> QED BY <1>1, <1>4, <1>5, <2>2 DEF ListRight, ListedLive, ListedOnce, AddedNew, AllListed, StopsRight, Child, Listed
<1>6. ASSUME NEW c \in Pids, proc[c] = "none", Become(c, "forked"),
             stack' = WithTop([Top EXCEPT !.pid = c, !.pc = "addjob"])
      PROVE  ListRight'
  <2>1. stack'[1].pid = c /\ stack'[1].pc = "addjob"
    BY <1>3, <1>6
  <2>2. proc'[c] = "forked" /\ \A d \in Pids \ {c} : proc'[d] = proc[d]
    BY <1>0, <1>6 DEF Become
  <2>3. ~ Child(c) /\ Child(c)' /\ \A d \in Pids \ {c} : Child(d)' <=> Child(d)
    BY <1>6, <2>2 DEF Child
  <2>4. ~ Listed(c)
    BY <2>3, TshAssumption DEF ListRight, ListedLive, Listed
  <2>5. \A d : Listed(d)' <=> Listed(d)
    BY <1>1 DEF Listed
  <2>6. ListedLive'
    <3>1. \A i \in Table!Slots : jobs[i].pid \in Pids \cup {0}
      BY <1>0 DEF Table!Job
    <3> QED BY <1>1, <2>3, <3>1 DEF ListRight, ListedLive
  <2>7. AddedNew'
    BY <2>1, <2>3, <2>4, <2>5 DEF AddedNew
  <2>8. AllListed'
    BY <1>4, <2>1, <2>3, <2>5 DEF ListRight, AllListed, Unlisted
  <2>9. \A d \in Pids : report'[d] = "stopped" => proc'[d] = "stopped"
    BY <1>0, <1>1, <1>6, <2>2
  <2>10. ListedOnce'
    BY <1>1 DEF ListRight, ListedOnce
  <2> QED BY <2>6, <2>7, <2>8, <2>9, <2>10 DEF ListRight, StopsRight
<1> QED BY <1>5, <1>6 DEF Fork

\* addjob: the process that was forked gets its job.
LEMMA AddListed ==
  ASSUME Typed, ListRight, Room, AddJob
  PROVE  ListRight'
<1>0. /\ jobs \in [Table!Slots -> Table!Job]
      /\ \A i \in Table!Slots : jobs[i].pid \in Pids \cup {0}
      /\ UNCHANGED <<proc, report>>
  BY DEF Typed, TypeOK, Table!TypeOK, Table!Job, AddJob, kernelVars
<1>1. /\ stack[1].pc = "addjob" /\ stack'[1].pc = "unblock"
      /\ \/ UNCHANGED jobVars /\ (stack[1].pid \notin Pids \/ \A i \in Table!Slots : jobs[i].pid # 0)
         \/ /\ stack[1].pid \in Pids
            /\ \E slot \in Table!Slots : Added(stack[1].pid, IF cmd = "run" THEN "FG" ELSE "BG", slot)
  BY AddStep
<1>2. ~ Adding' /\ \A c \in Pids : ~ Unlisted(c)'
  BY <1>1 DEF Adding, Unlisted
<1>3. CASE stack[1].pid \notin Pids /\ UNCHANGED jobVars
  <2>1. \A c \in Pids : ~ Unlisted(c)
    BY <1>3 DEF Unlisted
  <2> QED BY <1>0, <1>2, <1>3, <2>1 DEF ListRight, ListedLive, ListedOnce, AddedNew, AllListed, StopsRight, Child, Listed, jobVars
<1>4. ASSUME NEW c \in Pids, stack[1].pid = c, NEW slot \in Table!Slots,
             Added(c, IF cmd = "run" THEN "FG" ELSE "BG", slot)
      PROVE  ListRight'
  <2>1. c \in Pids /\ Child(c) /\ ~ Listed(c)
    BY <1>1, <1>4 DEF ListRight, AddedNew, Adding
  <2>2. /\ jobs[slot].pid = 0 /\ jobs'[slot].pid = c
        /\ \A i \in Table!Slots \ {slot} : jobs'[i] = jobs[i]
    BY <1>0, <1>4 DEF Added
  <2>3. \A d \in Pids : Unlisted(d) => d = c
    BY <1>4 DEF Unlisted
  <2>4. \A i \in Table!Slots : jobs'[i].pid # 0 => Child(jobs'[i].pid)
    BY <2>1, <2>2 DEF ListRight, ListedLive
  <2>5. ListedOnce'
    BY <2>1, <2>2 DEF ListRight, ListedOnce, Listed
  <2>6. \A d \in Pids : Child(d) => Listed(d)'
    <3>1. Listed(c)'
      BY <2>2 DEF Listed
    <3>2. \A d \in Pids : Listed(d) => Listed(d)'
      BY <2>2, TshAssumption DEF Listed
    <3> QED BY <2>3, <3>1, <3>2 DEF ListRight, AllListed
  <2>7. AllListed' /\ StopsRight'
    BY <1>0, <2>6 DEF AllListed, StopsRight, Child, ListRight
  <2>8. ListedLive'
    BY <1>0, <2>4 DEF ListedLive, Child
  <2> QED BY <1>2, <2>5, <2>7, <2>8 DEF ListRight, AddedNew
<1> QED BY <1>1, <1>3, <1>4 DEF Room, Adding

\* The list is right in the beginning.
LEMMA ListInit == Init => Masked /\ ListRight
<1> SUFFICES ASSUME Init PROVE Masked /\ ListRight
  OBVIOUS
<1>1. Len(stack) = 1 /\ stack[1].pc = "prompt" /\ pending = {}
  BY DEF Init
<1>2. Masked
  BY <1>1 DEF Masked, Blocked
<1>3. /\ \A i \in Table!Slots : jobs[i].pid = 0
      /\ \A c \in Pids : proc[c] = "none" /\ report[c] = "none"
  BY DEF Init, Table!initjobs, Table!NoJob
<1>4. ~ Adding
  BY <1>1 DEF Adding
<1>5. ListRight
  BY <1>3, <1>4 DEF ListRight, ListedLive, ListedOnce, AddedNew, AllListed, StopsRight, Child
<1> QED BY <1>2, <1>5

\* Without signals from the keyboard every step leaves it right, and main alive if
\* no line is blank.
LEMMA ListStep ==
  ASSUME MaxKeys = 0
  PROVE  /\ Typed /\ Masked /\ ListRight /\ Room /\ [Next]_vars => Masked' /\ ListRight'
         /\ Typed /\ Masked /\ ListRight /\ [Next]_vars /\ "blank" \notin Commands /\ NoCrash => NoCrash'
<1>1. ASSUME Typed, Masked, ListRight, [Next]_vars
      PROVE  /\ Masked' /\ (Room => ListRight')
             /\ "blank" \notin Commands /\ NoCrash => NoCrash'
  <2>1. CASE waitfg \/ Suspend \/ LeaveHandler \/ Return \/ ReapNone
             \/ (\E s \in Signals : EnterHandler(s) \/ ReadFg(s) \/ Deliver(s)) \/ UNCHANGED vars
    <3>1. Masked' /\ AddingSame
      BY <1>1, <2>1, OtherMasked
    <3>2. UNCHANGED <<jobs, proc, report, shell>>
      BY <2>1 DEF waitfg, Suspend, LeaveHandler, Return, ReapNone, EnterHandler, ReadFg, Deliver,
                  vars, jobVars, kernelVars
    <3> QED BY <1>1, <3>1, <3>2, ListStays DEF NoCrash
  <2>2. CASE Key \/ \E s \in Signals : KillFg(s)
    BY <1>1, <2>2, OtherMasked
  <2>3. CASE ChildStep
    <3>1. Masked' /\ AddingSame
      BY <1>1, <2>3, OtherMasked
    <3> QED BY <1>1, <2>3, <3>1, ChildrenMove DEF ChildStep, NoCrash
  <2>4. CASE Reap
    <3>1. Masked' /\ AddingSame
      BY <1>1, <2>4, OtherMasked
    <3> QED BY <1>1, <2>4, <3>1, ReapListed DEF NoCrash
  <2>5. CASE Block \/ Unblock \/ Lookup \/ \E c \in Commands : Read(c)
    <3>1. Masked' /\ (Fork \/ AddJob \/ AddingSame)
      BY <1>1, <2>5, MainMasked
    <3>2. UNCHANGED <<jobs, proc, report>>
      BY <2>5 DEF Block, Unblock, Lookup, Read, jobVars, kernelVars
    <3>3. AddingSame
      <4>1. Len(stack) = 1 /\ Top = stack[1]
        BY <1>1, <2>5, MainStep DEF Top
      <4>2. ~ Fork /\ ~ AddJob
        BY <2>5, <4>1 DEF Block, Unblock, Lookup, Read, Fork, AddJob, At
      <4> QED BY <3>1, <4>2
    <3>4. "blank" \notin Commands /\ NoCrash => NoCrash'
      <4>1. CASE Block \/ Unblock \/ Lookup
        BY <4>1 DEF Block, Unblock, Lookup, NoCrash
      <4>2. ASSUME NEW c \in Commands, c # "blank", Read(c), NoCrash PROVE NoCrash'
        <5>1. c \in {"run", "run_bg", "fg", "bg", "quit"}
          BY <4>2, TshAssumption
        <5>2. shell' = shell \/ shell' = "quit"
          BY <4>2, <5>1 DEF Read
        <5> QED BY <4>2, <5>2 DEF NoCrash
      <4> QED BY <2>5, <4>1, <4>2
    <3> QED BY <1>1, <3>1, <3>2, <3>3, <3>4, ListStays
  <2>6. CASE Cont
    <3>1. Masked' /\ (Fork \/ AddJob \/ AddingSame)
      BY <1>1, <2>6, MainMasked
    <3>2. AddingSame
      BY <2>6, <3>1 DEF Cont, Fork, AddJob, At
    <3> QED BY <1>1, <2>6, <3>1, <3>2, ChildrenMove DEF Cont, NoCrash
  <2>7. CASE Fork
    BY <1>1, <2>7, MainMasked, ForkListed DEF Fork, NoCrash
  <2>8. CASE AddJob
    BY <1>1, <2>8, MainMasked, AddListed DEF AddJob, NoCrash
  <2>9. CASE SetState
    <3>1. Masked' /\ (Fork \/ AddJob \/ AddingSame)
      BY <1>1, <2>9, MainMasked
    <3>2. AddingSame
      BY <2>9, <3>1 DEF SetState, Fork, AddJob, At
    <3>3. /\ jobs \in [Table!Slots -> Table!Job] /\ UNCHANGED <<proc, report, shell>>
          /\ JobMarked(1, "FG") \/ JobMarked(job, "BG")
      BY <1>1, <2>9, SetStep DEF Typed, TypeOK, Table!TypeOK, SetState, kernelVars
    <3>4. \A i \in Table!Slots : jobs'[i].pid = jobs[i].pid /\ jobs[i].pid \in Pids \cup {0}
      BY <3>3 DEF JobMarked, Table!Job
    <3>5. ListRight'
      BY <1>1, <3>2, <3>3, <3>4, ListSame DEF ListRight, StopsRight, Child
    <3> QED BY <3>1, <3>3, <3>5 DEF NoCrash
  <2> QED BY <1>1, <2>1, <2>2, <2>3, <2>4, <2>5, <2>6, <2>7, <2>8, <2>9, StepKinds
<1> QED BY <1>1

\* So it is right in every state, as long as a slot is free for each child.
LEMMA ListInductive == MaxKeys = 0 => (Spec /\ []Room => [](Masked /\ ListRight))
<1> SUFFICES ASSUME MaxKeys = 0 PROVE Spec /\ []Room => [](Masked /\ ListRight)
  OBVIOUS
<1>1. Typed /\ Masked /\ ListRight /\ Room /\ [Next]_vars => Masked' /\ ListRight'
  BY ListStep
<1> QED BY <1>1, ListInit, AlwaysTyped, PTL DEF Spec

\* A list that is right holds children of the shell, and no others.
LEMMA ListMeansChildren == Typed /\ ListRight => JobsAreChildren
<1> SUFFICES ASSUME Typed, ListRight PROVE JobsAreChildren
  OBVIOUS
<1>1. \A i \in Table!Slots : jobs[i].pid # 0 => proc[jobs[i].pid] \notin {"none", "reaped"}
  BY DEF ListRight, ListedLive, Child
<1>2. ASSUME NEW c \in Pids, Alive(c) \/ Zombie(c) PROVE Table!getjobpid(c) # 0 \/ Unlisted(c)
  <2>1. Listed(c) \/ Unlisted(c)
    BY <1>2 DEF ListRight, AllListed, Child, Alive, Zombie
  <2>2. Listed(c) => Table!getjobpid(c) # 0
    BY JobFound, SlotsAreNat DEF Listed
  <2> QED BY <2>1, <2>2
<1> QED BY <1>1, <1>2 DEF JobsAreChildren

\* As long as no key is typed and addjob finds a free slot, the list and the
\* children agree at every step: no process is reaped between its fork and its
\* addjob, for SIGCHLD is blocked then, whatever the uninitialised mask_chld
\* holds besides, and the handlers leave it blocked while one of them runs.
THEOREM ListIsChildren == MaxKeys = 0 => (Spec /\ []Room => []JobsAreChildren)
<1> SUFFICES ASSUME MaxKeys = 0 PROVE Spec /\ []Room => []JobsAreChildren
  OBVIOUS
<1> QED BY ListInductive, ListMeansChildren, AlwaysTyped, PTL

\* Then sigchld_handler dereferences no NULL job, and only a blank line can
\* make the shell crash.
THEOREM HandlersFindJobs ==
  MaxKeys = 0 /\ "blank" \notin Commands => (Spec /\ []Room => []NoCrash)
<1> SUFFICES ASSUME MaxKeys = 0, "blank" \notin Commands PROVE Spec /\ []Room => []NoCrash
  OBVIOUS
<1>1. Typed /\ Masked /\ ListRight /\ [Next]_vars /\ NoCrash => NoCrash'
  BY ListStep
<1>2. Init => NoCrash
  BY DEF Init, NoCrash
<1> QED BY <1>1, <1>2, ListInductive, AlwaysTyped, PTL DEF Spec

\* With as many slots as pids, a slot is always free.
LEMMA SlotForEach ==
  ASSUME IsFiniteSet(Pids), Cardinality(Pids) =< MAXJOBS, Typed, ListRight
  PROVE  Room
<1> SUFFICES ASSUME Adding, \A i \in Table!Slots : jobs[i].pid # 0 PROVE FALSE
  BY DEF Room
<1> DEFINE T == Pids \ {stack[1].pid}
           f == [i \in 1 .. MAXJOBS |-> jobs[i].pid]
<1>1. \A i \in 1 .. MAXJOBS : jobs[i].pid \in T
  BY SlotsAreNat DEF Typed, TypeOK, Table!TypeOK, Table!Job, ListRight, AddedNew, Listed
<1>2. f \in [1 .. MAXJOBS -> T]
  BY <1>1
<1>3. IsFiniteSet(T) /\ Cardinality(T) = Cardinality(Pids) - 1
  BY FS_RemoveElement DEF Adding
<1>4. IsFiniteSet(1 .. MAXJOBS) /\ Cardinality(1 .. MAXJOBS) = MAXJOBS
  BY FS_Interval, SlotsAreNat
<1>5. Cardinality(Pids) \in Nat
  BY FS_CardinalityType
<1> HIDE DEF T, f
<1>6. \E i, j \in 1 .. MAXJOBS : i # j /\ f[i] = f[j]
  BY <1>2, <1>3, <1>4, <1>5, SlotsAreNat, FS_PigeonHole
<1> QED BY <1>6, SlotsAreNat DEF f, ListRight, ListedOnce

\* addjob finds a free slot if no more processes are forked than the list has
\* slots: none of them has two.
THEOREM ListHasRoom ==
  MaxKeys = 0 /\ IsFiniteSet(Pids) /\ Cardinality(Pids) =< MAXJOBS
    => (Spec => []Room)
<1> SUFFICES ASSUME MaxKeys = 0, IsFiniteSet(Pids), Cardinality(Pids) =< MAXJOBS
             PROVE  Spec => []Room
  OBVIOUS
<1>1. Typed /\ Masked /\ ListRight /\ [Next]_vars => Masked' /\ ListRight'
  BY ListStep, SlotForEach
<1>2. Typed /\ ListRight => Room
  BY SlotForEach
<1> QED BY <1>1, <1>2, ListInit, AlwaysTyped, PTL DEF Spec
=============================================================================
