-------------------------------- MODULE Tsh --------------------------------
(***************************************************************************)
(* The tiny shell: the read/eval loop of shell/lab/tsh.c, the handlers of  *)
(* shell/lab/sighandler.c that interrupt it and each other, the job list   *)
(* of job.c, and the kernel's side of it: child processes, pending and     *)
(* blocked signals, and what waitpid has to report.                        *)
(*                                                                         *)
(* The shell is one thread, and its stack is modelled: stack[1] is main,   *)
(* every signal handler that has not returned is a frame above it.  Only   *)
(* the top frame runs.  A frame is                                         *)
(*    fn    "main", or the signal the handler serves                       *)
(*    pc    where it is                                                    *)
(*    ret   the mask to restore when the handler returns                   *)
(*    saved the mask its sigprocmask or sigsuspend will restore            *)
(*    pid   its variable pid: of fork in main, of fgpid in a handler       *)
(***************************************************************************)
EXTENDS Integers, Sequences, FiniteSets, SequencesExt

CONSTANTS MAXJOBS, Pids,  \* as in JobTable; fork fails when Pids is used up
          Commands,   \* what is typed: "run", "run_bg", "fg", "bg", "blank", "quit"
          Garbage,    \* what the uninitialised mask_chld may contain
          SelfStops,  \* children can stop themselves (mystop)
          MaxKeys     \* bound: how often ctrl-c or ctrl-z is typed

VARIABLES jobs, nextjid,  \* as in JobTable
          stack,     \* the frames
          mask,      \* signals the shell blocks
          pending,   \* signals pending for the shell
          shell,     \* "up", or how it ended: "quit", "error" (unix_error),
                     \* "crash" (NULL dereference)
          cmd,       \* more locals of main: the command,
          job,       \* the slot do_bgfg found,
          chld,      \* the set mask_chld
          proc,      \* the state of each child process
          report,    \* the stop or continuation waitpid will report
          sigs,      \* signals pending for each child
          keys       \* keys typed so far

Table == INSTANCE JobTable WITH MaxJid <- 0

jobVars    == <<jobs, nextjid>>
mainVars   == <<cmd, job, chld>>
kernelVars == <<proc, report, sigs>>
vars == <<jobs, nextjid, stack, mask, pending, shell, cmd, job, chld, proc,
          report, sigs, keys>>

Signals == {"CHLD", "INT", "TSTP"}

ASSUME TshAssumption == /\ MAXJOBS \in Nat \ {0} /\ Pids \subseteq Nat \ {0}
                        /\ Commands \subseteq {"run", "run_bg", "fg", "bg", "blank", "quit"}
                        /\ Garbage \subseteq SUBSET Signals
                        /\ MaxKeys \in Nat
ASSUME SelfStopsAssumption == SelfStops \in BOOLEAN

Top == stack[Len(stack)]
At(fn, pc) == shell = "up" /\ Top.fn = fn /\ Top.pc = pc
WithTop(f) == [stack EXCEPT ![Len(stack)] = f]
Goto(pc) == stack' = WithTop([Top EXCEPT !.pc = pc])

Init == /\ Table!initjobs
        /\ stack = <<[fn |-> "main", pc |-> "prompt", ret |-> {}, saved |-> {}, pid |-> 0]>>
        /\ mask = {} /\ pending = {} /\ shell = "up"
        /\ cmd = "none" /\ job = 0 /\ chld = {}
        /\ proc = [c \in Pids |-> "none"]
        /\ report = [c \in Pids |-> "none"]
        /\ sigs = [c \in Pids |-> {}]
        /\ keys = 0

-----------------------------------------------------------------------------
(***************************************************************************)
(* The children and the kernel                                             *)
(*                                                                         *)
(* proc: "none", "forked" (still in the shell's process group), "running", *)
(* "stopped", "exited" or "killed" (zombies), "reaped".                    *)
(***************************************************************************)

Zombie(c) == proc[c] \in {"exited", "killed"}
Alive(c)  == proc[c] \in {"forked", "running", "stopped"}

\* Process group c exists as long as its leader does, as a zombie too.
Group(c) == proc[c] \in {"running", "stopped", "exited", "killed"}

Become(c, st) == proc' = [proc EXCEPT ![c] = st]
NoteChild == pending' = pending \cup {"CHLD"}

\* The child of eval: setpgid(0, 0), then execve.
Setpgid(c) == /\ proc[c] = "forked" /\ Become(c, "running")
              /\ UNCHANGED <<pending, report, sigs>>

\* The program ends, or execve failed and unix_error exits.
Exit(c) == /\ proc[c] = "running" /\ Become(c, "exited") /\ NoteChild
           /\ report' = [report EXCEPT ![c] = "none"]
           /\ UNCHANGED sigs

Stop(c) == /\ Become(c, "stopped") /\ NoteChild
           /\ report' = [report EXCEPT ![c] = "stopped"]

\* The program stops itself.
SelfStop(c) == SelfStops /\ proc[c] = "running" /\ Stop(c) /\ UNCHANGED sigs

\* A running child takes a signal sent to it.
TakeTstp(c) == /\ proc[c] = "running" /\ "TSTP" \in sigs[c] /\ Stop(c)
               /\ sigs' = [sigs EXCEPT ![c] = @ \ {"TSTP"}]
TakeInt(c) == /\ proc[c] = "running" /\ "INT" \in sigs[c]
              /\ Become(c, "killed") /\ NoteChild
              /\ report' = [report EXCEPT ![c] = "none"]
              /\ sigs' = [sigs EXCEPT ![c] = {}]

ChildStep == /\ shell = "up"
             /\ \E c \in Pids : \/ Setpgid(c) \/ Exit(c) \/ SelfStop(c)
                                \/ TakeTstp(c) \/ TakeInt(c)
             /\ UNCHANGED <<jobVars, mainVars, stack, mask, shell, keys>>

\* The user types ctrl-c or ctrl-z.
Key == /\ shell = "up" /\ keys < MaxKeys /\ keys' = keys + 1
       /\ \E s \in {"INT", "TSTP"} : pending' = pending \cup {s}
       /\ UNCHANGED <<jobVars, mainVars, kernelVars, stack, mask, shell>>

\* kill(-c, s) for a signal that the child takes when it next runs.
Send(c, s) == sigs' = [sigs EXCEPT ![c] = @ \cup {s}]

\* kill(-c, SIGCONT): a stopped group runs again at once, and the kernel
\* discards its pending stop signals.
Continue(c) ==
  /\ sigs' = [sigs EXCEPT ![c] = @ \ {"TSTP"}]
  /\ IF proc[c] = "stopped"
     THEN /\ Become(c, "running") /\ NoteChild
          /\ report' = [report EXCEPT ![c] = "continued"]
     ELSE UNCHANGED <<proc, pending, report>>

\* The kernel delivers a signal: the handler interrupts whatever runs.  A
\* frame in sigsuspend is woken, and its mask is the one the handler restores.
Deliver(s) ==
  /\ shell = "up"
  /\ s \in pending \ mask
  /\ pending' = pending \ {s}
  /\ mask' = mask \cup {s}
  /\ LET waits == Top.pc = "suspended"
         frame == [fn |-> s, pc |-> "enter", saved |-> {}, pid |-> 0,
                   ret |-> IF waits THEN Top.saved ELSE mask]
         below == IF waits THEN WithTop([Top EXCEPT !.pc = "waitfg"]) ELSE stack
     IN  stack' = Append(below, frame)
  /\ UNCHANGED <<jobVars, mainVars, kernelVars, shell, keys>>

\* A handler returns to the frame it interrupted.
Return == /\ shell = "up" /\ Top.pc = "return"
          /\ mask' = Top.ret
          /\ stack' = Front(stack)
          /\ UNCHANGED <<jobVars, mainVars, kernelVars, pending, shell, keys>>

-----------------------------------------------------------------------------
(* waitfg, called by main and by the handlers of SIGINT and SIGTSTP *)

Caller(frame) == IF frame.fn = "main" THEN "prompt" ELSE "leave"

\* Mutant: the test is inverted, and nobody waits.
waitfgInverted == /\ shell = "up" /\ Top.pc = "waitfg"
                  /\ Goto(IF Table!fgpid = 0 THEN "suspend" ELSE Caller(Top))
                  /\ UNCHANGED <<jobVars, mainVars, kernelVars, mask, pending, shell, keys>>

\* while (fgpid(jobs) > 0)
waitfg == /\ shell = "up" /\ Top.pc = "waitfg"
          /\ Goto(IF Table!fgpid > 0 THEN "suspend" ELSE Caller(Top))
          /\ UNCHANGED <<jobVars, mainVars, kernelVars, mask, pending, shell, keys>>

\* sigsuspend(&mask_none): the thread sleeps until a handler has run.
Suspend == /\ shell = "up" /\ Top.pc = "suspend"
           /\ stack' = WithTop([Top EXCEPT !.pc = "suspended", !.saved = mask])
           /\ mask' = {}
           /\ UNCHANGED <<jobVars, mainVars, kernelVars, pending, shell, keys>>

-----------------------------------------------------------------------------
(* The handlers *)

\* sigprocmask(SIG_SETMASK, ...) on entry: everything in sigchld_handler, the
\* signal alone in the other two, whatever was blocked before.
EnterHandler(s) ==
  /\ At(s, "enter")
  /\ mask' = IF s = "CHLD" THEN Signals ELSE {s}
  /\ stack' = WithTop([Top EXCEPT !.pc = "body", !.saved = mask])
  /\ UNCHANGED <<jobVars, mainVars, kernelVars, pending, shell, keys>>

LeaveHandler == /\ shell = "up" /\ Top.pc = "leave"
                /\ Goto("return") /\ mask' = Top.saved
                /\ UNCHANGED <<jobVars, mainVars, kernelVars, pending, shell, keys>>

\* sigint_handler and sigtstp_handler: pid = fgpid(jobs); if (pid) ...
ReadFg(s) ==
  /\ At(s, "body") /\ s # "CHLD"
  /\ stack' = WithTop([Top EXCEPT !.pid = Table!fgpid,
                                  !.pc = IF Table!fgpid = 0 THEN "leave" ELSE "kill"])
  /\ UNCHANGED <<jobVars, mainVars, kernelVars, mask, pending, shell, keys>>

\* ret = kill(-pid, s); unix_error exits the shell when it fails.
KillFg(s) ==
  /\ At(s, "kill")
  /\ IF Group(Top.pid)
     THEN /\ sigs' = IF Zombie(Top.pid) THEN sigs ELSE [sigs EXCEPT ![Top.pid] = @ \cup {s}]
          /\ Goto("waitfg") /\ UNCHANGED shell
     ELSE shell' = "error" /\ UNCHANGED <<sigs, stack>>
  /\ UNCHANGED <<jobVars, mainVars, proc, report, mask, pending, keys>>

\* One round of sigchld_handler's loop: waitpid(-1, ..., WNOHANG) reports ...
ReapStopped(c) == /\ report[c] = "stopped"
                  /\ report' = [report EXCEPT ![c] = "none"]
                  /\ IF Table!getjobpid(c) = 0
                     THEN shell' = "crash" /\ UNCHANGED jobVars
                     ELSE Table!setstate(Table!getjobpid(c), "ST") /\ UNCHANGED shell
                  /\ UNCHANGED proc

ReapContinued(c) == /\ report[c] = "continued"
                    /\ report' = [report EXCEPT ![c] = "none"]
                    /\ UNCHANGED <<jobVars, proc, shell>>

ReapExited(c) == /\ proc[c] = "exited" /\ Become(c, "reaped")
                 /\ Table!deletejob(c)
                 /\ UNCHANGED <<report, shell>>

ReapKilled(c) == /\ proc[c] = "killed" /\ Become(c, "reaped")
                 /\ Table!deletejob(c)
                 /\ shell' = IF Table!getjobpid(c) = 0 THEN "crash" ELSE shell
                 /\ UNCHANGED report

\* Mutant: if, not while: one SIGCHLD reaps one child.
ReapOne == /\ At("CHLD", "body") /\ Goto("leave")
           /\ \E c \in Pids : \/ ReapStopped(c) \/ ReapContinued(c)
                              \/ ReapExited(c) \/ ReapKilled(c)
           /\ UNCHANGED <<mainVars, sigs, mask, pending, keys>>

Reap == /\ At("CHLD", "body")
        /\ \E c \in Pids : \/ ReapStopped(c) \/ ReapContinued(c)
                           \/ ReapExited(c) \/ ReapKilled(c)
        /\ UNCHANGED <<mainVars, sigs, stack, mask, pending, keys>>

\* ... nothing: the loop ends.
ReapNone == /\ At("CHLD", "body")
            /\ \A c \in Pids : ~ Zombie(c) /\ report[c] = "none"
            /\ Goto("leave")
            /\ UNCHANGED <<jobVars, mainVars, kernelVars, mask, pending, shell, keys>>

-----------------------------------------------------------------------------
(* main and eval *)

\* fgets, parseline and builtin_cmd.  parseline leaves argv[0] = NULL of a
\* blank line, and builtin_cmd compares it with strcmp.
Read(c) == /\ At("main", "prompt")
           /\ cmd' = c
           /\ CASE c \in {"run", "run_bg"} -> Goto("block") /\ UNCHANGED shell
                [] c \in {"fg", "bg"} -> Goto("lookup") /\ UNCHANGED shell
                [] c = "blank" -> shell' = "crash" /\ UNCHANGED stack
                [] c = "quit" -> shell' = "quit" /\ UNCHANGED stack
           /\ UNCHANGED <<jobVars, kernelVars, job, chld, mask, pending, keys>>

\* Mutant: SIGCHLD is not blocked before the fork.
BlockNothing == /\ At("main", "block") /\ Goto("fork") /\ chld' = {}
                /\ UNCHANGED <<jobVars, kernelVars, cmd, job, mask, pending, shell, keys>>

\* sigaddset on a set that was never emptied, then SIG_BLOCK.
Block == /\ At("main", "block") /\ Goto("fork")
         /\ \E g \in Garbage : chld' = g \cup {"CHLD"}
         /\ mask' = mask \cup chld'
         /\ UNCHANGED <<jobVars, kernelVars, cmd, job, pending, shell, keys>>

\* Mutant: the parent unblocks SIGCHLD as soon as it has forked.
ForkUnblocks ==
  /\ At("main", "fork") /\ mask' = mask \ chld
  /\ \E c \in Pids : /\ proc[c] = "none" /\ \A d \in Pids : d < c => proc[d] # "none"
                     /\ Become(c, "forked")
                     /\ stack' = WithTop([Top EXCEPT !.pid = c, !.pc = "addjob"])
  /\ UNCHANGED <<jobVars, mainVars, report, sigs, pending, shell, keys>>

Fork == /\ At("main", "fork")
        /\ \/ \E c \in Pids :
                /\ proc[c] = "none" /\ \A d \in Pids : d < c => proc[d] # "none"
                /\ Become(c, "forked")
                /\ stack' = WithTop([Top EXCEPT !.pid = c, !.pc = "addjob"])
           \/ /\ stack' = WithTop([Top EXCEPT !.pid = -1, !.pc = "addjob"])
              /\ UNCHANGED proc
        /\ UNCHANGED <<jobVars, mainVars, report, sigs, mask, pending, shell, keys>>

AddJob == /\ At("main", "addjob") /\ Goto("unblock")
          /\ Table!addjob(Top.pid, IF cmd = "run" THEN "FG" ELSE "BG")
          /\ UNCHANGED <<mainVars, kernelVars, mask, pending, shell, keys>>

Unblock == /\ At("main", "unblock")
           /\ Goto(IF cmd = "run" THEN "waitfg" ELSE "prompt")
           /\ mask' = mask \ chld
           /\ UNCHANGED <<jobVars, mainVars, kernelVars, pending, shell, keys>>

-----------------------------------------------------------------------------
(* do_bgfg *)

\* The argument is a process id or a job ID, or names no job.
Lookup == /\ At("main", "lookup")
          /\ \/ \E i \in {Table!getjobpid(c) : c \in Pids}
                     \cup {Table!getjobjid(jobs[k].jid) : k \in Table!Slots} :
                  i # 0 /\ job' = i /\ Goto("cont")
             \/ Goto("prompt") /\ UNCHANGED job
          /\ UNCHANGED <<jobVars, kernelVars, cmd, chld, mask, pending, shell, keys>>

\* kill(-job->pid, SIGCONT), its result ignored.  If the job has been reaped
\* since, job->pid is 0 and the signal goes to the shell's own group.
Cont == /\ At("main", "cont") /\ Goto("setstate")
        /\ LET c == jobs[job].pid
           IN  IF c # 0 /\ Group(c) THEN Continue(c) ELSE UNCHANGED <<kernelVars, pending>>
        /\ UNCHANGED <<jobVars, mainVars, mask, shell, keys>>

\* jobs->state = FG, the first slot's state, or job->state = BG.
SetState == /\ At("main", "setstate")
            /\ IF cmd = "fg" THEN Table!setstate(1, "FG") /\ Goto("waitfg")
                             ELSE Table!setstate(job, "BG") /\ Goto("prompt")
            /\ UNCHANGED <<mainVars, kernelVars, mask, pending, shell, keys>>

-----------------------------------------------------------------------------
\* The shell runs, without reading another command.
Run == \/ waitfg \/ Suspend \/ LeaveHandler \/ Return
       \/ \E s \in Signals : EnterHandler(s) \/ ReadFg(s) \/ KillFg(s)
       \/ Reap \/ ReapNone
       \/ Block \/ Fork \/ AddJob \/ Unblock
       \/ Lookup \/ Cont \/ SetState

Next == \/ Run
        \/ \E s \in Signals : Deliver(s)
        \/ \E c \in Commands : Read(c)
        \/ ChildStep \/ Key

Spec == Init /\ [][Next]_vars

(***************************************************************************)
(* The shell keeps running, and a pending signal is delivered if it is     *)
(* unblocked again and again (sigprocmask and sigsuspend deliver one       *)
(* before they return).  Nothing is assumed of the user or the children.   *)
(***************************************************************************)
FairSpec == Spec /\ WF_vars(Run) /\ \A s \in Signals : SF_vars(Deliver(s))

-----------------------------------------------------------------------------
(***************************************************************************)
(* Properties                                                              *)
(***************************************************************************)

PCs == {"prompt", "block", "fork", "addjob", "unblock", "lookup", "cont", "setstate",
        "waitfg", "suspend", "suspended", "enter", "body", "kill", "leave", "return"}

Frame == [fn : Signals \cup {"main"}, pc : PCs, ret : SUBSET Signals,
          saved : SUBSET Signals, pid : Pids \cup {0, -1}]

TypeOK == /\ Table!TypeOK
          /\ stack \in Seq(Frame) /\ Len(stack) > 0
          /\ mask \subseteq Signals /\ pending \subseteq Signals
          /\ shell \in {"up", "quit", "error", "crash"}
          /\ cmd \in Commands \cup {"none"}
          /\ job \in Table!Slots \cup {0} /\ chld \subseteq Signals
          /\ proc \in [Pids -> {"none", "forked", "running", "stopped",
                                "exited", "killed", "reaped"}]
          /\ report \in [Pids -> {"none", "stopped", "continued"}]
          /\ sigs \in [Pids -> SUBSET {"INT", "TSTP"}]
          /\ keys \in 0 .. MaxKeys

\* defs.h: "At most 1 job can be in the FG state."
OneForeground == Cardinality({i \in Table!Slots : jobs[i].state = "FG"}) =< 1

\* A process that main has forked and not yet listed.
Unlisted(c) == stack[1].pid = c /\ stack[1].pc = "addjob"

\* The list holds the shell's children, no more and no fewer: a job goes when
\* its process is reaped, and no process is reaped before it has a job.
JobsAreChildren ==
  /\ \A i \in Table!Slots : jobs[i].pid # 0 => proc[jobs[i].pid] \notin {"none", "reaped"}
  /\ \A c \in Pids : Alive(c) \/ Zombie(c) => Table!getjobpid(c) # 0 \/ Unlisted(c)

\* The handlers never meet a process without a job.
NoCrash == shell # "crash"

\* Nothing is going on in the shell.
Settled == /\ shell = "up" /\ Len(stack) = 1 /\ pending = {}
           /\ stack[1].pc \in {"prompt", "suspended"}
           /\ \A c \in Pids : report[c] = "none"

\* tsh.c: waitfg blocks "until process pid is no longer the foreground
\* process".  The shell does not sleep on when there is no foreground job.
NoSleepWithoutForeground == Settled /\ stack[1].pc = "suspended" => Table!fgpid > 0

\* sighandler.c: sigchld_handler "reaps all available zombie children".  One
\* SIGCHLD may stand for several children that end at once, and may come at
\* any point of main: no zombie stays while the shell lives.  It holds as long
\* as no key is typed: the handlers of SIGINT and SIGTSTP wait for the
\* foreground job on top of a sigchld_handler that has yet to reap it.
EveryZombieReaped == \A c \in Pids : Zombie(c) ~> ~ Zombie(c) \/ shell # "up"
=============================================================================
