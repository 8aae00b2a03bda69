------------------------------- MODULE Trace -------------------------------
(***************************************************************************)
(* trace PROGRAM, trace -p PID -s and probe's first half (src/trace.c):    *)
(* one tracer follows a task and every task it forks with ptrace, stops    *)
(* them at their system calls and prints each filter that one of them      *)
(* loads.  trace -p PID stops one task, prints the filters it has and lets *)
(* it go.                                                                  *)
(*                                                                         *)
(* A task stops or dies on its own and leaves a report, which waitpid      *)
(* takes.  The tracer holds what waitpid gave it while every other task    *)
(* goes on, and any task, the one it is handling too, may be killed at any *)
(* moment; a ptrace request to a task that is no longer stopped fails, and *)
(* the code looks at none of those failures.  What PTRACE_GET_SYSCALL_INFO *)
(* then leaves in the variable on the stack was never set (Leftover).      *)
(***************************************************************************)
EXTENDS SeccompLoad

CONSTANTS
    Tasks, Root,    \* the tasks there may be, and the one trace starts with
    Nr,             \* Nr[arch]: the numbers of seccomp and prctl on an arch
    Calls,          \* the system calls tasks make
    Leftover,       \* what a syscall_info that was never set may hold
    MaxCalls, MaxSignals,       \* bounds on what tasks do
    MaxFilters,     \* bound on the filters a task has when trace -p comes to it
    None

NoNr   == -1            \* __NR_SCMP_ERROR
SECCOMP_SET_MODE_STRICT == 0
SECCOMP_SET_MODE_FILTER == 1
SECCOMP_MODE_STRICT == 1
SECCOMP_MODE_FILTER == 2
PR_SET_SECCOMP == 22
LOAD_FAIL == 7
LOAD_ELSE == 8

\* args[1] is a mode to prctl and a set of flags to seccomp.
CallType == [arch : DOMAIN Nr, nr : Nat, arg0 : Nat, arg1 : Nat,
             flags : SUBSET Flags]
\* PTRACE_GET_SYSCALL_INFO: op, and the call at an entry or its value at an exit.
AnyInfo  == [op : {"entry", "exit", "none"}, call : Calls,
             rval : {Errno, 0, ListenerFd, ThreadId}]

ASSUME TraceAssumption ==
    /\ Root \in Tasks
    /\ None \notin Tasks \cup DOMAIN Nr /\ None \notin Calls /\ None \notin AnyInfo
    /\ Calls \subseteq CallType
    /\ Leftover \subseteq AnyInfo /\ Leftover # {}
    /\ \A a \in DOMAIN Nr : Nr[a] \in [seccomp : Int, prctl : Int]
    /\ MaxCalls \in Nat /\ MaxSignals \in Nat /\ MaxFilters \in Nat

VARIABLES
    \* the tracer
    cmd,            \* which command: program, probe, seize (-p -s) or pid (-p)
    pc,             \* where parent () or pid_trace () is
    cur, status,    \* what waitpid returned
    info,           \* info of handle_syscall
    mode,           \* seccomp_mode of handle_syscall
    saved_arch, seccomp_nr, prctl_nr,
    prog_idx,       \* of pid_trace
    \* the tasks
    state,          \* none, run, stop (a ptrace-stop), listen, halt (stopped
                    \* before it was traced), dead (not waited for), gone,
                    \* killed (by ceccomp's exit) or free (no longer traced)
    stop,           \* why it stopped
    sig,            \* the signal of a signal-delivery-stop
    report,         \* waitpid has something to say of it
    call, result,   \* the system call it is in, and how that ended
    jobctl,         \* it is stopped by a signal, for job control
    filters,        \* the filters Root has when trace -p comes to it
    calls, signals, \* calls and signals so far
    loaded, printed \* history: filters a task loaded, and filters printed for it

tracerVars == <<cmd, pc, cur, status, info, mode, saved_arch, seccomp_nr, prctl_nr, prog_idx>>
taskVars == <<state, stop, sig, report, call, result, jobctl>>
boundVars == <<filters, calls, signals>>
vars == <<tracerVars, taskVars, boundVars, loaded, printed>>

Ended == {"exit", "error", "abort", "done"}
Alive(t) == state[t] \in {"run", "stop", "listen", "halt"}

NoResult == [rval |-> 0, loaded |-> FALSE]

Init ==
    /\ cmd \in {"program", "probe", "seize", "pid"}
    /\ pc = "seize"
    /\ cur = None /\ status = "none"
    /\ info = None /\ mode = LOAD_ELSE
    /\ saved_arch = None /\ seccomp_nr = NoNr /\ prctl_nr = NoNr
    /\ prog_idx = 0
    /\ filters \in IF cmd = "pid" THEN 0 .. MaxFilters ELSE {0}
    /\ \E stopped \in {TRUE, FALSE} :
        /\ stopped => cmd \in {"seize", "pid"}
        /\ jobctl = [t \in Tasks |-> stopped /\ t = Root]
        /\ state = [t \in Tasks |-> IF t # Root THEN "none"
                                    ELSE IF stopped THEN "halt" ELSE "run"]
    /\ stop = [t \in Tasks |-> "none"]
    /\ sig = [t \in Tasks |-> "none"]
    /\ report = [t \in Tasks |-> FALSE]
    /\ call = [t \in Tasks |-> None]
    /\ result = [t \in Tasks |-> NoResult]
    /\ calls = 0 /\ signals = 0
    /\ loaded = [t \in Tasks |-> 0]
    /\ printed = [t \in Tasks |-> 0]

-----------------------------------------------------------------------------
(***************************************************************************)
(* The kernel's side of ptrace.                                            *)
(***************************************************************************)
\* Task t stops and reports why.
StopsFor(t, why, signal) ==
    /\ state' = [state EXCEPT ![t] = "stop"]
    /\ stop' = [stop EXCEPT ![t] = why]
    /\ sig' = [sig EXCEPT ![t] = signal]
    /\ report' = [report EXCEPT ![t] = TRUE]

\* System calls stop a task only once PTRACE_SYSCALL has been in effect.
SyscallTraced == pc \notin {"seize", "first"} \cup Ended /\ cmd # "pid"

EnterSyscall(t, c) ==
    /\ SyscallTraced
    /\ state[t] = "run" /\ call[t] = None
    /\ calls < MaxCalls
    /\ calls' = calls + 1
    /\ call' = [call EXCEPT ![t] = c]
    /\ StopsFor(t, "entry", "none")
    /\ UNCHANGED <<tracerVars, result, jobctl, filters, signals, loaded, printed>>

\* What a call really does, by the numbers of the arch it was made on.
CallDoes(c) ==
    LET nrs == Nr[c.arch]
    IN  CASE c.nr = nrs.seccomp /\ c.arg0 = SECCOMP_SET_MODE_FILTER -> "filter"
          [] c.nr = nrs.seccomp /\ c.arg0 = SECCOMP_SET_MODE_STRICT -> "strict"
          [] c.nr = nrs.prctl /\ c.arg0 = PR_SET_SECCOMP
                /\ c.arg1 = SECCOMP_MODE_FILTER -> "filter"
          [] c.nr = nrs.prctl /\ c.arg0 = PR_SET_SECCOMP
                /\ c.arg1 = SECCOMP_MODE_STRICT -> "strict"
          [] OTHER -> "other"

Outcomes(c) ==
    LET flags == IF c.nr = Nr[c.arch].seccomp THEN c.flags ELSE {}
    IN  CASE CallDoes(c) = "filter" -> FilterOutcomes(flags)
          [] CallDoes(c) = "strict" -> StrictOutcomes(flags)
          [] OTHER                  -> {NoResult}

LeaveSyscall(t) ==
    /\ pc \notin Ended
    /\ state[t] = "run" /\ call[t] # None
    /\ \E r \in Outcomes(call[t]) :
        /\ result' = [result EXCEPT ![t] = r]
        /\ loaded' = IF r.loaded /\ CallDoes(call[t]) = "filter"
                       THEN [loaded EXCEPT ![t] = @ + 1] ELSE loaded
    /\ StopsFor(t, "exit", "none")
    /\ UNCHANGED <<tracerVars, call, jobctl, boundVars, printed>>

\* A fork: both sides stop, in either order of their reports.
Fork(t, u) ==
    /\ SyscallTraced
    /\ state[t] = "run" /\ call[t] # None /\ CallDoes(call[t]) = "other"
    /\ state[u] = "none"
    /\ state' = [state EXCEPT ![t] = "stop", ![u] = "stop"]
    /\ stop' = [stop EXCEPT ![t] = "fork", ![u] = "trap"]
    /\ report' = [report EXCEPT ![t] = TRUE, ![u] = TRUE]
    /\ UNCHANGED <<tracerVars, sig, call, result, jobctl, boundVars, loaded, printed>>

\* PTRACE_INTERRUPT takes effect.
Interrupted ==
    /\ pc = "first"
    /\ state[Root] = "run"
    /\ StopsFor(Root, "trap", "none")
    /\ UNCHANGED <<tracerVars, call, result, jobctl, boundVars, loaded, printed>>

Signal(t, signal) ==
    /\ pc \notin {"seize"} \cup Ended
    /\ state[t] = "run" /\ call[t] = None
    /\ signals < MaxSignals
    /\ signals' = signals + 1
    /\ StopsFor(t, "signal", signal)
    /\ UNCHANGED <<tracerVars, call, result, jobctl, filters, calls, loaded, printed>>

\* SIGCONT.  A task that listens traps again; one that the tracer has not told
\* to listen yet will as soon as it is told.
Continue(t) ==
    /\ pc \notin Ended
    /\ jobctl[t] /\ state[t] \in {"stop", "listen"}
    /\ jobctl' = [jobctl EXCEPT ![t] = FALSE]
    /\ IF state[t] = "listen" THEN StopsFor(t, "trap", "none")
                              ELSE UNCHANGED <<state, stop, sig, report>>
    /\ UNCHANGED <<tracerVars, call, result, boundVars, loaded, printed>>

\* SIGKILL, exit, or exit_group of another thread: the report of the death
\* replaces any other.
Die(t) ==
    /\ pc \notin Ended
    /\ Alive(t)
    /\ state' = [state EXCEPT ![t] = "dead"]
    /\ stop' = [stop EXCEPT ![t] = "death"]
    /\ sig' = [sig EXCEPT ![t] = "none"]
    /\ report' = [report EXCEPT ![t] = TRUE]
    /\ call' = [call EXCEPT ![t] = None]
    /\ result' = [result EXCEPT ![t] = NoResult]
    /\ jobctl' = [jobctl EXCEPT ![t] = FALSE]
    /\ UNCHANGED <<tracerVars, boundVars, loaded, printed>>

\* The tracer has ended: PTRACE_O_EXITKILL kills what a program left.
Release ==
    /\ pc \in Ended
    /\ \E t \in Tasks : Alive(t)
    /\ state' = [t \in Tasks |-> IF ~Alive(t) THEN state[t]
                                 ELSE IF cmd \in {"seize", "pid"} THEN "free" ELSE "killed"]
    /\ UNCHANGED <<tracerVars, stop, sig, report, call, result, jobctl, boundVars,
                   loaded, printed>>

\* ptrace (PTRACE_SYSCALL, t, 0, signal): a stop signal that is delivered stops
\* the task for job control, and a task that has left its call is out of it.
Resume(t, signal) ==
    IF state[t] # "stop"
      THEN UNCHANGED taskVars
      ELSE /\ call' = [call EXCEPT ![t] = IF stop[t] = "exit" THEN None ELSE @]
           /\ result' = [result EXCEPT ![t] = NoResult]
           /\ IF signal = "SIGSTOP"
                THEN /\ StopsFor(t, "group", "none")
                     /\ jobctl' = [jobctl EXCEPT ![t] = TRUE]
                ELSE /\ state' = [state EXCEPT ![t] = "run"]
                     /\ stop' = [stop EXCEPT ![t] = "none"]
                     /\ sig' = [sig EXCEPT ![t] = "none"]
                     /\ report' = [report EXCEPT ![t] = FALSE]
                     /\ jobctl' = [jobctl EXCEPT ![t] = FALSE]

\* ptrace (PTRACE_LISTEN, t, 0, 0).
Listen(t) ==
    IF state[t] # "stop"
      THEN UNCHANGED taskVars
      ELSE IF jobctl[t]
        THEN /\ state' = [state EXCEPT ![t] = "listen"]
             /\ UNCHANGED <<stop, sig, report, call, result, jobctl>>
        ELSE /\ StopsFor(t, "trap", "none")
             /\ UNCHANGED <<call, result, jobctl>>

-----------------------------------------------------------------------------
(***************************************************************************)
(* The tracer: parent () and handle_syscall ().                            *)
(***************************************************************************)
\* PTRACE_SEIZE and PTRACE_INTERRUPT; a task stopped for job control reports
\* that at once.  A child waits for the eventfd until it is seized.
Seize ==
    /\ pc = "seize"
    /\ Alive(Root)
    /\ pc' = "first"
    /\ IF state[Root] = "halt" THEN StopsFor(Root, "group", "none")
                               ELSE UNCHANGED <<state, stop, sig, report>>
    /\ UNCHANGED <<cmd, cur, status, info, mode, saved_arch, seccomp_nr, prctl_nr, prog_idx>>
    /\ UNCHANGED <<call, result, jobctl, boundVars, loaded, printed>>

\* The seize is refused, or its task is gone: parent returns -1, its callers
\* call error (), and a child that reads 2 from the eventfd exits.
SeizeFails ==
    /\ pc = "seize"
    /\ pc' = "error"
    /\ state' = [state EXCEPT ![Root] =
                   IF cmd \in {"seize", "pid"} /\ Alive(Root) THEN "free" ELSE "gone"]
    /\ UNCHANGED <<cmd, cur, status, info, mode, saved_arch, seccomp_nr, prctl_nr, prog_idx>>
    /\ UNCHANGED <<stop, sig, report, call, result, jobctl, boundVars, loaded, printed>>

\* waitpid takes the report of t.
TakeReport(t) ==
    /\ report[t]
    /\ report' = [report EXCEPT ![t] = FALSE]
    /\ state' = [state EXCEPT ![t] = IF @ = "dead" THEN "gone" ELSE @]

\* waitpid (child_pid, &status, 0) and the first PTRACE_SYSCALL, whatever the
\* status is.  They are one step: no one else can resume the task between.
FirstStop ==
    /\ pc = "first" /\ cmd # "pid"
    /\ report[Root]
    /\ pc' = "wait"
    /\ IF state[Root] = "dead"
         THEN TakeReport(Root) /\ UNCHANGED <<stop, sig, call, result, jobctl>>
         ELSE Resume(Root, "none")
    /\ UNCHANGED <<cmd, cur, status, info, mode, saved_arch, seccomp_nr, prctl_nr, prog_idx>>
    /\ UNCHANGED <<boundVars, loaded, printed>>

\* The waitpid of pid_trace, which looks at no status either.
PidStop ==
    /\ pc = "first" /\ cmd = "pid"
    /\ TakeReport(Root)
    /\ pc' = "filters"
    /\ UNCHANGED <<cmd, cur, status, info, mode, saved_arch, seccomp_nr, prctl_nr, prog_idx>>
    /\ UNCHANGED <<stop, sig, call, result, jobctl, boundVars, loaded, printed>>

\* PTRACE_SECCOMP_GET_FILTER gives one more filter, and it is printed.
GetFilter ==
    /\ pc = "filters"
    /\ state[Root] = "stop" /\ prog_idx < filters
    /\ prog_idx' = prog_idx + 1
    /\ UNCHANGED <<cmd, pc, cur, status, info, mode, saved_arch, seccomp_nr, prctl_nr>>
    /\ UNCHANGED <<taskVars, boundVars, loaded, printed>>

\* ENOENT, or EINVAL for a task without filters: PTRACE_DETACH.
GetFilterEnds ==
    /\ pc = "filters"
    /\ state[Root] = "stop" /\ prog_idx = filters
    /\ pc' = "exit"
    /\ state' = [state EXCEPT ![Root] = "free"]
    /\ UNCHANGED <<cmd, cur, status, info, mode, saved_arch, seccomp_nr, prctl_nr, prog_idx>>
    /\ UNCHANGED <<stop, sig, report, call, result, jobctl, boundVars, loaded, printed>>

\* The task is dead (ESRCH), the first request is refused (EACCES, EINVAL
\* without the option in the kernel), or the task is in strict mode: error ()
\* or exit (0), without a detach.
GetFilterFails ==
    /\ pc = "filters"
    /\ state[Root] # "stop" \/ prog_idx = 0
    /\ pc' = "error"
    /\ UNCHANGED <<cmd, cur, status, info, mode, saved_arch, seccomp_nr, prctl_nr, prog_idx>>
    /\ UNCHANGED <<taskVars, boundVars, loaded, printed>>

\* The loop of parent () goes round; its locals and handle_syscall's are dead.
NextReport ==
    /\ pc' = "wait"
    /\ cur' = None /\ status' = "none"
    /\ info' = None /\ mode' = LOAD_ELSE
    /\ UNCHANGED <<cmd, saved_arch, seccomp_nr, prctl_nr, prog_idx>>

Wait(t) ==
    /\ pc = "wait"
    /\ TakeReport(t)
    /\ cur' = t
    /\ status' = stop[t]
    /\ pc' = "handle"
    /\ UNCHANGED <<cmd, info, mode, saved_arch, seccomp_nr, prctl_nr, prog_idx>>
    /\ UNCHANGED <<stop, sig, call, result, jobctl, boundVars, loaded, printed>>

\* Mutant of NoChild: the errno of waitpid is not looked at.
NoChildRetries ==
    /\ pc = "wait"
    /\ \A t \in Tasks : state[t] \in {"none", "gone"}
    /\ UNCHANGED vars

\* ECHILD.
NoChild ==
    /\ pc = "wait"
    /\ \A t \in Tasks : state[t] \in {"none", "gone"}
    /\ pc' = "exit"
    /\ UNCHANGED <<cmd, cur, status, info, mode, saved_arch, seccomp_nr, prctl_nr, prog_idx>>
    /\ UNCHANGED <<taskVars, boundVars, loaded, printed>>

\* What HandleStop asks of ptrace for each status that is no system call.
Mutant_EventStopListens(t, why) ==
    CASE why = "death"             -> UNCHANGED taskVars
      [] why = "fork"              -> Resume(t, "none")
      [] why \in {"trap", "group"} -> Listen(t)
      [] why = "signal"            -> Resume(t, sig[t])

Mutant_GroupStopResumed(t, why) ==
    CASE why = "death"                    -> UNCHANGED taskVars
      [] why \in {"fork", "trap", "group"} -> Resume(t, "none")
      [] why = "signal"                   -> Resume(t, sig[t])

\* An exit is only reported; a fork, and the first stop of its child, go on; a
\* group-stop is listened to; a signal is passed on.
StopRequest(t, why) ==
    CASE why = "death"            -> UNCHANGED taskVars
      [] why \in {"fork", "trap"} -> Resume(t, "none")
      [] why = "group"            -> Listen(t)
      [] why = "signal"           -> Resume(t, sig[t])

HandleStop ==
    /\ pc = "handle"
    /\ status \notin {"entry", "exit"}
    /\ StopRequest(cur, status)
    /\ NextReport
    /\ UNCHANGED <<boundVars, loaded, printed>>

\* What PTRACE_GET_SYSCALL_INFO leaves behind for task t.
SyscallInfo(t) ==
    IF state[t] = "stop" /\ stop[t] \in {"entry", "exit"}
      THEN {[op |-> stop[t], call |-> call[t], rval |-> result[t].rval]}
      ELSE Leftover

\* handle_syscall, up to the resolution of the call numbers of a new arch.
GetSyscallInfo ==
    /\ pc = "handle"
    /\ status \in {"entry", "exit"}
    /\ info' \in SyscallInfo(cur)
    /\ pc' = IF info'.op = "entry" THEN "arch" ELSE "resume"
    /\ UNCHANGED <<cmd, cur, status, mode, saved_arch, seccomp_nr, prctl_nr, prog_idx>>
    /\ UNCHANGED <<taskVars, boundVars, loaded, printed>>

\* Mutant of RefreshArch: the numbers are resolved only once.
RefreshArchOnce ==
    /\ pc = "arch"
    /\ IF saved_arch # None
         THEN pc' = "check" /\ UNCHANGED <<saved_arch, seccomp_nr, prctl_nr, prog_idx>>
         ELSE /\ saved_arch' = info.call.arch
              /\ seccomp_nr' = Nr[info.call.arch].seccomp
              /\ prctl_nr' = Nr[info.call.arch].prctl
              /\ pc' = IF prctl_nr' = NoNr THEN "error" ELSE "check"
    /\ UNCHANGED <<cmd, cur, status, info, mode, prog_idx>>
    /\ UNCHANGED <<taskVars, boundVars, loaded, printed>>

RefreshArch ==
    /\ pc = "arch"
    /\ IF info.call.arch = saved_arch
         THEN pc' = "check" /\ UNCHANGED <<saved_arch, seccomp_nr, prctl_nr, prog_idx>>
         ELSE /\ saved_arch' = info.call.arch
              /\ seccomp_nr' = Nr[info.call.arch].seccomp
              /\ prctl_nr' = Nr[info.call.arch].prctl
              /\ pc' = IF prctl_nr' = NoNr THEN "error" ELSE "check"
    /\ UNCHANGED <<cmd, cur, status, info, mode, prog_idx>>
    /\ UNCHANGED <<taskVars, boundVars, loaded, printed>>

\* Mutant of CallMode: prctl's mode is taken for seccomp's operation.
CallModeRaw(c) ==
    CASE /\ c.nr = seccomp_nr
         /\ c.arg0 \in {SECCOMP_SET_MODE_FILTER, SECCOMP_SET_MODE_STRICT} -> c.arg0
      [] c.nr # seccomp_nr /\ c.nr = prctl_nr /\ c.arg0 = PR_SET_SECCOMP -> c.arg1
      [] OTHER -> LOAD_ELSE

\* check_scmp_mode, up to the PTRACE_SYSCALL.
CallMode(c) ==
    IF /\ c.nr = seccomp_nr
       /\ c.arg0 \in {SECCOMP_SET_MODE_FILTER, SECCOMP_SET_MODE_STRICT}
      THEN c.arg0
    ELSE IF c.nr = prctl_nr /\ c.arg0 = PR_SET_SECCOMP
      THEN CASE c.arg1 = SECCOMP_MODE_STRICT -> SECCOMP_SET_MODE_STRICT
             [] c.arg1 = SECCOMP_MODE_FILTER -> SECCOMP_SET_MODE_FILTER
             [] OTHER                        -> LOAD_ELSE
    ELSE LOAD_ELSE

CallFlags(c) == IF c.nr = seccomp_nr THEN c.flags ELSE {}

CheckMode ==
    /\ pc = "check"
    /\ mode' = CallMode(info.call)
    /\ IF mode' = LOAD_ELSE
         THEN pc' = "resume" /\ UNCHANGED taskVars
         ELSE pc' = "inner" /\ Resume(cur, "none")
    /\ UNCHANGED <<cmd, cur, status, info, saved_arch, seccomp_nr, prctl_nr, prog_idx>>
    /\ UNCHANGED <<boundVars, loaded, printed>>

\* waitpid (pid, NULL, 0): whatever the report of this task is.
InnerWait ==
    /\ pc = "inner"
    /\ TakeReport(cur)
    /\ pc' = "result"
    /\ UNCHANGED <<cmd, cur, status, info, mode, saved_arch, seccomp_nr, prctl_nr, prog_idx>>
    /\ UNCHANGED <<stop, sig, call, result, jobctl, boundVars, loaded, printed>>

\* The rest of check_scmp_mode, its assertion included, and of handle_syscall.
CheckResult ==
    /\ pc = "result"
    /\ \E exit_info \in SyscallInfo(cur) :
        LET mode_ == IF Succeeds(exit_info.rval, CallFlags(info.call)) THEN mode
                                                                     ELSE LOAD_FAIL
        IN  IF exit_info.op # "exit"
              THEN pc' = "abort" /\ UNCHANGED mode
              ELSE /\ mode' = mode_
                   /\ pc' = CASE mode_ = SECCOMP_SET_MODE_FILTER -> "dump"
                              [] mode_ = SECCOMP_SET_MODE_STRICT /\ cmd = "probe" -> "done"
                              [] OTHER -> "resume"
    /\ UNCHANGED <<cmd, cur, status, info, saved_arch, seccomp_nr, prctl_nr, prog_idx>>
    /\ UNCHANGED <<taskVars, boundVars, loaded, printed>>

\* mode_filter: the filter is read from the task's memory and printed.
DumpFilter ==
    /\ pc = "dump"
    /\ IF state[cur] # "stop"
         THEN pc' = "error" /\ UNCHANGED printed
         ELSE /\ printed' = [printed EXCEPT ![cur] = @ + 1]
              /\ pc' = IF cmd = "probe" THEN "done" ELSE "resume"
    /\ UNCHANGED <<cmd, cur, status, info, mode, saved_arch, seccomp_nr, prctl_nr, prog_idx>>
    /\ UNCHANGED <<taskVars, boundVars, loaded>>

ResumeSyscall ==
    /\ pc = "resume"
    /\ Resume(cur, "none")
    /\ NextReport
    /\ UNCHANGED <<boundVars, loaded, printed>>

Tracer ==
    \/ Seize \/ SeizeFails \/ FirstStop
    \/ PidStop \/ GetFilter \/ GetFilterEnds \/ GetFilterFails
    \/ \E t \in Tasks : Wait(t)
    \/ NoChild
    \/ HandleStop
    \/ GetSyscallInfo \/ RefreshArch \/ CheckMode
    \/ InnerWait \/ CheckResult \/ DumpFilter \/ ResumeSyscall

Kernel ==
    \/ \E t \in Tasks : \/ \E c \in Calls : EnterSyscall(t, c)
                        \/ LeaveSyscall(t)
                        \/ \E u \in Tasks : Fork(t, u)
                        \/ \E s \in {"SIGSTOP", "SIGUSR1"} : Signal(t, s)
                        \/ Continue(t)
                        \/ Die(t)
    \/ Interrupted
    \/ Release

\* The command has ended and nothing of it is left.
Terminated ==
    /\ pc \in Ended
    /\ \A t \in Tasks : ~Alive(t)
    /\ UNCHANGED vars

Next == Tracer \/ Kernel \/ Terminated

Spec == Init /\ [][Next]_vars

\* The tracer runs; the kernel interrupts the task it was asked to, returns
\* from a call that sets a mode, and cleans up after a process that has ended.
\* Nothing else a task may do is assumed to happen.
FairSpec ==
    /\ Spec
    /\ WF_vars(Tracer)
    /\ WF_vars(Interrupted)
    /\ WF_vars(Release)
    /\ \A t \in Tasks :
         WF_vars(call[t] # None /\ CallDoes(call[t]) # "other" /\ LeaveSyscall(t))

-----------------------------------------------------------------------------
TypeOK ==
    /\ cmd \in {"program", "probe", "seize", "pid"}
    /\ pc \in {"seize", "first", "filters", "wait", "handle", "arch", "check", "inner",
               "result", "dump", "resume"} \cup Ended
    /\ cur \in Tasks \cup {None}
    /\ status \in {"none", "entry", "exit", "fork", "trap", "group", "signal", "death"}
    /\ info \in AnyInfo \cup {None}
    /\ mode \in {SECCOMP_SET_MODE_STRICT, SECCOMP_SET_MODE_FILTER, LOAD_FAIL, LOAD_ELSE}
    /\ saved_arch \in DOMAIN Nr \cup {None}
    /\ \A t \in Tasks :
        /\ state[t] \in {"none", "run", "stop", "listen", "halt", "dead", "gone",
                         "killed", "free"}
        /\ call[t] \in Calls \cup {None}

\* Every filter a task has loaded is printed, once, before the task runs on,
\* and nothing is printed for a load that failed: whatever arch the tasks
\* between have made their calls on, and whichever task dies meanwhile
\* (handle_syscall and check_scmp_mode, trace.c).
LoadsPrinted ==
    \A t \in Tasks : pc \notin Ended /\ state[t] = "run" /\ call[t] = None
                        => printed[t] = loaded[t]

\* Once it is attached, the tracer ends no group-stop: a task stopped for job
\* control goes on only on SIGCONT or on its death ("process group-stop", the
\* PTRACE_LISTEN of trace.c).
GroupStopKept ==
    [][\A t \in Tasks : jobctl[t] /\ ~jobctl'[t]
         => Continue(t) \/ Die(t) \/ pc = "first"]_vars

\* No task is left in a stop: not when a fork's two stops come in the wrong
\* order, not while the tracer waits for one task only, and not when that task
\* dies instead (the inner waitpid of check_scmp_mode).
StopsEnd ==
    \A t \in Tasks : state[t] = "stop" ~> state[t] # "stop"

\* When every task is gone the tracer ends too: no death leaves it waiting
\* (ECHILD in parent).
TracerEnds ==
    (\A t \in Tasks : state[t] \in {"none", "dead", "gone"}) ~> pc \in Ended

\* "assert (exit_info.op == PTRACE_SYSCALL_INFO_EXIT)" (check_scmp_mode,
\* trace.c:110): the stop that the inner waitpid takes, and that ptrace is then
\* asked about, is the exit of the call, whatever happens to the task after its
\* entry.
ExitFollowsEntry == pc # "abort"
=============================================================================
