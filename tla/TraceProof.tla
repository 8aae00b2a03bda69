----------------------------- MODULE TraceProof -----------------------------
(***************************************************************************)
(* trace prints every load once before its task runs on, and ends no       *)
(* group-stop, for every set of tasks, arches and calls and whatever a     *)
(* syscall_info that was never set holds.                                  *)
(***************************************************************************)
EXTENDS Trace, SeccompLoadProof

States == {"none", "run", "stop", "listen", "halt", "dead", "gone", "killed", "free"}
Whys == {"none", "entry", "exit", "fork", "trap", "group", "signal", "death"}
Modes == {SECCOMP_SET_MODE_STRICT, SECCOMP_SET_MODE_FILTER, LOAD_FAIL, LOAD_ELSE}
Results == {[rval |-> Errno, loaded |-> FALSE], [rval |-> ThreadId, loaded |-> FALSE],
            [rval |-> ListenerFd, loaded |-> TRUE], [rval |-> 0, loaded |-> TRUE], NoResult}

\* Between a waitpid of the loop of parent () and the next.
Handling == {"handle", "arch", "check", "inner", "result", "dump", "resume"}
\* Past check_scmp_mode's PTRACE_SYSCALL.
Serving == {"inner", "result", "dump", "resume"}

Signals == {"none", "SIGSTOP", "SIGUSR1"}

TracerTypes ==
    /\ cmd \in {"program", "probe", "seize", "pid"}
    /\ pc \in {"seize", "first", "filters", "wait"} \cup Handling \cup Ended
    /\ cur \in Tasks \cup {None}
    /\ status \in Whys
    /\ info \in AnyInfo \cup {None}
    /\ mode \in Modes
    /\ saved_arch \in DOMAIN Nr \cup {None}

TaskTypes ==
    /\ state \in [Tasks -> States]
    /\ stop \in [Tasks -> Whys]
    /\ sig \in [Tasks -> Signals]
    /\ report \in [Tasks -> BOOLEAN]
    /\ call \in [Tasks -> Calls \cup {None}]
    /\ result \in [Tasks -> Results]
    /\ jobctl \in [Tasks -> BOOLEAN]

HistoryTypes == loaded \in [Tasks -> Nat] /\ printed \in [Tasks -> Nat]

TypeInv == TracerTypes /\ TaskTypes /\ HistoryTypes

\* The numbers are those of the arch they were resolved for, which is the one
\* of the call that is looked at.
ArchInv ==
    /\ saved_arch # None => /\ seccomp_nr = Nr[saved_arch].seccomp
                            /\ prctl_nr = Nr[saved_arch].prctl
    /\ pc \in {"arch", "check", "inner", "result", "dump"} => info \in AnyInfo
    /\ pc \in {"check", "inner", "result", "dump"} => saved_arch = info.call.arch

\* What a task's state says of its stop, its call and its report.
TaskInv ==
    \A t \in Tasks :
        /\ report[t] => state[t] \in {"stop", "dead"} /\ stop[t] # "none"
        /\ state[t] \in {"none", "halt", "listen"} => call[t] = None
        /\ state[t] = "stop" => stop[t] \notin {"none", "death"}
        /\ state[t] = "stop" /\ stop[t] \in {"trap", "group", "signal"} => call[t] = None
        /\ state[t] = "stop" /\ stop[t] \in {"entry", "exit", "fork"} => call[t] # None
        /\ state[t] = "stop" /\ stop[t] = "fork" => CallDoes(call[t]) = "other"
        /\ jobctl[t] => \/ state[t] \in {"listen", "halt"}
                        \/ state[t] = "stop" /\ stop[t] = "group"
        /\ pc \in {"seize", "first"} => call[t] = None

\* What the tracer knows of the task it holds, unless that has died.
CurInv ==
    /\ pc \in Handling => /\ cur \in Tasks
                          /\ \/ state[cur] \in {"stop", "dead", "gone"}
                             \/ pc = "inner" /\ state[cur] = "run"
    /\ pc = "handle" => /\ status # "none"
                        /\ state[cur] = "stop" => stop[cur] = status /\ ~report[cur]
    /\ pc \in {"arch", "check"} /\ state[cur] = "stop" => stop[cur] = "entry" /\ info.call = call[cur]
    /\ pc \in {"inner", "result"} /\ state[cur] \in {"run", "stop"} =>
         /\ call[cur] = info.call /\ mode # LOAD_ELSE /\ CallDoes(info.call) # "other"
         /\ mode = SECCOMP_SET_MODE_FILTER <=> CallDoes(info.call) = "filter"
         /\ state[cur] = "stop" => stop[cur] = "exit"
    /\ pc = "dump" /\ state[cur] = "stop" =>
         /\ stop[cur] = "exit" /\ CallDoes(call[cur]) = "filter"
         /\ loaded[cur] = printed[cur] + 1
    /\ pc = "resume" /\ state[cur] = "stop" =>
         /\ stop[cur] = "exit" \/ (stop[cur] = "entry" /\ CallDoes(call[cur]) # "filter")
         /\ printed[cur] = loaded[cur]

\* Task t has been let into a call that loads a filter.
InLoad(t) ==
    /\ call[t] # None /\ CallDoes(call[t]) = "filter"
    /\ state[t] = "run" \/ (state[t] = "stop" /\ stop[t] = "exit")

\* The tracer waits for the one task that is loading a filter, and all others
\* have their loads printed.
LoadInv ==
    \A t \in Tasks :
        /\ InLoad(t) => cur = t /\ pc \in Serving
        /\ InLoad(t) /\ state[t] = "stop" /\ pc \in {"inner", "result"} =>
             /\ result[t] \in Outcomes(call[t])
             /\ loaded[t] = IF result[t].loaded THEN printed[t] + 1 ELSE printed[t]
        /\ state[t] = "none" \/ (Alive(t) /\ ~InLoad(t)) => printed[t] = loaded[t]
        /\ InLoad(t) /\ state[t] = "run" => printed[t] = loaded[t]

Inv == TypeInv /\ (pc \notin Ended => ArchInv /\ TaskInv /\ CurInv /\ LoadInv)

-----------------------------------------------------------------------------
\* check_scmp_mode knows what the call does when it has the numbers of its arch.
LEMMA ModeKnown ==
    ASSUME NEW c \in Calls, seccomp_nr = Nr[c.arch].seccomp, prctl_nr = Nr[c.arch].prctl
    PROVE  /\ CallMode(c) \in Modes
           /\ CallMode(c) = SECCOMP_SET_MODE_FILTER <=> CallDoes(c) = "filter"
           /\ CallMode(c) = LOAD_ELSE <=> CallDoes(c) = "other"
  BY DEF CallMode, CallDoes, Modes, SECCOMP_SET_MODE_FILTER, SECCOMP_SET_MODE_STRICT, LOAD_FAIL,
         LOAD_ELSE, PR_SET_SECCOMP, SECCOMP_MODE_FILTER, SECCOMP_MODE_STRICT

\* A load of a filter is known by its value, and the values are those of results.
LEMMA LoadKnown ==
    ASSUME NEW c \in Calls
    PROVE  /\ Outcomes(c) \subseteq Results
           /\ seccomp_nr = Nr[c.arch].seccomp /\ CallDoes(c) = "filter" =>
                \A r \in Outcomes(c) : Succeeds(r.rval, CallFlags(c)) <=> r.loaded
<1> DEFINE flags == IF c.nr = Nr[c.arch].seccomp THEN c.flags ELSE {}
<1>1. flags \in SUBSET Flags
  BY TraceAssumption DEF TraceAssumption, CallType
<1> HIDE DEF flags
<1>2. FilterOutcomes(flags) \subseteq Results
  BY DEF FilterOutcomes, Results
<1>3. StrictOutcomes(flags) \subseteq Results
  BY DEF StrictOutcomes, Results
<1>4. Outcomes(c) = CASE CallDoes(c) = "filter" -> FilterOutcomes(flags)
                      [] CallDoes(c) = "strict" -> StrictOutcomes(flags)
                      [] OTHER                  -> {NoResult}
  BY DEF Outcomes, flags
<1>5. Outcomes(c) \subseteq Results
  <2>1. NoResult \in Results
    BY DEF Results
  <2>2. \/ Outcomes(c) = FilterOutcomes(flags)
        \/ Outcomes(c) = StrictOutcomes(flags)
        \/ Outcomes(c) = {NoResult}
    BY <1>4
  <2> QED
    BY <1>2, <1>3, <2>1, <2>2
<1>6. ASSUME seccomp_nr = Nr[c.arch].seccomp, CallDoes(c) = "filter", NEW r \in Outcomes(c)
      PROVE  Succeeds(r.rval, CallFlags(c)) <=> r.loaded
  <2>1. CallFlags(c) = flags
    BY <1>6 DEF CallFlags, flags
  <2>2. r \in FilterOutcomes(flags)
    BY <1>4, <1>6
  <2> QED
    BY <1>1, <2>1, <2>2, SucceedsExact
<1> QED
  BY <1>5, <1>6

LEMMA InitInv == Init => Inv
<1> SUFFICES ASSUME Init PROVE Inv
  OBVIOUS
<1>1. TypeInv
  BY TraceAssumption DEF Init, TypeInv, TracerTypes, TaskTypes, HistoryTypes, TraceAssumption,
     Whys,
         Modes, States, Results, Signals
<1>2. ArchInv /\ TaskInv /\ CurInv
  BY DEF Init, ArchInv, TaskInv, CurInv, Handling
<1>3. LoadInv
  BY DEF Init, LoadInv, InLoad
<1> QED
  BY <1>1, <1>2, <1>3 DEF Inv

-----------------------------------------------------------------------------
\* The requests keep the types.
LEMMA ConstantTypes ==
    /\ Root \in Tasks /\ None \notin Tasks /\ None \notin DOMAIN Nr
    /\ None \notin Calls /\ None \notin AnyInfo
  BY TraceAssumption DEF TraceAssumption

LEMMA StopsForTypes ==
    ASSUME TaskTypes, NEW t \in Tasks, NEW why \in Whys, NEW signal \in Signals,
           StopsFor(t, why, signal)
    PROVE  /\ state' \in [Tasks -> States] /\ stop' \in [Tasks -> Whys]
           /\ sig' \in [Tasks -> Signals] /\ report' \in [Tasks -> BOOLEAN]
<1>1. state' \in [Tasks -> States] /\ stop' \in [Tasks -> Whys] /\ sig' \in [Tasks -> Signals]
  BY DEF TaskTypes, StopsFor, States
<1>2. report' \in [Tasks -> BOOLEAN]
  BY DEF TaskTypes, StopsFor
<1> QED
  BY <1>1, <1>2

LEMMA TakeReportTypes ==
    ASSUME TaskTypes, NEW t \in Tasks, TakeReport(t), UNCHANGED <<stop, sig, call, result, jobctl>>
    PROVE  TaskTypes'
<1>1. state' \in [Tasks -> States]
  BY DEF TaskTypes, TakeReport, States
<1>2. report' \in [Tasks -> BOOLEAN]
  BY DEF TaskTypes, TakeReport
<1> QED
  BY <1>1, <1>2 DEF TaskTypes

LEMMA ResumeTypes ==
    ASSUME TaskTypes, NEW t \in Tasks, NEW signal, Resume(t, signal)
    PROVE  TaskTypes'
<1>1. CASE state[t] # "stop"
  BY <1>1 DEF Resume, taskVars, TaskTypes
<1>2. CASE state[t] = "stop"
  <2>1. call' \in [Tasks -> Calls \cup {None}] /\ result' \in [Tasks -> Results]
    BY <1>2 DEF Resume, TaskTypes, Results
  <2>2. jobctl' \in [Tasks -> BOOLEAN]
    BY <1>2 DEF Resume, TaskTypes
  <2>3. CASE signal = "SIGSTOP"
    <3>1. StopsFor(t, "group", "none")
      BY <1>2, <2>3 DEF Resume
    <3> QED
      BY <2>1, <2>2, <3>1, StopsForTypes DEF TaskTypes, Whys, Signals
  <2>4. CASE signal # "SIGSTOP"
    <3>1. state' \in [Tasks -> States] /\ stop' \in [Tasks -> Whys] /\ sig' \in [Tasks -> Signals]
      BY <1>2, <2>4 DEF Resume, TaskTypes, States, Whys, Signals
    <3>2. report' \in [Tasks -> BOOLEAN]
      BY <1>2, <2>4 DEF Resume, TaskTypes
    <3> QED
      BY <2>1, <2>2, <3>1, <3>2 DEF TaskTypes
  <2> QED
    BY <2>3, <2>4
<1> QED
  BY <1>1, <1>2

LEMMA ListenTypes ==
    ASSUME TaskTypes, NEW t \in Tasks, Listen(t)
    PROVE  TaskTypes'
<1>1. CASE state[t] # "stop"
  BY <1>1 DEF Listen, taskVars, TaskTypes
<1>2. CASE state[t] = "stop" /\ jobctl[t]
  <2>1. state' \in [Tasks -> States] /\ UNCHANGED <<stop, sig, report, call, result, jobctl>>
    BY <1>2 DEF Listen, TaskTypes, States
  <2> QED
    BY <2>1 DEF TaskTypes
<1>3. CASE state[t] = "stop" /\ ~jobctl[t]
  <2>1. StopsFor(t, "trap", "none") /\ UNCHANGED <<call, result, jobctl>>
    BY <1>3 DEF Listen
  <2> QED
    BY <2>1, StopsForTypes DEF TaskTypes, Whys, Signals
<1> QED
  BY <1>1, <1>2, <1>3

-----------------------------------------------------------------------------

-----------------------------------------------------------------------------
\* What tasks and the kernel do.

LEMMA EnterSyscallInv ==
    ASSUME Inv, NEW t \in Tasks, NEW c \in Calls, EnterSyscall(t, c)
    PROVE  Inv'
<1>1. TypeInv
  BY DEF Inv
<1>2. TypeInv'
  <2>1. TracerTypes'
    BY <1>1 DEF TypeInv, TracerTypes, EnterSyscall, tracerVars
  <2>2. TaskTypes'
    <3>1. StopsFor(t, "entry", "none") /\ UNCHANGED <<result, jobctl>>
      BY DEF EnterSyscall
    <3>2. call' \in [Tasks -> Calls \cup {None}]
      BY <1>1 DEF EnterSyscall, TypeInv, TaskTypes
    <3> QED
      BY <1>1, <3>1, <3>2, StopsForTypes DEF TypeInv, TaskTypes, Whys, Signals
  <2>3. HistoryTypes'
    BY <1>1 DEF TypeInv, HistoryTypes, EnterSyscall
  <2> QED
    BY <2>1, <2>2, <2>3 DEF TypeInv
<1>3. ASSUME pc' \notin Ended PROVE ArchInv'
  BY <1>3 DEF Inv, ArchInv, EnterSyscall, StopsFor, SyscallTraced, tracerVars, taskVars,
     boundVars, Handling, Ended
<1>4. ASSUME pc' \notin Ended PROVE TaskInv'
  BY <1>1, <1>4, ConstantTypes DEF Inv, TypeInv, TracerTypes, TaskTypes, HistoryTypes, TaskInv,
     CurInv, EnterSyscall, StopsFor, SyscallTraced, tracerVars, taskVars, boundVars, Handling,
     Ended, Alive
<1>5. ASSUME pc' \notin Ended PROVE CurInv'
  <2>1. pc \notin Ended
    BY <1>5 DEF EnterSyscall, tracerVars, SyscallTraced
  <2>2. ASSUME pc \in Handling, cur = t PROVE FALSE
    <3>1. pc = "inner" /\ state[cur] = "run" /\ call[cur] = None
      BY <2>1, <2>2 DEF Inv, CurInv, EnterSyscall
    <3>2. info \in AnyInfo /\ call[cur] = info.call
      BY <2>1, <3>1 DEF Inv, ArchInv, CurInv
    <3>3. call[cur] \in Calls
      BY <3>2 DEF AnyInfo
    <3> QED
      BY <3>1, <3>3, ConstantTypes
  <2> QED
    BY <1>1, <2>1, <2>2 DEF Inv, TypeInv, TaskTypes, CurInv, EnterSyscall, StopsFor, tracerVars,
       Handling
<1>6. ASSUME pc' \notin Ended PROVE LoadInv'
  BY <1>1, <1>6, ConstantTypes DEF Inv, TypeInv, TracerTypes, TaskTypes, HistoryTypes, TaskInv,
     CurInv, LoadInv, EnterSyscall, StopsFor, SyscallTraced, tracerVars, taskVars, boundVars,
     Handling, Serving, Ended, InLoad, Alive
<1> QED
  BY <1>2, <1>3, <1>4, <1>5, <1>6 DEF Inv

LEMMA LeaveSyscallInv ==
    ASSUME Inv, NEW t \in Tasks, LeaveSyscall(t)
    PROVE  Inv'
<1>1. TypeInv
  BY DEF Inv
<1>2. TypeInv'
  <2>1. TracerTypes'
    BY <1>1 DEF TypeInv, TracerTypes, LeaveSyscall, tracerVars
  <2>2. TaskTypes'
    <3>1. StopsFor(t, "exit", "none") /\ UNCHANGED <<call, jobctl>>
      BY DEF LeaveSyscall
    <3>2. call[t] \in Calls
      BY <1>1 DEF LeaveSyscall, TypeInv, TaskTypes
    <3>3. PICK r \in Outcomes(call[t]) : result' = [result EXCEPT ![t] = r]
      BY DEF LeaveSyscall
    <3>4. r \in Results
      BY <3>2, <3>3, LoadKnown
    <3>5. result' \in [Tasks -> Results]
      BY <1>1, <3>3, <3>4 DEF TypeInv, TaskTypes
    <3> QED
      BY <1>1, <3>1, <3>5, StopsForTypes DEF TypeInv, TaskTypes, Whys, Signals
  <2>3. HistoryTypes'
    BY <1>1 DEF TypeInv, HistoryTypes, LeaveSyscall
  <2> QED
    BY <2>1, <2>2, <2>3 DEF TypeInv
<1>3. ASSUME pc' \notin Ended PROVE ArchInv'
  BY <1>3 DEF Inv, ArchInv, LeaveSyscall, StopsFor, tracerVars, taskVars, boundVars, Handling,
     Ended
<1>4. ASSUME pc' \notin Ended PROVE TaskInv'
  BY <1>1, <1>4, ConstantTypes DEF Inv, TypeInv, TracerTypes, TaskTypes, HistoryTypes, TaskInv,
     CurInv, LeaveSyscall, StopsFor, tracerVars, taskVars, boundVars, Handling, Ended, Alive
<1>5. ASSUME pc' \notin Ended PROVE CurInv'
  BY <1>1, <1>5, ConstantTypes DEF Inv, TypeInv, TracerTypes, TaskTypes, HistoryTypes, TaskInv,
     CurInv, LoadInv, LeaveSyscall, StopsFor, tracerVars, taskVars, boundVars, Handling,
     Serving, Ended, InLoad, Alive
<1>6. ASSUME pc' \notin Ended PROVE LoadInv'
  BY <1>1, <1>6, ConstantTypes DEF Inv, TypeInv, TracerTypes, TaskTypes, HistoryTypes, TaskInv,
     CurInv, LoadInv, LeaveSyscall, StopsFor, tracerVars, taskVars, boundVars, Handling,
     Serving, Ended, InLoad, Alive
<1> QED
  BY <1>2, <1>3, <1>4, <1>5, <1>6 DEF Inv

LEMMA ForkInv ==
    ASSUME Inv, NEW t \in Tasks, NEW u \in Tasks, Fork(t, u)
    PROVE  Inv'
<1>1. TypeInv
  BY DEF Inv
<1>2. TypeInv'
  <2>1. TracerTypes'
    BY <1>1 DEF TypeInv, TracerTypes, Fork, tracerVars
  <2>2. TaskTypes'
    <3>1. state' \in [Tasks -> States] /\ stop' \in [Tasks -> Whys]
      BY <1>1 DEF TypeInv, TaskTypes, Fork, States, Whys
    <3>2. report' \in [Tasks -> BOOLEAN]
      BY <1>1 DEF TypeInv, TaskTypes, Fork
    <3> QED
      BY <1>1, <3>1, <3>2 DEF TypeInv, TaskTypes, Fork
  <2>3. HistoryTypes'
    BY <1>1 DEF TypeInv, HistoryTypes, Fork
  <2> QED
    BY <2>1, <2>2, <2>3 DEF TypeInv
<1>3. ASSUME pc' \notin Ended PROVE ArchInv'
  BY <1>3 DEF Inv, ArchInv, Fork, SyscallTraced, tracerVars, taskVars, boundVars, Handling, Ended
<1>4. ASSUME pc' \notin Ended PROVE TaskInv'
  BY <1>1, <1>4, ConstantTypes DEF Inv, TypeInv, TracerTypes, TaskTypes, HistoryTypes, TaskInv,
     CurInv, Fork, SyscallTraced, tracerVars, taskVars, boundVars, Handling, Ended, Alive
<1>5. ASSUME pc' \notin Ended PROVE CurInv'
  BY <1>1, <1>5, ConstantTypes DEF Inv, TypeInv, TracerTypes, TaskTypes, HistoryTypes, TaskInv,
     CurInv, LoadInv, Fork, SyscallTraced, tracerVars, taskVars, boundVars, Handling, Serving,
     Ended, InLoad, Alive
<1>6. ASSUME pc' \notin Ended PROVE LoadInv'
  BY <1>1, <1>6, ConstantTypes DEF Inv, TypeInv, TracerTypes, TaskTypes, HistoryTypes, TaskInv,
     CurInv, LoadInv, Fork, SyscallTraced, tracerVars, taskVars, boundVars, Handling, Serving,
     Ended, InLoad, Alive
<1> QED
  BY <1>2, <1>3, <1>4, <1>5, <1>6 DEF Inv

LEMMA InterruptedInv ==
    ASSUME Inv, Interrupted
    PROVE  Inv'
<1>1. TypeInv
  BY DEF Inv
<1>2. TypeInv'
  <2>1. TracerTypes'
    BY <1>1 DEF TypeInv, TracerTypes, Interrupted, tracerVars
  <2>2. TaskTypes'
    BY <1>1, ConstantTypes, StopsForTypes DEF TypeInv, TaskTypes, Interrupted, Whys, Signals
  <2>3. HistoryTypes'
    BY <1>1 DEF TypeInv, HistoryTypes, Interrupted
  <2> QED
    BY <2>1, <2>2, <2>3 DEF TypeInv
<1>3. ASSUME pc' \notin Ended PROVE ArchInv'
  BY <1>3 DEF Inv, ArchInv, Interrupted, StopsFor, tracerVars, taskVars, boundVars, Handling,
     Ended
<1>4. ASSUME pc' \notin Ended PROVE TaskInv'
  BY <1>1, <1>4, ConstantTypes DEF Inv, TypeInv, TracerTypes, TaskTypes, HistoryTypes, TaskInv,
     CurInv, Interrupted, StopsFor, tracerVars, taskVars, boundVars, Handling, Ended, Alive
<1>5. ASSUME pc' \notin Ended PROVE CurInv'
  BY <1>1, <1>5, ConstantTypes DEF Inv, TypeInv, TracerTypes, TaskTypes, HistoryTypes, TaskInv,
     CurInv, LoadInv, Interrupted, StopsFor, tracerVars, taskVars, boundVars, Handling, Serving,
     Ended, InLoad, Alive
<1>6. ASSUME pc' \notin Ended PROVE LoadInv'
  BY <1>1, <1>6, ConstantTypes DEF Inv, TypeInv, TracerTypes, TaskTypes, HistoryTypes, TaskInv,
     CurInv, LoadInv, Interrupted, StopsFor, tracerVars, taskVars, boundVars, Handling, Serving,
     Ended, InLoad, Alive
<1> QED
  BY <1>2, <1>3, <1>4, <1>5, <1>6 DEF Inv

LEMMA SignalInv ==
    ASSUME Inv, NEW t \in Tasks, NEW s \in {"SIGSTOP", "SIGUSR1"}, Signal(t, s)
    PROVE  Inv'
<1>1. TypeInv
  BY DEF Inv
<1>2. TypeInv'
  <2>1. TracerTypes'
    BY <1>1 DEF TypeInv, TracerTypes, Signal, tracerVars
  <2>2. TaskTypes'
    BY <1>1, StopsForTypes DEF TypeInv, TaskTypes, Signal, Whys, Signals
  <2>3. HistoryTypes'
    BY <1>1 DEF TypeInv, HistoryTypes, Signal
  <2> QED
    BY <2>1, <2>2, <2>3 DEF TypeInv
<1>3. ASSUME pc' \notin Ended PROVE ArchInv'
  BY <1>3 DEF Inv, ArchInv, Signal, StopsFor, tracerVars, taskVars, boundVars, Handling, Ended
<1>4. ASSUME pc' \notin Ended PROVE TaskInv'
  BY <1>1, <1>4, ConstantTypes DEF Inv, TypeInv, TracerTypes, TaskTypes, HistoryTypes, TaskInv,
     CurInv, Signal, StopsFor, tracerVars, taskVars, boundVars, Handling, Ended, Alive
<1>5. ASSUME pc' \notin Ended PROVE CurInv'
  <2>1. pc \notin Ended
    BY <1>5 DEF Signal, tracerVars, SyscallTraced
  <2>2. ASSUME pc \in Handling, cur = t PROVE FALSE
    <3>1. pc = "inner" /\ state[cur] = "run" /\ call[cur] = None
      BY <2>1, <2>2 DEF Inv, CurInv, Signal
    <3>2. info \in AnyInfo /\ call[cur] = info.call
      BY <2>1, <3>1 DEF Inv, ArchInv, CurInv
    <3>3. call[cur] \in Calls
      BY <3>2 DEF AnyInfo
    <3> QED
      BY <3>1, <3>3, ConstantTypes
  <2> QED
    BY <1>1, <2>1, <2>2 DEF Inv, TypeInv, TaskTypes, CurInv, Signal, StopsFor, tracerVars,
       Handling
<1>6. ASSUME pc' \notin Ended PROVE LoadInv'
  BY <1>1, <1>6, ConstantTypes DEF Inv, TypeInv, TracerTypes, TaskTypes, HistoryTypes, TaskInv,
     CurInv, LoadInv, Signal, StopsFor, tracerVars, taskVars, boundVars, Handling, Serving,
     Ended, InLoad, Alive
<1> QED
  BY <1>2, <1>3, <1>4, <1>5, <1>6 DEF Inv

LEMMA ContinueInv ==
    ASSUME Inv, NEW t \in Tasks, Continue(t)
    PROVE  Inv'
<1>1. TypeInv
  BY DEF Inv
<1>2. TypeInv'
  <2>1. TracerTypes'
    BY <1>1 DEF TypeInv, TracerTypes, Continue, tracerVars
  <2>2. TaskTypes'
    <3>1. jobctl' \in [Tasks -> BOOLEAN] /\ UNCHANGED <<call, result>>
      BY <1>1 DEF TypeInv, TaskTypes, Continue
    <3>2. StopsFor(t, "trap", "none") \/ UNCHANGED <<state, stop, sig, report>>
      BY DEF Continue
    <3> QED
      BY <1>1, <3>1, <3>2, StopsForTypes DEF TypeInv, TaskTypes, Whys, Signals
  <2>3. HistoryTypes'
    BY <1>1 DEF TypeInv, HistoryTypes, Continue
  <2> QED
    BY <2>1, <2>2, <2>3 DEF TypeInv
<1>3. ASSUME pc' \notin Ended PROVE ArchInv'
  BY <1>3 DEF Inv, ArchInv, Continue, StopsFor, tracerVars, taskVars, boundVars, Handling, Ended
<1>4. ASSUME pc' \notin Ended PROVE TaskInv'
  BY <1>1, <1>4, ConstantTypes DEF Inv, TypeInv, TracerTypes, TaskTypes, HistoryTypes, TaskInv,
     CurInv, Continue, StopsFor, tracerVars, taskVars, boundVars, Handling, Ended, Alive
<1>5. ASSUME pc' \notin Ended PROVE CurInv'
  BY <1>1, <1>5, ConstantTypes DEF Inv, TypeInv, TracerTypes, TaskTypes, HistoryTypes, TaskInv,
     CurInv, LoadInv, Continue, StopsFor, tracerVars, taskVars, boundVars, Handling, Serving,
     Ended, InLoad, Alive
<1>6. ASSUME pc' \notin Ended PROVE LoadInv'
  BY <1>1, <1>6, ConstantTypes DEF Inv, TypeInv, TracerTypes, TaskTypes, HistoryTypes, TaskInv,
     CurInv, LoadInv, Continue, StopsFor, tracerVars, taskVars, boundVars, Handling, Serving,
     Ended, InLoad, Alive
<1> QED
  BY <1>2, <1>3, <1>4, <1>5, <1>6 DEF Inv

LEMMA DieInv ==
    ASSUME Inv, NEW t \in Tasks, Die(t)
    PROVE  Inv'
<1>1. TypeInv
  BY DEF Inv
<1>2. TypeInv'
  <2>1. TracerTypes'
    BY <1>1 DEF TypeInv, TracerTypes, Die, tracerVars
  <2>2. TaskTypes'
    <3>1. /\ state' \in [Tasks -> States] /\ stop' \in [Tasks -> Whys] /\ sig' \in [Tasks -> Signals]
          /\ call' \in [Tasks -> Calls \cup {None}] /\ result' \in [Tasks -> Results]
      BY <1>1 DEF TypeInv, TaskTypes, Die, States, Whys, Signals, Results
    <3>2. report' \in [Tasks -> BOOLEAN] /\ jobctl' \in [Tasks -> BOOLEAN]
      BY <1>1 DEF TypeInv, TaskTypes, Die
    <3> QED
      BY <3>1, <3>2 DEF TaskTypes
  <2>3. HistoryTypes'
    BY <1>1 DEF TypeInv, HistoryTypes, Die
  <2> QED
    BY <2>1, <2>2, <2>3 DEF TypeInv
<1>3. ASSUME pc' \notin Ended PROVE ArchInv'
  BY <1>3 DEF Inv, ArchInv, Die, tracerVars, taskVars, boundVars, Handling, Ended
<1>4. ASSUME pc' \notin Ended PROVE TaskInv'
  BY <1>1, <1>4, ConstantTypes DEF Inv, TypeInv, TracerTypes, TaskTypes, HistoryTypes, TaskInv,
     CurInv, Die, tracerVars, taskVars, boundVars, Handling, Ended, Alive
<1>5. ASSUME pc' \notin Ended PROVE CurInv'
  BY <1>1, <1>5, ConstantTypes DEF Inv, TypeInv, TracerTypes, TaskTypes, HistoryTypes, TaskInv,
     CurInv, LoadInv, Die, tracerVars, taskVars, boundVars, Handling, Serving, Ended, InLoad,
     Alive
<1>6. ASSUME pc' \notin Ended PROVE LoadInv'
  BY <1>1, <1>6, ConstantTypes DEF Inv, TypeInv, TracerTypes, TaskTypes, HistoryTypes, TaskInv,
     CurInv, LoadInv, Die, tracerVars, taskVars, boundVars, Handling, Serving, Ended, InLoad,
     Alive
<1> QED
  BY <1>2, <1>3, <1>4, <1>5, <1>6 DEF Inv

-----------------------------------------------------------------------------
\* What the tracer does.

LEMMA SeizeInv ==
    ASSUME Inv, Seize
    PROVE  Inv'
<1>1. TypeInv
  BY DEF Inv
<1>2. TypeInv'
  <2>1. TracerTypes'
    BY <1>1 DEF TypeInv, TracerTypes, Seize, Handling, Ended
  <2>2. TaskTypes'
    <3>1. StopsFor(Root, "group", "none") \/ UNCHANGED <<state, stop, sig, report>>
      BY DEF Seize
    <3>2. UNCHANGED <<call, result, jobctl>>
      BY DEF Seize
    <3> QED
      BY <1>1, <3>1, <3>2, ConstantTypes, StopsForTypes DEF TypeInv, TaskTypes, Whys, Signals
  <2>3. HistoryTypes'
    BY <1>1 DEF TypeInv, HistoryTypes, Seize
  <2> QED
    BY <2>1, <2>2, <2>3 DEF TypeInv
<1>3. ASSUME pc' \notin Ended PROVE ArchInv'
  BY <1>3 DEF Inv, ArchInv, Seize, StopsFor, tracerVars, taskVars, boundVars, Handling, Ended
<1>4. ASSUME pc' \notin Ended PROVE TaskInv'
  BY <1>1, <1>4, ConstantTypes DEF Inv, TypeInv, TracerTypes, TaskTypes, HistoryTypes, TaskInv,
     CurInv, Seize, StopsFor, tracerVars, taskVars, boundVars, Handling, Ended, Alive
<1>5. ASSUME pc' \notin Ended PROVE CurInv'
  BY <1>1, <1>5, ConstantTypes DEF Inv, TypeInv, TracerTypes, TaskTypes, HistoryTypes, TaskInv,
     CurInv, LoadInv, Seize, StopsFor, tracerVars, taskVars, boundVars, Handling, Serving,
     Ended, InLoad, Alive
<1>6. ASSUME pc' \notin Ended PROVE LoadInv'
  BY <1>1, <1>6, ConstantTypes DEF Inv, TypeInv, TracerTypes, TaskTypes, HistoryTypes, TaskInv,
     CurInv, LoadInv, Seize, StopsFor, tracerVars, taskVars, boundVars, Handling, Serving,
     Ended, InLoad, Alive
<1> QED
  BY <1>2, <1>3, <1>4, <1>5, <1>6 DEF Inv

LEMMA FirstStopInv ==
    ASSUME Inv, FirstStop
    PROVE  Inv'
<1>1. TypeInv
  BY DEF Inv
<1>2. TypeInv'
  <2>1. TracerTypes'
    BY <1>1 DEF TypeInv, TracerTypes, FirstStop, Handling, Ended
  <2>2. TaskTypes'
    BY <1>1, ConstantTypes, TakeReportTypes, ResumeTypes DEF TypeInv, FirstStop
  <2>3. HistoryTypes'
    BY <1>1 DEF TypeInv, HistoryTypes, FirstStop
  <2> QED
    BY <2>1, <2>2, <2>3 DEF TypeInv
<1>3. ASSUME pc' \notin Ended PROVE ArchInv'
  BY <1>3 DEF Inv, ArchInv, FirstStop, TakeReport, Resume, StopsFor, tracerVars, taskVars,
     boundVars, Handling, Ended
<1>4. ASSUME pc' \notin Ended PROVE TaskInv'
  BY <1>1, <1>4, ConstantTypes DEF Inv, TypeInv, TracerTypes, TaskTypes, HistoryTypes, TaskInv,
     CurInv, FirstStop, TakeReport, Resume, StopsFor, tracerVars, taskVars, boundVars, Handling,
     Ended, Alive
<1>5. ASSUME pc' \notin Ended PROVE CurInv'
  BY <1>1, <1>5, ConstantTypes DEF Inv, TypeInv, TracerTypes, TaskTypes, HistoryTypes, TaskInv,
     CurInv, LoadInv, FirstStop, TakeReport, Resume, StopsFor, tracerVars, taskVars, boundVars,
     Handling, Serving, Ended, InLoad, Alive
<1>6. ASSUME pc' \notin Ended PROVE LoadInv'
  BY <1>1, <1>6, ConstantTypes DEF Inv, TypeInv, TracerTypes, TaskTypes, HistoryTypes, TaskInv,
     CurInv, LoadInv, FirstStop, TakeReport, Resume, StopsFor, tracerVars, taskVars, boundVars,
     Handling, Serving, Ended, InLoad, Alive
<1> QED
  BY <1>2, <1>3, <1>4, <1>5, <1>6 DEF Inv

LEMMA PidStopInv ==
    ASSUME Inv, PidStop
    PROVE  Inv'
<1>1. TypeInv
  BY DEF Inv
<1>2. TypeInv'
  <2>1. TracerTypes'
    BY <1>1 DEF TypeInv, TracerTypes, PidStop, Handling, Ended
  <2>2. TaskTypes'
    BY <1>1, ConstantTypes, TakeReportTypes DEF TypeInv, PidStop
  <2>3. HistoryTypes'
    BY <1>1 DEF TypeInv, HistoryTypes, PidStop
  <2> QED
    BY <2>1, <2>2, <2>3 DEF TypeInv
<1>3. ASSUME pc' \notin Ended PROVE ArchInv'
  BY <1>3 DEF Inv, ArchInv, PidStop, TakeReport, tracerVars, taskVars, boundVars, Handling, Ended
<1>4. ASSUME pc' \notin Ended PROVE TaskInv'
  BY <1>1, <1>4, ConstantTypes DEF Inv, TypeInv, TracerTypes, TaskTypes, HistoryTypes, TaskInv,
     CurInv, PidStop, TakeReport, tracerVars, taskVars, boundVars, Handling, Ended, Alive
<1>5. ASSUME pc' \notin Ended PROVE CurInv'
  BY <1>1, <1>5, ConstantTypes DEF Inv, TypeInv, TracerTypes, TaskTypes, HistoryTypes, TaskInv,
     CurInv, LoadInv, PidStop, TakeReport, tracerVars, taskVars, boundVars, Handling, Serving,
     Ended, InLoad, Alive
<1>6. ASSUME pc' \notin Ended PROVE LoadInv'
  BY <1>1, <1>6, ConstantTypes DEF Inv, TypeInv, TracerTypes, TaskTypes, HistoryTypes, TaskInv,
     CurInv, LoadInv, PidStop, TakeReport, tracerVars, taskVars, boundVars, Handling, Serving,
     Ended, InLoad, Alive
<1> QED
  BY <1>2, <1>3, <1>4, <1>5, <1>6 DEF Inv

LEMMA GetFilterInv ==
    ASSUME Inv, GetFilter
    PROVE  Inv'
<1>1. TypeInv
  BY DEF Inv
<1>2. TypeInv'
  <2>1. TracerTypes'
    BY <1>1 DEF TypeInv, TracerTypes, GetFilter, Handling, Ended
  <2>2. TaskTypes'
    BY <1>1 DEF TypeInv, TaskTypes, GetFilter, taskVars
  <2>3. HistoryTypes'
    BY <1>1 DEF TypeInv, HistoryTypes, GetFilter
  <2> QED
    BY <2>1, <2>2, <2>3 DEF TypeInv
<1>3. ASSUME pc' \notin Ended PROVE ArchInv'
  BY <1>3 DEF Inv, ArchInv, GetFilter, tracerVars, taskVars, boundVars, Handling, Ended
<1>4. ASSUME pc' \notin Ended PROVE TaskInv'
  BY <1>1, <1>4, ConstantTypes DEF Inv, TypeInv, TracerTypes, TaskTypes, HistoryTypes, TaskInv,
     CurInv, GetFilter, tracerVars, taskVars, boundVars, Handling, Ended, Alive
<1>5. ASSUME pc' \notin Ended PROVE CurInv'
  BY <1>1, <1>5, ConstantTypes DEF Inv, TypeInv, TracerTypes, TaskTypes, HistoryTypes, TaskInv,
     CurInv, LoadInv, GetFilter, tracerVars, taskVars, boundVars, Handling, Serving, Ended,
     InLoad, Alive
<1>6. ASSUME pc' \notin Ended PROVE LoadInv'
  BY <1>1, <1>6, ConstantTypes DEF Inv, TypeInv, TracerTypes, TaskTypes, HistoryTypes, TaskInv,
     CurInv, LoadInv, GetFilter, tracerVars, taskVars, boundVars, Handling, Serving, Ended,
     InLoad, Alive
<1> QED
  BY <1>2, <1>3, <1>4, <1>5, <1>6 DEF Inv

LEMMA WaitInv ==
    ASSUME Inv, NEW t \in Tasks, Wait(t)
    PROVE  Inv'
<1>1. TypeInv
  BY DEF Inv
<1>2. TypeInv'
  <2>1. TracerTypes'
    <3>1. stop[t] \in Whys
      BY <1>1 DEF TypeInv, TaskTypes
    <3> QED
      BY <1>1, <3>1 DEF TypeInv, TracerTypes, Wait, Handling
  <2>2. TaskTypes'
    BY <1>1, TakeReportTypes DEF TypeInv, Wait
  <2>3. HistoryTypes'
    BY <1>1 DEF TypeInv, HistoryTypes, Wait
  <2> QED
    BY <2>1, <2>2, <2>3 DEF TypeInv
<1>3. ASSUME pc' \notin Ended PROVE ArchInv'
  BY <1>3 DEF Inv, ArchInv, Wait, TakeReport, tracerVars, taskVars, boundVars, Handling, Ended
<1>4. ASSUME pc' \notin Ended PROVE TaskInv'
  BY <1>1, <1>4, ConstantTypes DEF Inv, TypeInv, TracerTypes, TaskTypes, HistoryTypes, TaskInv,
     CurInv, Wait, TakeReport, tracerVars, taskVars, boundVars, Handling, Ended, Alive
<1>5. ASSUME pc' \notin Ended PROVE CurInv'
  BY <1>1, <1>5, ConstantTypes DEF Inv, TypeInv, TracerTypes, TaskTypes, HistoryTypes, TaskInv,
     CurInv, LoadInv, Wait, TakeReport, tracerVars, taskVars, boundVars, Handling, Serving,
     Ended, InLoad, Alive
<1>6. ASSUME pc' \notin Ended PROVE LoadInv'
  BY <1>1, <1>6, ConstantTypes DEF Inv, TypeInv, TracerTypes, TaskTypes, HistoryTypes, TaskInv,
     CurInv, LoadInv, Wait, TakeReport, tracerVars, taskVars, boundVars, Handling, Serving,
     Ended, InLoad, Alive
<1> QED
  BY <1>2, <1>3, <1>4, <1>5, <1>6 DEF Inv

LEMMA HandleStopInv ==
    ASSUME Inv, HandleStop
    PROVE  Inv'
<1>1. TypeInv
  BY DEF Inv
<1>2. TypeInv'
  <2>1. TracerTypes'
    BY <1>1 DEF TypeInv, TracerTypes, HandleStop, NextReport, Whys, Modes
  <2>2. TaskTypes'
    <3>1. cur \in Tasks /\ status # "none"
      BY DEF Inv, CurInv, HandleStop, Handling, Ended
    <3>2. \/ UNCHANGED taskVars
          \/ Listen(cur)
          \/ \E signal \in Signals : Resume(cur, signal)
      <4>1. status \in {"death", "fork", "trap", "group", "signal"}
        BY <1>1, <3>1 DEF HandleStop, TypeInv, TracerTypes, Whys
      <4>2. sig[cur] \in Signals /\ "none" \in Signals
        BY <1>1, <3>1 DEF TypeInv, TaskTypes, Signals
      <4> QED
        BY <4>1, <4>2 DEF HandleStop, StopRequest
    <3>3. UNCHANGED taskVars => TaskTypes'
      BY <1>1 DEF TypeInv, TaskTypes, taskVars
    <3> QED
      BY <1>1, <3>1, <3>2, <3>3, ListenTypes, ResumeTypes DEF TypeInv
  <2>3. HistoryTypes'
    BY <1>1 DEF TypeInv, HistoryTypes, HandleStop
  <2> QED
    BY <2>1, <2>2, <2>3 DEF TypeInv
<1>3. ASSUME pc' \notin Ended PROVE ArchInv'
  BY <1>3 DEF Inv, ArchInv, HandleStop, StopRequest, Resume, Listen, NextReport, StopsFor,
     tracerVars, taskVars, boundVars, Handling, Ended
<1>4. ASSUME pc' \notin Ended PROVE TaskInv'
  <2>1. pc \notin Ended /\ pc = "handle" /\ pc' = "wait" /\ cur \in Tasks
    BY DEF HandleStop, NextReport, Ended, Inv, CurInv, Handling
  <2>2. /\ status \in {"death", "fork", "trap", "group", "signal"}
        /\ state[cur] = "stop" => stop[cur] = status /\ ~report[cur]
    BY <1>1, <2>1 DEF Inv, CurInv, HandleStop, TypeInv, TracerTypes, Whys
  <2>3. UNCHANGED <<loaded, printed>>
    BY DEF HandleStop
  <2>4. CASE state[cur] # "stop" \/ status = "death"
    <3>1. UNCHANGED <<state, stop, report, call, result, jobctl>>
      BY <2>2, <2>4 DEF HandleStop, StopRequest, Resume, Listen, taskVars
    <3> QED
      BY <1>1, <2>1, <2>3, <3>1 DEF Inv, TypeInv, TaskTypes, TaskInv
  <2>5. CASE state[cur] = "stop" /\ status = "group"
    <3>1. Listen(cur)
      BY <2>5 DEF HandleStop, StopRequest
    <3> QED
      BY <1>1, <2>1, <2>2, <2>3, <2>5, <3>1, ConstantTypes DEF Inv, Listen, StopsFor, TypeInv,
         TaskTypes, TaskInv
  <2>6. CASE state[cur] = "stop" /\ status \in {"fork", "trap", "signal"}
    <3>1. \E signal : Resume(cur, signal) /\ (signal = "SIGSTOP" => status = "signal")
      <4>1. CASE status = "signal"
        <5>1. Resume(cur, sig[cur])
          BY <4>1 DEF HandleStop, StopRequest
        <5> QED
          BY <4>1, <5>1
      <4>2. CASE status \in {"fork", "trap"}
        <5>1. Resume(cur, "none")
          BY <4>2 DEF HandleStop, StopRequest
        <5>2. "none" # "SIGSTOP"
          OBVIOUS
        <5> QED
          BY <5>1, <5>2
      <4> QED
        BY <2>6, <4>1, <4>2
    <3>2. PICK signal : Resume(cur, signal) /\ (signal = "SIGSTOP" => status = "signal")
      BY <3>1
    <3> QED
      BY <1>1, <2>1, <2>2, <2>3, <2>6, <3>2, ConstantTypes DEF Inv, Resume, StopsFor, TypeInv,
         TaskTypes, TaskInv
  <2> QED
    BY <2>2, <2>4, <2>5, <2>6
<1>5. ASSUME pc' \notin Ended PROVE CurInv'
  BY <1>1, <1>5, ConstantTypes DEF Inv, TypeInv, TracerTypes, TaskTypes, HistoryTypes, TaskInv,
     CurInv, LoadInv, HandleStop, StopRequest, Resume, Listen, NextReport, StopsFor, tracerVars,
     taskVars, boundVars, Handling, Serving, Ended, InLoad, Alive
<1>6. ASSUME pc' \notin Ended PROVE LoadInv'
  <2>1. pc \notin Ended /\ pc = "handle" /\ pc' = "wait" /\ cur \in Tasks
    BY DEF HandleStop, NextReport, Ended, Inv, CurInv, Handling
  <2>2. /\ status \in {"death", "fork", "trap", "group", "signal"}
        /\ state[cur] = "stop" => stop[cur] = status /\ ~report[cur]
    BY <1>1, <2>1 DEF Inv, CurInv, HandleStop, TypeInv, TracerTypes, Whys
  <2>3. UNCHANGED <<loaded, printed>>
    BY DEF HandleStop
  <2>4. CASE state[cur] # "stop" \/ status = "death"
    <3>1. UNCHANGED <<state, stop, report, call, result, jobctl>>
      BY <2>2, <2>4 DEF HandleStop, StopRequest, Resume, Listen, taskVars
    <3> QED
      BY <1>1, <2>1, <2>3, <3>1 DEF Inv, TypeInv, TaskTypes, HistoryTypes, TaskInv, LoadInv,
         InLoad, Alive, Serving
  <2>5. CASE state[cur] = "stop" /\ status = "group"
    <3>1. Listen(cur)
      BY <2>5 DEF HandleStop, StopRequest
    <3> QED
      BY <1>1, <2>1, <2>2, <2>3, <2>5, <3>1, ConstantTypes DEF Inv, Listen, StopsFor, TypeInv,
         TaskTypes, HistoryTypes, TaskInv, LoadInv, InLoad, Alive, Serving
  <2>6. CASE state[cur] = "stop" /\ status \in {"fork", "trap", "signal"}
    <3>1. \E signal : Resume(cur, signal) /\ (signal = "SIGSTOP" => status = "signal")
      <4>1. CASE status = "signal"
        <5>1. Resume(cur, sig[cur])
          BY <4>1 DEF HandleStop, StopRequest
        <5> QED
          BY <4>1, <5>1
      <4>2. CASE status \in {"fork", "trap"}
        <5>1. Resume(cur, "none")
          BY <4>2 DEF HandleStop, StopRequest
        <5>2. "none" # "SIGSTOP"
          OBVIOUS
        <5> QED
          BY <5>1, <5>2
      <4> QED
        BY <2>6, <4>1, <4>2
    <3>2. PICK signal : Resume(cur, signal) /\ (signal = "SIGSTOP" => status = "signal")
      BY <3>1
    <3> QED
      BY <1>1, <2>1, <2>2, <2>3, <2>6, <3>2, ConstantTypes DEF Inv, Resume, StopsFor, TypeInv,
         TaskTypes, HistoryTypes, TaskInv, LoadInv, InLoad, Alive, Serving
  <2> QED
    BY <2>2, <2>4, <2>5, <2>6
<1> QED
  BY <1>2, <1>3, <1>4, <1>5, <1>6 DEF Inv

-----------------------------------------------------------------------------
\* handle_syscall.

\* What handle_syscall is told of the call, and what a dead task leaves.
LEMMA InfoTypes ==
    ASSUME TypeInv, TaskInv, NEW t \in Tasks
    PROVE  SyscallInfo(t) \subseteq AnyInfo
<1>1. CASE ~(state[t] = "stop" /\ stop[t] \in {"entry", "exit"})
  BY <1>1, TraceAssumption DEF SyscallInfo, TraceAssumption
<1>2. CASE state[t] = "stop" /\ stop[t] \in {"entry", "exit"}
  <2>1. call[t] \in Calls
    BY <1>2 DEF TypeInv, TaskTypes, TaskInv
  <2>2. result[t] \in Results
    BY DEF TypeInv, TaskTypes
  <2>3. result[t].rval \in {Errno, 0, ListenerFd, ThreadId}
    BY <2>2 DEF Results, NoResult
  <2> QED
    BY <1>2, <2>1, <2>3 DEF SyscallInfo, AnyInfo
<1> QED
  BY <1>1, <1>2

LEMMA GetSyscallInfoInv ==
    ASSUME Inv, GetSyscallInfo
    PROVE  Inv'
<1>1. TypeInv
  BY DEF Inv
<1>2. TypeInv'
  <2>1. TracerTypes'
    <3>1. pc \notin Ended /\ cur \in Tasks
      BY DEF GetSyscallInfo, Ended, Inv, CurInv, Handling
    <3>2. info' \in AnyInfo
      BY <1>1, <3>1, InfoTypes DEF Inv, GetSyscallInfo
    <3> QED
      BY <1>1, <3>2 DEF TypeInv, TracerTypes, GetSyscallInfo, Handling
  <2>2. TaskTypes'
    BY <1>1 DEF TypeInv, TaskTypes, GetSyscallInfo, taskVars
  <2>3. HistoryTypes'
    BY <1>1 DEF TypeInv, HistoryTypes, GetSyscallInfo
  <2> QED
    BY <2>1, <2>2, <2>3 DEF TypeInv
<1>3. ASSUME pc' \notin Ended PROVE ArchInv'
  <2>1. pc \notin Ended /\ cur \in Tasks
    BY DEF GetSyscallInfo, Ended, Inv, CurInv, Handling
  <2>2. info' \in AnyInfo
    BY <1>1, <2>1, InfoTypes DEF Inv, GetSyscallInfo
  <2> QED
    BY <2>1, <2>2 DEF Inv, ArchInv, GetSyscallInfo
<1>4. ASSUME pc' \notin Ended PROVE TaskInv'
  BY <1>1, <1>4, ConstantTypes DEF Inv, TypeInv, TracerTypes, TaskTypes, HistoryTypes, TaskInv,
     CurInv, GetSyscallInfo, SyscallInfo, tracerVars, taskVars, boundVars, Handling, Ended,
     Alive
<1>5. ASSUME pc' \notin Ended PROVE CurInv'
  BY <1>1, <1>5, ConstantTypes DEF Inv, TypeInv, TracerTypes, TaskTypes, HistoryTypes, TaskInv,
     CurInv, LoadInv, GetSyscallInfo, SyscallInfo, tracerVars, taskVars, boundVars, Handling,
     Serving, Ended, InLoad, Alive
<1>6. ASSUME pc' \notin Ended PROVE LoadInv'
  BY <1>1, <1>6, ConstantTypes DEF Inv, TypeInv, TracerTypes, TaskTypes, HistoryTypes, TaskInv,
     CurInv, LoadInv, GetSyscallInfo, SyscallInfo, tracerVars, taskVars, boundVars, Handling,
     Serving, Ended, InLoad, Alive
<1> QED
  BY <1>2, <1>3, <1>4, <1>5, <1>6 DEF Inv

LEMMA RefreshArchInv ==
    ASSUME Inv, RefreshArch
    PROVE  Inv'
<1>1. TypeInv
  BY DEF Inv
<1>2. TypeInv'
  <2>1. TracerTypes'
    <3>1. info \in AnyInfo
      BY DEF RefreshArch, Inv, ArchInv, Ended
    <3>2. info.call.arch \in DOMAIN Nr
      <4>1. info.call \in Calls
        BY <3>1 DEF AnyInfo
      <4> QED
        BY <4>1, TraceAssumption DEF TraceAssumption, CallType
    <3> QED
      BY <1>1, <3>2 DEF TypeInv, TracerTypes, RefreshArch, Handling, Ended
  <2>2. TaskTypes'
    BY <1>1 DEF TypeInv, TaskTypes, RefreshArch, taskVars
  <2>3. HistoryTypes'
    BY <1>1 DEF TypeInv, HistoryTypes, RefreshArch
  <2> QED
    BY <2>1, <2>2, <2>3 DEF TypeInv
<1>3. ASSUME pc' \notin Ended PROVE ArchInv'
  <2>1. pc \notin Ended /\ info \in AnyInfo
    BY DEF RefreshArch, Inv, ArchInv, Ended
  <2>2. info.call.arch # None
    <3>1. info.call \in Calls
      BY <2>1 DEF AnyInfo
    <3> QED
      BY <3>1, ConstantTypes, TraceAssumption DEF TraceAssumption, CallType
  <2> QED
    BY <1>3, <2>1, <2>2 DEF Inv, ArchInv, RefreshArch, Ended
<1>4. ASSUME pc' \notin Ended PROVE TaskInv'
  BY <1>1, <1>4, ConstantTypes DEF Inv, TypeInv, TracerTypes, TaskTypes, HistoryTypes, TaskInv,
     CurInv, RefreshArch, tracerVars, taskVars, boundVars, Handling, Ended, Alive
<1>5. ASSUME pc' \notin Ended PROVE CurInv'
  BY <1>1, <1>5, ConstantTypes DEF Inv, TypeInv, TracerTypes, TaskTypes, HistoryTypes, TaskInv,
     CurInv, LoadInv, RefreshArch, tracerVars, taskVars, boundVars, Handling, Serving, Ended,
     InLoad, Alive
<1>6. ASSUME pc' \notin Ended PROVE LoadInv'
  BY <1>1, <1>6, ConstantTypes DEF Inv, TypeInv, TracerTypes, TaskTypes, HistoryTypes, TaskInv,
     CurInv, LoadInv, RefreshArch, tracerVars, taskVars, boundVars, Handling, Serving, Ended,
     InLoad, Alive
<1> QED
  BY <1>2, <1>3, <1>4, <1>5, <1>6 DEF Inv

LEMMA CheckModeInv ==
    ASSUME Inv, CheckMode
    PROVE  Inv'
<1>1. TypeInv
  BY DEF Inv
<1>0. /\ pc = "check" /\ pc \notin Ended /\ cur \in Tasks
      /\ mode' \in Modes
      /\ mode' = SECCOMP_SET_MODE_FILTER <=> CallDoes(info.call) = "filter"
      /\ mode' = LOAD_ELSE <=> CallDoes(info.call) = "other"
  <2>1. pc = "check" /\ pc \notin Ended /\ cur \in Tasks
    BY DEF CheckMode, Ended, Inv, CurInv, Handling
  <2>2. info \in AnyInfo /\ saved_arch = info.call.arch
    BY <2>1 DEF Inv, ArchInv
  <2>3. info.call \in Calls
    BY <2>2 DEF AnyInfo
  <2>4. info.call.arch \in DOMAIN Nr
    BY <2>3, TraceAssumption DEF TraceAssumption, CallType
  <2>5. seccomp_nr = Nr[info.call.arch].seccomp /\ prctl_nr = Nr[info.call.arch].prctl
    BY <2>1, <2>2, <2>4, ConstantTypes DEF Inv, ArchInv
  <2>6. mode' = CallMode(info.call)
    BY DEF CheckMode
  <2> QED
    BY <2>1, <2>3, <2>5, <2>6, ModeKnown
<1>2. TypeInv'
  <2>1. TracerTypes'
    <3>1. mode' \in Modes
      BY <1>0
    <3> QED
      BY <1>1, <3>1 DEF TypeInv, TracerTypes, CheckMode, Handling
  <2>2. TaskTypes'
    <3>1. Resume(cur, "none") \/ UNCHANGED taskVars
      BY DEF CheckMode
    <3>2. UNCHANGED taskVars => TaskTypes'
      BY <1>1 DEF TypeInv, TaskTypes, taskVars
    <3> QED
      BY <1>0, <1>1, <3>1, <3>2, ResumeTypes DEF TypeInv
  <2>3. HistoryTypes'
    BY <1>1 DEF TypeInv, HistoryTypes, CheckMode
  <2> QED
    BY <2>1, <2>2, <2>3 DEF TypeInv
<1>3. ASSUME pc' \notin Ended PROVE ArchInv'
  BY <1>3 DEF Inv, ArchInv, CheckMode, Resume, StopsFor, tracerVars, taskVars, boundVars,
     Handling, Ended
<1>4. ASSUME pc' \notin Ended PROVE TaskInv'
  BY <1>1, <1>4, ConstantTypes DEF Inv, TypeInv, TracerTypes, TaskTypes, HistoryTypes, TaskInv,
     CurInv, CheckMode, Resume, StopsFor, tracerVars, taskVars, boundVars, Handling, Ended,
     Alive
<1>5. ASSUME pc' \notin Ended PROVE CurInv'
  <2>1. CASE mode' = LOAD_ELSE
    <3>1. pc' = "resume" /\ UNCHANGED <<state, stop, call, loaded, printed>>
      BY <2>1 DEF CheckMode, taskVars
    <3>2. CallDoes(info.call) # "filter"
      BY <1>0, <2>1
    <3>3. state[cur] = "stop" => printed[cur] = loaded[cur]
      BY <1>0 DEF Inv, CurInv, LoadInv, InLoad, Alive
    <3> QED
      BY <1>0, <3>1, <3>2, <3>3 DEF Inv, CurInv, Handling, CheckMode
  <2>2. CASE mode' # LOAD_ELSE
    <3>1. pc' = "inner" /\ Resume(cur, "none") /\ UNCHANGED <<cur, info>>
      BY <2>2 DEF CheckMode
    <3>2. state[cur] = "stop" => /\ call'[cur] = call[cur] /\ state'[cur] = "run"
                                 /\ call[cur] = info.call
      BY <1>0, <1>1, <3>1 DEF Inv, CurInv, Resume, TypeInv, TaskTypes, StopsFor
    <3>3. state[cur] # "stop" => state'[cur] = state[cur]
      BY <3>1 DEF Resume, taskVars
    <3>4. state[cur] \in {"stop", "dead", "gone"}
      BY <1>0 DEF Inv, CurInv, Handling
    <3> QED
      BY <1>0, <2>2, <3>1, <3>2, <3>3, <3>4 DEF CurInv, Handling
  <2> QED
    BY <2>1, <2>2
<1>6. ASSUME pc' \notin Ended PROVE LoadInv'
  BY <1>1, <1>6, ConstantTypes DEF Inv, TypeInv, TracerTypes, TaskTypes, HistoryTypes, TaskInv,
     CurInv, LoadInv, CheckMode, Resume, StopsFor, tracerVars, taskVars, boundVars, Handling,
     Serving, Ended, InLoad, Alive
<1> QED
  BY <1>2, <1>3, <1>4, <1>5, <1>6 DEF Inv

LEMMA InnerWaitInv ==
    ASSUME Inv, InnerWait
    PROVE  Inv'
<1>1. TypeInv
  BY DEF Inv
<1>2. TypeInv'
  <2>1. TracerTypes'
    BY <1>1 DEF TypeInv, TracerTypes, InnerWait, Handling
  <2>2. TaskTypes'
    <3>1. cur \in Tasks
      BY DEF InnerWait, Ended, Inv, CurInv, Handling
    <3> QED
      BY <1>1, <3>1, TakeReportTypes DEF TypeInv, InnerWait
  <2>3. HistoryTypes'
    BY <1>1 DEF TypeInv, HistoryTypes, InnerWait
  <2> QED
    BY <2>1, <2>2, <2>3 DEF TypeInv
<1>3. ASSUME pc' \notin Ended PROVE ArchInv'
  BY <1>3 DEF Inv, ArchInv, InnerWait, TakeReport, tracerVars, taskVars, boundVars, Handling,
     Ended
<1>4. ASSUME pc' \notin Ended PROVE TaskInv'
  BY <1>1, <1>4, ConstantTypes DEF Inv, TypeInv, TracerTypes, TaskTypes, HistoryTypes, TaskInv,
     CurInv, InnerWait, TakeReport, tracerVars, taskVars, boundVars, Handling, Ended, Alive
<1>5. ASSUME pc' \notin Ended PROVE CurInv'
  BY <1>1, <1>5, ConstantTypes DEF Inv, TypeInv, TracerTypes, TaskTypes, HistoryTypes, TaskInv,
     CurInv, LoadInv, InnerWait, TakeReport, tracerVars, taskVars, boundVars, Handling, Serving,
     Ended, InLoad, Alive
<1>6. ASSUME pc' \notin Ended PROVE LoadInv'
  BY <1>1, <1>6, ConstantTypes DEF Inv, TypeInv, TracerTypes, TaskTypes, HistoryTypes, TaskInv,
     CurInv, LoadInv, InnerWait, TakeReport, tracerVars, taskVars, boundVars, Handling, Serving,
     Ended, InLoad, Alive
<1> QED
  BY <1>2, <1>3, <1>4, <1>5, <1>6 DEF Inv

LEMMA CheckResultInv ==
    ASSUME Inv, CheckResult
    PROVE  Inv'
<1>1. TypeInv
  BY DEF Inv
<1>2. TypeInv'
  <2>1. TracerTypes'
    BY <1>1 DEF TypeInv, TracerTypes, CheckResult, Handling, Ended, Modes
  <2>2. TaskTypes'
    BY <1>1 DEF TypeInv, TaskTypes, CheckResult, taskVars
  <2>3. HistoryTypes'
    BY <1>1 DEF TypeInv, HistoryTypes, CheckResult
  <2> QED
    BY <2>1, <2>2, <2>3 DEF TypeInv
<1>3. ASSUME pc' \notin Ended PROVE ArchInv'
  BY <1>3 DEF Inv, ArchInv, CheckResult, SyscallInfo, tracerVars, taskVars, boundVars, Handling,
     Ended
<1>4. ASSUME pc' \notin Ended PROVE TaskInv'
  BY <1>1, <1>4, ConstantTypes DEF Inv, TypeInv, TracerTypes, TaskTypes, HistoryTypes, TaskInv,
     CurInv, CheckResult, SyscallInfo, tracerVars, taskVars, boundVars, Handling, Ended, Alive
<1>5. ASSUME pc' \notin Ended PROVE CurInv'
  <2>1. /\ pc = "result" /\ pc \notin Ended /\ cur \in Tasks
        /\ UNCHANGED <<cur, info, state, stop, call, result, loaded, printed>>
    BY DEF CheckResult, Ended, Inv, CurInv, Handling, taskVars
  <2>2. pc' \in {"dump", "resume"} /\ state[cur] \in {"stop", "dead", "gone"}
    BY <1>5, <2>1 DEF CheckResult, Inv, CurInv, Handling, Ended
  <2>3. ASSUME state[cur] = "stop"
        PROVE  /\ stop[cur] = "exit"
               /\ pc' = "dump" => CallDoes(call[cur]) = "filter" /\ loaded[cur] = printed[cur] + 1
               /\ pc' = "resume" => printed[cur] = loaded[cur]
    <3>1. /\ stop[cur] = "exit" /\ call[cur] = info.call /\ mode # LOAD_ELSE
          /\ mode = SECCOMP_SET_MODE_FILTER <=> CallDoes(info.call) = "filter"
      BY <2>1, <2>3 DEF Inv, CurInv
    <3>2. info.call \in Calls /\ seccomp_nr = Nr[info.call.arch].seccomp
      <4>1. info \in AnyInfo /\ saved_arch = info.call.arch
        BY <2>1 DEF Inv, ArchInv
      <4>2. info.call \in Calls
        BY <4>1 DEF AnyInfo
      <4>3. info.call.arch \in DOMAIN Nr
        BY <4>2, TraceAssumption DEF TraceAssumption, CallType
      <4> QED
        BY <2>1, <4>1, <4>2, <4>3, ConstantTypes DEF Inv, ArchInv
    <3>3. SyscallInfo(cur) = {[op |-> "exit", call |-> call[cur], rval |-> result[cur].rval]}
      BY <2>3, <3>1 DEF SyscallInfo
    <3>4. LET succeeds == Succeeds(result[cur].rval, CallFlags(info.call))
          IN  pc' = "dump" <=> succeeds /\ mode = SECCOMP_SET_MODE_FILTER
      BY <1>5, <3>3 DEF CheckResult, Ended, LOAD_FAIL, SECCOMP_SET_MODE_FILTER,
         SECCOMP_SET_MODE_STRICT
    <3>5. CASE CallDoes(info.call) = "filter"
      <4>1. InLoad(cur)
        BY <2>3, <3>1, <3>2, <3>5, ConstantTypes DEF InLoad
      <4>2. /\ result[cur] \in Outcomes(call[cur])
            /\ loaded[cur] = IF result[cur].loaded THEN printed[cur] + 1 ELSE printed[cur]
        BY <2>1, <2>3, <4>1 DEF Inv, LoadInv
      <4>3. Succeeds(result[cur].rval, CallFlags(info.call)) <=> result[cur].loaded
        BY <3>1, <3>2, <3>5, <4>2, LoadKnown
      <4> QED
        BY <2>2, <3>1, <3>4, <3>5, <4>2, <4>3
    <3>6. CASE CallDoes(info.call) # "filter"
      <4>1. printed[cur] = loaded[cur]
        BY <2>1, <2>3, <3>1, <3>6 DEF Inv, LoadInv, InLoad, Alive
      <4> QED
        BY <3>1, <3>4, <3>6, <4>1
    <3> QED
      BY <3>5, <3>6
  <2> QED
    BY <2>1, <2>2, <2>3 DEF CurInv, Handling
<1>6. ASSUME pc' \notin Ended PROVE LoadInv'
  BY <1>1, <1>6, ConstantTypes DEF Inv, TypeInv, TracerTypes, TaskTypes, HistoryTypes, TaskInv,
     CurInv, LoadInv, CheckResult, SyscallInfo, tracerVars, taskVars, boundVars, Handling,
     Serving, Ended, InLoad, Alive
<1> QED
  BY <1>2, <1>3, <1>4, <1>5, <1>6 DEF Inv

LEMMA DumpFilterInv ==
    ASSUME Inv, DumpFilter
    PROVE  Inv'
<1>1. TypeInv
  BY DEF Inv
<1>2. TypeInv'
  <2>1. TracerTypes'
    BY <1>1 DEF TypeInv, TracerTypes, DumpFilter, Handling, Ended
  <2>2. TaskTypes'
    BY <1>1 DEF TypeInv, TaskTypes, DumpFilter, taskVars
  <2>3. HistoryTypes'
    BY <1>1 DEF TypeInv, HistoryTypes, DumpFilter
  <2> QED
    BY <2>1, <2>2, <2>3 DEF TypeInv
<1>3. ASSUME pc' \notin Ended PROVE ArchInv'
  BY <1>3 DEF Inv, ArchInv, DumpFilter, tracerVars, taskVars, boundVars, Handling, Ended
<1>4. ASSUME pc' \notin Ended PROVE TaskInv'
  BY <1>1, <1>4, ConstantTypes DEF Inv, TypeInv, TracerTypes, TaskTypes, HistoryTypes, TaskInv,
     CurInv, DumpFilter, tracerVars, taskVars, boundVars, Handling, Ended, Alive
<1>5. ASSUME pc' \notin Ended PROVE CurInv'
  BY <1>1, <1>5, ConstantTypes DEF Inv, TypeInv, TracerTypes, TaskTypes, HistoryTypes, TaskInv,
     CurInv, LoadInv, DumpFilter, tracerVars, taskVars, boundVars, Handling, Serving, Ended,
     InLoad, Alive
<1>6. ASSUME pc' \notin Ended PROVE LoadInv'
  BY <1>1, <1>6, ConstantTypes DEF Inv, TypeInv, TracerTypes, TaskTypes, HistoryTypes, TaskInv,
     CurInv, LoadInv, DumpFilter, tracerVars, taskVars, boundVars, Handling, Serving, Ended,
     InLoad, Alive
<1> QED
  BY <1>2, <1>3, <1>4, <1>5, <1>6 DEF Inv

LEMMA ResumeSyscallInv ==
    ASSUME Inv, ResumeSyscall
    PROVE  Inv'
<1>1. TypeInv
  BY DEF Inv
<1>2. TypeInv'
  <2>1. TracerTypes'
    BY <1>1 DEF TypeInv, TracerTypes, ResumeSyscall, NextReport, Whys, Modes
  <2>2. TaskTypes'
    <3>1. cur \in Tasks
      BY DEF ResumeSyscall, Ended, Inv, CurInv, Handling
    <3> QED
      BY <1>1, <3>1, ResumeTypes DEF TypeInv, ResumeSyscall
  <2>3. HistoryTypes'
    BY <1>1 DEF TypeInv, HistoryTypes, ResumeSyscall
  <2> QED
    BY <2>1, <2>2, <2>3 DEF TypeInv
<1>3. ASSUME pc' \notin Ended PROVE ArchInv'
  BY <1>3 DEF Inv, ArchInv, ResumeSyscall, Resume, NextReport, StopsFor, tracerVars, taskVars,
     boundVars, Handling, Ended
<1>4. ASSUME pc' \notin Ended PROVE TaskInv'
  BY <1>1, <1>4, ConstantTypes DEF Inv, TypeInv, TracerTypes, TaskTypes, HistoryTypes, TaskInv,
     CurInv, ResumeSyscall, Resume, NextReport, StopsFor, tracerVars, taskVars, boundVars,
     Handling, Ended, Alive
<1>5. ASSUME pc' \notin Ended PROVE CurInv'
  BY <1>1, <1>5, ConstantTypes DEF Inv, TypeInv, TracerTypes, TaskTypes, HistoryTypes, TaskInv,
     CurInv, LoadInv, ResumeSyscall, Resume, NextReport, StopsFor, tracerVars, taskVars,
     boundVars, Handling, Serving, Ended, InLoad, Alive
<1>6. ASSUME pc' \notin Ended PROVE LoadInv'
  BY <1>1, <1>6, ConstantTypes DEF Inv, TypeInv, TracerTypes, TaskTypes, HistoryTypes, TaskInv,
     CurInv, LoadInv, ResumeSyscall, Resume, NextReport, StopsFor, tracerVars, taskVars,
     boundVars, Handling, Serving, Ended, InLoad, Alive
<1> QED
  BY <1>2, <1>3, <1>4, <1>5, <1>6 DEF Inv

-----------------------------------------------------------------------------
\* The command ends.
LEMMA EndInv ==
    ASSUME Inv, SeizeFails \/ GetFilterEnds \/ GetFilterFails \/ NoChild \/ Release
    PROVE  Inv'
<1>1. TypeInv /\ Root \in Tasks
  BY ConstantTypes DEF Inv
<1>2. pc' \in Ended
  BY DEF SeizeFails, GetFilterEnds, GetFilterFails, NoChild, Release, Ended, tracerVars
<1>3. UNCHANGED <<cmd, cur, status, info, mode, saved_arch, stop, sig, report, call, result, jobctl,
                  loaded, printed>>
  BY DEF SeizeFails, GetFilterEnds, GetFilterFails, NoChild, Release, tracerVars, taskVars
<1>4. state' \in [Tasks -> States]
  BY <1>1 DEF SeizeFails, GetFilterEnds, GetFilterFails, NoChild, Release, taskVars, TypeInv,
     TaskTypes,
              States
<1>5. TracerTypes'
  BY <1>1, <1>2, <1>3 DEF TypeInv, TracerTypes
<1>6. TaskTypes'
  BY <1>1, <1>3, <1>4 DEF TypeInv, TaskTypes
<1>7. HistoryTypes'
  BY <1>1, <1>3 DEF TypeInv, HistoryTypes
<1> QED
  BY <1>2, <1>5, <1>6, <1>7 DEF Inv, TypeInv

LEMMA NextInv == Inv /\ [Next]_vars => Inv'
<1> SUFFICES ASSUME Inv, [Next]_vars PROVE Inv'
  OBVIOUS
<1>1. CASE UNCHANGED vars
  <2>1. /\ UNCHANGED <<cmd, pc, cur, status, info, mode, saved_arch, seccomp_nr, prctl_nr>>
        /\ UNCHANGED <<state, stop, sig, report, call, result, jobctl, loaded, printed>>
    BY <1>1 DEF vars, tracerVars, taskVars
  <2>2. TypeInv'
    BY <2>1 DEF Inv, TypeInv, TracerTypes, TaskTypes, HistoryTypes
  <2>3. pc \notin Ended => ArchInv' /\ TaskInv' /\ CurInv'
    BY <2>1 DEF Inv, ArchInv, TaskInv, CurInv
  <2>4. pc \notin Ended => LoadInv'
    BY <2>1 DEF Inv, LoadInv, InLoad, Alive
  <2> QED
    BY <2>1, <2>2, <2>3, <2>4 DEF Inv
<1>2. CASE Seize \/ FirstStop \/ PidStop \/ GetFilter \/ HandleStop
  BY <1>2, SeizeInv, FirstStopInv, PidStopInv, GetFilterInv, HandleStopInv
<1>3. CASE GetSyscallInfo \/ RefreshArch \/ CheckMode \/ InnerWait \/ CheckResult
  BY <1>3, GetSyscallInfoInv, RefreshArchInv, CheckModeInv, InnerWaitInv, CheckResultInv
<1>4. CASE DumpFilter \/ ResumeSyscall \/ Interrupted
  BY <1>4, DumpFilterInv, ResumeSyscallInv, InterruptedInv
<1>5. CASE SeizeFails \/ GetFilterEnds \/ GetFilterFails \/ NoChild \/ Release
  BY <1>5, EndInv
<1>6. CASE \E t \in Tasks : Wait(t) \/ LeaveSyscall(t) \/ Continue(t) \/ Die(t)
  BY <1>6, WaitInv, LeaveSyscallInv, ContinueInv, DieInv
<1>7. CASE \E t \in Tasks : \E c \in Calls : EnterSyscall(t, c)
  BY <1>7, EnterSyscallInv
<1>8. CASE \E t \in Tasks : \E u \in Tasks : Fork(t, u)
  BY <1>8, ForkInv
<1>9. CASE \E t \in Tasks : \E s \in {"SIGSTOP", "SIGUSR1"} : Signal(t, s)
  BY <1>9, SignalInv
<1>10. CASE Tracer
  BY <1>2, <1>3, <1>4, <1>5, <1>6, <1>10 DEF Tracer
<1>11. CASE Kernel
  BY <1>4, <1>5, <1>6, <1>7, <1>8, <1>9, <1>11 DEF Kernel
<1> QED
  BY <1>1, <1>10, <1>11 DEF Next, Terminated

-----------------------------------------------------------------------------
\* The invariant is one of every behaviour.
THEOREM InvCorrect == Spec => []Inv
  BY InitInv, NextInv, PTL DEF Spec

\* The tracer's locals stay what the code takes them for, whatever a task
\* that died left in its syscall_info.
THEOREM TypeCorrect == Spec => []TypeOK
<1>1. Inv => TypeOK
  BY DEF Inv, TypeInv, TracerTypes, TaskTypes, TypeOK, Whys, Modes, States, Handling
<1> QED
  BY <1>1, InvCorrect, PTL

\* Every filter a task has loaded is printed, once, before the task runs on,
\* and nothing is printed for a load that failed (handle_syscall and
\* check_scmp_mode, trace.c).
THEOREM LoadsPrintedCorrect == Spec => []LoadsPrinted
<1>1. Inv => LoadsPrinted
  BY DEF Inv, LoadInv, InLoad, Alive, LoadsPrinted
<1> QED
  BY <1>1, InvCorrect, PTL

\* What the tracer asks for ends no group-stop.
LEMMA ResumesNoGroup ==
    ASSUME Inv, HandleStop \/ CheckMode \/ ResumeSyscall, NEW t \in Tasks, jobctl[t]
    PROVE  jobctl'[t]
<1>1. TypeInv /\ pc \notin Ended /\ cur \in Tasks
  BY DEF HandleStop, CheckMode, ResumeSyscall, Ended, Inv, CurInv, Handling
<1>2. state[cur] = "stop" /\ jobctl[cur] => stop[cur] = "group"
  BY <1>1 DEF Inv, TaskInv
<1>3. CASE CheckMode \/ ResumeSyscall
  <2>1. state[cur] = "stop" => stop[cur] \in {"entry", "exit"}
    BY <1>1, <1>3 DEF CheckMode, ResumeSyscall, Inv, CurInv
  <2>2. Resume(cur, "none") \/ UNCHANGED jobctl
    BY <1>3 DEF CheckMode, ResumeSyscall, taskVars
  <2> QED
    BY <1>1, <1>2, <2>1, <2>2 DEF Resume, taskVars, TypeInv, TaskTypes
<1>4. CASE HandleStop
  <2>1. state[cur] = "stop" => stop[cur] = status
    BY <1>1, <1>4 DEF HandleStop, Inv, CurInv
  <2>2. status \in {"death", "fork", "trap", "group", "signal"}
    BY <1>1, <1>4 DEF HandleStop, Inv, CurInv, TypeInv, TracerTypes, Whys
  <2>3. CASE status \in {"death", "group"} \/ state[cur] # "stop"
    <3>1. UNCHANGED jobctl
      BY <1>4, <2>2, <2>3 DEF HandleStop, StopRequest, Listen, Resume, taskVars
    <3> QED
      BY <3>1
  <2>4. CASE status \notin {"death", "group"} /\ state[cur] = "stop"
    <3>1. ~jobctl[cur] /\ t # cur
      BY <1>2, <2>1, <2>4
    <3>2. \E signal : Resume(cur, signal)
      BY <1>4, <2>2, <2>4 DEF HandleStop, StopRequest
    <3> QED
      BY <1>1, <3>1, <3>2 DEF Resume, taskVars, TypeInv, TaskTypes
  <2> QED
    BY <2>3, <2>4
<1> QED
  BY <1>3, <1>4

\* Once it is attached the tracer ends no group-stop: a task stopped for job
\* control goes on only on SIGCONT or on its death (PTRACE_LISTEN, trace.c).
THEOREM GroupStopKeptCorrect == Spec => GroupStopKept
<1> DEFINE Kept == \A t \in Tasks : jobctl[t] /\ ~jobctl'[t] => Continue(t) \/ Die(t) \/ pc = "first"
<1>1. Inv /\ [Next]_vars => [Kept]_vars
  <2> SUFFICES ASSUME Inv, Next, NEW t \in Tasks, jobctl[t], ~jobctl'[t]
               PROVE  Continue(t) \/ Die(t) \/ pc = "first"
    OBVIOUS
  <2>1. jobctl \in [Tasks -> BOOLEAN]
    BY DEF Inv, TypeInv, TaskTypes
  <2>2. CASE Tracer
    <3>1. CASE HandleStop \/ CheckMode \/ ResumeSyscall
      BY <3>1, ResumesNoGroup
    <3>2. CASE FirstStop
      BY <3>2 DEF FirstStop
    <3>3. CASE \E u \in Tasks : Wait(u)
      BY <3>3 DEF Wait
    <3>4. CASE Seize \/ SeizeFails \/ PidStop \/ GetFilter \/ GetFilterEnds \/ GetFilterFails
      BY <3>4 DEF Seize, SeizeFails, PidStop, GetFilter, GetFilterEnds, GetFilterFails, taskVars
    <3>5. CASE NoChild \/ GetSyscallInfo \/ RefreshArch \/ InnerWait \/ CheckResult \/ DumpFilter
      BY <3>5 DEF NoChild, GetSyscallInfo, RefreshArch, InnerWait, CheckResult, DumpFilter,
         taskVars
    <3> QED
      BY <2>2, <3>1, <3>2, <3>3, <3>4, <3>5 DEF Tracer
  <2>3. CASE \E u \in Tasks : Continue(u)
    <3>1. PICK u \in Tasks : Continue(u)
      BY <2>3
    <3>2. u = t
      BY <2>1, <3>1 DEF Continue
    <3> QED
      BY <3>1, <3>2
  <2>4. CASE \E u \in Tasks : Die(u)
    <3>1. PICK u \in Tasks : Die(u)
      BY <2>4
    <3>2. u = t
      BY <2>1, <3>1 DEF Die
    <3> QED
      BY <3>1, <3>2
  <2>5. CASE \E u \in Tasks : \/ \E c \in Calls : EnterSyscall(u, c)
                              \/ LeaveSyscall(u)
                              \/ \E v \in Tasks : Fork(u, v)
                              \/ \E s \in {"SIGSTOP", "SIGUSR1"} : Signal(u, s)
    BY <2>5 DEF EnterSyscall, LeaveSyscall, Fork, Signal
  <2>6. CASE Interrupted \/ Release
    BY <2>6 DEF Interrupted, Release
  <2>7. CASE Terminated
    BY <2>7 DEF Terminated, vars, taskVars
  <2> QED
    BY <2>2, <2>3, <2>4, <2>5, <2>6, <2>7 DEF Next, Kernel
<1> QED
  BY <1>1, InvCorrect, PTL DEF Spec, GroupStopKept
=============================================================================
