------------------------------ MODULE Capture ------------------------------
(***************************************************************************)
(* Global capture (ebpf/capture.bpf.c and global_capture of src/capture.c):*)
(* an eBPF program at the entry of seccomp_check_filter copies the filter  *)
(* the kernel is about to check into a small map, another at the exit of   *)
(* do_seccomp looks it up and, if the load succeeded, sends it through a   *)
(* ring buffer to the process that prints it.                              *)
(*                                                                         *)
(* Any number of tasks are in do_seccomp at a time, and each is suspended  *)
(* between any two steps.  An entry of the map is only touched by the task *)
(* whose id is its key, so what tasks share is the room in the map and the *)
(* ring.                                                                   *)
(***************************************************************************)
EXTENDS SeccompLoad, Sequences, FiniteSets

CONSTANTS
    Tasks,          \* thread ids
    Calls,          \* the calls of do_seccomp: op, flags and arch
    Arches, DefaultArch,    \* what calls are made on, and scmp_arch of capture ()
    ArchKnown,      \* the build tells arches apart (x86_64 and aarch64)
    MapSize,        \* max_entries of unverified_filters
    RingCap,        \* events that fit in scmp_events
    MayFail,        \* reads of kernel memory by the programs may fail
    MaxCalls,       \* bound on the calls of do_seccomp
    None

Ops == {"STRICT", "FILTER", "OTHER"}
Progs == 1 .. MaxCalls      \* the filter of a call is its number

ASSUME CaptureAssumption ==
    /\ Calls \subseteq [op : Ops, flags : SUBSET Flags, arch : Arches]
    /\ DefaultArch \in Arches
    /\ ArchKnown \in BOOLEAN /\ MayFail \in BOOLEAN
    /\ MapSize \in Nat \ {0} /\ RingCap \in Nat \ {0} /\ MaxCalls \in Nat
    /\ None \notin Nat \cup Arches

VARIABLES
    pc,                     \* where global_capture is
    scmp_arch,              \* of its global_event_ctx
    unverified_filters,     \* the map: a filter for some of the tasks
    scmp_events,            \* the ring: records, each busy, sent or discarded
    phase,                  \* where each task is in do_seccomp
    call,                   \* the call it is in, and prog, the number of it
    traced,                 \* the call began with seccomp_ret attached
    result,                 \* how it ended
    calls,                  \* calls so far
    loads,                  \* history: what the kernel loaded in traced calls
    lost,                   \* history: filters a program gave up on
    early,                  \* history: calls that began before seccomp_ret was attached
    printed                 \* history: what on_events printed

captureVars == <<pc, scmp_arch, printed>>
bpfVars == <<unverified_filters, scmp_events, lost>>
kernelVars == <<phase, call, traced, result, calls, loads, early>>
vars == <<captureVars, bpfVars, kernelVars>>

NoCall == [op |-> "OTHER", flags |-> {}, arch |-> DefaultArch, prog |-> 0]
NoResult == [rval |-> 0, loaded |-> FALSE]

Init ==
    /\ pc = "attach_entry"
    /\ scmp_arch = DefaultArch
    /\ unverified_filters = [t \in {} |-> 0]
    /\ scmp_events = <<>>
    /\ phase = [t \in Tasks |-> "out"]
    /\ call = [t \in Tasks |-> NoCall]
    /\ traced = [t \in Tasks |-> FALSE]
    /\ result = [t \in Tasks |-> NoResult]
    /\ calls = 0
    /\ loads = {} /\ lost = {} /\ early = {}
    /\ printed = <<>>

\* unverified_filters[t] is deleted; there may be none.
Without(t) ==
    [u \in DOMAIN unverified_filters \ {t} |-> unverified_filters[u]]

-----------------------------------------------------------------------------
(***************************************************************************)
(* A task in do_seccomp.                                                   *)
(***************************************************************************)
Enter(t, c) ==
    /\ pc # "end"
    /\ phase[t] = "out"
    /\ calls < MaxCalls
    /\ calls' = calls + 1
    /\ phase' = [phase EXCEPT ![t] = "in"]
    /\ call' = [call EXCEPT ![t] =
                  [op |-> c.op, flags |-> c.flags, arch |-> c.arch, prog |-> calls + 1]]
    /\ traced' = [traced EXCEPT ![t] = pc = "poll"]
    /\ early' = IF pc = "poll" THEN early ELSE early \cup {calls + 1}
    /\ UNCHANGED <<captureVars, bpfVars, result, loads>>

\* Mutant of UpdateFails: BPF_NOEXIST for BPF_ANY.
UpdateFailsNoExist(t) ==
    t \in DOMAIN unverified_filters \/ Cardinality(DOMAIN unverified_filters) = MapSize

\* bpf_map_update_elem with BPF_ANY, in a hash of MapSize entries.
UpdateFails(t) ==
    t \notin DOMAIN unverified_filters /\ Cardinality(DOMAIN unverified_filters) = MapSize

\* The program at the entry of seccomp_check_filter, when it is attached.  An
\* entry whose filter can not be read is deleted again.
seccomp_check_filter_entry(t) ==
    IF pc = "attach_entry"
      THEN UNCHANGED bpfVars
    ELSE IF UpdateFails(t)
      THEN /\ lost' = lost \cup {call[t].prog}
           /\ UNCHANGED <<unverified_filters, scmp_events>>
    ELSE \/ /\ unverified_filters' =
                 [u \in DOMAIN unverified_filters \cup {t} |->
                    IF u = t THEN call[t].prog ELSE unverified_filters[u]]
            /\ UNCHANGED <<scmp_events, lost>>
         \/ /\ MayFail
            /\ unverified_filters' = Without(t)
            /\ lost' = lost \cup {call[t].prog}
            /\ UNCHANGED scmp_events

\* A call for FILTER comes to the check of its filter.
CheckFilter(t) ==
    /\ phase[t] = "in" /\ call[t].op = "FILTER"
    /\ seccomp_check_filter_entry(t)
    /\ phase' = [phase EXCEPT ![t] = "checked"]
    /\ UNCHANGED <<captureVars, call, traced, result, calls, loads, early>>

\* The task is out of do_seccomp.
Leaves(t) ==
    /\ phase' = [phase EXCEPT ![t] = "out"]
    /\ call' = [call EXCEPT ![t] = NoCall]
    /\ traced' = [traced EXCEPT ![t] = FALSE]
    /\ result' = [result EXCEPT ![t] = NoResult]

\* A filter is loaded only after it was checked.
Outcomes(t) ==
    CASE phase[t] = "checked"     -> FilterOutcomes(call[t].flags)
      [] call[t].op = "STRICT"    -> StrictOutcomes(call[t].flags)
      [] OTHER                    -> {[rval |-> Errno, loaded |-> FALSE]}

\* What is to be printed when the call loads its filter, or strict mode.
Event(t) ==
    IF call[t].op = "STRICT"
      THEN [tid |-> t, op |-> "STRICT", prog |-> None, arch |-> None]
      ELSE [tid |-> t, op |-> "FILTER", prog |-> call[t].prog,
            arch |-> IF ArchKnown THEN call[t].arch ELSE DefaultArch]

\* do_seccomp is done; a call from before the attach has no exit program.
Return(t) ==
    /\ phase[t] \in {"in", "checked"}
    /\ \E r \in Outcomes(t) :
         IF traced[t]
           THEN /\ result' = [result EXCEPT ![t] = r]
                /\ phase' = [phase EXCEPT ![t] = "exit"]
                /\ loads' = IF r.loaded THEN loads \cup {Event(t)} ELSE loads
                /\ UNCHANGED <<call, traced>>
           ELSE Leaves(t) /\ UNCHANGED loads
    /\ UNCHANGED <<captureVars, bpfVars, calls, early>>

-----------------------------------------------------------------------------
(***************************************************************************)
(* seccomp_ret, the program at the exit of do_seccomp.                     *)
(***************************************************************************)
\* op is none of the two modes.
seccomp_retOther(t) ==
    /\ phase[t] = "exit"
    /\ call[t].op = "OTHER"
    /\ Leaves(t)
    /\ UNCHANGED <<captureVars, bpfVars, calls, loads, early>>

\* Room for an event is found, and its pid and op are set.
seccomp_retReserve(t) ==
    /\ phase[t] = "exit"
    /\ call[t].op # "OTHER"
    /\ Len(scmp_events) < RingCap
    /\ scmp_events' = Append(scmp_events,
                        [tid |-> t, op |-> call[t].op, prog |-> None,
                         arch |-> DefaultArch, state |-> "busy"])
    /\ phase' = [phase EXCEPT ![t] = "reserved"]
    /\ UNCHANGED <<captureVars, unverified_filters, lost>>
    /\ UNCHANGED <<call, traced, result, calls, loads, early>>

\* Mutant of seccomp_retFull: the entry of the map stays.
seccomp_retFullKeeps(t) ==
    /\ phase[t] = "exit"
    /\ call[t].op # "OTHER"
    /\ Len(scmp_events) = RingCap
    /\ lost' = IF result[t].loaded THEN lost \cup {call[t].prog} ELSE lost
    /\ Leaves(t)
    /\ UNCHANGED <<captureVars, unverified_filters, scmp_events>>
    /\ UNCHANGED <<calls, loads, early>>

\* The ring is full.
seccomp_retFull(t) ==
    /\ phase[t] = "exit"
    /\ call[t].op # "OTHER"
    /\ Len(scmp_events) = RingCap
    /\ lost' = IF result[t].loaded THEN lost \cup {call[t].prog} ELSE lost
    /\ unverified_filters' = Without(t)
    /\ Leaves(t)
    /\ UNCHANGED <<captureVars, scmp_events>>
    /\ UNCHANGED <<calls, loads, early>>

\* The record of t that is still busy becomes r.
Commit(t, r) ==
    scmp_events' = [i \in DOMAIN scmp_events |->
        IF scmp_events[i].tid = t /\ scmp_events[i].state = "busy"
          THEN [tid |-> t, op |-> call[t].op, prog |-> r.prog, arch |-> r.arch,
                state |-> r.state]
          ELSE scmp_events[i]]

Sent(prog, arch) == [prog |-> prog, arch |-> arch, state |-> "sent"]
Discarded == [prog |-> None, arch |-> DefaultArch, state |-> "discarded"]

\* Its last step for a mode that leaves the map alone.
strict_mode(t) ==
    /\ phase[t] = "reserved"
    /\ call[t].op = "STRICT"
    /\ Commit(t, IF result[t].rval # 0 THEN Discarded ELSE Sent(None, DefaultArch))
    /\ Leaves(t)
    /\ UNCHANGED <<captureVars, unverified_filters, lost>>
    /\ UNCHANGED <<calls, loads, early>>

\* Mutant of NoProg: the event is neither submitted nor discarded.
NoProgLeavesBusy(t) ==
    /\ phase[t] = "reserved"
    /\ call[t].op = "FILTER"
    /\ t \notin DOMAIN unverified_filters
    /\ Leaves(t)
    /\ UNCHANGED <<captureVars, bpfVars>>
    /\ UNCHANGED <<calls, loads, early>>

\* The kernel dropped the filter before it was checked, or there was no entry
\* for it.
NoProg(t) ==
    /\ phase[t] = "reserved"
    /\ call[t].op = "FILTER"
    /\ t \notin DOMAIN unverified_filters
    /\ Commit(t, Discarded)
    /\ Leaves(t)
    /\ UNCHANGED <<captureVars, unverified_filters, lost>>
    /\ UNCHANGED <<calls, loads, early>>

\* filter_mode up to the submit or the discard.
filter_mode(t) ==
    /\ phase[t] = "reserved"
    /\ call[t].op = "FILTER"
    /\ t \in DOMAIN unverified_filters
    /\ \E read \in IF MayFail THEN {TRUE, FALSE} ELSE {TRUE} :
         IF load_success(result[t].rval, call[t].flags) /\ read
           THEN /\ Commit(t, Sent(unverified_filters[t],
                                  IF ArchKnown THEN call[t].arch ELSE None))
                /\ UNCHANGED lost
           ELSE /\ Commit(t, Discarded)
                /\ lost' = IF result[t].loaded /\ ~read THEN lost \cup {call[t].prog} ELSE lost
    /\ phase' = [phase EXCEPT ![t] = "committed"]
    /\ UNCHANGED <<captureVars, unverified_filters>>
    /\ UNCHANGED <<call, traced, result, calls, loads, early>>

\* filter_mode's last call.
Delete(t) ==
    /\ phase[t] = "committed"
    /\ unverified_filters' = Without(t)
    /\ Leaves(t)
    /\ UNCHANGED <<captureVars, scmp_events, lost>>
    /\ UNCHANGED <<calls, loads, early>>

-----------------------------------------------------------------------------
(***************************************************************************)
(* global_capture: capture_bpf__attach attaches the programs one by one,   *)
(* then ring_buffer__poll calls on_events for each event that was sent, in *)
(* the order of the reservations, and waits at one that is busy.           *)
(***************************************************************************)
Attach ==
    /\ pc \in {"attach_entry", "attach_ret"}
    /\ pc' = IF pc = "attach_entry" THEN "attach_ret" ELSE "poll"
    /\ UNCHANGED <<scmp_arch, printed, bpfVars, kernelVars>>

\* An attach or the poll fails: error () ends the command, and the programs,
\* the map and the ring go with it.
Fail ==
    /\ pc # "end"
    /\ pc' = "end"
    /\ unverified_filters' = [t \in {} |-> 0]
    /\ scmp_events' = <<>>
    /\ UNCHANGED <<scmp_arch, printed, lost, kernelVars>>

\* Mutant of trans_ebpf_arch: the case of the compat arch is missing.
trans_ebpf_archNoCompat(arch, default) == IF arch = default THEN default ELSE None

\* None stands for PROC_ARCH_OTHERS.
trans_ebpf_arch(arch, default) == IF arch = None THEN default ELSE arch

Ready == scmp_events # <<>> /\ Head(scmp_events).state # "busy"

on_events ==
    /\ pc = "poll"
    /\ Ready
    /\ LET event == Head(scmp_events)
           arch == trans_ebpf_arch(event.arch, scmp_arch)
       IN  CASE event.state = "discarded" -> UNCHANGED <<printed, scmp_arch>>
             [] event.state # "discarded" /\ event.op = "STRICT" ->
                  /\ printed' = Append(printed, [tid |-> event.tid, op |-> "STRICT",
                                                 prog |-> None, arch |-> None])
                  /\ UNCHANGED scmp_arch
             [] OTHER ->
                  /\ scmp_arch' = arch
                  /\ printed' = Append(printed, [tid |-> event.tid, op |-> "FILTER",
                                                 prog |-> event.prog, arch |-> arch])
    /\ scmp_events' = Tail(scmp_events)
    /\ UNCHANGED <<pc, unverified_filters, lost, kernelVars>>

-----------------------------------------------------------------------------
\* A call of do_seccomp never waits for another task.
Step(t) ==
    /\ pc # "end"
    /\ \/ CheckFilter(t) \/ Return(t)
       \/ seccomp_retOther(t) \/ seccomp_retReserve(t) \/ seccomp_retFull(t)
       \/ strict_mode(t) \/ NoProg(t) \/ filter_mode(t) \/ Delete(t)

Terminated == pc = "end" /\ UNCHANGED vars

Next ==
    \/ \E t \in Tasks :
         \/ \E c \in Calls : Enter(t, c)
         \/ Step(t)
    \/ Attach \/ Fail \/ on_events
    \/ Terminated

Spec == Init /\ [][Next]_vars

\* The process that prints runs, and so does a task in the kernel.
FairSpec ==
    /\ Spec
    /\ WF_vars(on_events)
    /\ \A t \in Tasks : WF_vars(Step(t))

-----------------------------------------------------------------------------
TypeOK ==
    /\ pc \in {"attach_entry", "attach_ret", "poll", "end"}
    /\ scmp_arch \in Arches
    /\ DOMAIN unverified_filters \subseteq Tasks
    /\ Cardinality(DOMAIN unverified_filters) <= MapSize
    /\ \A t \in DOMAIN unverified_filters : unverified_filters[t] \in Progs
    /\ Len(scmp_events) <= RingCap
    /\ phase \in [Tasks -> {"out", "in", "checked", "exit", "reserved", "committed"}]
    /\ calls \in 0 .. MaxCalls

\* What is printed, or waits in the ring to be, is what the kernel loaded in
\* the very call that sent it: its task, its filter and its arch.  An entry
\* left from an earlier call, a load that failed with a thread id or in its
\* check, and a record that is not complete are never taken for a load
\* (seccomp_ret and filter_mode, capture.bpf.c).
CapturedExact ==
    /\ \A i \in DOMAIN printed : printed[i] \in loads
    /\ \A i \in DOMAIN scmp_events :
         LET e == scmp_events[i]
         IN  e.state = "sent" =>
               \E l \in loads : l.tid = e.tid /\ l.op = e.op /\ l.prog = e.prog

\* The map of 16 entries does not fill up with the filters of calls that are
\* over: only a call from before seccomp_ret was attached leaves one behind,
\* whatever fails on the way (the deletes of capture.bpf.c).
NoEntryLeft ==
    \A t \in DOMAIN unverified_filters :
        unverified_filters[t] \in early \/ (traced[t] /\ unverified_filters[t] = call[t].prog)

\* Every load is printed in the end, unless a program found no room for it or
\* could not read it, or the command ends: a record that is busy holds the
\* ones behind it back, but not for ever (seccomp_ret and on_events).
LoadsReported ==
    \A p \in Progs :
        (\E l \in loads : l.prog = p)
          ~> \/ \E i \in DOMAIN printed : printed[i].prog = p
             \/ p \in lost
             \/ pc = "end"
=============================================================================
