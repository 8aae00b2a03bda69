---------------------------- MODULE CaptureProof ----------------------------
(***************************************************************************)
(* Global capture reports exactly what was loaded and leaves no entry      *)
(* behind, for every set of tasks and calls, every size of the map and of  *)
(* the ring, and every number of calls.                                    *)
(***************************************************************************)
EXTENDS Capture, SeccompLoadProof, FiniteSetTheorems, SequenceTheorems

Phases == {"out", "in", "checked", "exit", "reserved", "committed"}
CallType == [op : Ops, flags : SUBSET Flags, arch : Arches, prog : 0 .. MaxCalls]
RecordType == [tid : Tasks, op : {"STRICT", "FILTER"}, prog : Progs \cup {None},
               arch : Arches \cup {None}, state : {"busy", "sent", "discarded"}]
PrintType == [tid : Tasks, op : {"STRICT", "FILTER"}, prog : Progs \cup {None},
              arch : Arches \cup {None}]

Results == {[rval |-> Errno, loaded |-> FALSE], [rval |-> ThreadId, loaded |-> FALSE],
            [rval |-> ListenerFd, loaded |-> TRUE], [rval |-> 0, loaded |-> TRUE], NoResult}

\* The types of all variables; TypeOK of Capture is a part of it.
TypeInv ==
    /\ pc \in {"attach_entry", "attach_ret", "poll", "end"}
    /\ scmp_arch \in Arches
    /\ unverified_filters \in [DOMAIN unverified_filters -> Progs]
    /\ DOMAIN unverified_filters \subseteq Tasks
    /\ IsFiniteSet(DOMAIN unverified_filters)
    /\ Cardinality(DOMAIN unverified_filters) <= MapSize
    /\ scmp_events \in Seq(RecordType) /\ Len(scmp_events) <= RingCap
    /\ phase \in [Tasks -> Phases]
    /\ call \in [Tasks -> CallType]
    /\ traced \in [Tasks -> BOOLEAN]
    /\ result \in [Tasks -> Results]
    /\ calls \in 0 .. MaxCalls
    /\ printed \in Seq(PrintType)

\* The call has returned and its exit program is running.
Exiting(t) == phase[t] \in {"exit", "reserved", "committed"}

\* Where a task is in its call, and what is known of the call by then.
CallInv ==
    \A t \in Tasks :
        /\ phase[t] = "out" => ~traced[t] /\ call[t].op = "OTHER"
        /\ phase[t] # "out" => call[t].prog \in Progs
        /\ phase[t] # "out" /\ ~traced[t] => call[t].prog \in early
        /\ traced[t] => pc \in {"poll", "end"}
        /\ Exiting(t) => traced[t]
        /\ phase[t] = "checked" => call[t].op = "FILTER"
        /\ phase[t] = "reserved" => call[t].op # "OTHER"
        /\ phase[t] = "committed" => call[t].op = "FILTER"

\* What the exit program will take for a load is one, and has been counted.
ResultInv ==
    \A t \in Tasks : Exiting(t) =>
        /\ result[t].loaded => Event(t) \in loads
        /\ call[t].op = "FILTER" => (load_success(result[t].rval, call[t].flags) <=> result[t].loaded)
        /\ call[t].op = "STRICT" => (result[t].rval = 0 <=> result[t].loaded)

\* Whose filter an entry of the map is: a stale one is never that of a task
\* whose call has loaded a filter.
MapInv ==
    \A t \in DOMAIN unverified_filters :
        /\ unverified_filters[t] \in early \/ (traced[t] /\ unverified_filters[t] = call[t].prog)
        /\ call[t].op # "FILTER" => unverified_filters[t] \in early
        /\ traced[t] /\ phase[t] = "checked" => unverified_filters[t] = call[t].prog
        /\ Exiting(t) /\ result[t].loaded /\ call[t].op = "FILTER"
             => unverified_filters[t] = call[t].prog

\* What on_events prints for a record.
PrintOf(e) ==
    IF e.op = "STRICT"
      THEN [tid |-> e.tid, op |-> "STRICT", prog |-> None, arch |-> None]
      ELSE [tid |-> e.tid, op |-> "FILTER", prog |-> e.prog,
            arch |-> IF ArchKnown THEN e.arch ELSE DefaultArch]

SentOK(e) ==
    /\ PrintOf(e) \in loads
    /\ e.op = "FILTER" => IF ArchKnown THEN e.arch # None ELSE e.arch = None
    /\ e.op = "STRICT" => e.prog = None

\* A record that was sent is a load, and carries an arch exactly when the
\* build knows arches; without one the arch is always the default.
RingInv ==
    /\ \A i \in DOMAIN scmp_events : scmp_events[i].state = "sent" => SentOK(scmp_events[i])
    /\ \A i \in DOMAIN printed : printed[i] \in loads
    /\ ~ArchKnown => scmp_arch = DefaultArch

Inv == TypeInv /\ CallInv /\ ResultInv /\ MapInv /\ RingInv

-----------------------------------------------------------------------------
\* The map: an entry is put, or taken out.
LEMMA WithoutType ==
    ASSUME TypeInv, NEW t \in Tasks
    PROVE  /\ Without(t) \in [DOMAIN unverified_filters \ {t} -> Progs]
           /\ DOMAIN Without(t) = DOMAIN unverified_filters \ {t}
           /\ \A u \in DOMAIN Without(t) : Without(t)[u] = unverified_filters[u]
           /\ IsFiniteSet(DOMAIN Without(t))
           /\ Cardinality(DOMAIN Without(t)) <= MapSize
<1>1. /\ Without(t) \in [DOMAIN unverified_filters \ {t} -> Progs]
      /\ DOMAIN Without(t) = DOMAIN unverified_filters \ {t}
      /\ \A u \in DOMAIN Without(t) : Without(t)[u] = unverified_filters[u]
  BY DEF TypeInv, Without
<1>2. IsFiniteSet(DOMAIN unverified_filters) /\ Cardinality(DOMAIN unverified_filters) <= MapSize
  BY DEF TypeInv
<1>3. Cardinality(DOMAIN unverified_filters) \in Nat
  BY <1>2, FS_CardinalityType
<1>4. /\ IsFiniteSet(DOMAIN unverified_filters \ {t})
      /\ Cardinality(DOMAIN unverified_filters \ {t}) =
           IF t \in DOMAIN unverified_filters THEN Cardinality(DOMAIN unverified_filters) - 1
                                              ELSE Cardinality(DOMAIN unverified_filters)
  BY <1>2, FS_RemoveElement
<1>5. Cardinality(DOMAIN unverified_filters \ {t}) <= MapSize
  BY <1>2, <1>3, <1>4, CaptureAssumption DEF CaptureAssumption
<1> QED
  BY <1>1, <1>4, <1>5

\* The map after bpf_map_update_elem.
With(t) ==
    [u \in DOMAIN unverified_filters \cup {t} |->
        IF u = t THEN call[t].prog ELSE unverified_filters[u]]

LEMMA WithType ==
    ASSUME TypeInv, NEW t \in Tasks, call[t].prog \in Progs, ~UpdateFails(t)
    PROVE  /\ With(t) \in [DOMAIN unverified_filters \cup {t} -> Progs]
           /\ DOMAIN With(t) = DOMAIN unverified_filters \cup {t}
           /\ \A u \in DOMAIN With(t) :
                With(t)[u] = IF u = t THEN call[t].prog ELSE unverified_filters[u]
           /\ IsFiniteSet(DOMAIN With(t))
           /\ Cardinality(DOMAIN With(t)) <= MapSize
<1>1. /\ With(t) \in [DOMAIN unverified_filters \cup {t} -> Progs]
      /\ DOMAIN With(t) = DOMAIN unverified_filters \cup {t}
      /\ \A u \in DOMAIN With(t) :
            With(t)[u] = IF u = t THEN call[t].prog ELSE unverified_filters[u]
  BY DEF TypeInv, With
<1>2. IsFiniteSet(DOMAIN unverified_filters) /\ Cardinality(DOMAIN unverified_filters) <= MapSize
  BY DEF TypeInv
<1>3. Cardinality(DOMAIN unverified_filters) \in Nat
  BY <1>2, FS_CardinalityType
<1>4. /\ IsFiniteSet(DOMAIN unverified_filters \cup {t})
      /\ Cardinality(DOMAIN unverified_filters \cup {t}) =
           IF t \in DOMAIN unverified_filters THEN Cardinality(DOMAIN unverified_filters)
                                              ELSE Cardinality(DOMAIN unverified_filters) + 1
  BY <1>2, FS_AddElement
<1>5. Cardinality(DOMAIN unverified_filters \cup {t}) <= MapSize
  BY <1>2, <1>3, <1>4, CaptureAssumption DEF CaptureAssumption, UpdateFails
<1> QED
  BY <1>1, <1>4, <1>5

\* The ring: the records of t that are busy become r, and no other changes.
LEMMA CommitType ==
    ASSUME TypeInv, NEW t \in Tasks, NEW r, Commit(t, r), call[t].op # "OTHER",
           r.prog \in Progs \cup {None}, r.arch \in Arches \cup {None},
           r.state \in {"sent", "discarded"}
    PROVE  /\ scmp_events' \in Seq(RecordType)
           /\ Len(scmp_events') = Len(scmp_events)
           /\ \A i \in DOMAIN scmp_events' :
                \/ scmp_events'[i] = scmp_events[i] /\ i \in DOMAIN scmp_events
                \/ scmp_events'[i] = [tid |-> t, op |-> call[t].op, prog |-> r.prog,
                                      arch |-> r.arch, state |-> r.state]
<1>1. scmp_events \in Seq(RecordType) /\ call[t].op \in {"STRICT", "FILTER"}
  BY DEF TypeInv, CallType, Ops
<1>2. DOMAIN scmp_events = 1 .. Len(scmp_events) /\ Len(scmp_events) \in Nat
  BY <1>1
<1>3. [tid |-> t, op |-> call[t].op, prog |-> r.prog, arch |-> r.arch, state |-> r.state] \in RecordType
  BY <1>1 DEF RecordType
<1>4. scmp_events' \in [1 .. Len(scmp_events) -> RecordType]
  BY <1>1, <1>2, <1>3 DEF Commit
<1>5. scmp_events' \in Seq(RecordType) /\ Len(scmp_events') = Len(scmp_events)
  BY <1>2, <1>4, IsASeq
<1> QED
  BY <1>2, <1>5 DEF Commit

-----------------------------------------------------------------------------
LEMMA InitInv == Init => Inv
<1> SUFFICES ASSUME Init PROVE Inv
  OBVIOUS
<1>1. TypeInv
  BY CaptureAssumption, FS_EmptySet
  DEF Init, CaptureAssumption, TypeInv, Phases, CallType, Ops, NoCall, Results
<1>2. CallInv /\ ResultInv
  BY DEF Init, CallInv, ResultInv, Exiting, NoCall
<1>3. MapInv /\ RingInv
  BY DEF Init, MapInv, RingInv
<1> QED
  BY <1>1, <1>2, <1>3 DEF Inv

LEMMA EnterStep ==
    ASSUME Inv, NEW t \in Tasks, NEW c \in Calls, Enter(t, c)
    PROVE  Inv'
<1>1. /\ c.op \in Ops /\ c.flags \in SUBSET Flags /\ c.arch \in Arches
      /\ calls + 1 \in Progs
  BY CaptureAssumption DEF CaptureAssumption, Enter, Inv, TypeInv, Progs
<1>2. TypeInv'
  BY <1>1, CaptureAssumption
  DEF CaptureAssumption, Enter, Inv, TypeInv, Phases, CallType, captureVars, bpfVars, Progs
<1>3. CallInv'
  BY <1>1 DEF Enter, Inv, TypeInv, CallInv, Exiting, captureVars, bpfVars
<1>4. ResultInv'
  BY DEF Enter, Inv, TypeInv, ResultInv, Exiting, Event, captureVars, bpfVars
<1>5. MapInv'
  BY DEF Enter, Inv, TypeInv, CallInv, MapInv, Exiting, captureVars, bpfVars
<1>6. RingInv'
  BY DEF Enter, Inv, RingInv, SentOK, PrintOf, captureVars, bpfVars
<1> QED
  BY <1>2, <1>3, <1>4, <1>5, <1>6 DEF Inv

LEMMA CheckFilterStep ==
    ASSUME Inv, NEW t \in Tasks, CheckFilter(t)
    PROVE  Inv'
<1> USE DEF CheckFilter, captureVars, bpfVars
<1>1. /\ call[t].prog \in Progs /\ call[t].op = "FILTER" /\ phase[t] = "in"
      /\ pc = "attach_entry" => ~traced[t]
      /\ ~traced[t] => call[t].prog \in early
  BY DEF Inv, CallInv
<1>2. \/ pc = "attach_entry" /\ UNCHANGED unverified_filters
      \/ t \notin DOMAIN unverified_filters /\ UNCHANGED unverified_filters
      \/ ~UpdateFails(t) /\ unverified_filters' = With(t)
      \/ unverified_filters' = Without(t)
  BY DEF seccomp_check_filter_entry, UpdateFails, With
<1>3. scmp_events' = scmp_events
  BY DEF seccomp_check_filter_entry
<1>4. /\ unverified_filters' \in [DOMAIN unverified_filters' -> Progs]
      /\ DOMAIN unverified_filters' \subseteq Tasks
      /\ IsFiniteSet(DOMAIN unverified_filters')
      /\ Cardinality(DOMAIN unverified_filters') <= MapSize
      /\ \A u \in DOMAIN unverified_filters' :
         \/ u # t /\ u \in DOMAIN unverified_filters /\ unverified_filters'[u] = unverified_filters[u]
         \/ u = t /\ unverified_filters'[u] = call[t].prog
         \/ u = t /\ pc = "attach_entry" /\ UNCHANGED unverified_filters
  <2>1. /\ TypeInv
        /\ unverified_filters \in [DOMAIN unverified_filters -> Progs]
        /\ DOMAIN unverified_filters \subseteq Tasks
        /\ IsFiniteSet(DOMAIN unverified_filters)
        /\ Cardinality(DOMAIN unverified_filters) <= MapSize
    BY DEF Inv, TypeInv
  <2>2. CASE pc = "attach_entry" /\ UNCHANGED unverified_filters
    BY <2>1, <2>2
  <2>3. CASE t \notin DOMAIN unverified_filters /\ UNCHANGED unverified_filters
    BY <2>1, <2>3
  <2>4. CASE ~UpdateFails(t) /\ unverified_filters' = With(t)
    <3>1. /\ With(t) \in [DOMAIN unverified_filters \cup {t} -> Progs]
          /\ DOMAIN With(t) = DOMAIN unverified_filters \cup {t}
          /\ \A u \in DOMAIN With(t) :
               With(t)[u] = IF u = t THEN call[t].prog ELSE unverified_filters[u]
          /\ IsFiniteSet(DOMAIN With(t))
          /\ Cardinality(DOMAIN With(t)) <= MapSize
      BY <1>1, <2>1, <2>4, WithType
    <3> QED
      BY <2>1, <2>4, <3>1
  <2>5. CASE unverified_filters' = Without(t)
    <3>1. /\ Without(t) \in [DOMAIN unverified_filters \ {t} -> Progs]
          /\ DOMAIN Without(t) = DOMAIN unverified_filters \ {t}
          /\ \A u \in DOMAIN Without(t) : Without(t)[u] = unverified_filters[u]
          /\ IsFiniteSet(DOMAIN Without(t))
          /\ Cardinality(DOMAIN Without(t)) <= MapSize
      BY <2>1, WithoutType
    <3> QED
      BY <2>1, <2>5, <3>1
  <2> QED
    BY <1>2, <2>2, <2>3, <2>4, <2>5
<1>5. TypeInv'
  BY <1>3, <1>4 DEF Inv, TypeInv, Phases
<1>6. CallInv' /\ ResultInv'
  BY <1>1 DEF Inv, TypeInv, CallInv, ResultInv, Exiting, Event
<1>7. MapInv'
  BY <1>1, <1>4 DEF Inv, TypeInv, MapInv, Exiting
<1>8. RingInv'
  BY <1>3 DEF Inv, RingInv, SentOK, PrintOf
<1> QED
  BY <1>5, <1>6, <1>7, <1>8 DEF Inv

LEMMA ReturnStep ==
    ASSUME Inv, NEW t \in Tasks, Return(t)
    PROVE  Inv'
<1> USE DEF captureVars, bpfVars
<1>1. PICK r \in Outcomes(t) :
         IF traced[t]
           THEN /\ result' = [result EXCEPT ![t] = r]
                /\ phase' = [phase EXCEPT ![t] = "exit"]
                /\ loads' = IF r.loaded THEN loads \cup {Event(t)} ELSE loads
                /\ UNCHANGED <<call, traced>>
           ELSE Leaves(t) /\ UNCHANGED loads
  BY DEF Return
<1>2. UNCHANGED <<pc, scmp_arch, printed, unverified_filters, scmp_events, lost, calls, early>>
      /\ phase[t] \in {"in", "checked"}
  BY DEF Return
<1>3. r \in Results
  <2>1. FilterOutcomes(call[t].flags) \subseteq Results
    BY DEF FilterOutcomes, Results
  <2>2. StrictOutcomes(call[t].flags) \subseteq Results
    BY DEF StrictOutcomes, Results
  <2> QED
    BY <2>1, <2>2 DEF Outcomes, Results
<1>4. CASE ~traced[t]
  <2>1. Leaves(t) /\ UNCHANGED loads
    BY <1>1, <1>4
  <2>2. TypeInv'
    BY <1>2, <2>1, CaptureAssumption
    DEF CaptureAssumption, Inv, TypeInv, Leaves, NoCall, Results, Phases, CallType, Ops
  <2>3. CallInv' /\ ResultInv'
    BY <1>2, <2>1 DEF Inv, TypeInv, CallInv, ResultInv, Exiting, Event, Leaves, NoCall
  <2>4. MapInv'
    BY <1>2, <1>4, <2>1 DEF Inv, TypeInv, MapInv, Exiting, Leaves, NoCall
  <2>5. RingInv'
    BY <1>2, <2>1 DEF Inv, RingInv, SentOK, PrintOf
  <2> QED
    BY <2>2, <2>3, <2>4, <2>5 DEF Inv
<1>5. CASE traced[t]
  <2>1. /\ result' = [result EXCEPT ![t] = r]
        /\ phase' = [phase EXCEPT ![t] = "exit"]
        /\ loads' = IF r.loaded THEN loads \cup {Event(t)} ELSE loads
        /\ UNCHANGED <<call, traced>>
    BY <1>1, <1>5
  <2>2. TypeInv'
    BY <1>2, <1>3, <2>1 DEF Inv, TypeInv, Phases
  <2>3. CallInv'
    BY <1>2, <1>5, <2>1 DEF Inv, TypeInv, CallInv, Exiting
  <2>4. /\ call[t].op = "FILTER" => (load_success(r.rval, call[t].flags) <=> r.loaded)
        /\ call[t].op = "STRICT" => (r.rval = 0 <=> r.loaded)
        /\ r.loaded /\ call[t].op = "FILTER" => phase[t] = "checked"
    <3>1. call[t].flags \in SUBSET Flags
      BY DEF Inv, TypeInv, CallType
    <3>2. CASE phase[t] = "checked"
      BY <3>1, <3>2, LoadSuccessExact DEF Outcomes, Inv, CallInv
    <3>3. CASE phase[t] = "in" /\ call[t].op = "STRICT"
      BY <3>3 DEF Outcomes, StrictOutcomes, Errno
    <3>4. CASE phase[t] = "in" /\ call[t].op # "STRICT"
      <4>1. r = [rval |-> Errno, loaded |-> FALSE]
        BY <3>4 DEF Outcomes
      <4> QED
        BY <3>4, <4>1 DEF load_success, Errno
    <3> QED
      BY <1>2, <3>2, <3>3, <3>4
  <2>5. ResultInv'
    BY <2>1, <2>4 DEF Inv, TypeInv, ResultInv, Exiting, Event
  <2>6. MapInv'
    BY <1>2, <1>5, <2>1, <2>4 DEF Inv, TypeInv, MapInv, Exiting
  <2>7. RingInv'
    BY <1>2, <2>1 DEF Inv, RingInv, SentOK, PrintOf
  <2> QED
    BY <2>2, <2>3, <2>5, <2>6, <2>7 DEF Inv
<1> QED
  BY <1>4, <1>5 DEF Inv, TypeInv

\* What every step shares in which a task leaves its call.
LEMMA LeavesCall ==
    ASSUME Inv, NEW t \in Tasks, Leaves(t), UNCHANGED <<pc, calls, loads, early>>
    PROVE  /\ phase' \in [Tasks -> Phases] /\ call' \in [Tasks -> CallType]
           /\ traced' \in [Tasks -> BOOLEAN] /\ result' \in [Tasks -> Results]
           /\ CallInv' /\ ResultInv'
<1>1. /\ phase' \in [Tasks -> Phases] /\ call' \in [Tasks -> CallType]
      /\ traced' \in [Tasks -> BOOLEAN] /\ result' \in [Tasks -> Results]
  BY CaptureAssumption
  DEF CaptureAssumption, Inv, TypeInv, Leaves, Phases, CallType, Ops, NoCall, Results
<1>2. CallInv' /\ ResultInv'
  BY DEF Inv, TypeInv, CallInv, ResultInv, Exiting, Event, Leaves, NoCall
<1> QED
  BY <1>1, <1>2

\* The map when a task leaves its call: its own entry is gone, or one of a
\* call from before the attach.
LEMMA LeavesMap ==
    ASSUME Inv, NEW t \in Tasks, Leaves(t), UNCHANGED early,
           \/ unverified_filters' = Without(t)
           \/ UNCHANGED unverified_filters /\ call[t].op # "FILTER"
           \/ UNCHANGED unverified_filters /\ t \notin DOMAIN unverified_filters
    PROVE  /\ unverified_filters' \in [DOMAIN unverified_filters' -> Progs]
           /\ DOMAIN unverified_filters' \subseteq Tasks
           /\ IsFiniteSet(DOMAIN unverified_filters')
           /\ Cardinality(DOMAIN unverified_filters') <= MapSize
           /\ MapInv'
<1>1. /\ TypeInv
      /\ unverified_filters \in [DOMAIN unverified_filters -> Progs]
      /\ DOMAIN unverified_filters \subseteq Tasks
      /\ IsFiniteSet(DOMAIN unverified_filters)
      /\ Cardinality(DOMAIN unverified_filters) <= MapSize
  BY DEF Inv, TypeInv
<1>2. CASE unverified_filters' = Without(t)
  <2>1. /\ Without(t) \in [DOMAIN unverified_filters \ {t} -> Progs]
        /\ DOMAIN Without(t) = DOMAIN unverified_filters \ {t}
        /\ \A u \in DOMAIN Without(t) : Without(t)[u] = unverified_filters[u]
        /\ IsFiniteSet(DOMAIN Without(t))
        /\ Cardinality(DOMAIN Without(t)) <= MapSize
    BY <1>1, WithoutType
  <2>2. MapInv'
    BY <1>2, <2>1 DEF Inv, TypeInv, MapInv, Exiting, Leaves, NoCall
  <2> QED
    BY <1>1, <1>2, <2>1, <2>2
<1>3. CASE UNCHANGED unverified_filters /\ call[t].op # "FILTER"
  BY <1>1, <1>3 DEF Inv, TypeInv, MapInv, Exiting, Leaves, NoCall
<1>4. CASE UNCHANGED unverified_filters /\ t \notin DOMAIN unverified_filters
  BY <1>1, <1>4 DEF Inv, TypeInv, MapInv, Exiting, Leaves, NoCall
<1> QED
  BY <1>2, <1>3, <1>4

\* The ring after a task has committed its record: the record is discarded, or
\* it is the load of the task's call.
LEMMA CommitRing ==
    ASSUME Inv, NEW t \in Tasks, NEW r, Commit(t, r), phase[t] = "reserved",
           UNCHANGED <<printed, scmp_arch, loads>>,
           r.prog \in Progs \cup {None}, r.arch \in Arches \cup {None},
           \/ r.state = "discarded"
           \/ /\ r.state = "sent" /\ result[t].loaded
              /\ call[t].op = "FILTER" => /\ r.prog = call[t].prog
                                          /\ r.arch = IF ArchKnown THEN call[t].arch ELSE None
              /\ call[t].op = "STRICT" => r.prog = None
    PROVE  /\ scmp_events' \in Seq(RecordType) /\ Len(scmp_events') <= RingCap
           /\ RingInv'
<1> DEFINE new == [tid |-> t, op |-> call[t].op, prog |-> r.prog, arch |-> r.arch, state |-> r.state]
<1>1. TypeInv /\ call[t].op \in {"STRICT", "FILTER"} /\ call[t].arch \in Arches
  BY DEF Inv, TypeInv, CallInv, CallType, Ops
<1>2. /\ scmp_events' \in Seq(RecordType)
      /\ Len(scmp_events') = Len(scmp_events)
      /\ \A i \in DOMAIN scmp_events' :
           \/ scmp_events'[i] = scmp_events[i] /\ i \in DOMAIN scmp_events
           \/ scmp_events'[i] = new
  BY <1>1, CommitType
<1>3. Len(scmp_events) <= RingCap
  BY DEF Inv, TypeInv
<1>4. new.state = "sent" => SentOK(new)
  <2>1. SUFFICES ASSUME r.state = "sent" PROVE SentOK(new)
    OBVIOUS
  <2>2. Event(t) \in loads
    BY <2>1 DEF Inv, ResultInv, Exiting
  <2>3. PrintOf(new) = Event(t)
    BY <1>1, <2>1 DEF PrintOf, Event
  <2>4. call[t].op = "FILTER" => IF ArchKnown THEN r.arch # None ELSE r.arch = None
    BY <1>1, <2>1, CaptureAssumption DEF CaptureAssumption
  <2> QED
    BY <2>1, <2>2, <2>3, <2>4 DEF SentOK
<1>5. RingInv'
  <2>1. /\ \A i \in DOMAIN printed' : printed'[i] \in loads'
        /\ ~ArchKnown => scmp_arch' = DefaultArch
    BY DEF Inv, RingInv
  <2>2. ASSUME NEW i \in DOMAIN scmp_events', scmp_events'[i].state = "sent"
        PROVE  SentOK(scmp_events'[i])
    BY <1>2, <1>4, <2>2 DEF Inv, RingInv
  <2> QED
    BY <2>1, <2>2 DEF RingInv, SentOK, PrintOf
<1> QED
  BY <1>2, <1>3, <1>5

LEMMA LeavingStep ==
    ASSUME Inv, NEW t \in Tasks,
           seccomp_retOther(t) \/ seccomp_retFull(t) \/ Delete(t)
    PROVE  Inv'
<1> USE DEF captureVars, bpfVars
<1>1. /\ Leaves(t) /\ UNCHANGED <<pc, scmp_arch, printed, scmp_events, calls, loads, early>>
      /\ \/ unverified_filters' = Without(t)
         \/ UNCHANGED unverified_filters /\ call[t].op # "FILTER"
  BY DEF seccomp_retOther, seccomp_retFull, Delete
<1>2. /\ phase' \in [Tasks -> Phases] /\ call' \in [Tasks -> CallType]
      /\ traced' \in [Tasks -> BOOLEAN] /\ result' \in [Tasks -> Results]
      /\ CallInv' /\ ResultInv'
  BY <1>1, LeavesCall
<1>3. /\ unverified_filters' \in [DOMAIN unverified_filters' -> Progs]
      /\ DOMAIN unverified_filters' \subseteq Tasks
      /\ IsFiniteSet(DOMAIN unverified_filters')
      /\ Cardinality(DOMAIN unverified_filters') <= MapSize
      /\ MapInv'
  BY <1>1, LeavesMap
<1>4. TypeInv'
  BY <1>1, <1>2, <1>3 DEF Inv, TypeInv
<1>5. RingInv'
  BY <1>1 DEF Inv, RingInv, SentOK, PrintOf
<1> QED
  BY <1>2, <1>3, <1>4, <1>5 DEF Inv

LEMMA ReserveStep ==
    ASSUME Inv, NEW t \in Tasks, seccomp_retReserve(t)
    PROVE  Inv'
<1> USE DEF captureVars
<1> DEFINE new == [tid |-> t, op |-> call[t].op, prog |-> None, arch |-> DefaultArch,
                   state |-> "busy"]
<1>1. /\ scmp_events \in Seq(RecordType) /\ scmp_events' = Append(scmp_events, new)
      /\ Len(scmp_events) < RingCap /\ RingCap \in Nat
      /\ phase[t] = "exit" /\ phase' = [phase EXCEPT ![t] = "reserved"]
      /\ call[t].op \in {"STRICT", "FILTER"}
      /\ UNCHANGED <<pc, scmp_arch, printed, unverified_filters, call, traced, result, calls,
                     loads, early>>
  BY CaptureAssumption DEF CaptureAssumption, Inv, TypeInv, CallType, Ops, seccomp_retReserve
<1>2. new \in RecordType
  BY <1>1, CaptureAssumption DEF CaptureAssumption, RecordType
<1>3. /\ scmp_events' \in Seq(RecordType) /\ Len(scmp_events') = Len(scmp_events) + 1
      /\ \A i \in 1 .. Len(scmp_events) : scmp_events'[i] = scmp_events[i]
      /\ scmp_events'[Len(scmp_events) + 1] = new
  BY <1>1, <1>2, AppendProperties
<1>4. TypeInv'
  <2>1. Len(scmp_events') <= RingCap
    BY <1>1, <1>3
  <2> QED
    BY <1>1, <1>3, <2>1 DEF Inv, TypeInv, Phases
<1>5. CallInv' /\ ResultInv'
  BY <1>1 DEF Inv, TypeInv, CallInv, ResultInv, Exiting, Event
<1>6. MapInv'
  BY <1>1 DEF Inv, TypeInv, MapInv, Exiting
<1>7. ASSUME NEW i \in DOMAIN scmp_events', scmp_events'[i].state = "sent"
      PROVE  i \in DOMAIN scmp_events /\ scmp_events'[i] = scmp_events[i]
  BY <1>1, <1>3, <1>7
<1>8. RingInv'
  BY <1>1, <1>7 DEF Inv, RingInv, SentOK, PrintOf
<1> QED
  BY <1>4, <1>5, <1>6, <1>8 DEF Inv

LEMMA CommitStep ==
    ASSUME Inv, NEW t \in Tasks, strict_mode(t) \/ NoProg(t)
    PROVE  Inv'
<1> USE DEF captureVars
<1> DEFINE r == IF NoProg(t) \/ result[t].rval # 0 THEN Discarded ELSE Sent(None, DefaultArch)
<1>1. /\ Leaves(t) /\ Commit(t, r) /\ phase[t] = "reserved"
      /\ UNCHANGED <<pc, scmp_arch, printed, unverified_filters, calls, loads, early>>
      /\ call[t].op = "STRICT" \/ t \notin DOMAIN unverified_filters
      /\ call[t].op = "STRICT" \/ NoProg(t)
  BY DEF strict_mode, NoProg
<1>2. /\ phase' \in [Tasks -> Phases] /\ call' \in [Tasks -> CallType]
      /\ traced' \in [Tasks -> BOOLEAN] /\ result' \in [Tasks -> Results]
      /\ CallInv' /\ ResultInv'
  BY <1>1, LeavesCall
<1>3. /\ unverified_filters' \in [DOMAIN unverified_filters' -> Progs]
      /\ DOMAIN unverified_filters' \subseteq Tasks
      /\ IsFiniteSet(DOMAIN unverified_filters')
      /\ Cardinality(DOMAIN unverified_filters') <= MapSize
      /\ MapInv'
  BY <1>1, LeavesMap
<1>4. /\ r.prog = None /\ r.arch = DefaultArch
      /\ r.state = "discarded" \/ (r.state = "sent" /\ call[t].op = "STRICT" /\ result[t].rval = 0)
  BY <1>1 DEF Discarded, Sent
<1>5. call[t].op = "STRICT" /\ result[t].rval = 0 => result[t].loaded
  BY <1>1 DEF Inv, ResultInv, Exiting
<1>6. scmp_events' \in Seq(RecordType) /\ Len(scmp_events') <= RingCap /\ RingInv'
  <2>1. r.prog \in Progs \cup {None} /\ r.arch \in Arches \cup {None}
    BY <1>4, CaptureAssumption DEF CaptureAssumption
  <2>2. r.state = "discarded" \/ (r.state = "sent" /\ result[t].loaded /\ call[t].op # "FILTER")
    BY <1>4, <1>5
  <2>3. r.prog = None
    BY <1>4
  <2> HIDE DEF r
  <2> QED
    BY <1>1, <2>1, <2>2, <2>3, CommitRing
<1>7. TypeInv'
  BY <1>1, <1>2, <1>3, <1>6 DEF Inv, TypeInv
<1> QED
  BY <1>2, <1>3, <1>6, <1>7 DEF Inv

LEMMA FilterModeStep ==
    ASSUME Inv, NEW t \in Tasks, filter_mode(t)
    PROVE  Inv'
<1> USE DEF captureVars
<1>1. /\ phase[t] = "reserved" /\ call[t].op = "FILTER" /\ t \in DOMAIN unverified_filters
      /\ phase' = [phase EXCEPT ![t] = "committed"]
      /\ UNCHANGED <<pc, scmp_arch, printed, unverified_filters, call, traced, result, calls,
                     loads, early>>
  BY DEF filter_mode
<1>2. PICK r \in {Discarded, Sent(unverified_filters[t], IF ArchKnown THEN call[t].arch ELSE None)} :
        /\ Commit(t, r)
        /\ r.state = "sent" => load_success(result[t].rval, call[t].flags)
  BY DEF filter_mode, Discarded, Sent
<1>3. load_success(result[t].rval, call[t].flags)
        => result[t].loaded /\ unverified_filters[t] = call[t].prog
  BY <1>1 DEF Inv, ResultInv, MapInv, Exiting
<1>4. /\ unverified_filters[t] \in Progs /\ call[t].arch \in Arches /\ DefaultArch \in Arches
  BY <1>1, CaptureAssumption DEF CaptureAssumption, Inv, TypeInv, CallType
<1>5. /\ r.prog \in Progs \cup {None} /\ r.arch \in Arches \cup {None}
      /\ \/ r.state = "discarded"
         \/ /\ r.state = "sent" /\ result[t].loaded
            /\ r.prog = call[t].prog /\ r.arch = IF ArchKnown THEN call[t].arch ELSE None
  BY <1>2, <1>3, <1>4 DEF Discarded, Sent
<1>6. scmp_events' \in Seq(RecordType) /\ Len(scmp_events') <= RingCap /\ RingInv'
  BY <1>1, <1>2, <1>5, CommitRing
<1>7. TypeInv'
  BY <1>1, <1>6 DEF Inv, TypeInv, Phases
<1>8. CallInv' /\ ResultInv'
  BY <1>1 DEF Inv, TypeInv, CallInv, ResultInv, Exiting, Event
<1>9. MapInv'
  BY <1>1 DEF Inv, TypeInv, MapInv, Exiting
<1> QED
  BY <1>6, <1>7, <1>8, <1>9 DEF Inv

LEMMA CommandStep ==
    ASSUME Inv, Attach \/ Fail
    PROVE  Inv'
<1> USE DEF kernelVars, bpfVars
<1>1. CASE Attach
  BY <1>1 DEF Attach, Inv, TypeInv, CallInv, ResultInv, MapInv, RingInv, Exiting, Event,
              SentOK, PrintOf
<1>2. CASE Fail
  <2>1. TypeInv'
    BY <1>2, FS_EmptySet, CaptureAssumption DEF CaptureAssumption, Fail, Inv, TypeInv
  <2>2. CallInv' /\ ResultInv' /\ MapInv' /\ RingInv'
    BY <1>2 DEF Fail, Inv, CallInv, ResultInv, MapInv, RingInv, Exiting, Event
  <2> QED
    BY <2>1, <2>2 DEF Inv
<1> QED
  BY <1>1, <1>2

LEMMA OnEventsStep ==
    ASSUME Inv, on_events
    PROVE  Inv'
<1> USE DEF kernelVars
<1> DEFINE event == Head(scmp_events)
           new == PrintOf(event)
<1>1. /\ scmp_events \in Seq(RecordType) /\ scmp_events # <<>> /\ Len(scmp_events) <= RingCap
      /\ printed \in Seq(PrintType) /\ event.state # "busy"
      /\ scmp_events' = Tail(scmp_events)
      /\ UNCHANGED <<pc, unverified_filters, phase, call, traced, result, calls, loads, early>>
  BY DEF on_events, Inv, TypeInv, Ready
<1>2. /\ event \in RecordType /\ event = scmp_events[1] /\ 1 \in DOMAIN scmp_events
      /\ scmp_events' \in Seq(RecordType) /\ Len(scmp_events') = Len(scmp_events) - 1
      /\ \A i \in 1 .. Len(scmp_events') : scmp_events'[i] = scmp_events[i + 1]
      /\ Len(scmp_events) \in Nat
  BY <1>1, HeadTailProperties
<1>3. \A i \in DOMAIN scmp_events' :
         i + 1 \in DOMAIN scmp_events /\ scmp_events'[i] = scmp_events[i + 1]
  BY <1>1, <1>2
<1>4. event.state = "sent" => SentOK(event)
  BY <1>2 DEF Inv, RingInv
<1>5. \/ UNCHANGED <<printed, scmp_arch>>
      \/ /\ event.state = "sent" /\ printed' = Append(printed, new) /\ scmp_arch' \in Arches
         /\ ~ArchKnown => scmp_arch' = DefaultArch
  <2>1. scmp_arch \in Arches /\ (~ArchKnown => scmp_arch = DefaultArch)
    BY DEF Inv, TypeInv, RingInv
  <2>2. CASE event.state = "discarded"
    BY <2>2 DEF on_events
  <2>3. CASE event.state = "sent" /\ event.op = "STRICT"
    BY <2>1, <2>3 DEF on_events, PrintOf
  <2>4. CASE event.state = "sent" /\ event.op = "FILTER"
    <3>1. /\ IF ArchKnown THEN event.arch # None ELSE event.arch = None
          /\ event.arch \in Arches \cup {None}
      BY <1>2, <1>4, <2>4 DEF SentOK, RecordType
    <3>2. /\ scmp_arch' = trans_ebpf_arch(event.arch, scmp_arch)
          /\ printed' = Append(printed, [tid |-> event.tid, op |-> "FILTER", prog |-> event.prog,
                                         arch |-> trans_ebpf_arch(event.arch, scmp_arch)])
      BY <2>4 DEF on_events
    <3>3. trans_ebpf_arch(event.arch, scmp_arch) = IF ArchKnown THEN event.arch ELSE DefaultArch
      BY <2>1, <3>1 DEF trans_ebpf_arch
    <3> QED
      BY <2>1, <2>4, <3>1, <3>2, <3>3 DEF PrintOf
  <2> QED
    BY <1>1, <1>2, <2>2, <2>3, <2>4 DEF RecordType
<1>6. new \in PrintType
  BY <1>2, CaptureAssumption DEF CaptureAssumption, PrintOf, PrintType, RecordType
<1>7. /\ printed' \in Seq(PrintType) /\ scmp_arch' \in Arches
      /\ \A i \in DOMAIN printed' : printed'[i] \in loads
      /\ ~ArchKnown => scmp_arch' = DefaultArch
  <2>1. /\ scmp_arch \in Arches /\ (~ArchKnown => scmp_arch = DefaultArch)
        /\ \A i \in DOMAIN printed : printed[i] \in loads
    BY DEF Inv, TypeInv, RingInv
  <2>2. CASE UNCHANGED <<printed, scmp_arch>>
    BY <1>1, <2>1, <2>2
  <2>3. CASE event.state = "sent" /\ printed' = Append(printed, new)
    <3>1. new \in loads
      BY <1>4, <2>3 DEF SentOK
    <3>2. /\ printed' \in Seq(PrintType) /\ Len(printed') = Len(printed) + 1
          /\ \A i \in 1 .. Len(printed) : printed'[i] = printed[i]
          /\ printed'[Len(printed) + 1] = new
      BY <1>1, <1>6, <2>3, AppendProperties
    <3> HIDE DEF new
    <3>3. \A i \in DOMAIN printed' : i \in DOMAIN printed \/ i = Len(printed) + 1
      BY <1>1, <3>2
    <3>4. ASSUME NEW i \in DOMAIN printed' PROVE printed'[i] \in loads
      <4>1. CASE i = Len(printed) + 1
        BY <3>1, <3>2, <4>1
      <4>2. CASE i \in DOMAIN printed
        <5>1. i \in 1 .. Len(printed)
          BY <1>1, <4>2
        <5>2. printed'[i] = printed[i]
          BY <3>2, <5>1
        <5> QED BY <2>1, <4>2, <5>2
      <4> QED BY <3>3, <4>1, <4>2
    <3> QED
      BY <1>5, <2>1, <3>2, <3>4
  <2> QED
    BY <1>5, <2>2, <2>3
<1>8. TypeInv'
  <2>1. Len(scmp_events') <= RingCap
    BY <1>1, <1>2, CaptureAssumption DEF CaptureAssumption
  <2> QED
    BY <1>1, <1>2, <1>7, <2>1 DEF Inv, TypeInv
<1>9. CallInv' /\ ResultInv' /\ MapInv'
  BY <1>1 DEF Inv, CallInv, ResultInv, MapInv, Exiting, Event
<1>10. RingInv'
  BY <1>1, <1>3, <1>7 DEF Inv, RingInv, SentOK, PrintOf
<1> QED
  BY <1>8, <1>9, <1>10 DEF Inv

-----------------------------------------------------------------------------
\* The inductive invariant.
THEOREM InvCorrect == Spec => []Inv
<1>1. ASSUME Inv, [Next]_vars PROVE Inv'
  <2>1. ASSUME NEW t \in Tasks, NEW c \in Calls, Enter(t, c) PROVE Inv'
    BY <1>1, <2>1, EnterStep
  <2>2. ASSUME NEW t \in Tasks, Step(t) PROVE Inv'
    BY <1>1, <2>2, CheckFilterStep, ReturnStep, LeavingStep, ReserveStep, CommitStep,
       FilterModeStep DEF Step
  <2>3. CASE Attach \/ Fail
    BY <1>1, <2>3, CommandStep
  <2>4. CASE on_events
    BY <1>1, <2>4, OnEventsStep
  <2>5. CASE UNCHANGED vars
    BY <1>1, <2>5 DEF vars, captureVars, bpfVars, kernelVars, Inv, TypeInv, CallInv,
                      ResultInv, MapInv, RingInv, Exiting, Event, SentOK, PrintOf
  <2> QED
    BY <1>1, <2>1, <2>2, <2>3, <2>4, <2>5 DEF Next, Terminated
<1> QED
  BY <1>1, InitInv, PTL DEF Spec

\* The map never holds more than its entries and the ring never more than it
\* has room for, and every entry of the map is a filter of some call.
THEOREM TypeCorrect == Spec => []TypeOK
<1>1. Inv => TypeOK
  BY DEF Inv, TypeInv, TypeOK, Phases
<1> QED
  BY <1>1, InvCorrect, PTL

\* What is printed, or was sent to be, is what the kernel loaded in the very
\* call that sent it (seccomp_ret and filter_mode of capture.bpf.c, on_events
\* and trans_ebpf_arch of capture.c).
THEOREM CapturedExactCorrect == Spec => []CapturedExact
<1>1. Inv => CapturedExact
  <2> SUFFICES ASSUME Inv PROVE CapturedExact
    OBVIOUS
  <2>1. ASSUME NEW i \in DOMAIN scmp_events, scmp_events[i].state = "sent"
        PROVE  \E l \in loads : /\ l.tid = scmp_events[i].tid /\ l.op = scmp_events[i].op
                                /\ l.prog = scmp_events[i].prog
    <3>1. SentOK(scmp_events[i])
      BY <2>1 DEF Inv, RingInv
    <3>2. scmp_events[i].op \in {"STRICT", "FILTER"}
      <4>1. scmp_events \in Seq(RecordType)
        BY DEF Inv, TypeInv
      <4>2. scmp_events[i] \in RecordType
        BY <4>1
      <4> QED
        BY <4>2 DEF RecordType
    <3>3. /\ PrintOf(scmp_events[i]).tid = scmp_events[i].tid
          /\ PrintOf(scmp_events[i]).op = scmp_events[i].op
          /\ PrintOf(scmp_events[i]).prog = scmp_events[i].prog
      BY <3>1, <3>2 DEF SentOK, PrintOf
    <3> QED
      BY <3>1, <3>3 DEF SentOK
  <2> QED
    BY <2>1 DEF CapturedExact, Inv, RingInv
<1> QED
  BY <1>1, InvCorrect, PTL

\* Only a call from before the attach leaves an entry in the map (the deletes
\* of capture.bpf.c).
THEOREM NoEntryLeftCorrect == Spec => []NoEntryLeft
<1>1. Inv => NoEntryLeft
  BY DEF Inv, MapInv, NoEntryLeft
<1> QED
  BY <1>1, InvCorrect, PTL
=============================================================================
