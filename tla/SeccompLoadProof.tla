-------------------------- MODULE SeccompLoadProof --------------------------
(***************************************************************************)
(* trace and capture tell loads from failures for every set of flags.  The *)
(* runs of Trace and Capture make calls with a few of them.                *)
(***************************************************************************)
EXTENDS SeccompLoad, TLAPS

\* What load_success says of a call that loads a filter is what happened: a
\* thread id is never taken for a listener, nor a listener for a thread id.
THEOREM LoadSuccessExact ==
    \A flags \in SUBSET Flags : \A o \in FilterOutcomes(flags) :
        (load_success(o.rval, flags) <=> o.loaded)
<1>1. SUFFICES ASSUME NEW flags \in SUBSET Flags, NEW o \in FilterOutcomes(flags)
               PROVE  (load_success(o.rval, flags) <=> o.loaded)
  OBVIOUS
<1>2. CASE o = [rval |-> Errno, loaded |-> FALSE]
  BY <1>2 DEF load_success, Errno
<1>3. CASE /\ "TSYNC" \in flags /\ flags \cap {"NEW_LISTENER", "TSYNC_ESRCH"} = {}
           /\ o = [rval |-> ThreadId, loaded |-> FALSE]
  BY <1>3 DEF load_success, ThreadId
<1>4. CASE /\ ~({"TSYNC", "NEW_LISTENER"} \subseteq flags /\ "TSYNC_ESRCH" \notin flags)
           /\ o = [rval |-> IF "NEW_LISTENER" \in flags THEN ListenerFd ELSE 0, loaded |-> TRUE]
  BY <1>4 DEF load_success, ListenerFd
<1> QED
  BY <1>1, <1>2, <1>3, <1>4 DEF FilterOutcomes

\* The same of what check_scmp_mode of trace makes of it, as long as the
\* listener is still open when it looks, and of strict mode.
THEOREM SucceedsExact ==
    \A flags \in SUBSET Flags :
        /\ \A o \in FilterOutcomes(flags) : (Succeeds(o.rval, flags) <=> o.loaded)
        /\ \A o \in StrictOutcomes(flags) : (load_success(o.rval, flags) <=> o.loaded)
<1>1. ASSUME NEW flags \in SUBSET Flags, NEW o \in FilterOutcomes(flags)
      PROVE  (Succeeds(o.rval, flags) <=> o.loaded)
  <2>1. CASE ~("NEW_LISTENER" \in flags /\ ("TSYNC" \in flags => "TSYNC_ESRCH" \in flags))
    BY <2>1, LoadSuccessExact DEF Succeeds
  <2>2. CASE "NEW_LISTENER" \in flags /\ ("TSYNC" \in flags => "TSYNC_ESRCH" \in flags)
    <3>1. o \in {[rval |-> Errno, loaded |-> FALSE], [rval |-> ListenerFd, loaded |-> TRUE]}
      BY <2>2 DEF FilterOutcomes
    <3> QED
      BY <2>2, <3>1 DEF Succeeds, Errno, ListenerFd
  <2> QED
    BY <2>1, <2>2
<1>2. ASSUME NEW flags \in SUBSET Flags, NEW o \in StrictOutcomes(flags)
      PROVE  (load_success(o.rval, flags) <=> o.loaded)
  <2>1. o \in {[rval |-> Errno, loaded |-> FALSE], [rval |-> 0, loaded |-> TRUE]}
    BY <1>2 DEF StrictOutcomes
  <2> QED
    BY <2>1 DEF load_success, Errno
<1> QED
  BY <1>1, <1>2
=============================================================================
