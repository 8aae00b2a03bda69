---------------------------- MODULE SeccompLoad ----------------------------
(***************************************************************************)
(* How a system call that sets a seccomp mode ends, and how trace and      *)
(* capture tell from its return value whether it loaded a filter           *)
(* (include/utils/ebpf_share.h).                                           *)
(***************************************************************************)
EXTENDS Integers

Flags == {"TSYNC", "NEW_LISTENER", "TSYNC_ESRCH"}

load_success(ret, flags) ==
    \/ ret = 0
    \/ /\ ret > 0
       /\ "NEW_LISTENER" \in flags
       /\ "TSYNC" \in flags => "TSYNC_ESRCH" \in flags

(***************************************************************************)
(* The kernel's side.  A load fails with an errno, or, when the filter     *)
(* could not be given to every thread, with the id of a thread; it         *)
(* succeeds with 0 or with the descriptor of the listener.  TSYNC and      *)
(* NEW_LISTENER go together only with TSYNC_ESRCH, which turns the thread  *)
(* id into an errno.                                                       *)
(***************************************************************************)
Errno    == -1
ThreadId == 5
ListenerFd == 3

FilterOutcomes(flags) ==
    LET listener == "NEW_LISTENER" \in flags
        ambiguous == {"TSYNC", "NEW_LISTENER"} \subseteq flags
                        /\ "TSYNC_ESRCH" \notin flags
    IN  {[rval |-> Errno, loaded |-> FALSE]}
        \cup (IF "TSYNC" \in flags /\ flags \cap {"NEW_LISTENER", "TSYNC_ESRCH"} = {}
                THEN {[rval |-> ThreadId, loaded |-> FALSE]} ELSE {})
        \cup (IF ambiguous THEN {}
                ELSE {[rval |-> IF listener THEN ListenerFd ELSE 0, loaded |-> TRUE]})

\* Strict mode takes no flags.
StrictOutcomes(flags) ==
    {[rval |-> Errno, loaded |-> FALSE]}
    \cup (IF flags = {} THEN {[rval |-> 0, loaded |-> TRUE]} ELSE {})

\* check_scmp_mode: where a positive value may be a descriptor, the one it is
\* must be a listener's (may_be_listener_fd).
Succeeds(rval, flags) ==
    IF "NEW_LISTENER" \in flags /\ ("TSYNC" \in flags => "TSYNC_ESRCH" \in flags)
      THEN rval = ListenerFd
      ELSE load_success(rval, flags)
=============================================================================
