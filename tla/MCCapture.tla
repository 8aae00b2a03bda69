----------------------------- MODULE MCCapture -----------------------------
(***************************************************************************)
(* Small instances of Capture: fewer entries in the map and in the ring    *)
(* than there are tasks.                                                   *)
(***************************************************************************)
EXTENDS Capture

CONSTANTS t1, t2, native, compat

DoSeccomp(op, flags, arch) == [op |-> op, flags |-> flags, arch |-> arch]

\* A positive return value is a failure of the first and a load of the second.
AllCalls == {DoSeccomp("FILTER", {"TSYNC"}, native),
             DoSeccomp("FILTER", {"NEW_LISTENER"}, compat),
             DoSeccomp("STRICT", {}, native),
             DoSeccomp("OTHER", {}, native)}
=============================================================================
