------------------------------ MODULE MCTrace ------------------------------
(***************************************************************************)
(* Small instances of Trace: two tasks, two arches that number seccomp and *)
(* prctl so that one's seccomp is the other's prctl, and an arch that      *)
(* libseccomp does not know.                                               *)
(***************************************************************************)
EXTENDS Trace

CONSTANTS x64, x86, odd

MCNr == [a \in {x64, x86, odd} |->
           CASE a = x64 -> [seccomp |-> 1, prctl |-> 2]
             [] a = x86 -> [seccomp |-> 2, prctl |-> 3]
             [] a = odd -> [seccomp |-> NoNr, prctl |-> NoNr]]

SysCall(arch, nr, arg0, arg1, flags) ==
    [arch |-> arch, nr |-> nr, arg0 |-> arg0, arg1 |-> arg1, flags |-> flags]

\* A syscall_info of which the code can tell nothing.
NoLeftover == {i \in AnyInfo : i.op = "none"}

\* seccomp on both arches, with a listener on one of them; prctl for a filter
\* and for strict mode; a call of neither, which may fork; and a call on the
\* arch without numbers.
TwoArchCalls ==
    {SysCall(x64, 1, SECCOMP_SET_MODE_FILTER, 0, {"TSYNC"}),
     SysCall(x64, 2, PR_SET_SECCOMP, SECCOMP_MODE_FILTER, {}),
     SysCall(x64, 2, PR_SET_SECCOMP, SECCOMP_MODE_STRICT, {}),
     SysCall(x86, 2, SECCOMP_SET_MODE_FILTER, 0, {"NEW_LISTENER"}),
     SysCall(x64, 3, 0, 0, {}),
     SysCall(odd, 3, 0, 0, {})}

\* Those of them that trace gets past the resolution of their numbers with.
NumberedCalls == {c \in TwoArchCalls : c.arch # odd}
=============================================================================
