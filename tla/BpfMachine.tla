----------------------------- MODULE BpfMachine -----------------------------
(***************************************************************************)
(* What emu promises: the classic-BPF machine that runs a seccomp filter   *)
(* in the kernel.  It is not part of the repository; it is stated here     *)
(* from the instruction set src/asm.c encodes to and the kernel's          *)
(* behaviour the tests of emu refer to.  A filter is a sequence of code    *)
(* lines whose jumps carry the code line they go to.  Scratch memory is    *)
(* undefined at the start of a run, and nothing may read an undefined      *)
(* word.                                                                   *)
(***************************************************************************)
EXTENDS Integers, Sequences

CONSTANTS
    Slots, Word, WordBits, Undef, NoVerdict,
    Inputs,                     \* what a run reads: AttrOf(input, obj)
    AttrOf(_, _),
    AluResult(_, _, _), CompareResult(_, _, _), DecodeReturnK(_)

VARIABLES prog, pc, A, X, M, input, verdict

vars == <<prog, pc, A, X, M, input, verdict>>

Init ==
    /\ prog = <<>>
    /\ pc = 0
    /\ A = 0 /\ X = 0
    /\ M = [k \in Slots |-> Undef]
    /\ verdict = NoVerdict

\* A filter is accepted, once.
Load ==
    /\ prog = <<>>
    /\ pc = 0
    /\ UNCHANGED <<pc, A, X, M, input, verdict>>

\* A run starts from cleared registers and undefined memory.
Start ==
    /\ prog # <<>>
    /\ pc = 0
    /\ pc' = 1
    /\ A' = 0 /\ X' = 0
    /\ M' = [k \in Slots |-> Undef]
    /\ input' \in Inputs
    /\ verdict' = NoVerdict
    /\ UNCHANGED prog

Operand(obj) ==
    CASE obj.type = "A"      -> A
      [] obj.type = "X"      -> X
      [] obj.type = "MEM"    -> M[obj.data]
      [] obj.type = "NUMBER" -> obj.data
      [] OTHER               -> AttrOf(input, obj)

\* A register or word assignment.  A shift takes its count modulo the word's
\* width and changes no operand but the left one.
Assign(s) ==
    LET operand == Operand(s.right)
        right   == IF s.op \in {"LSH_TO", "RSH_TO"} THEN operand % WordBits
                                                    ELSE operand
        value   == AluResult(s.op, Operand(s.left), right)
    IN  /\ operand # Undef
        /\ ~(s.op = "DIVIDE_TO" /\ right = 0)
        /\ A' = IF s.left.type = "A" THEN value ELSE A
        /\ X' = IF s.left.type = "X" THEN value ELSE X
        /\ M' = IF s.left.type = "MEM" THEN [M EXCEPT ![s.left.data] = value] ELSE M
        /\ pc' = pc + 1
        /\ UNCHANGED <<prog, input, verdict>>

\* A division by zero ends the run as if the filter returned 0.
DivideByZero(s) ==
    /\ s.op = "DIVIDE_TO"
    /\ Operand(s.right) = 0
    /\ pc' = 0
    /\ verdict' = DecodeReturnK(0)
    /\ UNCHANGED <<prog, A, X, M, input>>

Jump(s) ==
    LET holds == s.cond => CompareResult(s.cmp, A, Operand(s.obj)) # s.bang
    IN  /\ pc' = IF holds THEN prog[pc].jt ELSE prog[pc].jf
        /\ UNCHANGED <<prog, A, X, M, input, verdict>>

Return(s) ==
    /\ pc' = 0
    /\ verdict' = CASE s.obj.type = "A"      -> DecodeReturnK(A)
                    [] s.obj.type = "NUMBER" -> DecodeReturnK(s.obj.data)
                    [] OTHER                 -> s.obj
    /\ UNCHANGED <<prog, A, X, M, input>>

Step ==
    /\ pc \in 1 .. Len(prog)
    /\ LET s == prog[pc].stmt
       IN  \/ s.type = "ASSIGN_LINE" /\ (Assign(s) \/ DivideByZero(s))
           \/ s.type = "JUMP_LINE" /\ Jump(s)
           \/ s.type = "RETURN_LINE" /\ Return(s)

Next == Load \/ Start \/ Step

Spec == Init /\ [][Next]_vars
=============================================================================
