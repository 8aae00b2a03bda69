---------------------------- MODULE MCEbpf2Cbpf ----------------------------
(***************************************************************************)
(* Small filters for Ebpf2Cbpf on words of two bits: 2 and 3 are negative. *)
(***************************************************************************)
EXTENDS Ebpf2Cbpf, Bitwise

MCXor(a, b) == a ^^ b
MCAnd(a, b) == a & b

St(cls, op, src, k) == CbpfStmt(cls, op, src, k)
Load == St("LD", "ABS", "K", 0)
RetA == St("RET", "RET", "A", 0)
RetK(k) == St("RET", "RET", "K", k)
Ja(k) == St("JMP", "JA", "K", k)
Jmp(op, src, k, jt, jf) == Cbpf("JMP", op, src, k, jt, jf)

\* Conditions in both directions, with an ordinary and a negative constant,
\* with explicit jumps and returns that may or may not be targets.
Branches ==
    {Load} \X
    {Jmp("JEQ", "K", k, jt, jf) : k \in {1, 3}, jt \in 0 .. 1, jf \in 0 .. 1} \X
    ({Ja(0), Ja(1), Ja(2), Jmp("JSET", "K", 1, 0, 1), Jmp("JGT", "K", 0, 1, 0), RetK(0), St("LD", "IMM", "K", 2)}) \X
    ({Ja(0), Ja(1), RetA, RetK(1), St("LD", "IMM", "K", 2), Jmp("JGT", "K", 2, 1, 0)}) \X
    ({RetA, RetK(3), St("LD", "IMM", "K", 0)}) \X
    {RetA}

\* Every other instruction, before and after a condition.
Data ==
    {Load} \X
    {St("MISC", "TAX", "K", 0), St("LDX", "IMM", "K", 1), St("LDX", "IMM", "K", 0),
     St("ST", "MEM", "K", 0), St("STX", "MEM", "K", 1), St("LD", "LEN", "K", 0)} \X
    {St("ALU", "DIV", "X", 0), St("ALU", "XOR", "K", 2), St("ALU", "LSH", "K", 1),
     St("ALU", "ADD", "X", 0), St("LDX", "MEM", "K", 0), St("LD", "IMM", "K", 0)} \X
    {Jmp("JGE", "X", 0, 0, 1), Jmp("JGE", "K", 2, 1, 0)} \X
    {St("ALU", "DIV", "X", 0), St("ALU", "DIV", "K", 1), St("LDX", "LEN", "K", 0),
     St("LD", "MEM", "K", 1), St("MISC", "TXA", "K", 0)} \X
    {RetA}

\* A jump longer than the spare room of the arrays.
Long == <<Load, Ja(2), St("ALU", "DIV", "X", 0), St("ALU", "DIV", "X", 0), RetA>>

MCFilters == Branches \cup Data \cup {Long}

\* Files hold one filter of each shape, cut at every byte.
MCFileFilters ==
    {Long,
     <<Load, Jmp("JEQ", "K", 3, 1, 1), Ja(1), RetK(1), St("LD", "IMM", "K", 0), RetA>>,
     <<Load, St("MISC", "TAX", "K", 0), St("ALU", "DIV", "X", 0), Jmp("JGE", "K", 2, 1, 0),
       St("ALU", "DIV", "X", 0), RetA>>}
=============================================================================
