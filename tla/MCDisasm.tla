------------------------------ MODULE MCDisasm ------------------------------
(***************************************************************************)
(* Small inputs for Disasm: two arches, one of them the one it was told,   *)
(* and instructions around the arch, the number of the system call and one *)
(* word of memory.                                                         *)
(***************************************************************************)
EXTENDS Disasm

MCWord == 0 .. 7
other == 6
\* Return values have two bits of action and one of data; 3 is no action.
MCActionNr == [KILL |-> 0, ERRNO |-> 1, KILL_PROC |-> 2]

\* One name is another number on the other arch.
MCSysName == [arch \in {5, other} |-> [nr \in {0, 1} |-> (nr + arch) % 2]]

Insn(code, src, k, jt, jf) == [code |-> code, src |-> src, k |-> k, jt |-> jt, jf |-> jf]

\* Loads of the arch and of the number, conditions on both, a word that is
\* stored and loaded, and two instructions that are refused.
NameFilters ==
    {Insn("LD_ABS", "K", 4, 0, 0), Insn("LD_ABS", "K", 0, 0, 0),
     Insn("JEQ", "K", other, 1, 0), Insn("JEQ", "K", 1, 0, 0),
     Insn("ST", "K", 0, 0, 0), Insn("LD_MEM", "K", 0, 0, 0),
     Insn("RET", "K", 7, 0, 0), Insn("ST", "K", 1, 0, 0), Insn("BAD", "K", 0, 0, 0)}

\* Memory across a jump.
MemFilters ==
    {Insn("LD_ABS", "K", 0, 0, 0), Insn("JEQ", "K", 1, 1, 0),
     Insn("ST", "K", 0, 0, 0), Insn("LD_MEM", "K", 0, 0, 0),
     Insn("RET", "A", 0, 0, 0)}

\* Conditions with $X.
XFilters ==
    {Insn("LD_ABS", "K", 0, 0, 0), Insn("TAX", "K", 0, 0, 0),
     Insn("JEQ", "X", 0, 1, 0), Insn("JEQ", "K", 1, 0, 1), Insn("RET", "K", 2, 0, 0)}
=============================================================================
