----------------------------- MODULE MCEmulator -----------------------------
(***************************************************************************)
(* Small texts for Emulator.  Words have 4 bits, the low 2 of which are    *)
(* the data of a return value; there are two scratch words, and a          *)
(* conditional jump reaches one or two lines ahead.                        *)
(***************************************************************************)
EXTENDS Emulator, Alu

CONSTANTS L1, L2

MCWord == 0 .. 15
MCAluResult(op, left, right) == DoOperate(4, op, left, right)
MCDecodeReturnK(k) == ReturnAction(<<"KILL", "ERRNO", "ALLOW">>, 2, k)

\* An input: the system call number, and an argument that follows from it.
MCInputs == {1, 2}
MCAttrOf(d, obj) ==
    CASE obj.type = "ATTR_SYSCALL" -> d
      [] obj.type = "ATTR_LOWARG"  -> 6 - d
      [] OTHER                     -> 0

Reg(t)  == [type |-> t, data |-> 0]
Mem(k)  == [type |-> "MEM", data |-> k]
Num(n)  == [type |-> "NUMBER", data |-> n]
Attr(t) == [type |-> t, data |-> 0]

Assign(left, op, right) ==
    [type |-> "ASSIGN_LINE", left |-> left, op |-> op, right |-> right]
Goto(l) ==
    [type |-> "JUMP_LINE", cond |-> FALSE, bang |-> FALSE, cmp |-> "EQUAL_EQUAL",
     obj |-> Num(0), jt |-> l, jf |-> NoLabel]
If(bang, cmp, obj, jt, jf) ==
    [type |-> "JUMP_LINE", cond |-> TRUE, bang |-> bang, cmp |-> cmp,
     obj |-> obj, jt |-> jt, jf |-> jf]
Return(obj) == [type |-> "RETURN_LINE", obj |-> obj]
Line(label, body) == [label |-> label, body |-> body]

\* Scratch memory across branches: stores and loads on both sides of jumps,
\* with one load and one return under a label of their own.
MemoryLines ==
    {Line(NoLabel, b) : b \in
        {Assign(Mem(0), "EQUAL", Reg("A")), Assign(Reg("A"), "EQUAL", Mem(0)),
         Assign(Reg("A"), "EQUAL", Attr("ATTR_SYSCALL")),
         If(FALSE, "EQUAL_EQUAL", Num(1), L1, NoLabel),
         If(TRUE, "EQUAL_EQUAL", Num(1), L1, L2),
         Goto(L2), Return(Reg("A"))}}
    \cup {Line(L1, b) : b \in {Assign(Mem(0), "EQUAL", Reg("A")),
                               Return(Num(9))}}
    \cup {Line(L2, Assign(Reg("A"), "EQUAL", Mem(0)))}

\* Labels on lines of their own, before code, twice or nowhere; lines that do
\* not parse; operands the resolver refuses; arithmetic between registers, and
\* $X, which survives from one run to the next unless init_attr clears it.
LabelLines ==
    {Line(NoLabel, b) : b \in
        {EmptyLine, ErrorLine,
         If(FALSE, "GREATER_EQUAL", Num(5), L1, NoLabel),
         If(TRUE, "AND", Reg("X"), L1, NoLabel),
         Goto(L1), Goto(L2),
         Assign(Reg("A"), "EQUAL", Attr("ATTR_LOWARG")),
         Assign(Reg("X"), "EQUAL", Reg("A")),
         Assign(Reg("A"), "DIVIDE_TO", Reg("X")),
         Assign(Reg("A"), "RSH_TO", Num(4)),
         Assign(Mem(2), "EQUAL", Reg("X")),
         Return(Reg("A"))}}
    \cup {Line(L1, EmptyLine), Line(L1, Return([type |-> "ERRNO", data |-> 3])),
          Line(L2, EmptyLine), Line(L2, Return([type |-> "ERRNO", data |-> 4]))}

\* Shifts by $X.
ShiftLines ==
    {Line(NoLabel, b) : b \in
        {Assign(Reg("A"), "EQUAL", Attr("ATTR_LOWARG")),
         Assign(Reg("X"), "EQUAL", Reg("A")),
         Assign(Reg("A"), "LSH_TO", Reg("X")),
         Return(Reg("A"))}}
=============================================================================
