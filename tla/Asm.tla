-------------------------------- MODULE Asm --------------------------------
(***************************************************************************)
(* src/asm.c: the instruction a resolved statement is, and what the        *)
(* c-macro format prints for it.  Statements have the form Decoder gives   *)
(* them; the other formats print the instruction's bytes.                  *)
(***************************************************************************)
EXTENDS Integers

CONSTANTS
    ActionNr, DataBits,     \* see Decoder
    TopAction               \* the highest bit of the action's number

Filter(code, src, k) == [code |-> code, src |-> src, k |-> k, jt |-> 0, jf |-> 0]

\* retvals.
retvals(v) == ActionNr[v] * 2^DataBits

return_line(s) ==
    CASE s.obj.type = "A"      -> Filter("RET", "A", 0)
      [] s.obj.type = "NUMBER" -> Filter("RET", "K", s.obj.data)
      [] OTHER                 -> Filter("RET", "K", retvals(s.obj.type) + s.obj.data)

operator_table == [ADD_TO |-> "ADD", SUB_TO |-> "SUB", MULTI_TO |-> "MUL", DIVIDE_TO |-> "DIV",
                   LSH_TO |-> "LSH", RSH_TO |-> "RSH", AND_TO |-> "AND", OR_TO |-> "OR",
                   XOR_TO |-> "XOR"]

alu_line(s) ==
    IF s.right.type = "X" THEN Filter(operator_table[s.op], "X", 0)
                          ELSE Filter(operator_table[s.op], "K", s.right.data)

negative_line == Filter("NEG", "K", 0)

st_stx_line(s) == Filter(IF s.right.type = "A" THEN "ST" ELSE "STX", "K", s.left.data)

ldx_line(s) ==
    CASE s.right.type = "A"        -> Filter("TAX", "K", 0)
      [] s.right.type = "NUMBER"   -> Filter("LDX_IMM", "K", s.right.data)
      [] s.right.type = "MEM"      -> Filter("LDX_MEM", "K", s.right.data)
      [] s.right.type = "ATTR_LEN" -> Filter("LDX_LEN", "K", s.right.data)

\* offset_abs and offset_table.
offset_abs(obj) ==
    LET offset_table == [ATTR_SYSCALL |-> 0, ATTR_ARCH |-> 4, ATTR_LOWPC |-> 8, ATTR_HIGHPC |-> 12,
                         ATTR_LOWARG |-> 16, ATTR_HIGHARG |-> 20]
    IN  offset_table[obj.type]
        + (IF obj.type \in {"ATTR_LOWARG", "ATTR_HIGHARG"} THEN 8 * obj.data ELSE 0)

ld_line(s) ==
    CASE s.right.type = "X"        -> Filter("TXA", "K", 0)
      [] s.right.type = "ATTR_LEN" -> Filter("LD_LEN", "K", 0)
      [] s.right.type = "NUMBER"   -> Filter("LD_IMM", "K", s.right.data)
      [] s.right.type = "MEM"      -> Filter("LD_MEM", "K", s.right.data)
      [] OTHER                     -> Filter("LD_ABS", "K", offset_abs(s.right))

assign_line(s) ==
    CASE s.op \in DOMAIN operator_table -> alu_line(s)
      [] s.op = "NEGATIVE"              -> negative_line
      [] s.op = "EQUAL" /\ s.left.type = "MEM" -> st_stx_line(s)
      [] s.op = "EQUAL" /\ s.left.type = "X"   -> ldx_line(s)
      [] s.op = "EQUAL" /\ s.left.type = "A"   -> ld_line(s)

comparator_table ==
    [EQUAL_EQUAL |-> "JEQ", BANG_EQUAL |-> "JEQ", GREATER_EQUAL |-> "JGE", LESS_THAN |-> "JGE",
     GREATER_THAN |-> "JGT", LESS_EQUAL |-> "JGT", AND |-> "JSET"]

\* Mutant of sym_reverse: <= is encoded as > without changing the branches.
sym_reverseNoLessEqual(cmp) == cmp \in {"BANG_EQUAL", "LESS_THAN"}

\* The comparators that are the opposite of what they are encoded as.
sym_reverse(cmp) == cmp \in {"BANG_EQUAL", "LESS_EQUAL", "LESS_THAN"}

jump_line(s) ==
    LET reversed == sym_reverse(s.cmp) # s.bang
    IN  IF ~s.cond THEN Filter("JA", "K", s.jt)
        ELSE [code |-> comparator_table[s.cmp],
              src  |-> IF s.obj.type = "X" THEN "X" ELSE "K",
              k    |-> IF s.obj.type = "NUMBER" THEN s.obj.data ELSE 0,
              jt   |-> IF reversed THEN s.jf ELSE s.jt,
              jf   |-> IF reversed THEN s.jt ELSE s.jf]

asm_statement(s) ==
    CASE s.type = "RETURN_LINE" -> return_line(s)
      [] s.type = "ASSIGN_LINE" -> assign_line(s)
      [] s.type = "JUMP_LINE"   -> jump_line(s)

-----------------------------------------------------------------------------
\* Mutant of DataOf: the action is taken off a bit too low.
DataOfWide(k) == k % 2^(DataBits - 1)

\* f->k & SECCOMP_RET_DATA.
DataOf(k) == k % 2^DataBits

\* c_macro_handle on a return: first the values without data, then the action
\* in k & SECCOMP_RET_ACTION, which leaves the highest bit out.  What the
\* macros stand for is what a C compiler makes of the line.
CMacroReturn(k) ==
    LET dataless == {v \in DOMAIN ActionNr \ {"TRACE", "TRAP", "ERRNO"} : retvals(v) = k}
        dataful  == {v \in DOMAIN ActionNr \cap {"TRACE", "TRAP", "ERRNO"} :
                       ActionNr[v] = (k \div 2^DataBits) % TopAction}
    IN  CASE dataless # {} -> retvals(CHOOSE v \in dataless : TRUE)
          [] dataless = {} /\ dataful # {} -> retvals(CHOOSE v \in dataful : TRUE) + DataOf(k)
          [] OTHER -> k

\* On a load of seccomp_data: the member and whether 4 is added to its offset.
CMacroAbs(k) ==
    LET extra  == IF (k \div 4) % 2 = 1 /\ k # 4 THEN 4 ELSE 0
        member == CASE k \div 4 = 0 -> "nr"
                    [] k \div 4 = 1 -> "arch"
                    [] k \div 4 \in {2, 3} -> "instruction_pointer"
                    [] OTHER -> "args"
        offsetof == [nr |-> 0, arch |-> 4, instruction_pointer |-> 8,
                     args |-> 16 + 8 * (((k \div 4) - 4) \div 2)]
    IN  offsetof[member] + extra

\* The k of the instruction that is printed.
c_macro_handle(f) ==
    CASE f.code = "LD_ABS"                -> CMacroAbs(f.k)
      [] f.code = "RET" /\ f.src = "K"    -> CMacroReturn(f.k)
      [] OTHER                            -> f.k
=============================================================================
