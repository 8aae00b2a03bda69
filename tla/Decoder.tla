------------------------------ MODULE Decoder ------------------------------
(***************************************************************************)
(* src/decoder/decoder.c: what statement an instruction is.  An            *)
(* instruction is a code (class, mode or operation), a source, k, jt and   *)
(* jf; a statement is what the parser makes of a line, except that jt and  *)
(* jf are distances.                                                       *)
(***************************************************************************)
EXTENDS Integers

CONSTANTS
    ActionNr,   \* the high part of a return value, for each action
    DataBits    \* the width of its low part

Loads    == {"LD_ABS", "LD_LEN", "LD_IMM", "LD_MEM", "LDX_LEN", "LDX_IMM", "LDX_MEM"}
Stores   == {"ST", "STX"}
AluCodes == {"ADD", "SUB", "MUL", "DIV", "AND", "OR", "XOR", "LSH", "RSH", "NEG"}
JmpCodes == {"JEQ", "JGT", "JGE", "JSET"}
MiscCodes == {"TAX", "TXA"}
\* insn_name_map: what is not one of these is no instruction of a filter.
ValidCodes == Loads \cup Stores \cup AluCodes \cup JmpCodes \cup MiscCodes
                \cup {"JA", "RET"}

\* The actions whose data means something.
Dataful == {"TRACE", "TRAP", "ERRNO"}

-----------------------------------------------------------------------------
Obj(type, d) == [type |-> type, data |-> d]

\* abs_table.
AttrAt(k) ==
    CASE k = 0  -> Obj("ATTR_SYSCALL", 0)
      [] k = 4  -> Obj("ATTR_ARCH", 0)
      [] k = 8  -> Obj("ATTR_LOWPC", 0)
      [] k = 12 -> Obj("ATTR_HIGHPC", 0)
      [] OTHER  -> Obj(IF k % 8 = 0 THEN "ATTR_LOWARG" ELSE "ATTR_HIGHARG", (k - 16) \div 8)

Assign(left, op, right) == [type |-> "ASSIGN_LINE", left |-> left, op |-> op, right |-> right]

ld_ldx_line(f) ==
    Assign(Obj(IF f.code \in {"LD_ABS", "LD_LEN", "LD_IMM", "LD_MEM"} THEN "A" ELSE "X", 0),
           "EQUAL",
           CASE f.code = "LD_ABS"                -> AttrAt(f.k)
             [] f.code \in {"LD_LEN", "LDX_LEN"} -> Obj("ATTR_LEN", 0)
             [] f.code \in {"LD_IMM", "LDX_IMM"} -> Obj("NUMBER", f.k)
             [] OTHER                            -> Obj("MEM", f.k))

operator_table == [ADD |-> "ADD_TO", SUB |-> "SUB_TO", MUL |-> "MULTI_TO", DIV |-> "DIVIDE_TO",
                   OR |-> "OR_TO", AND |-> "AND_TO", LSH |-> "LSH_TO", RSH |-> "RSH_TO",
                   NEG |-> "NEGATIVE", XOR |-> "XOR_TO"]

alu_line(f) ==
    Assign(Obj("A", 0), operator_table[f.code],
           CASE f.src = "X"    -> Obj("X", 0)
             [] f.code = "NEG" -> Obj("A", 0)
             [] OTHER          -> Obj("NUMBER", f.k))

comparator_table == [JEQ |-> "EQUAL_EQUAL", JGT |-> "GREATER_THAN",
                     JGE |-> "GREATER_EQUAL", JSET |-> "AND"]
\* Mutant of reverse_table: < for the reverse of >.
reverse_tableStrict == [JEQ |-> "BANG_EQUAL", JGT |-> "LESS_THAN", JGE |-> "LESS_THAN"]

reverse_table == [JEQ |-> "BANG_EQUAL", JGT |-> "LESS_EQUAL", JGE |-> "LESS_THAN"]

\* A condition with nothing to do when it holds is turned round: the labels
\* change places, and the comparator is reversed or, for &, keeps a bang.
jump_line(f) ==
    LET turned  == f.code # "JA" /\ f.jt = 0 /\ f.jf # 0
        reverse == turned /\ f.code # "JSET"
    IN  [type |-> "JUMP_LINE",
         cond |-> f.code # "JA",
         bang |-> turned /\ ~reverse,
         cmp  |-> IF f.code = "JA" THEN "EQUAL_EQUAL"
                  ELSE IF reverse THEN reverse_table[f.code] ELSE comparator_table[f.code],
         obj  |-> IF f.code # "JA" /\ f.src = "K" THEN Obj("NUMBER", f.k) ELSE Obj("X", 0),
         jt   |-> IF f.code = "JA" THEN f.k ELSE IF turned THEN f.jf ELSE f.jt,
         jf   |-> IF f.code = "JA" THEN 0 ELSE IF turned THEN f.jt ELSE f.jf]

\* decode_return_k: the action is the high part of the word; what is no action
\* stays a number.
decode_return_k(k) ==
    LET actions == {v \in DOMAIN ActionNr : ActionNr[v] = k \div 2^DataBits}
    IN  IF actions = {} THEN Obj("NUMBER", k)
        ELSE LET v == CHOOSE v \in actions : TRUE
             IN  Obj(v, IF v \in Dataful THEN k % 2^DataBits ELSE 0)

decode_filter(f) ==
    CASE f.code \in Loads            -> ld_ldx_line(f)
      [] f.code \in Stores           -> Assign(Obj("MEM", f.k), "EQUAL",
                                               Obj(IF f.code = "ST" THEN "A" ELSE "X", 0))
      [] f.code \in AluCodes         -> alu_line(f)
      [] f.code \in JmpCodes \cup {"JA"} -> jump_line(f)
      [] f.code = "RET"              -> [type |-> "RETURN_LINE",
                                         obj |-> IF f.src = "A" THEN Obj("A", 0)
                                                                ELSE decode_return_k(f.k)]
      [] f.code = "TAX"              -> Assign(Obj("X", 0), "EQUAL", Obj("A", 0))
      [] f.code = "TXA"              -> Assign(Obj("A", 0), "EQUAL", Obj("X", 0))
=============================================================================
