-------------------------------- MODULE Alu --------------------------------
(***************************************************************************)
(* The arithmetic of src/emu.c on words of a chosen width: the assignment  *)
(* operators, the comparators, and what a returned word means              *)
(* (decode_return_k of src/decoder/decoder.c).  uint32_t wraps, so every   *)
(* result is taken modulo 2^bits.                                          *)
(***************************************************************************)
EXTENDS Integers, Sequences, Bitwise

\* *left operator *right.  The caller has excluded a division by zero and has
\* masked a shift count.
DoOperate(bits, op, left, right) ==
    LET wrap(n) == n % 2^bits
    IN  CASE op = "ADD_TO"    -> wrap(left + right)
          [] op = "SUB_TO"    -> wrap(left - right)
          [] op = "MULTI_TO"  -> wrap(left * right)
          [] op = "DIVIDE_TO" -> IF right = 0 THEN 0 ELSE left \div right
          [] op = "LSH_TO"    -> wrap(left * 2^right)
          [] op = "RSH_TO"    -> left \div 2^right
          [] op = "AND_TO"    -> left & right
          [] op = "OR_TO"     -> left | right
          [] op = "XOR_TO"    -> left ^^ right
          [] op = "EQUAL"     -> right
          [] op = "NEGATIVE"  -> wrap(-right)

\* (bool) (A_reg comparator right).
DoCompare(cmp, left, right) ==
    CASE cmp = "EQUAL_EQUAL"   -> left = right
      [] cmp = "BANG_EQUAL"    -> left # right
      [] cmp = "GREATER_EQUAL" -> left >= right
      [] cmp = "GREATER_THAN"  -> left > right
      [] cmp = "LESS_EQUAL"    -> left <= right
      [] cmp = "LESS_THAN"     -> left < right
      [] cmp = "AND"           -> left & right # 0

\* decode_return_k: the action is the high half of the word.  The numbering of
\* the actions is abstracted to their order in actions, the first of which is
\* KILL (SECCOMP_RET_KILL_THREAD is 0); a word that is no action is KILL_PROC.
ReturnAction(actions, dataBits, k) ==
    LET nr     == k \div 2^dataBits
        action == IF nr < Len(actions) THEN actions[nr + 1] ELSE "KILL_PROC"
    IN  [type |-> action,
         data |-> IF action \in {"TRACE", "TRAP", "ERRNO"} THEN k % 2^dataBits
                                                           ELSE 0]
=============================================================================
