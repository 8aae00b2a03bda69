---------------------------- MODULE KernelFilter ----------------------------
(***************************************************************************)
(* What the kernel does with a filter before ceccomp sees it again         *)
(* (external: net/core/filter.c and kernel/bpf/core.c, which               *)
(* src/utils/bpf_trans.c cites and takes apart).  A classic filter is      *)
(* turned into eBPF by bpf_convert_filter and, when the JIT is hardened,   *)
(* its constants are hidden by bpf_jit_blind_insn.  RunFilter is what the  *)
(* classic filter answers.                                                 *)
(***************************************************************************)
EXTENDS Integers, Sequences, SequencesExt

CONSTANTS
    WordBits,       \* width of a word: k is negative when its top bit is set
    DataLen,        \* sizeof (struct seccomp_data)
    NoRnd,          \* the constants are not blinded
    BitXor(_, _),   \* a ^ b and a & b of C
    BitAnd(_, _)

Word == 0 .. 2^WordBits - 1
Negative(k) == k >= 2^(WordBits - 1)

\* One classic instruction (struct sock_filter); code is class, op and source.
Cbpf(cls, op, src, k, jt, jf) ==
    [cls |-> cls, op |-> op, src |-> src, k |-> k, jt |-> jt, jf |-> jf]
CbpfStmt(cls, op, src, k) == Cbpf(cls, op, src, k, 0, 0)

\* One eBPF instruction (struct bpf_insn).  Register 0 is A, so an instruction
\* without a source register has source A.
Ebpf(cls, op, src, dst, sreg, off, imm) ==
    [cls |-> cls, op |-> op, src |-> src, dst |-> dst, sreg |-> sreg,
     off |-> off, imm |-> imm]
ZeroInsn == Ebpf("LD", "ADD", "K", "A", "A", 0, 0)

\* The instructions a filter is made of.
Stmts(clss, ops, srcs) ==
    [cls : clss, op : ops, src : srcs, k : Word, jt : {0}, jf : {0}]
ClassicInsn ==
         Stmts({"LD"}, {"ABS", "MEM", "IMM", "LEN"}, {"K"})
    \cup Stmts({"LDX"}, {"MEM", "IMM", "LEN"}, {"K"})
    \cup Stmts({"ST", "STX"}, {"MEM"}, {"K"})
    \cup Stmts({"MISC"}, {"TAX", "TXA"}, {"K"})
    \cup Stmts({"ALU"}, {"ADD", "XOR", "LSH", "DIV"}, {"K", "X"})
    \cup Stmts({"JMP"}, {"JA"}, {"K"})
    \cup [cls : {"JMP"}, op : {"JEQ", "JGT", "JGE", "JSET"}, src : {"K", "X"},
          k : Word, jt : Nat, jf : Nat]
    \cup Stmts({"RET"}, {"RET"}, {"K", "A"})

---------------------------------------------------------------------------
Operate(op, a, b) ==
    CASE op = "ADD" -> (a + b) % 2^WordBits
      [] op = "XOR" -> BitXor(a, b)
      [] op = "LSH" -> (a * 2^(b % WordBits)) % 2^WordBits
      [] op = "DIV" -> a \div b

Holds(op, a, b) ==
    CASE op = "JEQ"  -> a = b
      [] op = "JGT"  -> a > b
      [] op = "JGE"  -> a >= b
      [] op = "JSET" -> BitAnd(a, b) # 0

NoVerdict == -1

\* The verdict of filter prog on data d: run is the verdict from instruction pc
\* on.  A division by zero answers 0, and running off the end is no verdict.
RunFilter(prog, d) ==
    LET run[pc \in Nat, A \in Word, X \in Word, M \in [{0, 1} -> Word]] ==
        IF pc > Len(prog) THEN NoVerdict
        ELSE
        LET f       == prog[pc]
            operand == IF f.src = "X" THEN X ELSE f.k
            value   == CASE f.op = "ABS" -> d
                         [] f.op = "MEM" -> M[f.k]
                         [] f.op = "IMM" -> f.k
                         [] f.op = "LEN" -> DataLen
            next    == pc + 1
        IN  CASE f.cls = "LD"  -> run[next, value, X, M]
              [] f.cls = "LDX" -> run[next, A, value, M]
              [] f.cls = "ST"  -> run[next, A, X, [M EXCEPT ![f.k] = A]]
              [] f.cls = "STX" -> run[next, A, X, [M EXCEPT ![f.k] = X]]
              [] f.op = "TAX"  -> run[next, A, A, M]
              [] f.op = "TXA"  -> run[next, X, X, M]
              [] f.cls = "ALU" -> IF f.op = "DIV" /\ operand = 0 THEN 0
                                  ELSE run[next, Operate(f.op, A, operand), X, M]
              [] f.op = "JA"   -> run[next + f.k, A, X, M]
              [] f.cls = "JMP" ->
                    run[next + (IF Holds(f.op, A, operand) THEN f.jt ELSE f.jf), A, X, M]
              [] f.cls = "RET" -> IF f.src = "A" THEN A ELSE f.k
    IN  run[1, 0, 0, [m \in {0, 1} |-> 0]]

\* What seccomp_check_filter asks of a filter: jumps stay inside, the last
\* instruction returns.
Acceptable(prog) ==
    /\ prog # <<>>
    /\ Last(prog).cls = "RET"
    /\ \A i \in DOMAIN prog :
        prog[i].cls = "JMP" =>
            LET f == prog[i] IN IF f.op = "JA" THEN i + 1 + f.k <= Len(prog)
                                ELSE i + 1 + f.jt <= Len(prog) /\ i + 1 + f.jf <= Len(prog)

---------------------------------------------------------------------------
\* Until the addresses are known the off of a jump is the classic instruction
\* it goes to; the jump over the guard of a division is relative already.
Mov(dst, k)       == Ebpf("ALU", "MOV", "K", dst, "A", 0, k)
Jump(op, src, sreg, k, to) == Ebpf("JMP", op, src, "A", sreg, to, k)
Exit              == Ebpf("JMP", "EXIT", "K", "A", "A", 0, 0)
StackSlot(k)      == -(4 * k) - 4

\* bpf_convert_filter on instruction i.
Convert(prog, i) ==
    LET f == prog[i]
        large == f.src = "K" /\ Negative(f.k)
        Jxx(op, to) == IF large THEN Jump(op, "X", "TMP", 0, to)
                       ELSE Jump(op, f.src, IF f.src = "X" THEN "X" ELSE "A",
                                 IF f.src = "X" THEN 0 ELSE f.k, to)
        jt == i + 1 + f.jt
        jf == i + 1 + f.jf
        opposite == [JEQ |-> "JNE", JGT |-> "JLE", JGE |-> "JLT"]
        dst == IF f.cls = "LD" THEN "A" ELSE "X"
        loaded == CASE f.op = "ABS" -> Ebpf("LDX", "MEM", "K", "A", "CTX", f.k, 0)
                    [] f.op = "MEM" -> Ebpf("LDX", "MEM", "K", dst, "FP", StackSlot(f.k), 0)
                    [] f.op = "IMM" -> Mov(dst, f.k)
                    [] f.op = "LEN" -> Mov(dst, DataLen)
    IN  CASE f.cls \in {"LD", "LDX"} -> <<loaded>>
          [] f.cls \in {"ST", "STX"} ->
                <<Ebpf("STX", "MEM", "K", "FP", IF f.cls = "ST" THEN "A" ELSE "X", StackSlot(f.k), 0)>>
          [] f.op = "TAX" -> <<Ebpf("ALU64", "MOV", "X", "X", "A", 0, 0)>>
          [] f.op = "TXA" -> <<Ebpf("ALU64", "MOV", "X", "A", "X", 0, 0)>>
          [] f.cls = "ALU" /\ f.op = "DIV" /\ f.src = "X" ->
                <<Ebpf("ALU", "MOV", "X", "X", "X", 0, 0), Ebpf("JMP", "JNE", "K", "X", "A", 2, 0),
                  Ebpf("ALU", "XOR", "X", "A", "A", 0, 0), Exit,
                  Ebpf("ALU", "DIV", "X", "A", "X", 0, 0)>>
          [] f.cls = "ALU" /\ ~(f.op = "DIV" /\ f.src = "X") ->
                <<Ebpf("ALU", f.op, f.src, "A", "X", 0, f.k)>>
          [] f.op = "JA" -> <<Jump("JA", "K", "A", 0, i + 1 + f.k)>>
          [] f.cls = "JMP" /\ f.op # "JA" ->
                (IF large THEN <<Mov("TMP", f.k)>> ELSE <<>>) \o
                (CASE f.jf = 0 -> <<Jxx(f.op, jt)>>
                   [] f.jf # 0 /\ f.jt = 0 /\ f.op # "JSET" -> <<Jxx(opposite[f.op], jf)>>
                   [] OTHER -> <<Jxx(f.op, jt), Jump("JA", "K", "A", 0, jf)>>)
          [] f.cls = "RET" -> (IF f.src = "K" THEN <<Mov("A", f.k)>> ELSE <<>>) \o <<Exit>>

\* bpf_jit_blind_insn with the random word rnd: an immediate operand reaches
\* its instruction through the hidden register AX.  Shifts are left alone.
Blind(e, rnd) ==
    LET hide(cls) == <<Ebpf(cls, "MOV", "K", "AX", "A", 0, BitXor(rnd, e.imm)),
                       Ebpf(cls, "XOR", "K", "AX", "A", 0, rnd),
                       [e EXCEPT !.src = "X", !.sreg = "AX", !.imm = 0]>>
    IN  CASE e.op = "MOV" /\ e.src = "K" /\ e.imm = 0 -> <<Ebpf("ALU64", "XOR", "X", e.dst, e.dst, 0, 0)>>
          [] e.cls = "ALU" /\ e.src = "K" /\ e.op # "LSH" /\ ~(e.op = "MOV" /\ e.imm = 0) -> hide("ALU")
          [] e.cls = "JMP" /\ e.src = "K" /\ e.op \notin {"JA", "EXIT"} -> hide("ALU64")
          [] OTHER -> <<e>>

Hidden(insns, rnd) == FlattenSeq([j \in DOMAIN insns |-> Blind(insns[j], rnd)])

\* What each classic instruction has become, before its jumps are resolved.
Bodies(prog, rnd) ==
    [i \in DOMAIN prog |-> IF rnd = NoRnd THEN Convert(prog, i)
                                          ELSE Hidden(Convert(prog, i), rnd)]

\* Where each of them starts, behind the three instructions of the prologue.
Addresses(bodies) ==
    LET addr[i \in 1 .. Len(bodies) + 1] ==
            IF i = 1 THEN 3 ELSE addr[i - 1] + Len(bodies[i - 1])
    IN  addr

Resolve(f, insns, addr, i) ==
    [j \in DOMAIN insns |->
        IF insns[j].cls = "JMP" /\ insns[j].op # "EXIT" /\ f.cls = "JMP"
        THEN [insns[j] EXCEPT !.off = addr[@] - (addr[i] + j)]
        ELSE insns[j]]

\* The eBPF filter the kernel keeps for prog.
KernelEbpf(prog, rnd) ==
    LET bodies == Bodies(prog, rnd)
        addr   == Addresses(bodies)
        prologue == <<Ebpf("ALU", "XOR", "X", "A", "A", 0, 0), Ebpf("ALU", "XOR", "X", "X", "X", 0, 0),
                      Ebpf("ALU64", "MOV", "X", "CTX", "ARG1", 0, 0)>>
    IN  prologue \o FlattenSeq([i \in DOMAIN prog |-> Resolve(prog[i], bodies[i], addr, i)])
=============================================================================
