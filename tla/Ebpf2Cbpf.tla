----------------------------- MODULE Ebpf2Cbpf -----------------------------
(***************************************************************************)
(* src/utils/bpf_trans.c: taking an eBPF filter back to the classic form,  *)
(* from the kernel (capture --pid) or from a file (disasm of eBPF,         *)
(* src/disasm.c).  Pass 1 folds eBPF instructions into classic ones and    *)
(* marks in bitmap the ones it consumed; pass 2 goes backwards over the    *)
(* jumps and takes the marked instructions out of their distances; pass 3  *)
(* drops what is marked.  Arrays are indexed from 0, as in the code.       *)
(***************************************************************************)
EXTENDS KernelFilter, FiniteSets

CONSTANTS
    Filters,        \* the classic filters the kernel was given
    FileFilters,    \* the ones of them whose eBPF form is also read from files
    Rnds,           \* the words it may have blinded constants with
    U32BITS,        \* bits in a word of the bitmap
    UINT8_MAX,      \* the longest jump jt and jf can hold
    INSN_SIZE,      \* bytes of an eBPF instruction
    BLK_SIZE, PAGE  \* the sizes read_insns maps, in instructions

SKIP == 3
Safe == 10          \* instructions: read_insns' safe area, the tail of flags

ASSUME BitmapAssumption == U32BITS \in Nat /\ U32BITS > 6      \* "count is always less than 32"
ASSUME MapAssumption ==
    /\ INSN_SIZE \in Nat \ {0} /\ BLK_SIZE \in Nat \ {0}
    /\ PAGE \in Nat /\ PAGE >= Safe
ASSUME FilterAssumption ==
    /\ Filters \subseteq Seq(ClassicInsn)
    /\ 0 \in Word /\ DataLen \in Word
    /\ Rnds \subseteq Word /\ NoRnd \notin Word
    /\ \A a, b \in Word : BitXor(a, b) \in Word

VARIABLES
    prog, rnd,              \* what the kernel was given (history)
    trustful,
    ebpf_len, ebpfs,
    phase, i,
    cbpf_buf,
    bitmap, bitset,         \* words of bits; bitset is pass 2's copy of one
    fold, targeted,         \* flags: fold of each, and those with targeted set
    high,                   \* furthest indices used (history)
    filters                 \* what is returned

vars == <<prog, rnd, trustful, ebpf_len, ebpfs, phase, i, cbpf_buf, bitmap, bitset,
          fold, targeted, high, filters>>

---------------------------------------------------------------------------
\* read_insns: whole instructions only; at least Safe zeroed ones follow.
Mapped(count) ==
    LET mapped == BLK_SIZE * (count \div BLK_SIZE + 1)
    IN  IF mapped - count < Safe THEN mapped + PAGE ELSE mapped

Init ==
    /\ prog \in {p \in Filters : Acceptable(p)}
    /\ rnd \in Rnds \cup {NoRnd}
    /\ trustful \in IF prog \in FileFilters THEN BOOLEAN ELSE {TRUE}
    /\ ebpf_len = 0 /\ ebpfs = <<>>
    /\ phase = "idle"
    /\ i = 0
    /\ cbpf_buf = <<>>
    /\ bitmap = <<>> /\ bitset = {}
    /\ fold = <<>> /\ targeted = {}
    /\ high = [word |-> 0, flag |-> 0, insn |-> 0]
    /\ filters = <<>>

\* do_ebpf_disasm is handed the whole filter.
FromKernel ==
    /\ phase = "idle" /\ trustful
    /\ LET whole == KernelEbpf(prog, rnd)
       IN  /\ ebpf_len' = Len(whole)
           /\ ebpfs' = [n \in 0 .. Len(whole) + Safe - 1 |->
                          IF n < Len(whole) THEN whole[n + 1] ELSE ZeroInsn]
    /\ phase' = "start"
    /\ UNCHANGED <<prog, rnd, trustful, i, cbpf_buf, bitmap, bitset, fold, targeted, high, filters>>

\* disasm reads a file, which may have been cut anywhere.
FromFile ==
    /\ phase = "idle" /\ ~trustful
    /\ LET whole == KernelEbpf(prog, rnd)
       IN  \E bytes \in 0 .. INSN_SIZE * Len(whole) :
            LET count == bytes \div INSN_SIZE
            IN  /\ ebpf_len' = count
                /\ ebpfs' = [n \in 0 .. count + Safe - 1 |->
                               IF n < count THEN whole[n + 1] ELSE ZeroInsn]
                /\ phase' = IF count = 0 THEN "no_filter" ELSE "start"
    /\ UNCHANGED <<prog, rnd, trustful, i, cbpf_buf, bitmap, bitset, fold, targeted, high, filters>>

---------------------------------------------------------------------------
(* The bitmap: a function from word numbers to sets of bits. *)

\* setbits (fromidx, count).
setbits(map, from, count) ==
    LET mapidx  == from \div U32BITS
        frombit == from % U32BITS
        end     == (from + count) % U32BITS
    IN  CASE count = 0 -> map
          [] count # 0 /\ mapidx # (from + count) \div U32BITS ->
                [map EXCEPT ![mapidx] = @ \cup (frombit .. U32BITS - 1),
                            ![mapidx + 1] = @ \cup (0 .. end - 1)]
          [] OTHER -> [map EXCEPT ![mapidx] = @ \cup (frombit .. frombit + count - 1)]

\* countbits (from, to): the marks in [from, to).
countbits(map, from, to) ==
    LET startidx == from \div U32BITS   startbit == from % U32BITS
        endidx   == to \div U32BITS     endbit   == to % U32BITS
        popcount(word, bits) == Cardinality(map[word] \cap bits)
        between[w \in startidx .. endidx] ==
            IF w = startidx THEN 0
            ELSE between[w - 1] + (IF w < endidx THEN Cardinality(map[w]) ELSE 0)
    IN  IF startidx = endidx THEN popcount(startidx, startbit .. endbit - 1)
        ELSE popcount(startidx, startbit .. U32BITS - 1)
             + popcount(endidx, 0 .. endbit - 1) + between[endidx]

---------------------------------------------------------------------------
(* Pass 1.  What folding the instruction at i gives: the classic           *)
(* instruction, how many eBPF instructions it ate, its fold, the flags     *)
(* whose targeted it sets and the last instruction it looked at.           *)
Folded(f, ate, fd, marks, last) ==
    [ok |-> TRUE, f |-> f, ate |-> ate, fold |-> fd, marks |-> marks, last |-> last]
ASSERT_JMP == [ok |-> FALSE]        \* longjmp (restore, 1)

\* jmp_insn, NOT_CHECK.  ebpfp is always at i + fold.
JmpPlain(e, ate, fd, large_k) ==
    LET p    == i + fd
        insn == e[p]
        k    == IF large_k # 0 THEN large_k ELSE insn.imm
        src  == IF large_k # 0 THEN "K" ELSE insn.src
        jt   == p + insn.off + 1
        ja   == p + 1
        jf   == ja + e[ja].off + 1
        eats == /\ e[ja].cls = "JMP" /\ e[ja].op = "JA"
                /\ ja \notin targeted \cup {jt}
                /\ insn.op \notin {"EXIT", "JA", "JNE", "JLE", "JLT"}
        restored == [JNE |-> "JEQ", JLE |-> "JGT", JLT |-> "JGE"]
    IN  CASE insn.op = "EXIT" -> Folded(CbpfStmt("RET", "RET", "A", 0), ate, fd, {}, p)
          [] insn.op = "JA"   -> Folded(CbpfStmt("JMP", "JA", "K", 1), ate, fd, {i + insn.off + 1}, p)
          [] eats -> Folded(Cbpf("JMP", insn.op, src, k, 1, 1), ate + 1, fd, {jt, jf}, ja)
          [] insn.op \in {"JEQ", "JGT", "JGE", "JSET"} /\ ~eats ->
                Folded(Cbpf("JMP", insn.op, src, k, 1, 0), ate, fd, {jt}, ja)
          [] insn.op \in {"JNE", "JLE", "JLT"} ->
                Folded(Cbpf("JMP", restored[insn.op], src, k, 0, 1), ate, fd, {jt}, ja)
          [] OTHER -> ASSERT_JMP

\* Mutant: a division that is guarded by hidden constants is not known.
JmpDivXPlain(e, ate, fd) ==
    LET p == i + fd
    IN  IF /\ e[p + 1].cls = "JMP" /\ e[p + 1].op = "JNE" /\ e[p + 1].src = "K"
           /\ e[p + 3].op = "EXIT"
        THEN Folded(CbpfStmt("ALU", "DIV", "X", 0), ate + 4, fd, {}, p + 3)
        ELSE ASSERT_JMP

\* jmp_insn, CHECK_DIV_X.
JmpDivX(e, ate, fd) ==
    LET p == i + fd
        blinded == ~(e[p + 1].cls = "JMP" /\ e[p + 1].op = "JNE" /\ e[p + 1].src = "K")
        guard   == IF blinded THEN p + 4 ELSE p + 2
        hidden  == /\ e[p + 1].cls = "ALU64" /\ e[p + 1].op = "MOV" /\ e[p + 1].src = "K"
                   /\ e[p + 2].cls = "ALU64" /\ e[p + 2].op = "XOR" /\ e[p + 2].src = "K"
                   /\ e[p + 3].cls = "JMP" /\ e[p + 3].op = "JNE" /\ e[p + 3].src = "X"
                   /\ e[p + 3].sreg = "AX"
        returns == /\ e[guard].cls = "ALU" /\ e[guard].op = "XOR" /\ e[guard].src = "X"
                   /\ e[guard + 1].cls = "JMP" /\ e[guard + 1].op = "EXIT"
    IN  IF (blinded => hidden) /\ returns
        THEN Folded(CbpfStmt("ALU", "DIV", "X", 0), ate + (IF blinded THEN 6 ELSE 4), fd, {}, guard + 1)
        ELSE ASSERT_JMP

\* jmp_insn, CHECK_CMP_LARGE_K.
JmpLargeK(e, ate, fd) ==
    IF e[i + fd + 1].cls = "JMP" THEN JmpPlain(e, ate + 1, fd + 1, e[i + fd].imm)
    ELSE ASSERT_JMP

\* Mutant: an EXIT that something jumps to is eaten all the same.
JmpRetKAnyExit(e, ate, fd) ==
    LET p == i + fd
    IN  IF e[p + 1].cls = "JMP" /\ e[p + 1].op = "EXIT"
        THEN Folded(CbpfStmt("RET", "RET", "K", e[p].imm), ate + 1, fd, {}, p + 1)
        ELSE Folded(CbpfStmt("LD", "IMM", "K", e[p].imm), ate, fd, {}, p + 1)

\* jmp_insn, CHECK_RET_K, and what alu_insn makes of a load it gives: DataLen
\* stands for LEN.
JmpRetK(e, ate, fd) ==
    LET p == i + fd
    IN  IF /\ e[p + 1].cls = "JMP" /\ e[p + 1].op = "EXIT"
           /\ p + 1 \notin targeted
        THEN Folded(CbpfStmt("RET", "RET", "K", e[p].imm), ate + 1, fd, {}, p + 1)
        ELSE Folded(CbpfStmt("LD", IF e[p].imm = DataLen THEN "LEN" ELSE "IMM", "K",
                             IF e[p].imm = DataLen THEN 0 ELSE e[p].imm),
                    ate, fd, {}, p + 1)

\* alu_insn.  What it writes into ebpfs is read by nobody after the call but
\* the calls below, which see it as e.
alu_insn ==
    LET first   == ebpfs[i]
        blinded == first.op = "MOV" /\ first.dst = "AX"
        zeroed  == first.op = "XOR" /\ first.src = "X" /\ first.sreg = first.dst
        fd      == IF blinded THEN 2 ELSE 0
        p       == i + fd
        e == CASE blinded -> [ebpfs EXCEPT ![p].imm = BitXor(ebpfs[i].imm, ebpfs[i + 1].imm),
                                           ![p].src = "K", ![p].sreg = "A"]
               [] ~blinded /\ zeroed -> [ebpfs EXCEPT ![i].sreg = "A", ![i].cls = "ALU",
                                                      ![i].op = "MOV", ![i].src = "K"]
               [] OTHER -> ebpfs
        insn == e[p]
    IN  CASE insn.cls = "JMP" -> JmpPlain(e, fd, fd, 0)
          [] insn.cls # "JMP" /\ insn.op = "MOV" ->
               (CASE insn.cls = "ALU64" /\ insn.src = "X" /\ "X" \in {insn.sreg, insn.dst} ->
                        Folded(CbpfStmt("MISC", IF insn.sreg = "A" THEN "TAX" ELSE "TXA", "K", 0),
                               fd, fd, {}, p)
                  [] ~(insn.cls = "ALU64" /\ insn.src = "X" /\ "X" \in {insn.sreg, insn.dst}) ->
                        CASE insn.dst = "A" /\ insn.sreg = "A" -> JmpRetK(e, fd, fd)
                          [] insn.dst = "X" /\ insn.sreg = "A" ->
                                Folded(CbpfStmt("LDX", IF insn.imm = DataLen THEN "LEN" ELSE "IMM", "K",
                                                IF insn.imm = DataLen THEN 0 ELSE insn.imm),
                                       fd, fd, {}, p)
                          [] insn.dst = "X" /\ insn.sreg = "X" -> JmpDivX(e, fd, fd)
                          [] insn.dst = "TMP" /\ insn.sreg = "A" -> JmpLargeK(e, fd, fd)
                          [] OTHER -> ASSERT_JMP)
          [] OTHER -> Folded(CbpfStmt(insn.cls, insn.op, insn.src, insn.imm), fd, fd, {}, p)

\* LDX and STX: a word of seccomp_data, or of the stack.
MemInsn ==
    LET insn == ebpfs[i]
        slot == (-insn.off - 4) \div 4
        onA(r) == r = "A"
    IN  CASE insn.cls = "LDX" /\ insn.sreg = "CTX" ->
                Folded(CbpfStmt("LD", "ABS", "K", insn.off), 0, 0, {}, i)
          [] insn.cls = "LDX" /\ insn.sreg = "FP" ->
                Folded(CbpfStmt(IF onA(insn.dst) THEN "LD" ELSE "LDX", "MEM", "K", slot), 0, 0, {}, i)
          [] insn.cls = "LDX" /\ insn.sreg \notin {"CTX", "FP"} -> ASSERT_JMP
          [] insn.cls = "STX" ->
                Folded(CbpfStmt(IF onA(insn.sreg) THEN "ST" ELSE "STX", "MEM", "K", slot), 0, 0, {}, i)

FoldInsn ==
    CASE ebpfs[i].cls \in {"LDX", "STX"}   -> MemInsn
      [] ebpfs[i].cls \in {"ALU", "ALU64"} -> alu_insn
      [] ebpfs[i].cls = "JMP"              -> JmpPlain(ebpfs, 0, 0, 0)
      [] OTHER                             -> ASSERT_JMP

---------------------------------------------------------------------------
\* The setjmp branch: an unexpected instruction ends the conversion.
Refuse ==
    /\ phase' = "failed"
    /\ filters' = <<>>
    /\ UNCHANGED <<prog, rnd, trustful, ebpf_len, ebpfs, i, cbpf_buf, bitmap, bitset,
                   fold, targeted, high>>

\* Mutant: only backward jumps are looked for.
JumpsForward ==
    \A n \in 0 .. ebpf_len - 1 :
        ebpfs[n].cls = "JMP" /\ ebpfs[n].op # "EXIT" => ebpfs[n].off >= 0

\* The pre-pass over the jumps of a file.
JumpsInside ==
    \A n \in 0 .. ebpf_len - 1 :
        ebpfs[n].cls = "JMP" /\ ebpfs[n].op # "EXIT" =>
            ebpfs[n].off >= 0 /\ n + 1 + ebpfs[n].off < ebpf_len

Prologue ==
    /\ \A n \in {0, 1} : ebpfs[n].cls = "ALU" /\ ebpfs[n].op = "XOR"
    /\ ebpfs[2].cls = "ALU64" /\ ebpfs[2].op = "MOV"

\* The checks before pass 1, the allocations, and the prologue's marks.
Start ==
    /\ phase = "start"
    /\ \/ /\ ~((trustful \/ JumpsInside) /\ Prologue)
          /\ Refuse
       \/ /\ trustful \/ JumpsInside
          /\ Prologue
          /\ bitmap' = [w \in 0 .. ebpf_len \div U32BITS + 1 |-> IF w = 0 THEN 0 .. SKIP - 1 ELSE {}]
          /\ fold' = [n \in 0 .. ebpf_len + Safe - 1 |-> 0]
          /\ cbpf_buf' = [n \in 0 .. ebpf_len - 1 |-> CbpfStmt("LD", "IMM", "K", 0)]
          /\ phase' = "pass1"
          /\ i' = SKIP
          /\ UNCHANGED <<prog, rnd, trustful, ebpf_len, ebpfs, bitset, targeted, high, filters>>

MaxOf(a, b) == IF a > b THEN a ELSE b

\* One round of pass 1.
Fold ==
    /\ phase = "pass1"
    /\ i < ebpf_len
    /\ LET r == FoldInsn
       IN  \/ ~r.ok /\ Refuse
           \/ /\ r.ok
              /\ cbpf_buf' = [cbpf_buf EXCEPT ![i] = r.f]
              /\ bitmap' = setbits(bitmap, i + 1, r.ate)
              /\ fold' = [fold EXCEPT ![i] = r.fold]
              /\ targeted' = targeted \cup r.marks
              /\ high' = [word |-> MaxOf(high.word, (i + 1 + r.ate) \div U32BITS),
                          flag |-> LET reach == {high.flag} \cup r.marks
                                   IN  CHOOSE m \in reach : \A n \in reach : n <= m,
                          insn |-> MaxOf(high.insn, r.last)]
              /\ i' = i + r.ate + 1
              /\ UNCHANGED <<prog, rnd, trustful, ebpf_len, ebpfs, phase, bitset, filters>>

\* Pass 2 starts at the last instruction.
FoldDone ==
    /\ phase = "pass1"
    /\ i >= ebpf_len
    /\ phase' = "pass2"
    /\ i' = ebpf_len - 1
    /\ bitset' = bitmap[(ebpf_len - 1) \div U32BITS]
    /\ UNCHANGED <<prog, rnd, trustful, ebpf_len, ebpfs, cbpf_buf, bitmap, fold, targeted,
                   high, filters>>

U8(n) == n % (UINT8_MAX + 1)

\* What pass 2 makes of the jump at i: cbpf_buf and bitmap.
Relocated ==
    LET f    == cbpf_buf[i]
        idx  == i + fold[i]
        off  == ebpfs[idx].off
        ja   == idx + 1
        Distance(map) == off - countbits(map, i, idx + 1 + off) + fold[i]
        toJf == ebpfs[ja].off - countbits(bitmap, ja, ja + ebpfs[ja].off + 1) + 1
        split == toJf > UINT8_MAX
        map2  == IF split THEN [bitmap EXCEPT ![ja \div U32BITS] = @ \ {ja % U32BITS}] ELSE bitmap
        both  == [f EXCEPT !.jt = U8(Distance(map2)), !.jf = IF split THEN 0 ELSE U8(toJf)]
    IN  CASE f.jt # 0 /\ f.jf # 0 ->
                [map |-> map2,
                 buf |-> IF split THEN [cbpf_buf EXCEPT ![i] = both, ![ja] = CbpfStmt("JMP", "JA", "K", toJf)]
                                  ELSE [cbpf_buf EXCEPT ![i] = both]]
          [] f.jt # 0 /\ f.jf = 0 ->
                [map |-> bitmap, buf |-> [cbpf_buf EXCEPT ![i].jt = U8(Distance(bitmap))]]
          [] f.jt = 0 /\ f.jf # 0 ->
                [map |-> bitmap, buf |-> [cbpf_buf EXCEPT ![i].jf = U8(Distance(bitmap))]]
          [] OTHER ->
                [map |-> bitmap,
                 buf |-> [cbpf_buf EXCEPT ![i].k = off - countbits(bitmap, i, i + 1 + off)]]

\* One round of pass 2.  bitset is reloaded when the next lower word starts,
\* before the jump is relocated.
Relocate ==
    /\ phase = "pass2"
    /\ i > SKIP - 1
    /\ LET deleted == i % U32BITS \in bitset
           r == IF ~deleted /\ cbpf_buf[i].cls = "JMP" THEN Relocated
                ELSE [map |-> bitmap, buf |-> cbpf_buf]
       IN  /\ bitset' = IF i % U32BITS = 0 THEN bitmap[i \div U32BITS - 1] ELSE bitset
           /\ cbpf_buf' = r.buf
           /\ bitmap' = r.map
    /\ i' = i - 1
    /\ UNCHANGED <<prog, rnd, trustful, ebpf_len, ebpfs, phase, fold, targeted, high, filters>>

\* Pass 3.
Compress ==
    /\ phase = "pass2"
    /\ i = SKIP - 1
    /\ LET kept == {n \in SKIP .. ebpf_len - 1 : n % U32BITS \notin bitmap[n \div U32BITS]}
       IN  filters' = [n \in 1 .. Cardinality(kept) |-> cbpf_buf[SetToSortSeq(kept, <)[n]]]
    /\ phase' = "done"
    /\ UNCHANGED <<prog, rnd, trustful, ebpf_len, ebpfs, i, cbpf_buf, bitmap, bitset,
                   fold, targeted, high>>

Finished == phase \in {"done", "failed", "no_filter"} /\ UNCHANGED vars

Next == FromKernel \/ FromFile \/ Start \/ Fold \/ FoldDone \/ Relocate \/ Compress \/ Finished

Spec == Init /\ [][Next]_vars

---------------------------------------------------------------------------
Whole == ebpf_len = Len(KernelEbpf(prog, rnd))

\* What comes out decides every system call as the filter that was loaded,
\* however the kernel blinded it, whichever explicit jumps and returns were
\* folded away or put back, and even when only the first part of the filter
\* was in the file and what came out would pass the kernel's own checks.
SameVerdicts ==
    phase = "done" /\ (Whole \/ Acceptable(filters)) =>
        \A d \in Word : RunFilter(filters, d) = RunFilter(prog, d)

\* A filter the kernel made is never refused: no ASSERT_JMP of the conversion
\* is reached on it.
NeverRefused == phase = "failed" => ~Whole

\* The conversion stays inside the arrays it was given and inside the ones it
\* allocates, the safe area of a file's instructions included.
InBounds ==
    phase \in {"pass1", "pass2", "done"} =>
    /\ high.insn < (IF trustful THEN ebpf_len ELSE Mapped(ebpf_len))
    /\ high.flag < ebpf_len + Safe
    /\ high.word <= ebpf_len \div U32BITS + 1
=============================================================================
