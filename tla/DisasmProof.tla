---------------------------- MODULE DisasmProof ----------------------------
(***************************************************************************)
(* Proofs about Disasm, for every set of instructions, arches and words.   *)
(***************************************************************************)
EXTENDS Disasm, SequenceTheorems, TLAPS

(***************************************************************************)
(* The inductive invariant.                                                *)
(***************************************************************************)
Ctx == [A_stat : Stats, X_stat : Stats, mem_stat : [Slots -> Stats], arch : Word]
Values == [value : Word \cup SysNrs, what : {"sysnr", "arch", "other"}]

TypeInv ==
    /\ phase \in {"read", "check", "render", "run", "done", "exit"}
    /\ prog \in Seq(Filters) /\ flen <= BPF_MAXINSNS
    /\ mem_valid \subseteq Slots
    /\ \A c \in DOMAIN masks : masks[c] \subseteq Slots
    /\ fatal_count \in 0 .. FatalMax + 1 /\ error_count \in 0 .. flen
    /\ \A c \in DOMAIN list : list[c] \in Ctx
    /\ i \in 1 .. flen + 1

\* Nothing has been checked, rendered or run yet.
ReadInv == phase = "read" => i = 1 /\ masks = <<>> /\ fatal_count = 0 /\ error_count = 0

\* Nothing is wrong with instruction c on its own.
Fine(c) == ~FatalError(prog[c]) /\ ~PlainError(prog[c], c)

\* check_prog has counted what was wrong so far.
CheckInv ==
    phase = "check" =>
        /\ flen > 0
        /\ error_count <= i - 1
        /\ DOMAIN masks = 1 .. flen
        /\ fatal_count = 0 /\ error_count = 0 => \A c \in 1 .. i - 1 : Fine(c)

\* Only filters without an error come to render.
RenderedInv ==
    phase \in {"render", "run"} =>
        /\ flen > 0 /\ prog[flen].code = "RET"
        /\ \A c \in 1 .. flen : Fine(c)
        /\ list \in [1 .. flen + 1 -> Ctx]
        /\ DOMAIN names = 1 .. flen

\* The cells a filter uses, and what render says of each.
Cells == Slots \cup {RegA, RegX}
Stat(ctx, cell) ==
    IF cell = RegA THEN ctx.A_stat ELSE IF cell = RegX THEN ctx.X_stat ELSE ctx.mem_stat[cell]

\* What render knows behind one instruction it knows, or has given up, before
\* another one that follows it.
JoinsStat(src, dst) == src # "NONE" => dst \in {src, "MIXED"}
JoinsArch(src, dst) == src # NoArch => dst \in {src, MixedArch}
JoinsCtx(l, c, d) ==
    \A cell \in Cells \ Writes(prog[d]) : JoinsStat(Stat(l[c], cell), Stat(l[d], cell))

IsAssign(f) == f.code \in Loads \cup Stores \cup AluCodes \cup MiscCodes

\* Instruction c has been rendered: list l has what is known behind it, and
\* what may come next knows no more.
AssignSettled(l, c) ==
    /\ \A cell \in Writes(prog[c]) : Stat(l[c], cell) = RightStat(decode_filter(prog[c]), l[c])
    /\ JoinsCtx(l, c, c + 1) /\ JoinsArch(l[c].arch, l[c + 1].arch)

JaSettled(l, c) ==
    LET d == c + 1 + prog[c].k
    IN  JoinsCtx(l, c, d) /\ JoinsArch(l[c].arch, l[d].arch)

JumpSettled(l, nm, c) ==
    LET f  == prog[c]
        jt == c + 1 + f.jt
        jf == c + 1 + f.jf
    IN  /\ JoinsCtx(l, c, jt) /\ JoinsCtx(l, c, jf)
        /\ nm[c] = Name(decode_filter(f), l[c])
        /\ l[c].A_stat # "ARCH" =>
             JoinsArch(l[c].arch, l[jt].arch) /\ JoinsArch(l[c].arch, l[jf].arch)
        /\ l[c].A_stat = "ARCH" /\ f.code = "JEQ" /\ f.src = "K" =>
             JoinsArch(f.k, l[jt].arch) /\ l[jf].arch = MixedArch

Settled(l, nm, c) ==
    /\ IsAssign(prog[c]) => AssignSettled(l, c)
    /\ prog[c].code = "JA" => JaSettled(l, c)
    /\ prog[c].code \in JmpCodes => JumpSettled(l, nm, c)

SettledInv ==
    phase \in {"render", "run"} =>
        /\ \A c \in 1 .. i - 1 : Settled(list, names, c)
        /\ list[1].arch = scmp_arch

\* Before the run.
IdleInv ==
    phase \notin {"run", "done"} =>
        /\ A = Zero /\ X = Zero /\ M = [s \in Slots |-> Zero]
        /\ ~tested /\ ~blurred

Value(cell) == IF cell = RegA THEN A ELSE IF cell = RegX THEN X ELSE M[cell]

Sound(stat, what) ==
    \/ stat = "MIXED"
    \/ stat = "ARCH" /\ what = "arch"
    \/ stat = "SYSNR" /\ what = "sysnr"

\* render is right on a cell that the run has set, or the instruction is just
\* about to write it.
CellRight(cell) == cell \in Writes(prog[pc]) \/ Sound(Stat(list[pc], cell), Value(cell).what)

\* P is the way the run has come.
CameBy(P) ==
    /\ IsPath(prog, P)
    /\ pc \in P /\ \A d \in P : d <= pc
    /\ \A cell \in Cells : (\E d \in P \ {pc} : cell \in Writes(prog[d])) => CellRight(cell)

RunTypes ==
    phase = "run" =>
        /\ i = flen + 1 /\ pc \in 1 .. flen
        /\ data.arch \in Arches
        /\ M = [s \in Slots |-> M[s]]
        /\ \A cell \in Cells : Value(cell).what = "arch" => Value(cell).value = data.arch

ArchInv ==
    phase = "run" /\ AllSetBeforeUse /\ ~blurred =>
        \/ list[pc].arch = MixedArch
        \/ list[pc].arch = data.arch
        \/ list[pc].arch = scmp_arch /\ ~tested

PathInv == phase = "run" /\ AllSetBeforeUse => \E P \in SUBSET DOMAIN prog : CameBy(P)

Inv ==
    /\ TypeInv /\ ReadInv /\ CheckInv /\ RenderedInv /\ SettledInv
    /\ IdleInv /\ RunTypes /\ ArchInv /\ PathInv

-----------------------------------------------------------------------------
(***************************************************************************)
(* What decode_filter makes of an instruction.                             *)
(***************************************************************************)
\* The fields of an instruction.
LEMMA FilterFields ==
    ASSUME NEW f \in Filters
    PROVE  /\ f.src \in {"K", "X", "A"} /\ (f.src = "A" => f.code = "RET")
           /\ f.k \in Word /\ f.k \in Nat /\ f.jt \in Nat /\ f.jf \in Nat
  BY DisasmAssumption

\* The constants.
LEMMA WordFacts ==
    /\ 0 \in Word /\ MixedArch \in Word /\ Word \subseteq Nat
    /\ NoArch \notin Arches /\ MixedArch \notin Arches
    /\ Arches \subseteq Word /\ scmp_arch \in Arches /\ scmp_arch \in Word
    /\ BPF_MAXINSNS \in Nat /\ BPF_MEMWORDS \in Nat /\ FatalMax \in Nat
  BY DisasmAssumption DEF NoArch, MixedArch

\* Distances.
LEMMA Swap ==
    ASSUME NEW a \in Nat, NEW b \in Nat
    PROVE  a + b + 1 = a + 1 + b
  OBVIOUS

LEMMA Inside ==
    ASSUME NEW a \in Nat, NEW b \in Nat, NEW n \in Nat, ~(a + b >= n)
    PROVE  a + 1 + b \in a + 1 .. n
  OBVIOUS

\* The codes of a valid instruction belong to three kinds of statements.
LEMMA Kinds ==
    ASSUME NEW f, f.code \in ValidCodes
    PROVE  /\ IsAssign(f) \/ f.code \in JmpCodes \cup {"JA"} \/ f.code = "RET"
           /\ IsAssign(f) => f.code \notin JmpCodes /\ f.code # "JA" /\ f.code # "RET"
           /\ f.code \in JmpCodes => f.code # "JA" /\ f.code # "RET"
  BY DEF ValidCodes, IsAssign, Loads, Stores, AluCodes, MiscCodes, JmpCodes

\* An assignment to $A, to $X or to a word, and the cell it writes.
LEMMA AssignDecoded ==
    ASSUME NEW f, IsAssign(f)
    PROVE  /\ decode_filter(f).type = "ASSIGN_LINE"
           /\ \/ decode_filter(f).left = Obj("A", 0) /\ Writes(f) = {RegA}
              \/ decode_filter(f).left = Obj("X", 0) /\ Writes(f) = {RegX}
              \/ decode_filter(f).left = Obj("MEM", f.k) /\ Writes(f) = {f.k} /\ f.code \in Stores
  <1>1. CASE f.code \in Loads
    <2>1. decode_filter(f) = ld_ldx_line(f)
      BY <1>1 DEF decode_filter, Loads, Stores, AluCodes, JmpCodes
    <2>2. f.code \notin Stores \cup AluCodes
      BY <1>1 DEF Loads, Stores, AluCodes
    <2>3. CASE f.code \in {"LD_ABS", "LD_LEN", "LD_IMM", "LD_MEM"}
      <3>1. Writes(f) = {RegA}
        BY <2>2, <2>3 DEF Writes
      <3> QED BY <2>1, <2>3, <3>1 DEF ld_ldx_line, Assign
    <2>4. CASE f.code \in {"LDX_LEN", "LDX_IMM", "LDX_MEM"}
      <3>1. Writes(f) = {RegX}
        BY <2>2, <2>4 DEF Writes
      <3> QED BY <2>1, <2>4, <3>1 DEF ld_ldx_line, Assign
    <2> QED BY <1>1, <2>3, <2>4 DEF Loads
  <1>2. CASE f.code \in Stores
    <2>1. f.code \notin Loads
      BY <1>2 DEF Loads, Stores
    <2>2. decode_filter(f) = Assign(Obj("MEM", f.k), "EQUAL", Obj(IF f.code = "ST" THEN "A" ELSE "X", 0))
      BY <1>2, <2>1 DEF decode_filter, Stores, AluCodes, JmpCodes
    <2>3. Writes(f) = {f.k}
      BY <1>2 DEF Writes, Stores, AluCodes
    <2> QED BY <1>2, <2>2, <2>3 DEF Assign
  <1>3. CASE f.code \in AluCodes
    <2>1. f.code \notin Loads \cup Stores
      BY <1>3 DEF Loads, Stores, AluCodes
    <2>2. decode_filter(f) = alu_line(f)
      BY <1>3, <2>1 DEF decode_filter, AluCodes, JmpCodes
    <2>3. Writes(f) = {RegA}
      BY <1>3, <2>1 DEF Writes, AluCodes
    <2> QED BY <2>2, <2>3 DEF alu_line, Assign
  <1>4. CASE f.code \in MiscCodes
    BY <1>4 DEF Loads, decode_filter, Assign, Writes, Stores, AluCodes, MiscCodes, JmpCodes
  <1> QED BY <1>1, <1>2, <1>3, <1>4 DEF IsAssign

\* Where a condition goes, and the number it compares $A with.
LEMMA JumpDecoded ==
    ASSUME NEW f, f.code \in JmpCodes, f.jt \in Nat, f.jf \in Nat
    PROVE  LET s == decode_filter(f)
               is == IF s.cmp = "EQUAL_EQUAL" THEN s.jt ELSE s.jf
               isnt == IF s.cmp = "EQUAL_EQUAL" THEN s.jf ELSE s.jt
           IN  /\ s.type = "JUMP_LINE" /\ s.cond
               /\ s.obj.data = IF f.src = "K" THEN f.k ELSE 0
               /\ (s.jt = f.jt /\ s.jf = f.jf) \/ (s.jt = f.jf /\ s.jf = f.jt)
               /\ s.cmp \in {"EQUAL_EQUAL", "BANG_EQUAL"} <=> f.code = "JEQ"
               /\ f.code = "JEQ" => is = f.jt /\ isnt = f.jf
  <1> DEFINE turned == f.jt = 0 /\ f.jf # 0
             s == decode_filter(f)
  <1>1. s = jump_line(f)
    BY DEF decode_filter, JmpCodes, Loads, Stores, AluCodes
  <1>2. f.code # "JA"
    BY DEF JmpCodes
  <1>13. s.cond = (f.code # "JA")
    BY <1>1 DEF jump_line
  <1>3. /\ s.type = "JUMP_LINE"
        /\ s.jt = (IF turned THEN f.jf ELSE f.jt) /\ s.jf = (IF turned THEN f.jt ELSE f.jf)
    BY <1>1, <1>2 DEF jump_line
  <1>4. s.obj.data = IF f.src = "K" THEN f.k ELSE 0
    BY <1>1, <1>2 DEF jump_line, Obj
  <1>5. s.cmp = IF turned /\ f.code # "JSET" THEN reverse_table[f.code] ELSE comparator_table[f.code]
    BY <1>1, <1>2 DEF jump_line
  <1>6. /\ reverse_table["JEQ"] = "BANG_EQUAL" /\ comparator_table["JEQ"] = "EQUAL_EQUAL"
        /\ \A c \in {"JGT", "JGE"} : reverse_table[c] \notin {"EQUAL_EQUAL", "BANG_EQUAL"}
        /\ \A c \in {"JGT", "JGE", "JSET"} :
             comparator_table[c] \notin {"EQUAL_EQUAL", "BANG_EQUAL"}
    BY DEF reverse_table, comparator_table
  <1>7. s.cmp \in {"EQUAL_EQUAL", "BANG_EQUAL"} <=> f.code = "JEQ"
    BY <1>5, <1>6 DEF JmpCodes
  <1>8. f.code = "JEQ" => s.cmp = IF turned THEN "BANG_EQUAL" ELSE "EQUAL_EQUAL"
    BY <1>5, <1>6
  <1>9. s.cond
    BY <1>2, <1>13
  <1> HIDE DEF s
  <1>10. f.code = "JEQ" => /\ (IF s.cmp = "EQUAL_EQUAL" THEN s.jt ELSE s.jf) = f.jt
                           /\ (IF s.cmp = "EQUAL_EQUAL" THEN s.jf ELSE s.jt) = f.jf
    BY <1>3, <1>8
  <1>11. (s.jt = f.jt /\ s.jf = f.jf) \/ (s.jt = f.jf /\ s.jf = f.jt)
    BY <1>3
  <1>12. s.type = "JUMP_LINE"
    BY <1>3
  <1> QED BY <1>4, <1>7, <1>9, <1>10, <1>11, <1>12, Zenon DEF s

LEMMA JaDecoded ==
    ASSUME NEW f, f.code = "JA"
    PROVE  /\ decode_filter(f).type = "JUMP_LINE" /\ ~decode_filter(f).cond
           /\ decode_filter(f).jt = f.k
  BY DEF decode_filter, jump_line, Loads, Stores, AluCodes, JmpCodes

LEMMA RetDecoded ==
    ASSUME NEW f, f.code = "RET"
    PROVE  decode_filter(f).type = "RETURN_LINE"
  BY DEF decode_filter, Loads, Stores, AluCodes, JmpCodes

-----------------------------------------------------------------------------
(***************************************************************************)
(* set_stat, set_ctx and set_arch.                                         *)
(***************************************************************************)
LEMMA SetStat ==
    ASSUME NEW dst \in Stats, NEW src \in Stats
    PROVE  /\ set_stat(dst, src) \in Stats
           /\ JoinsStat(dst, set_stat(dst, src)) /\ JoinsStat(src, set_stat(dst, src))
  BY DEF set_stat, JoinsStat, Stats

LEMMA JoinsTransitive ==
    /\ \A a, b, c : JoinsStat(a, b) /\ JoinsStat(b, c) => JoinsStat(a, c)
    /\ \A a, b, c : JoinsArch(a, b) /\ JoinsArch(b, c) => JoinsArch(a, c)
    /\ \A a : JoinsStat(a, a) /\ JoinsArch(a, a)
  BY DEF JoinsStat, JoinsArch, NoArch, MixedArch

\* The state of a cell is a state.
LEMMA StatType ==
    ASSUME NEW ctx \in Ctx, NEW cell \in Cells
    PROVE  Stat(ctx, cell) \in Stats
  BY DEF Ctx, Cells, Stat

LEMMA CtxFields ==
    ASSUME NEW ctx \in Ctx, NEW a, NEW x, NEW m
    PROVE  [ctx EXCEPT !.A_stat = a, !.X_stat = x, !.mem_stat = m]
             = [A_stat |-> a, X_stat |-> x, mem_stat |-> m, arch |-> ctx.arch]
  <1> DEFINE left == [ctx EXCEPT !.A_stat = a, !.X_stat = x, !.mem_stat = m]
             right == [A_stat |-> a, X_stat |-> x, mem_stat |-> m, arch |-> ctx.arch]
  <1>1. DOMAIN ctx = {"A_stat", "X_stat", "mem_stat", "arch"}
    BY DEF Ctx
  <1>2. DOMAIN left = DOMAIN right
    BY <1>1
  <1>3. /\ left.A_stat = right.A_stat /\ left.X_stat = right.X_stat
        /\ left.mem_stat = right.mem_stat /\ left.arch = right.arch
    BY <1>1
  <1>4. \A e \in DOMAIN left : left[e] = right[e]
    BY <1>1, <1>3
  <1>5. /\ left = [e \in DOMAIN left |-> left[e]]
        /\ right = [e \in DOMAIN right |-> right[e]]
    OBVIOUS
  <1> HIDE DEF left, right
  <1> QED BY <1>2, <1>4, <1>5 DEF left, right

\* One context joins another, but for the arch.
LEMMA SetCtx ==
    ASSUME NEW n \in Nat, NEW l \in [1 .. n -> Ctx], NEW d \in 1 .. n, NEW s \in 1 .. n
    PROVE  /\ set_ctx(l, d, s) \in [1 .. n -> Ctx]
           /\ \A c \in 1 .. n : c # d => set_ctx(l, d, s)[c] = l[c]
           /\ set_ctx(l, d, s)[d].arch = l[d].arch
           /\ \A cell \in Cells :
                /\ JoinsStat(Stat(l[s], cell), Stat(set_ctx(l, d, s)[d], cell))
                /\ JoinsStat(Stat(l[d], cell), Stat(set_ctx(l, d, s)[d], cell))
  <1> DEFINE new == [A_stat |-> set_stat(l[d].A_stat, l[s].A_stat),
                     X_stat |-> set_stat(l[d].X_stat, l[s].X_stat),
                     mem_stat |-> [k \in Slots |-> set_stat(l[d].mem_stat[k], l[s].mem_stat[k])],
                     arch |-> l[d].arch]
  <1>1. /\ l[d] \in Ctx /\ l[s] \in Ctx
        /\ l[d].A_stat \in Stats /\ l[d].X_stat \in Stats /\ l[d].arch \in Word
        /\ l[s].A_stat \in Stats /\ l[s].X_stat \in Stats
        /\ \A k \in Slots : l[d].mem_stat[k] \in Stats /\ l[s].mem_stat[k] \in Stats
    BY DEF Ctx
  <1> DEFINE fields == [l[d] EXCEPT !.A_stat = set_stat(l[d].A_stat, l[s].A_stat),
                                    !.X_stat = set_stat(l[d].X_stat, l[s].X_stat),
                                    !.mem_stat = [k \in Slots |->
                                        set_stat(l[d].mem_stat[k], l[s].mem_stat[k])]]
  <1>10. fields = new
    BY <1>1, CtxFields
  <1>11. set_ctx(l, d, s) = [l EXCEPT ![d] = fields]
    BY <1>1 DEF set_ctx
  <1>2. set_ctx(l, d, s) = [l EXCEPT ![d] = new]
    BY <1>10, <1>11
  <1>3. new.mem_stat \in [Slots -> Stats]
    BY <1>1, SetStat
  <1>4. new \in Ctx
    BY <1>1, <1>3, SetStat DEF Ctx
  <1>5. \A cell \in Cells : Stat(new, cell) = set_stat(Stat(l[d], cell), Stat(l[s], cell))
    BY DEF Cells, Stat
  <1> HIDE DEF new
  <1>6. \A cell \in Cells : /\ JoinsStat(Stat(l[s], cell), Stat(new, cell))
                            /\ JoinsStat(Stat(l[d], cell), Stat(new, cell))
    BY <1>1, <1>5, SetStat, StatType
  <1>7. new.arch = l[d].arch
    BY DEF new
  <1> QED BY <1>2, <1>4, <1>6, <1>7

\* An arch joins another.
LEMMA SetArch ==
    ASSUME NEW n \in Nat, NEW l \in [1 .. n -> Ctx], NEW d \in 1 .. n, NEW a \in Word
    PROVE  /\ set_arch(l, d, a) \in [1 .. n -> Ctx]
           /\ \A c \in 1 .. n : c # d => set_arch(l, d, a)[c] = l[c]
           /\ \A cell \in Cells : Stat(set_arch(l, d, a)[d], cell) = Stat(l[d], cell)
           /\ JoinsArch(a, set_arch(l, d, a)[d].arch)
           /\ JoinsArch(l[d].arch, set_arch(l, d, a)[d].arch)
  <1> DEFINE b == IF l[d].arch = NoArch THEN a ELSE IF l[d].arch # a THEN MixedArch ELSE l[d].arch
             new == [l[d] EXCEPT !.arch = b]
  <1>1. l[d] \in Ctx /\ l[d].arch \in Word
    BY DEF Ctx
  <1>2. set_arch(l, d, a) = [l EXCEPT ![d] = new]
    BY DEF set_arch
  <1>3. b \in Word /\ JoinsArch(a, b) /\ JoinsArch(l[d].arch, b)
    BY <1>1, WordFacts DEF JoinsArch, NoArch, MixedArch
  <1> HIDE DEF b
  <1>4. new \in Ctx /\ new.arch = b
    BY <1>1, <1>3 DEF Ctx
  <1>5. \A cell \in Cells : Stat(new, cell) = Stat(l[d], cell)
    BY <1>1 DEF Stat, Ctx
  <1> HIDE DEF new
  <1> QED BY <1>2, <1>3, <1>4, <1>5

-----------------------------------------------------------------------------
(***************************************************************************)
(* What is settled stays so while render goes on.                          *)
(***************************************************************************)
\* From list l to list k when instruction n is rendered.
Renders(l, k, n) ==
    /\ \A c \in 1 .. n - 1 : k[c] = l[c]
    /\ \A cell \in Cells \ Writes(prog[n]) : Stat(k[n], cell) = Stat(l[n], cell)
    /\ k[n].arch = l[n].arch
    /\ \A e \in n + 1 .. flen + 1 : /\ JoinsArch(l[e].arch, k[e].arch)
                                    /\ \A cell \in Cells : JoinsStat(Stat(l[e], cell), Stat(k[e], cell))

\* What a filter without an error does not do: leave the filter, or use a word
\* that does not exist.
LEMMA Targets ==
    ASSUME prog \in Seq(Filters), NEW c \in 1 .. flen, Fine(c), prog[flen].code = "RET"
    PROVE  /\ prog[c] \in Filters /\ flen \in Nat /\ prog[c].code \in ValidCodes
           /\ IsAssign(prog[c]) => c + 1 \in c + 1 .. flen
           /\ prog[c].code = "JA" => c + 1 + prog[c].k \in c + 1 .. flen
           /\ prog[c].code \in JmpCodes =>
                c + 1 + prog[c].jt \in c + 1 .. flen /\ c + 1 + prog[c].jf \in c + 1 .. flen
           /\ prog[c].code \in {"LD_MEM", "LDX_MEM", "ST", "STX"} => prog[c].k \in Slots
           /\ prog[c].code = "LD_ABS" => prog[c].k < SECCOMP_DATA_SIZE /\ prog[c].k % 4 = 0
  <1> DEFINE f == prog[c]
  <1>1. f \in Filters /\ flen \in Nat
    BY DEF flen
  <1>2. f.k \in Nat /\ f.jt \in Nat /\ f.jf \in Nat /\ BPF_MEMWORDS \in Nat
    BY <1>1, FilterFields, WordFacts
  <1>3. f.code \in ValidCodes
    BY DEF Fine, FatalError
  <1>4. ~JumpError(f, c) /\ ~MemIndexError(f)
    BY DEF Fine, PlainError
  <1>5. f.code = "LD_ABS" => f.k < SECCOMP_DATA_SIZE /\ f.k % 4 = 0
    BY <1>2 DEF Fine, FatalError, SECCOMP_DATA_SIZE
  <1>6. IsAssign(f) => c # flen
    BY DEF IsAssign, Loads, Stores, AluCodes, MiscCodes
  <1>7. IsAssign(f) => c + 1 \in c + 1 .. flen
    BY <1>1, <1>6
  <1>8. f.code = "JA" => c + 1 + f.k \in c + 1 .. flen
    BY <1>1, <1>2, <1>4, SMTT(30) DEF JumpError
  <1>9. f.code \in JmpCodes => c + 1 + f.jt \in c + 1 .. flen /\ c + 1 + f.jf \in c + 1 .. flen
    <2>1. f.code \in JmpCodes => ~(c + f.jt >= flen) /\ ~(c + f.jf >= flen)
      BY <1>4, Zenon DEF JumpError
    <2>2. c \in Nat /\ flen \in Nat
      BY <1>1
    <2>3. f.code \in JmpCodes => c + 1 + f.jt \in c + 1 .. flen
      BY <1>2, <2>1, <2>2, Inside
    <2>4. f.code \in JmpCodes => c + 1 + f.jf \in c + 1 .. flen
      BY <1>2, <2>1, <2>2, Inside
    <2> QED BY <2>3, <2>4, Zenon
  <1>10. f.code \in {"LD_MEM", "LDX_MEM", "ST", "STX"} => f.k \in Slots
    BY <1>2, <1>4 DEF MemIndexError, Slots
  <1> QED BY <1>1, <1>3, <1>5, <1>7, <1>8, <1>9, <1>10

LEMMA JoinKept ==
    ASSUME flen \in Nat, NEW l, NEW k, NEW n \in 1 .. flen, Renders(l, k, n),
           NEW c \in 1 .. n - 1, NEW d \in c + 1 .. flen
    PROVE  /\ JoinsCtx(l, c, d) => JoinsCtx(k, c, d)
           /\ \A a : JoinsArch(a, l[d].arch) => JoinsArch(a, k[d].arch)
  <1>1. k[c] = l[c]
    BY DEF Renders
  <1>2. CASE d < n
    <2>1. k[d] = l[d]
      BY <1>2 DEF Renders
    <2> QED BY <1>1, <2>1 DEF JoinsCtx
  <1>3. CASE d = n
    BY <1>1, <1>3 DEF Renders, JoinsCtx
  <1>4. CASE d > n
    <2>1. /\ JoinsArch(l[d].arch, k[d].arch)
          /\ \A cell \in Cells : JoinsStat(Stat(l[d], cell), Stat(k[d], cell))
      BY <1>4 DEF Renders
    <2> QED BY <1>1, <2>1, JoinsTransitive DEF JoinsCtx
  <1> QED BY <1>2, <1>3, <1>4

\* What is settled stays settled.
LEMMA SettledKept ==
    ASSUME prog \in Seq(Filters), prog[flen].code = "RET",
           NEW l, NEW k, NEW nm, NEW mm, NEW n \in 1 .. flen, Renders(l, k, n),
           NEW c \in 1 .. n - 1, Fine(c), mm[c] = nm[c], Settled(l, nm, c)
    PROVE  Settled(k, mm, c)
  <1> DEFINE f == prog[c]
  <1>1. c \in 1 .. flen /\ flen \in Nat /\ k[c] = l[c]
    BY DEF flen, Renders
  <1>2. /\ IsAssign(f) => c + 1 \in c + 1 .. flen
        /\ f.code = "JA" => c + 1 + f.k \in c + 1 .. flen
        /\ f.code \in JmpCodes => c + 1 + f.jt \in c + 1 .. flen /\ c + 1 + f.jf \in c + 1 .. flen
    BY <1>1, Targets
  <1>3. IsAssign(f) => AssignSettled(k, c)
    BY <1>1, <1>2, JoinKept DEF AssignSettled, Settled
  <1>4. f.code = "JA" => JaSettled(k, c)
    BY <1>1, <1>2, JoinKept DEF JaSettled, Settled
  <1>5. ASSUME f.code \in JmpCodes
        PROVE  JumpSettled(k, mm, c)
    <2> DEFINE jt == c + 1 + f.jt
               jf == c + 1 + f.jf
    <2>1. JumpSettled(l, nm, c)
      BY <1>5 DEF Settled
    <2>2. jt \in c + 1 .. flen /\ jf \in c + 1 .. flen
      BY <1>2, <1>5
    <2>3. JoinsCtx(k, c, jt) /\ JoinsCtx(k, c, jf)
      BY <1>1, <2>1, <2>2, JoinKept DEF JumpSettled
    <2>4. mm[c] = Name(decode_filter(f), k[c])
      BY <1>1, <2>1 DEF JumpSettled
    <2>5. k[c].A_stat # "ARCH" =>
            JoinsArch(k[c].arch, k[jt].arch) /\ JoinsArch(k[c].arch, k[jf].arch)
      BY <1>1, <2>1, <2>2, JoinKept DEF JumpSettled
    <2>6. ASSUME k[c].A_stat = "ARCH", f.code = "JEQ", f.src = "K"
          PROVE  JoinsArch(f.k, k[jt].arch) /\ k[jf].arch = MixedArch
      <3>1. JoinsArch(f.k, l[jt].arch) /\ l[jf].arch = MixedArch
        BY <1>1, <2>1, <2>6 DEF JumpSettled
      <3>2. JoinsArch(MixedArch, l[jf].arch)
        BY <3>1, JoinsTransitive
      <3>3. JoinsArch(f.k, k[jt].arch)
        BY <1>1, <2>2, <3>1, JoinKept
      <3>4. JoinsArch(MixedArch, k[jf].arch)
        BY <1>1, <2>2, <3>2, JoinKept
      <3> QED BY <3>3, <3>4 DEF JoinsArch, MixedArch, NoArch
    <2> QED BY <2>3, <2>4, <2>5, <2>6 DEF JumpSettled
  <1> QED BY <1>3, <1>4, <1>5 DEF Settled

-----------------------------------------------------------------------------
(***************************************************************************)
(* The steps of render.                                                    *)
(***************************************************************************)
\* What RenderAssign does to list[i] before it is passed on.
Here(l, c, f, stat) ==
    LET left == decode_filter(f).left
    IN  CASE left.type = "A" -> [l EXCEPT ![c].A_stat = stat]
          [] left.type = "X" -> [l EXCEPT ![c].X_stat = stat]
          [] OTHER           -> [l EXCEPT ![c].mem_stat[left.data] = stat]

LEMMA AssignHere ==
    ASSUME NEW n \in Nat, NEW l \in [1 .. n -> Ctx], NEW c \in 1 .. n, NEW f, IsAssign(f),
           f.code \in Stores => f.k \in Slots, NEW stat \in Stats
    PROVE  /\ Here(l, c, f, stat) \in [1 .. n -> Ctx]
           /\ \A d \in 1 .. n : d # c => Here(l, c, f, stat)[d] = l[d]
           /\ Here(l, c, f, stat)[c].arch = l[c].arch
           /\ \A cell \in Cells : Stat(Here(l, c, f, stat)[c], cell) =
                                     IF cell \in Writes(f) THEN stat ELSE Stat(l[c], cell)
  <1> DEFINE left == decode_filter(f).left
             here == Here(l, c, f, stat)
  <1>1. l[c] \in Ctx
    OBVIOUS
  <1>2. \/ left = Obj("A", 0) /\ Writes(f) = {RegA}
        \/ left = Obj("X", 0) /\ Writes(f) = {RegX}
        \/ left = Obj("MEM", f.k) /\ Writes(f) = {f.k} /\ f.code \in Stores
    BY AssignDecoded
  <1> HIDE DEF here
  <1>3. CASE left = Obj("A", 0) /\ Writes(f) = {RegA}
    <2> DEFINE new == [l[c] EXCEPT !.A_stat = stat]
    <2>1. here = [l EXCEPT ![c] = new]
      BY <1>3 DEF here, Here, Obj
    <2>2. new \in Ctx /\ new.arch = l[c].arch
      BY <1>1 DEF Ctx
    <2>3. \A cell \in Cells : Stat(new, cell) = IF cell = RegA THEN stat ELSE Stat(l[c], cell)
      BY <1>1 DEF Ctx, Stat
    <2> HIDE DEF new
    <2> QED BY <1>3, <2>1, <2>2, <2>3 DEF here
  <1>4. CASE left = Obj("X", 0) /\ Writes(f) = {RegX}
    <2> DEFINE new == [l[c] EXCEPT !.X_stat = stat]
    <2>1. here = [l EXCEPT ![c] = new]
      BY <1>4 DEF here, Here, Obj
    <2>2. new \in Ctx /\ new.arch = l[c].arch
      BY <1>1 DEF Ctx
    <2>3. \A cell \in Cells : Stat(new, cell) = IF cell = RegX THEN stat ELSE Stat(l[c], cell)
      BY <1>1 DEF Ctx, Stat, RegA, RegX
    <2> HIDE DEF new
    <2> QED BY <1>4, <2>1, <2>2, <2>3 DEF here
  <1>5. CASE left = Obj("MEM", f.k) /\ Writes(f) = {f.k} /\ f.code \in Stores
    <2> DEFINE mem == [l[c].mem_stat EXCEPT ![f.k] = stat]
               new == [l[c] EXCEPT !.mem_stat = mem]
    <2>1. here = [l EXCEPT ![c] = new]
      BY <1>5 DEF here, Here, Obj
    <2>2. f.k \in Slots /\ l[c].mem_stat \in [Slots -> Stats]
      BY <1>1, <1>5 DEF Ctx
    <2>3. mem \in [Slots -> Stats] /\ \A cell \in Slots : mem[cell] = IF cell = f.k THEN stat ELSE l[c].mem_stat[cell]
      BY <2>2
    <2>4. RegA \notin Slots /\ RegX \notin Slots
      BY WordFacts DEF RegA, RegX, Slots
    <2> HIDE DEF mem
    <2>5. new \in Ctx /\ new.arch = l[c].arch
      BY <1>1, <2>3 DEF Ctx
    <2>6. \A cell \in Cells : Stat(new, cell) = IF cell = f.k THEN stat ELSE Stat(l[c], cell)
      BY <1>1, <2>2, <2>3, <2>4 DEF Ctx, Stat, Cells
    <2> HIDE DEF new
    <2> QED BY <1>5, <2>1, <2>5, <2>6 DEF here
  <1> QED BY <1>2, <1>3, <1>4, <1>5

\* What the right side of an assignment with = is: a cell it reads and does not
\* write, or something from outside.
LEMMA RightDecoded ==
    ASSUME NEW f, IsAssign(f), f.k \in Nat
    PROVE  LET s == decode_filter(f)
           IN  s.op = "EQUAL" =>
                 \/ /\ s.right = Obj("A", 0) /\ f.code \in {"ST", "TAX"}
                    /\ RegA \in Reads(f) /\ RegA \notin Writes(f)
                 \/ /\ s.right = Obj("X", 0) /\ f.code \in {"STX", "TXA"}
                    /\ RegX \in Reads(f) /\ RegX \notin Writes(f)
                 \/ /\ s.right = Obj("MEM", f.k) /\ f.code \in {"LD_MEM", "LDX_MEM"}
                    /\ f.k \in Reads(f) /\ f.k \notin Writes(f)
                 \/ s.right = Obj("ATTR_SYSCALL", 0) /\ f.code = "LD_ABS" /\ f.k = 0
                 \/ s.right = Obj("ATTR_ARCH", 0) /\ f.code = "LD_ABS" /\ f.k = 4
                 \/ s.right.type \notin {"A", "X", "MEM", "ATTR_SYSCALL", "ATTR_ARCH"}
  <1> DEFINE s == decode_filter(f)
  <1>1. CASE f.code \in Loads
    <2>1. s = ld_ldx_line(f)
      BY <1>1 DEF decode_filter, Loads, Stores, AluCodes, JmpCodes
    <2>2. CASE f.code = "LD_ABS"
      <3>1. s.right = AttrAt(f.k)
        BY <2>1, <2>2 DEF ld_ldx_line, Assign
      <3>2. \/ AttrAt(f.k) = Obj("ATTR_SYSCALL", 0) /\ f.k = 0
            \/ AttrAt(f.k) = Obj("ATTR_ARCH", 0) /\ f.k = 4
            \/ AttrAt(f.k).type \notin {"A", "X", "MEM", "ATTR_SYSCALL", "ATTR_ARCH"}
        BY DEF AttrAt, Obj
      <3> QED BY <2>2, <3>1, <3>2
    <2>3. CASE f.code \in {"LD_LEN", "LDX_LEN", "LD_IMM", "LDX_IMM"}
      BY <2>1, <2>3 DEF ld_ldx_line, Assign, Obj
    <2>4. CASE f.code \in {"LD_MEM", "LDX_MEM"}
      <3>1. s.right = Obj("MEM", f.k)
        BY <2>1, <2>4 DEF ld_ldx_line, Assign
      <3>2. f.k \in Reads(f)
        BY <2>4 DEF Reads, AluCodes, JmpCodes
      <3>3. f.k \notin Writes(f)
        BY <2>4 DEF Writes, Stores, AluCodes, RegA, RegX
      <3> QED BY <2>4, <3>1, <3>2, <3>3
    <2> QED BY <1>1, <2>2, <2>3, <2>4 DEF Loads
  <1>2. CASE f.code \in Stores
    <2>1. s = Assign(Obj("MEM", f.k), "EQUAL", Obj(IF f.code = "ST" THEN "A" ELSE "X", 0))
      BY <1>2 DEF decode_filter, Loads, Stores, AluCodes, JmpCodes
    <2>2. Writes(f) = {f.k} /\ RegA # f.k /\ RegX # f.k
      BY <1>2 DEF Writes, Stores, AluCodes, RegA, RegX
    <2>3. CASE f.code = "ST"
      <3>1. RegA \in Reads(f)
        BY <2>3 DEF Reads, AluCodes, JmpCodes
      <3>2. s.right = Obj("A", 0)
        BY <2>1, <2>3 DEF Assign
      <3> QED BY <2>2, <2>3, <3>1, <3>2
    <2>4. CASE f.code = "STX"
      <3>1. RegX \in Reads(f)
        BY <2>4 DEF Reads, AluCodes, JmpCodes
      <3>2. s.right = Obj("X", 0)
        BY <2>1, <2>4 DEF Assign
      <3> QED BY <2>2, <2>4, <3>1, <3>2
    <2> QED BY <1>2, <2>3, <2>4 DEF Stores
  <1>3. CASE f.code \in AluCodes
    <2>1. s = alu_line(f)
      BY <1>3 DEF decode_filter, Loads, Stores, AluCodes, JmpCodes
    <2>2. s.op = operator_table[f.code]
      BY <2>1 DEF alu_line, Assign
    <2>3. operator_table[f.code] # "EQUAL"
      BY <1>3 DEF operator_table, AluCodes
    <2> QED BY <2>2, <2>3
  <1>4. CASE f.code \in MiscCodes
    <2>1. CASE f.code = "TAX"
      <3>1. RegA \in Reads(f)
        BY <2>1 DEF Reads, AluCodes, JmpCodes
      <3>2. s.right = Obj("A", 0)
        BY <2>1 DEF decode_filter, Loads, Stores, AluCodes, JmpCodes, Assign
      <3>3. RegA \notin Writes(f)
        BY <2>1 DEF Writes, Stores, AluCodes, RegA, RegX
      <3> QED BY <2>1, <3>1, <3>2, <3>3
    <2>2. CASE f.code = "TXA"
      <3>1. RegX \in Reads(f)
        BY <2>2 DEF Reads, AluCodes, JmpCodes
      <3>2. s.right = Obj("X", 0)
        BY <2>2 DEF decode_filter, Loads, Stores, AluCodes, JmpCodes, Assign
      <3>3. RegX \notin Writes(f)
        BY <2>2 DEF Writes, Stores, AluCodes, RegA, RegX
      <3> QED BY <2>2, <3>1, <3>2, <3>3
    <2> QED BY <1>4, <2>1, <2>2 DEF MiscCodes
  <1> QED BY <1>1, <1>2, <1>3, <1>4 DEF IsAssign

\* What render says of the right side: the state of the cell it is, or what the
\* instruction loads.
LEMMA RightKnown ==
    ASSUME NEW f, IsAssign(f), f.k \in Nat, NEW ctx
    PROVE  LET stat == RightStat(decode_filter(f), ctx)
           IN  \/ stat = "MIXED"
               \/ stat = "SYSNR" /\ f.code = "LD_ABS" /\ f.k = 0
               \/ stat = "ARCH" /\ f.code = "LD_ABS" /\ f.k = 4
               \/ /\ stat = ctx.A_stat /\ f.code \in {"ST", "TAX"}
                  /\ RegA \in Reads(f) /\ RegA \notin Writes(f)
               \/ /\ stat = ctx.X_stat /\ f.code \in {"STX", "TXA"}
                  /\ RegX \in Reads(f) /\ RegX \notin Writes(f)
               \/ /\ stat = ctx.mem_stat[f.k] /\ f.code \in {"LD_MEM", "LDX_MEM"}
                  /\ f.k \in Reads(f) /\ f.k \notin Writes(f)
  <1> DEFINE s == decode_filter(f)
             stat == RightStat(s, ctx)
  <1>1. CASE s.op # "EQUAL"
    BY <1>1 DEF RightStat
  <1>2. CASE s.op = "EQUAL"
    <2>1. CASE s.right = Obj("A", 0) /\ f.code \in {"ST", "TAX"}
                 /\ RegA \in Reads(f) /\ RegA \notin Writes(f)
      <3>1. stat = ctx.A_stat
        BY <1>2, <2>1 DEF RightStat, Obj
      <3> QED BY <2>1, <3>1
    <2>2. CASE s.right = Obj("X", 0) /\ f.code \in {"STX", "TXA"}
                 /\ RegX \in Reads(f) /\ RegX \notin Writes(f)
      <3>1. stat = ctx.X_stat
        BY <1>2, <2>2 DEF RightStat, Obj
      <3> QED BY <2>2, <3>1
    <2>3. CASE s.right = Obj("MEM", f.k) /\ f.code \in {"LD_MEM", "LDX_MEM"}
                 /\ f.k \in Reads(f) /\ f.k \notin Writes(f)
      <3>1. stat = ctx.mem_stat[f.k]
        BY <1>2, <2>3 DEF RightStat, Obj
      <3> QED BY <2>3, <3>1
    <2>4. CASE s.right = Obj("ATTR_SYSCALL", 0) /\ f.code = "LD_ABS" /\ f.k = 0
      <3>1. stat = "SYSNR"
        BY <1>2, <2>4 DEF RightStat, Obj
      <3> QED BY <2>4, <3>1
    <2>5. CASE s.right = Obj("ATTR_ARCH", 0) /\ f.code = "LD_ABS" /\ f.k = 4
      <3>1. stat = "ARCH"
        BY <1>2, <2>5 DEF RightStat, Obj
      <3> QED BY <2>5, <3>1
    <2>6. CASE s.right.type \notin {"A", "X", "MEM", "ATTR_SYSCALL", "ATTR_ARCH"}
      BY <1>2, <2>6 DEF RightStat
    <2> QED BY <1>2, <2>1, <2>2, <2>3, <2>4, <2>5, <2>6, RightDecoded
  <1> QED BY <1>1, <1>2

LEMMA RightType ==
    ASSUME NEW f, IsAssign(f), f.k \in Nat, NEW ctx \in Ctx,
           f.code \in {"LD_MEM", "LDX_MEM"} => f.k \in Slots
    PROVE  RightStat(decode_filter(f), ctx) \in Stats
  <1>1. ctx.A_stat \in Stats /\ ctx.X_stat \in Stats /\ \A k \in Slots : ctx.mem_stat[k] \in Stats
    BY DEF Ctx
  <1>2. "MIXED" \in Stats /\ "SYSNR" \in Stats /\ "ARCH" \in Stats
    BY DEF Stats
  <1> QED BY <1>1, <1>2, RightKnown

\* It is the same when the cell that is written has changed.
LEMMA RightSame ==
    ASSUME NEW f, IsAssign(f), f.k \in Nat, NEW ctx, NEW new,
           \A cell \in Cells \ Writes(f) : Stat(new, cell) = Stat(ctx, cell),
           f.code \in {"LD_MEM", "LDX_MEM"} => f.k \in Slots
    PROVE  RightStat(decode_filter(f), new) = RightStat(decode_filter(f), ctx)
  <1> DEFINE s == decode_filter(f)
  <1>1. CASE s.op # "EQUAL"
    BY <1>1 DEF RightStat
  <1>2. ASSUME s.op = "EQUAL", s.right = Obj("A", 0), RegA \notin Writes(f)
        PROVE  RightStat(s, new) = RightStat(s, ctx)
    <2>1. new.A_stat = ctx.A_stat
      BY <1>2 DEF Cells, Stat
    <2> QED BY <1>2, <2>1 DEF RightStat, Obj
  <1>3. ASSUME s.op = "EQUAL", s.right = Obj("X", 0), RegX \notin Writes(f)
        PROVE  RightStat(s, new) = RightStat(s, ctx)
    <2>1. new.X_stat = ctx.X_stat
      BY <1>3 DEF Cells, Stat, RegA, RegX
    <2> QED BY <1>3, <2>1 DEF RightStat, Obj
  <1>4. ASSUME s.op = "EQUAL", s.right = Obj("MEM", f.k), f.k \notin Writes(f), f.k \in Slots
        PROVE  RightStat(s, new) = RightStat(s, ctx)
    <2>1. new.mem_stat[f.k] = ctx.mem_stat[f.k]
      BY <1>4 DEF Cells, Stat, RegA, RegX
    <2> QED BY <1>4, <2>1 DEF RightStat, Obj
  <1>5. ASSUME s.op = "EQUAL", s.right.type \notin {"A", "X", "MEM"}
        PROVE  RightStat(s, new) = RightStat(s, ctx)
    BY <1>5 DEF RightStat
  <1>6. Obj("ATTR_SYSCALL", 0).type \notin {"A", "X", "MEM"} /\ Obj("ATTR_ARCH", 0).type \notin {"A", "X", "MEM"}
    BY DEF Obj
  <1> QED BY <1>1, <1>2, <1>3, <1>4, <1>5, <1>6, RightDecoded

\* From list l to list k contexts behind instruction n have been joined.
Widens(l, k, n) ==
    /\ k \in [1 .. flen + 1 -> Ctx]
    /\ \A c \in 1 .. n : k[c] = l[c]
    /\ \A e \in n + 1 .. flen + 1 : /\ JoinsArch(l[e].arch, k[e].arch)
                                    /\ \A cell \in Cells : JoinsStat(Stat(l[e], cell), Stat(k[e], cell))

LEMMA CtxWidens ==
    ASSUME flen \in Nat, NEW l \in [1 .. flen + 1 -> Ctx], NEW n \in 1 .. flen,
           NEW d \in n + 1 .. flen + 1
    PROVE  /\ Widens(l, set_ctx(l, d, n), n)
           /\ \A cell \in Cells : JoinsStat(Stat(l[n], cell), Stat(set_ctx(l, d, n)[d], cell))
  <1> DEFINE k == set_ctx(l, d, n)
  <1>1. flen + 1 \in Nat /\ d \in 1 .. flen + 1 /\ n \in 1 .. flen + 1 /\ n # d
    OBVIOUS
  <1>2. /\ k \in [1 .. flen + 1 -> Ctx]
        /\ \A c \in 1 .. flen + 1 : c # d => k[c] = l[c]
        /\ k[d].arch = l[d].arch
        /\ \A cell \in Cells : /\ JoinsStat(Stat(l[n], cell), Stat(k[d], cell))
                               /\ JoinsStat(Stat(l[d], cell), Stat(k[d], cell))
    BY <1>1, SetCtx
  <1> HIDE DEF k
  <1>3. \A c \in 1 .. n : k[c] = l[c]
    BY <1>2
  <1>4. ASSUME NEW e \in n + 1 .. flen + 1
        PROVE  /\ JoinsArch(l[e].arch, k[e].arch)
               /\ \A cell \in Cells : JoinsStat(Stat(l[e], cell), Stat(k[e], cell))
    <2>1. CASE e = d
      BY <1>2, <2>1, JoinsTransitive
    <2>2. CASE e # d
      <3>1. k[e] = l[e]
        BY <1>2, <2>2
      <3> QED BY <3>1, JoinsTransitive
    <2> QED BY <2>1, <2>2
  <1>5. Widens(l, k, n)
    BY <1>2, <1>3, <1>4 DEF Widens
  <1> QED BY <1>2, <1>5 DEF k

LEMMA ArchWidens ==
    ASSUME flen \in Nat, NEW l \in [1 .. flen + 1 -> Ctx], NEW n \in 1 .. flen,
           NEW d \in n + 1 .. flen + 1, NEW a \in Word
    PROVE  /\ Widens(l, set_arch(l, d, a), n)
           /\ JoinsArch(a, set_arch(l, d, a)[d].arch)
  <1> DEFINE k == set_arch(l, d, a)
  <1>1. flen + 1 \in Nat /\ d \in 1 .. flen + 1 /\ n # d
    OBVIOUS
  <1>2. /\ k \in [1 .. flen + 1 -> Ctx]
        /\ \A c \in 1 .. flen + 1 : c # d => k[c] = l[c]
        /\ \A cell \in Cells : Stat(k[d], cell) = Stat(l[d], cell)
        /\ JoinsArch(a, k[d].arch)
        /\ JoinsArch(l[d].arch, k[d].arch)
    BY <1>1, SetArch
  <1> HIDE DEF k
  <1>3. \A c \in 1 .. n : k[c] = l[c]
    BY <1>2
  <1>4. ASSUME NEW e \in n + 1 .. flen + 1
        PROVE  /\ JoinsArch(l[e].arch, k[e].arch)
               /\ \A cell \in Cells : JoinsStat(Stat(l[e], cell), Stat(k[e], cell))
    <2>1. CASE e = d
      BY <1>2, <2>1, JoinsTransitive
    <2>2. CASE e # d
      <3>1. k[e] = l[e]
        BY <1>2, <2>2
      <3> QED BY <3>1, JoinsTransitive
    <2> QED BY <2>1, <2>2
  <1>5. Widens(l, k, n)
    BY <1>2, <1>3, <1>4 DEF Widens
  <1> QED BY <1>2, <1>5 DEF k

LEMMA WidensTransitive ==
    ASSUME flen \in Nat, NEW l, NEW k, NEW m, NEW n \in 1 .. flen, Widens(l, k, n), Widens(k, m, n)
    PROVE  Widens(l, m, n)
  BY JoinsTransitive DEF Widens

\* A join that has been made holds on in a wider list.
LEMMA WidensJoins ==
    ASSUME flen \in Nat, NEW l, NEW k, NEW n \in 1 .. flen, Widens(l, k, n),
           NEW d \in n + 1 .. flen + 1
    PROVE  /\ \A a : JoinsArch(a, l[d].arch) => JoinsArch(a, k[d].arch)
           /\ \A a : \A cell \in Cells : JoinsStat(a, Stat(l[d], cell)) => JoinsStat(a, Stat(k[d], cell))
  BY JoinsTransitive DEF Widens

\* An assignment is rendered.
LEMMA AssignRendered ==
    ASSUME TypeInv, RenderedInv, RenderAssign
    PROVE  /\ list' \in [1 .. flen + 1 -> Ctx]
           /\ Renders(list, list', i)
           /\ Settled(list', names', i)
  <1> DEFINE f    == prog[i]
             s    == decode_filter(f)
             stat == RightStat(s, list[i])
             here == Here(list, i, f, stat)
             k    == set_ctx(here, i + 1, i)
  <1>1. /\ phase = "render" /\ i \in 1 .. flen /\ flen \in Nat /\ prog \in Seq(Filters)
        /\ s.type = "ASSIGN_LINE"
    BY DEF RenderAssign, TypeInv, flen
  <1>2. list' = set_arch(k, i + 1, list[i].arch)
    BY DEF RenderAssign, Here
  <1>3. Fine(i) /\ prog[flen].code = "RET" /\ list \in [1 .. flen + 1 -> Ctx]
    BY <1>1 DEF RenderedInv
  <1>4. /\ f \in Filters /\ f.code \in ValidCodes
        /\ f.code \in {"LD_MEM", "LDX_MEM", "ST", "STX"} => f.k \in Slots
    BY <1>1, <1>3, Targets
  <1>5. f.k \in Nat
    BY <1>4, FilterFields
  <1>6. IsAssign(f)
    BY <1>1, <1>4, Kinds, JumpDecoded, JaDecoded, RetDecoded, FilterFields
  <1>7. flen + 1 \in Nat /\ i \in 1 .. flen + 1 /\ i + 1 \in i + 1 .. flen + 1 /\ list[i] \in Ctx
    BY <1>1, <1>3
  <1>8. stat \in Stats
    BY <1>4, <1>5, <1>6, <1>7, RightType
  <1>9. f.code \in Stores => f.k \in Slots
    BY <1>4 DEF Stores
  <1> HIDE DEF stat
  <1>10. /\ here \in [1 .. flen + 1 -> Ctx]
         /\ \A d \in 1 .. flen + 1 : d # i => here[d] = list[d]
         /\ here[i].arch = list[i].arch
         /\ \A cell \in Cells : Stat(here[i], cell) = IF cell \in Writes(f) THEN stat
                                                      ELSE Stat(list[i], cell)
    BY <1>3, <1>6, <1>7, <1>8, <1>9, AssignHere
  <1> HIDE DEF here
  <1>11. /\ Widens(here, k, i)
         /\ \A cell \in Cells : JoinsStat(Stat(here[i], cell), Stat(k[i + 1], cell))
    BY <1>1, <1>7, <1>10, CtxWidens
  <1> HIDE DEF k
  <1>12. list[i].arch \in Word /\ k \in [1 .. flen + 1 -> Ctx]
    BY <1>7, <1>11 DEF Ctx, Widens
  <1>13. Widens(k, list', i) /\ JoinsArch(list[i].arch, list'[i + 1].arch)
    BY <1>1, <1>2, <1>7, <1>12, ArchWidens
  <1>14. Widens(here, list', i)
    BY <1>1, <1>11, <1>13, WidensTransitive
  <1>15. list'[i] = here[i] /\ list' \in [1 .. flen + 1 -> Ctx]
    BY <1>1, <1>14 DEF Widens
  <1>16. Renders(list, list', i)
    <2>1. \A c \in 1 .. i - 1 : list'[c] = list[c]
      BY <1>1, <1>10, <1>14 DEF Widens
    <2>2. \A cell \in Cells \ Writes(f) : Stat(list'[i], cell) = Stat(list[i], cell)
      BY <1>10, <1>15
    <2>3. \A e \in i + 1 .. flen + 1 : here[e] = list[e]
      BY <1>1, <1>10
    <2> QED BY <1>10, <1>14, <1>15, <2>1, <2>2, <2>3 DEF Renders, Widens
  <1>17. JoinsCtx(list', i, i + 1)
    BY <1>1, <1>7, <1>11, <1>13, <1>15, WidensJoins DEF JoinsCtx
  <1>18. ASSUME NEW cell \in Writes(f)
         PROVE  Stat(list'[i], cell) = RightStat(s, list'[i])
    <2>1. cell \in Cells
      BY <1>6, <1>9, AssignDecoded DEF Cells
    <2>2. Stat(list'[i], cell) = stat
      BY <1>10, <1>15, <2>1
    <2>3. RightStat(s, list'[i]) = RightStat(s, list[i])
      BY <1>4, <1>5, <1>6, <1>10, <1>15, RightSame
    <2> QED BY <2>2, <2>3 DEF stat
  <1>19. AssignSettled(list', i)
    BY <1>10, <1>13, <1>15, <1>17, <1>18 DEF AssignSettled
  <1>20. Settled(list', names', i)
    BY <1>4, <1>6, <1>19, Kinds DEF Settled
  <1> QED BY <1>15, <1>16, <1>20

\* From Widens, when instruction n itself has changed nothing.
LEMMA WidensRenders ==
    ASSUME flen \in Nat, NEW l, NEW k, NEW n \in 1 .. flen, Widens(l, k, n)
    PROVE  Renders(l, k, n) /\ k[n] = l[n] /\ k \in [1 .. flen + 1 -> Ctx]
  BY DEF Widens, Renders

\* A jump without condition is rendered.
LEMMA JaRendered ==
    ASSUME TypeInv, RenderedInv, RenderJump, prog[i].code = "JA"
    PROVE  /\ list' \in [1 .. flen + 1 -> Ctx]
           /\ Renders(list, list', i)
           /\ Settled(list', names', i)
  <1> DEFINE f  == prog[i]
             s  == decode_filter(f)
             d  == i + 1 + f.k
             k  == set_ctx(list, d, i)
  <1>1. phase = "render" /\ i \in 1 .. flen /\ flen \in Nat /\ prog \in Seq(Filters)
    BY DEF RenderJump, TypeInv, flen
  <1>2. Fine(i) /\ prog[flen].code = "RET" /\ list \in [1 .. flen + 1 -> Ctx]
    BY <1>1 DEF RenderedInv
  <1>3. f \in Filters /\ f.code \in ValidCodes /\ d \in i + 1 .. flen
    BY <1>1, <1>2, Targets
  <1>4. ~s.cond /\ s.jt = f.k /\ f.k \in Nat
    BY <1>3, JaDecoded, FilterFields
  <1>5. list' = set_arch(set_ctx(list, i + s.jt + 1, i), i + s.jt + 1, list[i].arch)
    BY <1>4 DEF RenderJump
  <1>6. i + s.jt + 1 = d
    BY <1>1, <1>4
  <1>7. list' = set_arch(k, d, list[i].arch)
    BY <1>5, <1>6
  <1>8. d \in i + 1 .. flen + 1 /\ list[i] \in Ctx /\ list[i].arch \in Word
    BY <1>1, <1>2, <1>3 DEF Ctx
  <1> HIDE DEF d
  <1>9. /\ Widens(list, k, i)
        /\ \A cell \in Cells : JoinsStat(Stat(list[i], cell), Stat(k[d], cell))
    BY <1>1, <1>2, <1>8, CtxWidens
  <1> HIDE DEF k
  <1>10. k \in [1 .. flen + 1 -> Ctx]
    BY <1>9 DEF Widens
  <1>11. Widens(k, list', i) /\ JoinsArch(list[i].arch, list'[d].arch)
    BY <1>1, <1>7, <1>8, <1>10, ArchWidens
  <1>12. Widens(list, list', i)
    BY <1>1, <1>9, <1>11, WidensTransitive
  <1>13. Renders(list, list', i) /\ list'[i] = list[i] /\ list' \in [1 .. flen + 1 -> Ctx]
    BY <1>1, <1>12, WidensRenders
  <1>14. JoinsCtx(list', i, d)
    BY <1>1, <1>8, <1>9, <1>11, <1>13, WidensJoins DEF JoinsCtx
  <1>15. JaSettled(list', i)
    BY <1>11, <1>13, <1>14 DEF JaSettled, d
  <1>16. Settled(list', names', i)
    BY <1>3, <1>15, Kinds DEF Settled
  <1> QED BY <1>13, <1>16

\* A condition is rendered.
LEMMA JumpRendered ==
    ASSUME TypeInv, RenderedInv, RenderJump, prog[i].code \in JmpCodes
    PROVE  /\ list' \in [1 .. flen + 1 -> Ctx]
           /\ Renders(list, list', i)
           /\ Settled(list', names', i)
  <1> DEFINE f  == prog[i]
             s  == decode_filter(f)
             jt == i + s.jt + 1
             jf == i + s.jf + 1
             one  == set_ctx(list, jt, i)
             both == set_ctx(one, jf, i)
             is   == IF s.cmp = "EQUAL_EQUAL" THEN jt ELSE jf
             isnt == IF s.cmp = "EQUAL_EQUAL" THEN jf ELSE jt
             arch == list[i].arch
  <1>1. phase = "render" /\ i \in 1 .. flen /\ flen \in Nat /\ prog \in Seq(Filters)
    BY DEF RenderJump, TypeInv, flen
  <1>2. Fine(i) /\ prog[flen].code = "RET" /\ list \in [1 .. flen + 1 -> Ctx] /\ DOMAIN names = 1 .. flen
    BY <1>1 DEF RenderedInv
  <1>3. /\ f \in Filters /\ f.code \in ValidCodes
        /\ i + 1 + f.jt \in i + 1 .. flen /\ i + 1 + f.jf \in i + 1 .. flen
    BY <1>1, <1>2, Targets
  <1>4. f.k \in Word /\ f.jt \in Nat /\ f.jf \in Nat
    BY <1>3, FilterFields
  <1>5. /\ s.cond
        /\ s.obj.data = IF f.src = "K" THEN f.k ELSE 0
        /\ (s.jt = f.jt /\ s.jf = f.jf) \/ (s.jt = f.jf /\ s.jf = f.jt)
        /\ s.cmp \in {"EQUAL_EQUAL", "BANG_EQUAL"} <=> f.code = "JEQ"
        /\ f.code = "JEQ" => /\ (IF s.cmp = "EQUAL_EQUAL" THEN s.jt ELSE s.jf) = f.jt
                             /\ (IF s.cmp = "EQUAL_EQUAL" THEN s.jf ELSE s.jt) = f.jf
    BY <1>4, JumpDecoded
  <1>6. list' = IF list[i].A_stat # "ARCH"
                  THEN set_arch(set_arch(both, jt, arch), jf, arch)
                ELSE IF s.cmp \in {"EQUAL_EQUAL", "BANG_EQUAL"}
                  THEN set_arch(set_arch(both, is, s.obj.data), isnt, MixedArch)
                ELSE both
    BY <1>5 DEF RenderJump
  <1>7. names'[i] = Name(s, list[i])
    BY <1>1, <1>2, <1>5 DEF RenderJump
  <1>30. i \in Nat
    BY <1>1
  <1>8. /\ jt \in i + 1 .. flen + 1 /\ jf \in i + 1 .. flen + 1
        /\ i + 1 + f.jt \in {jt, jf} /\ i + 1 + f.jf \in {jt, jf}
    <2>1. (jt = i + 1 + f.jt /\ jf = i + 1 + f.jf) \/ (jt = i + 1 + f.jf /\ jf = i + 1 + f.jt)
      <3>1. CASE s.jt = f.jt /\ s.jf = f.jf
        <4>1. jt = i + 1 + f.jt
          BY <1>4, <1>30, <3>1, Swap
        <4>2. jf = i + 1 + f.jf
          BY <1>4, <1>30, <3>1, Swap
        <4> QED BY <4>1, <4>2
      <3>2. CASE s.jt = f.jf /\ s.jf = f.jt
        <4>1. jt = i + 1 + f.jf
          BY <1>4, <1>30, <3>2, Swap
        <4>2. jf = i + 1 + f.jt
          BY <1>4, <1>30, <3>2, Swap
        <4> QED BY <4>1, <4>2
      <3> QED BY <1>5, <3>1, <3>2
    <2> HIDE DEF jt, jf
    <2>2. i + 1 + f.jt \in i + 1 .. flen + 1 /\ i + 1 + f.jf \in i + 1 .. flen + 1
      BY <1>1, <1>3
    <2> QED BY <2>1, <2>2
  <1>9. f.code = "JEQ" => is = i + 1 + f.jt /\ isnt = i + 1 + f.jf
    BY <1>1, <1>4, <1>5
  <1>10. is \in i + 1 .. flen + 1 /\ isnt \in i + 1 .. flen + 1
    BY <1>8
  <1>11. s.obj.data \in Word /\ MixedArch \in Word /\ arch \in Word
    BY <1>1, <1>2, <1>4, <1>5, WordFacts DEF Ctx
  <1> HIDE DEF jt, jf, is, isnt
  <1>12. /\ Widens(list, one, i)
         /\ \A cell \in Cells : JoinsStat(Stat(list[i], cell), Stat(one[jt], cell))
    BY <1>1, <1>2, <1>8, CtxWidens
  <1> HIDE DEF one
  <1>13. one \in [1 .. flen + 1 -> Ctx] /\ one[i] = list[i]
    BY <1>1, <1>12, WidensRenders
  <1>14. /\ Widens(one, both, i)
         /\ \A cell \in Cells : JoinsStat(Stat(list[i], cell), Stat(both[jf], cell))
    BY <1>1, <1>8, <1>13, CtxWidens
  <1> HIDE DEF both
  <1>15. Widens(list, both, i) /\ both \in [1 .. flen + 1 -> Ctx]
    BY <1>1, <1>12, <1>14, WidensTransitive, WidensRenders
  <1>16. \A cell \in Cells : JoinsStat(Stat(list[i], cell), Stat(both[jt], cell))
    BY <1>1, <1>8, <1>12, <1>14, WidensJoins
  <1>17. ASSUME list[i].A_stat # "ARCH"
         PROVE  Widens(both, list', i) /\ JoinsArch(arch, list'[jt].arch) /\ JoinsArch(arch, list'[jf].arch)
    <2> DEFINE m == set_arch(both, jt, arch)
    <2>1. list' = set_arch(m, jf, arch)
      BY <1>6, <1>17
    <2>2. Widens(both, m, i) /\ JoinsArch(arch, m[jt].arch)
      BY <1>1, <1>8, <1>11, <1>15, ArchWidens
    <2> HIDE DEF m
    <2>3. m \in [1 .. flen + 1 -> Ctx]
      BY <2>2 DEF Widens
    <2>4. Widens(m, list', i) /\ JoinsArch(arch, list'[jf].arch)
      BY <1>1, <1>8, <1>11, <2>1, <2>3, ArchWidens
    <2>5. JoinsArch(arch, list'[jt].arch)
      BY <1>1, <1>8, <2>2, <2>4, WidensJoins
    <2>6. Widens(both, list', i)
      BY <1>1, <2>2, <2>4, WidensTransitive
    <2> QED BY <2>4, <2>5, <2>6
  <1>18. ASSUME list[i].A_stat = "ARCH", f.code = "JEQ"
         PROVE  /\ Widens(both, list', i)
                /\ f.src = "K" => JoinsArch(f.k, list'[is].arch) /\ list'[isnt].arch = MixedArch
    <2> DEFINE m == set_arch(both, is, s.obj.data)
    <2>1. list' = set_arch(m, isnt, MixedArch)
      BY <1>5, <1>6, <1>18
    <2>2. Widens(both, m, i) /\ JoinsArch(s.obj.data, m[is].arch)
      BY <1>1, <1>10, <1>11, <1>15, ArchWidens
    <2> HIDE DEF m
    <2>3. m \in [1 .. flen + 1 -> Ctx]
      BY <2>2 DEF Widens
    <2>4. Widens(m, list', i) /\ JoinsArch(MixedArch, list'[isnt].arch)
      BY <1>1, <1>10, <1>11, <2>1, <2>3, ArchWidens
    <2>5. JoinsArch(s.obj.data, list'[is].arch)
      BY <1>1, <1>10, <2>2, <2>4, WidensJoins
    <2>6. Widens(both, list', i)
      BY <1>1, <2>2, <2>4, WidensTransitive
    <2>7. list'[isnt].arch = MixedArch
      BY <2>4 DEF JoinsArch, MixedArch, NoArch
    <2>8. f.src = "K" => s.obj.data = f.k
      BY <1>5
    <2> QED BY <2>5, <2>6, <2>7, <2>8
  <1>19. ASSUME list[i].A_stat = "ARCH", f.code # "JEQ"
         PROVE  Widens(both, list', i)
    <2>1. list' = both
      BY <1>5, <1>6, <1>19
    <2> QED BY <1>15, <2>1, JoinsTransitive DEF Widens
  <1>20. Widens(both, list', i)
    BY <1>17, <1>18, <1>19
  <1>21. Widens(list, list', i)
    BY <1>1, <1>15, <1>20, WidensTransitive
  <1>22. Renders(list, list', i) /\ list'[i] = list[i] /\ list' \in [1 .. flen + 1 -> Ctx]
    BY <1>1, <1>21, WidensRenders
  <1>23. JoinsCtx(list', i, jt) /\ JoinsCtx(list', i, jf)
    BY <1>1, <1>8, <1>14, <1>16, <1>20, <1>22, WidensJoins DEF JoinsCtx
  <1>24. JoinsCtx(list', i, i + 1 + f.jt) /\ JoinsCtx(list', i, i + 1 + f.jf)
    BY <1>8, <1>23
  <1>25. list'[i].A_stat # "ARCH" => /\ JoinsArch(list'[i].arch, list'[i + 1 + f.jt].arch)
                                     /\ JoinsArch(list'[i].arch, list'[i + 1 + f.jf].arch)
    BY <1>8, <1>17, <1>22
  <1>26. list'[i].A_stat = "ARCH" /\ f.code = "JEQ" /\ f.src = "K" =>
           JoinsArch(f.k, list'[i + 1 + f.jt].arch) /\ list'[i + 1 + f.jf].arch = MixedArch
    BY <1>9, <1>18, <1>22
  <1>27. names'[i] = Name(s, list'[i])
    BY <1>7, <1>22
  <1>28. JumpSettled(list', names', i)
    BY <1>24, <1>25, <1>26, <1>27 DEF JumpSettled
  <1>29. Settled(list', names', i)
    BY <1>3, <1>28, Kinds DEF Settled
  <1> QED BY <1>22, <1>29

-----------------------------------------------------------------------------
(***************************************************************************)
(* The run.                                                                *)
(***************************************************************************)
\* The run takes one step more on its path.
LEMMA PathGrows ==
    ASSUME prog \in Seq(Filters), NEW P \in SUBSET DOMAIN prog, IsPath(prog, P),
           NEW c \in P, \A d \in P : d <= c,
           NEW n \in DOMAIN prog, n > c, n \in Successors(prog, c)
    PROVE  /\ P \cup {n} \in SUBSET DOMAIN prog
           /\ IsPath(prog, P \cup {n})
           /\ \A d \in P \cup {n} : d <= n
           /\ (P \cup {n}) \ {n} = (P \ {c}) \cup {c}
  <1> DEFINE Q == P \cup {n}
  <1>1. DOMAIN prog \subseteq Nat /\ c \in Nat /\ n \in Nat
    OBVIOUS
  <1>2. \A d \in P : d \in Nat /\ d < n
    BY <1>1
  <1>3. \A d \in Q : d <= n
    BY <1>1, <1>2
  <1>4. ASSUME NEW b \in Q
        PROVE  \/ \A d \in Q : d <= b
               \/ \E d \in Q \cap Successors(prog, b) : \A e \in Q : ~(b < e /\ e < d)
    <2>1. CASE b = n
      BY <1>3, <2>1
    <2>2. CASE b = c
      <3>1. \A e \in Q : ~(c < e /\ e < n)
        BY <1>1, <1>2
      <3> QED BY <2>2, <3>1
    <2>3. CASE b \in P /\ b # c
      <3>1. ~(\A d \in P : d <= b)
        BY <1>1, <2>3
      <3>2. PICK d \in P \cap Successors(prog, b) : \A e \in P : ~(b < e /\ e < d)
        BY <2>3, <3>1 DEF IsPath
      <3>3. \A e \in Q : ~(b < e /\ e < d)
        BY <1>1, <1>2, <3>2
      <3> QED BY <3>2, <3>3
    <2> QED BY <2>1, <2>2, <2>3
  <1>5. 1 \in Q
    BY DEF IsPath
  <1>6. IsPath(prog, Q)
    BY <1>4, <1>5 DEF IsPath
  <1>7. Q \ {n} = (P \ {c}) \cup {c}
    BY <1>2
  <1> QED BY <1>3, <1>6, <1>7

\* What the run reads has been set on its way, and render is right about it.
LEMMA ReadRight ==
    ASSUME AllSetBeforeUse, NEW P \in SUBSET DOMAIN prog, CameBy(P),
           NEW cell \in Reads(prog[pc]), cell \in Cells, cell \notin Writes(prog[pc])
    PROVE  Sound(Stat(list[pc], cell), Value(cell).what)
  <1>1. IsPath(prog, P) /\ pc \in P /\ \A d \in P : d <= pc
    BY DEF CameBy
  <1>2. \E d \in P \ {pc} : cell \in Writes(prog[d])
    BY <1>1 DEF AllSetBeforeUse, SomePathReadsUnset, Cells
  <1> QED BY <1>2 DEF CameBy, CellRight

\* A sound state of a cell stays sound behind a join.
LEMMA SoundJoins ==
    ASSUME NEW src, NEW dst, NEW what, Sound(src, what), JoinsStat(src, dst)
    PROVE  Sound(dst, what)
  BY DEF Sound, JoinsStat

\* The run goes from pc to n; the cells it has set are right behind pc.
LEMMA RunGoesOn ==
    ASSUME TypeInv, NEW P \in SUBSET DOMAIN prog, CameBy(P), pc \in 1 .. flen,
           NEW n \in pc + 1 .. flen, n \in Successors(prog, pc), JoinsCtx(list, pc, n),
           pc' = n, prog' = prog, list' = list,
           \A cell \in Cells :
               (\E d \in P : cell \in Writes(prog[d])) => Sound(Stat(list[pc], cell), Value(cell)'.what)
    PROVE  \E Q \in SUBSET DOMAIN prog' : CameBy(Q)'
  <1> DEFINE Q == P \cup {n}
  <1>1. prog \in Seq(Filters) /\ flen \in Nat /\ n \in DOMAIN prog /\ n > pc
    BY DEF TypeInv, flen
  <1>2. /\ IsPath(prog, P) /\ pc \in P /\ \A d \in P : d <= pc
    BY DEF CameBy
  <1>3. /\ Q \in SUBSET DOMAIN prog /\ IsPath(prog, Q) /\ \A d \in Q : d <= n
        /\ Q \ {n} = (P \ {pc}) \cup {pc}
    BY <1>1, <1>2, PathGrows
  <1>4. ASSUME NEW cell \in Cells, \E d \in Q \ {n} : cell \in Writes(prog[d]), cell \notin Writes(prog[n])
        PROVE  Sound(Stat(list[n], cell), Value(cell)'.what)
    <2>1. \E d \in P : cell \in Writes(prog[d])
      BY <1>2, <1>3, <1>4
    <2>2. Sound(Stat(list[pc], cell), Value(cell)'.what)
      BY <2>1
    <2>3. JoinsStat(Stat(list[pc], cell), Stat(list[n], cell))
      BY <1>4 DEF JoinsCtx
    <2> QED BY <2>2, <2>3, SoundJoins
  <1>5. IsPath(prog, Q)' /\ n \in Q /\ pc' = n
    BY <1>3 DEF IsPath, Successors
  <1>6. ASSUME NEW cell \in Cells, \E d \in Q \ {n} : cell \in Writes(prog[d])
        PROVE  CellRight(cell)'
    BY <1>4, <1>6 DEF CellRight
  <1>7. Cells' = Cells
    BY DEF Cells, Slots, RegA, RegX
  <1>8. CameBy(Q)'
    BY <1>3, <1>5, <1>6, <1>7 DEF CameBy
  <1> QED BY <1>3, <1>8

\* What an assignment writes.
NewValue(f) ==
    IF f.code \in AluCodes THEN Zero
    ELSE IF f.code = "ST" THEN A ELSE IF f.code = "STX" THEN X ELSE Loaded(f)

LEMMA AssignValues ==
    ASSUME TypeInv, RenderedInv, RunTypes, RunAssign
    PROVE  \A cell \in Cells : Value(cell)' = IF cell \in Writes(prog[pc]) THEN NewValue(prog[pc])
                                              ELSE Value(cell)
  <1> DEFINE f == prog[pc]
  <1>1. phase = "run" /\ pc \in 1 .. flen /\ IsAssign(f)
    BY DEF RunAssign, RunTypes, IsAssign
  <1>2. f \in Filters /\ (f.code \in Stores => f.k \in Slots)
    BY <1>1, Targets DEF TypeInv, RenderedInv, Stores
  <1>3. f.k \in Nat
    BY <1>2, FilterFields
  <1>4. /\ RegA \notin Slots /\ RegX \notin Slots /\ RegA # RegX
        /\ f.k # RegA /\ f.k # RegX
    BY <1>3, WordFacts DEF Slots, RegA, RegX
  <1>5. /\ A' = IF f.code \in AluCodes THEN Zero ELSE IF RegA \in Writes(f) THEN Loaded(f) ELSE A
        /\ X' = IF RegX \in Writes(f) THEN Loaded(f) ELSE X
        /\ M' = IF f.code \in Stores THEN [M EXCEPT ![f.k] = IF f.code = "ST" THEN A ELSE X] ELSE M
    BY DEF RunAssign
  <1>6. CASE f.code \in Stores
    <2>1. Writes(f) = {f.k} /\ f.code \notin AluCodes /\ f.code \in {"ST", "STX"}
      BY <1>6 DEF Writes, Stores, AluCodes
    <2>2. A' = A /\ X' = X /\ M' = [M EXCEPT ![f.k] = NewValue(f)]
      BY <1>4, <1>5, <1>6, <2>1 DEF NewValue
    <2>3. \A cell \in Slots : M'[cell] = IF cell = f.k THEN NewValue(f) ELSE M[cell]
      BY <1>1, <1>2, <1>6, <2>2 DEF RunTypes
    <2> QED BY <1>4, <2>1, <2>2, <2>3 DEF Value, Cells
  <1>7. CASE f.code \in AluCodes
    <2>1. Writes(f) = {RegA} /\ f.code \notin Stores
      BY <1>7 DEF Writes, Stores, AluCodes
    <2>2. A' = NewValue(f) /\ X' = X /\ M' = M
      BY <1>4, <1>5, <1>7, <2>1 DEF NewValue
    <2> QED BY <1>4, <2>1, <2>2 DEF Value, Cells
  <1>8. CASE f.code \in Loads \cup MiscCodes
    <2>1. f.code \notin Stores /\ f.code \notin AluCodes /\ f.code # "ST" /\ f.code # "STX"
      BY <1>8 DEF Loads, MiscCodes, Stores, AluCodes
    <2>2. /\ A' = IF RegA \in Writes(f) THEN NewValue(f) ELSE A
          /\ X' = IF RegX \in Writes(f) THEN NewValue(f) ELSE X
          /\ M' = M
      BY <1>5, <2>1 DEF NewValue
    <2>3. Writes(f) = {RegA} \/ Writes(f) = {RegX}
      BY <1>1, <2>1, AssignDecoded
    <2> QED BY <1>4, <2>2, <2>3 DEF Value, Cells
  <1> QED BY <1>1, <1>6, <1>7, <1>8 DEF IsAssign

\* The value that is written is the arch only if it says so.
LEMMA NewValueRight ==
    ASSUME TypeInv, RenderedInv, RunTypes, phase = "run", NEW f, f = prog[pc], IsAssign(f)
    PROVE  NewValue(f).what = "arch" => NewValue(f).value = data.arch
  <1>1. /\ A.what = "arch" => A.value = data.arch
        /\ X.what = "arch" => X.value = data.arch
    BY DEF RunTypes, Value, Cells, RegA, RegX
  <1>2. Zero.what # "arch"
    BY DEF Zero
  <1>3. f.code \in {"LD_MEM", "LDX_MEM"} => f.k \in Slots
    BY Targets DEF TypeInv, RenderedInv, RunTypes
  <1>4. \A s \in Slots : M[s].what = "arch" => M[s].value = data.arch
    <2>1. RegA \notin Slots /\ RegX \notin Slots
      BY WordFacts DEF Slots, RegA, RegX
    <2> QED BY <2>1 DEF RunTypes, Value, Cells
  <1>5. CASE f.code \in AluCodes \cup Stores
    BY <1>1, <1>2, <1>5 DEF NewValue, Stores, AluCodes
  <1>6. CASE f.code \notin AluCodes \cup Stores
    <2>1. NewValue(f) = Loaded(f)
      BY <1>6 DEF NewValue, Stores
    <2>2. Loaded(f).what = "arch" => Loaded(f).value = data.arch
      BY <1>1, <1>2, <1>3, <1>4 DEF Loaded
    <2> QED BY <2>1, <2>2
  <1> QED BY <1>5, <1>6

\* An assignment of the run leaves every cell it has set as render says.
LEMMA AssignSound ==
    ASSUME TypeInv, RenderedInv, SettledInv, RunTypes, RunAssign, AllSetBeforeUse,
           NEW P \in SUBSET DOMAIN prog, CameBy(P),
           NEW cell \in Cells, \E d \in P : cell \in Writes(prog[d])
    PROVE  Sound(Stat(list[pc], cell), Value(cell)'.what)
  <1> DEFINE f == prog[pc]
             s == decode_filter(f)
  <1>1. phase = "run" /\ pc \in 1 .. flen /\ IsAssign(f) /\ i = flen + 1 /\ flen \in Nat
    BY DEF RunAssign, RunTypes, IsAssign, TypeInv, flen
  <1>2. f \in Filters /\ (f.code \in {"LD_MEM", "LDX_MEM"} => f.k \in Slots)
    BY <1>1, Targets DEF TypeInv, RenderedInv
  <1>3. f.k \in Nat
    BY <1>2, FilterFields
  <1>4. Value(cell)' = IF cell \in Writes(f) THEN NewValue(f) ELSE Value(cell)
    BY AssignValues
  <1>5. CASE cell \notin Writes(f)
    BY <1>4, <1>5 DEF CameBy, CellRight
  <1>6. CASE cell \in Writes(f)
    <2>1. AssignSettled(list, pc)
      BY <1>1 DEF SettledInv, Settled
    <2>2. Stat(list[pc], cell) = RightStat(s, list[pc])
      BY <1>6, <2>1 DEF AssignSettled
    <2> SUFFICES Sound(RightStat(s, list[pc]), NewValue(f).what)
      BY <1>4, <1>6, <2>2
    <2> DEFINE stat == RightStat(s, list[pc])
    <2>3. CASE stat = "MIXED"
      BY <2>3 DEF Sound
    <2>4. CASE stat = "SYSNR" /\ f.code = "LD_ABS" /\ f.k = 0
      <3>1. NewValue(f).what = "sysnr"
        BY <2>4 DEF NewValue, Loaded, AluCodes
      <3> QED BY <2>4, <3>1 DEF Sound
    <2>5. CASE stat = "ARCH" /\ f.code = "LD_ABS" /\ f.k = 4
      <3>1. NewValue(f).what = "arch"
        BY <2>5 DEF NewValue, Loaded, AluCodes
      <3> QED BY <2>5, <3>1 DEF Sound
    <2>6. CASE /\ stat = list[pc].A_stat /\ f.code \in {"ST", "TAX"}
               /\ RegA \in Reads(f) /\ RegA \notin Writes(f)
      <3>1. NewValue(f) = A
        BY <2>6 DEF NewValue, Loaded, AluCodes
      <3>2. Sound(Stat(list[pc], RegA), Value(RegA).what)
        BY <2>6, ReadRight DEF Cells
      <3> QED BY <2>6, <3>1, <3>2 DEF Stat, Value
    <2>7. CASE /\ stat = list[pc].X_stat /\ f.code \in {"STX", "TXA"}
               /\ RegX \in Reads(f) /\ RegX \notin Writes(f)
      <3>1. NewValue(f) = X
        BY <2>7 DEF NewValue, Loaded, AluCodes
      <3>2. Sound(Stat(list[pc], RegX), Value(RegX).what)
        BY <2>7, ReadRight DEF Cells
      <3>3. Stat(list[pc], RegX) = list[pc].X_stat /\ Value(RegX) = X
        BY DEF Stat, Value, RegA, RegX
      <3> QED BY <2>7, <3>1, <3>2, <3>3
    <2>8. CASE /\ stat = list[pc].mem_stat[f.k] /\ f.code \in {"LD_MEM", "LDX_MEM"}
               /\ f.k \in Reads(f) /\ f.k \notin Writes(f)
      <3>1. NewValue(f) = M[f.k]
        BY <2>8 DEF NewValue, Loaded, AluCodes
      <3>2. Sound(Stat(list[pc], f.k), Value(f.k).what)
        BY <1>2, <2>8, ReadRight DEF Cells
      <3>3. Stat(list[pc], f.k) = list[pc].mem_stat[f.k] /\ Value(f.k) = M[f.k]
        BY <1>3 DEF Stat, Value, RegA, RegX
      <3> QED BY <2>8, <3>1, <3>2, <3>3
    <2> HIDE DEF stat
    <2>9. \/ stat = "MIXED"
          \/ stat = "SYSNR" /\ f.code = "LD_ABS" /\ f.k = 0
          \/ stat = "ARCH" /\ f.code = "LD_ABS" /\ f.k = 4
          \/ /\ stat = list[pc].A_stat /\ f.code \in {"ST", "TAX"}
             /\ RegA \in Reads(f) /\ RegA \notin Writes(f)
          \/ /\ stat = list[pc].X_stat /\ f.code \in {"STX", "TXA"}
             /\ RegX \in Reads(f) /\ RegX \notin Writes(f)
          \/ /\ stat = list[pc].mem_stat[f.k] /\ f.code \in {"LD_MEM", "LDX_MEM"}
             /\ f.k \in Reads(f) /\ f.k \notin Writes(f)
      BY <1>1, <1>3, RightKnown DEF stat
    <2> QED BY <2>3, <2>4, <2>5, <2>6, <2>7, <2>8, <2>9 DEF stat
  <1> QED BY <1>5, <1>6

-----------------------------------------------------------------------------
(***************************************************************************)
(* The invariant is inductive.                                             *)
(***************************************************************************)
\* The parts that speak of the filter alone change with nothing else.
LEMMA SameProg ==
    ASSUME prog' = prog
    PROVE  /\ flen' = flen /\ (AllSetBeforeUse' <=> AllSetBeforeUse)
           /\ \A c : Fine(c)' <=> Fine(c)
  BY DEF flen, AllSetBeforeUse, Fine, FatalError, PlainError, MemIndexError, JumpError

LEMMA SameSettled ==
    ASSUME prog' = prog, NEW c, Settled(list', names', c)
    PROVE  Settled(list, names, c)'
  BY DEF Settled, AssignSettled, JaSettled, JumpSettled, JoinsCtx

\* A filter whose instructions are fine, and which ends in a return, goes to
\* render with an empty list.
LEMMA StartsFine ==
    ASSUME TypeInv, IdleInv, phase \in {"read", "check"}, flen > 0, prog[flen].code = "RET",
           \A c \in 1 .. flen : Fine(c), StartRender,
           UNCHANGED <<prog, runVars>>,
           mem_valid' = mem_valid, masks' = masks, fatal_count' = fatal_count, error_count' = error_count
    PROVE  Inv'
  <1> DEFINE empty(c) == [A_stat |-> "NONE", X_stat |-> "NONE",
                          mem_stat |-> [s \in Slots |-> "NONE"],
                          arch |-> IF c = 1 THEN scmp_arch ELSE NoArch]
  <1>1. /\ phase' = "render" /\ i' = 1 /\ list' = [c \in 1 .. flen + 1 |-> empty(c)]
        /\ names' = [c \in 1 .. flen |-> None] /\ prog' = prog
        /\ A' = A /\ X' = X /\ M' = M /\ tested' = tested /\ blurred' = blurred
    BY DEF StartRender, runVars
  <1>2. flen' = flen /\ flen \in Nat /\ \A c : Fine(c)' <=> Fine(c)
    BY <1>1, SameProg DEF TypeInv, flen
  <1>3. \A c : empty(c) \in Ctx
    BY WordFacts DEF Ctx, Stats, NoArch
  <1>4. empty(1).arch = scmp_arch
    OBVIOUS
  <1> HIDE DEF empty
  <1>5. /\ list' \in [1 .. flen + 1 -> Ctx] /\ DOMAIN list' = 1 .. flen + 1
        /\ list'[1].arch = scmp_arch
    BY <1>1, <1>2, <1>3, <1>4
  <1>6. Ctx' = Ctx /\ Slots' = Slots
    BY DEF Ctx, Slots, Stats
  <1>7. TypeInv'
    BY <1>1, <1>2, <1>5, <1>6 DEF TypeInv
  <1>8. ReadInv' /\ CheckInv' /\ RunTypes' /\ ArchInv' /\ PathInv'
    BY <1>1 DEF ReadInv, CheckInv, RunTypes, ArchInv, PathInv
  <1>9. RenderedInv'
    BY <1>1, <1>2, <1>5, <1>6 DEF RenderedInv
  <1>10. SettledInv'
    BY <1>1, <1>5 DEF SettledInv
  <1>11. IdleInv'
    BY <1>1, <1>6 DEF IdleInv, Zero
  <1> QED BY <1>7, <1>8, <1>9, <1>10, <1>11 DEF Inv

LEMMA ReadFiltersInv ==
    ASSUME Inv, NEW f \in Filters, read_filters(f)
    PROVE  Inv'
  <1>1. TypeInv /\ ReadInv /\ IdleInv /\ phase = "read" /\ phase' \in {"read", "exit"}
    BY DEF Inv, read_filters
  <1>2. /\ i' = i /\ masks' = masks /\ mem_valid' = mem_valid
        /\ fatal_count' = fatal_count /\ error_count' = error_count /\ list' = list
        /\ A' = A /\ X' = X /\ M' = M /\ tested' = tested /\ blurred' = blurred
    BY DEF read_filters, Unread, checkVars, renderVars, runVars
  <1>3. prog \in Seq(Filters) /\ flen \in Nat /\ flen <= BPF_MAXINSNS /\ BPF_MAXINSNS \in Nat
    BY <1>1, WordFacts DEF TypeInv, flen
  <1>4. prog' \in Seq(Filters) /\ flen' \in Nat /\ flen' <= BPF_MAXINSNS /\ flen' >= flen
    <2>1. CASE flen = BPF_MAXINSNS
      BY <1>3, <2>1 DEF read_filters, flen
    <2>2. CASE flen # BPF_MAXINSNS
      <3>1. prog' = Append(prog, f)
        BY <2>2 DEF read_filters
      <3>2. prog' \in Seq(Filters) /\ Len(prog') = Len(prog) + 1
        BY <1>3, <3>1
      <3> QED BY <1>3, <2>2, <3>2 DEF flen
    <2> QED BY <2>1, <2>2
  <1>5. Slots' = Slots /\ Ctx' = Ctx
    BY DEF Slots, Ctx, Stats
  <1>6. TypeInv'
    BY <1>1, <1>2, <1>3, <1>4, <1>5 DEF TypeInv
  <1>7. ReadInv'
    BY <1>1, <1>2 DEF ReadInv
  <1>8. IdleInv'
    BY <1>1, <1>2, <1>5 DEF IdleInv, Zero
  <1>9. CheckInv' /\ RenderedInv' /\ SettledInv' /\ RunTypes' /\ ArchInv' /\ PathInv'
    BY <1>1 DEF CheckInv, RenderedInv, SettledInv, RunTypes, ArchInv, PathInv
  <1> QED BY <1>6, <1>7, <1>8, <1>9 DEF Inv

\* A step that ends the program, and leaves what has a type as it is.
LEMMA EndInv ==
    ASSUME Inv, phase' \in {"done", "exit"}, prog' = prog, i' = i, list' = list,
           masks' = masks, mem_valid' = mem_valid, fatal_count' = fatal_count,
           error_count' = error_count,
           phase' = "exit" => phase \notin {"run", "done"} /\ UNCHANGED runVars
    PROVE  Inv'
  <1>1. TypeInv'
    BY DEF Inv, TypeInv, flen, Slots, Ctx, Stats
  <1>2. IdleInv'
    BY DEF Inv, IdleInv, runVars, Zero, Slots
  <1>3. /\ ReadInv' /\ CheckInv' /\ RenderedInv' /\ SettledInv'
        /\ RunTypes' /\ ArchInv' /\ PathInv'
    BY DEF ReadInv, CheckInv, RenderedInv, SettledInv, RunTypes, ArchInv, PathInv
  <1> QED BY <1>1, <1>2, <1>3 DEF Inv

LEMMA ReadEofInv ==
    ASSUME Inv, ReadEof
    PROVE  Inv'
  <1>1. phase = "read" /\ UNCHANGED <<prog, runVars>> /\ TypeInv /\ ReadInv /\ IdleInv
    BY DEF ReadEof, Inv
  <1>2. CASE flen = 0 /\ ~trustful' /\ phase' = "done" /\ UNCHANGED <<i, checkVars, renderVars>>
    BY <1>1, <1>2, EndInv DEF checkVars, renderVars
  <1>3. CASE /\ flen > 0 /\ ~trustful'
             /\ phase' = "check"
             /\ masks' = [c \in 1 .. flen |-> Slots]
             /\ UNCHANGED <<i, mem_valid, fatal_count, error_count, renderVars>>
    <2>1. /\ prog' = prog /\ i' = i /\ i = 1 /\ mem_valid' = mem_valid /\ list' = list
          /\ fatal_count' = fatal_count /\ error_count' = error_count /\ error_count = 0
      BY <1>1, <1>3 DEF ReadInv, renderVars
    <2>2. flen' = flen /\ Slots' = Slots /\ Ctx' = Ctx
      BY <2>1 DEF flen, Slots, Ctx, Stats
    <2>3. TypeInv'
      BY <1>1, <1>3, <2>1, <2>2 DEF TypeInv
    <2>4. CheckInv'
      BY <1>3, <2>1, <2>2 DEF CheckInv
    <2>5. IdleInv'
      BY <1>1, <1>3, <2>2 DEF IdleInv, runVars, Zero
    <2>6. ReadInv' /\ RenderedInv' /\ SettledInv' /\ RunTypes' /\ ArchInv' /\ PathInv'
      BY <1>3 DEF ReadInv, RenderedInv, SettledInv, RunTypes, ArchInv, PathInv
    <2> QED BY <2>3, <2>4, <2>5, <2>6 DEF Inv
  <1>4. CASE flen > 0 /\ trustful' /\ KernelAccepts /\ StartRender /\ UNCHANGED checkVars
    <2>1. prog[flen].code = "RET" /\ \A c \in 1 .. flen : Fine(c)
      BY <1>4 DEF KernelAccepts, Fine
    <2> QED BY <1>1, <1>4, <2>1, StartsFine DEF checkVars
  <1> QED BY <1>2, <1>3, <1>4 DEF ReadEof

LEMMA CheckFilterInv ==
    ASSUME Inv, check_filter
    PROVE  Inv'
  <1> DEFINE f      == prog[i]
             unset  == f.code \in {"LD_MEM", "LDX_MEM"} /\ f.k \notin mem_valid
             isJump == f.code \in JmpCodes \cup {"JA"}
  <1>1. /\ TypeInv /\ CheckInv /\ IdleInv /\ phase = "check" /\ phase' = "check"
        /\ i \in 1 .. flen /\ i' = i + 1 /\ flen \in Nat /\ fatal_count <= FatalMax
        /\ prog' = prog /\ list' = list /\ UNCHANGED runVars
    BY DEF Inv, check_filter, TypeInv, flen, renderVars
  <1>2. flen' = flen /\ Slots' = Slots /\ Ctx' = Ctx /\ \A c : Fine(c)' <=> Fine(c)
    BY <1>1, SameProg DEF Slots, Ctx, Stats
  <1>3. /\ fatal_count \in 0 .. FatalMax + 1 /\ FatalMax \in Nat /\ error_count \in 0 .. flen
        /\ error_count <= i - 1 /\ mem_valid \subseteq Slots
        /\ DOMAIN masks = 1 .. flen /\ \A c \in 1 .. flen : masks[c] \subseteq Slots
        /\ fatal_count = 0 /\ error_count = 0 => \A c \in 1 .. i - 1 : Fine(c)
    BY <1>1, WordFacts DEF TypeInv, CheckInv
  <1>4. /\ fatal_count' \in 0 .. FatalMax + 1 /\ error_count' \in 0 .. flen
        /\ error_count' <= i /\ mem_valid' \subseteq Slots
        /\ DOMAIN masks' = 1 .. flen /\ \A c \in 1 .. flen : masks'[c] \subseteq Slots
        /\ fatal_count' = 0 /\ error_count' = 0 => \A c \in 1 .. i : Fine(c)
    <2>1. CASE FatalError(f)
      <3>1. /\ fatal_count' = fatal_count + 1 /\ masks' = masks /\ mem_valid' = mem_valid
            /\ error_count' = error_count
        BY <2>1 DEF check_filter
      <3> QED BY <1>1, <1>3, <3>1
    <2>2. CASE ~FatalError(f) /\ (PlainError(f, i) \/ unset)
      <3>1. /\ error_count' = error_count + 1 /\ masks' = masks /\ mem_valid' = mem_valid
            /\ fatal_count' = fatal_count
        BY <2>2 DEF check_filter
      <3> QED BY <1>1, <1>3, <3>1
    <2>3. CASE ~FatalError(f) /\ ~(PlainError(f, i) \/ unset)
      <3>1. /\ fatal_count' = fatal_count /\ error_count' = error_count
            /\ masks' = IF ~isJump THEN masks
                         ELSE [c \in 1 .. flen |-> IF c \in Successors(prog, i)
                                                     THEN masks[c] \cap mem_valid ELSE masks[c]]
            /\ mem_valid' = IF isJump THEN Slots
                             ELSE IF f.code \in Stores THEN mem_valid \cup {f.k} ELSE mem_valid
        BY <2>3 DEF check_filter
      <3>2. Fine(i)
        BY <2>3 DEF Fine
      <3>3. f.code \in Stores => f.k \in Slots
        <4>1. f \in Filters
          BY <1>1 DEF TypeInv, flen
        <4>2. f.k \in Nat /\ BPF_MEMWORDS \in Nat /\ ~MemIndexError(f)
          BY <2>3, <4>1, FilterFields, WordFacts DEF PlainError
        <4> QED BY <4>2 DEF Stores, MemIndexError, Slots
      <3>4. mem_valid' \subseteq Slots
        BY <1>3, <3>1, <3>3
      <3>5. DOMAIN masks' = 1 .. flen /\ \A c \in 1 .. flen : masks'[c] \subseteq Slots
        BY <1>3, <3>1
      <3>6. fatal_count' = 0 /\ error_count' = 0 => \A c \in 1 .. i : Fine(c)
        <4> SUFFICES ASSUME fatal_count' = 0, error_count' = 0, NEW c \in 1 .. i
                     PROVE  Fine(c)
          OBVIOUS
        <4>1. CASE c = i
          BY <3>2, <4>1
        <4>2. CASE c # i
          <5>1. c \in 1 .. i - 1
            BY <1>1, <4>2
          <5> QED BY <1>3, <3>1, <5>1
        <4> QED BY <4>1, <4>2
      <3> QED BY <1>1, <1>3, <3>1, <3>4, <3>5, <3>6
    <2> QED BY <2>1, <2>2, <2>3
  <1>5. TypeInv'
    BY <1>1, <1>2, <1>4 DEF TypeInv
  <1>6. CheckInv'
    <2>1. flen > 0 /\ i' - 1 = i
      BY <1>1
    <2> QED BY <1>2, <1>4, <2>1 DEF CheckInv
  <1>7. IdleInv'
    BY <1>1, <1>2 DEF IdleInv, runVars, Zero
  <1>8. ReadInv' /\ RenderedInv' /\ SettledInv' /\ RunTypes' /\ ArchInv' /\ PathInv'
    BY <1>1 DEF ReadInv, RenderedInv, SettledInv, RunTypes, ArchInv, PathInv
  <1> QED BY <1>5, <1>6, <1>7, <1>8 DEF Inv

LEMMA FinishCheckInv ==
    ASSUME Inv, FinishCheck
    PROVE  Inv'
  <1>1. /\ TypeInv /\ CheckInv /\ IdleInv /\ phase = "check"
        /\ i > flen \/ fatal_count > FatalMax
        /\ UNCHANGED <<prog, runVars>> /\ UNCHANGED checkVars
    BY DEF Inv, FinishCheck
  <1>2. CASE fatal_count > 0 \/ SkipsRender
    <2>1. phase' \in {"done", "exit"} /\ i' = i /\ list' = list
      BY <1>2 DEF FinishCheck, renderVars
    <2> QED BY <1>1, <2>1, EndInv DEF checkVars
  <1>3. CASE ~(fatal_count > 0) /\ ~SkipsRender
    <2>1. StartRender
      BY <1>3 DEF FinishCheck
    <2>2. /\ fatal_count = 0 /\ error_count = 0 /\ flen \in Nat /\ flen > 0
          /\ prog[flen].code = "RET" /\ i \in 1 .. flen + 1 /\ FatalMax \in Nat
      BY <1>1, <1>3, WordFacts DEF SkipsRender, TypeInv, CheckInv, flen
    <2>3. i = flen + 1
      BY <1>1, <2>2
    <2>4. \A c \in 1 .. flen : Fine(c)
      BY <1>1, <2>2, <2>3 DEF CheckInv
    <2> QED BY <1>1, <2>1, <2>2, <2>4, StartsFine DEF checkVars
  <1> QED BY <1>2, <1>3

\* An instruction has been rendered, and i goes on.
LEMMA RenderedOne ==
    ASSUME Inv, phase = "render", i \in 1 .. flen, i' = i + 1,
           list' \in [1 .. flen + 1 -> Ctx], Renders(list, list', i), Settled(list', names', i),
           DOMAIN names' = 1 .. flen, \A c \in 1 .. i - 1 : names'[c] = names[c],
           UNCHANGED <<phase, prog, checkVars, runVars>>
    PROVE  Inv'
  <1>1. TypeInv /\ RenderedInv /\ SettledInv /\ IdleInv
    BY DEF Inv
  <1>2. /\ phase' = "render" /\ prog' = prog /\ mem_valid' = mem_valid /\ masks' = masks
        /\ fatal_count' = fatal_count /\ error_count' = error_count
    BY DEF checkVars
  <1>3. flen' = flen /\ flen \in Nat /\ Slots' = Slots /\ Ctx' = Ctx /\ \A c : Fine(c)' <=> Fine(c)
    BY <1>1, <1>2, SameProg DEF TypeInv, flen, Slots, Ctx, Stats
  <1>4. /\ prog \in Seq(Filters) /\ prog[flen].code = "RET" /\ flen > 0
        /\ \A c \in 1 .. flen : Fine(c)
    BY <1>1 DEF TypeInv, RenderedInv
  <1>5. TypeInv'
    BY <1>1, <1>2, <1>3 DEF TypeInv
  <1>6. RenderedInv'
    BY <1>2, <1>3, <1>4 DEF RenderedInv
  <1>7. \A c \in 1 .. i - 1 : Settled(list', names', c)
    <2> TAKE c \in 1 .. i - 1
    <2>1. Settled(list, names, c)
      BY <1>1 DEF SettledInv
    <2>2. Fine(c) /\ names'[c] = names[c]
      BY <1>3, <1>4
    <2> QED BY <1>4, <2>1, <2>2, SettledKept
  <1>8. \A c \in 1 .. i : Settled(list, names, c)'
    <2> TAKE c \in 1 .. i
    <2>1. CASE c = i
      BY <1>2, <2>1, SameSettled
    <2>2. CASE c # i
      <3>1. c \in 1 .. i - 1
        BY <2>2
      <3> QED BY <1>2, <1>7, <3>1, SameSettled
    <2> QED BY <2>1, <2>2
  <1>9. list'[1].arch = scmp_arch
    <2>1. CASE i = 1
      BY <1>1, <2>1 DEF Renders, SettledInv
    <2>2. CASE i # 1
      BY <1>1, <2>2 DEF Renders, SettledInv
    <2> QED BY <2>1, <2>2
  <1>10. SettledInv'
    <2>1. i' - 1 = i
      OBVIOUS
    <2> QED BY <1>8, <1>9, <2>1 DEF SettledInv
  <1>11. IdleInv'
    BY <1>1, <1>2, <1>3 DEF IdleInv, runVars, Zero
  <1>12. ReadInv' /\ CheckInv' /\ RunTypes' /\ ArchInv' /\ PathInv'
    BY <1>2 DEF ReadInv, CheckInv, RunTypes, ArchInv, PathInv
  <1> QED BY <1>5, <1>6, <1>10, <1>11, <1>12 DEF Inv

LEMMA RenderAssignInv ==
    ASSUME Inv, RenderAssign
    PROVE  Inv'
  <1>1. TypeInv /\ RenderedInv
    BY DEF Inv
  <1>2. /\ phase = "render" /\ i \in 1 .. flen /\ i' = i + 1 /\ names' = names
        /\ UNCHANGED <<phase, prog, checkVars, runVars>>
    BY <1>1 DEF RenderAssign, TypeInv, flen
  <1>3. DOMAIN names' = 1 .. flen
    BY <1>1, <1>2 DEF RenderedInv
  <1> QED BY <1>1, <1>2, <1>3, AssignRendered, RenderedOne

LEMMA RenderJumpInv ==
    ASSUME Inv, RenderJump
    PROVE  Inv'
  <1> DEFINE f == prog[i]
  <1>1. TypeInv /\ RenderedInv
    BY DEF Inv
  <1>2. /\ phase = "render" /\ i \in 1 .. flen /\ i' = i + 1
        /\ UNCHANGED <<phase, prog, checkVars, runVars>>
        /\ decode_filter(f).type = "JUMP_LINE"
    BY <1>1 DEF RenderJump, TypeInv, flen
  <1>3. DOMAIN names' = 1 .. flen /\ \A c \in 1 .. i - 1 : names'[c] = names[c]
    BY <1>1, <1>2 DEF RenderedInv, RenderJump
  <1>4. f \in Filters /\ f.code \in ValidCodes
    BY <1>1, <1>2, Targets DEF TypeInv, RenderedInv
  <1>5. f.code = "JA" \/ f.code \in JmpCodes
    BY <1>2, <1>4, Kinds, AssignDecoded, RetDecoded
  <1> QED BY <1>1, <1>2, <1>3, <1>5, JaRendered, JumpRendered, RenderedOne

LEMMA RenderReturnInv ==
    ASSUME Inv, RenderReturn
    PROVE  Inv'
  <1>1. TypeInv /\ RenderedInv
    BY DEF Inv
  <1>2. /\ phase = "render" /\ i \in 1 .. flen /\ i' = i + 1 /\ flen \in Nat
        /\ UNCHANGED <<phase, prog, checkVars, runVars>>
        /\ prog[i].code = "RET" /\ list' = list /\ names' = names
    BY <1>1 DEF RenderReturn, TypeInv, flen, renderVars
  <1>3. DOMAIN names' = 1 .. flen /\ list' \in [1 .. flen + 1 -> Ctx]
    BY <1>1, <1>2 DEF RenderedInv
  <1>4. Renders(list, list', i)
    BY <1>2, JoinsTransitive DEF Renders
  <1>5. Settled(list', names', i)
    BY <1>2 DEF Settled, IsAssign, Loads, Stores, AluCodes, MiscCodes, JmpCodes
  <1> QED BY <1>2, <1>3, <1>4, <1>5, RenderedOne

LEMMA FinishRenderInv ==
    ASSUME Inv, NEW d \in Inputs, FinishRender(d)
    PROVE  Inv'
  <1>1. TypeInv /\ RenderedInv /\ SettledInv /\ IdleInv /\ phase = "render" /\ phase' = "run"
    BY DEF Inv, FinishRender
  <1>2. /\ prog' = prog /\ mem_valid' = mem_valid /\ masks' = masks /\ i' = i
        /\ fatal_count' = fatal_count /\ error_count' = error_count
        /\ list' = list /\ names' = names /\ data' = d /\ pc' = 1
        /\ A' = A /\ X' = X /\ M' = M /\ tested' = tested /\ blurred' = blurred
    BY DEF FinishRender, checkVars, renderVars
  <1>3. /\ flen' = flen /\ flen \in Nat /\ flen > 0 /\ i = flen + 1 /\ prog \in Seq(Filters)
        /\ Slots' = Slots /\ Ctx' = Ctx /\ \A c : Fine(c)' <=> Fine(c)
    BY <1>1, <1>2, SameProg DEF TypeInv, RenderedInv, flen, Slots, Ctx, Stats, FinishRender
  <1>4. TypeInv'
    BY <1>1, <1>2, <1>3 DEF TypeInv
  <1>5. RenderedInv'
    BY <1>1, <1>2, <1>3 DEF RenderedInv
  <1>6. SettledInv'
    BY <1>1, <1>2, SameSettled DEF SettledInv
  <1>7. RunTypes'
    <2>1. data'.arch \in Arches
      BY <1>2 DEF Inputs
    <2>2. A = Zero /\ X = Zero /\ M = [s \in Slots |-> Zero] /\ Zero.what # "arch"
      BY <1>1 DEF IdleInv, Zero
    <2>3. \A cell \in Cells : Value(cell)'.what # "arch"
      BY <1>2, <2>2 DEF Value, Cells
    <2>4. Cells' = Cells
      BY DEF Cells, Slots, RegA, RegX
    <2>5. M' = [s \in Slots |-> M'[s]]
      BY <1>2, <2>2
    <2> QED BY <1>2, <1>3, <2>1, <2>3, <2>4, <2>5 DEF RunTypes
  <1>8. ArchInv'
    BY <1>1, <1>2 DEF ArchInv, SettledInv, IdleInv
  <1>9. PathInv'
    <2>1. {1} \in SUBSET DOMAIN prog' /\ 1 \in {1}
      BY <1>2, <1>3 DEF flen
    <2>2. IsPath(prog', {1})
      BY DEF IsPath
    <2>3. CameBy({1})'
      BY <1>2, <2>2 DEF CameBy
    <2> QED BY <2>1, <2>3 DEF PathInv
  <1>10. ReadInv' /\ CheckInv' /\ IdleInv'
    BY <1>1 DEF ReadInv, CheckInv, IdleInv
  <1> QED BY <1>4, <1>5, <1>6, <1>7, <1>8, <1>9, <1>10 DEF Inv

LEMMA RunAssignInv ==
    ASSUME Inv, RunAssign
    PROVE  Inv'
  <1> DEFINE f == prog[pc]
  <1>1. /\ TypeInv /\ RenderedInv /\ SettledInv /\ RunTypes /\ ArchInv /\ PathInv
        /\ phase = "run" /\ phase' = "run" /\ IsAssign(f) /\ pc' = pc + 1
    BY DEF Inv, RunAssign, IsAssign
  <1>2. /\ prog' = prog /\ mem_valid' = mem_valid /\ masks' = masks /\ i' = i
        /\ fatal_count' = fatal_count /\ error_count' = error_count
        /\ list' = list /\ names' = names /\ data' = data
        /\ tested' = tested /\ blurred' = blurred
    BY DEF RunAssign, checkVars, renderVars
  <1>3. /\ flen' = flen /\ flen \in Nat /\ i = flen + 1 /\ pc \in 1 .. flen /\ prog \in Seq(Filters)
        /\ Slots' = Slots /\ Ctx' = Ctx /\ Cells' = Cells /\ \A c : Fine(c)' <=> Fine(c)
        /\ AllSetBeforeUse' <=> AllSetBeforeUse
    BY <1>1, <1>2, SameProg DEF TypeInv, RunTypes, flen, Slots, Ctx, Stats, Cells, RegA, RegX
  <1>4. f \in Filters /\ f.code \in ValidCodes /\ pc + 1 \in pc + 1 .. flen
    BY <1>1, <1>3, Targets DEF RenderedInv
  <1>5. AssignSettled(list, pc)
    BY <1>1, <1>3 DEF SettledInv, Settled
  <1>6. TypeInv'
    BY <1>1, <1>2, <1>3 DEF TypeInv
  <1>7. RenderedInv'
    BY <1>1, <1>2, <1>3 DEF RenderedInv
  <1>8. SettledInv'
    BY <1>1, <1>2, SameSettled DEF SettledInv
  <1>9. RunTypes'
    <2>1. \A cell \in Cells : Value(cell)'.what = "arch" => Value(cell)'.value = data.arch
      BY <1>1, AssignValues, NewValueRight DEF RunTypes
    <2>2. M' = [s \in Slots |-> M'[s]]
      BY <1>1 DEF RunTypes, RunAssign
    <2>3. data.arch \in Arches
      BY <1>1 DEF RunTypes
    <2>4. pc' \in 1 .. flen
      BY <1>1, <1>3, <1>4
    <2> QED BY <1>2, <1>3, <2>1, <2>2, <2>3, <2>4 DEF RunTypes
  <1>10. ArchInv'
    <2> SUFFICES ASSUME AllSetBeforeUse, ~blurred
                 PROVE  \/ list[pc + 1].arch = MixedArch
                        \/ list[pc + 1].arch = data.arch
                        \/ list[pc + 1].arch = scmp_arch /\ ~tested
      BY <1>1, <1>2, <1>3 DEF ArchInv
    <2>1. \/ list[pc].arch = MixedArch
          \/ list[pc].arch = data.arch
          \/ list[pc].arch = scmp_arch /\ ~tested
      BY <1>1 DEF ArchInv
    <2>2. list[pc].arch # NoArch
      BY <1>1, <2>1, WordFacts DEF RunTypes, NoArch, MixedArch
    <2>3. list[pc + 1].arch \in {list[pc].arch, MixedArch}
      BY <1>5, <2>2 DEF AssignSettled, JoinsArch
    <2> QED BY <2>1, <2>3
  <1>11. PathInv'
    <2> SUFFICES ASSUME AllSetBeforeUse
                 PROVE  \E Q \in SUBSET DOMAIN prog' : CameBy(Q)'
      BY <1>3 DEF PathInv
    <2>1. PICK P \in SUBSET DOMAIN prog : CameBy(P)
      BY <1>1 DEF PathInv
    <2>2. pc + 1 \in Successors(prog, pc)
      BY <1>1, <1>4, Kinds DEF Successors
    <2>3. \A cell \in Cells : (\E d \in P : cell \in Writes(prog[d])) =>
                                Sound(Stat(list[pc], cell), Value(cell)'.what)
      BY <1>1, <2>1, AssignSound
    <2>4. JoinsCtx(list, pc, pc + 1)
      BY <1>5 DEF AssignSettled
    <2> QED BY <1>1, <1>2, <1>3, <1>4, <2>1, <2>2, <2>3, <2>4, RunGoesOn
  <1>12. ReadInv' /\ CheckInv' /\ IdleInv'
    BY <1>1 DEF ReadInv, CheckInv, IdleInv
  <1> QED BY <1>6, <1>7, <1>8, <1>9, <1>10, <1>11, <1>12 DEF Inv

\* Where a jump of the run goes, and what render knows there of the arch.
LEMMA JumpArch ==
    ASSUME TypeInv, RenderedInv, SettledInv, RunTypes, PathInv, RunJump, AllSetBeforeUse,
           ~blurred', prog[pc].code \in JmpCodes,
           \/ list[pc].arch = MixedArch
           \/ list[pc].arch = data.arch
           \/ list[pc].arch = scmp_arch /\ ~tested
    PROVE  \/ list[pc'].arch = MixedArch
           \/ list[pc'].arch = data.arch
           \/ list[pc'].arch = scmp_arch /\ ~tested'
  <1> DEFINE f == prog[pc]
             jt == pc + 1 + f.jt
             jf == pc + 1 + f.jf
  <1>1. /\ phase = "run" /\ pc \in 1 .. flen /\ i = flen + 1 /\ flen \in Nat /\ f.code # "JA"
        /\ data.arch \in Arches
    BY DEF RunJump, RunTypes, TypeInv, flen, JmpCodes
  <1>2. JumpSettled(list, names, pc)
    BY <1>1 DEF SettledInv, Settled
  <1>3. pc' = IF Compare(f, A.value, X.value) THEN jt ELSE jf
    BY <1>1 DEF RunJump
  <1>4. PICK P \in SUBSET DOMAIN prog : CameBy(P)
    BY <1>1 DEF PathInv
  <1>5. Sound(list[pc].A_stat, A.what)
    <2>1. RegA \in Reads(f) /\ RegA \notin Writes(f)
      BY DEF Reads, Writes, JmpCodes, AluCodes, Stores
    <2>2. Sound(Stat(list[pc], RegA), Value(RegA).what)
      BY <1>4, <2>1, ReadRight DEF Cells
    <2> QED BY <2>2 DEF Stat, Value
  <1>6. CASE A.what # "arch"
    <2>1. ~(tested') <=> ~tested
      BY <1>6 DEF RunJump
    <2>2. list[pc].A_stat # "ARCH"
      BY <1>5, <1>6 DEF Sound
    <2>3. JoinsArch(list[pc].arch, list[jt].arch) /\ JoinsArch(list[pc].arch, list[jf].arch)
      BY <1>2, <2>2 DEF JumpSettled
    <2>4. list[pc].arch # NoArch
      BY <1>1, WordFacts DEF NoArch, MixedArch
    <2>5. list[pc'].arch \in {list[pc].arch, MixedArch}
      BY <1>3, <2>3, <2>4 DEF JoinsArch
    <2> QED BY <2>1, <2>5
  <1>7. CASE A.what = "arch"
    <2>1. f.code = "JEQ" /\ f.src # "X" /\ list[pc].A_stat = "ARCH"
      BY <1>1, <1>7 DEF RunJump
    <2>2. f \in Filters
      BY <1>1 DEF TypeInv, flen
    <2>3. f.src = "K"
      BY <2>1, <2>2, FilterFields
    <2>4. JoinsArch(f.k, list[jt].arch) /\ list[jf].arch = MixedArch
      BY <1>2, <2>1, <2>3 DEF JumpSettled
    <2>5. A.value = data.arch
      BY <1>1, <1>7 DEF RunTypes, Value, Cells, RegA
    <2>6. Compare(f, A.value, X.value) <=> A.value = f.k
      BY <2>1, <2>3 DEF Compare
    <2>7. CASE A.value = f.k
      <3>1. pc' = jt /\ f.k # NoArch
        BY <1>1, <1>3, <2>5, <2>6, <2>7, WordFacts
      <3> QED BY <2>4, <2>5, <2>7, <3>1 DEF JoinsArch
    <2>8. CASE A.value # f.k
      BY <1>3, <2>4, <2>6, <2>8
    <2> QED BY <2>7, <2>8
  <1> QED BY <1>6, <1>7

LEMMA RunJumpInv ==
    ASSUME Inv, RunJump
    PROVE  Inv'
  <1> DEFINE f == prog[pc]
  <1>1. /\ TypeInv /\ RenderedInv /\ SettledInv /\ RunTypes /\ ArchInv /\ PathInv
        /\ phase = "run" /\ phase' = "run" /\ f.code \in JmpCodes \cup {"JA"}
    BY DEF Inv, RunJump
  <1>2. /\ prog' = prog /\ mem_valid' = mem_valid /\ masks' = masks /\ i' = i
        /\ fatal_count' = fatal_count /\ error_count' = error_count
        /\ list' = list /\ names' = names /\ data' = data
        /\ A' = A /\ X' = X /\ M' = M
    BY DEF RunJump, checkVars, renderVars
  <1>3. /\ flen' = flen /\ flen \in Nat /\ i = flen + 1 /\ pc \in 1 .. flen /\ prog \in Seq(Filters)
        /\ Slots' = Slots /\ Ctx' = Ctx /\ Cells' = Cells /\ \A c : Fine(c)' <=> Fine(c)
        /\ AllSetBeforeUse' <=> AllSetBeforeUse
    BY <1>1, <1>2, SameProg DEF TypeInv, RunTypes, flen, Slots, Ctx, Stats, Cells, RegA, RegX
  <1>4. /\ f \in Filters
        /\ f.code = "JA" => pc + 1 + f.k \in pc + 1 .. flen
        /\ f.code \in JmpCodes => pc + 1 + f.jt \in pc + 1 .. flen /\ pc + 1 + f.jf \in pc + 1 .. flen
    BY <1>1, <1>3, Targets DEF RenderedInv
  <1>5. Settled(list, names, pc)
    BY <1>1, <1>3 DEF SettledInv
  <1>6. pc' \in pc + 1 .. flen /\ pc' \in Successors(prog, pc) /\ JoinsCtx(list, pc, pc')
    <2>1. CASE f.code = "JA"
      <3>1. pc' = pc + 1 + f.k
        BY <2>1 DEF RunJump
      <3>2. Successors(prog, pc) = {pc + 1 + f.k}
        BY <2>1 DEF Successors, JmpCodes
      <3> QED BY <1>4, <1>5, <2>1, <3>1, <3>2 DEF Settled, JaSettled
    <2>2. CASE f.code \in JmpCodes
      <3>1. f.code # "JA"
        BY <2>2 DEF JmpCodes
      <3>2. pc' \in {pc + 1 + f.jt, pc + 1 + f.jf}
        BY <3>1 DEF RunJump
      <3>3. Successors(prog, pc) = {pc + 1 + f.jt, pc + 1 + f.jf}
        BY <2>2, <3>1 DEF Successors
      <3>4. JoinsCtx(list, pc, pc + 1 + f.jt) /\ JoinsCtx(list, pc, pc + 1 + f.jf)
        BY <1>5, <2>2 DEF Settled, JumpSettled
      <3> QED BY <1>4, <2>2, <3>2, <3>3, <3>4
    <2> QED BY <1>1, <2>1, <2>2
  <1>7. TypeInv'
    BY <1>1, <1>2, <1>3 DEF TypeInv
  <1>8. RenderedInv'
    BY <1>1, <1>2, <1>3 DEF RenderedInv
  <1>9. SettledInv'
    BY <1>1, <1>2, SameSettled DEF SettledInv
  <1>10. RunTypes'
    <2>1. \A cell \in Cells : Value(cell)' = Value(cell)
      BY <1>2 DEF Value
    <2>2. pc' \in 1 .. flen
      BY <1>3, <1>6
    <2> QED BY <1>1, <1>2, <1>3, <2>1, <2>2 DEF RunTypes
  <1>11. ArchInv'
    <2> SUFFICES ASSUME AllSetBeforeUse, ~blurred'
                 PROVE  \/ list[pc'].arch = MixedArch
                        \/ list[pc'].arch = data.arch
                        \/ list[pc'].arch = scmp_arch /\ ~tested'
      BY <1>1, <1>2, <1>3 DEF ArchInv
    <2>1. ~blurred
      BY DEF RunJump
    <2>2. \/ list[pc].arch = MixedArch
          \/ list[pc].arch = data.arch
          \/ list[pc].arch = scmp_arch /\ ~tested
      BY <1>1, <2>1 DEF ArchInv
    <2>3. CASE f.code \in JmpCodes
      BY <1>1, <2>2, <2>3, JumpArch
    <2>4. CASE f.code = "JA"
      <3>1. pc' = pc + 1 + f.k /\ (tested' <=> tested)
        BY <2>4 DEF RunJump, JmpCodes
      <3>2. JoinsArch(list[pc].arch, list[pc'].arch)
        BY <1>5, <2>4, <3>1 DEF Settled, JaSettled
      <3>3. list[pc].arch # NoArch
        BY <1>1, <2>2, WordFacts DEF RunTypes, NoArch, MixedArch
      <3> QED BY <2>2, <3>1, <3>2, <3>3 DEF JoinsArch
    <2> QED BY <1>1, <2>3, <2>4
  <1>12. PathInv'
    <2> SUFFICES ASSUME AllSetBeforeUse
                 PROVE  \E Q \in SUBSET DOMAIN prog' : CameBy(Q)'
      BY <1>3 DEF PathInv
    <2>1. PICK P \in SUBSET DOMAIN prog : CameBy(P)
      BY <1>1 DEF PathInv
    <2>2. Writes(f) = {}
      BY <1>1 DEF Writes, JmpCodes, AluCodes, Stores
    <2>3. ASSUME NEW cell \in Cells, \E d \in P : cell \in Writes(prog[d])
          PROVE  Sound(Stat(list[pc], cell), Value(cell)'.what)
      <3>1. \E d \in P \ {pc} : cell \in Writes(prog[d])
        BY <2>2, <2>3
      <3>2. Value(cell)' = Value(cell)
        BY <1>2 DEF Value
      <3> QED BY <2>1, <2>2, <3>1, <3>2 DEF CameBy, CellRight
    <2> QED BY <1>1, <1>2, <1>3, <1>6, <2>1, <2>3, RunGoesOn
  <1>13. ReadInv' /\ CheckInv' /\ IdleInv'
    BY <1>1 DEF ReadInv, CheckInv, IdleInv
  <1> QED BY <1>7, <1>8, <1>9, <1>10, <1>11, <1>12, <1>13 DEF Inv

LEMMA RunReturnInv ==
    ASSUME Inv, RunReturn
    PROVE  Inv'
  BY EndInv DEF RunReturn, checkVars, renderVars

LEMMA UnchangedInv ==
    ASSUME Inv, UNCHANGED vars
    PROVE  Inv'
  <1>1. /\ phase' = phase /\ prog' = prog /\ i' = i /\ masks' = masks /\ mem_valid' = mem_valid
        /\ fatal_count' = fatal_count /\ error_count' = error_count /\ list' = list /\ names' = names
        /\ data' = data /\ pc' = pc /\ A' = A /\ X' = X /\ M' = M
        /\ tested' = tested /\ blurred' = blurred
    BY DEF vars, checkVars, renderVars, runVars
  <1>2. /\ flen' = flen /\ Slots' = Slots /\ Ctx' = Ctx /\ Cells' = Cells
        /\ AllSetBeforeUse' <=> AllSetBeforeUse
        /\ \A c : Fine(c)' <=> Fine(c)
    BY <1>1, SameProg DEF Slots, Ctx, Stats, Cells, RegA, RegX
  <1>3. TypeInv' /\ ReadInv' /\ CheckInv' /\ RenderedInv' /\ IdleInv'
    BY <1>1, <1>2 DEF Inv, TypeInv, ReadInv, CheckInv, RenderedInv, IdleInv, Zero
  <1>4. SettledInv'
    BY <1>1, SameSettled DEF Inv, SettledInv
  <1>5. \A cell : Value(cell)' = Value(cell)
    BY <1>1 DEF Value
  <1>6. RunTypes'
    BY <1>1, <1>2, <1>5 DEF Inv, RunTypes
  <1>7. ArchInv'
    BY <1>1, <1>2 DEF Inv, ArchInv
  <1>8. \A P : CameBy(P)' <=> CameBy(P)
    BY <1>1, <1>2, <1>5 DEF CameBy, CellRight
  <1>9. PathInv'
    BY <1>1, <1>2, <1>8 DEF Inv, PathInv
  <1> QED BY <1>3, <1>4, <1>6, <1>7, <1>9 DEF Inv

LEMMA InitInv == Init => Inv
  <1> SUFFICES ASSUME Init PROVE Inv
    OBVIOUS
  <1>1. TypeInv
    BY WordFacts DEF Init, TypeInv, flen
  <1>2. IdleInv
    BY DEF Init, IdleInv
  <1>3. ReadInv
    BY DEF Init, ReadInv
  <1>4. CheckInv /\ RenderedInv /\ SettledInv /\ RunTypes /\ ArchInv /\ PathInv
    BY DEF Init, CheckInv, RenderedInv, SettledInv, RunTypes, ArchInv, PathInv
  <1> QED BY <1>1, <1>2, <1>3, <1>4 DEF Inv

\* The invariant holds for every filter: what render has settled about each
\* instruction, and how the run stands to it (render.c).
THEOREM InvCorrect == Spec => []Inv
  <1>1. Inv /\ [Next]_vars => Inv'
    <2> SUFFICES ASSUME Inv, [Next]_vars PROVE Inv'
      OBVIOUS
    <2>1. ASSUME NEW f \in Filters, read_filters(f) PROVE Inv'
      BY <2>1, ReadFiltersInv
    <2>2. CASE ReadEof
      BY <2>2, ReadEofInv
    <2>3. CASE check_filter
      BY <2>3, CheckFilterInv
    <2>4. CASE FinishCheck
      BY <2>4, FinishCheckInv
    <2>5. CASE RenderAssign
      BY <2>5, RenderAssignInv
    <2>6. CASE RenderJump
      BY <2>6, RenderJumpInv
    <2>7. CASE RenderReturn
      BY <2>7, RenderReturnInv
    <2>8. ASSUME NEW d \in Inputs, FinishRender(d) PROVE Inv'
      BY <2>8, FinishRenderInv
    <2>9. CASE RunAssign
      BY <2>9, RunAssignInv
    <2>10. CASE RunJump
      BY <2>10, RunJumpInv
    <2>11. CASE RunReturn
      BY <2>11, RunReturnInv
    <2>12. CASE Terminated \/ UNCHANGED vars
      BY <2>12, UnchangedInv DEF Terminated
    <2> QED BY <2>1, <2>2, <2>3, <2>4, <2>5, <2>6, <2>7, <2>8, <2>9, <2>10, <2>11, <2>12 DEF Next
  <1> QED BY <1>1, InitInv, PTL DEF Spec

\* check_prog and render keep their tables and counters in their ranges.
THEOREM TypeCorrect == Spec => []TypeOK
  <1>1. Inv => TypeOK
    BY DEF Inv, TypeInv, TypeOK, Ctx
  <1> QED BY <1>1, InvCorrect, PTL

\* render uses only entries of list and of mem_stat that exist, for every
\* filter that check_prog lets through or the kernel has accepted.
THEOREM RenderInBoundsCorrect == Spec => []RenderInBounds
  <1>1. Inv => RenderInBounds
    <2> SUFFICES ASSUME Inv, phase = "render", i <= flen
                 PROVE  RenderInBounds
      BY DEF RenderInBounds
    <2> DEFINE f == prog[i]
               s == decode_filter(f)
    <2>1. /\ i \in 1 .. flen /\ flen \in Nat /\ prog \in Seq(Filters) /\ Fine(i)
          /\ prog[flen].code = "RET" /\ DOMAIN list = 1 .. flen + 1
      BY DEF Inv, TypeInv, RenderedInv, flen
    <2>2. /\ f \in Filters /\ f.code \in ValidCodes
          /\ f.code = "JA" => i + 1 + f.k \in i + 1 .. flen
          /\ f.code \in JmpCodes =>
                i + 1 + f.jt \in i + 1 .. flen /\ i + 1 + f.jf \in i + 1 .. flen
          /\ f.code \in {"LD_MEM", "LDX_MEM", "ST", "STX"} => f.k \in Slots
          /\ f.code = "LD_ABS" => f.k < SECCOMP_DATA_SIZE /\ f.k % 4 = 0
      BY <2>1, Targets
    <2>3. f.k \in Nat /\ f.jt \in Nat /\ f.jf \in Nat
      BY <2>2, FilterFields
    <2>4. f.code = "LD_ABS" => f.k \in {4 * n : n \in 0 .. 15}
      <3> SUFFICES ASSUME f.code = "LD_ABS" PROVE \E n \in 0 .. 15 : f.k = 4 * n
        OBVIOUS
      <3>1. f.k \div 4 \in 0 .. 15 /\ f.k = 4 * (f.k \div 4)
        BY <2>2, <2>3 DEF SECCOMP_DATA_SIZE
      <3> QED BY <3>1
    <2>5. ASSUME s.type = "ASSIGN_LINE"
          PROVE  /\ i + 1 \in DOMAIN list
                 /\ \A o \in {s.left, s.right} : o.type = "MEM" => o.data \in Slots
      <3>1. IsAssign(f)
        BY <2>2, <2>3, <2>5, Kinds, JumpDecoded, JaDecoded, RetDecoded
      <3>2. s.left.type = "MEM" => s.left.data \in Slots
        <4>1. f.code \in Stores => f.k \in Slots
          BY <2>2 DEF Stores
        <4>2. \/ s.left = Obj("A", 0) \/ s.left = Obj("X", 0)
              \/ s.left = Obj("MEM", f.k) /\ f.code \in Stores
          BY <3>1, AssignDecoded
        <4> HIDE DEF s
        <4> QED BY <4>1, <4>2 DEF Obj
      <3>3. s.right.type = "MEM" => s.right.data \in Slots
        <4>1. CASE s.op = "EQUAL"
          <5>1. \/ s.right = Obj("A", 0) \/ s.right = Obj("X", 0)
                \/ s.right = Obj("MEM", f.k) /\ f.code \in {"LD_MEM", "LDX_MEM"}
                \/ s.right = Obj("ATTR_SYSCALL", 0) \/ s.right = Obj("ATTR_ARCH", 0)
                \/ s.right.type \notin {"A", "X", "MEM", "ATTR_SYSCALL", "ATTR_ARCH"}
            BY <2>3, <3>1, <4>1, RightDecoded
          <5> HIDE DEF s
          <5> QED BY <2>2, <5>1 DEF Obj
        <4>2. CASE f.code \in AluCodes
          <5>1. s = alu_line(f)
            BY <4>2 DEF decode_filter, Loads, Stores, AluCodes, JmpCodes
          <5>2. s.right.type # "MEM"
            BY <5>1 DEF alu_line, Assign, Obj
          <5> QED BY <5>2
        <4>3. f.code \in Loads \cup Stores \cup MiscCodes => s.op = "EQUAL"
          BY DEF decode_filter, ld_ldx_line, Loads, Stores, MiscCodes, AluCodes, JmpCodes, Assign
        <4> QED BY <3>1, <4>1, <4>2, <4>3 DEF IsAssign
      <3>4. i + 1 \in DOMAIN list
        BY <2>1
      <3> QED BY <3>2, <3>3, <3>4
    <2>6. ASSUME s.type = "JUMP_LINE"
          PROVE  i + s.jt + 1 \in 1 .. flen /\ (s.cond => i + s.jf + 1 \in 1 .. flen)
      <3>1. f.code = "JA" \/ f.code \in JmpCodes
        BY <2>2, <2>6, Kinds, AssignDecoded, RetDecoded
      <3>2. CASE f.code = "JA"
        <4>1. s.jt = f.k /\ ~s.cond
          BY <3>2, JaDecoded
        <4>2. i + 1 + f.k \in i + 1 .. flen
          BY <2>2, <3>2
        <4>3. i + f.k + 1 = i + 1 + f.k
          <5>1. i \in Nat /\ f.k \in Nat
            BY <2>1, <2>3
          <5> QED BY <5>1, Swap
        <4>5. i + 1 .. flen \subseteq 1 .. flen
          BY <2>1
        <4>4. i + s.jt + 1 \in 1 .. flen
          BY <4>1, <4>2, <4>3, <4>5
        <4> QED BY <4>1, <4>4
      <3>3. CASE f.code \in JmpCodes
        <4>1. (s.jt = f.jt /\ s.jf = f.jf) \/ (s.jt = f.jf /\ s.jf = f.jt)
          BY <2>3, <3>3, JumpDecoded
        <4>2. i + 1 + f.jt \in i + 1 .. flen /\ i + 1 + f.jf \in i + 1 .. flen
          BY <2>2, <3>3
        <4>3. i + f.jt + 1 = i + 1 + f.jt /\ i + f.jf + 1 = i + 1 + f.jf
          <5>1. i \in Nat /\ f.jt \in Nat /\ f.jf \in Nat
            BY <2>1, <2>3
          <5> QED BY <5>1, Swap
        <4>4. i + 1 .. flen \subseteq 1 .. flen
          BY <2>1
        <4>5. i + f.jt + 1 \in 1 .. flen /\ i + f.jf + 1 \in 1 .. flen
          BY <4>2, <4>3, <4>4
        <4> QED BY <4>1, <4>5
      <3> QED BY <3>1, <3>2, <3>3
    <2> QED BY <2>4, <2>5, <2>6 DEF RenderInBounds
  <1> QED BY <1>1, InvCorrect, PTL

\* A name that render puts for a number is right for every run that comes to
\* the condition, for every filter and whatever the kernel is asked, as long
\* as the filter asks for the arch in a way render follows.
THEOREM NamesRightCorrect == Spec => []NamesRight
  <1>1. Inv => NamesRight
    <2> SUFFICES ASSUME Inv, AtName, ~blurred
                 PROVE  NameFits
      BY DEF NamesRight
    <2> DEFINE f == prog[pc]
               s == decode_filter(f)
    <2>1. /\ phase = "run" /\ f.code \in JmpCodes /\ names[pc] # None /\ AllSetBeforeUse
          /\ pc \in 1 .. flen /\ i = flen + 1 /\ flen \in Nat
      BY DEF AtName, Inv, RunTypes, TypeInv, flen
    <2>2. names[pc] = Name(s, list[pc])
      BY <2>1 DEF Inv, SettledInv, Settled, JumpSettled
    <2>3. Sound(list[pc].A_stat, A.what)
      <3>1. PICK P \in SUBSET DOMAIN prog : CameBy(P)
        BY <2>1 DEF Inv, PathInv
      <3>2. RegA \in Reads(f) /\ RegA \notin Writes(f)
        BY <2>1 DEF Reads, Writes, JmpCodes, AluCodes, Stores
      <3>3. Sound(Stat(list[pc], RegA), Value(RegA).what)
        BY <2>1, <3>1, <3>2, ReadRight DEF Cells
      <3> QED BY <3>3 DEF Stat, Value
    <2>4. \/ list[pc].arch = MixedArch
          \/ list[pc].arch = data.arch
          \/ list[pc].arch = scmp_arch /\ ~tested
      BY <2>1 DEF Inv, ArchInv
    <2>5. CASE list[pc].A_stat = "ARCH" /\ s.obj.data \in Arches
      <3>1. names[pc] = [kind |-> "arch", arch |-> s.obj.data]
        BY <2>2, <2>5 DEF Name
      <3>2. A.what = "arch"
        BY <2>3, <2>5 DEF Sound
      <3> QED BY <3>1, <3>2 DEF NameFits
    <2>6. CASE list[pc].A_stat = "SYSNR" /\ list[pc].arch \in Arches /\ s.obj.data \in SysNrs
      <3>1. names[pc] = [kind |-> "syscall", arch |-> list[pc].arch]
        BY <2>2, <2>6 DEF Name
      <3>2. A.what = "sysnr"
        BY <2>3, <2>6 DEF Sound
      <3>3. list[pc].arch # MixedArch
        BY <2>6, WordFacts
      <3> QED BY <2>4, <3>1, <3>2, <3>3 DEF NameFits
    <2> QED BY <2>1, <2>2, <2>5, <2>6 DEF Name
  <1> QED BY <1>1, InvCorrect, PTL

-----------------------------------------------------------------------------
(***************************************************************************)
(* The decoder and the encoder, for all words.                             *)
(***************************************************************************)
\* What & asks for, whichever way it is written.
BothHave(a, b) == Compare([code |-> "JSET", src |-> "K", k |-> b], a, 0)

\* Instruction f branches by this comparison of a with right, ...
Asks(f, a, x, right) ==
    /\ f.code = "JEQ"  => (Compare(f, a, x) <=> a = right)
    /\ f.code = "JGT"  => (Compare(f, a, x) <=> a > right)
    /\ f.code = "JGE"  => (Compare(f, a, x) <=> a >= right)
    /\ f.code = "JSET" => (Compare(f, a, x) <=> BothHave(a, right))

LEMMA CompareSays ==
    ASSUME NEW f, NEW a, NEW x, f.code \in JmpCodes
    PROVE  Asks(f, a, x, IF f.src = "X" THEN x ELSE f.k)
  <1> DEFINE right == IF f.src = "X" THEN x ELSE f.k
  <1>1. f.code = "JEQ" => (Compare(f, a, x) <=> a = right)
    BY DEF Compare
  <1>2. f.code = "JGT" => (Compare(f, a, x) <=> a > right)
    BY DEF Compare
  <1>3. f.code = "JGE" => (Compare(f, a, x) <=> a >= right)
    BY DEF Compare
  <1>4. f.code = "JSET" => (Compare(f, a, x) <=> BothHave(a, right))
    BY DEF Compare, BothHave
  <1> HIDE DEF right
  <1>5. Asks(f, a, x, right)
    BY <1>1, <1>2, <1>3, <1>4 DEF Asks
  <1> QED BY <1>5 DEF right

\* ... and the condition of statement s holds by this one.
Says(s, a, x, right) ==
    /\ s.cmp = "EQUAL_EQUAL"   => (Holds(s, a, x) <=> (a = right <=> ~s.bang))
    /\ s.cmp = "BANG_EQUAL"    => (Holds(s, a, x) <=> (a # right <=> ~s.bang))
    /\ s.cmp = "GREATER_EQUAL" => (Holds(s, a, x) <=> (a >= right <=> ~s.bang))
    /\ s.cmp = "GREATER_THAN"  => (Holds(s, a, x) <=> (a > right <=> ~s.bang))
    /\ s.cmp = "LESS_EQUAL"    => (Holds(s, a, x) <=> (a <= right <=> ~s.bang))
    /\ s.cmp = "LESS_THAN"     => (Holds(s, a, x) <=> (a < right <=> ~s.bang))
    /\ s.cmp = "AND"           => (Holds(s, a, x) <=> (BothHave(a, right) <=> ~s.bang))

LEMMA HoldsSays ==
    ASSUME NEW s, NEW a, NEW x, s.bang \in BOOLEAN,
           NEW right, right = IF s.obj.type = "X" THEN x ELSE s.obj.data
    PROVE  Says(s, a, x, right)
  <1>1. s.cmp = "EQUAL_EQUAL" => (Holds(s, a, x) <=> (a = right <=> ~s.bang))
    BY DEF Holds
  <1>2. s.cmp = "BANG_EQUAL" => (Holds(s, a, x) <=> (a # right <=> ~s.bang))
    BY DEF Holds
  <1>3. s.cmp = "GREATER_EQUAL" => (Holds(s, a, x) <=> (a >= right <=> ~s.bang))
    BY DEF Holds
  <1>4. s.cmp = "GREATER_THAN" => (Holds(s, a, x) <=> (a > right <=> ~s.bang))
    BY DEF Holds
  <1>5. s.cmp = "LESS_EQUAL" => (Holds(s, a, x) <=> (a <= right <=> ~s.bang))
    BY DEF Holds
  <1>6. s.cmp = "LESS_THAN" => (Holds(s, a, x) <=> (a < right <=> ~s.bang))
    BY DEF Holds
  <1>7. s.cmp = "AND" => (Holds(s, a, x) <=> (BothHave(a, right) <=> ~s.bang))
    <2>1. BothHave(a, right) \in BOOLEAN
      BY DEF BothHave, Compare
    <2>2. s.cmp = "AND" => (Holds(s, a, x) <=> BothHave(a, right) # s.bang)
      BY DEF Holds, BothHave
    <2> QED BY <2>1, <2>2
  <1> QED BY <1>1, <1>2, <1>3, <1>4, <1>5, <1>6, <1>7 DEF Says

\* decoder.c turns a condition round only together with its branches.
LEMMA DecodedBranches ==
    ASSUME NEW f, f.code \in JmpCodes, f.src \in {"K", "X"},
           f.k \in Nat, f.jt \in Nat, f.jf \in Nat, NEW a \in Nat, NEW x \in Nat
    PROVE  LET s == decode_filter(f)
           IN  (IF Holds(s, a, x) THEN s.jt ELSE s.jf) = (IF Compare(f, a, x) THEN f.jt ELSE f.jf)
  <1> DEFINE s == decode_filter(f)
             right == IF f.src = "X" THEN x ELSE f.k
             turned == f.jt = 0 /\ f.jf # 0
  <1> SUFFICES (IF Holds(s, a, x) THEN s.jt ELSE s.jf) = (IF Compare(f, a, x) THEN f.jt ELSE f.jf)
    OBVIOUS
  <1>1. s = jump_line(f)
    BY DEF decode_filter, Loads, Stores, AluCodes, JmpCodes
  <1>2. f.code # "JA" /\ right \in Nat
    BY DEF JmpCodes
  <1>3. s.bang = (turned /\ f.code = "JSET")
    BY <1>1, <1>2 DEF jump_line
  <1>4. s.cmp = IF turned /\ f.code # "JSET" THEN reverse_table[f.code] ELSE comparator_table[f.code]
    BY <1>1, <1>2 DEF jump_line
  <1>5. /\ s.jt = IF turned THEN f.jf ELSE f.jt
        /\ s.jf = IF turned THEN f.jt ELSE f.jf
    BY <1>1, <1>2 DEF jump_line
  <1>6. right = IF s.obj.type = "X" THEN x ELSE s.obj.data
    BY <1>1, <1>2 DEF jump_line, Obj
  <1>7. s.bang \in BOOLEAN
    BY <1>3
  <1> HIDE DEF s, right
  <1>8. Says(s, a, x, right)
    BY <1>6, <1>7, HoldsSays
  <1>9. Asks(f, a, x, right)
    BY CompareSays DEF right
  <1>10. CASE ~turned
    <2>1. ~s.bang
      BY <1>3, <1>10
    <2>2. s.cmp = comparator_table[f.code] /\ s.jt = f.jt /\ s.jf = f.jf
      BY <1>4, <1>5, <1>10
    <2>3. Holds(s, a, x) <=> Compare(f, a, x)
      BY <1>2, <1>8, <1>9, <2>1, <2>2 DEF Says, Asks, JmpCodes, comparator_table
    <2> QED BY <2>2, <2>3
  <1>11. CASE turned
    <2>1. s.jt = f.jf /\ s.jf = f.jt
      BY <1>5, <1>11
    <2>2. CASE f.code = "JSET"
      <3>1. s.bang
        BY <1>3, <1>11, <2>2
      <3>2. s.cmp = "AND"
        BY <1>4, <2>2 DEF comparator_table
      <3>3. Holds(s, a, x) <=> ~Compare(f, a, x)
        BY <1>8, <1>9, <2>2, <3>1, <3>2 DEF Says, Asks
      <3> QED BY <2>1, <3>3
    <2>3. CASE f.code # "JSET"
      <3>1. ~s.bang
        BY <1>3, <2>3
      <3>2. s.cmp = reverse_table[f.code]
        BY <1>4, <1>11, <2>3
      <3>3. Holds(s, a, x) <=> ~Compare(f, a, x)
        BY <1>2, <1>8, <1>9, <2>3, <3>1, <3>2 DEF Says, Asks, JmpCodes, reverse_table
      <3> QED BY <2>1, <3>3
    <2> QED BY <2>2, <2>3
  <1> QED BY <1>10, <1>11

\* What disasm prints for a conditional jump branches as the instruction does,
\* for every k, $A and $X.
THEOREM DecodeKeepsBranchesCorrect == Spec => []DecodeKeepsBranches
  <1>1. DecodeKeepsBranches
    <2>1. ASSUME NEW f \in Jumps, NEW a \in Word, NEW x \in Word
          PROVE  LET s == decode_filter(f)
                 IN  (IF Holds(s, a, x) THEN s.jt ELSE s.jf)
                       = (IF Compare(f, a, x) THEN f.jt ELSE f.jf)
      <3>1. /\ f.code \in JmpCodes /\ f.src \in {"K", "X"} /\ f.k \in Word
            /\ f.jt \in 0 .. 2 /\ f.jf \in 0 .. 2
        BY DEF Jumps
      <3>2. f.k \in Nat /\ a \in Nat /\ x \in Nat
        BY <3>1, WordFacts
      <3>3. f.jt \in Nat /\ f.jf \in Nat
        BY <3>1
      <3> QED BY <3>1, <3>2, <3>3, DecodedBranches
    <2> QED BY <2>1, Zenon DEF DecodeKeepsBranches
  <1> QED BY <1>1, PTL

\* asm.c encodes a comparison by its opposite only together with the branches.
LEMMA EncodedBranches ==
    ASSUME NEW s \in Conditions, NEW a \in Nat, NEW x \in Nat
    PROVE  LET f == Encoder!asm_statement(s)
           IN  (IF Holds(s, a, x) THEN s.jt ELSE s.jf) = (IF Compare(f, a, x) THEN f.jt ELSE f.jf)
  <1> DEFINE f == Encoder!asm_statement(s)
             right == IF f.src = "X" THEN x ELSE f.k
             reversed == Encoder!sym_reverse(s.cmp) # s.bang
  <1> SUFFICES (IF Holds(s, a, x) THEN s.jt ELSE s.jf) = (IF Compare(f, a, x) THEN f.jt ELSE f.jf)
    OBVIOUS
  <1>1. s.type = "JUMP_LINE" /\ s.cond = TRUE /\ s.obj \in Operands
    BY DEF Conditions
  <1>2. s.cmp \in {"EQUAL_EQUAL", "BANG_EQUAL", "GREATER_EQUAL", "GREATER_THAN",
                   "LESS_EQUAL", "LESS_THAN", "AND"}
    BY DEF Conditions
  <1>3. s.bang \in BOOLEAN
    BY DEF Conditions
  <1>4. f = Encoder!jump_line(s)
    BY <1>1 DEF Encoder!asm_statement
  <1>5. /\ f.code = Encoder!comparator_table[s.cmp]
        /\ f.src = (IF s.obj.type = "X" THEN "X" ELSE "K")
        /\ f.k = (IF s.obj.type = "NUMBER" THEN s.obj.data ELSE 0)
    BY <1>1, <1>4 DEF Encoder!jump_line
  <1>6. f.jt = (IF reversed THEN s.jf ELSE s.jt) /\ f.jf = (IF reversed THEN s.jt ELSE s.jf)
    BY <1>1, <1>4 DEF Encoder!jump_line
  <1>7. \/ s.obj.type = "X"
        \/ s.obj.type = "NUMBER" /\ s.obj.data \in Word
    BY <1>1 DEF Operands, Obj
  <1>8. right = (IF s.obj.type = "X" THEN x ELSE s.obj.data) /\ right \in Nat
    BY <1>5, <1>7, WordFacts
  <1>9. f.code \in JmpCodes
    BY <1>2, <1>5 DEF JmpCodes, Encoder!comparator_table
  <1> HIDE DEF f, right
  <1>10. Says(s, a, x, right)
    BY <1>3, <1>8, HoldsSays
  <1>11. Asks(f, a, x, right)
    BY <1>9, CompareSays DEF right
  <1>12. reversed <=> (s.cmp \in {"BANG_EQUAL", "LESS_EQUAL", "LESS_THAN"} <=> ~s.bang)
    BY <1>3 DEF Encoder!sym_reverse
  <1>13. Holds(s, a, x) <=> (Compare(f, a, x) <=> ~reversed)
    BY <1>2, <1>5, <1>8, <1>10, <1>11, <1>12 DEF Says, Asks, Encoder!comparator_table
  <1> HIDE DEF reversed
  <1> QED BY <1>6, <1>13

\* asm.c puts the offset of a member where abs_table of decoder.c has it.
LEMMA OffsetOfAttr ==
    ASSUME NEW n \in 0 .. 15
    PROVE  /\ Encoder!offset_abs(AttrAt(4 * n)) = 4 * n
           /\ AttrAt(4 * n).type \notin {"A", "X", "MEM", "NUMBER", "ATTR_LEN"}
  <1> DEFINE arg == (4 * n - 16) \div 8
             offset_table == [ATTR_SYSCALL |-> 0, ATTR_ARCH |-> 4, ATTR_LOWPC |-> 8,
                              ATTR_HIGHPC |-> 12, ATTR_LOWARG |-> 16, ATTR_HIGHARG |-> 20]
  <1>1. CASE n = 0
    BY <1>1 DEF AttrAt, Obj, Encoder!offset_abs
  <1>2. CASE n = 1
    BY <1>2 DEF AttrAt, Obj, Encoder!offset_abs
  <1>3. CASE n = 2
    BY <1>3 DEF AttrAt, Obj, Encoder!offset_abs
  <1>4. CASE n = 3
    BY <1>4 DEF AttrAt, Obj, Encoder!offset_abs
  <1>5. CASE n > 3
    <2>1. n \in Nat /\ 4 * n \notin {0, 4, 8, 12}
      BY <1>5
    <2>2. CASE (4 * n) % 8 = 0
      <3>1. AttrAt(4 * n) = Obj("ATTR_LOWARG", arg)
        BY <2>1, <2>2 DEF AttrAt
      <3>2. 16 + 8 * arg = 4 * n
        BY <2>1, <2>2
      <3> HIDE DEF arg
      <3> QED BY <3>1, <3>2 DEF Obj, Encoder!offset_abs
    <2>3. CASE (4 * n) % 8 # 0
      <3>1. AttrAt(4 * n) = Obj("ATTR_HIGHARG", arg)
        BY <2>1, <2>3 DEF AttrAt
      <3>2. 20 + 8 * arg = 4 * n
        BY <2>1, <2>3
      <3> HIDE DEF arg
      <3> QED BY <3>1, <3>2 DEF Obj, Encoder!offset_abs
    <2> QED BY <2>2, <2>3
  <1> QED BY <1>1, <1>2, <1>3, <1>4, <1>5

\* An assignment to a register or a word, without an operator.
LEMMA EncodedMoves ==
    ASSUME NEW l, NEW r,
           \/ l = Obj("A", 0) /\ r \in Attrs \cup Words \cup Numbers \cup {Obj("X", 0)}
           \/ l = Obj("X", 0) /\ r \in {Obj("ATTR_LEN", 0), Obj("A", 0)} \cup Words \cup Numbers
           \/ l \in Words /\ r \in {Obj("A", 0), Obj("X", 0)}
    PROVE  LET s == Assign(l, "EQUAL", r) IN decode_filter(Encoder!asm_statement(s)) = s
  <1> DEFINE s == Assign(l, "EQUAL", r)
             f == Encoder!asm_statement(s)
  <1> SUFFICES decode_filter(f) = s
    OBVIOUS
  <1>1. /\ s.type = "ASSIGN_LINE" /\ s.op = "EQUAL" /\ s.left = l /\ s.right = r
    BY DEF Assign
  <1>2. f = Encoder!assign_line(s)
    BY <1>1 DEF Encoder!asm_statement
  <1> HIDE DEF f
  <1>3. s.op \notin DOMAIN Encoder!operator_table
    BY <1>1 DEF Encoder!operator_table
  <1>4. CASE l = Obj("A", 0)
    <2>1. f = Encoder!ld_line(s)
      BY <1>1, <1>2, <1>3, <1>4 DEF Encoder!assign_line, Obj
    <2>2. ASSUME NEW n \in 0 .. 15, r = AttrAt(4 * n)
          PROVE  decode_filter(f) = s
      <3>1. /\ r.type \notin {"A", "X", "MEM", "NUMBER", "ATTR_LEN"}
            /\ Encoder!offset_abs(r) = 4 * n
        BY <2>2, OffsetOfAttr
      <3>2. f = Encoder!Filter("LD_ABS", "K", 4 * n)
        BY <1>1, <2>1, <3>1 DEF Encoder!ld_line
      <3>3. f.code = "LD_ABS" /\ f.k = 4 * n
        BY <3>2 DEF Encoder!Filter
      <3>4. decode_filter(f) = ld_ldx_line(f)
        BY <3>3 DEF decode_filter, Loads, Stores, AluCodes, JmpCodes
      <3>5. ld_ldx_line(f) = Assign(Obj("A", 0), "EQUAL", AttrAt(4 * n))
        BY <3>3 DEF ld_ldx_line
      <3> QED BY <1>4, <2>2, <3>4, <3>5
    <2>3. ASSUME r \in Words \cup Numbers \cup {Obj("X", 0), Obj("ATTR_LEN", 0)}
          PROVE  decode_filter(f) = s
      <3>1. CASE r.type = "X"
        <4>1. f.code = "TXA" /\ r = Obj("X", 0)
          BY <1>1, <2>1, <2>3, <3>1 DEF Encoder!ld_line, Encoder!Filter, Words, Numbers, Obj
        <4> QED BY <1>4, <4>1 DEF decode_filter, Loads, Stores, AluCodes, JmpCodes
      <3>2. CASE r.type = "ATTR_LEN"
        <4>1. f.code = "LD_LEN" /\ r = Obj("ATTR_LEN", 0)
          BY <1>1, <2>1, <2>3, <3>2 DEF Encoder!ld_line, Encoder!Filter, Words, Numbers, Obj
        <4> QED BY <1>4, <4>1 DEF decode_filter, ld_ldx_line, Loads, Stores, AluCodes, JmpCodes
      <3>3. CASE r.type = "NUMBER"
        <4>1. f.code = "LD_IMM" /\ r = Obj("NUMBER", f.k)
          BY <1>1, <2>1, <2>3, <3>3 DEF Encoder!ld_line, Encoder!Filter, Words, Numbers, Obj
        <4> QED BY <1>4, <4>1 DEF decode_filter, ld_ldx_line, Loads, Stores, AluCodes, JmpCodes
      <3>4. CASE r.type = "MEM"
        <4>1. f.code = "LD_MEM" /\ r = Obj("MEM", f.k)
          BY <1>1, <2>1, <2>3, <3>4 DEF Encoder!ld_line, Encoder!Filter, Words, Numbers, Obj
        <4> QED BY <1>4, <4>1 DEF decode_filter, ld_ldx_line, Loads, Stores, AluCodes, JmpCodes
      <3> QED BY <2>3, <3>1, <3>2, <3>3, <3>4 DEF Words, Numbers, Obj
    <2>4. r \in Attrs \cup Words \cup Numbers \cup {Obj("X", 0)}
      BY <1>4 DEF Words, Obj
    <2> QED BY <2>2, <2>3, <2>4 DEF Attrs
  <1>5. CASE l = Obj("X", 0)
    <2>1. f = Encoder!ldx_line(s)
      BY <1>1, <1>2, <1>3, <1>5 DEF Encoder!assign_line, Obj
    <2>2. r \in {Obj("ATTR_LEN", 0), Obj("A", 0)} \cup Words \cup Numbers
      BY <1>5 DEF Words, Obj
    <2>3. CASE r.type = "A"
      <3>1. f.code = "TAX" /\ r = Obj("A", 0)
        BY <1>1, <2>1, <2>2, <2>3 DEF Encoder!ldx_line, Encoder!Filter, Words, Numbers, Obj
      <3> QED BY <1>5, <3>1 DEF decode_filter, Loads, Stores, AluCodes, JmpCodes
    <2>4. CASE r.type = "ATTR_LEN"
      <3>1. f.code = "LDX_LEN" /\ r = Obj("ATTR_LEN", 0)
        BY <1>1, <2>1, <2>2, <2>4 DEF Encoder!ldx_line, Encoder!Filter, Words, Numbers, Obj
      <3> QED BY <1>5, <3>1 DEF decode_filter, ld_ldx_line, Loads, Stores, AluCodes, JmpCodes
    <2>5. CASE r.type = "NUMBER"
      <3>1. f.code = "LDX_IMM" /\ r = Obj("NUMBER", f.k)
        BY <1>1, <2>1, <2>2, <2>5 DEF Encoder!ldx_line, Encoder!Filter, Words, Numbers, Obj
      <3> QED BY <1>5, <3>1 DEF decode_filter, ld_ldx_line, Loads, Stores, AluCodes, JmpCodes
    <2>6. CASE r.type = "MEM"
      <3>1. f.code = "LDX_MEM" /\ r = Obj("MEM", f.k)
        BY <1>1, <2>1, <2>2, <2>6 DEF Encoder!ldx_line, Encoder!Filter, Words, Numbers, Obj
      <3> QED BY <1>5, <3>1 DEF decode_filter, ld_ldx_line, Loads, Stores, AluCodes, JmpCodes
    <2> QED BY <2>2, <2>3, <2>4, <2>5, <2>6 DEF Words, Numbers, Obj
  <1>6. CASE l \in Words /\ r \in {Obj("A", 0), Obj("X", 0)}
    <2>1. f = Encoder!st_stx_line(s)
      BY <1>1, <1>2, <1>3, <1>6 DEF Encoder!assign_line, Words, Obj
    <2>2. f.code = (IF r.type = "A" THEN "ST" ELSE "STX") /\ l = Obj("MEM", f.k)
      BY <1>1, <1>6, <2>1 DEF Encoder!st_stx_line, Encoder!Filter, Words, Obj
    <2>3. r = Obj(IF f.code = "ST" THEN "A" ELSE "X", 0)
      BY <1>6, <2>2 DEF Obj
    <2> QED BY <2>2, <2>3 DEF decode_filter, Loads, Stores, AluCodes, JmpCodes
  <1> QED BY <1>4, <1>5, <1>6

\* An assignment with an operator.
LEMMA EncodedAlu ==
    ASSUME NEW op \in AluCodes \ {"NEG"}, NEW r \in Operands
    PROVE  LET s == Assign(Obj("A", 0), operator_table[op], r)
           IN  decode_filter(Encoder!asm_statement(s)) = s
  <1> DEFINE s == Assign(Obj("A", 0), operator_table[op], r)
             f == Encoder!asm_statement(s)
  <1> SUFFICES decode_filter(f) = s
    OBVIOUS
  <1>1. s.type = "ASSIGN_LINE" /\ s.op = operator_table[op] /\ s.right = r
    BY DEF Assign
  <1>2. /\ operator_table[op] \in DOMAIN Encoder!operator_table
        /\ operator_table[op] \notin {"NEGATIVE", "EQUAL"}
    BY DEF operator_table, Encoder!operator_table, AluCodes
  <1>3. Encoder!operator_table[operator_table[op]] = op
    BY DEF operator_table, Encoder!operator_table, AluCodes
  <1>4. f = Encoder!alu_line(s)
    BY <1>1, <1>2 DEF Encoder!asm_statement, Encoder!assign_line
  <1> HIDE DEF f
  <1>5. \/ r = Obj("X", 0)
        \/ r.type = "NUMBER" /\ r = Obj("NUMBER", r.data)
    BY DEF Operands, Obj
  <1>6. f.code = op
    BY <1>1, <1>3, <1>4 DEF Encoder!alu_line, Encoder!Filter
  <1>7. decode_filter(f) = alu_line(f)
    BY <1>6 DEF decode_filter, Loads, Stores, AluCodes, JmpCodes
  <1>8. CASE r = Obj("X", 0)
    <2>1. f.src = "X"
      BY <1>1, <1>4, <1>8 DEF Encoder!alu_line, Encoder!Filter, Obj
    <2> QED BY <1>6, <1>7, <1>8, <2>1 DEF alu_line
  <1>9. CASE r.type = "NUMBER" /\ r = Obj("NUMBER", r.data)
    <2>1. f.src = "K" /\ f.k = r.data
      BY <1>1, <1>4, <1>9 DEF Encoder!alu_line, Encoder!Filter
    <2>2. alu_line(f) = Assign(Obj("A", 0), operator_table[op], Obj("NUMBER", r.data))
      BY <1>6, <2>1 DEF alu_line
    <2> QED BY <1>7, <1>9, <2>2
  <1> QED BY <1>5, <1>8, <1>9

LEMMA EncodedNeg ==
    LET s == Assign(Obj("A", 0), "NEGATIVE", Obj("A", 0))
    IN  decode_filter(Encoder!asm_statement(s)) = s
  <1> DEFINE s == Assign(Obj("A", 0), "NEGATIVE", Obj("A", 0))
             f == Encoder!asm_statement(s)
  <1>1. s.type = "ASSIGN_LINE" /\ s.op = "NEGATIVE"
    BY DEF Assign
  <1>2. s.op \notin DOMAIN Encoder!operator_table
    BY <1>1 DEF Encoder!operator_table
  <1>3. f = Encoder!negative_line
    BY <1>1, <1>2 DEF Encoder!asm_statement, Encoder!assign_line
  <1>4. f.code = "NEG" /\ f.src = "K"
    BY <1>3 DEF Encoder!negative_line, Encoder!Filter
  <1> HIDE DEF f
  <1>5. decode_filter(f) = alu_line(f)
    BY <1>4 DEF decode_filter, Loads, Stores, AluCodes, JmpCodes
  <1>6. alu_line(f) = s
    BY <1>4 DEF alu_line, operator_table
  <1> QED BY <1>5, <1>6 DEF f

\* asm encodes every statement to an instruction that does what the statement
\* says, for every number in it and all that $A and $X may hold.
THEOREM AsmKeepsMeaningCorrect == Spec => []AsmKeepsMeaning
  <1>1. ASSUME NEW s \in Conditions, NEW a \in Word, NEW x \in Word
        PROVE  LET f == Encoder!asm_statement(s)
               IN  (IF Holds(s, a, x) THEN s.jt ELSE s.jf)
                     = (IF Compare(f, a, x) THEN f.jt ELSE f.jf)
    <2>1. a \in Nat /\ x \in Nat
      BY WordFacts
    <2> QED BY <2>1, EncodedBranches
  <1>2. ASSUME NEW s \in Assignments
        PROVE  decode_filter(Encoder!asm_statement(s)) = s
    <2>1. \/ \E r \in Attrs \cup Words \cup Numbers \cup {Obj("X", 0)} :
                s = Assign(Obj("A", 0), "EQUAL", r)
          \/ \E r \in {Obj("ATTR_LEN", 0), Obj("A", 0)} \cup Words \cup Numbers :
                s = Assign(Obj("X", 0), "EQUAL", r)
          \/ \E l \in Words, r \in {Obj("A", 0), Obj("X", 0)} : s = Assign(l, "EQUAL", r)
          \/ \E op \in AluCodes \ {"NEG"}, r \in Operands :
                s = Assign(Obj("A", 0), operator_table[op], r)
          \/ s = Assign(Obj("A", 0), "NEGATIVE", Obj("A", 0))
      BY DEF Assignments
    <2> QED BY <2>1, EncodedMoves, EncodedAlu, EncodedNeg
  <1>3. AsmKeepsMeaning
    BY <1>1, <1>2, Zenon DEF AsmKeepsMeaning
  <1> QED BY <1>3, PTL

\* The macros of c_macro_handle for a return.
LEMMA MacroReturn ==
    ASSUME NEW k \in PlainReturns
    PROVE  Encoder!CMacroReturn(k) = k
  <1> DEFINE d == 2^DataBits
             dataless == {v \in DOMAIN ActionNr \ {"TRACE", "TRAP", "ERRNO"} :
                            Encoder!retvals(v) = k}
             dataful == {v \in DOMAIN ActionNr \cap {"TRACE", "TRAP", "ERRNO"} :
                            ActionNr[v] = (k \div d) % TopAction}
  <1>1. k \in Nat /\ d \in Nat \ {0} /\ TopAction \in Nat \ {0}
    BY WordFacts, ActionAssumption DEF PlainReturns
  <1>2. CASE dataless # {}
    <2>1. PICK v \in dataless : v = CHOOSE w \in dataless : TRUE
      BY <1>2
    <2>2. Encoder!retvals(v) = k
      OBVIOUS
    <2>3. Encoder!CMacroReturn(k) = Encoder!retvals(CHOOSE w \in dataless : TRUE)
      BY <1>2 DEF Encoder!CMacroReturn
    <2> QED BY <2>1, <2>2, <2>3
  <1>3. CASE dataless = {} /\ dataful # {}
    <2>1. PICK v \in dataful : v = CHOOSE w \in dataful : TRUE
      BY <1>3
    <2>2. k # Encoder!retvals("KILL_PROC")
      BY <1>3, ActionAssumption
    <2>3. k \div d < TopAction /\ k \div d \in Nat
      <3>1. k \div d < TopAction
        BY <2>2 DEF PlainReturns
      <3>2. k \div d \in Nat
        BY <1>1
      <3> QED BY <3>1, <3>2
    <2>4. ActionNr[v] = k \div d
      <3> HIDE DEF d
      <3> QED BY <1>1, <2>3
    <2>5. k = (k \div d) * d + (k % d)
      <3> HIDE DEF d
      <3> QED BY <1>1
    <2>6. Encoder!retvals(v) + Encoder!DataOf(k) = k
      BY <2>4, <2>5 DEF Encoder!retvals, Encoder!DataOf
    <2>7. Encoder!CMacroReturn(k) = Encoder!retvals(CHOOSE w \in dataful : TRUE) + Encoder!DataOf(k)
      BY <1>3 DEF Encoder!CMacroReturn
    <2> QED BY <2>1, <2>6, <2>7
  <1>4. CASE dataless = {} /\ dataful = {}
    BY <1>4 DEF Encoder!CMacroReturn
  <1> QED BY <1>2, <1>3, <1>4

\* ... and for a load.
LEMMA MacroAbs ==
    ASSUME NEW n \in 0 .. 15
    PROVE  Encoder!CMacroAbs(4 * n) = 4 * n
  <1>1. (4 * n) \div 4 = n
    OBVIOUS
  <1>2. CASE n \in {0, 1, 2, 3}
    BY <1>1, <1>2 DEF Encoder!CMacroAbs
  <1>3. CASE n > 3 /\ n % 2 = 0
    <2>1. 16 + 8 * ((n - 4) \div 2) = 4 * n
      BY <1>3
    <2> QED BY <1>1, <1>3, <2>1 DEF Encoder!CMacroAbs
  <1>4. CASE n > 3 /\ n % 2 = 1
    <2>1. 16 + 8 * ((n - 4) \div 2) + 4 = 4 * n
      BY <1>4
    <2> QED BY <1>1, <1>4, <2>1 DEF Encoder!CMacroAbs
  <1> QED BY <1>2, <1>3, <1>4

\* The c-macro format prints macros that stand for the instruction's own k, for
\* every return value whatever the numbers of the actions.
THEOREM CMacroSameCorrect == Spec => []CMacroSame
  <1>1. ASSUME NEW n \in 0 .. 15
        PROVE  LET f == Encoder!Filter("LD_ABS", "K", 4 * n) IN Encoder!c_macro_handle(f) = f.k
    BY MacroAbs DEF Encoder!c_macro_handle, Encoder!Filter
  <1>2. ASSUME NEW k \in PlainReturns
        PROVE  LET f == Encoder!Filter("RET", "K", k) IN Encoder!c_macro_handle(f) = f.k
    BY MacroReturn DEF Encoder!c_macro_handle, Encoder!Filter
  <1>3. CMacroSame
    BY <1>1, <1>2, Zenon DEF CMacroSame
  <1> QED BY <1>3, PTL

-----------------------------------------------------------------------------
(***************************************************************************)
(* From an instruction to its text and back.                               *)
(***************************************************************************)
\* An object is read as it was printed.
LEMMA ObjectRead ==
    ASSUME NEW type, NEW d \in Nat, type \notin Text!WithNumber => d = 0
    PROVE  Text!read_obj(Text!obj_printer(Obj(type, d))) = Obj(type, d)
  BY NamesAssumption DEF Text!read_obj, Text!obj_printer, Obj

\* A name is read as the number it was put for, on its arch.
LEMMA NameRead ==
    ASSUME NEW k, NEW name,
           \/ name = [kind |-> "arch", arch |-> k]
           \/ \E arch \in Arches : name = [kind |-> "syscall", arch |-> arch] /\ k \in SysNrs,
           name # None
    PROVE  Text!compare_obj(Text!print_cmpobj(Obj("NUMBER", k), name)) = Obj("NUMBER", k)
  <1>1. CASE name = [kind |-> "arch", arch |-> k]
    <2>1. Text!print_cmpobj(Obj("NUMBER", k), name) = [token |-> "ARCH", literal |-> name]
      BY <1>1 DEF Text!print_cmpobj
    <2> QED BY <1>1, <2>1 DEF Text!compare_obj, Obj
  <1>2. ASSUME NEW arch \in Arches, name = [kind |-> "syscall", arch |-> arch], k \in SysNrs
        PROVE  Text!compare_obj(Text!print_cmpobj(Obj("NUMBER", k), name)) = Obj("NUMBER", k)
    <2> DEFINE lit == Text!Literal(arch, k)
               t == [token |-> "IDENTIFIER", literal |-> lit]
    <2>1. Text!print_cmpobj(Obj("NUMBER", k), name) = t
      BY <1>2 DEF Text!print_cmpobj, Obj
    <2>2. (IF lit.prefix = None THEN scmp_arch ELSE lit.prefix) = arch
      BY WordFacts, NamesAssumption DEF Text!Literal
    <2>3. lit.name = SysName[arch][k]
      BY DEF Text!Literal, Text!resolve_num_arch
    <2>4. Text!resolve_name_arch(arch, lit.name) = k
      BY <1>2, <2>3, NamesAssumption DEF Text!resolve_name_arch, Text!resolve_num_arch
    <2>5. Text!compare_obj(t) = [type |-> "NUMBER", data |-> Text!resolve_name_arch(arch, lit.name)]
      BY <2>2 DEF Text!compare_obj
    <2> QED BY <2>1, <2>4, <2>5 DEF Obj
  <1> QED BY <1>1, <1>2

\* Line c of the text, read again.
ReadAgain(f, c, name) == Text!read_statement(Text!print_statement(decode_filter(f), c, name), c)

\* print_label and set_jt_jf.
LEMMA LabelRead ==
    ASSUME NEW c \in Nat \ {0}, NEW d \in Nat
    PROVE  /\ Text!set_jt_jf(Text!print_label(d, c), c) = d
           /\ Text!set_jt_jf(Text!NoLabel, c) = 0
  BY DEF Text!set_jt_jf, Text!print_label, Text!NoLabel

\* A jump without a condition goes as far as before.
LEMMA JaRead ==
    ASSUME NEW f, f.code = "JA", f.k \in Nat, NEW c \in Nat \ {0}, NEW name
    PROVE  Meaning(Encoder!asm_statement(ReadAgain(f, c, name))) = Meaning(f)
  <1> DEFINE s == decode_filter(f)
             line == Text!print_statement(s, c, name)
             r == ReadAgain(f, c, name)
  <1>1. s = jump_line(f)
    BY DEF decode_filter, Loads, Stores, AluCodes, JmpCodes
  <1>2. s.type = "JUMP_LINE" /\ ~s.cond /\ s.jt = f.k
    BY JaDecoded
  <1>3. DOMAIN s = {"type", "cond", "bang", "cmp", "obj", "jt", "jf"}
    BY <1>1 DEF jump_line
  <1> HIDE DEF s
  <1>4. /\ line.type = "JUMP_LINE" /\ line.cond = s.cond
        /\ line.jt = Text!print_label(f.k, c)
        /\ DOMAIN line = DOMAIN s
    BY <1>2, <1>3 DEF Text!print_statement
  <1> HIDE DEF line
  <1>5. r = Text!read_statement(line, c)
    BY DEF ReadAgain, line, s
  <1>6. r.type = "JUMP_LINE" /\ r.cond = s.cond /\ r.jt = Text!set_jt_jf(line.jt, c)
    BY <1>3, <1>4, <1>5 DEF Text!read_statement
  <1> HIDE DEF r
  <1>7. r.jt = f.k
    BY <1>4, <1>6, LabelRead
  <1>8. Encoder!asm_statement(r) = Encoder!Filter("JA", "K", f.k)
    BY <1>2, <1>6, <1>7 DEF Encoder!asm_statement, Encoder!jump_line
  <1>9. Meaning(Encoder!Filter("JA", "K", f.k)) = <<"JA", f.k>>
    BY DEF Meaning, Encoder!Filter, JmpCodes, AluCodes
  <1>10. Meaning(f) = <<"JA", f.k>>
    BY DEF Meaning, JmpCodes, AluCodes
  <1> QED BY <1>8, <1>9, <1>10 DEF r

\* A condition is assembled to the instruction it came from.
LEMMA JumpRead ==
    ASSUME NEW f, f.code \in JmpCodes, f.src \in {"K", "X"},
           f.k \in Nat, f.jt \in Nat, f.jf \in Nat,
           NEW c \in Nat \ {0}, NEW name, name # None => f.src = "K",
           \/ name = None
           \/ name = [kind |-> "arch", arch |-> f.k]
           \/ \E arch \in Arches : name = [kind |-> "syscall", arch |-> arch] /\ f.k \in SysNrs
    PROVE  Meaning(Encoder!asm_statement(ReadAgain(f, c, name))) = Meaning(f)
  <1> DEFINE s == decode_filter(f)
             line == Text!print_statement(s, c, name)
             r == ReadAgain(f, c, name)
             turned == f.jt = 0 /\ f.jf # 0
  <1>1. s = jump_line(f)
    BY DEF decode_filter, Loads, Stores, AluCodes, JmpCodes
  <1>2. f.code # "JA"
    BY DEF JmpCodes
  <1>3. s.type = "JUMP_LINE" /\ s.cond
    BY JumpDecoded
  <1>4. DOMAIN s = {"type", "cond", "bang", "cmp", "obj", "jt", "jf"}
    BY <1>1 DEF jump_line
  <1>5. s.bang = (turned /\ f.code = "JSET")
    BY <1>1, <1>2 DEF jump_line
  <1>6. s.cmp = IF turned /\ f.code # "JSET" THEN reverse_table[f.code] ELSE comparator_table[f.code]
    BY <1>1, <1>2 DEF jump_line
  <1>7. /\ s.jt = IF turned THEN f.jf ELSE f.jt
        /\ s.jf = IF turned THEN f.jt ELSE f.jf
    BY <1>1, <1>2 DEF jump_line
  <1>8. s.obj = IF f.src = "K" THEN Obj("NUMBER", f.k) ELSE Obj("X", 0)
    BY <1>1, <1>2 DEF jump_line
  <1> HIDE DEF s
  <1>9. /\ line.type = "JUMP_LINE" /\ line.cond = s.cond /\ line.bang = s.bang /\ line.cmp = s.cmp
        /\ line.obj = Text!print_cmpobj(s.obj, name)
        /\ line.jt = Text!print_label(s.jt, c)
        /\ line.jf = IF s.jf = 0 THEN Text!NoLabel ELSE Text!print_label(s.jf, c)
        /\ DOMAIN line = DOMAIN s
    BY <1>3, <1>4 DEF Text!print_statement
  <1> HIDE DEF line
  <1>10. r = Text!read_statement(line, c)
    BY DEF ReadAgain, line, s
  <1>11. /\ r.type = "JUMP_LINE" /\ r.cond = s.cond /\ r.bang = s.bang /\ r.cmp = s.cmp
         /\ r.obj = Text!compare_obj(line.obj)
         /\ r.jt = Text!set_jt_jf(line.jt, c) /\ r.jf = Text!set_jt_jf(line.jf, c)
    BY <1>4, <1>9, <1>10 DEF Text!read_statement
  <1> HIDE DEF r
  <1>12. s.jt \in Nat /\ s.jf \in Nat
    BY <1>7
  <1>13. r.jt = s.jt /\ r.jf = s.jf
    BY <1>9, <1>11, <1>12, LabelRead
  <1>14. r.obj = s.obj
    <2>1. CASE name = None
      <3>1. line.obj = Text!obj_printer(s.obj)
        BY <1>9, <2>1 DEF Text!print_cmpobj
      <3>2. line.obj.token \in {"NUMBER", "X"}
        BY <1>8, <3>1 DEF Text!obj_printer, Obj
      <3>3. r.obj = Text!read_obj(line.obj)
        BY <1>11, <3>2 DEF Text!compare_obj
      <3>4. Text!read_obj(Text!obj_printer(Obj("NUMBER", f.k))) = Obj("NUMBER", f.k)
        BY ObjectRead DEF Text!WithNumber
      <3>5. Text!read_obj(Text!obj_printer(Obj("X", 0))) = Obj("X", 0)
        BY ObjectRead
      <3> QED BY <1>8, <3>1, <3>3, <3>4, <3>5
    <2>2. CASE name # None
      BY <1>8, <1>9, <1>11, <2>2, NameRead
    <2> QED BY <2>1, <2>2
  <1> DEFINE g == Encoder!asm_statement(r)
             reversed == Encoder!sym_reverse(r.cmp) # r.bang
  <1>15. g = Encoder!jump_line(r)
    BY <1>11 DEF Encoder!asm_statement
  <1>16. /\ g.code = Encoder!comparator_table[r.cmp]
         /\ g.src = (IF r.obj.type = "X" THEN "X" ELSE "K")
         /\ g.k = (IF r.obj.type = "NUMBER" THEN r.obj.data ELSE 0)
         /\ g.jt = (IF reversed THEN r.jf ELSE r.jt)
         /\ g.jf = (IF reversed THEN r.jt ELSE r.jf)
    BY <1>3, <1>11, <1>15 DEF Encoder!jump_line
  <1> HIDE DEF g
  <1>17. g.code = f.code
    BY <1>6, <1>11, <1>16
       DEF JmpCodes, comparator_table, reverse_table, Encoder!comparator_table
  <1>18. reversed <=> turned
    <2>1. CASE turned /\ f.code # "JSET"
      <3>1. r.cmp \in {"BANG_EQUAL", "LESS_EQUAL", "LESS_THAN"}
        BY <1>6, <1>11, <2>1 DEF JmpCodes, reverse_table
      <3>2. r.bang = FALSE
        BY <1>5, <1>11, <2>1
      <3> QED BY <2>1, <3>1, <3>2 DEF Encoder!sym_reverse
    <2>2. CASE ~(turned /\ f.code # "JSET")
      <3>1. r.cmp \notin {"BANG_EQUAL", "LESS_EQUAL", "LESS_THAN"}
        BY <1>6, <1>11, <2>2 DEF JmpCodes, comparator_table
      <3>2. r.bang = turned
        BY <1>5, <1>11, <2>2
      <3> QED BY <3>1, <3>2 DEF Encoder!sym_reverse
    <2> QED BY <2>1, <2>2
  <1> HIDE DEF reversed
  <1>19. g.jt = f.jt /\ g.jf = f.jf
    BY <1>7, <1>13, <1>16, <1>18
  <1>20. g.src = f.src /\ (f.src = "K" => g.k = f.k)
    BY <1>8, <1>14, <1>16 DEF Obj
  <1>21. Meaning(g) = <<g.code, g.src, IF g.src = "X" THEN 0 ELSE g.k, g.jt, g.jf>>
    BY <1>17 DEF Meaning, JmpCodes, AluCodes
  <1>22. Meaning(f) = <<f.code, f.src, IF f.src = "X" THEN 0 ELSE f.k, f.jt, f.jf>>
    BY DEF Meaning, JmpCodes, AluCodes
  <1>23. Meaning(g) = Meaning(f)
    BY <1>17, <1>19, <1>20, <1>21, <1>22
  <1> QED BY <1>23 DEF g, r

\* An assignment is read as it was printed.
LEMMA AssignReadAgain ==
    ASSUME NEW f, NEW c, NEW name, NEW op, NEW tl, NEW dl \in Nat, NEW tr, NEW dr \in Nat,
           decode_filter(f) = Assign(Obj(tl, dl), op, Obj(tr, dr)),
           tl \notin Text!WithNumber => dl = 0, tr \notin Text!WithNumber => dr = 0
    PROVE  ReadAgain(f, c, name) = decode_filter(f)
  <1> DEFINE s == decode_filter(f)
             line == Text!print_statement(s, c, name)
  <1>1. /\ s.type = "ASSIGN_LINE" /\ s.left = Obj(tl, dl) /\ s.right = Obj(tr, dr)
        /\ s.op = op
    BY DEF Assign
  <1>2. s = [type |-> s.type, left |-> s.left, op |-> s.op, right |-> s.right]
    BY <1>1 DEF Assign
  <1> HIDE DEF s
  <1>3. line = [type |-> "ASSIGN_LINE", left |-> Text!obj_printer(s.left), op |-> s.op,
                right |-> Text!obj_printer(s.right)]
    BY <1>1, <1>2 DEF Text!print_statement
  <1> HIDE DEF line
  <1>4. Text!read_statement(line, c)
          = [type |-> "ASSIGN_LINE", left |-> Text!read_obj(line.left), op |-> line.op,
             right |-> Text!read_obj(line.right)]
    BY <1>3 DEF Text!read_statement
  <1>5. Text!read_obj(line.left) = s.left /\ Text!read_obj(line.right) = s.right
    BY <1>1, <1>3, ObjectRead
  <1>6. Text!read_statement(line, c) = s
    BY <1>1, <1>2, <1>3, <1>4, <1>5
  <1> QED BY <1>6 DEF ReadAgain, line, s

\* A load, a store or a copy is assembled to the instruction it came from.
LEMMA MoveRead ==
    ASSUME NEW f, f.code \in Loads \cup Stores \cup MiscCodes, f.k \in Nat,
           f.code = "LD_ABS" => f.k \in {4 * n : n \in 0 .. 15},
           NEW c, NEW name
    PROVE  Meaning(Encoder!asm_statement(ReadAgain(f, c, name))) = Meaning(f)
  <1> DEFINE s == decode_filter(f)
             g == Encoder!asm_statement(s)
  <1>1. CASE f.code = "LD_ABS"
    <2>1. PICK n \in 0 .. 15 : f.k = 4 * n
      BY <1>1
    <2>2. s = Assign(Obj("A", 0), "EQUAL", AttrAt(4 * n))
      BY <1>1, <2>1 DEF decode_filter, ld_ldx_line, Loads, Stores, AluCodes, JmpCodes
    <2>3. \E tr, dr : /\ AttrAt(4 * n) = Obj(tr, dr) /\ dr \in Nat
                      /\ tr \notin Text!WithNumber => dr = 0
      <3>1. CASE n \in {0, 1, 2, 3}
        <4>1. \E tr : AttrAt(4 * n) = Obj(tr, 0)
          BY <3>1 DEF AttrAt
        <4> QED BY <4>1
      <3>2. CASE n > 3
        <4>1. (4 * n - 16) \div 8 \in Nat
          BY <3>2
        <4>2. 4 * n \notin {0, 4, 8, 12}
          BY <3>2
        <4>3. AttrAt(4 * n) = Obj(IF (4 * n) % 8 = 0 THEN "ATTR_LOWARG" ELSE "ATTR_HIGHARG",
                                  (4 * n - 16) \div 8)
          BY <4>2 DEF AttrAt
        <4> QED BY <4>1, <4>3 DEF Text!WithNumber
      <3> QED BY <3>1, <3>2
    <2>4. ReadAgain(f, c, name) = s
      BY <2>2, <2>3, AssignReadAgain
    <2>5. g.code = "LD_ABS" /\ g.k = f.k
      <3>1. /\ s.type = "ASSIGN_LINE" /\ s.op = "EQUAL" /\ s.left.type = "A"
            /\ s.right = AttrAt(4 * n)
        BY <2>2 DEF Assign, Obj
      <3> HIDE DEF s
      <3>2. g = Encoder!ld_line(s)
        BY <3>1 DEF Encoder!asm_statement, Encoder!assign_line, Encoder!operator_table
      <3>3. g = Encoder!Filter("LD_ABS", "K", 4 * n)
        BY <3>1, <3>2, OffsetOfAttr DEF Encoder!ld_line
      <3> QED BY <2>1, <3>3 DEF Encoder!Filter
    <2> HIDE DEF g
    <2>6. Meaning(g) = Meaning(f)
      BY <1>1, <2>5 DEF Meaning, JmpCodes, AluCodes
    <2> QED BY <2>4, <2>6 DEF g
  <1>2. CASE f.code # "LD_ABS"
    <2> DEFINE left == IF f.code \in Stores THEN Obj("MEM", f.k)
                       ELSE IF f.code \in {"LD_LEN", "LD_IMM", "LD_MEM", "TXA"} THEN Obj("A", 0)
                       ELSE Obj("X", 0)
               right == CASE f.code \in {"LD_LEN", "LDX_LEN"} -> Obj("ATTR_LEN", 0)
                          [] f.code \in {"LD_IMM", "LDX_IMM"} -> Obj("NUMBER", f.k)
                          [] f.code \in {"LD_MEM", "LDX_MEM"} -> Obj("MEM", f.k)
                          [] f.code \in {"ST", "TAX"}         -> Obj("A", 0)
                          [] f.code \in {"STX", "TXA"}        -> Obj("X", 0)
    <2>1. s = Assign(left, "EQUAL", right)
      BY <1>2 DEF decode_filter, ld_ldx_line, Loads, Stores, AluCodes, JmpCodes, MiscCodes
    <2>2. \E tl, dl : /\ left = Obj(tl, dl) /\ dl \in Nat
                      /\ tl \notin Text!WithNumber => dl = 0
      BY DEF Text!WithNumber
    <2>3. \E tr, dr : /\ right = Obj(tr, dr) /\ dr \in Nat
                      /\ tr \notin Text!WithNumber => dr = 0
      BY <1>2 DEF Text!WithNumber, Loads, Stores, MiscCodes
    <2>4. ReadAgain(f, c, name) = s
      <3>1. PICK tl, dl : /\ left = Obj(tl, dl) /\ dl \in Nat
                          /\ tl \notin Text!WithNumber => dl = 0
        BY <2>2
      <3>2. PICK tr, dr : /\ right = Obj(tr, dr) /\ dr \in Nat
                          /\ tr \notin Text!WithNumber => dr = 0
        BY <2>3
      <3> HIDE DEF left, right
      <3>3. decode_filter(f) = Assign(Obj(tl, dl), "EQUAL", Obj(tr, dr))
        BY <2>1, <3>1, <3>2
      <3> HIDE DEF s
      <3>4. ReadAgain(f, c, name) = decode_filter(f)
        BY <3>1, <3>2, <3>3, AssignReadAgain
      <3> QED BY <3>4 DEF s
    <2>5. s.type = "ASSIGN_LINE" /\ s.op = "EQUAL" /\ s.left = left /\ s.right = right
      <3> HIDE DEF left, right
      <3> QED BY <2>1 DEF Assign
    <2> HIDE DEF s
    <2>6. g = Encoder!assign_line(s)
      BY <2>5 DEF Encoder!asm_statement
    <2> HIDE DEF g
    <2>7. s.op \notin DOMAIN Encoder!operator_table
      BY <2>5 DEF Encoder!operator_table
    <2>8. CASE f.code \in Stores
      <3>1. g = Encoder!st_stx_line(s)
        BY <2>5, <2>6, <2>7, <2>8 DEF Encoder!assign_line, Obj
      <3>2. g.code = f.code /\ g.k = f.k
        BY <2>5, <2>8, <3>1 DEF Encoder!st_stx_line, Encoder!Filter, Stores, Obj
      <3>3. Meaning(g) = Meaning(f)
        BY <2>8, <3>2 DEF Meaning, Stores, JmpCodes, AluCodes
      <3> QED BY <2>4, <3>3 DEF g
    <2>9. CASE f.code \in {"LD_LEN", "LD_IMM", "LD_MEM", "TXA"}
      <3>1. g = Encoder!ld_line(s)
        BY <2>5, <2>6, <2>7, <2>9 DEF Encoder!assign_line, Stores, Obj
      <3>2. g.code = f.code /\ (f.code \in {"LD_IMM", "LD_MEM"} => g.k = f.k)
        BY <2>5, <2>9, <3>1 DEF Encoder!ld_line, Encoder!Filter, Obj
      <3>3. Meaning(g) = Meaning(f)
        BY <2>9, <3>2 DEF Meaning, JmpCodes, AluCodes
      <3> QED BY <2>4, <3>3 DEF g
    <2>10. CASE f.code \in {"LDX_LEN", "LDX_IMM", "LDX_MEM", "TAX"}
      <3>1. g = Encoder!ldx_line(s)
        BY <2>5, <2>6, <2>7, <2>10 DEF Encoder!assign_line, Stores, Obj
      <3>2. g.code = f.code /\ (f.code \in {"LDX_IMM", "LDX_MEM"} => g.k = f.k)
        BY <2>5, <2>10, <3>1 DEF Encoder!ldx_line, Encoder!Filter, Obj
      <3>3. Meaning(g) = Meaning(f)
        BY <2>10, <3>2 DEF Meaning, JmpCodes, AluCodes
      <3> QED BY <2>4, <3>3 DEF g
    <2> QED BY <1>2, <2>8, <2>9, <2>10 DEF Loads, Stores, MiscCodes
  <1> QED BY <1>1, <1>2

\* So is an operation on $A.
LEMMA AluRead ==
    ASSUME NEW f, f.code \in AluCodes, f.k \in Nat, f.src \in {"K", "X"}, NEW c, NEW name
    PROVE  Meaning(Encoder!asm_statement(ReadAgain(f, c, name))) = Meaning(f)
  <1> DEFINE s == decode_filter(f)
             g == Encoder!asm_statement(s)
             op == operator_table[f.code]
             right == CASE f.src = "X"    -> Obj("X", 0)
                        [] f.code = "NEG" -> Obj("A", 0)
                        [] OTHER          -> Obj("NUMBER", f.k)
  <1>1. s = alu_line(f)
    BY DEF decode_filter, Loads, Stores, AluCodes, JmpCodes
  <1>2. s = Assign(Obj("A", 0), op, alu_line(f).right)
    BY <1>1 DEF alu_line, Assign
  <1>3. \/ f.src = "X" /\ s.right = Obj("X", 0)
        \/ f.code = "NEG" /\ s.right = Obj("A", 0)
        \/ f.src = "K" /\ s.right = Obj("NUMBER", f.k)
    BY <1>1 DEF alu_line, Assign
  <1>4. s.type = "ASSIGN_LINE" /\ s.op = op /\ s = Assign(Obj("A", 0), op, s.right)
    BY <1>1 DEF alu_line, Assign
  <1>5. ReadAgain(f, c, name) = s
    <2>1. PICK tr, dr : /\ s.right = Obj(tr, dr) /\ dr \in Nat
                        /\ tr \notin Text!WithNumber => dr = 0
      BY <1>3 DEF Text!WithNumber
    <2>2. decode_filter(f) = Assign(Obj("A", 0), op, Obj(tr, dr))
      BY <1>4, <2>1
    <2> HIDE DEF s, op
    <2>3. ReadAgain(f, c, name) = decode_filter(f)
      BY <2>1, <2>2, AssignReadAgain
    <2> QED BY <2>3 DEF s
  <1> HIDE DEF s
  <1>6. g = Encoder!assign_line(s)
    BY <1>4 DEF Encoder!asm_statement
  <1> HIDE DEF g
  <1>7. CASE f.code = "NEG"
    <2>1. s.op = "NEGATIVE"
      BY <1>4, <1>7 DEF operator_table
    <2>2. g = Encoder!negative_line
      BY <1>6, <2>1 DEF Encoder!assign_line, Encoder!operator_table
    <2>3. Meaning(g) = Meaning(f)
      BY <1>7, <2>2 DEF Encoder!negative_line, Encoder!Filter, Meaning, JmpCodes, AluCodes
    <2> QED BY <1>5, <2>3 DEF g
  <1>8. CASE f.code # "NEG"
    <2>1. /\ s.op \in DOMAIN Encoder!operator_table /\ s.op \notin {"NEGATIVE", "EQUAL"}
          /\ Encoder!operator_table[s.op] = f.code
      BY <1>4, <1>8 DEF operator_table, Encoder!operator_table, AluCodes
    <2>2. g = Encoder!alu_line(s)
      BY <1>6, <2>1 DEF Encoder!assign_line
    <2>3. g.code = f.code /\ g.src = f.src /\ (f.src = "K" => g.k = f.k)
      BY <1>3, <1>8, <2>1, <2>2 DEF Encoder!alu_line, Encoder!Filter, Obj
    <2>4. Meaning(g) = Meaning(f)
      BY <1>8, <2>3 DEF Meaning, JmpCodes, AluCodes
    <2> QED BY <1>5, <2>4 DEF g
  <1> QED BY <1>7, <1>8

\* A quotient and a rest are the only ones of their sum.
LEMMA DivMod ==
    ASSUME NEW a \in Nat, NEW n \in Nat, NEW d \in Nat \ {0}, n < d
    PROVE  (a * d + n) \div d = a /\ (a * d + n) % d = n
  <1> DEFINE k == a * d + n
             q == k \div d
             r == k % d
  <1>1. k \in Nat
    OBVIOUS
  <1>2. k = q * d + r /\ q \in Nat /\ r \in Nat /\ r < d
    <2> HIDE DEF k
    <2> QED BY <1>1
  <1> HIDE DEF q, r
  <1>3. ASSUME q < a PROVE FALSE
    <2>1. PICK e \in Nat : a = q + 1 + e
      <3>1. a - q - 1 \in Nat /\ a = q + 1 + (a - q - 1)
        BY <1>2, <1>3
      <3> QED BY <3>1
    <2>2. a * d = q * d + d + e * d /\ e * d >= 0
      BY <1>2, <2>1
    <2> QED BY <1>2, <2>2
  <1>4. ASSUME a < q PROVE FALSE
    <2>1. PICK e \in Nat : q = a + 1 + e
      <3>1. q - a - 1 \in Nat /\ q = a + 1 + (q - a - 1)
        BY <1>2, <1>4
      <3> QED BY <3>1
    <2>2. q * d = a * d + d + e * d /\ e * d >= 0
      BY <1>2, <2>1
    <2> QED BY <1>2, <2>2
  <1>5. q = a
    BY <1>2, <1>3, <1>4
  <1>6. r = n
    BY <1>2, <1>5
  <1> QED BY <1>5, <1>6 DEF q, r

\* A return is assembled to one with the same action and data.
LEMMA ReturnRead ==
    ASSUME NEW f, f.code = "RET", f.k \in Nat, NEW c, NEW name
    PROVE  Meaning(Encoder!asm_statement(ReadAgain(f, c, name))) = Meaning(f)
  <1> DEFINE s == decode_filter(f)
             line == Text!print_statement(s, c, name)
             d == 2^DataBits
             Of(k) == {v \in DOMAIN ActionNr : ActionNr[v] = k \div d}
  <1>1. s = [type |-> "RETURN_LINE", obj |-> IF f.src = "A" THEN Obj("A", 0) ELSE decode_return_k(f.k)]
    BY DEF decode_filter, Loads, Stores, AluCodes, JmpCodes
  <1>2. d \in Nat \ {0}
    BY ActionAssumption
  <1>3. ASSUME NEW type, NEW n \in Nat, s.obj = Obj(type, n), type \notin Text!WithNumber => n = 0
        PROVE  ReadAgain(f, c, name) = s
    <2>1. s.type = "RETURN_LINE" /\ s = [type |-> "RETURN_LINE", obj |-> s.obj]
      BY <1>1
    <2> HIDE DEF s
    <2>2. line = [type |-> "RETURN_LINE", obj |-> Text!obj_printer(s.obj)]
      BY <2>1 DEF Text!print_statement
    <2> HIDE DEF line
    <2>3. Text!read_statement(line, c) = [type |-> "RETURN_LINE", obj |-> Text!read_obj(line.obj)]
      BY <2>2 DEF Text!read_statement
    <2>4. Text!read_obj(line.obj) = s.obj
      BY <1>3, <2>2, ObjectRead
    <2> QED BY <2>1, <2>3, <2>4 DEF ReadAgain, line, s
  <1>4. CASE f.src = "A"
    <2>1. s.obj = Obj("A", 0) /\ s.type = "RETURN_LINE"
      BY <1>1, <1>4
    <2>2. ReadAgain(f, c, name) = s
      BY <1>3, <2>1
    <2> HIDE DEF s
    <2>3. Encoder!asm_statement(s) = Encoder!Filter("RET", "A", 0)
      BY <2>1 DEF Encoder!asm_statement, Encoder!return_line, Obj
    <2>4. Meaning(Encoder!Filter("RET", "A", 0)) = Meaning(f)
      BY <1>4 DEF Encoder!Filter, Meaning, JmpCodes, AluCodes
    <2> QED BY <2>2, <2>3, <2>4
  <1>5. ASSUME f.src # "A", NEW k \in Nat, Encoder!asm_statement(s) = Encoder!Filter("RET", "K", k),
               decode_return_k(k) = decode_return_k(f.k), ReadAgain(f, c, name) = s
        PROVE  Meaning(Encoder!asm_statement(ReadAgain(f, c, name))) = Meaning(f)
    <2>1. Meaning(Encoder!Filter("RET", "K", k)) = <<"RET", decode_return_k(k)>>
      BY DEF Encoder!Filter, Meaning, JmpCodes, AluCodes
    <2>2. Meaning(f) = <<"RET", decode_return_k(f.k)>>
      BY <1>5 DEF Meaning, JmpCodes, AluCodes
    <2> QED BY <1>5, <2>1, <2>2
  <1>6. CASE f.src # "A" /\ Of(f.k) = {}
    <2>1. decode_return_k(f.k) = Obj("NUMBER", f.k)
      BY <1>6 DEF decode_return_k
    <2>2. s.obj = Obj("NUMBER", f.k) /\ s.type = "RETURN_LINE"
      BY <1>1, <1>6, <2>1
    <2>3. ReadAgain(f, c, name) = s
      BY <1>3, <2>2 DEF Text!WithNumber
    <2>4. Encoder!asm_statement(s) = Encoder!Filter("RET", "K", f.k)
      <3> HIDE DEF s
      <3> QED BY <2>2 DEF Encoder!asm_statement, Encoder!return_line, Obj
    <2> QED BY <1>5, <1>6, <2>3, <2>4
  <1>7. CASE f.src # "A" /\ Of(f.k) # {}
    <2> DEFINE v == CHOOSE w \in Of(f.k) : TRUE
               n == IF v \in Dataful THEN f.k % d ELSE 0
               k == ActionNr[v] * d + n
    <2>1. v \in DOMAIN ActionNr /\ ActionNr[v] = f.k \div d
      <3>1. v \in Of(f.k)
        BY <1>7
      <3> QED BY <3>1
    <2>2. decode_return_k(f.k) = Obj(v, n)
      BY <1>7 DEF decode_return_k
    <2>3. s.obj = Obj(v, n) /\ s.type = "RETURN_LINE"
      BY <1>1, <1>7, <2>2
    <2> HIDE DEF v
    <2>4. f.k \div d \in Nat /\ f.k % d \in Nat /\ f.k % d < d
      <3> HIDE DEF d
      <3> QED BY <1>2
    <2>5. n \in Nat /\ n < d
      BY <1>2, <2>4
    <2>6. v \notin {"A", "NUMBER"}
      BY <2>1, ActionAssumption
    <2>7. ReadAgain(f, c, name) = s
      <3>1. v \notin Text!WithNumber => n = 0
        BY DEF Text!WithNumber, Dataful
      <3> QED BY <1>3, <2>3, <2>5, <3>1
    <2>8. Encoder!asm_statement(s) = Encoder!Filter("RET", "K", k)
      <3> HIDE DEF s, n, d
      <3>1. Encoder!asm_statement(s) = Encoder!return_line(s)
        BY <2>3 DEF Encoder!asm_statement
      <3>2. Encoder!return_line(s) = Encoder!Filter("RET", "K", Encoder!retvals(v) + n)
        BY <2>3, <2>6 DEF Encoder!return_line, Obj
      <3>3. Encoder!retvals(v) = ActionNr[v] * d
        BY DEF Encoder!retvals, d
      <3> QED BY <3>1, <3>2, <3>3
    <2>9. k \in Nat /\ k \div d = f.k \div d /\ k % d = n
      <3>1. ActionNr[v] \in Nat
        BY <2>1, <2>4
      <3> DEFINE a == ActionNr[v]
      <3> HIDE DEF n, d, a
      <3>2. k = a * d + n /\ a \in Nat
        BY <3>1 DEF a
      <3>3. k \in Nat
        BY <1>2, <2>5, <3>2
      <3>4. k \div d = a /\ k % d = n
        BY <1>2, <2>5, <3>2, DivMod
      <3> QED BY <2>1, <3>3, <3>4 DEF a
    <2>10. Of(k) = Of(f.k)
      BY <2>9
    <2>11. decode_return_k(k) = Obj(v, n)
      <3>1. Of(k) # {} /\ v = CHOOSE w \in Of(k) : TRUE
        BY <1>7, <2>10 DEF v
      <3>2. decode_return_k(k) = Obj(v, IF v \in Dataful THEN k % d ELSE 0)
        BY <3>1 DEF decode_return_k
      <3>3. (IF v \in Dataful THEN k % d ELSE 0) = n
        BY <2>9
      <3> QED BY <3>2, <3>3
    <2> QED BY <1>5, <1>7, <2>2, <2>7, <2>8, <2>9, <2>11
  <1> QED BY <1>4, <1>6, <1>7

\* What disasm prints for a filter is assembled to the same filter, whatever
\* names render has put for numbers.  A name that it puts for $X is the only
\* thing that can come between (render.c, formatter.c, asm.c).
THEOREM NumbersReassembleCorrect == Spec => []NumbersReassemble
  <1>1. Inv => NumbersReassemble
    <2> SUFFICES ASSUME Inv, phase = "run", KernelAccepts,
                        \A c \in DOMAIN names : names[c] # None => prog[c].src = "K",
                        NEW c \in 1 .. flen
                 PROVE  Meaning(assemble(c)) = Meaning(prog[c])
      BY DEF NumbersReassemble, Reassembles
    <2> DEFINE f == prog[c]
    <2>1. /\ prog \in Seq(Filters) /\ flen \in Nat /\ c \in Nat \ {0} /\ Fine(c)
          /\ prog[flen].code = "RET" /\ DOMAIN names = 1 .. flen
          /\ i = flen + 1
      BY DEF Inv, TypeInv, RenderedInv, RunTypes, flen
    <2>2. /\ f \in Filters /\ f.code \in ValidCodes
          /\ f.code = "LD_ABS" => f.k < SECCOMP_DATA_SIZE /\ f.k % 4 = 0
      BY <2>1, Targets
    <2>3. f.k \in Nat /\ f.jt \in Nat /\ f.jf \in Nat
      BY <2>2, FilterFields
    <2>4. f.src \in {"K", "X", "A"} /\ (f.src = "A" => f.code = "RET")
      BY <2>2, DisasmAssumption
    <2>5. assemble(c) = Encoder!asm_statement(ReadAgain(f, c, names[c]))
      BY DEF assemble, ReadAgain
    <2>6. CASE f.code \in Loads \cup Stores \cup MiscCodes
      <3>1. f.code = "LD_ABS" => f.k \in {4 * n : n \in 0 .. 15}
        <4> SUFFICES ASSUME f.code = "LD_ABS" PROVE \E n \in 0 .. 15 : f.k = 4 * n
          OBVIOUS
        <4>1. f.k \div 4 \in 0 .. 15 /\ f.k = 4 * (f.k \div 4)
          BY <2>2, <2>3 DEF SECCOMP_DATA_SIZE
        <4> QED BY <4>1
      <3> QED BY <2>3, <2>5, <2>6, <3>1, MoveRead
    <2>7. CASE f.code \in AluCodes
      <3>1. f.src \in {"K", "X"}
        BY <2>4, <2>7 DEF AluCodes
      <3> QED BY <2>3, <2>5, <2>7, <3>1, AluRead
    <2>8. CASE f.code = "JA"
      BY <2>1, <2>3, <2>5, <2>8, JaRead
    <2>9. CASE f.code = "RET"
      BY <2>3, <2>5, <2>9, ReturnRead
    <2>10. CASE f.code \in JmpCodes
      <3>1. f.src \in {"K", "X"}
        BY <2>4, <2>10 DEF JmpCodes
      <3>2. names[c] # None => f.src = "K"
        BY <2>1
      <3>3. names[c] = Name(decode_filter(f), list[c])
        BY <2>1, <2>10 DEF Inv, SettledInv, Settled, JumpSettled
      <3>4. decode_filter(f).obj.data = IF f.src = "K" THEN f.k ELSE 0
        BY <2>3, <2>10, JumpDecoded
      <3>5. \/ names[c] = None
            \/ names[c] = [kind |-> "arch", arch |-> f.k]
            \/ \E arch \in Arches :
                 names[c] = [kind |-> "syscall", arch |-> arch] /\ f.k \in SysNrs
        <4> DEFINE s == decode_filter(f)
        <4> HIDE DEF s
        <4> SUFFICES ASSUME names[c] # None
                     PROVE  \/ names[c] = [kind |-> "arch", arch |-> f.k]
                            \/ \E arch \in Arches :
                                 names[c] = [kind |-> "syscall", arch |-> arch] /\ f.k \in SysNrs
          OBVIOUS
        <4>1. s.obj.data = f.k /\ names[c] = Name(s, list[c])
          BY <3>2, <3>3, <3>4 DEF s
        <4>2. CASE list[c].A_stat = "ARCH" /\ s.obj.data \in Arches
          BY <4>1, <4>2 DEF Name
        <4>3. CASE list[c].A_stat = "SYSNR" /\ list[c].arch \in Arches /\ s.obj.data \in SysNrs
          BY <4>1, <4>3 DEF Name
        <4> QED BY <4>1, <4>2, <4>3 DEF Name
      <3> QED BY <2>1, <2>3, <2>5, <2>10, <3>1, <3>2, <3>5, JumpRead
    <2> QED BY <2>2, <2>6, <2>7, <2>8, <2>9, <2>10 DEF ValidCodes
  <1> QED BY <1>1, InvCorrect, PTL
=============================================================================
