------------------------------- MODULE Disasm -------------------------------
(***************************************************************************)
(* disasm, and the printing of filters that trace and capture read         *)
(* (src/disasm.c, src/decoder/, src/resolver/render.c): the binary filter  *)
(* is checked unless it comes from the kernel (trustful), each instruction *)
(* is decoded to a statement, and render, which the check may tell to      *)
(* skip, tracks what $A, $X and memory hold to put the names of arches and *)
(* system calls for numbers in conditions.                                 *)
(*                                                                         *)
(* Instructions count from 1 here, as they do in render; check_prog counts *)
(* from 0.  Reversing the bytes of a filter of other endianness and the    *)
(* layout of the output are left out.                                      *)
(***************************************************************************)
EXTENDS Decoder, Sequences, FiniteSets

CONSTANTS
    Filters,        \* the instructions an input may hold
    BPF_MAXINSNS,   \* more of them are refused
    BPF_MEMWORDS,
    FatalMax,       \* 5: one more fatal error and check_prog stops
    Word,           \* values of k, $A and $X
    Arches,         \* the arches libseccomp knows
    SysNrs,         \* the numbers of system calls that have a name on them
    SysName,        \* the names, see Text
    scmp_arch,      \* the arch of the command line, or of the traced task
    TopAction,      \* see Asm
    None

SECCOMP_DATA_SIZE == 64
NoArch    == 0      \* NONE
MixedArch == 3      \* MIXED

ASSUME DisasmAssumption ==
    /\ \A f \in Filters : /\ DOMAIN f = {"code", "src", "k", "jt", "jf"}
                          /\ f.src \in {"K", "X", "A"} /\ (f.src = "A" => f.code = "RET")
                          /\ f.k \in Word /\ f.jt \in Nat /\ f.jf \in Nat
    /\ {0, MixedArch} \subseteq Word /\ Word \subseteq Nat
    /\ BPF_MAXINSNS \in Nat /\ BPF_MEMWORDS \in Nat /\ FatalMax \in Nat
    /\ Arches \subseteq Word \ {NoArch, MixedArch}
    /\ scmp_arch \in Arches

\* libseccomp gives no two system calls of an arch the same name.
ASSUME NamesAssumption ==
    /\ \A arch \in Arches, m, n \in SysNrs : SysName[arch][m] = SysName[arch][n] => m = n
    /\ None \notin Nat

\* Actions are numbers above the data; SECCOMP_RET_KILL_PROCESS is one of them.
ASSUME ActionAssumption ==
    /\ \A v \in DOMAIN ActionNr : ActionNr[v] \in Nat
    /\ "KILL_PROC" \in DOMAIN ActionNr /\ {"A", "NUMBER"} \cap DOMAIN ActionNr = {}
    /\ 2^DataBits \in Nat \ {0} /\ TopAction \in Nat \ {0}

VARIABLES
    phase,      \* read, check, render, run, done, or exit (error () was called)
    prog,       \* prog.filter
    trustful,
    i,          \* the loop of check_prog and that of render
    masks, mem_valid, fatal_count, error_count,
    list,       \* what render knows before each statement
    names,      \* what render put for the operand of each condition
    \* a run of the filter in the kernel, to compare with
    data,       \* the nr and the arch of the call
    pc, A, X, M,    \* a value, and what it is: "sysnr", "arch" or "other"
    tested,     \* history: the run has compared $A with a number when it held the arch
    blurred     \* history: and render could not follow: not for equality with a
                \* number, or where $A holds something else on another path

checkVars == <<masks, mem_valid, fatal_count, error_count>>
renderVars == <<list, names>>
runVars == <<data, pc, A, X, M, tested, blurred>>
vars == <<phase, prog, trustful, i, checkVars, renderVars, runVars>>

Slots == 0 .. BPF_MEMWORDS - 1
flen == Len(prog)
Zero == [value |-> 0, what |-> "other"]

Init ==
    /\ phase = "read"
    /\ prog = <<>>
    /\ trustful = FALSE
    /\ i = 1
    /\ masks = <<>> /\ mem_valid = {} /\ fatal_count = 0 /\ error_count = 0
    /\ list = <<>> /\ names = <<>>
    /\ data = [nr |-> 0, arch |-> scmp_arch]
    /\ pc = 0 /\ A = Zero /\ X = Zero /\ M = [s \in Slots |-> Zero]
    /\ tested = FALSE /\ blurred = FALSE

-----------------------------------------------------------------------------
(***************************************************************************)
(* The kernel's own check, which trustful filters have passed, and what    *)
(* every run of a filter may rely on: paths from the first instruction.    *)
(***************************************************************************)
Successors(p, c) ==
    CASE p[c].code = "JA"       -> {c + 1 + p[c].k}
      [] p[c].code \in JmpCodes -> {c + 1 + p[c].jt, c + 1 + p[c].jf}
      [] OTHER                  -> {c + 1}

IsPath(p, P) ==
    /\ 1 \in P
    /\ \A c \in P : \/ \A d \in P : d <= c
                    \/ \E d \in P \cap Successors(p, c) : \A e \in P : ~(c < e /\ e < d)

\* The cells an instruction reads and writes: words, $A and $X.
RegA == -1
RegX == -2

Reads(f) ==
    CASE f.code \in {"LD_MEM", "LDX_MEM"} -> {f.k}
      [] f.code \in {"ST", "TAX", "NEG"}  -> {RegA}
      [] f.code \in {"STX", "TXA"}        -> {RegX}
      [] f.code \in (AluCodes \ {"NEG"}) \cup JmpCodes ->
                                             {RegA} \cup (IF f.src = "X" THEN {RegX} ELSE {})
      [] f.code = "RET" /\ f.src = "A"    -> {RegA}
      [] OTHER                            -> {}
Writes(f) ==
    CASE f.code \in Stores -> {f.k}
      [] f.code \in {"LDX_LEN", "LDX_IMM", "LDX_MEM", "TAX"} -> {RegX}
      [] f.code \in {"LD_ABS", "LD_LEN", "LD_IMM", "LD_MEM", "TXA"} \cup AluCodes -> {RegA}
      [] OTHER -> {}

\* Some path reads one of the cells before it has written it.
SomePathReadsUnset(p, cells) ==
    \E P \in SUBSET DOMAIN p :
        /\ IsPath(p, P)
        /\ \E c \in P : /\ \A d \in P : d <= c
                        /\ \E cell \in Reads(p[c]) :
                             cell \in cells /\ \A d \in P \ {c} : cell \notin Writes(p[d])

\* What is wrong with instruction c whatever memory holds: it ends disasm, or
\* it is only warned of.
FatalError(f) ==
    \/ f.code \notin ValidCodes
    \/ f.code = "LD_ABS" /\ (f.k >= SECCOMP_DATA_SIZE \/ f.k % 4 # 0)

\* Mutant of MemIndexError: one word too many.
MemIndexErrorOneMore(f) == f.code \in {"LD_MEM", "LDX_MEM", "ST", "STX"} /\ f.k > BPF_MEMWORDS

MemIndexError(f) == f.code \in {"LD_MEM", "LDX_MEM", "ST", "STX"} /\ f.k >= BPF_MEMWORDS

JumpError(f, c) ==
    \/ f.code = "JA" /\ f.k >= flen - c
    \/ f.code \in JmpCodes /\ (c + f.jt >= flen \/ c + f.jf >= flen)

PlainError(f, c) ==
    \/ f.code = "DIV" /\ f.src = "K" /\ f.k = 0
    \/ f.code \in {"LSH", "RSH"} /\ f.src = "K" /\ f.k >= 32
    \/ MemIndexError(f)
    \/ JumpError(f, c)

KernelAccepts ==
    /\ \A c \in 1 .. flen : ~FatalError(prog[c]) /\ ~PlainError(prog[c], c)
    /\ prog[flen].code = "RET"
    /\ ~SomePathReadsUnset(prog, Slots)

-----------------------------------------------------------------------------
(***************************************************************************)
(* read_filters and check_prog.                                            *)
(***************************************************************************)
Unread == UNCHANGED <<trustful, i, checkVars, renderVars, runVars>>

\* One instruction more; the one past BPF_MAXINSNS ends the process.
read_filters(f) ==
    /\ phase = "read"
    /\ IF flen = BPF_MAXINSNS THEN phase' = "exit" /\ UNCHANGED prog
                              ELSE prog' = Append(prog, f) /\ UNCHANGED phase
    /\ Unread

StartRender ==
    /\ phase' = "render" /\ i' = 1
    \* list[0] is not used; one more than the statements, zeroed
    /\ list' = [c \in 1 .. flen + 1 |->
                  [A_stat |-> "NONE", X_stat |-> "NONE", mem_stat |-> [s \in Slots |-> "NONE"],
                   arch |-> IF c = 1 THEN scmp_arch ELSE NoArch]]
    /\ names' = [c \in 1 .. flen |-> None]

\* print_prog, called for an input that is to be checked, or for a filter that
\* the kernel has loaded.
ReadEof ==
    /\ phase = "read"
    /\ trustful' \in BOOLEAN
    /\ \/ flen = 0 /\ ~trustful' /\ phase' = "done" /\ UNCHANGED <<i, checkVars, renderVars>>
       \/ /\ flen > 0 /\ ~trustful'
          /\ phase' = "check"
          /\ masks' = [c \in 1 .. flen |-> Slots]
          /\ UNCHANGED <<i, mem_valid, fatal_count, error_count, renderVars>>
       \/ flen > 0 /\ trustful' /\ KernelAccepts /\ StartRender /\ UNCHANGED checkVars
    /\ UNCHANGED <<prog, runVars>>

\* check_filter returns at its first report.  A jump moves mem_valid to the
\* masks of its targets; nothing looks at the masks again.
check_filter ==
    LET f      == prog[i]
        unset  == f.code \in {"LD_MEM", "LDX_MEM"} /\ f.k \notin mem_valid
        error  == PlainError(f, i) \/ unset
        isJump == f.code \in JmpCodes \cup {"JA"}
    IN  /\ phase = "check"
        /\ i <= flen /\ fatal_count <= FatalMax
        /\ i' = i + 1
        /\ IF FatalError(f)
             THEN fatal_count' = fatal_count + 1 /\ UNCHANGED <<masks, mem_valid, error_count>>
           ELSE IF error
             THEN error_count' = error_count + 1 /\ UNCHANGED <<masks, mem_valid, fatal_count>>
           ELSE /\ masks' = IF ~isJump THEN masks
                            ELSE [c \in 1 .. flen |-> IF c \in Successors(prog, i)
                                                        THEN masks[c] \cap mem_valid
                                                        ELSE masks[c]]
                /\ mem_valid' = IF isJump THEN Slots
                                ELSE IF f.code \in Stores THEN mem_valid \cup {f.k}
                                ELSE mem_valid
                /\ UNCHANGED <<fatal_count, error_count>>
        /\ UNCHANGED <<phase, prog, trustful, renderVars, runVars>>

\* Mutant of SkipsRender: a missing return is the only error that counts.
SkipsRenderLastOnly == prog[flen].code # "RET"

\* check_prog returns whether there was an error, the missing return included.
SkipsRender == error_count > 0 \/ prog[flen].code # "RET"

\* The end of check_prog: a fatal error ends the process, any other one skips
\* render.
FinishCheck ==
    /\ phase = "check"
    /\ i > flen \/ fatal_count > FatalMax
    /\ IF fatal_count > 0 THEN phase' = "exit" /\ UNCHANGED <<i, renderVars>>
       ELSE IF SkipsRender THEN phase' = "done" /\ UNCHANGED <<i, renderVars>>
       ELSE StartRender
    /\ UNCHANGED <<prog, trustful, checkVars, runVars>>

-----------------------------------------------------------------------------
(***************************************************************************)
(* render.                                                                 *)
(***************************************************************************)
\* set_stat without FORCE: NONE is also what no line before has said.
set_stat(dest, src) ==
    IF dest = "NONE" THEN src ELSE IF dest # src THEN "MIXED" ELSE dest

set_ctx(l, d, s) ==
    [l EXCEPT ![d].A_stat = set_stat(@, l[s].A_stat),
              ![d].X_stat = set_stat(@, l[s].X_stat),
              ![d].mem_stat = [k \in Slots |-> set_stat(@[k], l[s].mem_stat[k])]]

\* Mutant of set_arch: the first to say something wins.
set_archFirst(l, d, arch) == [l EXCEPT ![d].arch = IF @ = NoArch THEN arch ELSE @]

set_arch(l, d, arch) ==
    [l EXCEPT ![d].arch = IF @ = NoArch THEN arch ELSE IF @ # arch THEN MixedArch ELSE @]

RightStat(s, ctx) ==
    CASE s.op # "EQUAL"                 -> "MIXED"
      [] s.op = "EQUAL" /\ s.right.type = "ATTR_SYSCALL" -> "SYSNR"
      [] s.op = "EQUAL" /\ s.right.type = "ATTR_ARCH"    -> "ARCH"
      [] s.op = "EQUAL" /\ s.right.type = "A"   -> ctx.A_stat
      [] s.op = "EQUAL" /\ s.right.type = "X"   -> ctx.X_stat
      [] s.op = "EQUAL" /\ s.right.type = "MEM" -> ctx.mem_stat[s.right.data]
      [] OTHER                          -> "MIXED"

RenderAssign ==
    LET s     == decode_filter(prog[i])
        stat  == RightStat(s, list[i])
        here  == CASE s.left.type = "A" -> [list EXCEPT ![i].A_stat = stat]
                   [] s.left.type = "X" -> [list EXCEPT ![i].X_stat = stat]
                   [] OTHER             -> [list EXCEPT ![i].mem_stat[s.left.data] = stat]
    IN  /\ phase = "render" /\ i <= flen
        /\ s.type = "ASSIGN_LINE"
        /\ list' = set_arch(set_ctx(here, i + 1, i), i + 1, list[i].arch)
        /\ i' = i + 1
        /\ UNCHANGED <<phase, prog, trustful, checkVars, names, runVars>>

\* try_resolve_arch and try_resolve_sysnr, which look at the operand's data
\* whether it is a number or $X.
Name(s, ctx) ==
    CASE ctx.A_stat = "ARCH" /\ s.obj.data \in Arches ->
            [kind |-> "arch", arch |-> s.obj.data]
      [] ctx.A_stat = "SYSNR" /\ ctx.arch \in Arches /\ s.obj.data \in SysNrs ->
            [kind |-> "syscall", arch |-> ctx.arch]
      [] OTHER -> None

RenderJump ==
    LET s  == decode_filter(prog[i])
        jt == i + s.jt + 1
        jf == i + s.jf + 1
        both == set_ctx(set_ctx(list, jt, i), jf, i)
        is   == IF s.cmp = "EQUAL_EQUAL" THEN jt ELSE jf
        isnt == IF s.cmp = "EQUAL_EQUAL" THEN jf ELSE jt
    IN  /\ phase = "render" /\ i <= flen
        /\ s.type = "JUMP_LINE"
        /\ list' = IF ~s.cond
                     THEN set_arch(set_ctx(list, jt, i), jt, list[i].arch)
                   ELSE IF list[i].A_stat # "ARCH"
                     THEN set_arch(set_arch(both, jt, list[i].arch), jf, list[i].arch)
                   ELSE IF s.cmp \in {"EQUAL_EQUAL", "BANG_EQUAL"}
                     THEN set_arch(set_arch(both, is, s.obj.data), isnt, MixedArch)
                   ELSE both
        /\ names' = [names EXCEPT ![i] = IF s.cond THEN Name(s, list[i]) ELSE None]
        /\ i' = i + 1
        /\ UNCHANGED <<phase, prog, trustful, checkVars, runVars>>

RenderReturn ==
    /\ phase = "render" /\ i <= flen
    /\ prog[i].code = "RET"
    /\ i' = i + 1
    /\ UNCHANGED <<phase, prog, trustful, checkVars, renderVars, runVars>>

\* The text is printed.  It is then compared with a run of the filter.
FinishRender(d) ==
    /\ phase = "render" /\ i > flen
    /\ phase' = "run"
    /\ data' = d
    /\ pc' = 1
    /\ UNCHANGED <<prog, trustful, i, checkVars, renderVars, A, X, M, tested, blurred>>

-----------------------------------------------------------------------------
(***************************************************************************)
(* The kernel runs the filter.                                             *)
(***************************************************************************)
Compare(f, a, x) ==
    LET right == IF f.src = "X" THEN x ELSE f.k
    IN  CASE f.code = "JEQ"  -> a = right
          [] f.code = "JGT"  -> a > right
          [] f.code = "JGE"  -> a >= right
          [] f.code = "JSET" -> \E b \in {1, 2, 4, 8} :
                                   (a \div b) % 2 = 1 /\ (right \div b) % 2 = 1

Loaded(f) ==
    CASE f.code = "LD_ABS" /\ f.k = 0 -> [value |-> data.nr, what |-> "sysnr"]
      [] f.code = "LD_ABS" /\ f.k = 4 -> [value |-> data.arch, what |-> "arch"]
      [] f.code \in {"LD_IMM", "LDX_IMM"} -> [value |-> f.k, what |-> "other"]
      [] f.code \in {"LD_MEM", "LDX_MEM"} -> M[f.k]
      [] f.code = "TXA" -> X
      [] f.code = "TAX" -> A
      [] OTHER -> Zero

\* What an ALU instruction leaves is not looked at but for not being a number
\* of a system call or an arch any more.
RunAssign ==
    LET f == prog[pc]
    IN  /\ phase = "run"
        /\ f.code \in Loads \cup Stores \cup AluCodes \cup MiscCodes
        /\ A' = IF f.code \in AluCodes THEN Zero ELSE IF RegA \in Writes(f) THEN Loaded(f) ELSE A
        /\ X' = IF RegX \in Writes(f) THEN Loaded(f) ELSE X
        /\ M' = IF f.code \in Stores THEN [M EXCEPT ![f.k] = IF f.code = "ST" THEN A ELSE X]
                                     ELSE M
        /\ pc' = pc + 1
        /\ UNCHANGED <<phase, prog, trustful, i, checkVars, renderVars, data, tested, blurred>>

RunJump ==
    LET f == prog[pc]
    IN  /\ phase = "run"
        /\ f.code \in JmpCodes \cup {"JA"}
        /\ pc' = IF f.code = "JA" THEN pc + 1 + f.k
                 ELSE IF Compare(f, A.value, X.value) THEN pc + 1 + f.jt ELSE pc + 1 + f.jf
        /\ tested' = (tested \/ (f.code \in JmpCodes /\ A.what = "arch"))
        /\ blurred' = (blurred \/ /\ f.code \in JmpCodes /\ A.what = "arch"
                                  /\ \/ f.code # "JEQ" \/ f.src = "X"
                                     \/ list[pc].A_stat # "ARCH")
        /\ UNCHANGED <<phase, prog, trustful, i, checkVars, renderVars, data, A, X, M>>

RunReturn ==
    /\ phase = "run"
    /\ prog[pc].code = "RET"
    /\ phase' = "done"
    /\ UNCHANGED <<prog, trustful, i, checkVars, renderVars, runVars>>

Terminated == phase \in {"exit", "done"} /\ UNCHANGED vars

Inputs == [nr : SysNrs, arch : Arches]

Next ==
    \/ \E f \in Filters : read_filters(f)
    \/ ReadEof \/ check_filter \/ FinishCheck
    \/ RenderAssign \/ RenderJump \/ RenderReturn
    \/ \E d \in Inputs : FinishRender(d)
    \/ RunAssign \/ RunJump \/ RunReturn
    \/ Terminated

Spec == Init /\ [][Next]_vars

-----------------------------------------------------------------------------
(***************************************************************************)
(* What is printed is given to asm, with the same arch.                    *)
(***************************************************************************)
Encoder == INSTANCE Asm
Text == INSTANCE Text

\* assemble on line c of what print_prog printed.
assemble(c) ==
    Encoder!asm_statement(
        Text!read_statement(Text!print_statement(decode_filter(prog[c]), c, names[c]), c))

-----------------------------------------------------------------------------
Stats == {"NONE", "ARCH", "SYSNR", "MIXED"}

TypeOK ==
    /\ phase \in {"read", "check", "render", "run", "done", "exit"}
    /\ prog \in Seq(Filters) /\ flen <= BPF_MAXINSNS
    /\ mem_valid \subseteq Slots
    /\ \A c \in DOMAIN masks : masks[c] \subseteq Slots
    /\ fatal_count \in 0 .. FatalMax + 1 /\ error_count \in 0 .. flen
    /\ \A c \in DOMAIN list : /\ list[c].A_stat \in Stats /\ list[c].X_stat \in Stats
                              /\ list[c].mem_stat \in [Slots -> Stats]
                              /\ list[c].arch \in Word

\* "some error might cause mem overflow in render, if error_count != 0, skip
\* render" (check_prog.c): the filters render is called for make it use only
\* entries of list and of mem_stat that exist, and decode_filter only those of
\* abs_table.
RenderInBounds ==
    phase = "render" /\ i <= flen =>
        LET f == prog[i]
            s == decode_filter(f)
        IN  /\ f.code = "LD_ABS" => f.k \in {4 * n : n \in 0 .. 15}
            /\ s.type = "ASSIGN_LINE" =>
                 /\ i + 1 \in DOMAIN list
                 /\ \A o \in {s.left, s.right} : o.type = "MEM" => o.data \in Slots
            /\ s.type = "JUMP_LINE" =>
                 /\ i + s.jt + 1 \in 1 .. flen
                 /\ s.cond => i + s.jf + 1 \in 1 .. flen

\* Whether the condition of a statement holds.
Holds(s, a, x) ==
    LET right == IF s.obj.type = "X" THEN x ELSE s.obj.data
        and   == Compare([code |-> "JSET", src |-> "K", k |-> right], a, 0)
        plain == CASE s.cmp = "EQUAL_EQUAL"   -> a = right
                   [] s.cmp = "BANG_EQUAL"    -> a # right
                   [] s.cmp = "GREATER_EQUAL" -> a >= right
                   [] s.cmp = "GREATER_THAN"  -> a > right
                   [] s.cmp = "LESS_EQUAL"    -> a <= right
                   [] s.cmp = "LESS_THAN"     -> a < right
                   [] s.cmp = "AND"           -> and
    IN  plain # s.bang

\* Every conditional jump there is.
Jumps == [code : JmpCodes, src : {"K", "X"}, k : Word, jt : 0 .. 2, jf : 0 .. 2]

\* A condition that was turned round goes where the instruction goes, whatever
\* $A and $X hold (jump_line and condition of decoder.c).  It is a property of
\* the decoder alone, so it is looked at once.
DecodeKeepsBranches ==
    phase = "read" /\ prog = <<>> =>
        \A f \in Jumps :
            LET s == decode_filter(f)
            IN  \A a, x \in Word :
                  (IF Holds(s, a, x) THEN s.jt ELSE s.jf) = (IF Compare(f, a, x) THEN f.jt ELSE f.jf)

\* No path uses a register or a word before it has set it: render's NONE is
\* then never the state of a value that is used.
AllSetBeforeUse == ~SomePathReadsUnset(prog, Slots \cup {RegA, RegX})

\* A run has come to a condition with a name.
AtName ==
    phase = "run" /\ prog[pc].code \in JmpCodes /\ names[pc] # None /\ AllSetBeforeUse

\* $A holds what the name is of, and the name of a system call is one on the
\* arch of the call, or on the arch disasm was told while the filter has not
\* asked for it.
NameFits ==
    LET n == names[pc]
    IN  /\ n.kind = "arch" => A.what = "arch"
        /\ n.kind = "syscall" =>
             /\ A.what = "sysnr"
             /\ n.arch = data.arch \/ (n.arch = scmp_arch /\ ~tested)

\* A name stands only where it fits every run that comes there, if the filter
\* asks for the arch by equality with a number only, and where $A holds the
\* arch on every path (render.c).
NamesRight == AtName /\ ~blurred => NameFits

\* What an instruction says, without the fields that it does not use; the data
\* of a return that takes none counts as unused.
Meaning(f) ==
    CASE f.code = "JA"        -> <<"JA", f.k>>
      [] f.code \in JmpCodes  -> <<f.code, f.src, IF f.src = "X" THEN 0 ELSE f.k, f.jt, f.jf>>
      [] f.code \in AluCodes \ {"NEG"} -> <<f.code, f.src, IF f.src = "X" THEN 0 ELSE f.k>>
      [] f.code = "RET"       -> IF f.src = "A" THEN <<"RET", "A">> ELSE <<"RET", decode_return_k(f.k)>>
      [] f.code \in {"NEG", "TAX", "TXA", "LD_LEN", "LDX_LEN"} -> <<f.code>>
      [] OTHER                -> <<f.code, f.k>>

\* "You can just take `disasm` output to `asm`" (docs/ceccomp.adoc): what is
\* printed for a filter the kernel accepts, names and turned conditions
\* included, is assembled to the same filter.
Reassembles ==
    phase = "run" /\ pc = 1 /\ KernelAccepts =>
        \A c \in 1 .. flen : Meaning(assemble(c)) = Meaning(prog[c])

\* What disasm prints is assembled to the filter it was printed from, whenever
\* every name that render has put stands for a number, and not for the 0 that a
\* condition on $X has for data (render.c, formatter.c, asm.c).
NumbersReassemble ==
    (\A c \in DOMAIN names : names[c] # None => prog[c].src = "K") => Reassembles

\* Every statement of a text, its jumps resolved.
Operands == {Obj("NUMBER", k) : k \in Word} \cup {Obj("X", 0)}
Conditions == [type : {"JUMP_LINE"}, cond : {TRUE}, bang : BOOLEAN,
               cmp : {"EQUAL_EQUAL", "BANG_EQUAL", "GREATER_EQUAL", "GREATER_THAN",
                      "LESS_EQUAL", "LESS_THAN", "AND"},
               obj : Operands, jt : 0 .. 2, jf : 0 .. 2]
Attrs == {AttrAt(4 * n) : n \in 0 .. 15} \cup {Obj("ATTR_LEN", 0)}
Words == {Obj("MEM", 0), Obj("MEM", 1)}
Numbers == {Obj("NUMBER", k) : k \in Word}
Assignments ==
    {Assign(Obj("A", 0), "EQUAL", r) : r \in Attrs \cup Words \cup Numbers \cup {Obj("X", 0)}}
    \cup {Assign(Obj("X", 0), "EQUAL", r) : r \in {Obj("ATTR_LEN", 0), Obj("A", 0)} \cup Words \cup Numbers}
    \cup {Assign(l, "EQUAL", r) : l \in Words, r \in {Obj("A", 0), Obj("X", 0)}}
    \cup {Assign(Obj("A", 0), operator_table[op], r) : op \in AluCodes \ {"NEG"}, r \in Operands}
    \cup {Assign(Obj("A", 0), "NEGATIVE", Obj("A", 0))}

\* asm encodes every statement to an instruction that does what the statement
\* says: a condition branches as written for every $A and $X, whatever the
\* comparator, the bang and the branches, and an assignment is the one disasm
\* shows.  It is a property of the encoder alone, looked at once.
AsmKeepsMeaning ==
    phase = "read" /\ prog = <<>> =>
        /\ \A s \in Conditions :
            LET f == Encoder!asm_statement(s)
            IN  \A a, x \in Word :
                  (IF Holds(s, a, x) THEN s.jt ELSE s.jf) = (IF Compare(f, a, x) THEN f.jt ELSE f.jf)
        /\ \A s \in Assignments : decode_filter(Encoder!asm_statement(s)) = s

\* The words of which SECCOMP_RET_ACTION shows the action: all but those that
\* look like another action when the highest bit is left out.
PlainReturns == {k \in Word : k \div 2^DataBits < TopAction \/ k = Encoder!retvals("KILL_PROC")}

\* The c-macro format prints macros that stand for the instruction's own k,
\* for every load of seccomp_data and every return but the ones above.
CMacroSame ==
    phase = "read" /\ prog = <<>> =>
        /\ \A n \in 0 .. 15 : LET f == Encoder!Filter("LD_ABS", "K", 4 * n) IN Encoder!c_macro_handle(f) = f.k
        /\ \A k \in PlainReturns :
            LET f == Encoder!Filter("RET", "K", k) IN Encoder!c_macro_handle(f) = f.k

\* "make sure all filter are valid, give warning about fatal and normal errors"
\* (decode_filters, decoder.c): a filter that is checked without an error is
\* one the kernel would accept.
CheckedIsValid ==
    phase = "render" /\ ~trustful => KernelAccepts
=============================================================================
