------------------------------ MODULE Emulator ------------------------------
(***************************************************************************)
(* emu and probe (src/emu.c, src/probe.c): a filter's text is parsed and   *)
(* resolved once and then emulated, by emu once and by probe once for each *)
(* system call of its list.  The registers are cleared before a run, the   *)
(* scratch memory is not: it keeps what the run before left in it.         *)
(*                                                                         *)
(* emulator walks the text, not the code: read_idx passes over the lines   *)
(* below exec_idx only to print them, so idx is the line both have         *)
(* reached.                                                                *)
(***************************************************************************)
EXTENDS Resolver

CONSTANTS
    Word,           \* the values of a uint32_t
    Inputs,         \* seccomp_data: the system calls and arguments run
    MaxRuns,        \* ARRAY_SIZE (to_test_list) for probe, 1 for emu
    Undef, NoVerdict,
    AttrOf(_, _),               \* the value of an ATTR_ object in an input
    AluResult(_, _, _),         \* *left operator *right
    CompareResult(_, _, _),     \* A_reg comparator right
    DecodeReturnK(_)            \* decode_return_k

Results == Obj(Verdicts)

ASSUME EmulatorAssumption ==
    /\ ARGS > 0
    /\ Inputs # {}
    /\ 0 \in Word
    /\ Word \subseteq Nat
    /\ MaxRuns \in Nat
    /\ Undef \notin Word
    /\ NoVerdict \notin Results
    /\ \A d \in Inputs : \A o \in [type : AttrTypes, data : 0 .. ARGS - 1] :
            AttrOf(d, o) \in Word
    /\ \A op \in Operators, l \in Word, r \in Word : AluResult(op, l, r) \in Word
    /\ \A cmp \in Comparators, l \in Word, r \in Word :
            CompareResult(cmp, l, r) \in BOOLEAN
    /\ \A w \in Word : DecodeReturnK(w) \in Results
    /\ \A line \in Lines :
            /\ line.body.type = "ASSIGN_LINE" =>
                 LET right == line.body.right
                 IN  /\ right.type = "NUMBER" => right.data \in Word
                     \* parse_line clears the statement
                     /\ right.type \in AttrTypes \ {"ATTR_LOWARG", "ATTR_HIGHARG"}
                          => right.data = 0
            /\ line.body.type = "RETURN_LINE" => line.body.obj.data \in Word
            /\ line.body.type = "JUMP_LINE" => line.body.obj.data \in Word
    /\ \A w \in Word : w % WordBits \in Word

VARIABLES A_reg, X_reg, mem,
          input,    \* syscall_nr, scmp_arch, the pc halves and the arguments
          idx,      \* read_idx = exec_idx
          run,      \* runs started
          verdict,  \* real_obj, or KILL on a division by zero
          written   \* history: the scratch words this run has written

emuVars == <<A_reg, X_reg, mem, input, idx, run, verdict, written>>
vars == <<parserVars, resolverVars, emuVars>>

Init ==
    /\ ParserInit
    /\ ResolverInit
    /\ A_reg = 0 /\ X_reg = 0
    /\ mem = [k \in Slots |-> 0]
    /\ input = CHOOSE d \in Inputs : TRUE    \* not read before StartRun
    /\ idx = 0
    /\ run = 0
    /\ verdict = NoVerdict
    /\ written = {}

-----------------------------------------------------------------------------
\* Mutant of StartRun: probe's loop goes one too far.
StartRunOneMore(d) ==
    /\ phase = "ready"
    /\ run <= MaxRuns
    /\ phase' = "emu"
    /\ A_reg' = 0 /\ X_reg' = 0
    /\ input' = d
    /\ idx' = 1
    /\ run' = run + 1
    /\ verdict' = NoVerdict
    /\ written' = {}
    /\ UNCHANGED <<text, code, code_nr, table, resolverVars, mem>>

\* init_attr.
StartRun(d) ==
    /\ phase = "ready"
    /\ run < MaxRuns
    /\ phase' = "emu"
    /\ A_reg' = 0 /\ X_reg' = 0
    /\ input' = d
    /\ idx' = 1
    /\ run' = run + 1
    /\ verdict' = NoVerdict
    /\ written' = {}
    /\ UNCHANGED <<text, code, code_nr, table, resolverVars, mem>>

\* init_attr, error (): the system call has no number on the arch, or there is
\* none.  The registers it has cleared are gone with the process.
InitAttrFails ==
    /\ phase = "ready"
    /\ run < MaxRuns
    /\ phase' = "failed"
    /\ UNCHANGED <<text, code, code_nr, table, resolverVars, emuVars>>

Here == text[idx].stmt

\* The object an operand points to.
Value(obj) ==
    CASE obj.type = "A"      -> A_reg
      [] obj.type = "X"      -> X_reg
      [] obj.type = "MEM"    -> mem[obj.data]
      [] obj.type = "NUMBER" -> obj.data
      [] OTHER               -> AttrOf(input, obj)

\* *right = *right & 0x1f before a shift, which writes to X_reg itself when
\* the right side is $X.
ShiftCount(s) == IF s.op \in {"LSH_TO", "RSH_TO"} THEN Value(s.right) % WordBits
                                                  ELSE Value(s.right)
XAfterMask(s) == IF s.op \in {"LSH_TO", "RSH_TO"} /\ s.right.type = "X"
                   THEN X_reg % WordBits
                   ELSE X_reg

DividesByZero(s) == s.op = "DIVIDE_TO" /\ Value(s.right) = 0

EmulateAssign ==
    LET s     == Here
        value == AluResult(s.op, Value(s.left), ShiftCount(s))
    IN  /\ phase = "emu"
        /\ s.type = "ASSIGN_LINE"
        /\ ~DividesByZero(s)
        /\ A_reg' = IF s.left.type = "A" THEN value ELSE A_reg
        /\ X_reg' = IF s.left.type = "X" THEN value ELSE XAfterMask(s)
        /\ mem' = IF s.left.type = "MEM" THEN [mem EXCEPT ![s.left.data] = value]
                                         ELSE mem
        /\ written' = IF s.left.type = "MEM" THEN written \cup {s.left.data}
                                             ELSE written
        /\ idx' = idx + 1
        /\ UNCHANGED <<parserVars, resolverVars, input, run, verdict>>

\* emulate_v goes back to probe's loop, or emu ends.
EndRun(result) ==
    /\ phase = "emu"
    /\ phase' = "ready"
    /\ verdict' = result
    /\ UNCHANGED <<text, code, code_nr, table, resolverVars>>
    /\ UNCHANGED <<A_reg, X_reg, mem, input, idx, run, written>>

\* $X == 0: the run ends with KILL.
EmulateFPE ==
    /\ phase = "emu"
    /\ Here.type = "ASSIGN_LINE"
    /\ DividesByZero(Here)
    /\ EndRun([type |-> "KILL", data |-> 0])

\* jump_line of emu.c: whether jt is taken.
TakesJt(s) ==
    s.cond => CompareResult(s.cmp, A_reg, IF s.obj.type = "X" THEN X_reg
                                                              ELSE s.obj.data) # s.bang

\* Mutant of CodeNrToTextNr: the label is looked for on the target's own line,
\* not on the empty lines before it.
CodeNrToTextNrOneLine(cur, key, offset) ==
    LET target == code[text[cur].code_nr + offset + 1]
    IN  IF key = NoLabel THEN cur + 1
        ELSE IF text[target].label = key THEN target ELSE cur

\* code_nr_to_text_nr: without a label the next line; else the walk back from
\* the target's line to the line that declares the label, or the line of the
\* jump itself, on which the code asserts.
CodeNrToTextNr(cur, key, offset) ==
    LET target == code[text[cur].code_nr + offset + 1]
        hits   == {t \in cur + 1 .. target : text[t].label = key}
    IN  IF key = NoLabel THEN cur + 1
        ELSE IF hits = {} THEN cur
        ELSE CHOOSE t \in hits : \A u \in hits : u <= t

EmulateJump ==
    LET s == Here
        c == text[idx].code_nr
    IN  /\ phase = "emu"
        /\ s.type = "JUMP_LINE"
        /\ idx' = IF TakesJt(s) THEN CodeNrToTextNr(idx, s.jt, off[c].jt)
                                ELSE CodeNrToTextNr(idx, s.jf, off[c].jf)
        /\ UNCHANGED <<parserVars, resolverVars>>
        /\ UNCHANGED <<A_reg, X_reg, mem, input, run, verdict, written>>

\* return_line.
EmulateReturn ==
    LET obj == Here.obj
    IN  /\ phase = "emu"
        /\ Here.type = "RETURN_LINE"
        /\ EndRun(CASE obj.type = "A"      -> DecodeReturnK(A_reg)
                    [] obj.type = "NUMBER" -> DecodeReturnK(obj.data)
                    [] OTHER               -> obj)

EmulateEmpty ==
    /\ phase = "emu"
    /\ Here.type = "EMPTY_LINE"
    /\ idx' = idx + 1
    /\ UNCHANGED <<parserVars, resolverVars>>
    /\ UNCHANGED <<A_reg, X_reg, mem, input, run, verdict, written>>

\* The process is over: error () was called, or every run is done.
Terminated ==
    /\ phase \in {"exit", "failed"} \/ (phase = "ready" /\ run = MaxRuns)
    /\ UNCHANGED vars

EmulateLine ==
    \/ EmulateAssign
    \/ EmulateFPE
    \/ EmulateJump
    \/ EmulateReturn
    \/ EmulateEmpty

Next ==
    \/ ParserNext /\ UNCHANGED <<resolverVars, emuVars>>
    \/ ResolverNext /\ UNCHANGED emuVars
    \/ \E d \in Inputs : StartRun(d)
    \/ InitAttrFails
    \/ EmulateLine
    \/ Terminated

Spec == Init /\ [][Next]_vars

\* One process: nothing but the loop of emulator runs until it ends.
FairSpec == Spec /\ WF_vars(EmulateLine)

-----------------------------------------------------------------------------
TypeOK ==
    /\ phase \in {"parse", "parsed", "resolve", "ready", "emu", "exit", "failed"}
    /\ text \in Seq(TextLines)
    /\ code \in Seq(Nat)
    /\ code_nr \in Nat
    /\ table \in [Labels -> 0 .. NotFound]
    /\ i \in Nat
    /\ mem_valid \subseteq Slots
    /\ has_error \in BOOLEAN
    /\ A_reg \in Word /\ X_reg \in Word
    /\ mem \in [Slots -> Word]
    /\ input \in Inputs
    /\ idx \in Nat
    /\ run \in 0 .. MaxRuns
    /\ verdict \in Results \cup {NoVerdict}
    /\ written \subseteq Slots

\* "mem must be written first to be read, so skip clearing them" (init_attr,
\* emu.c): a run that reads a scratch word has written it in that same run, so
\* what the run before left in mem never shows.
MemReadsInitialised ==
    phase = "emu" /\ Here.type = "ASSIGN_LINE" /\ Here.right.type = "MEM"
        => Here.right.data \in written

\* The assertions of emu.c hold, and the indexes it uses are in range: the walk
\* never runs off the text (line 328) or onto an ERROR_LINE (line 321), a jump
\* finds its label after its own line (line 245), and code_ptr_v is read only
\* where it has an entry.
AssertsHold ==
    phase = "emu" =>
        /\ idx \in 1 .. Len(text)
        /\ Here.type # "ERROR_LINE"
        /\ Here.type = "JUMP_LINE" =>
             LET c == text[idx].code_nr
             IN  /\ c + off[c].jt + 1 \in 1 .. bpf_len
                 /\ CodeNrToTextNr(idx, Here.jt, off[c].jt) > idx
                 /\ Here.cond =>
                      /\ c + off[c].jf + 1 \in 1 .. bpf_len
                      /\ CodeNrToTextNr(idx, Here.jf, off[c].jf) > idx

\* What emu runs is no longer than a filter may be.  The parser looks at the
\* limit only when it reaches the body of a line (parser.c:380), and lines with
\* a label that is taken pass by it and are code all the same; none of those
\* gets past the resolver.
WithinMaxInsns == phase \in {"ready", "emu"} => bpf_len \in 1 .. BPF_MAXINSNS

-----------------------------------------------------------------------------
(***************************************************************************)
(* The inductive invariant behind the safety properties.  NumberingInv and *)
(* LabelInv are what the parser leaves; FlowInv relates the words each     *)
(* resolved line was given (entry) along every edge of the code; WalkInv   *)
(* says that a run has written at least the words the resolver took for    *)
(* written at the line it has reached.                                     *)
(***************************************************************************)
TextNrs == 1 .. Len(text)
CodeNrs == 1 .. Len(code)
IsEmpty(t) == text[t].stmt = EmptyLine

\* The code_nr that follows line t.
NextNr(t) == text[t].code_nr + (IF IsEmpty(t) THEN 0 ELSE 1)

NumberingInv ==
    /\ Len(text) <= MaxLines
    /\ Len(code) = code_nr
    /\ code_nr <= Len(text)
    /\ text # <<>> => text[1].code_nr = 1
    /\ \A t \in TextNrs : t = Len(text) => NextNr(t) = code_nr + 1
    /\ \A t \in TextNrs : t + 1 \in TextNrs => text[t + 1].code_nr = NextNr(t)
    /\ \A t \in TextNrs : NextNr(t) <= code_nr + 1
    /\ \A t, u \in TextNrs : t < u => NextNr(t) <= text[u].code_nr
    /\ \A c \in CodeNrs : /\ code[c] \in TextNrs
                          /\ ~IsEmpty(code[c])
                          /\ text[code[c]].code_nr = c
    /\ \A t \in TextNrs : ~IsEmpty(t) => /\ text[t].code_nr \in CodeNrs
                                         /\ code[text[t].code_nr] = t

\* Only a line that does not parse can pass by the limit.
LimitInv == (\A t \in TextNrs : text[t].stmt # ErrorLine) => code_nr <= BPF_MAXINSNS

LabelInv ==
    /\ \A t \in TextNrs : text[t].label # NoLabel => table[text[t].label] # NotFound
    /\ \A t \in TextNrs :
         text[t].label # NoLabel /\ text[t].stmt # ErrorLine
            => table[text[t].label] = text[t].code_nr
    /\ \A t, u \in TextNrs :
         t < u /\ text[t].label = text[u].label /\ text[t].label # NoLabel
            => text[u].stmt = ErrorLine
    /\ \A l \in Labels : table[l] # NotFound => table[l] \in 1 .. code_nr + 1
    /\ \A l \in Labels :
         table[l] # NotFound /\ (phase = "parse" \/ table[l] <= code_nr)
            => \E t \in TextNrs : text[t].label = l /\ text[t].code_nr = table[l]

\* The words valid after a line that is not a jump.
After(c) ==
    LET s == StmtAt(c)
    IN  IF s.type = "ASSIGN_LINE" /\ s.left.type = "MEM"
          THEN entry[c] \cup {s.left.data}
          ELSE entry[c]

\* What a resolved line that was not refused has shown.
LineInv(c) ==
    LET s == StmtAt(c)
    IN  /\ s.type # "ERROR_LINE"
        /\ s.type = "ASSIGN_LINE" => ~AssignError(s, entry[c])
        /\ s.type = "JUMP_LINE" =>
             /\ JumpTargets(s, c) \subseteq c + 1 .. bpf_len
             /\ c + off[c].jt + 1 = JtTarget(s)
             /\ s.cond => c + off[c].jf + 1 = JfTarget(s, c)

EdgeInv(c) ==
    LET s == StmtAt(c)
    IN  /\ s.type = "JUMP_LINE" =>
             \A d \in JumpTargets(s, c) :
                IF d < i THEN entry[d] \subseteq entry[c]
                         ELSE masks[d] \subseteq entry[c]
        /\ s.type # "JUMP_LINE" =>
             /\ c + 1 < i => entry[c + 1] \subseteq After(c)
             /\ c + 1 = i => mem_valid \subseteq After(c)

Resolved == phase \in {"resolve", "ready", "emu"}

FlowInv ==
    Resolved =>
        /\ bpf_len > 0
        /\ i \in 1 .. bpf_len + 1
        /\ masks \in [CodeNrs -> SUBSET Slots]
        /\ entry \in [CodeNrs -> SUBSET Slots]
        /\ off \in [CodeNrs -> [jt : Nat, jf : Nat]]
        /\ mem_valid \subseteq Slots
        /\ has_error \in BOOLEAN
        /\ i = 1 => mem_valid = {}
        /\ entry[1] = {}
        /\ ~has_error => \A c \in 1 .. i - 1 : LineInv(c) /\ EdgeInv(c)
        /\ phase # "resolve" =>
             /\ i = bpf_len + 1
             /\ ~has_error
             /\ StmtAt(bpf_len).type = "RETURN_LINE"

WalkInv ==
    phase = "emu" =>
        /\ idx \in TextNrs
        /\ text[idx].code_nr \in CodeNrs
        /\ entry[text[idx].code_nr] \subseteq written

-----------------------------------------------------------------------------
\* An assignment takes the right side whatever the left side held, and 0 is
\* what SECCOMP_RET_KILL_THREAD stands for.
ASSUME MachineAssumption ==
    /\ \A left \in Word \cup {Undef}, right \in Word : AluResult("EQUAL", left, right) = right
    /\ DecodeReturnK(0) = [type |-> "KILL", data |-> 0]

\* The machine emu stands for: code lines with the lines their labels name,
\* and memory that holds only what this run wrote.
LoadedProg ==
    IF phase \in {"ready", "emu", "failed"}
      THEN [c \in 1 .. bpf_len |->
              [stmt |-> StmtAt(c),
               jt |-> IF StmtAt(c).type = "JUMP_LINE" THEN JtTarget(StmtAt(c)) ELSE 0,
               jf |-> IF StmtAt(c).type = "JUMP_LINE" THEN JfTarget(StmtAt(c), c) ELSE 0]]
      ELSE <<>>

Machine == INSTANCE BpfMachine WITH
    prog <- LoadedProg,
    pc <- IF phase = "emu" THEN text[idx].code_nr ELSE 0,
    A <- A_reg,
    X <- X_reg,
    M <- [k \in Slots |-> IF k \in written THEN mem[k] ELSE Undef]

\* emu behaves as the kernel's machine does on the same filter: the same
\* registers, the same branch at every jump, the same verdict, whatever earlier
\* runs of probe left behind.
KernelAgrees == Machine!Spec

\* A shift by $X finds a count there that the mask of emu.c leaves alone.
ShiftCountsFit ==
    phase = "emu" /\ Here.type = "ASSIGN_LINE" /\ Here.op \in {"LSH_TO", "RSH_TO"}
      /\ Here.right.type = "X" => X_reg < WordBits

\* Every run of emulator comes to a verdict: no jump takes the walk over the
\* text back to a line it has passed.
RunTerminates == phase = "emu" ~> phase = "ready" /\ verdict # NoVerdict
=============================================================================
