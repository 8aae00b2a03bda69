------------------------------ MODULE Resolver ------------------------------
(***************************************************************************)
(* The semantic check of a parsed filter (src/resolver/resolver.c): one    *)
(* forward pass over the code that refuses bad operands, turns labels into *)
(* offsets and tracks which scratch words every path has written.  asm,    *)
(* emu and probe go on only when the pass reported nothing.                *)
(***************************************************************************)
EXTENDS Parser

CONSTANTS
    BPF_MEMWORDS,   \* words of scratch memory: $mem[0] .. $mem[0xf]
    ARGS,           \* arguments of a system call: $low_args[0] .. [5]
    WordBits,       \* width of a register
    UINT8_MAX,      \* the farthest a conditional jump reaches
    RetDataMax      \* 0xffff, the data of TRACE, TRAP and ERRNO

ASSUME ResolverAssumption ==
    /\ BPF_MEMWORDS \in Nat
    /\ ARGS \in Nat
    /\ WordBits \in Nat \ {0}
    /\ UINT8_MAX \in Nat
    /\ RetDataMax \in Nat

Slots == 0 .. BPF_MEMWORDS - 1

VARIABLES
    i,          \* the loop counter of resolver
    masks,      \* masks: the words valid at each code line on every jump to it
    mem_valid,  \* mem_valid: the words valid before code line i
    has_error,
    off,        \* the offsets set_jt_jf writes into a jump's labels
    entry       \* history: the words mem_valid held when a line was resolved

resolverVars == <<i, masks, mem_valid, has_error, off, entry>>

bpf_len == Len(code)

ResolverInit ==
    /\ i = 0
    /\ masks = <<>>
    /\ mem_valid = {}
    /\ has_error = FALSE
    /\ off = <<>>
    /\ entry = <<>>

StmtAt(c) == text[code[c]].stmt

-----------------------------------------------------------------------------
\* Mutant of MemReadError: only the index is checked.
MemReadErrorRangeOnly(obj, valid) ==
    obj.type = "MEM" /\ obj.data >= BPF_MEMWORDS

\* assign_A and assign_X: a read of $mem that not every path has written.
MemReadError(obj, valid) ==
    obj.type = "MEM" /\ (obj.data >= BPF_MEMWORDS \/ obj.data \notin valid)

ArgError(obj) ==
    obj.type \in {"ATTR_LOWARG", "ATTR_HIGHARG"} /\ obj.data >= ARGS

AssignAError(s, valid) ==
    \/ s.op = "NEGATIVE" /\ s.right.type # "A"
    \/ /\ s.op \in AluOps
       /\ \/ s.right.type \notin {"X", "NUMBER"}
          \/ s.op = "DIVIDE_TO" /\ s.right.type = "NUMBER" /\ s.right.data = 0
          \/ /\ s.op \in {"LSH_TO", "RSH_TO"}
             /\ s.right.type = "NUMBER"
             /\ s.right.data >= WordBits
    \/ /\ s.op = "EQUAL"
       /\ \/ s.right.type = "A"
          \/ ArgError(s.right)
          \/ MemReadError(s.right, valid)

AssignXError(s, valid) ==
    \/ s.op # "EQUAL"
    \/ s.right.type \in AttrTypes \ {"ATTR_LEN"}
    \/ s.right.type = "X"
    \/ MemReadError(s.right, valid)

AssignMemError(s) ==
    \/ s.op # "EQUAL"
    \/ s.left.data >= BPF_MEMWORDS
    \/ s.right.type \notin {"A", "X"}

AssignError(s, valid) ==
    CASE s.left.type = "A"   -> AssignAError(s, valid)
      [] s.left.type = "X"   -> AssignXError(s, valid)
      [] s.left.type = "MEM" -> AssignMemError(s)

\* set_jt_jf: the offset as a uint16_t, and the (int16_t) cast that tells a
\* backward one.
Offset(target, c) == (target - c - 1) % Uint16
Negative(offset)  == offset >= Uint16 \div 2

JtTarget(s)    == table[s.jt]
JfTarget(s, c) == IF s.jf = NoLabel THEN c + 1 ELSE table[s.jf]

\* Mutant of JaError: a label past the end is let through.
JaErrorNoBound(s, c) ==
    \/ JtTarget(s) = NotFound
    \/ Negative(Offset(JtTarget(s), c))

JaError(s, c) ==
    \/ JtTarget(s) = NotFound
    \/ JtTarget(s) > bpf_len
    \/ Negative(Offset(JtTarget(s), c))

CondTargetError(target, c) ==
    \/ target = NotFound
    \/ Negative(Offset(target, c))
    \/ Offset(target, c) > UINT8_MAX
    \/ target > bpf_len

JumpError(s, c) ==
    IF s.cond
      THEN CondTargetError(JtTarget(s), c) \/ CondTargetError(JfTarget(s, c), c)
      ELSE JaError(s, c)

\* Mutant of JumpTargets: only the taken side of a jump is masked.
JumpTargetsJtOnly(s, c) == {JtTarget(s)}

JumpTargets(s, c) == {JtTarget(s)} \cup (IF s.cond THEN {JfTarget(s, c)} ELSE {})

ReturnError(s) ==
    s.obj.type \in {"TRACE", "TRAP", "ERRNO"} /\ s.obj.data > RetDataMax

-----------------------------------------------------------------------------
\* resolver: an empty filter ends the process.
StartResolve ==
    /\ phase = "parsed"
    /\ IF bpf_len = 0
         THEN phase' = "exit" /\ UNCHANGED resolverVars
         ELSE /\ phase' = "resolve"
              /\ i' = 1
              /\ masks' = [c \in 1 .. bpf_len |-> Slots]
              /\ mem_valid' = {}
              /\ has_error' = FALSE
              /\ off' = [c \in 1 .. bpf_len |-> [jt |-> 0, jf |-> 0]]
              /\ entry' = [c \in 1 .. bpf_len |-> {}]
    /\ UNCHANGED <<text, code, code_nr, table>>

\* Mutant of valid_here: the masks of the jumps to a line are never looked at.
valid_hereNoMask == mem_valid

\* mem_valid &= masks[i], at the head of the loop.
valid_here == mem_valid \cap masks[i]

\* What resolve_statement shares for every kind of line: mem_valid &= masks[i]
\* has been done, the statement is resolved, and the loop moves on.
Advance(error) ==
    /\ phase = "resolve"
    /\ i <= bpf_len
    /\ i' = i + 1
    /\ entry' = [entry EXCEPT ![i] = valid_here]
    /\ has_error' = (has_error \/ error)
    /\ UNCHANGED <<parserVars>>

ResolveAssign ==
    LET s == StmtAt(i)
        error == AssignError(s, valid_here)
    IN  /\ phase = "resolve" /\ i <= bpf_len /\ s.type = "ASSIGN_LINE"
        /\ Advance(error)
        /\ mem_valid' = IF s.left.type = "MEM" /\ ~error
                          THEN valid_here \cup {s.left.data}
                          ELSE valid_here
        /\ UNCHANGED <<masks, off>>

\* A refused jump returns early and leaves mem_valid as if the line fell
\* through.  The offsets a refused jump may have written are never used.
ResolveJump ==
    LET s == StmtAt(i)
        error == JumpError(s, i)
    IN  /\ phase = "resolve" /\ i <= bpf_len /\ s.type = "JUMP_LINE"
        /\ Advance(error)
        /\ IF error
             THEN mem_valid' = valid_here /\ UNCHANGED <<masks, off>>
             ELSE /\ masks' = [c \in 1 .. bpf_len |->
                                 IF c \in JumpTargets(s, i)
                                   THEN masks[c] \cap valid_here
                                   ELSE masks[c]]
                  /\ mem_valid' = Slots
                  /\ off' = [off EXCEPT ![i] =
                               [jt |-> Offset(JtTarget(s), i),
                                jf |-> IF s.cond THEN Offset(JfTarget(s, i), i)
                                                 ELSE 0]]

ResolveReturn ==
    LET s == StmtAt(i)
    IN  /\ phase = "resolve" /\ i <= bpf_len /\ s.type = "RETURN_LINE"
        /\ Advance(ReturnError(s))
        /\ mem_valid' = valid_here
        /\ UNCHANGED <<masks, off>>

ResolveErrorLine ==
    /\ phase = "resolve" /\ i <= bpf_len /\ StmtAt(i).type = "ERROR_LINE"
    /\ Advance(TRUE)
    /\ mem_valid' = valid_here
    /\ UNCHANGED <<masks, off>>

\* The end of resolver, and its callers: any error ends the process.
FinishResolve ==
    /\ phase = "resolve"
    /\ i > bpf_len
    /\ has_error' = (has_error \/ StmtAt(bpf_len).type # "RETURN_LINE")
    /\ phase' = IF has_error' THEN "exit" ELSE "ready"
    /\ UNCHANGED <<text, code, code_nr, table>>
    /\ UNCHANGED <<i, masks, mem_valid, off, entry>>

ResolverNext ==
    \/ StartResolve
    \/ ResolveAssign
    \/ ResolveJump
    \/ ResolveReturn
    \/ ResolveErrorLine
    \/ FinishResolve

-----------------------------------------------------------------------------
(***************************************************************************)
(* Reference: the paths through the code.  Every line but a jump is        *)
(* followed by the next one; a return line is too, as in the kernel's own  *)
(* check_load_and_stores.                                                  *)
(***************************************************************************)
Successors(c) ==
    LET s == StmtAt(c)
    IN  IF s.type = "JUMP_LINE" THEN JumpTargets(s, c) ELSE {c + 1}

\* The lines a set of lines visits in increasing order form a path from line 1
\* to its last line.
IsPath(P) ==
    /\ 1 \in P
    /\ \A c \in P : \/ \A d \in P : d <= c
                    \/ \E d \in P \cap Successors(c) :
                          /\ d > c
                          /\ \A e \in P : ~(c < e /\ e < d)

ReadsSlot(s, k) ==
    s.type = "ASSIGN_LINE" /\ s.right.type = "MEM" /\ s.right.data = k
WritesSlot(s, k) ==
    s.type = "ASSIGN_LINE" /\ s.left.type = "MEM" /\ s.left.data = k

\* Some path reaches a read of a scratch word it has not written.
SomePathReadsUnwritten ==
    \E P \in SUBSET (1 .. bpf_len) :
        /\ IsPath(P)
        /\ \E k \in Slots, c \in P :
            /\ \A d \in P : d <= c
            /\ ReadsSlot(StmtAt(c), k)
            /\ \A d \in P \ {c} : ~WritesSlot(StmtAt(d), k)

\* A line the resolver refuses whatever the memory holds.
LineError(c) ==
    LET s == StmtAt(c)
    IN  CASE s.type = "ASSIGN_LINE" -> AssignError(s, Slots)
          [] s.type = "JUMP_LINE"   -> JumpError(s, c)
          [] s.type = "RETURN_LINE" -> ReturnError(s)
          [] s.type = "ERROR_LINE"  -> TRUE

\* The forward pass with masks is exact: when the lines are otherwise fine,
\* the resolver (mem_valid and masks in resolver.c) accepts a filter exactly
\* when no path through it reads a scratch word before writing it.
MaskAnalysisExact ==
    LET fine == /\ \A c \in 1 .. bpf_len : ~LineError(c)
                /\ StmtAt(bpf_len).type = "RETURN_LINE"
    IN  /\ phase = "ready" => fine /\ ~SomePathReadsUnwritten
        /\ phase = "exit" /\ i > bpf_len /\ i > 1 /\ fine
              => SomePathReadsUnwritten
=============================================================================
