------------------------------- MODULE Parser -------------------------------
(***************************************************************************)
(* The line parser (src/lexical/parser.c) and the label table              *)
(* (src/utils/hash.c) that asm, emu and probe read a filter's text with.   *)
(*                                                                         *)
(* What the scanner and the grammar make of one line is abstracted to the  *)
(* line's label and its body: a member of Lines.  A body that the grammar  *)
(* refuses is ErrorLine (error_at longjmps out of parse_line).  What is    *)
(* kept is the bookkeeping the later phases depend on: which lines count   *)
(* as code, the code_nr a line and a label get, the duplicate-label and    *)
(* the overflow paths.                                                     *)
(***************************************************************************)
EXTENDS Integers, Sequences

CONSTANTS
    Labels,         \* label names
    NoLabel,        \* label_decl.start = NULL, jf.key.start = NULL
    Lines,          \* the lines a text may hold: a label and a statement body
    MaxLines,       \* lines of a text (process_source refuses 4 * BPF_MAXINSNS)
    BPF_MAXINSNS,   \* the kernel's limit on the code of a filter
    Uint16          \* 2^16, the width of code_nr and of a label's offset

ErrorLine  == [type |-> "ERROR_LINE"]
EmptyLine  == [type |-> "EMPTY_LINE"]

\* obj_t: the objects an operand can be.
AttrTypes  == {"ATTR_LEN", "ATTR_SYSCALL", "ATTR_ARCH", "ATTR_LOWPC",
               "ATTR_HIGHPC", "ATTR_LOWARG", "ATTR_HIGHARG"}
RightTypes == {"A", "X", "MEM", "NUMBER"} \cup AttrTypes
LeftTypes  == {"A", "X", "MEM"}
AluOps     == {"ADD_TO", "SUB_TO", "MULTI_TO", "DIVIDE_TO", "LSH_TO",
               "RSH_TO", "AND_TO", "OR_TO", "XOR_TO"}
Operators  == AluOps \cup {"EQUAL", "NEGATIVE"}
Comparators == {"EQUAL_EQUAL", "BANG_EQUAL", "GREATER_EQUAL", "GREATER_THAN",
                "LESS_EQUAL", "LESS_THAN", "AND"}
Verdicts   == {"KILL_PROC", "KILL", "ALLOW", "NOTIFY", "LOG", "TRACE", "TRAP",
               "ERRNO"}

Obj(types) == [type : types, data : Nat]

AssignLines == [type : {"ASSIGN_LINE"}, left : Obj(LeftTypes),
                op : Operators, right : Obj(RightTypes)]
JumpLines   == [type : {"JUMP_LINE"}, cond : BOOLEAN, bang : BOOLEAN,
                cmp : Comparators, obj : Obj({"X", "NUMBER"}),
                jt : Labels, jf : Labels \cup {NoLabel}]
ReturnLines == [type : {"RETURN_LINE"},
                obj : Obj({"A", "NUMBER"} \cup Verdicts)]

CodeBodies  == AssignLines \cup JumpLines \cup ReturnLines \cup {ErrorLine}

ASSUME ParserAssumption ==
    /\ NoLabel \notin Labels
    /\ Lines \subseteq [label : Labels \cup {NoLabel},
                       body : CodeBodies \cup {EmptyLine}]
    /\ MaxLines \in Nat
    /\ BPF_MAXINSNS \in Nat
    /\ Uint16 \in Nat
    /\ 2 * MaxLines + 4 <= Uint16

NotFound == Uint16 - 1      \* find_key: (uint16_t) -1

VARIABLES
    phase,      \* where the process is: parse, parsed, resolve, ready, emu, or
                \* ended by error (): exit (the text), failed (the input)
    text,       \* text_v: text_nr is the index
    code,       \* code_ptr_v: the text_nr of each code line
    code_nr,    \* parse.code_nr
    table       \* hash_table: the code_nr a label stands for

parserVars == <<phase, text, code, code_nr, table>>

TextLines == [label : Labels \cup {NoLabel}, code_nr : Nat,
              stmt : CodeBodies \cup {EmptyLine}]

ParserInit ==
    /\ phase = "parse"
    /\ text = <<>>
    /\ code = <<>>
    /\ code_nr = 0
    /\ table = [l \in Labels |-> NotFound]

-----------------------------------------------------------------------------
IsDuplicate(label) == label # NoLabel /\ table[label] # NotFound

\* insert_key: the first declaration of a label wins.
InsertKey(label, nr) ==
    [l \in Labels |-> IF l = label /\ ~IsDuplicate(label) THEN nr ELSE table[l]]

\* Mutant of ParseLine: empty_line forgets parse.code_nr--.
ParseLineCountEmpty(label, body) ==
    LET nr   == code_nr + 1
        stmt == IF IsDuplicate(label) THEN ErrorLine ELSE body
        full == ~IsDuplicate(label) /\ body # EmptyLine /\ nr > BPF_MAXINSNS
    IN  /\ phase = "parse"
        /\ Len(text) < MaxLines
        /\ full => label # NoLabel /\ body = ErrorLine
        /\ text' = Append(text, [label |-> label, code_nr |-> nr, stmt |-> stmt])
        /\ table' = InsertKey(label, nr)
        /\ IF stmt = EmptyLine
             THEN UNCHANGED code
             ELSE code' = Append(code, Len(text) + 1)
        /\ code_nr' = nr
        /\ UNCHANGED phase

\* Mutant of ParseLine: a return with a label of its own, the common end of a
\* text, passes by the limit.
ParseLineLimitNotReturn(label, body) ==
    LET nr   == code_nr + 1
        stmt == IF IsDuplicate(label) THEN ErrorLine ELSE body
        last == label # NoLabel /\ body.type = "RETURN_LINE"
        full == ~IsDuplicate(label) /\ body # EmptyLine /\ ~last /\ nr > BPF_MAXINSNS
    IN  /\ phase = "parse"
        /\ Len(text) < MaxLines
        /\ full => label # NoLabel /\ body = ErrorLine
        /\ text' = Append(text, [label |-> label, code_nr |-> nr, stmt |-> stmt])
        /\ table' = InsertKey(label, nr)
        /\ IF stmt = EmptyLine
             THEN UNCHANGED <<code, code_nr>>
             ELSE /\ code' = Append(code, Len(text) + 1)
                  /\ code_nr' = nr
        /\ UNCHANGED phase

\* parse_line and parser's push_vector.  A duplicated label turns the whole
\* line into an ERROR_LINE, which counts as code even when nothing follows the
\* label.  The count is checked only when the body is reached, so a duplicate,
\* or a bad number after a label (label_decl), passes by it.  parser fills
\* code_ptr_v in a second pass only because text_v may move while it grows; a
\* line's entry does not depend on the lines after it.
ParseLine(label, body) ==
    LET nr   == code_nr + 1
        stmt == IF IsDuplicate(label) THEN ErrorLine ELSE body
        full == ~IsDuplicate(label) /\ body # EmptyLine /\ nr > BPF_MAXINSNS
    IN  /\ phase = "parse"
        /\ Len(text) < MaxLines
        /\ full => label # NoLabel /\ body = ErrorLine
        /\ text' = Append(text, [label |-> label, code_nr |-> nr, stmt |-> stmt])
        /\ table' = InsertKey(label, nr)
        /\ IF stmt = EmptyLine
             THEN UNCHANGED <<code, code_nr>>
             ELSE /\ code' = Append(code, Len(text) + 1)
                  /\ code_nr' = nr
        /\ UNCHANGED phase

\* expression: one statement too many ends the process.
ParseOverflow(label, body) ==
    /\ phase = "parse"
    /\ Len(text) < MaxLines
    /\ ~IsDuplicate(label)
    /\ body # EmptyLine
    /\ code_nr + 1 > BPF_MAXINSNS
    /\ phase' = "exit"
    /\ UNCHANGED <<text, code, code_nr, table>>

\* eof_line: the last line may still declare a label, one past the code.
ParseEof(label) ==
    /\ phase = "parse"
    /\ ~IsDuplicate(label)
    /\ table' = InsertKey(label, code_nr + 1)
    /\ phase' = "parsed"
    /\ UNCHANGED <<text, code, code_nr>>

ParserNext ==
    \/ \E line \in Lines : \/ ParseLine(line.label, line.body)
                            \/ ParseOverflow(line.label, line.body)
    \/ \E label \in Labels \cup {NoLabel} : ParseEof(label)
=============================================================================
