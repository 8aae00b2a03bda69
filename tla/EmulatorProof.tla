--------------------------- MODULE EmulatorProof ---------------------------
(***************************************************************************)
(* Proofs about Emulator, for every text, every width and every number of  *)
(* runs.  The invariant is established in three stages, one per phase of   *)
(* the program: what the parser leaves, what the resolver shows of it, and *)
(* what a run of the emulator may rely on.  Two stages rest on it: that    *)
(* the resolver's single pass is exact, and that a run is a run of the     *)
(* kernel's machine.                                                       *)
(***************************************************************************)
EXTENDS Emulator, SequenceTheorems, WellFoundedInduction, TLAPS

-----------------------------------------------------------------------------
(* Stage 1: the parser.                                                    *)

ParserType ==
    /\ phase \in {"parse", "parsed", "resolve", "ready", "emu", "exit", "failed"}
    /\ text \in Seq(TextLines)
    /\ code \in Seq(Nat)
    /\ code_nr \in Nat
    /\ table \in [Labels -> 0 .. NotFound]

ParserInv == ParserType /\ NumberingInv /\ LabelInv

parsed == <<text, code, code_nr, table>>

\* Every step but a step of the parser leaves the parsed text alone, and none
\* of them goes back to parsing.
LEMMA OtherSteps ==
    ASSUME ParserType, [Next]_vars
    PROVE  \/ ParserNext
           \/ UNCHANGED parsed /\ ParserType' /\ (phase' = "parse" => phase = "parse")
  <1>1. CASE ParserNext
    BY <1>1
  <1>2. CASE ResolverNext /\ UNCHANGED emuVars
    BY <1>2 DEF ResolverNext, StartResolve, ResolveAssign, ResolveJump,
       ResolveReturn, ResolveErrorLine, FinishResolve, Advance, parserVars,
       parsed, ParserType
  <1>3. CASE \E d \in Inputs : StartRun(d)
    BY <1>3 DEF StartRun, parsed, ParserType
  <1>6. CASE InitAttrFails
    BY <1>6 DEF InitAttrFails, parsed, ParserType
  <1>4. CASE EmulateLine
    BY <1>4 DEF EmulateLine, EmulateAssign, EmulateFPE, EmulateJump,
       EmulateReturn, EmulateEmpty, EndRun, parserVars, parsed, ParserType
  <1>5. CASE UNCHANGED vars
    BY <1>5 DEF vars, parserVars, parsed, ParserType
  <1> QED
    BY <1>1, <1>2, <1>3, <1>4, <1>5, <1>6 DEF Next, Terminated

\* A step that leaves the parsed text alone preserves what the parser left.
LEMMA ParsedStable ==
    ASSUME ParserInv, UNCHANGED parsed, ParserType',
           phase' = "parse" => phase = "parse"
    PROVE  ParserInv'
  <1>1. NumberingInv'
    BY DEF ParserInv, NumberingInv, parsed, TextNrs, CodeNrs, NextNr, IsEmpty
  <1>2. LabelInv'
    BY DEF ParserInv, LabelInv, parsed, TextNrs
  <1> QED
    BY <1>1, <1>2 DEF ParserInv

\* Before the first line there is nothing to number.
LEMMA ParserInitially == Init => ParserInv
  <1> SUFFICES ASSUME Init PROVE ParserInv
    OBVIOUS
  <1> USE ParserAssumption
  <1>1. text = <<>> /\ code = <<>> /\ Len(text) = 0 /\ Len(code) = 0
    BY DEF Init, ParserInit
  <1>2. ParserType
    BY <1>1 DEF Init, ParserInit, ParserType, NotFound
  <1>3. NumberingInv
    BY <1>1 DEF Init, ParserInit, NumberingInv, TextNrs, CodeNrs
  <1>4. LabelInv
    BY <1>1 DEF Init, ParserInit, LabelInv, TextNrs
  <1> QED
    BY <1>2, <1>3, <1>4 DEF ParserInv

\* One more line: it is numbered after all others, and its label is new or the
\* line is an error.
LEMMA ParseLinePreserves ==
    ASSUME ParserInv, NEW line \in Lines, ParseLine(line.label, line.body)
    PROVE  ParserInv'
  <1> DEFINE label == line.label
             nr == code_nr + 1
             stmt == IF IsDuplicate(label) THEN ErrorLine ELSE line.body
             new == [label |-> label, code_nr |-> nr, stmt |-> stmt]
  <1>n. PICK n \in Nat : n = Len(text)
    BY DEF ParserInv, ParserType
  <1>1. /\ label \in Labels \cup {NoLabel}
        /\ stmt \in CodeBodies \cup {EmptyLine}
        /\ new \in TextLines
        /\ code_nr \in Nat
        /\ nr \in Nat
        /\ nr = code_nr + 1
        /\ Len(code) \in Nat
        /\ NoLabel \notin Labels
    BY ParserAssumption DEF ParserInv, ParserType, TextLines, CodeBodies
  <1>2. /\ text' = Append(text, new)
        /\ table' = InsertKey(label, nr)
        /\ phase' = phase
        /\ phase = "parse"
        /\ n < MaxLines
        /\ stmt = EmptyLine => code' = code /\ code_nr' = code_nr
        /\ stmt # EmptyLine => code' = Append(code, n + 1) /\ code_nr' = nr
    BY <1>n DEF ParseLine
  <1>0. /\ IsDuplicate(label) => stmt = ErrorLine
        /\ ErrorLine # EmptyLine
    BY DEF ErrorLine, EmptyLine
  <1>N. NumberingInv /\ LabelInv
    BY DEF ParserInv
  <1> HIDE DEF stmt, label
  <1>3. /\ text' \in Seq(TextLines)
        /\ Len(text') = n + 1
        /\ \A t \in 1 .. n : text'[t] = text[t]
        /\ text'[n + 1] = new
    BY <1>n, <1>1, <1>2, AppendProperties DEF ParserInv, ParserType
  <1>4. ASSUME stmt # EmptyLine
        PROVE  /\ code' \in Seq(Nat)
               /\ Len(code') = Len(code) + 1
               /\ \A c \in 1 .. Len(code) : code'[c] = code[c]
               /\ code'[Len(code) + 1] = n + 1
    <2>1. code \in Seq(Nat) /\ n + 1 \in Nat
      BY <1>1 DEF ParserInv, ParserType
    <2>2. code' = Append(code, n + 1)
      BY <1>2, <1>4
    <2> QED
      BY <2>1, <2>2, AppendProperties
  <1>5. nr < NotFound /\ nr > 0 /\ NotFound \in Nat
    BY <1>n, <1>1, <1>2, <1>N, ParserAssumption DEF NumberingInv, NotFound
  <1>6. ParserType'
    <2>1. code' \in Seq(Nat) /\ code_nr' \in Nat
      BY <1>1, <1>2, <1>4 DEF ParserInv, ParserType
    <2>2. table' \in [Labels -> 0 .. NotFound]
      BY <1>1, <1>2, <1>5 DEF ParserInv, ParserType, InsertKey
    <2> QED
      BY <1>2, <1>3, <2>1, <2>2 DEF ParserInv, ParserType
  <1>7. /\ TextNrs' = TextNrs \cup {n + 1}
        /\ TextNrs = 1 .. n
        /\ n + 1 \notin TextNrs
        /\ \A t \in TextNrs : t \in Nat /\ t < n + 1
    BY <1>n, <1>3 DEF TextNrs
  <1>8. /\ \A t \in TextNrs : text'[t] = text[t] /\ text[t] \in TextLines
        /\ text'[n + 1].code_nr = nr
        /\ text'[n + 1].stmt = stmt
        /\ text'[n + 1].label = label
    BY <1>3, <1>7 DEF ParserInv, ParserType
  <1>9. \A t \in TextNrs : /\ text[t].code_nr \in Nat
                           /\ text[t].label \in Labels \cup {NoLabel}
    BY <1>8 DEF TextLines
  <1> HIDE DEF nr, new
  <1>10. /\ \A t \in TextNrs : /\ IsEmpty(t)' = IsEmpty(t)
                               /\ NextNr(t)' = NextNr(t)
                               /\ NextNr(t) \in Nat
         /\ IsEmpty(n + 1)' = (stmt = EmptyLine)
         /\ NextNr(n + 1)' = IF stmt = EmptyLine THEN nr ELSE nr + 1
    <2>1. \A t \in TextNrs : IsEmpty(t) \in BOOLEAN /\ IsEmpty(t)' = IsEmpty(t)
      BY <1>8 DEF IsEmpty
    <2>2. IsEmpty(n + 1)' = (stmt = EmptyLine)
      BY <1>8 DEF IsEmpty
    <2>3. \A t \in TextNrs : NextNr(t)' = NextNr(t) /\ NextNr(t) \in Nat
      BY <1>8, <1>9, <2>1 DEF NextNr
    <2>4. NextNr(n + 1)' = IF stmt = EmptyLine THEN nr ELSE nr + 1
      <3>1. NextNr(n + 1)' = nr + (IF stmt = EmptyLine THEN 0 ELSE 1)
        BY <1>8 DEF NextNr, IsEmpty
      <3> QED
        BY <3>1, <1>1
    <2> QED
      BY <2>1, <2>2, <2>3, <2>4
  <1>11. NumberingInv'
    <2>1. /\ Len(text') <= MaxLines
          /\ Len(code') = code_nr'
          /\ code_nr' <= Len(text')
      <3>1. Len(code) = code_nr /\ code_nr <= n
        BY <1>n, <1>N DEF NumberingInv
      <3>2. MaxLines \in Nat
        BY ParserAssumption
      <3> QED
        BY <1>1, <1>2, <1>3, <1>4, <3>1, <3>2
    <2>2. text' # <<>> => text'[1].code_nr = 1
      <3>1. CASE n = 0
        BY <3>1, <1>n, <1>1, <1>8, <1>N DEF NumberingInv
      <3>2. CASE n > 0
        <4>1. text # <<>> /\ 1 \in TextNrs
          BY <3>2, <1>n, <1>7
        <4> QED
          BY <4>1, <1>8, <1>N DEF NumberingInv
      <3> QED
        BY <3>1, <3>2, <1>1
    <2>3. \A t \in TextNrs' : t = Len(text') => NextNr(t)' = code_nr' + 1
      BY <1>1, <1>2, <1>3, <1>7, <1>10
    <2>4. \A t \in TextNrs' : t + 1 \in TextNrs' => text'[t + 1].code_nr = NextNr(t)'
      <3>1. \A t \in TextNrs : t = n => NextNr(t) = nr
        BY <1>n, <1>1, <1>N DEF NumberingInv
      <3>2. \A t \in TextNrs : t + 1 \in TextNrs => text[t + 1].code_nr = NextNr(t)
        BY <1>N DEF NumberingInv
      <3>3. \A t \in TextNrs' : t + 1 \in TextNrs' =>
               /\ t \in TextNrs
               /\ t + 1 \in TextNrs \/ (t = n /\ t + 1 = n + 1)
        BY <1>1, <1>7
      <3> QED
        BY <1>8, <1>10, <3>1, <3>2, <3>3
    <2>5. \A t \in TextNrs' : NextNr(t)' <= code_nr' + 1
      <3>1. \A t \in TextNrs : NextNr(t) <= nr
        BY <1>1, <1>N DEF NumberingInv
      <3> QED
        BY <1>1, <1>2, <1>7, <1>10, <3>1
    <2>6. \A t, u \in TextNrs' : t < u => NextNr(t)' <= text'[u].code_nr
      <3>1. \A t \in TextNrs : NextNr(t) <= nr
        BY <1>1, <1>N DEF NumberingInv
      <3>2. \A t, u \in TextNrs : t < u => NextNr(t) <= text[u].code_nr
        BY <1>N DEF NumberingInv
      <3>3. \A t, u \in TextNrs' : t < u =>
               t \in TextNrs /\ (u \in TextNrs \/ u = n + 1)
        BY <1>1, <1>7
      <3> QED
        BY <1>8, <1>10, <3>1, <3>2, <3>3
    <2>7. /\ \A c \in CodeNrs' : /\ code'[c] \in TextNrs'
                                 /\ text'[code'[c]].stmt # EmptyLine
                                 /\ text'[code'[c]].code_nr = c
          /\ \A t \in TextNrs' : text'[t].stmt # EmptyLine =>
                 /\ text'[t].code_nr \in CodeNrs'
                 /\ code'[text'[t].code_nr] = t
      <3>1. /\ \A c \in CodeNrs : /\ code[c] \in TextNrs
                                  /\ text[code[c]].stmt # EmptyLine
                                  /\ text[code[c]].code_nr = c
            /\ \A t \in TextNrs : text[t].stmt # EmptyLine =>
                 /\ text[t].code_nr \in CodeNrs
                 /\ code[text[t].code_nr] = t
        BY <1>N DEF NumberingInv, IsEmpty
      <3>2. CASE stmt = EmptyLine
        <4>1. code' = code /\ CodeNrs' = CodeNrs
          BY <3>2, <1>2 DEF CodeNrs
        <4> QED
          BY <3>1, <3>2, <4>1, <1>7, <1>8
      <3>3. CASE stmt # EmptyLine
        <4>1. Len(code) + 1 = nr
          BY <1>1, <1>N DEF NumberingInv
        <4>2. /\ CodeNrs' = CodeNrs \cup {nr}
              /\ \A c \in CodeNrs : code'[c] = code[c]
              /\ code'[nr] = n + 1
          BY <3>3, <4>1, <1>1, <1>4 DEF CodeNrs
        <4> QED
          BY <3>1, <3>3, <4>2, <1>7, <1>8
      <3> QED
        BY <3>2, <3>3
    <2> QED
      BY <2>1, <2>2, <2>3, <2>4, <2>5, <2>6, <2>7 DEF NumberingInv, IsEmpty
  <1>12. LabelInv'
    <2>1. /\ \A l \in Labels : table'[l] = IF l = label /\ ~IsDuplicate(label)
                                             THEN nr ELSE table[l]
          /\ label # NoLabel => label \in Labels
          /\ IsDuplicate(label) <=> label # NoLabel /\ table[label] # NotFound
          /\ nr # NotFound
      BY <1>1, <1>2, <1>5 DEF InsertKey, IsDuplicate
    <2>2. \A t \in TextNrs : text[t].label # NoLabel => table[text[t].label] # NotFound
      BY <1>N DEF LabelInv
    <2>3. \A t \in TextNrs : text[t].label # NoLabel
             => /\ table'[text[t].label] = table[text[t].label]
                /\ text[t].label = label => IsDuplicate(label)
      BY <2>1, <2>2, <1>9
    <2>4. \A t \in TextNrs' : text'[t].label # NoLabel => table'[text'[t].label] # NotFound
      BY <1>7, <1>8, <2>1, <2>2, <2>3
    <2>5. \A t \in TextNrs' :
             text'[t].label # NoLabel /\ text'[t].stmt # ErrorLine
                => table'[text'[t].label] = text'[t].code_nr
      <3>1. \A t \in TextNrs :
             text[t].label # NoLabel /\ text[t].stmt # ErrorLine
                => table[text[t].label] = text[t].code_nr
        BY <1>N DEF LabelInv
      <3> QED
        BY <1>0, <1>7, <1>8, <2>1, <2>3, <3>1
    <2>6. \A t, u \in TextNrs' :
             t < u /\ text'[t].label = text'[u].label /\ text'[t].label # NoLabel
                => text'[u].stmt = ErrorLine
      <3>1. \A t, u \in TextNrs :
               t < u /\ text[t].label = text[u].label /\ text[t].label # NoLabel
                  => text[u].stmt = ErrorLine
        BY <1>N DEF LabelInv
      <3>2. \A t, u \in TextNrs' : t < u =>
               t \in TextNrs /\ (u \in TextNrs \/ u = n + 1)
        BY <1>1, <1>7
      <3> QED
        BY <1>0, <1>8, <2>3, <3>1, <3>2
    <2>7. \A l \in Labels : table'[l] # NotFound => table'[l] \in 1 .. code_nr' + 1
      <3>1. \A l \in Labels : table[l] # NotFound => table[l] \in 1 .. code_nr + 1
        BY <1>N DEF LabelInv
      <3> QED
        BY <1>1, <1>2, <1>5, <2>1, <3>1
    <2>8. \A l \in Labels : table'[l] # NotFound =>
             \E t \in TextNrs' : text'[t].label = l /\ text'[t].code_nr = table'[l]
      <3>1. \A l \in Labels : table[l] # NotFound =>
               \E t \in TextNrs : text[t].label = l /\ text[t].code_nr = table[l]
        BY <1>2, <1>N DEF LabelInv
      <3> QED
        <4> TAKE l \in Labels
        <4> HAVE table'[l] # NotFound
        <4>1. CASE l = label /\ ~IsDuplicate(label)
          BY <4>1, <1>7, <1>8, <2>1
        <4>2. CASE ~(l = label /\ ~IsDuplicate(label))
          <5>1. PICK t \in TextNrs : text[t].label = l /\ text[t].code_nr = table[l]
            BY <4>2, <2>1, <3>1
          <5> QED
            BY <5>1, <4>2, <1>7, <1>8, <2>1
        <4> QED
          BY <4>1, <4>2
    <2> QED
      BY <2>4, <2>5, <2>6, <2>7, <2>8 DEF LabelInv
  <1> QED
    BY <1>6, <1>11, <1>12 DEF ParserInv

\* One statement too many, and the end of the text (eof_line), preserve it too.
LEMMA ParseOtherPreserves ==
    ASSUME ParserInv,
           \/ \E line \in Lines : ParseOverflow(line.label, line.body)
           \/ \E label \in Labels \cup {NoLabel} : ParseEof(label)
    PROVE  ParserInv'
  <1>1. CASE \E line \in Lines : ParseOverflow(line.label, line.body)
    <2>1. UNCHANGED parsed /\ phase' = "exit" /\ ParserType'
      BY <1>1 DEF ParseOverflow, parsed, ParserInv, ParserType
    <2> QED
      BY <2>1, ParsedStable
  <1>2. ASSUME NEW label \in Labels \cup {NoLabel}, ParseEof(label)
        PROVE  ParserInv'
    <2>1. /\ text' = text /\ code' = code /\ code_nr' = code_nr
          /\ phase' = "parsed" /\ phase = "parse"
          /\ \A l \in Labels : table'[l] = IF l = label THEN code_nr + 1 ELSE table[l]
          /\ label \in Labels => table[label] = NotFound
          /\ code_nr + 1 < NotFound
          /\ table' \in [Labels -> 0 .. NotFound]
      BY <1>2, ParserAssumption DEF ParseEof, InsertKey, IsDuplicate, ParserInv,
         NumberingInv, NotFound, ParserType
    <2>2. ParserType'
      BY <2>1 DEF ParserInv, ParserType
    <2>3. NumberingInv'
      BY <2>1 DEF ParserInv, NumberingInv, TextNrs, CodeNrs, NextNr, IsEmpty
    <2>4. \A t \in TextNrs : text[t].label \in Labels \cup {NoLabel}
      <3>1. \A t \in TextNrs : text[t] \in TextLines
        BY DEF ParserInv, ParserType, TextNrs
      <3> QED
        BY <3>1 DEF TextLines
    <2>5. LabelInv'
      <3>1. LabelInv /\ code_nr \in Nat /\ code_nr + 1 # NotFound
        BY <2>1 DEF ParserInv, ParserType, NotFound
      <3>2. \A t \in TextNrs : text[t].label # NoLabel => text[t].label # label
        BY <2>1, <2>4, <3>1 DEF LabelInv
      <3>3. \A t \in TextNrs : text[t].label # NoLabel
                => table'[text[t].label] = table[text[t].label]
        BY <2>1, <2>4, <3>2
      <3>4. TextNrs' = TextNrs
        BY <2>1 DEF TextNrs
      <3>5. \A l \in Labels : table'[l] # NotFound => table'[l] \in 1 .. code_nr + 1
        BY <2>1, <3>1 DEF LabelInv
      <3>6. \A l \in Labels : table'[l] # NotFound /\ table'[l] <= code_nr =>
               \E t \in TextNrs : text[t].label = l /\ text[t].code_nr = table'[l]
        BY <2>1, <3>1 DEF LabelInv
      <3> QED
        BY <2>1, <3>1, <3>3, <3>4, <3>5, <3>6 DEF LabelInv
    <2> QED
      BY <2>2, <2>3, <2>5 DEF ParserInv
  <1> QED
    BY <1>1, <1>2

\* Every step of the program preserves what the parser established.
LEMMA ParserStep ==
    ASSUME ParserInv, [Next]_vars
    PROVE  ParserInv'
  <1>1. CASE ParserNext
    BY <1>1, ParseLinePreserves, ParseOtherPreserves DEF ParserNext
  <1>2. CASE ~ParserNext
    BY <1>2, OtherSteps, ParsedStable DEF ParserInv
  <1> QED
    BY <1>1, <1>2

-----------------------------------------------------------------------------
(* Stage 2: the resolver.                                                  *)

\* A distance that fits is its own remainder.
LEMMA ModSmall ==
    ASSUME NEW U \in Nat, U > 0, NEW x \in 0 .. U - 1
    PROVE  x % U = x
  OBVIOUS

\* A distance below zero wraps to the top of the width.
LEMMA ModNegative ==
    ASSUME NEW U \in Nat, U > 0, NEW x \in Int, x < 0, x >= -U
    PROVE  x % U = x + U
  OBVIOUS

\* The statement of a code line is one that counts as code.
LEMMA StmtType ==
    ASSUME ParserInv, NEW c \in CodeNrs
    PROVE  /\ code[c] \in TextNrs
           /\ text[code[c]].code_nr = c
           /\ StmtAt(c) \in CodeBodies
  <1>1. /\ code[c] \in TextNrs
        /\ text[code[c]].code_nr = c
        /\ text[code[c]].stmt # EmptyLine
    BY DEF ParserInv, NumberingInv, IsEmpty
  <1>2. text[code[c]] \in TextLines
    BY <1>1 DEF ParserInv, ParserType, TextNrs
  <1> QED
    BY <1>1, <1>2 DEF StmtAt, TextLines

\* The type of a code statement tells which kind of statement it is.
LEMMA StmtKinds ==
    ASSUME NEW s \in CodeBodies
    PROVE  /\ s.type \in {"ASSIGN_LINE", "JUMP_LINE", "RETURN_LINE", "ERROR_LINE"}
           /\ s.type = "ASSIGN_LINE" => s \in AssignLines
           /\ s.type = "JUMP_LINE" => s \in JumpLines
           /\ s.type = "RETURN_LINE" => s \in ReturnLines
  BY DEF CodeBodies, AssignLines, JumpLines, ReturnLines, ErrorLine

\* A target whose 16-bit offset does not look negative is ahead, and the offset
\* leads back to it.
LEMMA ForwardTarget ==
    ASSUME ParserInv, NEW c \in CodeNrs, NEW t \in 0 .. NotFound,
           t <= code_nr + 1, ~Negative(Offset(t, c))
    PROVE  t > c /\ Offset(t, c) \in Nat /\ c + Offset(t, c) + 1 = t
  <1>1. /\ Uint16 \in Nat /\ Uint16 > 0 /\ MaxLines \in Nat
        /\ 2 * MaxLines + 4 <= Uint16
    BY ParserAssumption
  <1>2. /\ code_nr <= MaxLines /\ code_nr \in Nat
        /\ c \in 1 .. code_nr
        /\ t \in Nat
    BY <1>1 DEF ParserInv, ParserType, NumberingInv, CodeNrs, NotFound, TextNrs
  <1>3. CASE t > c
    <2>1. t - c - 1 \in 0 .. Uint16 - 1
      BY <1>1, <1>2, <1>3
    <2>2. Offset(t, c) = t - c - 1
      BY <1>1, <2>1, ModSmall DEF Offset
    <2> QED
      BY <1>2, <1>3, <2>1, <2>2
  <1>4. CASE ~(t > c)
    <2>1. t - c - 1 \in Int /\ t - c - 1 < 0 /\ t - c - 1 >= -Uint16
      BY <1>1, <1>2, <1>4
    <2>2. Offset(t, c) = t - c - 1 + Uint16
      BY <1>1, <2>1, ModNegative DEF Offset
    <2>3. Offset(t, c) >= Uint16 \div 2
      BY <1>1, <1>2, <2>2
    <2> QED
      BY <2>3 DEF Negative
  <1> QED
    BY <1>3, <1>4

\* What the resolver has checked of a jump it lets through.
LEMMA GoodJump ==
    ASSUME ParserInv, NEW c \in CodeNrs, StmtAt(c).type = "JUMP_LINE",
           ~JumpError(StmtAt(c), c)
    PROVE  /\ JumpTargets(StmtAt(c), c) \subseteq c + 1 .. bpf_len
           /\ Offset(JtTarget(StmtAt(c)), c) \in Nat
           /\ c + Offset(JtTarget(StmtAt(c)), c) + 1 = JtTarget(StmtAt(c))
           /\ StmtAt(c).cond =>
                /\ Offset(JfTarget(StmtAt(c), c), c) \in Nat
                /\ c + Offset(JfTarget(StmtAt(c), c), c) + 1 = JfTarget(StmtAt(c), c)
  <1> DEFINE s == StmtAt(c)
  <1>1. s \in JumpLines
    BY StmtType, StmtKinds
  <1>2. s.jt \in Labels /\ s.jf \in Labels \cup {NoLabel} /\ s.cond \in BOOLEAN
    BY <1>1 DEF JumpLines
  <1>3. /\ bpf_len = code_nr /\ code_nr \in Nat /\ c \in 1 .. code_nr
        /\ code_nr + 1 < NotFound /\ NotFound \in Nat
    BY ParserAssumption
       DEF ParserInv, ParserType, NumberingInv, bpf_len, CodeNrs, NotFound
  <1>4. \A l \in Labels : table[l] \in 0 .. NotFound
    BY DEF ParserInv, ParserType
  <1> HIDE DEF s
  <1>5. JtTarget(s) \in 0 .. NotFound
    BY <1>2, <1>4 DEF JtTarget
  <1>6. JfTarget(s, c) \in 0 .. NotFound
    BY <1>2, <1>3, <1>4 DEF JfTarget
  <1>7. CASE s.cond
    <2>1. /\ JtTarget(s) <= bpf_len /\ ~Negative(Offset(JtTarget(s), c))
          /\ JfTarget(s, c) <= bpf_len /\ ~Negative(Offset(JfTarget(s, c), c))
      BY <1>3, <1>5, <1>6, <1>7 DEF JumpError, CondTargetError, s
    <2>2. /\ JtTarget(s) > c
          /\ Offset(JtTarget(s), c) \in Nat
          /\ c + Offset(JtTarget(s), c) + 1 = JtTarget(s)
      BY <1>3, <1>5, <2>1, ForwardTarget
    <2>3. /\ JfTarget(s, c) > c
          /\ Offset(JfTarget(s, c), c) \in Nat
          /\ c + Offset(JfTarget(s, c), c) + 1 = JfTarget(s, c)
      BY <1>3, <1>6, <2>1, ForwardTarget
    <2>4. JumpTargets(s, c) = {JtTarget(s), JfTarget(s, c)}
      BY <1>7 DEF JumpTargets
    <2>5. JumpTargets(s, c) \subseteq c + 1 .. bpf_len
      BY <1>3, <1>5, <1>6, <2>1, <2>2, <2>3, <2>4
    <2> QED
      BY <2>2, <2>3, <2>5 DEF s
  <1>8. CASE ~s.cond
    <2>1. JtTarget(s) <= bpf_len /\ ~Negative(Offset(JtTarget(s), c))
      BY <1>3, <1>5, <1>8 DEF JumpError, JaError, s
    <2>2. /\ JtTarget(s) > c
          /\ Offset(JtTarget(s), c) \in Nat
          /\ c + Offset(JtTarget(s), c) + 1 = JtTarget(s)
      BY <1>3, <1>5, <2>1, ForwardTarget
    <2>3. JumpTargets(s, c) = {JtTarget(s)}
      BY <1>8 DEF JumpTargets
    <2>4. JumpTargets(s, c) \subseteq c + 1 .. bpf_len
      BY <1>3, <1>5, <2>1, <2>2, <2>3
    <2> QED
      BY <1>8, <2>2, <2>4 DEF s
  <1> QED
    BY <1>2, <1>7, <1>8

\* The lines resolved before line i keep what was shown of them, and the edge
\* that reaches line i is now settled.
LEMMA OldLines ==
    ASSUME ParserInv, FlowInv, phase = "resolve", i \in CodeNrs, ~has_error,
           UNCHANGED parserVars, i' = i + 1,
           entry' = [entry EXCEPT ![i] = valid_here],
           \A d \in CodeNrs : masks'[d] \subseteq masks[d],
           \A c \in 1 .. i - 1 : off'[c] = off[c]
    PROVE  \A c \in 1 .. i - 1 : LineInv(c)' /\ EdgeInv(c)'
  <1>1. /\ i \in Nat /\ i >= 1 /\ bpf_len \in Nat /\ i <= bpf_len
        /\ entry \in [CodeNrs -> SUBSET Slots]
        /\ CodeNrs = 1 .. bpf_len
        /\ \A c \in 1 .. i - 1 : LineInv(c) /\ EdgeInv(c)
    BY DEF FlowInv, Resolved, CodeNrs, bpf_len, ParserInv, ParserType
  <1>2. /\ entry'[i] \subseteq masks[i]
        /\ entry'[i] \subseteq mem_valid
        /\ \A c \in CodeNrs : c # i => entry'[c] = entry[c]
    BY <1>1 DEF valid_here
  <1>3. /\ \A c \in CodeNrs : StmtAt(c)' = StmtAt(c)
        /\ bpf_len' = bpf_len
        /\ table' = table
    BY DEF parserVars, StmtAt, bpf_len
  <1> SUFFICES ASSUME NEW c \in 1 .. i - 1 PROVE LineInv(c)' /\ EdgeInv(c)'
    OBVIOUS
  <1>4. c \in CodeNrs /\ c # i /\ c \in Nat /\ c < i /\ LineInv(c) /\ EdgeInv(c)
    BY <1>1
  <1>5. LineInv(c)'
    BY <1>2, <1>3, <1>4 DEF LineInv, JumpTargets, JtTarget, JfTarget
  <1>6. EdgeInv(c)'
    <2>1. ASSUME StmtAt(c).type = "JUMP_LINE",
                 NEW d \in JumpTargets(StmtAt(c), c)
          PROVE  IF d < i' THEN entry'[d] \subseteq entry'[c]
                           ELSE masks'[d] \subseteq entry'[c]
      <3>1. d \in c + 1 .. bpf_len
        BY <2>1, <1>4 DEF LineInv
      <3>2. d \in CodeNrs /\ d \in Nat /\ entry'[c] = entry[c]
        BY <3>1, <1>1, <1>2, <1>4
      <3>3. IF d < i THEN entry[d] \subseteq entry[c] ELSE masks[d] \subseteq entry[c]
        BY <2>1, <1>4 DEF EdgeInv
      <3>4. CASE d < i
        BY <3>2, <3>3, <3>4, <1>1, <1>2
      <3>5. CASE d = i
        BY <3>2, <3>3, <3>5, <1>1, <1>2
      <3>6. CASE d > i
        <4>1. ~(d < i')
          BY <3>2, <3>6, <1>1
        <4> QED
          BY <3>2, <3>3, <3>6, <4>1, <1>1
      <3> QED
        BY <3>2, <3>4, <3>5, <3>6, <1>1
    <2>2. ASSUME StmtAt(c).type # "JUMP_LINE"
          PROVE  /\ c + 1 < i' => entry'[c + 1] \subseteq After(c)'
                 /\ c + 1 = i' => mem_valid' \subseteq After(c)'
      <3>1. /\ c + 1 < i => entry[c + 1] \subseteq After(c)
            /\ c + 1 = i => mem_valid \subseteq After(c)
        BY <2>2, <1>4 DEF EdgeInv
      <3>2. After(c)' = After(c)
        BY <1>2, <1>3, <1>4 DEF After
      <3>3. c + 1 \in CodeNrs /\ c + 1 # i' /\ (c + 1 < i \/ c + 1 = i)
        BY <1>1, <1>4
      <3> QED
        BY <3>1, <3>2, <3>3, <1>2
    <2> QED
      BY <2>1, <2>2, <1>3, <1>4 DEF EdgeInv, JumpTargets, JtTarget, JfTarget
  <1> QED
    BY <1>5, <1>6

\* The part of FlowInv every kind of line shares: given what is shown of line i
\* itself, the loop may move on.
LEMMA ResolveAdvance ==
    ASSUME ParserInv, FlowInv, NEW error, Advance(error),
           NEW here \in CodeNrs, here = i,
           mem_valid' \subseteq Slots,
           masks' \in [CodeNrs -> SUBSET Slots],
           off' \in [CodeNrs -> [jt : Nat, jf : Nat]],
           \A d \in CodeNrs : masks'[d] \subseteq masks[d],
           \A c \in 1 .. i - 1 : off'[c] = off[c],
           ~has_error' => LineInv(here)' /\ EdgeInv(here)'
    PROVE  FlowInv'
  <1>1. /\ phase = "resolve" /\ UNCHANGED parserVars
        /\ i' = i + 1
        /\ entry' = [entry EXCEPT ![i] = valid_here]
        /\ has_error' = (has_error \/ error)
        /\ i <= bpf_len
    BY DEF Advance
  <1>2. /\ i \in 1 .. bpf_len + 1 /\ bpf_len > 0 /\ bpf_len \in Nat
        /\ CodeNrs = 1 .. bpf_len
        /\ entry \in [CodeNrs -> SUBSET Slots]
        /\ mem_valid \subseteq Slots
        /\ has_error \in BOOLEAN
        /\ i = 1 => mem_valid = {}
        /\ entry[1] = {}
    BY <1>1 DEF FlowInv, Resolved, CodeNrs, bpf_len, ParserInv, ParserType
  <1>3. i \in CodeNrs /\ i \in Nat
    BY <1>1, <1>2
  <1>4. /\ phase' = "resolve" /\ CodeNrs' = CodeNrs /\ bpf_len' = bpf_len
    BY <1>1 DEF parserVars, CodeNrs, bpf_len
  <1>5. /\ entry' \in [CodeNrs -> SUBSET Slots]
        /\ entry'[1] = {}
    BY <1>1, <1>2, <1>3 DEF valid_here
  <1>6. ASSUME ~has_error' PROVE \A c \in 1 .. i' - 1 : LineInv(c)' /\ EdgeInv(c)'
    <2>1. ~has_error
      BY <1>1, <1>2, <1>6
    <2>2. \A c \in 1 .. i - 1 : LineInv(c)' /\ EdgeInv(c)'
      BY <1>1, <1>3, <2>1, OldLines
    <2>3. \A c \in 1 .. i' - 1 : c \in 1 .. i - 1 \/ c = here
      BY <1>1, <1>3
    <2> QED
      BY <1>6, <2>2, <2>3
  <1>7. i' \in 1 .. bpf_len + 1 /\ i' # 1
    BY <1>1, <1>2, <1>3
  <1>8. has_error' \in BOOLEAN
    BY <1>1, <1>2
  <1> QED
    BY <1>2, <1>4, <1>5, <1>6, <1>7, <1>8 DEF FlowInv, Resolved

\* assign_line of resolver.c keeps the invariant of the pass: a store that is
\* accepted makes its word valid for the next line.
LEMMA AssignAdvance ==
    ASSUME ParserInv, FlowInv, ResolveAssign
    PROVE  FlowInv'
  <1> DEFINE s == StmtAt(i)
             error == AssignError(s, valid_here)
  <1>1. /\ phase = "resolve" /\ i <= bpf_len
        /\ s.type = "ASSIGN_LINE"
        /\ Advance(error)
        /\ mem_valid' = IF s.left.type = "MEM" /\ ~error
                          THEN valid_here \cup {s.left.data} ELSE valid_here
        /\ masks' = masks /\ off' = off
    BY DEF ResolveAssign
  <1>2. /\ i \in CodeNrs /\ i \in Nat
        /\ masks \in [CodeNrs -> SUBSET Slots]
        /\ off \in [CodeNrs -> [jt : Nat, jf : Nat]]
        /\ entry \in [CodeNrs -> SUBSET Slots]
        /\ valid_here \subseteq Slots
    BY <1>1 DEF FlowInv, Resolved, CodeNrs, bpf_len, ParserInv, ParserType, valid_here
  <1>3. s \in AssignLines
    BY <1>1, <1>2, StmtType, StmtKinds
  <1>4. ASSUME s.left.type = "MEM", ~error PROVE s.left.data \in Slots
    <2>1. s.left.data \in Nat /\ ~(s.left.data >= BPF_MEMWORDS)
      BY <1>3, <1>4 DEF AssignError, AssignMemError, AssignLines, Obj, LeftTypes
    <2> QED
      BY <2>1, ResolverAssumption DEF Slots
  <1>5. mem_valid' \subseteq Slots
    BY <1>1, <1>2, <1>4
  <1>6. /\ text' = text /\ code' = code /\ table' = table
        /\ i' = i + 1
        /\ entry' = [entry EXCEPT ![i] = valid_here]
        /\ has_error' = (has_error \/ error)
        /\ entry'[i] = valid_here
    BY <1>1, <1>2 DEF Advance, parserVars, StmtAt
  <1>p. PICK c \in CodeNrs : c = i
    BY <1>2
  <1>7. ASSUME ~has_error' PROVE LineInv(c)' /\ EdgeInv(c)'
    <2>1. ~error
      BY <1>6, <1>7
    <2>2. StmtAt(c)' = s /\ entry'[c] = valid_here
      BY <1>p, <1>6 DEF StmtAt
    <2>3. LineInv(c)'
      BY <1>1, <2>1, <2>2 DEF LineInv
    <2>4. After(c)' = IF s.left.type = "MEM" THEN valid_here \cup {s.left.data}
                                             ELSE valid_here
      BY <1>1, <2>2 DEF After
    <2>5. mem_valid' \subseteq After(c)'
      BY <1>1, <2>1, <2>4
    <2>6. ~(c + 1 < i')
      BY <1>2, <1>6, <1>p
    <2> QED
      BY <1>1, <2>2, <2>3, <2>5, <2>6 DEF EdgeInv
  <1> QED
    BY <1>1, <1>2, <1>5, <1>p, <1>7, ResolveAdvance

\* jump_line of resolver.c keeps it: both targets are masked with the words
\* valid at the jump.
LEMMA JumpAdvance ==
    ASSUME ParserInv, FlowInv, ResolveJump
    PROVE  FlowInv'
  <1> DEFINE s == StmtAt(i)
             error == JumpError(s, i)
  <1>1. /\ phase = "resolve" /\ i <= bpf_len
        /\ s.type = "JUMP_LINE"
        /\ Advance(error)
        /\ error => mem_valid' = valid_here /\ masks' = masks /\ off' = off
        /\ ~error =>
             /\ masks' = [d \in 1 .. bpf_len |->
                            IF d \in JumpTargets(s, i) THEN masks[d] \cap valid_here
                                                       ELSE masks[d]]
             /\ mem_valid' = Slots
             /\ off' = [off EXCEPT ![i] =
                          [jt |-> Offset(JtTarget(s), i),
                           jf |-> IF s.cond THEN Offset(JfTarget(s, i), i) ELSE 0]]
    BY DEF ResolveJump
  <1>2. /\ i \in CodeNrs /\ i \in Nat
        /\ CodeNrs = 1 .. bpf_len
        /\ masks \in [CodeNrs -> SUBSET Slots]
        /\ off \in [CodeNrs -> [jt : Nat, jf : Nat]]
        /\ entry \in [CodeNrs -> SUBSET Slots]
        /\ valid_here \subseteq Slots
    BY <1>1 DEF FlowInv, Resolved, CodeNrs, bpf_len, ParserInv, ParserType, valid_here
  <1>3. /\ text' = text /\ code' = code /\ table' = table
        /\ i' = i + 1
        /\ has_error' = (has_error \/ error)
        /\ entry'[i] = valid_here
    BY <1>1, <1>2 DEF Advance, parserVars
  <1>p. PICK c \in CodeNrs : c = i
    BY <1>2
  <1>4. StmtAt(c)' = StmtAt(c) /\ StmtAt(c) = s /\ bpf_len' = bpf_len
    BY <1>3, <1>p DEF StmtAt, bpf_len
  <1>5. CASE error
    <2>1. ~has_error' => LineInv(c)' /\ EdgeInv(c)'
      BY <1>3, <1>5
    <2> QED
      BY <1>1, <1>2, <1>5, <1>p, <2>1, ResolveAdvance
  <1>6. CASE ~error
    <2>1. /\ JumpTargets(s, i) \subseteq c + 1 .. bpf_len
          /\ Offset(JtTarget(s), i) \in Nat
          /\ c + Offset(JtTarget(s), i) + 1 = JtTarget(s)
          /\ s.cond => /\ Offset(JfTarget(s, i), i) \in Nat
                       /\ c + Offset(JfTarget(s, i), i) + 1 = JfTarget(s, i)
      BY <1>1, <1>2, <1>6, <1>p, GoodJump
    <2>2. /\ mem_valid' \subseteq Slots
          /\ masks' \in [CodeNrs -> SUBSET Slots]
          /\ \A d \in CodeNrs : masks'[d] \subseteq masks[d]
          /\ \A d \in JumpTargets(s, i) : masks'[d] \subseteq valid_here
      BY <1>1, <1>2, <1>6, <1>p, <2>1
    <2>3. /\ off' \in [CodeNrs -> [jt : Nat, jf : Nat]]
          /\ \A d \in 1 .. i - 1 : off'[d] = off[d]
          /\ off'[c].jt = Offset(JtTarget(s), i)
          /\ s.cond => off'[c].jf = Offset(JfTarget(s, i), i)
      <3> DEFINE jf == IF s.cond THEN Offset(JfTarget(s, i), i) ELSE 0
                 new == [jt |-> Offset(JtTarget(s), i), jf |-> jf]
      <3>1. new \in [jt : Nat, jf : Nat] /\ (s.cond => jf = Offset(JfTarget(s, i), i))
        BY <2>1
      <3>2. off' = [off EXCEPT ![i] = new]
        BY <1>1, <1>6
      <3> HIDE DEF jf
      <3>3. off' \in [CodeNrs -> [jt : Nat, jf : Nat]] /\ off'[c] = new
        BY <1>2, <1>p, <3>1, <3>2
      <3>4. \A d \in 1 .. i - 1 : off'[d] = off[d]
        BY <1>2, <3>2
      <3> QED
        BY <3>1, <3>3, <3>4
    <2>4. /\ JumpTargets(StmtAt(c), c)' = JumpTargets(s, i)
          /\ JtTarget(StmtAt(c))' = JtTarget(s)
          /\ JfTarget(StmtAt(c), c)' = JfTarget(s, i)
      BY <1>3, <1>4, <1>p DEF JumpTargets, JtTarget, JfTarget
    <2>5. LineInv(c)'
      BY <1>1, <1>4, <2>1, <2>3, <2>4 DEF LineInv
    <2>6. \A d \in JumpTargets(s, i) : ~(d < i')
      BY <1>2, <1>3, <1>p, <2>1
    <2>7. EdgeInv(c)'
      BY <1>1, <1>3, <1>4, <1>p, <2>2, <2>4, <2>6 DEF EdgeInv
    <2> QED
      BY <1>1, <1>p, <2>2, <2>3, <2>5, <2>7, ResolveAdvance
  <1> QED
    BY <1>5, <1>6

\* A return line and an ERROR_LINE keep it: they write no word.
LEMMA PlainAdvance ==
    ASSUME ParserInv, FlowInv, ResolveReturn \/ ResolveErrorLine
    PROVE  FlowInv'
  <1> DEFINE s == StmtAt(i)
  <1>1. PICK error :
           /\ phase = "resolve" /\ i <= bpf_len
           /\ s.type \in {"RETURN_LINE", "ERROR_LINE"}
           /\ s.type = "ERROR_LINE" => error
           /\ Advance(error)
           /\ mem_valid' = valid_here
           /\ masks' = masks /\ off' = off
    BY DEF ResolveReturn, ResolveErrorLine
  <1>2. /\ i \in CodeNrs /\ i \in Nat
        /\ masks \in [CodeNrs -> SUBSET Slots]
        /\ off \in [CodeNrs -> [jt : Nat, jf : Nat]]
        /\ entry \in [CodeNrs -> SUBSET Slots]
        /\ valid_here \subseteq Slots
    BY <1>1 DEF FlowInv, Resolved, CodeNrs, bpf_len, ParserInv, ParserType, valid_here
  <1>3. /\ text' = text /\ code' = code
        /\ i' = i + 1
        /\ has_error' = (has_error \/ error)
        /\ entry'[i] = valid_here
    BY <1>1, <1>2 DEF Advance, parserVars
  <1>p. PICK c \in CodeNrs : c = i
    BY <1>2
  <1>4. ASSUME ~has_error' PROVE LineInv(c)' /\ EdgeInv(c)'
    <2>1. StmtAt(c)' = s /\ s.type = "RETURN_LINE" /\ entry'[c] = valid_here
      BY <1>1, <1>3, <1>4, <1>p DEF StmtAt
    <2>2. After(c)' = valid_here
      BY <2>1 DEF After
    <2>3. ~(c + 1 < i')
      BY <1>2, <1>3, <1>p
    <2> QED
      BY <1>1, <2>1, <2>2, <2>3 DEF LineInv, EdgeInv
  <1> QED
    BY <1>1, <1>2, <1>4, <1>p, ResolveAdvance

\* A step that changes nothing of the resolver's keeps its invariant.
LEMMA FlowStable ==
    ASSUME FlowInv, UNCHANGED parsed, UNCHANGED resolverVars,
           Resolved' => Resolved /\ (phase' # "resolve" => phase # "resolve")
    PROVE  FlowInv'
  <1> SUFFICES ASSUME Resolved' PROVE FlowInv'
    BY DEF FlowInv
  <1>1. Resolved /\ (phase' # "resolve" => phase # "resolve")
    OBVIOUS
  <1>2. /\ text' = text /\ code' = code /\ table' = table /\ i' = i
        /\ masks' = masks /\ mem_valid' = mem_valid /\ has_error' = has_error
        /\ off' = off /\ entry' = entry
    BY DEF parsed, resolverVars
  <1>3. \A c : LineInv(c)' = LineInv(c)
    BY <1>2 DEF LineInv, StmtAt, JumpTargets, JtTarget, JfTarget, bpf_len
  <1>4. \A c : EdgeInv(c)' = EdgeInv(c)
    BY <1>2 DEF EdgeInv, After, StmtAt, JumpTargets, JtTarget, JfTarget
  <1>5. CodeNrs' = CodeNrs /\ bpf_len' = bpf_len /\ StmtAt(bpf_len)' = StmtAt(bpf_len)
    BY <1>2 DEF CodeNrs, bpf_len, StmtAt
  <1> QED
    BY <1>1, <1>2, <1>3, <1>4, <1>5 DEF FlowInv

\* Every step of the program preserves the invariant of the resolver.
LEMMA FlowStep ==
    ASSUME ParserInv, FlowInv, [Next]_vars
    PROVE  FlowInv'
  <1>1. CASE ParserNext /\ UNCHANGED <<resolverVars, emuVars>>
    <2>1. phase' \in {"parse", "parsed", "exit"}
      BY <1>1 DEF ParserNext, ParseLine, ParseOverflow, ParseEof
    <2> QED
      BY <2>1 DEF FlowInv, Resolved
  <1>2. CASE StartResolve
    <2>1. CASE bpf_len = 0
      BY <1>2, <2>1 DEF StartResolve, FlowInv, Resolved
    <2>2. CASE bpf_len # 0
      <3>1. /\ phase' = "resolve" /\ i' = 1 /\ mem_valid' = {} /\ has_error' = FALSE
            /\ masks' = [c \in 1 .. bpf_len |-> Slots]
            /\ off' = [c \in 1 .. bpf_len |-> [jt |-> 0, jf |-> 0]]
            /\ entry' = [c \in 1 .. bpf_len |-> {}]
            /\ code' = code
        BY <1>2, <2>2 DEF StartResolve
      <3>2. /\ bpf_len \in Nat /\ bpf_len > 0 /\ bpf_len' = bpf_len
            /\ CodeNrs' = 1 .. bpf_len
        BY <2>2, <3>1 DEF bpf_len, CodeNrs, ParserInv, ParserType
      <3>3. /\ masks' \in [CodeNrs' -> SUBSET Slots]
            /\ entry' \in [CodeNrs' -> SUBSET Slots]
            /\ off' \in [CodeNrs' -> [jt : Nat, jf : Nat]]
            /\ entry'[1] = {}
            /\ 1 .. i' - 1 = {}
        BY <3>1, <3>2
      <3>4. \A c \in 1 .. i' - 1 : LineInv(c)' /\ EdgeInv(c)'
        BY <3>3
      <3>5. i' \in 1 .. bpf_len' + 1 /\ bpf_len' > 0
        BY <3>1, <3>2
      <3>6. has_error' \in BOOLEAN /\ mem_valid' \subseteq Slots
        BY <3>1
      <3> QED
        BY <3>1, <3>3, <3>4, <3>5, <3>6 DEF FlowInv
    <2> QED
      BY <2>1, <2>2
  <1>3. CASE FinishResolve
    <2>1. /\ phase = "resolve" /\ i > bpf_len /\ UNCHANGED parsed
          /\ has_error' = (has_error \/ StmtAt(bpf_len).type # "RETURN_LINE")
          /\ phase' = IF has_error' THEN "exit" ELSE "ready"
          /\ UNCHANGED <<i, masks, mem_valid, off, entry>>
      BY <1>3 DEF FinishResolve, parsed
    <2>2. CASE has_error'
      BY <2>1, <2>2 DEF FlowInv, Resolved
    <2>3. CASE ~has_error'
      <3>0. has_error \in BOOLEAN /\ i \in 1 .. bpf_len + 1
        BY <2>1 DEF FlowInv, Resolved
      <3>5. ~has_error /\ StmtAt(bpf_len).type = "RETURN_LINE" /\ phase' = "ready"
        BY <2>1, <2>3, <3>0
      <3>6. bpf_len \in Nat
        BY DEF bpf_len, ParserInv, ParserType
      <3>7. i = bpf_len + 1
        BY <2>1, <3>0, <3>6
      <3>1. /\ ~has_error /\ has_error \in BOOLEAN
            /\ StmtAt(bpf_len).type = "RETURN_LINE"
            /\ phase' = "ready"
            /\ i = bpf_len + 1
        BY <3>0, <3>5, <3>7
      <3>2. /\ text' = text /\ code' = code /\ table' = table
            /\ bpf_len' = bpf_len /\ StmtAt(bpf_len)' = StmtAt(bpf_len)
            /\ CodeNrs' = CodeNrs
        BY <2>1 DEF parsed, bpf_len, StmtAt, CodeNrs
      <3>3. /\ \A c : LineInv(c)' = LineInv(c)
            /\ \A c : EdgeInv(c)' = EdgeInv(c)
        BY <2>1, <3>2 DEF LineInv, EdgeInv, After, StmtAt, JumpTargets, JtTarget,
           JfTarget, bpf_len
      <3>4. has_error' = FALSE
        BY <2>1, <2>3, <3>1
      <3> QED
        BY <2>1, <3>1, <3>2, <3>3, <3>4 DEF FlowInv, Resolved
    <2> QED
      BY <2>2, <2>3
  <1>4. CASE ResolveAssign \/ ResolveJump \/ ResolveReturn \/ ResolveErrorLine
    BY <1>4, AssignAdvance, JumpAdvance, PlainAdvance
  <1>5. CASE \E d \in Inputs : StartRun(d)
    <2>1. /\ UNCHANGED parsed /\ UNCHANGED resolverVars
          /\ phase = "ready" /\ phase' = "emu"
      BY <1>5 DEF StartRun, parsed
    <2> QED
      BY <2>1, FlowStable DEF Resolved
  <1>6. CASE EmulateLine
    <2>1. /\ UNCHANGED parsed /\ UNCHANGED resolverVars
          /\ phase = "emu" /\ phase' \in {"emu", "ready"}
      BY <1>6 DEF EmulateLine, EmulateAssign, EmulateFPE, EmulateJump,
         EmulateReturn, EmulateEmpty, EndRun, parserVars, parsed
    <2> QED
      BY <2>1, FlowStable DEF Resolved
  <1>7. CASE UNCHANGED vars
    <2>1. UNCHANGED parsed /\ UNCHANGED resolverVars /\ phase' = phase
      BY <1>7 DEF vars, parserVars, parsed
    <2> QED
      BY <2>1, FlowStable DEF Resolved
  <1>8. CASE InitAttrFails
    BY <1>8 DEF InitAttrFails, FlowInv, Resolved
  <1> QED
    BY <1>1, <1>2, <1>3, <1>4, <1>5, <1>6, <1>7, <1>8 DEF Next, ResolverNext, Terminated

-----------------------------------------------------------------------------
(* Stage 3: the emulator.                                                  *)

\* Where a run stands: the line it has reached, the code line that comes next
\* and what the resolver showed of it.
LEMMA CurrentLine ==
    ASSUME ParserInv, FlowInv, WalkInv, phase = "emu", ~IsEmpty(idx)
    PROVE  /\ text[idx].code_nr \in CodeNrs
           /\ StmtAt(text[idx].code_nr) = Here
           /\ Here \in CodeBodies
           /\ LineInv(text[idx].code_nr)
           /\ EdgeInv(text[idx].code_nr)
           /\ i = bpf_len + 1
           /\ Here.type # "RETURN_LINE" => text[idx].code_nr + 1 \in CodeNrs
  <1> DEFINE c == text[idx].code_nr
  <1>1. c \in CodeNrs /\ idx \in TextNrs
    BY DEF WalkInv
  <1>2. StmtAt(c) = Here
    BY <1>1 DEF ParserInv, NumberingInv, StmtAt, Here
  <1>3. /\ i = bpf_len + 1 /\ ~has_error
        /\ \A d \in 1 .. i - 1 : LineInv(d) /\ EdgeInv(d)
        /\ StmtAt(bpf_len).type = "RETURN_LINE"
        /\ bpf_len \in Nat /\ CodeNrs = 1 .. bpf_len
    BY DEF FlowInv, Resolved, bpf_len, CodeNrs, ParserInv, ParserType
  <1>4. Here \in CodeBodies
    BY <1>1, <1>2, StmtType
  <1>5. LineInv(c) /\ EdgeInv(c)
    BY <1>1, <1>3
  <1>6. Here.type # "RETURN_LINE" => c + 1 \in CodeNrs
    BY <1>1, <1>2, <1>3
  <1> QED
    BY <1>1, <1>2, <1>3, <1>4, <1>5, <1>6

\* The text has a line after the one a run has reached, as long as there is
\* code to come.
LEMMA NextLine ==
    ASSUME ParserInv, idx \in TextNrs, NextNr(idx) \in CodeNrs
    PROVE  idx + 1 \in TextNrs /\ text[idx + 1].code_nr = NextNr(idx)
  <1>1. /\ code_nr \in Nat /\ Len(text) \in Nat /\ CodeNrs = 1 .. code_nr
        /\ TextNrs = 1 .. Len(text)
    BY DEF ParserInv, ParserType, NumberingInv, CodeNrs, TextNrs
  <1>2. /\ idx = Len(text) => NextNr(idx) = code_nr + 1
        /\ idx + 1 \in TextNrs => text[idx + 1].code_nr = NextNr(idx)
    BY DEF ParserInv, NumberingInv
  <1>3. idx # Len(text)
    BY <1>1, <1>2
  <1> QED
    BY <1>1, <1>2, <1>3

\* A filter that is run has no line that did not parse.
LEMMA NoErrorLine ==
    ASSUME ParserInv, FlowInv, phase = "emu", NEW t \in TextNrs
    PROVE  text[t].stmt # ErrorLine
  <1> SUFFICES ASSUME text[t].stmt = ErrorLine PROVE FALSE
    OBVIOUS
  <1>1. ~IsEmpty(t)
    BY DEF IsEmpty, EmptyLine, ErrorLine
  <1>2. text[t].code_nr \in CodeNrs /\ code[text[t].code_nr] = t
    BY <1>1 DEF ParserInv, NumberingInv
  <1>3. /\ i = bpf_len + 1 /\ bpf_len \in Nat /\ CodeNrs = 1 .. bpf_len
        /\ \A d \in 1 .. i - 1 : LineInv(d)
    BY DEF FlowInv, Resolved, bpf_len, CodeNrs, ParserInv, ParserType
  <1>4. LineInv(text[t].code_nr)
    BY <1>2, <1>3
  <1> QED
    BY <1>2, <1>4 DEF LineInv, StmtAt, ErrorLine

\* code_nr_to_text_nr lands on the line that declares the label, behind the
\* jump, whose next code line is the one the label stands for.
LEMMA Landing ==
    ASSUME ParserInv, FlowInv, WalkInv, phase = "emu", ~IsEmpty(idx),
           NEW key \in Labels \cup {NoLabel}, NEW offset \in Nat,
           NEW target \in CodeNrs,
           target > text[idx].code_nr,
           text[idx].code_nr + offset + 1 = target,
           key = NoLabel => target = text[idx].code_nr + 1,
           key # NoLabel => table[key] = target
    PROVE  /\ CodeNrToTextNr(idx, key, offset) \in TextNrs
           /\ CodeNrToTextNr(idx, key, offset) > idx
           /\ text[CodeNrToTextNr(idx, key, offset)].code_nr = target
  <1> DEFINE c == text[idx].code_nr
             T == code[target]
             hits == {t \in idx + 1 .. T : text[t].label = key}
  <1>1. /\ idx \in TextNrs /\ c \in CodeNrs
        /\ code_nr \in Nat /\ Len(text) \in Nat /\ CodeNrs = 1 .. code_nr
        /\ TextNrs = 1 .. Len(text)
    BY DEF WalkInv, ParserInv, ParserType, NumberingInv, CodeNrs, TextNrs
  <1>2. CASE key = NoLabel
    <2>1. NextNr(idx) = c + 1
      BY DEF NextNr
    <2>2. CodeNrToTextNr(idx, key, offset) = idx + 1
      BY <1>2 DEF CodeNrToTextNr
    <2> QED
      BY <1>1, <1>2, <2>1, <2>2, NextLine, SMTT(30)
  <1>3. CASE key # NoLabel
    <2>1. /\ T \in TextNrs /\ text[T].code_nr = target /\ NextNr(T) = target + 1
      BY <1>1 DEF ParserInv, NumberingInv, NextNr
    <2>2. NotFound \in Nat /\ target # NotFound
      BY <1>1, ParserAssumption DEF ParserInv, NumberingInv, NotFound
    <2>3. PICK u \in TextNrs : text[u].label = key /\ text[u].code_nr = target
      BY <1>1, <1>3, <2>2, SMTT(30) DEF ParserInv, LabelInv
    <2>4. \A t, v \in TextNrs : t < v => NextNr(t) <= text[v].code_nr
      BY DEF ParserInv, NumberingInv
    <2>5. NextNr(u) \in {target, target + 1}
      BY <1>1, <2>3 DEF NextNr
    <2>6. u <= T
      BY <1>1, <2>1, <2>3, <2>4, SMTT(30)
    <2>7. u > idx
      <3>1. ~(u < idx)
        BY <1>1, <2>3, <2>4, <2>5
      <3>2. u # idx
        BY <1>1, <2>3
      <3> QED
        BY <1>1, <2>3, <3>1, <3>2
    <2>8. \A t \in TextNrs : text[t].label = key => t = u
      <3>1. \A t \in TextNrs : text[t].stmt # ErrorLine
        BY NoErrorLine
      <3>2. \A t, v \in TextNrs :
              t < v /\ text[t].label = text[v].label /\ text[t].label # NoLabel
                 => text[v].stmt = ErrorLine
        BY DEF ParserInv, LabelInv
      <3>3. \A t \in TextNrs : text[t].label = key => ~(t < u) /\ ~(u < t)
        BY <1>3, <2>3, <3>1, <3>2
      <3> QED
        BY <1>1, <2>3, <3>3
    <2>9. hits = {u}
      <3>1. \A t \in idx + 1 .. T : t \in TextNrs
        BY <1>1, <2>1
      <3>2. u \in idx + 1 .. T
        BY <1>1, <2>1, <2>3, <2>6, <2>7
      <3> QED
        BY <2>3, <2>8, <3>1, <3>2
    <2>10. CodeNrToTextNr(idx, key, offset) = u
      <3>1. (CHOOSE t \in hits : \A v \in hits : v <= t) = u
        BY <2>9, <1>1, <2>3
      <3>2. hits # {}
        BY <2>9
      <3> QED
        BY <1>3, <3>1, <3>2 DEF CodeNrToTextNr
    <2> QED
      BY <2>3, <2>7, <2>10
  <1> QED
    BY <1>2, <1>3

\* Where the two sides of the jump a run has reached go.
LEMMA JumpLanding ==
    ASSUME ParserInv, FlowInv, WalkInv, phase = "emu", Here.type = "JUMP_LINE"
    PROVE  LET c == text[idx].code_nr
               Lands(key, offset, target) ==
                 LET u == CodeNrToTextNr(idx, key, offset)
                 IN  /\ c + offset + 1 \in 1 .. bpf_len
                     /\ u \in TextNrs /\ u > idx
                     /\ text[u].code_nr = target
                     /\ target \in CodeNrs
                     /\ entry[target] \subseteq entry[c]
           IN  /\ Lands(Here.jt, off[c].jt, JtTarget(Here))
               /\ Here.cond => Lands(Here.jf, off[c].jf, JfTarget(Here, c))
               /\ Here \in JumpLines
  <1> DEFINE c == text[idx].code_nr
  <1>1. ~IsEmpty(idx)
    BY DEF IsEmpty, Here, EmptyLine
  <1>2. /\ c \in CodeNrs /\ StmtAt(c) = Here /\ Here \in CodeBodies
        /\ LineInv(c) /\ EdgeInv(c) /\ i = bpf_len + 1
    BY <1>1, CurrentLine
  <1>3. Here \in JumpLines
    BY <1>2, StmtKinds
  <1>4. /\ Here.jt \in Labels /\ Here.jf \in Labels \cup {NoLabel}
        /\ Here.cond \in BOOLEAN /\ NoLabel \notin Labels
    BY <1>3, ParserAssumption DEF JumpLines
  <1>5. /\ bpf_len \in Nat /\ CodeNrs = 1 .. bpf_len
        /\ off[c].jt \in Nat /\ off[c].jf \in Nat
    BY <1>2 DEF FlowInv, Resolved, bpf_len, CodeNrs, ParserInv, ParserType
  <1>6. /\ JumpTargets(Here, c) \subseteq c + 1 .. bpf_len
        /\ c + off[c].jt + 1 = JtTarget(Here)
        /\ Here.cond => c + off[c].jf + 1 = JfTarget(Here, c)
    BY <1>2 DEF LineInv
  <1>7. \A d \in JumpTargets(Here, c) : d \in CodeNrs /\ d > c /\ d < i
    BY <1>2, <1>5, <1>6
  <1>8. \A d \in JumpTargets(Here, c) : entry[d] \subseteq entry[c]
    BY <1>2, <1>7 DEF EdgeInv
  <1>9. /\ JtTarget(Here) \in JumpTargets(Here, c)
        /\ Here.cond => JfTarget(Here, c) \in JumpTargets(Here, c)
    BY DEF JumpTargets
  <1>10. JtTarget(Here) = table[Here.jt]
    BY DEF JtTarget
  <1>11. /\ Here.jf = NoLabel => JfTarget(Here, c) = c + 1
         /\ Here.jf # NoLabel => JfTarget(Here, c) = table[Here.jf]
    BY DEF JfTarget
  <1>12. /\ CodeNrToTextNr(idx, Here.jt, off[c].jt) \in TextNrs
         /\ CodeNrToTextNr(idx, Here.jt, off[c].jt) > idx
         /\ text[CodeNrToTextNr(idx, Here.jt, off[c].jt)].code_nr = JtTarget(Here)
    <2>1. Here.jt \in Labels \cup {NoLabel} /\ Here.jt # NoLabel
      BY <1>4
    <2>2. JtTarget(Here) \in CodeNrs /\ JtTarget(Here) > c
      BY <1>7, <1>9
    <2> QED
      BY <1>1, <1>5, <1>6, <1>10, <2>1, <2>2, Landing
  <1>13. ASSUME Here.cond
         PROVE  /\ CodeNrToTextNr(idx, Here.jf, off[c].jf) \in TextNrs
                /\ CodeNrToTextNr(idx, Here.jf, off[c].jf) > idx
                /\ text[CodeNrToTextNr(idx, Here.jf, off[c].jf)].code_nr
                     = JfTarget(Here, c)
    <2>1. JfTarget(Here, c) \in CodeNrs /\ JfTarget(Here, c) > c
      BY <1>7, <1>9, <1>13
    <2> QED
      BY <1>1, <1>4, <1>5, <1>6, <1>11, <1>13, <2>1, Landing
  <1> QED
    BY <1>3, <1>5, <1>6, <1>7, <1>8, <1>9, <1>12, <1>13

\* Every step of the program preserves the invariant of a run: each word the
\* resolver took for written has been written.
LEMMA WalkStep ==
    ASSUME ParserInv, FlowInv, WalkInv, [Next]_vars
    PROVE  WalkInv'
  <1> SUFFICES ASSUME phase' = "emu" PROVE WalkInv'
    BY DEF WalkInv
  <1>1. CASE ParserNext
    BY <1>1 DEF ParserNext, ParseLine, ParseOverflow, ParseEof
  <1>2. CASE ResolverNext
    BY <1>2 DEF ResolverNext, StartResolve, ResolveAssign, ResolveJump,
       ResolveReturn, ResolveErrorLine, FinishResolve, Advance, parserVars
  <1>3. CASE \E d \in Inputs : StartRun(d)
    <2>1. /\ phase = "ready" /\ text' = text /\ code' = code /\ entry' = entry
          /\ idx' = 1 /\ written' = {}
      BY <1>3 DEF StartRun, resolverVars
    <2>2. bpf_len > 0 /\ entry[1] = {}
      BY <2>1 DEF FlowInv, Resolved
    <2>3. /\ Len(text) \in Nat /\ Len(code) \in Nat
          /\ Len(code) <= Len(text) /\ Len(code) > 0
      BY <2>2 DEF ParserInv, ParserType, NumberingInv, bpf_len
    <2>4. 1 \in TextNrs /\ 1 \in CodeNrs /\ text[1].code_nr = 1
      <3>1. text # <<>>
        BY <2>3
      <3> QED
        BY <2>3, <3>1 DEF TextNrs, CodeNrs, ParserInv, NumberingInv
    <2> QED
      BY <2>1, <2>2, <2>4 DEF WalkInv, TextNrs, CodeNrs
  <1>4. CASE EmulateLine
    <2>1. /\ phase = "emu" /\ text' = text /\ code' = code /\ entry' = entry
          /\ TextNrs' = TextNrs /\ CodeNrs' = CodeNrs
      BY <1>4 DEF EmulateLine, EmulateAssign, EmulateFPE, EmulateJump,
         EmulateReturn, EmulateEmpty, EndRun, parserVars, resolverVars, TextNrs, CodeNrs
    <2>p. PICK c \in CodeNrs : c = text[idx].code_nr
      BY <2>1 DEF WalkInv
    <2>2. idx \in TextNrs /\ entry[c] \subseteq written
      BY <2>1, <2>p DEF WalkInv
    <2>3. CASE EmulateEmpty
      <3>1. Here.type = "EMPTY_LINE" /\ idx' = idx + 1 /\ written' = written
        BY <2>3 DEF EmulateEmpty
      <3>2. text[idx] \in TextLines
        BY <2>2 DEF ParserInv, ParserType, TextNrs
      <3>3. IsEmpty(idx)
        <4>1. Here \in CodeBodies \cup {EmptyLine}
          BY <3>2 DEF TextLines, Here
        <4> QED
          BY <3>1, <4>1, StmtKinds DEF IsEmpty, Here
      <3>4. NextNr(idx) = c
        BY <3>2, <3>3, <2>p DEF NextNr, TextLines
      <3>5. idx + 1 \in TextNrs /\ text[idx + 1].code_nr = c
        BY <2>2, <3>4, NextLine
      <3> QED
        BY <2>1, <2>2, <3>1, <3>5 DEF WalkInv
    <2>4. CASE EmulateAssign
      <3>1. /\ Here.type = "ASSIGN_LINE" /\ idx' = idx + 1
            /\ written' = IF Here.left.type = "MEM" THEN written \cup {Here.left.data}
                                                    ELSE written
        BY <2>4 DEF EmulateAssign
      <3>2. ~IsEmpty(idx)
        BY <3>1 DEF IsEmpty, Here, EmptyLine
      <3>3. /\ StmtAt(c) = Here /\ EdgeInv(c) /\ i = bpf_len + 1 /\ c + 1 \in CodeNrs
        BY <2>1, <2>p, <3>1, <3>2, CurrentLine
      <3>4. c + 1 < i
        BY <3>3 DEF bpf_len, CodeNrs, ParserInv, ParserType
      <3>5. entry[c + 1] \subseteq After(c)
        BY <3>1, <3>3, <3>4 DEF EdgeInv
      <3>6. After(c) \subseteq written'
        BY <2>2, <3>1, <3>3 DEF After
      <3>7. NextNr(idx) = c + 1
        BY <2>p, <3>2 DEF NextNr
      <3>8. idx + 1 \in TextNrs /\ text[idx + 1].code_nr = c + 1
        BY <2>2, <3>3, <3>7, NextLine
      <3> QED
        BY <2>1, <3>1, <3>3, <3>5, <3>6, <3>8 DEF WalkInv
    <2>5. CASE EmulateJump
      <3>1. /\ Here.type = "JUMP_LINE" /\ written' = written
            /\ idx' = IF TakesJt(Here) THEN CodeNrToTextNr(idx, Here.jt, off[c].jt)
                                       ELSE CodeNrToTextNr(idx, Here.jf, off[c].jf)
        BY <2>5, <2>p DEF EmulateJump
      <3>2. TakesJt(Here) \/ Here.cond
        BY DEF TakesJt
      <3>3. /\ idx' \in TextNrs /\ text[idx'].code_nr \in CodeNrs
            /\ entry[text[idx'].code_nr] \subseteq entry[c]
        BY <2>1, <2>p, <3>1, <3>2, JumpLanding
      <3> QED
        BY <2>1, <2>2, <3>1, <3>3 DEF WalkInv
    <2>6. CASE EmulateFPE \/ EmulateReturn
      BY <2>6 DEF EmulateFPE, EmulateReturn, EndRun
    <2> QED
      BY <1>4, <2>3, <2>4, <2>5, <2>6 DEF EmulateLine
  <1>5. CASE UNCHANGED vars
    BY <1>5 DEF vars, parserVars, resolverVars, emuVars, WalkInv, TextNrs, CodeNrs
  <1>6. CASE InitAttrFails
    BY <1>6 DEF InitAttrFails
  <1> QED
    BY <1>1, <1>2, <1>3, <1>4, <1>5, <1>6 DEF Next, Terminated

\* The numbering, the flow of the scratch words and the walk, together.
Inv == ParserInv /\ FlowInv /\ WalkInv

\* The inductive invariant of a filter from its first line to its last verdict.
THEOREM InvCorrect == Spec => []Inv
  <1>1. Init => Inv
    <2>1. Init => phase = "parse"
      BY DEF Init, ParserInit
    <2> QED
      BY <2>1, ParserInitially DEF Inv, FlowInv, WalkInv, Resolved
  <1>2. Inv /\ [Next]_vars => Inv'
    <2> SUFFICES ASSUME Inv, [Next]_vars PROVE Inv'
      OBVIOUS
    <2>1. ParserInv'
      BY ParserStep DEF Inv
    <2> QED
      BY <2>1, FlowStep, WalkStep DEF Inv
  <1> QED
    BY <1>1, <1>2, PTL DEF Spec

\* An assignment the resolver let through reads no scratch word outside valid,
\* and names no argument and no word that does not exist.
LEMMA GoodAssign ==
    ASSUME NEW s \in AssignLines, NEW valid, ~AssignError(s, valid)
    PROVE  /\ s.right.type = "MEM" => s.right.data \in valid
           /\ s.left.type = "MEM" => s.left.data \in Slots
           /\ s.right.type \in {"ATTR_LOWARG", "ATTR_HIGHARG"} => s.right.data < ARGS
  <1>1. /\ s.left.type \in LeftTypes /\ s.right.type \in RightTypes
        /\ s.op \in Operators /\ s.left.data \in Nat /\ s.right.data \in Nat
    BY DEF AssignLines, Obj
  <1>2. CASE s.left.type = "A"
    <2>1. ~AssignAError(s, valid)
      BY <1>2 DEF AssignError
    <2>2. s.right.type \notin {"A", "X", "NUMBER"} => s.op = "EQUAL"
      BY <1>1, <2>1 DEF AssignAError, Operators
    <2>3. s.op = "EQUAL" => ~ArgError(s.right) /\ ~MemReadError(s.right, valid)
      BY <2>1 DEF AssignAError
    <2> QED
      BY <1>1, <1>2, <2>2, <2>3, ResolverAssumption DEF ArgError, MemReadError
  <1>3. CASE s.left.type = "X"
    <2>1. ~AssignXError(s, valid)
      BY <1>3 DEF AssignError
    <2> QED
      BY <1>1, <1>3, <2>1 DEF AssignXError, MemReadError, AttrTypes
  <1>4. CASE s.left.type = "MEM"
    <2>1. ~AssignMemError(s)
      BY <1>4 DEF AssignError
    <2> QED
      BY <1>1, <1>4, <2>1, ResolverAssumption DEF AssignMemError, Slots
  <1> QED
    BY <1>1, <1>2, <1>3, <1>4 DEF LeftTypes

\* The assignment a run has reached, and the words it may read.
LEMMA CurrentAssign ==
    ASSUME Inv, phase = "emu", Here.type = "ASSIGN_LINE"
    PROVE  /\ Here \in AssignLines
           /\ Here.right.type = "MEM" => Here.right.data \in written /\ Here.right.data \in Slots
           /\ Here.left.type = "MEM" => Here.left.data \in Slots
           /\ Here.right.type \in {"ATTR_LOWARG", "ATTR_HIGHARG"}
                => Here.right.data < ARGS
  <1>1. ~IsEmpty(idx)
    BY DEF IsEmpty, Here, EmptyLine
  <1>p. PICK c \in CodeNrs : c = text[idx].code_nr
    BY DEF Inv, WalkInv
  <1>2. StmtAt(c) = Here /\ LineInv(c) /\ Here \in CodeBodies
    BY <1>1, <1>p, CurrentLine DEF Inv
  <1>3. Here \in AssignLines
    BY <1>2, StmtKinds
  <1>4. ~AssignError(Here, entry[c])
    BY <1>2 DEF LineInv
  <1>5. entry[c] \subseteq written
    BY <1>p DEF Inv, WalkInv
  <1>6. entry[c] \subseteq Slots
    BY DEF Inv, FlowInv, Resolved
  <1> QED
    BY <1>3, <1>4, <1>5, <1>6, GoodAssign

\* No run reads a scratch word it has not written, on any filter that parser
\* and resolver accept: init_attr may leave the words of the run before in mem.
THEOREM MemReadsInitialisedCorrect == Spec => []MemReadsInitialised
  <1>1. Inv => MemReadsInitialised
    BY CurrentAssign DEF MemReadsInitialised
  <1> QED
    BY <1>1, InvCorrect, PTL

\* The assertions of emu.c can not fail and its indexes stay in range.
THEOREM AssertsHoldCorrect == Spec => []AssertsHold
  <1>1. Inv => AssertsHold
    <2> SUFFICES ASSUME Inv, phase = "emu" PROVE AssertsHold
      BY DEF AssertsHold
    <2>1. idx \in 1 .. Len(text)
      BY DEF Inv, WalkInv, TextNrs
    <2>2. Here.type # "ERROR_LINE"
      <3> SUFFICES ASSUME Here.type = "ERROR_LINE" PROVE FALSE
        OBVIOUS
      <3>1. ~IsEmpty(idx)
        BY DEF IsEmpty, Here, EmptyLine
      <3>2. StmtAt(text[idx].code_nr) = Here /\ LineInv(text[idx].code_nr)
        BY <3>1, CurrentLine DEF Inv
      <3> QED
        BY <3>2 DEF LineInv
    <2>3. ASSUME Here.type = "JUMP_LINE"
          PROVE  LET c == text[idx].code_nr
                 IN  /\ c + off[c].jt + 1 \in 1 .. bpf_len
                     /\ CodeNrToTextNr(idx, Here.jt, off[c].jt) > idx
                     /\ Here.cond =>
                          /\ c + off[c].jf + 1 \in 1 .. bpf_len
                          /\ CodeNrToTextNr(idx, Here.jf, off[c].jf) > idx
      BY <2>3, JumpLanding DEF Inv
    <2> QED
      BY <2>1, <2>2, <2>3 DEF AssertsHold
  <1> QED
    BY <1>1, InvCorrect, PTL

-----------------------------------------------------------------------------
(* The limit on the code.                                                  *)

\* A line that is more than there may be is an ERROR_LINE.
LEMMA LimitStep ==
    ASSUME ParserInv, LimitInv, [Next]_vars
    PROVE  LimitInv'
  <1>1. CASE ~ParserNext
    <2>1. UNCHANGED parsed
      BY <1>1, OtherSteps DEF ParserInv
    <2> QED
      BY <2>1 DEF LimitInv, parsed, TextNrs
  <1>2. ASSUME NEW line \in Lines, ParseLine(line.label, line.body)
        PROVE  LimitInv'
    <2> SUFFICES ASSUME \A t \in TextNrs' : text'[t].stmt # ErrorLine
                 PROVE  code_nr' <= BPF_MAXINSNS
      BY DEF LimitInv
    <2> DEFINE stmt == IF IsDuplicate(line.label) THEN ErrorLine ELSE line.body
               new  == [label |-> line.label, code_nr |-> code_nr + 1, stmt |-> stmt]
    <2>1. /\ text' = Append(text, new)
          /\ IF stmt = EmptyLine THEN code_nr' = code_nr ELSE code_nr' = code_nr + 1
          /\ ~IsDuplicate(line.label) /\ line.body # EmptyLine /\ code_nr + 1 > BPF_MAXINSNS
               => line.body = ErrorLine
      BY <1>2 DEF ParseLine
    <2>2. text \in Seq(TextLines) /\ code_nr \in Nat /\ BPF_MAXINSNS \in Nat
      BY ParserAssumption DEF ParserInv, ParserType
    <2> HIDE DEF new
    <2>3. /\ TextNrs' = 1 .. Len(text) + 1 /\ text'[Len(text) + 1] = new
          /\ \A t \in TextNrs : text'[t] = text[t] /\ t \in TextNrs'
          /\ Len(text) + 1 \in TextNrs'
      BY <2>1, <2>2 DEF TextNrs
    <2>4. new.stmt # ErrorLine /\ new.stmt = stmt
      BY <2>3 DEF new
    <2>5. code_nr <= BPF_MAXINSNS
      BY <2>3 DEF LimitInv
    <2>6. CASE stmt = EmptyLine
      BY <2>1, <2>5, <2>6
    <2>7. CASE stmt # EmptyLine
      <3>1. ~IsDuplicate(line.label) /\ line.body # EmptyLine /\ line.body # ErrorLine
        BY <2>4, <2>7
      <3>2. code_nr + 1 <= BPF_MAXINSNS
        BY <2>1, <2>2, <3>1
      <3> QED
        BY <2>1, <2>7, <3>2
    <2> QED
      BY <2>6, <2>7
  <1>3. ASSUME NEW line \in Lines, ParseOverflow(line.label, line.body)
        PROVE  LimitInv'
    BY <1>3 DEF ParseOverflow, LimitInv, TextNrs
  <1>4. ASSUME NEW label \in Labels \cup {NoLabel}, ParseEof(label)
        PROVE  LimitInv'
    BY <1>4 DEF ParseEof, LimitInv, TextNrs
  <1> QED
    BY <1>1, <1>2, <1>3, <1>4 DEF ParserNext

\* What emu runs has no more code than a filter may have: the lines that pass by
\* the limit of the parser do not parse, and the resolver refuses those.
THEOREM WithinMaxInsnsCorrect == Spec => []WithinMaxInsns
  <1>1. Init => LimitInv
    BY ParserAssumption DEF Init, ParserInit, LimitInv
  <1>2. Inv /\ LimitInv /\ [Next]_vars => LimitInv'
    BY LimitStep DEF Inv
  <1>3. Inv /\ LimitInv => WithinMaxInsns
    <2> SUFFICES ASSUME Inv, LimitInv, phase \in {"ready", "emu"}
                 PROVE  bpf_len \in 1 .. BPF_MAXINSNS
      BY DEF WithinMaxInsns
    <2>1. /\ bpf_len > 0 /\ bpf_len = Len(code) /\ Len(code) = code_nr
          /\ code_nr \in Nat /\ BPF_MAXINSNS \in Nat
      BY ParserAssumption DEF Inv, FlowInv, Resolved, ParserInv, ParserType,
         NumberingInv, bpf_len
    <2>2. \A c \in CodeNrs : StmtAt(c).type # "ERROR_LINE"
      <3>1. /\ ~has_error /\ i = bpf_len + 1
            /\ ~has_error => \A c \in 1 .. i - 1 : LineInv(c) /\ EdgeInv(c)
        BY DEF Inv, FlowInv, Resolved
      <3>2. 1 .. i - 1 = CodeNrs
        BY <2>1, <3>1 DEF CodeNrs
      <3> QED
        BY <3>1, <3>2 DEF LineInv
    <2>3. \A t \in TextNrs : text[t].stmt # ErrorLine
      <3> SUFFICES ASSUME NEW t \in TextNrs, text[t].stmt = ErrorLine PROVE FALSE
        OBVIOUS
      <3>1. ~IsEmpty(t)
        BY DEF IsEmpty, ErrorLine, EmptyLine
      <3>2. text[t].code_nr \in CodeNrs /\ code[text[t].code_nr] = t
        BY <3>1 DEF Inv, ParserInv, NumberingInv
      <3> QED
        BY <2>2, <3>2 DEF StmtAt, ErrorLine
    <2> QED
      BY <2>1, <2>3 DEF LimitInv
  <1> QED
    BY <1>1, <1>2, <1>3, InvCorrect, PTL DEF Spec

-----------------------------------------------------------------------------
(* Types of the resolver's and the emulator's state.                       *)

\* Every statement of the text is one the grammar made of a line.
BodiesInv ==
    \A t \in TextNrs :
        text[t].stmt = ErrorLine \/ \E line \in Lines : text[t].stmt = line.body

EmuType ==
    /\ i \in Nat
    /\ mem_valid \subseteq Slots
    /\ has_error \in BOOLEAN
    /\ A_reg \in Word /\ X_reg \in Word
    /\ mem \in [Slots -> Word]
    /\ input \in Inputs
    /\ idx \in Nat
    /\ run \in 0 .. MaxRuns
    /\ verdict \in Results \cup {NoVerdict}
    /\ written \subseteq Slots

\* The statements of the text are bodies of lines the grammar accepts.
LEMMA BodiesStep ==
    ASSUME ParserInv, BodiesInv, [Next]_vars
    PROVE  BodiesInv'
  <1>1. CASE ~ParserNext
    BY <1>1, OtherSteps DEF ParserInv, BodiesInv, parsed, TextNrs
  <1>2. ASSUME NEW line \in Lines, ParseLine(line.label, line.body)
        PROVE  BodiesInv'
    <2>n. PICK n \in Nat : n = Len(text)
      BY DEF ParserInv, ParserType
    <2>s. PICK new : /\ text' = Append(text, new)
                     /\ new.stmt = ErrorLine \/ new.stmt = line.body
                     /\ new \in TextLines
      <3> DEFINE new == [label |-> line.label, code_nr |-> code_nr + 1,
                         stmt |-> IF IsDuplicate(line.label) THEN ErrorLine ELSE line.body]
      <3>1. new \in TextLines
        BY ParserAssumption DEF ParserInv, ParserType, TextLines, CodeBodies
      <3>2. text' = Append(text, new)
        BY <1>2 DEF ParseLine
      <3>3. new.stmt = ErrorLine \/ new.stmt = line.body
        OBVIOUS
      <3> HIDE DEF new
      <3> QED
        BY <3>1, <3>2, <3>3
    <2>1. /\ Len(text') = n + 1
          /\ \A t \in 1 .. n : text'[t] = text[t]
          /\ text'[n + 1] = new
      BY <2>n, <2>s, AppendProperties DEF ParserInv, ParserType
    <2>2. TextNrs = 1 .. n /\ \A t \in TextNrs' : t \in 1 .. n \/ t = n + 1
      BY <2>n, <2>1 DEF TextNrs
    <2> QED
      BY <2>s, <2>1, <2>2 DEF BodiesInv
  <1>3. CASE text' = text
    BY <1>3 DEF BodiesInv, TextNrs
  <1> QED
    BY <1>1, <1>2, <1>3 DEF ParserNext, ParseOverflow, ParseEof

\* What the grammar guarantees of the numbers a statement holds.
LEMMA LineNumbers ==
    ASSUME BodiesInv, idx \in TextNrs
    PROVE  /\ Here.type = "ASSIGN_LINE" =>
                /\ Here.right.type = "NUMBER" => Here.right.data \in Word
                /\ Here.right.type \in AttrTypes \ {"ATTR_LOWARG", "ATTR_HIGHARG"}
                     => Here.right.data = 0
           /\ Here.type = "RETURN_LINE" => Here.obj.data \in Word
  <1>1. CASE Here = ErrorLine
    BY <1>1 DEF ErrorLine
  <1>2. CASE Here # ErrorLine
    <2>1. PICK line \in Lines : Here = line.body
      BY <1>2 DEF BodiesInv, Here
    <2> QED
      BY <2>1, EmulatorAssumption
  <1> QED
    BY <1>1, <1>2

\* Every operand an assignment reads is a word.
LEMMA OperandsInWord ==
    ASSUME Inv, BodiesInv, EmuType, phase = "emu", Here.type = "ASSIGN_LINE"
    PROVE  /\ Value(Here.left) \in Word
           /\ Value(Here.right) \in Word
           /\ ShiftCount(Here) \in Word
           /\ XAfterMask(Here) \in Word
           /\ AluResult(Here.op, Value(Here.left), ShiftCount(Here)) \in Word
           /\ Here.left.type = "MEM" => Here.left.data \in Slots
  <1>1. /\ Here \in AssignLines
        /\ Here.right.type = "MEM" => Here.right.data \in Slots
        /\ Here.left.type = "MEM" => Here.left.data \in Slots
        /\ Here.right.type \in {"ATTR_LOWARG", "ATTR_HIGHARG"} => Here.right.data < ARGS
    BY CurrentAssign
  <1>2. idx \in TextNrs
    BY DEF Inv, WalkInv
  <1>3. /\ Here.right.type = "NUMBER" => Here.right.data \in Word
        /\ Here.right.type \in AttrTypes \ {"ATTR_LOWARG", "ATTR_HIGHARG"}
             => Here.right.data = 0
    BY <1>2, LineNumbers
  <1>4. /\ Here.left.type \in LeftTypes /\ Here.right \in Obj(RightTypes)
        /\ Here.op \in Operators
    BY <1>1 DEF AssignLines, Obj
  <1>5. Value(Here.left) \in Word
    BY <1>1, <1>4 DEF Value, EmuType, LeftTypes
  <1>6. Here.right.type \in AttrTypes => AttrOf(input, Here.right) \in Word
    <2> SUFFICES ASSUME Here.right.type \in AttrTypes
                 PROVE  Here.right \in [type : AttrTypes, data : 0 .. ARGS - 1]
      BY EmulatorAssumption DEF EmuType
    <2>1. Here.right.data \in 0 .. ARGS - 1
      <3>1. Here.right.data \in Nat /\ ARGS \in Nat /\ ARGS > 0
        BY <1>4, ResolverAssumption, EmulatorAssumption DEF Obj
      <3>2. Here.right.data = 0 \/ Here.right.data < ARGS
        BY <1>1, <1>3
      <3> QED
        BY <3>1, <3>2
    <2> QED
      BY <1>4, <2>1 DEF Obj
  <1>7. Value(Here.right) \in Word
    <2>1. Here.right.type \in {"A", "X", "MEM", "NUMBER"} \/ Here.right.type \in AttrTypes
      BY <1>4 DEF Obj, RightTypes
    <2>2. Here.right.type \in AttrTypes => Value(Here.right) = AttrOf(input, Here.right)
      BY DEF Value, AttrTypes
    <2>3. Here.right.type \in {"A", "X", "MEM", "NUMBER"} => Value(Here.right) \in Word
      BY <1>1, <1>3 DEF Value, EmuType
    <2> QED
      BY <1>6, <2>1, <2>2, <2>3
  <1>8. ShiftCount(Here) \in Word /\ XAfterMask(Here) \in Word
    BY <1>7, EmulatorAssumption DEF ShiftCount, XAfterMask, EmuType
  <1>9. AluResult(Here.op, Value(Here.left), ShiftCount(Here)) \in Word
    BY <1>4, <1>5, <1>8, EmulatorAssumption
  <1> QED
    BY <1>1, <1>5, <1>7, <1>8, <1>9

\* Registers, memory and verdict keep their types at every step.
LEMMA EmuTypeStep ==
    ASSUME Inv, BodiesInv, EmuType, [Next]_vars, FlowInv'
    PROVE  EmuType'
  <1>1. CASE ParserNext /\ UNCHANGED <<resolverVars, emuVars>>
    BY <1>1 DEF resolverVars, emuVars, EmuType
  <1>2. CASE ResolverNext /\ UNCHANGED emuVars
    <2>1. i' \in Nat /\ mem_valid' \subseteq Slots /\ has_error' \in BOOLEAN
      <3>1. CASE Resolved'
        <4>1. i' \in 1 .. bpf_len' + 1 /\ mem_valid' \subseteq Slots /\ has_error' \in BOOLEAN
          BY <3>1 DEF FlowInv
        <4> QED
          BY <4>1
      <3>2. CASE ~Resolved'
        <4>1. StartResolve \/ FinishResolve
          BY <1>2, <3>2 DEF ResolverNext, ResolveAssign, ResolveJump,
             ResolveReturn, ResolveErrorLine, Advance, parserVars, Resolved
        <4>2. CASE StartResolve
          BY <3>2, <4>2 DEF StartResolve, resolverVars, EmuType, Resolved
        <4>3. CASE FinishResolve
          BY <4>3 DEF FinishResolve, EmuType
        <4> QED
          BY <4>1, <4>2, <4>3
      <3> QED
        BY <3>1, <3>2
    <2> QED
      BY <1>2, <2>1 DEF emuVars, EmuType
  <1>3. CASE \E d \in Inputs : StartRun(d)
    <2>1. run' \in 0 .. MaxRuns
      BY <1>3, EmulatorAssumption DEF StartRun, EmuType
    <2> QED
      BY <1>3, <2>1, EmulatorAssumption DEF StartRun, resolverVars, EmuType
  <1>4. CASE EmulateAssign
    <2>1. /\ Here.type = "ASSIGN_LINE" /\ phase = "emu"
          /\ idx' = idx + 1
          /\ UNCHANGED <<resolverVars, input, run, verdict>>
      BY <1>4 DEF EmulateAssign
    <2>v. PICK value \in Word : value = AluResult(Here.op, Value(Here.left), ShiftCount(Here))
      BY <2>1, OperandsInWord
    <2>2. /\ A_reg' = (IF Here.left.type = "A" THEN value ELSE A_reg)
          /\ X_reg' = (IF Here.left.type = "X" THEN value ELSE XAfterMask(Here))
          /\ mem' = (IF Here.left.type = "MEM"
                       THEN [mem EXCEPT ![Here.left.data] = value] ELSE mem)
          /\ written' = (IF Here.left.type = "MEM" THEN written \cup {Here.left.data}
                                                   ELSE written)
      BY <1>4, <2>v DEF EmulateAssign
    <2>3. /\ XAfterMask(Here) \in Word
          /\ Here.left.type = "MEM" => Here.left.data \in Slots
      BY <2>1, OperandsInWord
    <2> QED
      BY <2>1, <2>2, <2>3 DEF EmuType, resolverVars
  <1>5. CASE EmulateJump
    <2>1. /\ phase = "emu" /\ Here.type = "JUMP_LINE"
          /\ idx' = IF TakesJt(Here)
                      THEN CodeNrToTextNr(idx, Here.jt, off[text[idx].code_nr].jt)
                      ELSE CodeNrToTextNr(idx, Here.jf, off[text[idx].code_nr].jf)
          /\ UNCHANGED resolverVars
          /\ UNCHANGED <<A_reg, X_reg, mem, input, run, verdict, written>>
      BY <1>5 DEF EmulateJump
    <2>2. TakesJt(Here) \/ Here.cond
      BY DEF TakesJt
    <2>3. idx' \in TextNrs
      BY <2>1, <2>2, JumpLanding DEF Inv
    <2>4. idx' \in Nat
      BY <2>3 DEF TextNrs, Inv, ParserInv, ParserType
    <2> QED
      BY <2>1, <2>4 DEF EmuType, resolverVars
  <1>6. CASE EmulateFPE
    <2>1. [type |-> "KILL", data |-> 0] \in Results
      BY DEF Results, Obj, Verdicts
    <2> QED
      BY <1>6, <2>1 DEF EmulateFPE, EndRun, EmuType, resolverVars
  <1>7. CASE EmulateReturn
    <2>1. phase = "emu" /\ Here.type = "RETURN_LINE" /\ idx \in TextNrs /\ ~IsEmpty(idx)
      BY <1>7 DEF EmulateReturn, EndRun, Inv, WalkInv, IsEmpty, Here, EmptyLine
    <2>2. Here \in ReturnLines
      BY <2>1, CurrentLine, StmtKinds DEF Inv
    <2>3. Here.obj.data \in Word
      BY <2>1, LineNumbers
    <2>4. /\ DecodeReturnK(A_reg) \in Results
          /\ DecodeReturnK(Here.obj.data) \in Results
      BY <2>3, EmulatorAssumption DEF EmuType
    <2>5. Here.obj.type \notin {"A", "NUMBER"} => Here.obj \in Results
      BY <2>2 DEF ReturnLines, Obj, Results
    <2>6. verdict' \in Results
      BY <1>7, <2>4, <2>5 DEF EmulateReturn, EndRun
    <2> QED
      BY <1>7, <2>6 DEF EmulateReturn, EndRun, EmuType, resolverVars
  <1>8. CASE EmulateEmpty
    BY <1>8 DEF EmulateEmpty, EmuType, resolverVars
  <1>9. CASE UNCHANGED vars
    BY <1>9 DEF vars, resolverVars, emuVars, EmuType
  <1>10. CASE InitAttrFails
    BY <1>10 DEF InitAttrFails, resolverVars, emuVars, EmuType
  <1> QED
    BY <1>1, <1>2, <1>3, <1>4, <1>5, <1>6, <1>7, <1>8, <1>9, <1>10
       DEF Next, EmulateLine, Terminated

\* The statements keep their kinds and the variables their types.
LEMMA StateCorrect == Spec => [](BodiesInv /\ EmuType)
  <1>1. Init => BodiesInv /\ EmuType
    <2> SUFFICES ASSUME Init PROVE BodiesInv /\ EmuType
      OBVIOUS
    <2>1. text = <<>> /\ TextNrs = {}
      BY DEF Init, ParserInit, TextNrs
    <2>2. BodiesInv
      BY <2>1 DEF BodiesInv
    <2>3. (CHOOSE d \in Inputs : TRUE) \in Inputs
      BY EmulatorAssumption
    <2>4. 0 \in Word /\ MaxRuns \in Nat
      BY EmulatorAssumption
    <2>5. i = 0 /\ mem_valid = {} /\ has_error = FALSE
      BY DEF Init, ResolverInit
    <2>6. /\ A_reg = 0 /\ X_reg = 0 /\ mem = [k \in Slots |-> 0] /\ idx = 0
          /\ run = 0 /\ verdict = NoVerdict /\ written = {}
          /\ input \in Inputs
      BY <2>3 DEF Init
    <2>7. mem \in [Slots -> Word] /\ run \in 0 .. MaxRuns
      BY <2>4, <2>6
    <2> QED
      BY <2>2, <2>4, <2>5, <2>6, <2>7 DEF EmuType
  <1>2. Inv /\ Inv' /\ BodiesInv /\ EmuType /\ [Next]_vars => (BodiesInv /\ EmuType)'
    BY BodiesStep, EmuTypeStep DEF Inv
  <1> QED
    BY <1>1, <1>2, InvCorrect, PTL DEF Spec

\* Every variable keeps its type; in particular the registers stay words and
\* probe never starts a run too many.
THEOREM TypeCorrect == Spec => []TypeOK
  <1>1. Inv /\ EmuType => TypeOK
    BY DEF Inv, ParserInv, ParserType, EmuType, TypeOK
  <1> QED
    BY <1>1, InvCorrect, StateCorrect, PTL

-----------------------------------------------------------------------------
(* The pass of the resolver is exact.                                      *)

\* Some path comes to line c that has not written word k before it.
ComesUnwritten(c, k) ==
    \E P \in SUBSET (1 .. bpf_len) :
        /\ IsPath(P)
        /\ c \in P
        /\ \A d \in P : d <= c
        /\ \A d \in P \ {c} : ~WritesSlot(StmtAt(d), k)

\* The resolver has found a read of a word that is not written on every path.
FoundRead == \E c \in 1 .. i - 1, k \in Slots : ReadsSlot(StmtAt(c), k) /\ k \notin entry[c]

Fine == \A c \in 1 .. bpf_len : ~LineError(c)

\* While nothing has been refused there was nothing to refuse.
FineInv == Resolved /\ ~has_error => \A c \in 1 .. i - 1 : ~LineError(c)

\* The pass is under way, or it has ended with an error.
Passing == phase = "resolve" \/ (phase = "exit" /\ i > 1)

\* Whatever word the pass takes for unwritten at a line, some path to that line
\* has not written; and an error of the pass is a read of such a word.
ExactInv ==
    /\ phase \in {"parse", "parsed"} => i = 0
    /\ Passing /\ Fine =>
        /\ \A c \in 1 .. i - 1, k \in Slots : k \notin entry[c] => ComesUnwritten(c, k)
        /\ \A c \in i .. bpf_len, k \in Slots : k \notin masks[c] => ComesUnwritten(c, k)
        /\ i <= bpf_len => \A k \in Slots : k \notin mem_valid => ComesUnwritten(i, k)
        /\ has_error => FoundRead \/ (phase = "exit" /\ StmtAt(bpf_len).type # "RETURN_LINE")
    /\ phase = "exit" /\ i > 1 => has_error

\* A set of line numbers has a first one.
LEMMA FirstLine ==
    ASSUME NEW S, S \subseteq Nat, S # {}
    PROVE  \E m \in S : \A n \in S : m <= n
  <1>1. PICK m \in S : \A n \in S : ~(<<n, m>> \in OpToRel(<, Nat))
    BY NatLessThanWellFounded, WFMin
  <1>2. ASSUME NEW n \in S PROVE m <= n
    <2>1. ~(n < m)
      BY <1>1 DEF OpToRel
    <2> QED
      BY <2>1
  <1> QED
    BY <1>2

\* A set of line numbers that has a bound has a last one.
LEMMA LastLine ==
    ASSUME NEW b \in Nat, NEW S, S \subseteq 0 .. b, S # {}
    PROVE  \E m \in S : \A n \in S : n <= m
  <1> DEFINE T == {b - n : n \in S}
  <1>1. T \subseteq Nat /\ T # {}
    OBVIOUS
  <1>2. PICK t \in T : \A n \in T : t <= n
    BY <1>1, FirstLine
  <1>3. PICK m \in S : t = b - m
    OBVIOUS
  <1>4. ASSUME NEW n \in S PROVE n <= m
    <2>1. b - n \in T
      OBVIOUS
    <2>2. t <= b - n
      BY <1>2, <2>1
    <2> QED
      BY <1>3, <2>2
  <1> QED
    BY <1>4

\* A line that is refused whatever the memory holds is refused.
LEMMA ErrorAnyway ==
    ASSUME NEW s \in AssignLines, NEW valid \in SUBSET Slots, AssignError(s, Slots)
    PROVE  AssignError(s, valid)
  <1>1. s.left.type \in LeftTypes
    BY DEF AssignLines, Obj
  <1>2. MemReadError(s.right, Slots) => MemReadError(s.right, valid)
    BY DEF MemReadError
  <1>3. CASE s.left.type = "A"
    BY <1>2, <1>3 DEF AssignError, AssignAError
  <1>4. CASE s.left.type = "X"
    BY <1>2, <1>4 DEF AssignError, AssignXError
  <1>5. CASE s.left.type = "MEM"
    BY <1>5 DEF AssignError
  <1> QED
    BY <1>1, <1>3, <1>4, <1>5 DEF LeftTypes

\* And one that is refused only for what the memory holds reads a word there.
LEMMA ErrorOfMemory ==
    ASSUME NEW s \in AssignLines, NEW valid \in SUBSET Slots,
           AssignError(s, valid), ~AssignError(s, Slots)
    PROVE  /\ s.left.type # "MEM"
           /\ s.right.type = "MEM"
           /\ s.right.data \in Slots \ valid
  <1>1. s.left.type \in LeftTypes /\ s.right.data \in Nat
    BY DEF AssignLines, Obj
  <1>2. MemReadError(s.right, valid) /\ ~MemReadError(s.right, Slots) /\ s.left.type # "MEM"
    <2>1. CASE s.left.type = "A"
      <3>1. AssignAError(s, valid) /\ ~AssignAError(s, Slots)
        BY <2>1 DEF AssignError
      <3> QED
        BY <2>1, <3>1 DEF AssignAError
    <2>2. CASE s.left.type = "X"
      <3>1. AssignXError(s, valid) /\ ~AssignXError(s, Slots)
        BY <2>2 DEF AssignError
      <3> QED
        BY <2>2, <3>1 DEF AssignXError
    <2>3. CASE s.left.type = "MEM"
      BY <2>3 DEF AssignError
    <2> QED
      BY <1>1, <2>1, <2>2, <2>3 DEF LeftTypes
  <1> QED
    BY <1>1, <1>2, ResolverAssumption DEF MemReadError, Slots

-----------------------------------------------------------------------------
\* One more line: a path that comes to c goes on to any line that follows c.
LEMMA PathGoesOn ==
    ASSUME bpf_len \in Nat, NEW c \in 1 .. bpf_len, NEW n \in 1 .. bpf_len, NEW k,
           ComesUnwritten(c, k), n > c, n \in Successors(c), ~WritesSlot(StmtAt(c), k)
    PROVE  ComesUnwritten(n, k)
  <1>1. PICK P \in SUBSET (1 .. bpf_len) :
            /\ IsPath(P) /\ c \in P
            /\ \A d \in P : d <= c
            /\ \A d \in P \ {c} : ~WritesSlot(StmtAt(d), k)
    BY DEF ComesUnwritten
  <1> DEFINE Q == P \cup {n}
  <1>2. Q \in SUBSET (1 .. bpf_len) /\ n \in Q /\ \A d \in Q : d <= n /\ d \in Nat
    BY <1>1
  <1>3. \A d \in Q \ {n} : ~WritesSlot(StmtAt(d), k)
    BY <1>1
  <1>4. IsPath(Q)
    <2>1. 1 \in Q
      BY <1>1 DEF IsPath
    <2>2. ASSUME NEW d \in Q
          PROVE  \/ \A e \in Q : e <= d
                 \/ \E e \in Q \cap Successors(d) : d < e /\ \A f \in Q : ~(d < f /\ f < e)
      <3>1. CASE d = n
        BY <1>2, <3>1
      <3>2. CASE d = c
        <4>1. n \in Q \cap Successors(d) /\ d < n
          BY <3>2
        <4>2. \A f \in Q : ~(d < f /\ f < n)
          BY <1>1, <3>2
        <4> QED
          BY <4>1, <4>2
      <3>3. CASE d # n /\ d # c
        <4>1. d \in P /\ d < c /\ d \in Nat
          BY <1>1, <3>3
        <4>2. PICK e \in P \cap Successors(d) : e > d /\ \A f \in P : ~(d < f /\ f < e)
          BY <1>1, <4>1 DEF IsPath
        <4>3. e <= c /\ e \in Nat
          BY <1>1
        <4>4. \A f \in Q : ~(d < f /\ f < e)
          BY <4>2, <4>3
        <4> QED
          BY <4>2, <4>4
      <3> QED
        BY <3>1, <3>2, <3>3
    <2> QED
      BY <2>1, <2>2 DEF IsPath
  <1> QED
    BY <1>2, <1>3, <1>4 DEF ComesUnwritten

\* A path that has not written k comes to no line where k is taken for written.
LEMMA EntryOfPath ==
    ASSUME bpf_len \in Nat, NEW P \in SUBSET (1 .. bpf_len), IsPath(P), NEW k,
           entry[1] = {}, i = bpf_len + 1,
           \A c \in 1 .. bpf_len : EdgeInv(c),
           NEW last \in P, \A d \in P : d <= last,
           \A d \in P \ {last} : ~WritesSlot(StmtAt(d), k)
    PROVE  k \notin entry[last]
  <1> SUFFICES ASSUME k \in entry[last] PROVE FALSE
    OBVIOUS
  <1> DEFINE S == {d \in P : k \in entry[d]}
  <1>0. P \subseteq 1 .. bpf_len /\ \A n \in 1 .. bpf_len : n \in Nat /\ n \in 0 .. bpf_len
    OBVIOUS
  <1>1. S \subseteq Nat /\ S # {}
    <2>1. last \in S
      OBVIOUS
    <2> QED
      BY <1>0, <2>1
  <1>2. PICK d \in S : \A n \in S : d <= n
    BY <1>1, FirstLine
  <1>3. d # 1 /\ 1 \in P /\ d \in P /\ d \in 1 .. bpf_len
    BY <1>2 DEF IsPath
  <1> DEFINE B == {n \in P : n < d}
  <1>4. B \subseteq 0 .. bpf_len /\ B # {}
    <2>1. 1 \in B
      BY <1>3
    <2> QED
      BY <1>0, <2>1
  <1>5. PICK c \in B : \A n \in B : n <= c
    BY <1>4, LastLine
  <1>6. c \in P /\ c < d /\ c \in 1 .. bpf_len /\ c # last
    BY <1>3, <1>5
  <1>7. PICK e \in P \cap Successors(c) : e > c /\ \A f \in P : ~(c < f /\ f < e)
    BY <1>3, <1>6 DEF IsPath
  <1>8. e = d
    <2>1. ~(d < e)
      BY <1>3, <1>6, <1>7
    <2>2. ~(e < d)
      BY <1>5, <1>6, <1>7
    <2> QED
      BY <1>3, <1>7, <2>1, <2>2
  <1>9. entry[d] \subseteq After(c) /\ (StmtAt(c).type = "JUMP_LINE" => entry[d] \subseteq entry[c])
    <2>1. EdgeInv(c) /\ d < i
      BY <1>3, <1>6
    <2>2. CASE StmtAt(c).type = "JUMP_LINE"
      <3>1. d \in JumpTargets(StmtAt(c), c)
        BY <1>7, <1>8, <2>2 DEF Successors
      <3> QED
        BY <2>1, <2>2, <3>1 DEF EdgeInv, After
    <2>3. CASE StmtAt(c).type # "JUMP_LINE"
      <3>1. d = c + 1
        BY <1>7, <1>8, <2>3 DEF Successors
      <3> QED
        BY <2>1, <2>3, <3>1 DEF EdgeInv
    <2> QED
      BY <2>2, <2>3
  <1>10. k \in entry[c]
    BY <1>2, <1>6, <1>9 DEF After, WritesSlot
  <1>11. d <= c
    BY <1>2, <1>6, <1>10
  <1> QED
    BY <1>3, <1>6, <1>11

-----------------------------------------------------------------------------
\* What the pass makes of a line.
LEMMA ResolvedLine ==
    ASSUME ParserInv, FlowInv,
           ResolveAssign \/ ResolveJump \/ ResolveReturn \/ ResolveErrorLine
    PROVE  /\ phase = "resolve" /\ phase' = "resolve" /\ UNCHANGED parsed
           /\ i \in 1 .. bpf_len /\ bpf_len \in Nat /\ i' = i + 1
           /\ valid_here \subseteq Slots
           /\ entry'[i] = valid_here
           /\ \A c \in 1 .. bpf_len : c # i => entry'[c] = entry[c]
           /\ ~has_error' => ~has_error /\ ~LineError(i)
           /\ ~LineError(i) =>
                /\ has_error' =>
                     has_error \/ \E k \in Slots : ReadsSlot(StmtAt(i), k) /\ k \notin valid_here
                /\ \A c \in 1 .. bpf_len, k \in Slots :
                     k \notin masks'[c] =>
                        \/ k \notin masks[c]
                        \/ /\ k \notin valid_here /\ c > i
                           /\ c \in Successors(i) /\ ~WritesSlot(StmtAt(i), k)
                /\ \A k \in Slots :
                     k \notin mem_valid' =>
                        /\ k \notin valid_here
                        /\ i + 1 \in Successors(i) /\ ~WritesSlot(StmtAt(i), k)
  <1> DEFINE s == StmtAt(i)
  <1>1. /\ phase = "resolve" /\ i <= bpf_len
        /\ i' = i + 1 /\ UNCHANGED parserVars
        /\ entry' = [entry EXCEPT ![i] = valid_here]
    BY DEF ResolveAssign, ResolveJump, ResolveReturn, ResolveErrorLine, Advance
  <1>2. /\ i \in 1 .. bpf_len /\ bpf_len \in Nat
        /\ CodeNrs = 1 .. bpf_len
        /\ entry \in [1 .. bpf_len -> SUBSET Slots]
        /\ valid_here \subseteq Slots /\ has_error \in BOOLEAN
    BY <1>1 DEF FlowInv, Resolved, CodeNrs, bpf_len, ParserInv, ParserType, valid_here
  <1>3. /\ phase' = "resolve" /\ UNCHANGED parsed /\ entry'[i] = valid_here
        /\ \A c \in 1 .. bpf_len : c # i => entry'[c] = entry[c]
    BY <1>1, <1>2 DEF parserVars, parsed
  <1>p. PICK n \in CodeNrs : n = i
    BY <1>2
  <1>4. CASE ResolveAssign
    <2>1. /\ s.type = "ASSIGN_LINE" /\ masks' = masks
          /\ has_error' = (has_error \/ AssignError(s, valid_here))
          /\ mem_valid' = IF s.left.type = "MEM" /\ ~AssignError(s, valid_here)
                            THEN valid_here \cup {s.left.data} ELSE valid_here
      BY <1>4 DEF ResolveAssign, Advance
    <2>2. s \in AssignLines
      BY <1>p, <2>1, StmtType, StmtKinds
    <2>3. LineError(i) = AssignError(s, Slots)
      BY <2>1 DEF LineError
    <2>4. ~has_error' => ~has_error /\ ~LineError(i)
      BY <1>2, <2>1, <2>2, <2>3, ErrorAnyway
    <2>5. ASSUME ~LineError(i)
          PROVE  /\ has_error' => has_error \/ \E k \in Slots : ReadsSlot(s, k) /\ k \notin valid_here
                 /\ \A k \in Slots : k \notin mem_valid' =>
                        k \notin valid_here /\ ~WritesSlot(s, k)
      <3>1. CASE AssignError(s, valid_here)
        <4>1. /\ s.left.type # "MEM" /\ s.right.type = "MEM"
              /\ s.right.data \in Slots \ valid_here
          BY <1>2, <2>2, <2>3, <2>5, <3>1, ErrorOfMemory
        <4> QED
          BY <2>1, <4>1 DEF ReadsSlot, WritesSlot
      <3>2. CASE ~AssignError(s, valid_here)
        BY <2>1, <3>2 DEF WritesSlot
      <3> QED
        BY <3>1, <3>2
    <2>6. i + 1 \in Successors(i)
      BY <2>1 DEF Successors
    <2> QED
      BY <1>1, <1>2, <1>3, <2>1, <2>4, <2>5, <2>6
  <1>5. CASE ResolveJump
    <2>1. /\ s.type = "JUMP_LINE"
          /\ has_error' = (has_error \/ JumpError(s, i))
          /\ ~JumpError(s, i) =>
               /\ masks' = [c \in 1 .. bpf_len |->
                              IF c \in JumpTargets(s, i) THEN masks[c] \cap valid_here
                                                         ELSE masks[c]]
               /\ mem_valid' = Slots
      BY <1>5 DEF ResolveJump, Advance
    <2>2. LineError(i) = JumpError(s, i)
      BY <2>1 DEF LineError
    <2>3. Successors(i) = JumpTargets(s, i) /\ \A k : ~WritesSlot(s, k)
      BY <2>1 DEF Successors, WritesSlot
    <2>4. ~LineError(i) => JumpTargets(s, i) \subseteq i + 1 .. bpf_len
      BY <1>p, <2>1, <2>2, GoodJump
    <2>5. ASSUME ~LineError(i), NEW c \in 1 .. bpf_len, NEW k \in Slots, k \notin masks'[c],
                 k \in masks[c]
          PROVE  k \notin valid_here /\ c > i /\ c \in Successors(i)
      BY <1>2, <2>1, <2>2, <2>3, <2>4, <2>5
    <2>6. /\ ~has_error' => ~has_error /\ ~LineError(i)
          /\ ~LineError(i) => (has_error' => has_error)
      BY <1>2, <2>1, <2>2
    <2>7. ~LineError(i) => \A k \in Slots : k \in mem_valid'
      BY <2>1, <2>2
    <2> QED
      BY <1>1, <1>2, <1>3, <2>3, <2>5, <2>6, <2>7
  <1>6. CASE ResolveReturn
    <2>1. /\ s.type = "RETURN_LINE" /\ masks' = masks /\ mem_valid' = valid_here
          /\ has_error' = (has_error \/ ReturnError(s))
      BY <1>6 DEF ResolveReturn, Advance
    <2>2. LineError(i) = ReturnError(s)
      BY <2>1 DEF LineError
    <2>3. i + 1 \in Successors(i) /\ \A k : ~WritesSlot(s, k)
      BY <2>1 DEF Successors, WritesSlot
    <2>4. /\ ~has_error' => ~has_error /\ ~LineError(i)
          /\ ~LineError(i) => (has_error' => has_error)
      BY <1>2, <2>1, <2>2
    <2> QED
      BY <1>1, <1>2, <1>3, <2>1, <2>3, <2>4
  <1>7. CASE ResolveErrorLine
    <2>1. s.type = "ERROR_LINE" /\ has_error' = TRUE
      BY <1>7, <1>2 DEF ResolveErrorLine, Advance
    <2>2. LineError(i) = TRUE
      BY <2>1 DEF LineError
    <2> QED
      BY <1>1, <1>2, <1>3, <2>1, <2>2
  <1> QED
    BY <1>4, <1>5, <1>6, <1>7

\* What is said of the lines of the text holds as long as the text is kept.
LEMMA PathsKept ==
    ASSUME UNCHANGED parsed
    PROVE  /\ bpf_len' = bpf_len /\ Fine' = Fine
           /\ \A c : LineError(c)' = LineError(c)
           /\ \A c, k : ComesUnwritten(c, k)' = ComesUnwritten(c, k)
           /\ \A c : StmtAt(c)' = StmtAt(c)
  <1>1. text' = text /\ code' = code /\ table' = table
    BY DEF parsed
  <1>2. bpf_len' = bpf_len /\ \A c : StmtAt(c)' = StmtAt(c)
    BY <1>1 DEF bpf_len, StmtAt
  <1>3. \A c : LineError(c)' = LineError(c)
    BY <1>1 DEF LineError, StmtAt, JumpError, JaError, CondTargetError, JtTarget, JfTarget, bpf_len
  <1>4. \A c, k : ComesUnwritten(c, k)' = ComesUnwritten(c, k)
    BY <1>1 DEF ComesUnwritten, IsPath, Successors, StmtAt, JumpTargets, JtTarget, JfTarget, bpf_len
  <1> QED
    BY <1>2, <1>3, <1>4 DEF Fine

\* The kinds of steps: those of the parser, of the resolver, and those after it.
LEMMA StepKinds ==
    ASSUME [Next]_vars
    PROVE  \/ /\ phase = "parse" /\ phase' \in {"parse", "parsed", "exit"}
              /\ UNCHANGED resolverVars
           \/ StartResolve
           \/ ResolveAssign \/ ResolveJump \/ ResolveReturn \/ ResolveErrorLine
           \/ FinishResolve
           \/ /\ UNCHANGED parsed /\ UNCHANGED resolverVars
              /\ phase' = phase \/ (phase \in {"ready", "emu"} /\ phase' \in {"ready", "emu", "failed"})
  <1>1. CASE ParserNext /\ UNCHANGED <<resolverVars, emuVars>>
    BY <1>1 DEF ParserNext, ParseLine, ParseOverflow, ParseEof
  <1>2. CASE ResolverNext
    BY <1>2 DEF ResolverNext
  <1>3. CASE \E d \in Inputs : StartRun(d)
    BY <1>3 DEF StartRun, parsed
  <1>6. CASE InitAttrFails
    BY <1>6 DEF InitAttrFails, parsed
  <1>4. CASE EmulateLine
    BY <1>4 DEF EmulateLine, EmulateAssign, EmulateFPE, EmulateJump, EmulateReturn,
       EmulateEmpty, EndRun, parserVars, parsed
  <1>5. CASE UNCHANGED vars
    BY <1>5 DEF vars, parserVars, parsed
  <1> QED
    BY <1>1, <1>2, <1>3, <1>4, <1>5, <1>6 DEF Next, Terminated

\* A filter the resolver lets through has no line that it would refuse.
LEMMA FineStep ==
    ASSUME ParserInv, FlowInv, FineInv, [Next]_vars
    PROVE  FineInv'
  <1> SUFFICES ASSUME Resolved', ~has_error' PROVE \A c \in 1 .. i' - 1 : ~LineError(c)'
    BY DEF FineInv
  <1>1. CASE phase = "parse" /\ phase' \in {"parse", "parsed", "exit"}
    BY <1>1 DEF Resolved
  <1>2. CASE StartResolve
    <2>1. i' = 1
      BY <1>2 DEF StartResolve, Resolved
    <2> QED
      BY <2>1
  <1>3. CASE ResolveAssign \/ ResolveJump \/ ResolveReturn \/ ResolveErrorLine
    <2>1. /\ phase = "resolve" /\ UNCHANGED parsed /\ i \in 1 .. bpf_len /\ bpf_len \in Nat
          /\ i' = i + 1 /\ ~has_error /\ ~LineError(i)
      BY <1>3, ResolvedLine
    <2>2. \A c \in 1 .. i - 1 : ~LineError(c)
      BY <2>1 DEF FineInv, Resolved
    <2>3. ASSUME NEW c \in 1 .. i' - 1 PROVE ~LineError(c)
      <3>1. c \in 1 .. i - 1 \/ c = i
        BY <2>1
      <3> QED
        BY <2>1, <2>2, <3>1
    <2> QED
      BY <2>1, <2>3, PathsKept
  <1>4. CASE FinishResolve
    <2>1. /\ phase = "resolve" /\ UNCHANGED parsed /\ i' = i
          /\ has_error' = (has_error \/ StmtAt(bpf_len).type # "RETURN_LINE")
      BY <1>4 DEF FinishResolve, parsed
    <2>2. has_error \in BOOLEAN
      BY <2>1 DEF FlowInv, Resolved
    <2>3. ~has_error
      BY <2>1, <2>2
    <2> QED
      BY <2>1, <2>3, PathsKept DEF FineInv, Resolved
  <1>5. CASE /\ UNCHANGED parsed /\ UNCHANGED resolverVars
             /\ phase' = phase \/ (phase \in {"ready", "emu"} /\ phase' \in {"ready", "emu", "failed"})
    BY <1>5, PathsKept DEF FineInv, Resolved, resolverVars
  <1> QED
    BY <1>1, <1>2, <1>3, <1>4, <1>5, StepKinds

\* The path to the first line has written nothing.
LEMMA FirstUnwritten ==
    ASSUME bpf_len \in Nat, bpf_len > 0, NEW k
    PROVE  ComesUnwritten(1, k)
  <1>1. {1} \in SUBSET (1 .. bpf_len) /\ IsPath({1})
    BY DEF IsPath
  <1> QED
    BY <1>1 DEF ComesUnwritten

\* A line of the pass keeps it exact.
LEMMA ExactLine ==
    ASSUME ParserInv, FlowInv, ExactInv,
           ResolveAssign \/ ResolveJump \/ ResolveReturn \/ ResolveErrorLine
    PROVE  ExactInv'
  <1>1. /\ phase = "resolve" /\ phase' = "resolve" /\ UNCHANGED parsed
        /\ i \in 1 .. bpf_len /\ bpf_len \in Nat /\ i' = i + 1
        /\ valid_here \subseteq Slots
        /\ entry'[i] = valid_here
        /\ \A c \in 1 .. bpf_len : c # i => entry'[c] = entry[c]
    BY ResolvedLine
  <1>2. SUFFICES ASSUME Fine
        PROVE  /\ \A c \in 1 .. i, k \in Slots : k \notin entry'[c] => ComesUnwritten(c, k)
               /\ \A c \in i + 1 .. bpf_len, k \in Slots : k \notin masks'[c] => ComesUnwritten(c, k)
               /\ i + 1 <= bpf_len => \A k \in Slots : k \notin mem_valid' => ComesUnwritten(i + 1, k)
               /\ has_error' => \E c \in 1 .. i, k \in Slots : ReadsSlot(StmtAt(c), k) /\ k \notin entry'[c]
    <2>1. i' - 1 = i
      BY <1>1
    <2> QED
      BY <1>1, <1>2, <2>1, PathsKept DEF ExactInv, Passing, FoundRead
  <1>3. ~LineError(i)
    BY <1>1, <1>2 DEF Fine
  <1>4. /\ \A c \in 1 .. i - 1, k \in Slots : k \notin entry[c] => ComesUnwritten(c, k)
        /\ \A c \in i .. bpf_len, k \in Slots : k \notin masks[c] => ComesUnwritten(c, k)
        /\ \A k \in Slots : k \notin mem_valid => ComesUnwritten(i, k)
        /\ has_error => FoundRead
    BY <1>1, <1>2 DEF ExactInv, Passing
  <1>5. \A k \in Slots : k \notin valid_here => ComesUnwritten(i, k)
    BY <1>1, <1>4 DEF valid_here
  <1>6. \A c \in 1 .. i, k \in Slots : k \notin entry'[c] => ComesUnwritten(c, k)
    <2>1. \A c \in 1 .. i : c = i \/ (c \in 1 .. i - 1 /\ entry'[c] = entry[c])
      BY <1>1
    <2> QED
      BY <1>1, <1>4, <1>5, <2>1
  <1>7. ASSUME NEW c \in i + 1 .. bpf_len, NEW k \in Slots, k \notin masks'[c]
        PROVE  ComesUnwritten(c, k)
    <2>1. c \in 1 .. bpf_len /\ c \in i .. bpf_len
      BY <1>1
    <2>2. \/ k \notin masks[c]
          \/ /\ k \notin valid_here /\ c > i
             /\ c \in Successors(i) /\ ~WritesSlot(StmtAt(i), k)
      BY <1>3, <1>7, <2>1, ResolvedLine
    <2>3. CASE k \notin masks[c]
      BY <1>4, <2>1, <2>3
    <2>4. CASE /\ k \notin valid_here /\ c > i
               /\ c \in Successors(i) /\ ~WritesSlot(StmtAt(i), k)
      BY <1>1, <1>5, <2>1, <2>4, PathGoesOn
    <2> QED
      BY <2>2, <2>3, <2>4
  <1>8. ASSUME i + 1 <= bpf_len, NEW k \in Slots, k \notin mem_valid'
        PROVE  ComesUnwritten(i + 1, k)
    <2>1. i + 1 \in 1 .. bpf_len /\ i + 1 > i
      BY <1>1, <1>8
    <2>2. k \notin valid_here /\ i + 1 \in Successors(i) /\ ~WritesSlot(StmtAt(i), k)
      BY <1>3, <1>8, ResolvedLine
    <2> QED
      BY <1>1, <1>5, <2>1, <2>2, PathGoesOn
  <1>9. ASSUME has_error'
        PROVE  \E c \in 1 .. i, k \in Slots : ReadsSlot(StmtAt(c), k) /\ k \notin entry'[c]
    <2>1. has_error \/ \E k \in Slots : ReadsSlot(StmtAt(i), k) /\ k \notin valid_here
      BY <1>3, <1>9, ResolvedLine
    <2>2. CASE has_error
      <3>1. PICK c \in 1 .. i - 1, k \in Slots : ReadsSlot(StmtAt(c), k) /\ k \notin entry[c]
        BY <1>4, <2>2 DEF FoundRead
      <3>2. c \in 1 .. i /\ entry'[c] = entry[c]
        BY <1>1
      <3> QED
        BY <3>1, <3>2
    <2>3. CASE \E k \in Slots : ReadsSlot(StmtAt(i), k) /\ k \notin valid_here
      BY <1>1, <2>3
    <2> QED
      BY <2>1, <2>2, <2>3
  <1> QED
    BY <1>6, <1>7, <1>8, <1>9

\* Every step keeps the pass exact.
LEMMA ExactStep ==
    ASSUME ParserInv, FlowInv, ExactInv, [Next]_vars
    PROVE  ExactInv'
  <1>1. CASE /\ phase = "parse" /\ phase' \in {"parse", "parsed", "exit"}
             /\ UNCHANGED resolverVars
    BY <1>1 DEF ExactInv, Passing, resolverVars
  <1>2. CASE StartResolve
    <2>1. phase = "parsed" /\ i = 0 /\ UNCHANGED parsed
      BY <1>2 DEF StartResolve, ExactInv, Passing, parsed
    <2>2. CASE bpf_len = 0
      <3>1. phase' = "exit" /\ i' = 0
        BY <1>2, <2>1, <2>2 DEF StartResolve, resolverVars
      <3> QED
        BY <3>1 DEF ExactInv, Passing
    <2>3. CASE bpf_len # 0
      <3>1. /\ phase' = "resolve" /\ i' = 1 /\ mem_valid' = {} /\ has_error' = FALSE
            /\ masks' = [c \in 1 .. bpf_len |-> Slots]
        BY <1>2, <2>3 DEF StartResolve
      <3>2. bpf_len \in Nat /\ bpf_len > 0
        BY <2>3 DEF bpf_len, ParserInv, ParserType
      <3>3. \A k : ComesUnwritten(1, k)'
        BY <2>1, <3>2, FirstUnwritten, PathsKept
      <3>4. \A c \in i' .. bpf_len', k \in Slots : k \in masks'[c]
        BY <2>1, <3>1, <3>2, PathsKept
      <3>5. 1 .. i' - 1 = {}
        BY <3>1
      <3> QED
        BY <3>1, <3>3, <3>4, <3>5 DEF ExactInv, Passing
    <2> QED
      BY <2>2, <2>3
  <1>3. CASE ResolveAssign \/ ResolveJump \/ ResolveReturn \/ ResolveErrorLine
    BY <1>3, ExactLine
  <1>4. CASE FinishResolve
    <2>1. /\ phase = "resolve" /\ UNCHANGED parsed /\ i > bpf_len
          /\ has_error' = (has_error \/ StmtAt(bpf_len).type # "RETURN_LINE")
          /\ phase' = IF has_error' THEN "exit" ELSE "ready"
          /\ UNCHANGED <<i, masks, mem_valid, off, entry>>
      BY <1>4 DEF FinishResolve, parsed
    <2>2. CASE ~has_error'
      BY <2>1, <2>2 DEF ExactInv, Passing
    <2>3. CASE has_error'
      <3>1. phase' = "exit"
        BY <2>1, <2>3
      <3>2. has_error \in BOOLEAN
        BY <2>1 DEF FlowInv, Resolved
      <3>3. has_error \/ StmtAt(bpf_len).type # "RETURN_LINE"
        BY <2>1, <2>3
      <3>4. /\ bpf_len' = bpf_len /\ Fine' = Fine /\ StmtAt(bpf_len)' = StmtAt(bpf_len)
            /\ \A c, k : ComesUnwritten(c, k)' = ComesUnwritten(c, k)
            /\ FoundRead' = FoundRead
        <4>1. \A c : StmtAt(c)' = StmtAt(c)
          BY <2>1, PathsKept
        <4>2. FoundRead' = FoundRead
          BY <2>1, <4>1 DEF FoundRead
        <4> QED
          BY <2>1, <4>2, PathsKept DEF StmtAt, bpf_len, parsed
      <3> QED
        BY <2>1, <2>3, <3>1, <3>3, <3>4 DEF ExactInv, Passing
    <2> QED
      BY <2>2, <2>3
  <1>5. CASE /\ UNCHANGED parsed /\ UNCHANGED resolverVars
             /\ phase' = phase \/ (phase \in {"ready", "emu"} /\ phase' \in {"ready", "emu", "failed"})
    <2>1. CASE phase' = phase
      <3>1. /\ bpf_len' = bpf_len /\ Fine' = Fine /\ StmtAt(bpf_len)' = StmtAt(bpf_len)
            /\ \A c, k : ComesUnwritten(c, k)' = ComesUnwritten(c, k)
            /\ FoundRead' = FoundRead
        <4>1. \A c : StmtAt(c)' = StmtAt(c)
          BY <1>5, PathsKept
        <4>2. FoundRead' = FoundRead
          BY <1>5, <4>1 DEF FoundRead, resolverVars
        <4> QED
          BY <1>5, <4>2, PathsKept DEF StmtAt, bpf_len, parsed
      <3> QED
        BY <1>5, <2>1, <3>1 DEF ExactInv, Passing, resolverVars
    <2>2. CASE phase' \in {"ready", "emu", "failed"}
      BY <2>2 DEF ExactInv, Passing
    <2> QED
      BY <1>5, <2>1, <2>2
  <1> QED
    BY <1>1, <1>2, <1>3, <1>4, <1>5, StepKinds

\* The pass over the lines is exact on every filter: what it accepts reads no
\* word before writing it on any path, and what it refuses for its memory has
\* a path that does.
THEOREM MaskAnalysisExactCorrect == Spec => []MaskAnalysisExact
  <1>1. Init => FineInv /\ ExactInv
    BY DEF Init, ParserInit, ResolverInit, FineInv, ExactInv, Passing, Resolved
  <1>2. Inv /\ FineInv /\ ExactInv /\ [Next]_vars => (FineInv /\ ExactInv)'
    BY FineStep, ExactStep DEF Inv
  <1>3. Inv /\ FineInv /\ ExactInv => MaskAnalysisExact
    <2> SUFFICES ASSUME Inv, FineInv, ExactInv PROVE MaskAnalysisExact
      OBVIOUS
    <2> DEFINE fine == Fine /\ StmtAt(bpf_len).type = "RETURN_LINE"
    <2>0. bpf_len \in Nat
      BY DEF Inv, ParserInv, ParserType, bpf_len
    <2>1. ASSUME phase = "ready" PROVE fine /\ ~SomePathReadsUnwritten
      <3>1. /\ i = bpf_len + 1 /\ ~has_error /\ StmtAt(bpf_len).type = "RETURN_LINE"
            /\ \A c \in 1 .. i - 1 : LineInv(c) /\ EdgeInv(c)
            /\ entry[1] = {} /\ 1 .. i - 1 = 1 .. bpf_len /\ 1 .. bpf_len = CodeNrs
        BY <2>0, <2>1 DEF Inv, FlowInv, Resolved, CodeNrs, bpf_len
      <3>2. Fine
        BY <2>0, <2>1, <3>1 DEF FineInv, Fine, Resolved
      <3>3. ASSUME SomePathReadsUnwritten PROVE FALSE
        <4>1. PICK P \in SUBSET (1 .. bpf_len) :
                /\ IsPath(P)
                /\ \E k \in Slots, c \in P :
                     /\ \A d \in P : d <= c
                     /\ ReadsSlot(StmtAt(c), k)
                     /\ \A d \in P \ {c} : ~WritesSlot(StmtAt(d), k)
          BY <3>3 DEF SomePathReadsUnwritten
        <4>2. PICK k \in Slots, c \in P :
                     /\ \A d \in P : d <= c
                     /\ ReadsSlot(StmtAt(c), k)
                     /\ \A d \in P \ {c} : ~WritesSlot(StmtAt(d), k)
          BY <4>1
        <4>3. c \in CodeNrs /\ LineInv(c) /\ StmtAt(c).type = "ASSIGN_LINE"
              /\ StmtAt(c).right.type = "MEM" /\ StmtAt(c).right.data = k
          BY <3>1, <4>2 DEF ReadsSlot
        <4>4. StmtAt(c) \in AssignLines /\ ~AssignError(StmtAt(c), entry[c])
          BY <4>3, StmtType, StmtKinds DEF Inv, LineInv
        <4>5. k \in entry[c]
          BY <4>3, <4>4, GoodAssign
        <4>6. k \notin entry[c]
          BY <2>0, <3>1, <4>1, <4>2, EntryOfPath
        <4> QED
          BY <4>5, <4>6
      <3> QED
        BY <3>1, <3>2, <3>3
    <2>2. ASSUME phase = "exit", i > bpf_len, i > 1, fine PROVE SomePathReadsUnwritten
      <3>1. /\ has_error
            /\ \A c \in 1 .. i - 1, k \in Slots : k \notin entry[c] => ComesUnwritten(c, k)
            /\ has_error => FoundRead
        BY <2>2 DEF ExactInv, Passing
      <3>2. PICK c \in 1 .. i - 1, k \in Slots : ReadsSlot(StmtAt(c), k) /\ k \notin entry[c]
        BY <3>1 DEF FoundRead
      <3>3. ComesUnwritten(c, k)
        BY <3>1, <3>2
      <3> QED
        BY <3>2, <3>3 DEF ComesUnwritten, SomePathReadsUnwritten
    <2> QED
      BY <2>1, <2>2 DEF MaskAnalysisExact, Fine
  <1> QED
    BY <1>1, <1>2, <1>3, InvCorrect, PTL DEF Spec

-----------------------------------------------------------------------------
(* emu implements the kernel's machine.                                    *)

\* What a run has written, as the machine sees it.
OwnMemory == [k \in Slots |-> IF k \in written THEN mem[k] ELSE Undef]
CodeReached == IF phase = "emu" THEN text[idx].code_nr ELSE 0

\* Nothing of the machine moves when these do not.
LEMMA MachineStutters ==
    ASSUME LoadedProg' = LoadedProg, CodeReached' = CodeReached, OwnMemory' = OwnMemory,
           UNCHANGED <<A_reg, X_reg, input, verdict>>
    PROVE  UNCHANGED Machine!vars
  BY DEF Machine!vars, CodeReached, OwnMemory

\* The program the machine runs is that of the text as long as the text is kept.
LEMMA ProgramKept ==
    ASSUME UNCHANGED parsed,
           phase \in {"ready", "emu", "failed"} <=> phase' \in {"ready", "emu", "failed"}
    PROVE  LoadedProg' = LoadedProg
  BY DEF parsed, LoadedProg, StmtAt, JtTarget, JfTarget, bpf_len

\* The operands of the machine and of emu are the same word, but for one that
\* this run has not written.
LEMMA SameOperand ==
    ASSUME NEW obj, obj.type = "MEM" => obj.data \in written /\ obj.data \in Slots
    PROVE  Machine!Operand(obj) = Value(obj)
  BY DEF Machine!Operand, Value

\* Before a text is parsed the machine has no program and has decided nothing.
LEMMA InitRefines == Init => Machine!Init
  <1> SUFFICES ASSUME Init PROVE Machine!Init
    OBVIOUS
  <1>1. phase = "parse" /\ written = {} /\ verdict = NoVerdict /\ A_reg = 0 /\ X_reg = 0
    BY DEF Init, ParserInit
  <1> QED
    BY <1>1 DEF Machine!Init, LoadedProg

\* A word of memory is only ever set, never added to.
LEMMA EqualOnly ==
    ASSUME Inv, phase = "emu", Here.type = "ASSIGN_LINE", Here.left.type = "MEM"
    PROVE  Here.op = "EQUAL"
  <1>1. ~IsEmpty(idx)
    BY DEF IsEmpty, Here, EmptyLine
  <1>p. PICK c \in CodeNrs : c = text[idx].code_nr
    BY DEF Inv, WalkInv
  <1>2. StmtAt(c) = Here /\ LineInv(c)
    BY <1>1, <1>p, CurrentLine DEF Inv
  <1>3. ~AssignError(Here, entry[c])
    BY <1>2 DEF LineInv
  <1> QED
    BY <1>3 DEF AssignError, AssignMemError

\* Reading a text does nothing the machine sees, until it has been accepted.
LEMMA LoadRefines ==
    ASSUME \/ ParserNext /\ UNCHANGED <<resolverVars, emuVars>>
           \/ ResolverNext /\ UNCHANGED emuVars
    PROVE  [Machine!Next]_(Machine!vars)
  <1>1. /\ phase \in {"parse", "parsed", "resolve"}
        /\ phase' \in {"parse", "parsed", "resolve", "ready", "exit"}
        /\ phase' = "ready" => FinishResolve
    BY DEF ParserNext, ParseLine, ParseOverflow, ParseEof, ResolverNext, StartResolve,
       ResolveAssign, ResolveJump, ResolveReturn, ResolveErrorLine, FinishResolve,
       Advance, parserVars
  <1>2. CodeReached = 0 /\ CodeReached' = 0 /\ LoadedProg = <<>>
    BY <1>1 DEF CodeReached, LoadedProg
  <1>3. OwnMemory' = OwnMemory /\ UNCHANGED <<A_reg, X_reg, input, verdict>>
    BY DEF emuVars, OwnMemory
  <1> QED
    BY <1>2, <1>3 DEF Machine!Next, Machine!Load, CodeReached, OwnMemory

\* init_attr starts the machine.
LEMMA StartRefines ==
    ASSUME Inv, NEW d \in Inputs, StartRun(d)
    PROVE  Machine!Start
  <1>1. /\ phase = "ready" /\ phase' = "emu" /\ UNCHANGED parsed
        /\ A_reg' = 0 /\ X_reg' = 0 /\ input' = d /\ idx' = 1
        /\ verdict' = NoVerdict /\ written' = {}
    BY DEF StartRun, parsed
  <1>2. LoadedProg' = LoadedProg
    BY <1>1, ProgramKept
  <1>3. bpf_len > 0 /\ bpf_len \in Nat
    BY <1>1 DEF Inv, FlowInv, Resolved, bpf_len, ParserInv, ParserType
  <1>4. LoadedProg # <<>>
    <2>1. DOMAIN LoadedProg = 1 .. bpf_len
      BY <1>1 DEF LoadedProg
    <2>2. 1 \in DOMAIN LoadedProg
      BY <1>3, <2>1
    <2> QED
      BY <2>2
  <1>5. text'[1].code_nr = 1
    <2>1. text # <<>>
      BY <1>3 DEF Inv, ParserInv, NumberingInv, bpf_len, ParserType
    <2> QED
      BY <1>1, <2>1 DEF Inv, ParserInv, NumberingInv, parsed
  <1>6. OwnMemory' = [k \in Slots |-> Undef]
    BY <1>1 DEF OwnMemory
  <1> QED
    BY <1>1, <1>2, <1>4, <1>5, <1>6 DEF Machine!Start, OwnMemory

\* The line of the program the machine stands on.
LEMMA ProgramLine ==
    ASSUME Inv, phase = "emu", ~IsEmpty(idx)
    PROVE  /\ text[idx].code_nr \in 1 .. Len(LoadedProg)
           /\ LoadedProg[text[idx].code_nr].stmt = Here
           /\ Here.type = "JUMP_LINE" =>
                /\ LoadedProg[text[idx].code_nr].jt = JtTarget(Here)
                /\ LoadedProg[text[idx].code_nr].jf = JfTarget(Here, text[idx].code_nr)
  <1>1. text[idx].code_nr \in CodeNrs /\ StmtAt(text[idx].code_nr) = Here
    BY CurrentLine DEF Inv
  <1>2. CodeNrs = 1 .. bpf_len /\ bpf_len \in Nat
    BY DEF CodeNrs, bpf_len, Inv, ParserInv, ParserType
  <1>p. PICK c \in 1 .. bpf_len : c = text[idx].code_nr
    BY <1>1, <1>2
  <1>3. LoadedProg = [n \in 1 .. bpf_len |->
              [stmt |-> StmtAt(n),
               jt |-> IF StmtAt(n).type = "JUMP_LINE" THEN JtTarget(StmtAt(n)) ELSE 0,
               jf |-> IF StmtAt(n).type = "JUMP_LINE" THEN JfTarget(StmtAt(n), n) ELSE 0]]
    BY DEF LoadedProg
  <1>4. Len(LoadedProg) = bpf_len
    BY <1>2, <1>3
  <1>5. LoadedProg[c] = [stmt |-> StmtAt(c),
               jt |-> IF StmtAt(c).type = "JUMP_LINE" THEN JtTarget(StmtAt(c)) ELSE 0,
               jf |-> IF StmtAt(c).type = "JUMP_LINE" THEN JfTarget(StmtAt(c), c) ELSE 0]
    BY <1>3
  <1> QED
    BY <1>1, <1>p, <1>4, <1>5

\* do_operate is the machine's step, when the mask leaves $X alone.
LEMMA AssignRefines ==
    ASSUME Inv, BodiesInv, EmuType, ShiftCountsFit, EmulateAssign
    PROVE  Machine!Step
  <1> DEFINE c == text[idx].code_nr
             value == AluResult(Here.op, Value(Here.left), ShiftCount(Here))
             shifts == Here.op \in {"LSH_TO", "RSH_TO"}
  <1>1. /\ phase = "emu" /\ Here.type = "ASSIGN_LINE" /\ ~DividesByZero(Here)
        /\ UNCHANGED parsed /\ phase' = "emu" /\ idx' = idx + 1
        /\ UNCHANGED <<input, verdict>>
    BY DEF EmulateAssign, parserVars, parsed
  <1>2. /\ A_reg' = (IF Here.left.type = "A" THEN value ELSE A_reg)
        /\ X_reg' = (IF Here.left.type = "X" THEN value ELSE XAfterMask(Here))
        /\ mem' = (IF Here.left.type = "MEM" THEN [mem EXCEPT ![Here.left.data] = value]
                                             ELSE mem)
        /\ written' = (IF Here.left.type = "MEM" THEN written \cup {Here.left.data}
                                                 ELSE written)
    BY DEF EmulateAssign
  <1>3. /\ Here \in AssignLines
        /\ Here.right.type = "MEM" => Here.right.data \in written /\ Here.right.data \in Slots
        /\ Here.left.type = "MEM" => Here.left.data \in Slots
    BY <1>1, CurrentAssign
  <1>4. ~IsEmpty(idx) /\ idx \in TextNrs
    BY <1>1 DEF IsEmpty, Here, EmptyLine, Inv, WalkInv
  <1>5. /\ c \in 1 .. Len(LoadedProg) /\ LoadedProg[c].stmt = Here
    BY <1>1, <1>4, ProgramLine
  <1>6. /\ LoadedProg' = LoadedProg
    BY <1>1, ProgramKept
  <1>7. text'[idx'].code_nr = c + 1
    <2>1. c + 1 \in CodeNrs
      BY <1>1, <1>4, CurrentLine DEF Inv
    <2>2. NextNr(idx) = c + 1
      BY <1>4 DEF NextNr
    <2> QED
      BY <1>1, <1>4, <2>1, <2>2, NextLine DEF Inv, parsed
  <1>8. /\ Value(Here.right) \in Word /\ ShiftCount(Here) \in Word
    BY <1>1, OperandsInWord
  <1>9. Machine!Operand(Here.right) = Value(Here.right)
    BY <1>3, SameOperand
  <1>10. ShiftCount(Here) = IF shifts THEN Machine!Operand(Here.right) % WordBits
                                      ELSE Machine!Operand(Here.right)
    BY <1>9 DEF ShiftCount
  <1>11. AluResult(Here.op, Machine!Operand(Here.left), ShiftCount(Here)) = value
    <2>1. CASE Here.left.type = "MEM"
      <3>1. Here.op = "EQUAL"
        BY <1>1, <2>1, EqualOnly
      <3>2. Machine!Operand(Here.left) \in Word \cup {Undef} /\ Value(Here.left) \in Word
        BY <1>1, <1>3, <2>1, OperandsInWord DEF Machine!Operand, EmuType
      <3> QED
        BY <1>8, <3>1, <3>2, MachineAssumption
    <2>2. CASE Here.left.type # "MEM"
      BY <2>2, SameOperand
    <2> QED
      BY <2>1, <2>2
  <1>12. XAfterMask(Here) = X_reg
    <2>1. X_reg \in Nat /\ WordBits \in Nat /\ WordBits > 0
      BY EmulatorAssumption, ResolverAssumption DEF EmuType
    <2>2. CASE shifts /\ Here.right.type = "X"
      <3>1. X_reg \in 0 .. WordBits - 1
        BY <1>1, <2>1, <2>2 DEF ShiftCountsFit
      <3> QED
        BY <2>1, <2>2, <3>1, ModSmall DEF XAfterMask
    <2> QED
      BY <2>2 DEF XAfterMask
  <1>13. OwnMemory' = IF Here.left.type = "MEM"
                        THEN [OwnMemory EXCEPT ![Here.left.data] = value] ELSE OwnMemory
    BY <1>2, <1>3 DEF OwnMemory, EmuType
  <1>14. Machine!Operand(Here.right) # Undef
    BY <1>8, <1>9, EmulatorAssumption
  <1>15. ~(Here.op = "DIVIDE_TO" /\ ShiftCount(Here) = 0)
    BY <1>1 DEF DividesByZero, ShiftCount
  <1>16. Machine!Assign(Here)
    BY <1>1, <1>2, <1>6, <1>7, <1>10, <1>11, <1>12, <1>13, <1>14, <1>15
       DEF Machine!Assign, OwnMemory
  <1> QED
    BY <1>1, <1>5, <1>16 DEF Machine!Step, Machine!Assign

\* A division by zero ends the run of both with the same verdict.
LEMMA FPERefines ==
    ASSUME Inv, BodiesInv, EmuType, EmulateFPE
    PROVE  Machine!Step
  <1> DEFINE c == text[idx].code_nr
  <1>1. /\ phase = "emu" /\ Here.type = "ASSIGN_LINE" /\ DividesByZero(Here)
        /\ UNCHANGED parsed /\ phase' = "ready"
        /\ verdict' = [type |-> "KILL", data |-> 0]
        /\ UNCHANGED <<A_reg, X_reg, mem, input, written>>
    BY DEF EmulateFPE, EndRun, parsed
  <1>2. /\ Here.right.type = "MEM" => Here.right.data \in written /\ Here.right.data \in Slots
    BY <1>1, CurrentAssign
  <1>3. ~IsEmpty(idx)
    BY <1>1 DEF IsEmpty, Here, EmptyLine
  <1>4. c \in 1 .. Len(LoadedProg) /\ LoadedProg[c].stmt = Here
    BY <1>1, <1>3, ProgramLine
  <1>5. LoadedProg' = LoadedProg
    BY <1>1, ProgramKept
  <1>6. Machine!Operand(Here.right) = Value(Here.right)
    BY <1>2, SameOperand
  <1>7. Machine!DivideByZero(Here)
    BY <1>1, <1>5, <1>6, MachineAssumption DEF Machine!DivideByZero, DividesByZero
  <1> QED
    BY <1>1, <1>4, <1>7 DEF Machine!Step, Machine!DivideByZero

\* jump_line takes the side the machine takes, and the line it lands on is the
\* code line that side names.
LEMMA JumpRefines ==
    ASSUME Inv, BodiesInv, EmuType, EmulateJump
    PROVE  Machine!Step
  <1> DEFINE c == text[idx].code_nr
  <1>1. /\ phase = "emu" /\ Here.type = "JUMP_LINE"
        /\ idx' = (IF TakesJt(Here) THEN CodeNrToTextNr(idx, Here.jt, off[c].jt)
                                    ELSE CodeNrToTextNr(idx, Here.jf, off[c].jf))
        /\ UNCHANGED parsed /\ phase' = "emu"
        /\ UNCHANGED <<A_reg, X_reg, mem, input, verdict, written>>
    BY DEF EmulateJump, parserVars, parsed
  <1>2. ~IsEmpty(idx)
    BY <1>1 DEF IsEmpty, Here, EmptyLine
  <1>3. /\ c \in 1 .. Len(LoadedProg) /\ LoadedProg[c].stmt = Here
        /\ LoadedProg[c].jt = JtTarget(Here) /\ LoadedProg[c].jf = JfTarget(Here, c)
    BY <1>1, <1>2, ProgramLine
  <1>4. LoadedProg' = LoadedProg
    BY <1>1, ProgramKept
  <1>5. /\ text[CodeNrToTextNr(idx, Here.jt, off[c].jt)].code_nr = JtTarget(Here)
        /\ Here.cond => text[CodeNrToTextNr(idx, Here.jf, off[c].jf)].code_nr = JfTarget(Here, c)
        /\ Here \in JumpLines
    BY <1>1, JumpLanding DEF Inv
  <1>6. Here.obj.type \in {"X", "NUMBER"}
    BY <1>5 DEF JumpLines, Obj
  <1>7. Machine!Operand(Here.obj) = IF Here.obj.type = "X" THEN X_reg ELSE Here.obj.data
    BY <1>6 DEF Machine!Operand
  <1>8. TakesJt(Here) = (Here.cond => CompareResult(Here.cmp, A_reg, Machine!Operand(Here.obj)) # Here.bang)
    BY <1>7 DEF TakesJt
  <1>9. TakesJt(Here) \/ Here.cond
    BY DEF TakesJt
  <1>10. text'[idx'].code_nr = IF TakesJt(Here) THEN LoadedProg[c].jt ELSE LoadedProg[c].jf
    BY <1>1, <1>3, <1>5, <1>9 DEF parsed
  <1>11. Machine!Jump(Here)
    BY <1>1, <1>4, <1>8, <1>10 DEF Machine!Jump
  <1> QED
    BY <1>1, <1>3, <1>11 DEF Machine!Step, Machine!Jump

\* return_line gives the verdict of the machine.
LEMMA ReturnRefines ==
    ASSUME Inv, EmulateReturn
    PROVE  Machine!Step
  <1> DEFINE c == text[idx].code_nr
             answer == CASE Here.obj.type = "A"      -> DecodeReturnK(A_reg)
                         [] Here.obj.type = "NUMBER" -> DecodeReturnK(Here.obj.data)
                         [] OTHER                    -> Here.obj
  <1>1. /\ phase = "emu" /\ Here.type = "RETURN_LINE"
        /\ UNCHANGED parsed /\ phase' = "ready"
        /\ verdict' = answer
        /\ UNCHANGED <<A_reg, X_reg, mem, input, written>>
    BY DEF EmulateReturn, EndRun, parsed
  <1>2. ~IsEmpty(idx)
    BY <1>1 DEF IsEmpty, Here, EmptyLine
  <1>3. c \in 1 .. Len(LoadedProg) /\ LoadedProg[c].stmt = Here
    BY <1>1, <1>2, ProgramLine
  <1>4. LoadedProg' = LoadedProg
    BY <1>1, ProgramKept
  <1>5. Machine!Return(Here)
    BY <1>1, <1>4 DEF Machine!Return
  <1> QED
    BY <1>1, <1>3, <1>5 DEF Machine!Step, Machine!Return

\* Passing over a line without code is no step of the machine.
LEMMA EmptyStutters ==
    ASSUME Inv, EmulateEmpty
    PROVE  UNCHANGED Machine!vars
  <1>1. /\ phase = "emu" /\ Here.type = "EMPTY_LINE"
        /\ idx' = idx + 1 /\ UNCHANGED parsed /\ phase' = "emu"
        /\ UNCHANGED <<A_reg, X_reg, mem, input, verdict, written>>
    BY DEF EmulateEmpty, parserVars, parsed
  <1>2. idx \in TextNrs /\ text[idx].code_nr \in CodeNrs
    BY <1>1 DEF Inv, WalkInv
  <1>3. text[idx] \in TextLines
    BY <1>2 DEF Inv, ParserInv, ParserType, TextNrs
  <1>4. IsEmpty(idx)
    <2>1. Here \in CodeBodies \cup {EmptyLine}
      BY <1>3 DEF TextLines, Here
    <2> QED
      BY <1>1, <2>1, StmtKinds DEF IsEmpty, Here
  <1>5. NextNr(idx) = text[idx].code_nr
    BY <1>3, <1>4 DEF NextNr, TextLines
  <1>6. text[idx + 1].code_nr = text[idx].code_nr
    BY <1>2, <1>5, NextLine DEF Inv
  <1>7. CodeReached' = CodeReached /\ OwnMemory' = OwnMemory
    BY <1>1, <1>6 DEF CodeReached, OwnMemory, parsed
  <1>8. LoadedProg' = LoadedProg
    BY <1>1, ProgramKept
  <1> QED
    BY <1>1, <1>7, <1>8, MachineStutters

\* The refinement, for every text: emu and probe do on every system call what
\* the kernel's machine does, as long as no shift by $X meets a count that the
\* mask of emu.c changes.
THEOREM KernelAgreesCorrect == Spec /\ []ShiftCountsFit => KernelAgrees
  <1>1. Init => Machine!Init
    BY InitRefines
  <1>2. Inv /\ BodiesInv /\ EmuType /\ ShiftCountsFit /\ [Next]_vars
          => [Machine!Next]_(Machine!vars)
    <2> SUFFICES ASSUME Inv, BodiesInv, EmuType, ShiftCountsFit, [Next]_vars
                 PROVE  [Machine!Next]_(Machine!vars)
      OBVIOUS
    <2>1. CASE \/ ParserNext /\ UNCHANGED <<resolverVars, emuVars>>
               \/ ResolverNext /\ UNCHANGED emuVars
      BY <2>1, LoadRefines
    <2>2. CASE \E d \in Inputs : StartRun(d)
      BY <2>2, StartRefines DEF Machine!Next
    <2>3. CASE EmulateAssign
      BY <2>3, AssignRefines DEF Machine!Next
    <2>4. CASE EmulateFPE
      BY <2>4, FPERefines DEF Machine!Next
    <2>5. CASE EmulateJump
      BY <2>5, JumpRefines DEF Machine!Next
    <2>6. CASE EmulateReturn
      BY <2>6, ReturnRefines DEF Machine!Next
    <2>7. CASE EmulateEmpty
      BY <2>7, EmptyStutters
    <2>8. CASE UNCHANGED vars
      <3>1. UNCHANGED parsed /\ phase' = phase /\ idx' = idx
            /\ UNCHANGED <<A_reg, X_reg, mem, input, verdict, written>>
        BY <2>8 DEF vars, parserVars, emuVars, parsed
      <3>2. CodeReached' = CodeReached /\ OwnMemory' = OwnMemory
        BY <3>1 DEF CodeReached, OwnMemory, parsed
      <3>3. LoadedProg' = LoadedProg
        BY <3>1, ProgramKept
      <3> QED
        BY <3>1, <3>2, <3>3, MachineStutters
    <2>9. CASE InitAttrFails
      <3>1. /\ UNCHANGED parsed /\ phase = "ready" /\ phase' = "failed"
            /\ UNCHANGED <<A_reg, X_reg, mem, input, verdict, written>>
        BY <2>9 DEF InitAttrFails, emuVars, parsed
      <3>2. CodeReached' = CodeReached /\ OwnMemory' = OwnMemory
        BY <3>1 DEF CodeReached, OwnMemory
      <3>3. LoadedProg' = LoadedProg
        BY <3>1, ProgramKept
      <3> QED
        BY <3>1, <3>2, <3>3, MachineStutters
    <2> QED
      BY <2>1, <2>2, <2>3, <2>4, <2>5, <2>6, <2>7, <2>8, <2>9 DEF Next, EmulateLine, Terminated
  <1> QED
    BY <1>1, <1>2, InvCorrect, StateCorrect, PTL DEF Spec, KernelAgrees, Machine!Spec
=============================================================================
