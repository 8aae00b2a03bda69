------------------------------- MODULE Source -------------------------------
(***************************************************************************)
(* How asm, emu and probe get the lines of a text                          *)
(* (src/utils/read_source.c): the file is read in pieces into a map that   *)
(* grows, its line breaks are made line feeds and its colours taken out in *)
(* place, which leaves zeros behind, and next_line hands out one line      *)
(* after the other to the scanner (src/lexical/scanner.c), which gives up  *)
(* on a text with too many characters it does not know.                    *)
(*                                                                         *)
(* A character is one of a few kinds.  What the scanner and the grammar    *)
(* make of the characters they know is Parser's matter; here a line is its *)
(* characters but for spaces and comment, or ErrorLine.  Positions count   *)
(* from 1.                                                                 *)
(***************************************************************************)
EXTENDS Integers, SequencesExt

CONSTANTS
    Chunks,         \* what one read may return
    GROW_LEN,       \* the map grows by this; a read is never longer
    MAX_LINE_LEN,
    MAX_FILE_LEN,
    BPF_MAXINSNS,
    UnknownMax      \* 5: one more than this many unknown tokens, then the end

LF   == "lf"
CR   == "cr"
ESC  == "esc"       \* begins a colour
M    == "m"         \* ends one, and is a letter
Hash == "hash"      \* begins a comment
Bad  == "bad"       \* no token begins with it
NUL  == "nul"
Chars == {LF, CR, ESC, M, Hash, Bad, NUL, "letter"}

ASSUME SourceAssumption ==
    /\ GROW_LEN \in Nat \ {0} /\ MAX_LINE_LEN \in Nat \ {0}
    /\ MAX_FILE_LEN \in Nat /\ BPF_MAXINSNS \in Nat /\ UnknownMax \in Nat
    /\ \A c \in Chunks : c \in Seq(Chars) /\ Len(c) \in 1 .. GROW_LEN

VARIABLES
    phase,          \* read, split, scan, done, or exit (error () was called)
    source,         \* the first current characters of the map
    map_len,
    file_type,
    line_start, line_nr,    \* the loop of process_source
    lines,          \* what init_source returned
    cursor,         \* next_line's: the position before the next line
    unknown_count,
    text,           \* the lines of text_v
    file            \* history: what was read

vars == <<phase, source, map_len, file_type, line_start, line_nr, lines, cursor,
          unknown_count, text, file>>

ErrorLine == <<"error">>
current == Len(source)

Init ==
    /\ phase = "read"
    /\ source = <<>> /\ map_len = 0
    /\ file_type = "UNKNOWN"
    /\ line_start = 1 /\ line_nr = 1 /\ lines = 0
    /\ cursor = 0 /\ unknown_count = 0
    /\ text = <<>> /\ file = <<>>

\* The first of a set of positions, or 0.
First(S) == IF S = {} THEN 0 ELSE Min(S)

\* memchr: the first c in s, or 0.
memchr(s, c) == First({p \in DOMAIN s : s[p] = c})

-----------------------------------------------------------------------------
(***************************************************************************)
(* init_source.                                                            *)
(***************************************************************************)
\* Mutant of increase_map: the map grows only once it is full.
increase_mapFull == IF current < map_len THEN map_len ELSE map_len + GROW_LEN

\* init_map is the first growth.
increase_map == IF current + GROW_LEN <= map_len THEN map_len ELSE map_len + GROW_LEN

Unsplit == UNCHANGED <<file_type, line_start, line_nr, lines, cursor, unknown_count, text>>

Read(chunk) ==
    /\ phase = "read"
    /\ map_len' = increase_map
    /\ IF current + Len(chunk) > MAX_FILE_LEN
         THEN phase' = "exit" /\ UNCHANGED source
         ELSE source' = source \o chunk /\ UNCHANGED phase
    /\ UNCHANGED file /\ Unsplit

ReadFails ==
    /\ phase = "read"
    /\ map_len' = increase_map
    /\ phase' = "exit"
    /\ UNCHANGED <<source, file>> /\ Unsplit

\* The read that returns nothing, and detect_file_type.  The map has grown
\* before the read, so it need not grow again for the trailing line feed.
ReadEnd ==
    LET lf == memchr(source, LF)
    IN  /\ phase = "read"
        /\ map_len' = increase_map
        /\ file' = source
        /\ file_type' = CASE lf > 1 /\ source[lf - 1] = CR       -> "WINDOWS"
                          [] lf = 1 \/ (lf > 1 /\ source[lf - 1] # CR) -> "UNIX"
                          [] lf = 0 /\ memchr(source, CR) > 0    -> "MACOS"
                          [] OTHER                               -> "UNKNOWN"
        /\ phase' = IF memchr(source, NUL) > 0 \/ file_type' = "UNKNOWN" THEN "exit" ELSE "split"
        /\ UNCHANGED <<source, line_start, line_nr, lines, cursor, unknown_count, text>>

-----------------------------------------------------------------------------
(***************************************************************************)
(* process_source.                                                         *)
(***************************************************************************)
\* The positions of t that stay: colorstart is set from ESC to the next m, or
\* to the end of the line.
Kept(t) ==
    LET colorstart[p \in 0 .. Len(t)] ==
          IF p = 0 THEN FALSE ELSE IF colorstart[p - 1] THEN t[p] # M ELSE t[p] = ESC
    IN  {p \in DOMAIN t : ~colorstart[p - 1] /\ t[p] # ESC}

\* The n-th of a set of positions.
Nth(S, n) == CHOOSE p \in S : Cardinality({q \in S : q < p}) = n - 1

\* What s has at the positions S, in their order.
Pick(s, S) == [n \in 1 .. Cardinality(S) |-> s[Nth(S, n)]]

\* Mutant of clear_color: what is left behind the line is not cleared.
clear_colorNoMemset(t) ==
    LET kept == Kept(t)
    IN  [p \in DOMAIN t |-> IF p <= Cardinality(kept) THEN t[Nth(kept, p)] ELSE t[p]]

\* clear_color: what stays moves to the front, and zeros follow.
clear_color(t) ==
    LET kept == Kept(t)
    IN  [p \in DOMAIN t |-> IF p <= Cardinality(kept) THEN t[Nth(kept, p)] ELSE NUL]

Rest == SubSeq(source, line_start, current)

\* The line break that is looked for, in no more than MAX_LINE_LEN characters.
Break ==
    LET brk == memchr(Rest, IF file_type = "MACOS" THEN CR ELSE LF)
    IN  IF brk > MAX_LINE_LEN THEN 0 ELSE brk

\* The line up to its break, which becomes a line feed.
Broken(brk) ==
    LET line == SubSeq(source, 1, line_start + brk - 1)
        at   == Len(line)
    IN  IF file_type = "WINDOWS" THEN [line EXCEPT ![at - 1] = LF, ![at] = NUL]
                                 ELSE [line EXCEPT ![at] = LF]

SplitLine ==
    LET next == line_start + Break
        done == Broken(Break)
    IN  /\ phase = "split" /\ Break > 0
        /\ source' = SubSeq(done, 1, line_start - 1)
                       \o clear_color(SubSeq(done, line_start, Len(done)))
                       \o SubSeq(source, next, current)
        /\ line_start' = next
        /\ line_nr' = line_nr + 1
        /\ UNCHANGED <<phase, map_len, file_type, lines, cursor, unknown_count, text, file>>

\* No break is left, or none near enough.
LineTooLong == Break = 0 /\ Len(Rest) >= MAX_LINE_LEN

\* Mutant of TooManyLines: one line too many is let through.
TooManyLinesOneMore == line_nr > 4 * BPF_MAXINSNS

TooManyLines == line_nr >= 4 * BPF_MAXINSNS

SplitEnd ==
    /\ phase = "split" /\ Break = 0
    /\ IF LineTooLong \/ TooManyLines
         THEN phase' = "exit" /\ UNCHANGED <<source, lines>>
         ELSE /\ phase' = "scan"
              /\ lines' = IF Rest = <<>> THEN line_nr ELSE line_nr + 1
              /\ source' = SubSeq(source, 1, line_start - 1) \o clear_color(Rest)
    /\ UNCHANGED <<map_len, file_type, line_start, line_nr, cursor, unknown_count, text, file>>

-----------------------------------------------------------------------------
(***************************************************************************)
(* next_line, scan_token and parse_line.                                   *)
(***************************************************************************)
\* Mutant of next_line: the zeros that are left behind a line are not skipped.
next_lineKeepZeros ==
    LET rest == SubSeq(source, cursor + 1, current)
        brk  == memchr(rest, LF)
    IN  IF brk = 0 THEN [line |-> rest, cursor |-> current]
        ELSE [line |-> SubSeq(rest, 1, brk - 1), cursor |-> cursor + brk]

\* A line without its line feed, which is written behind the last one when
\* there is none, and the position before the next line.
next_line ==
    LET rest == SubSeq(source, cursor + 1, current)
        brk  == memchr(rest, LF)
        after == SubSeq(rest, brk + 1, Len(rest))
        char  == First({p \in DOMAIN after : after[p] # NUL})
    IN  IF brk = 0 THEN [line |-> rest, cursor |-> current]
        ELSE [line   |-> SubSeq(rest, 1, brk - 1),
              cursor |-> IF char = 0 THEN current ELSE cursor + brk + char - 1]

\* What scan_token looks at: a comment is one token.
Scanned(line) ==
    LET hash == memchr(line, Hash)
    IN  Pick(line, {p \in DOMAIN line : line[p] # CR /\ (hash = 0 \/ p < hash)})

Unknown(c) == c \in {Bad, NUL, ESC}

\* Mutant of GivesUp: already the first unknown character ends the text.
GivesUpAtOnce(count) == count > 0

\* scan_token's TOKEN_EOF for an unknown character, count of them in all.
GivesUp(count) == count > UnknownMax + 1

\* One line.  An unknown token is one the grammar has no place for: error_at
\* skips to the end of the line.  When the scanner gives up, what came before
\* on the line is still a line, and then comes eof_line.
ParseLine ==
    LET next  == next_line
        chars == Scanned(next.line)
        count(p) == unknown_count + Cardinality({q \in 1 .. p : Unknown(chars[q])})
        stops == {p \in DOMAIN chars : Unknown(chars[p]) /\ GivesUp(count(p))}
        read  == IF stops = {} THEN chars ELSE SubSeq(chars, 1, Min(stops) - 1)
    IN  /\ phase = "scan" /\ cursor < current
        /\ text' = IF stops # {} /\ read = <<>> THEN text
                   ELSE Append(text, IF \E p \in DOMAIN read : Unknown(read[p]) THEN ErrorLine ELSE read)
        /\ unknown_count' = count(Len(read))
        /\ cursor' = next.cursor
        /\ phase' = IF stops = {} THEN phase ELSE "done"
        /\ UNCHANGED <<source, map_len, file_type, line_start, line_nr, lines, file>>

\* next_line returns NULL, which the scanner makes TOKEN_EOF.
ParseEof ==
    /\ phase = "scan" /\ cursor >= current
    /\ phase' = "done"
    /\ UNCHANGED <<source, map_len, file_type, line_start, line_nr, lines, cursor,
                   unknown_count, text, file>>

Terminated == phase \in {"done", "exit"} /\ UNCHANGED vars

Next ==
    \/ \E chunk \in Chunks : Read(chunk)
    \/ ReadFails \/ ReadEnd
    \/ SplitLine \/ SplitEnd
    \/ ParseLine \/ ParseEof
    \/ Terminated

Spec == Init /\ [][Next]_vars

-----------------------------------------------------------------------------
(***************************************************************************)
(* The lines of a file, by the places of its line breaks.                  *)
(***************************************************************************)
LineBreak == IF file_type = "MACOS" THEN CR ELSE LF

\* Where the lines end, the last one with or without a break.
Ends == {p \in DOMAIN file : file[p] = LineBreak \/ p = Len(file)}

LineAt(end) ==
    LET before == {p \in Ends : p < end}
        first  == IF before = {} THEN 1 ELSE Max(before) + 1
    IN  SubSeq(file, first, IF file[end] = LineBreak THEN end - 1 ELSE end)

\* Position p of a line is part of a colour, and every colour ends on its line.
Coloured(line, p) ==
    \E q \in 1 .. p : line[q] = ESC /\ \A r \in q .. p - 1 : line[r] # M
ColoursClosed ==
    \A end \in Ends :
        LET line == LineAt(end)
        IN  \A p \in DOMAIN line : line[p] = ESC => \E q \in p .. Len(line) : line[q] = M

\* What the characters of a line say that are neither colour, space nor comment.
Statement(line) ==
    LET hash  == {p \in DOMAIN line : line[p] = Hash /\ ~Coloured(line, p)}
        shown == {p \in DOMAIN line : /\ ~Coloured(line, p) /\ line[p] # CR
                                      /\ \A h \in hash : p < h}
        chars == Pick(line, shown)
    IN  IF Contains(chars, Bad) THEN ErrorLine ELSE chars

Written ==
    [n \in 1 .. Cardinality(Ends) |-> Statement(LineAt(Nth(Ends, n)))]

\* A file that is taken for one of Windows has no line that ends otherwise, but
\* for empty ones.
Uniform ==
    file_type = "WINDOWS" => \A p \in DOMAIN file : file[p] = LF => file[p - 1] \in {CR, LF}

Refused(t) == Contains(t, ErrorLine)

-----------------------------------------------------------------------------
\* A read fits in the map, the line feed that next_line writes and the
\* character that clear_color looks at behind the last line have a place, and
\* so has the \r before the first line feed of a file from Windows (increase_map,
\* next_line, process_source).
InMap ==
    /\ current <= map_len
    /\ phase \in {"split", "scan"} => current < map_len
    /\ phase = "split" /\ file_type = "WINDOWS" /\ Break > 0 => line_start + Break > 2

\* A text that goes through without an error is what the file says, line by
\* line: no line is lost, joined to another or cut short, whatever its line
\* breaks, its colours, and however the scanner came to the end.  Colours at
\* the very end of the file may or may not count as an empty line.
AcceptedAsWritten ==
    phase = "done" /\ Uniform /\ ColoursClosed /\ ~Refused(text) =>
        Written \in {text, Append(text, <<>>)}

\* "any basic ANSI color in _TEXT_ file, e.g., `\x1b[31m`, will be discarded
\* when processing" (docs/ceccomp.adoc): a colour or a kind of line break makes
\* no text an error, if its last line ends in a line break.
ColoursDiscarded ==
    phase = "done" /\ Uniform /\ ColoursClosed /\ file[Len(file)] = LineBreak /\ ~Refused(Written)
      => ~Refused(text)

\* text_nr, a uint16_t, and text_v, made for as many lines as init_source
\* counted: there are no more lines than that, and they are at most
\* 4 * BPF_MAXINSNS with the one at the end of the file.
LinesCounted ==
    /\ phase = "scan" => lines <= 4 * BPF_MAXINSNS
    /\ phase \in {"scan", "done"} => Len(text) < lines
=============================================================================
