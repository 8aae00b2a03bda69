---------------------------- MODULE SourceProof ----------------------------
(***************************************************************************)
(* Proofs about Source, for every file and every way to read it.           *)
(***************************************************************************)
EXTENDS Source, FiniteSetTheorems, SequenceTheorems, WellFoundedInduction, TLAPS

(***************************************************************************)
(* The inductive invariant.                                                *)
(***************************************************************************)
Phases == {"read", "split", "scan", "done", "exit"}

TypeInv ==
    /\ phase \in Phases
    /\ source \in Seq(Chars) /\ map_len \in Nat
    /\ line_start \in Nat \ {0} /\ line_nr \in Nat \ {0} /\ lines \in Nat /\ cursor \in Nat
    /\ \E S : text \in Seq(S)

\* There is always room for one more read, and for the line feed at the end.
MapInv ==
    /\ current <= map_len
    /\ phase \in {"split", "scan"} => current < map_len

\* The line feeds of s between two positions.
Feeds(s, from, to) == {p \in from .. to : s[p] = LF}

\* Before m lines of s, in its first n characters, there are fewer line feeds,
\* or as many and nothing but zeros behind the last one.
Counted(s, n, m) ==
    /\ Cardinality(Feeds(s, 1, n)) <= m - 1
    /\ Cardinality(Feeds(s, 1, n)) = m - 1 =>
         \A p \in 1 .. n : s[p] # NUL => \E q \in p .. n : s[q] = LF

ReadInv == phase = "read" => line_start = 1 /\ line_nr = 1 /\ cursor = 0 /\ text = <<>>

SplitInv ==
    phase = "split" =>
        /\ line_start <= current + 1
        /\ file_type \in {"WINDOWS", "UNIX", "MACOS"}
        /\ file_type = "WINDOWS" /\ line_start = 1 => memchr(source, LF) # 1
        /\ file_type = "MACOS" => \A p \in line_start .. current : source[p] # LF
        /\ line_nr = 1 => line_start = 1
        /\ Counted(source, line_start - 1, line_nr)
        /\ cursor = 0 /\ text = <<>>

\* next_line will find something behind the last line feed.
EndText ==
    \E p \in cursor + 1 .. current : source[p] # NUL /\ \A q \in p .. current : source[q] # LF
LastLine == EndText \/ (cursor < current /\ Feeds(source, cursor + 1, current) = {})

\* The lines there are, those to come included, are fewer than were counted.
ScanInv ==
    /\ phase = "scan" =>
         /\ lines <= 4 * BPF_MAXINSNS /\ cursor <= current
         /\ Len(text) + Cardinality(Feeds(source, cursor + 1, current))
              + (IF LastLine THEN 1 ELSE 0) < lines
    /\ phase = "done" => Len(text) < lines

Inv == TypeInv /\ MapInv /\ ReadInv /\ SplitInv /\ ScanInv

-----------------------------------------------------------------------------
(***************************************************************************)
(* Positions in sequences.                                                 *)
(***************************************************************************)
LEMMA MinExists ==
    ASSUME NEW S, S \subseteq Nat, S # {}
    PROVE  \E m \in S : \A n \in S : m <= n
  <1>1. PICK m \in S : \A n \in S : ~(<<n, m>> \in OpToRel(<, Nat))
    BY NatLessThanWellFounded, WFMin
  <1>2. ASSUME NEW n \in S PROVE m <= n
    <2>1. ~(n < m)
      BY <1>1 DEF OpToRel
    <2> QED BY <2>1
  <1> QED BY <1>2

LEMMA FirstIs ==
    ASSUME NEW S, S \subseteq Nat \ {0}
    PROVE  /\ First(S) \in Nat
           /\ First(S) = 0 <=> S = {}
           /\ First(S) # 0 => First(S) \in S /\ \A n \in S : First(S) <= n
  <1>1. CASE S = {}
    BY <1>1 DEF First
  <1>2. CASE S # {}
    <2>1. First(S) = Min(S)
      BY <1>2 DEF First
    <2>2. \E m \in S : \A n \in S : m <= n
      BY <1>2, MinExists
    <2>3. Min(S) \in S /\ \A n \in S : Min(S) <= n
      BY <2>2 DEF Min
    <2> QED BY <1>2, <2>1, <2>3
  <1> QED BY <1>1, <1>2

\* memchr finds the first one.
LEMMA Memchr ==
    ASSUME NEW s \in Seq(Chars), NEW c
    PROVE  /\ memchr(s, c) \in 0 .. Len(s)
           /\ memchr(s, c) = 0 => \A p \in 1 .. Len(s) : s[p] # c
           /\ memchr(s, c) # 0 => /\ s[memchr(s, c)] = c
                                  /\ \A p \in 1 .. memchr(s, c) - 1 : s[p] # c
  <1> DEFINE S == {p \in DOMAIN s : s[p] = c}
             m == memchr(s, c)
  <1>1. DOMAIN s = 1 .. Len(s) /\ Len(s) \in Nat
    OBVIOUS
  <1>2. S \subseteq Nat \ {0}
    BY <1>1
  <1>3. m = First(S)
    BY DEF memchr
  <1> HIDE DEF m
  <1>4. /\ m \in Nat
        /\ m = 0 <=> S = {}
        /\ m # 0 => m \in S /\ \A n \in S : m <= n
    BY <1>2, <1>3, FirstIs
  <1>5. m \in 0 .. Len(s)
    BY <1>1, <1>4
  <1>6. m = 0 => \A p \in 1 .. Len(s) : s[p] # c
    BY <1>1, <1>4
  <1>7. m # 0 => s[m] = c /\ \A p \in 1 .. m - 1 : s[p] # c
    BY <1>1, <1>4
  <1> QED BY <1>5, <1>6, <1>7 DEF m

\* Every number up to the size of a set of positions is that of one of them.
LEMMA NthIs ==
    ASSUME NEW N \in Nat, NEW S, S \subseteq 1 .. N, NEW n \in 1 .. Cardinality(S)
    PROVE  Nth(S, n) \in S /\ Cardinality({q \in S : q < Nth(S, n)}) = n - 1
  <1> DEFINE Below(p) == {q \in S : q < p}
             T == {p \in Nat : Cardinality(Below(p)) >= n}
  <1>1. IsFiniteSet(S)
    <2>1. IsFiniteSet(1 .. N)
      BY FS_Interval
    <2> QED BY <2>1, FS_Subset
  <1>13. ASSUME NEW q \in S PROVE q \in Nat /\ 1 <= q /\ q <= N
    OBVIOUS
  <1>2. ASSUME NEW p \in Nat
        PROVE  IsFiniteSet(Below(p)) /\ Cardinality(Below(p)) \in Nat
    BY <1>1, FS_Subset, FS_CardinalityType
  <1>3. Cardinality(S) \in Nat /\ n \in Nat
    BY <1>1, FS_CardinalityType
  <1>4. N + 1 \in T
    <2>1. Below(N + 1) = S
      <3>1. ASSUME NEW q \in S PROVE q < N + 1
        BY <1>13
      <3> QED BY <3>1
    <2>2. Cardinality(Below(N + 1)) >= n
      BY <1>3, <2>1
    <2> QED BY <2>2
  <1>5. PICK m \in T : \A p \in T : m <= p
    <2>1. T \subseteq Nat /\ T # {}
      BY <1>4
    <2> HIDE DEF T
    <2> QED BY <2>1, MinExists
  <1>6. m # 0
    <2>1. Below(0) = {}
      <3>1. ASSUME NEW q \in S PROVE ~(q < 0)
        BY <1>13
      <3> QED BY <3>1
    <2>2. Cardinality(Below(0)) = 0
      BY <2>1, FS_EmptySet
    <2> QED BY <2>2
  <1>7. m - 1 \in Nat /\ m - 1 \notin T
    BY <1>5, <1>6
  <1>8. Cardinality(Below(m - 1)) < n
    BY <1>2, <1>3, <1>7
  <1>9. Below(m) = IF m - 1 \in S THEN Below(m - 1) \cup {m - 1} ELSE Below(m - 1)
    <2>1. ASSUME NEW q \in S PROVE q < m <=> q < m - 1 \/ q = m - 1
      BY <1>7, <1>13
    <2> QED BY <1>7, <2>1
  <1>10. m - 1 \in S /\ Cardinality(Below(m)) = Cardinality(Below(m - 1)) + 1
    <2>1. Cardinality(Below(m)) >= n
      OBVIOUS
    <2>2. Below(m) # Below(m - 1)
      BY <1>2, <1>3, <1>7, <1>8, <2>1
    <2>3. m - 1 \in S /\ Below(m) = Below(m - 1) \cup {m - 1}
      BY <1>9, <2>2
    <2>4. m - 1 \notin Below(m - 1)
      BY <1>7
    <2>5. IsFiniteSet(Below(m - 1))
      BY <1>2, <1>7
    <2> HIDE DEF Below
    <2> QED BY <2>3, <2>4, <2>5, FS_AddElement
  <1>11. Cardinality(Below(m - 1)) = n - 1
    <2>1. Cardinality(Below(m)) >= n
      OBVIOUS
    <2>2. Cardinality(Below(m - 1)) \in Nat
      BY <1>2, <1>7
    <2> HIDE DEF Below
    <2> QED BY <1>3, <1>8, <1>10, <2>1, <2>2
  <1>12. \E p \in S : Cardinality({q \in S : q < p}) = n - 1
    BY <1>10, <1>11
  <1> QED BY <1>12 DEF Nth

-----------------------------------------------------------------------------
(***************************************************************************)
(* clear_color.                                                            *)
(***************************************************************************)
LEMMA KeptIn ==
    ASSUME NEW t \in Seq(Chars)
    PROVE  Kept(t) \subseteq 1 .. Len(t)
  <1>1. Kept(t) \subseteq DOMAIN t
    BY DEF Kept
  <1> QED BY <1>1

LEMMA Cleared ==
    ASSUME NEW t \in Seq(Chars)
    PROVE  LET kept == Kept(t)
               n    == Cardinality(kept)
           IN  /\ IsFiniteSet(kept) /\ n \in 0 .. Len(t)
               /\ clear_color(t) \in Seq(Chars) /\ Len(clear_color(t)) = Len(t)
               /\ \A p \in 1 .. n : /\ Nth(kept, p) \in kept
                                    /\ Cardinality({q \in kept : q < Nth(kept, p)}) = p - 1
                                    /\ clear_color(t)[p] = t[Nth(kept, p)]
               /\ \A p \in n + 1 .. Len(t) : clear_color(t)[p] = NUL
  <1> DEFINE kept == Kept(t)
             n == Cardinality(kept)
             u == clear_color(t)
  <1>1. Len(t) \in Nat /\ DOMAIN t = 1 .. Len(t)
    OBVIOUS
  <1>2. kept \subseteq 1 .. Len(t)
    BY KeptIn
  <1>3. u = [p \in 1 .. Len(t) |-> IF p <= n THEN t[Nth(kept, p)] ELSE NUL]
    BY <1>1 DEF clear_color
  <1> HIDE DEF kept, u
  <1>4. IsFiniteSet(kept) /\ n \in Nat /\ n <= Len(t)
    <2>1. IsFiniteSet(1 .. Len(t)) /\ Cardinality(1 .. Len(t)) = Len(t)
      <3>1. /\ IsFiniteSet(1 .. Len(t))
            /\ Cardinality(1 .. Len(t)) = IF 1 > Len(t) THEN 0 ELSE Len(t) - 1 + 1
        BY <1>1, FS_Interval, SMTT(30)
      <3> QED BY <1>1, <3>1
    <2> QED BY <1>2, <2>1, FS_Subset, FS_CardinalityType
  <1>5. ASSUME NEW p \in 1 .. n
        PROVE  Nth(kept, p) \in kept /\ Cardinality({q \in kept : q < Nth(kept, p)}) = p - 1
    BY <1>1, <1>2, NthIs
  <1> HIDE DEF n
  <1>6. ASSUME NEW p \in 1 .. n PROVE u[p] = t[Nth(kept, p)]
    BY <1>1, <1>3, <1>4
  <1>7. ASSUME NEW p \in n + 1 .. Len(t) PROVE u[p] = NUL
    BY <1>1, <1>3, <1>4
  <1>8. u \in Seq(Chars) /\ Len(u) = Len(t)
    <2>1. ASSUME NEW p \in 1 .. Len(t)
          PROVE  (IF p <= n THEN t[Nth(kept, p)] ELSE NUL) \in Chars
      <3>1. CASE p <= n
        <4>1. p \in 1 .. n
          BY <1>1, <1>4, <3>1
        <4>2. Nth(kept, p) \in 1 .. Len(t)
          BY <1>2, <1>5, <4>1
        <4> QED BY <3>1, <4>2
      <3>2. CASE ~(p <= n)
        BY <3>2 DEF Chars
      <3> QED BY <3>1, <3>2
    <2>2. u \in [1 .. Len(t) -> Chars]
      BY <1>3, <2>1
    <2> QED BY <1>1, <2>2
  <1> QED BY <1>4, <1>5, <1>6, <1>7, <1>8 DEF kept, n, u

\* clear_color only moves characters, or puts zeros.
LEMMA ClearedFrom ==
    ASSUME NEW t \in Seq(Chars), NEW p \in 1 .. Len(t)
    PROVE  clear_color(t)[p] = NUL \/ \E b \in 1 .. Len(t) : clear_color(t)[p] = t[b]
  <1> DEFINE kept == Kept(t)
             n == Cardinality(kept)
  <1>1. n \in 0 .. Len(t) /\ Len(t) \in Nat
    BY Cleared
  <1>2. kept \subseteq 1 .. Len(t)
    BY KeptIn
  <1>3. CASE p \in 1 .. n
    <2>1. Nth(kept, p) \in kept /\ clear_color(t)[p] = t[Nth(kept, p)]
      BY <1>3, Cleared
    <2> QED BY <1>2, <2>1
  <1>4. CASE p \in n + 1 .. Len(t)
    <2>1. clear_color(t)[p] = NUL
      BY <1>4, Cleared
    <2> QED BY <2>1
  <1> HIDE DEF n
  <1>5. p \in 1 .. n \/ p \in n + 1 .. Len(t)
    BY <1>1
  <1> QED BY <1>3, <1>4, <1>5 DEF n

\* A line with one line feed and zeros behind it stays one, or loses its line
\* feed to a colour that is not closed.
LEMMA ClearedLine ==
    ASSUME NEW t \in Seq(Chars), NEW e \in Nat,
           \A p \in 1 .. Len(t) : t[p] = LF => p = e,
           \A p \in e + 1 .. Len(t) : t[p] = NUL,
           NEW x \in 1 .. Len(t), clear_color(t)[x] = LF
    PROVE  \A p \in 1 .. Len(t) : /\ clear_color(t)[p] = LF => p = x
                                  /\ p > x => clear_color(t)[p] = NUL
  <1> DEFINE kept == Kept(t)
             n == Cardinality(kept)
             u == clear_color(t)
             Below(b) == {q \in kept : q < b}
  <1>1. n \in 0 .. Len(t) /\ Len(t) \in Nat /\ IsFiniteSet(kept)
    BY Cleared
  <1>2. kept \subseteq 1 .. Len(t)
    BY KeptIn
  <1>3. ASSUME NEW p \in 1 .. n
        PROVE  /\ Nth(kept, p) \in kept /\ Cardinality(Below(Nth(kept, p))) = p - 1
               /\ u[p] = t[Nth(kept, p)]
    BY Cleared
  <1>4. ASSUME NEW p \in n + 1 .. Len(t) PROVE u[p] = NUL
    BY Cleared
  <1> HIDE DEF kept, n, u
  <1>5. ASSUME NEW p \in 1 .. Len(t), u[p] = LF
        PROVE  p \in 1 .. n /\ Nth(kept, p) = e
    <2>1. p \in 1 .. n
      <3>1. p \notin n + 1 .. Len(t)
        BY <1>4, <1>5 DEF LF, NUL
      <3> QED BY <1>1, <3>1
    <2>2. t[Nth(kept, p)] = LF /\ Nth(kept, p) \in 1 .. Len(t)
      BY <1>2, <1>3, <1>5, <2>1
    <2> QED BY <2>1, <2>2
  <1>6. x \in 1 .. n /\ Nth(kept, x) = e /\ Cardinality(Below(e)) = x - 1
    <2>1. x \in 1 .. n /\ Nth(kept, x) = e
      BY <1>5 DEF u
    <2> QED BY <1>3, <2>1
  <1>7. ASSUME NEW p \in 1 .. Len(t), u[p] = LF PROVE p = x
    <2>1. p \in 1 .. n /\ Nth(kept, p) = e
      BY <1>5, <1>7
    <2>2. Cardinality(Below(e)) = p - 1
      BY <1>3, <2>1
    <2> QED BY <1>1, <1>6, <2>2
  <1>8. ASSUME NEW p \in 1 .. Len(t), p > x PROVE u[p] = NUL
    <2>1. CASE p \in n + 1 .. Len(t)
      BY <1>4, <2>1
    <2>2. CASE p \in 1 .. n
      <3> DEFINE b == Nth(kept, p)
      <3>1. b \in 1 .. Len(t) /\ Cardinality(Below(b)) = p - 1 /\ u[p] = t[b]
        BY <1>2, <1>3, <2>2
      <3>2. ASSUME b <= e PROVE FALSE
        <4> HIDE DEF b
        <4>1. Below(b) \subseteq Below(e)
          <5>1. ASSUME NEW q \in kept, q < b PROVE q < e
            <6>1. q \in Nat /\ b \in Nat
              BY <1>2, <3>1
            <6> QED BY <3>2, <5>1, <6>1
          <5> QED BY <5>1
        <4>2. IsFiniteSet(Below(e))
          <5>1. Below(e) \in SUBSET kept
            OBVIOUS
          <5> HIDE DEF Below
          <5> QED BY <1>1, <5>1, FS_Subset
        <4>3. Cardinality(Below(b)) <= Cardinality(Below(e))
          <5> HIDE DEF Below
          <5> QED BY <4>1, <4>2, FS_Subset
        <4>4. p - 1 <= x - 1
          BY <1>6, <3>1, <4>3
        <4> QED BY <1>8, <4>4
      <3>3. b \in e + 1 .. Len(t)
        <4> HIDE DEF b
        <4> QED BY <3>1, <3>2
      <3> QED BY <3>1, <3>3
    <2>3. p \in 1 .. n \/ p \in n + 1 .. Len(t)
      BY <1>1
    <2> QED BY <2>1, <2>2, <2>3
  <1> QED BY <1>7, <1>8 DEF u

-----------------------------------------------------------------------------
(***************************************************************************)
(* init_source.                                                            *)
(***************************************************************************)
\* What is read next has a place.
LEMMA MapGrows ==
    ASSUME TypeInv, MapInv
    PROVE  increase_map \in Nat /\ current + GROW_LEN <= increase_map
  <1>1. GROW_LEN \in Nat /\ current \in Nat /\ map_len \in Nat /\ current <= map_len
    BY SourceAssumption DEF TypeInv, MapInv, current
  <1> QED BY <1>1 DEF increase_map

LEMMA InitInv == Init => Inv
  <1> SUFFICES ASSUME Init PROVE Inv
    OBVIOUS
  <1>1. TypeInv
    <2>1. \E S : text \in Seq(S)
      <3>1. text \in Seq({})
        BY DEF Init
      <3> QED BY <3>1
    <2> QED BY <2>1 DEF Init, TypeInv, Phases
  <1>2. MapInv
    BY DEF Init, MapInv, current
  <1>3. ReadInv /\ SplitInv /\ ScanInv
    BY DEF Init, ReadInv, SplitInv, ScanInv
  <1> QED BY <1>1, <1>2, <1>3 DEF Inv

LEMMA ReadStep ==
    ASSUME Inv, NEW chunk \in Chunks, Read(chunk)
    PROVE  Inv'
  <1>1. /\ phase = "read" /\ phase' \in {"read", "exit"} /\ map_len' = increase_map
        /\ line_start' = line_start /\ line_nr' = line_nr /\ lines' = lines
        /\ cursor' = cursor /\ text' = text
    BY DEF Read, Unsplit
  <1>2. chunk \in Seq(Chars) /\ Len(chunk) \in Nat /\ Len(chunk) <= GROW_LEN /\ GROW_LEN \in Nat
    BY SourceAssumption
  <1>3. source' = source \/ source' = source \o chunk
    BY DEF Read
  <1>4. source \in Seq(Chars) /\ current \in Nat /\ map_len \in Nat
    BY DEF Inv, TypeInv, current
  <1>5. source' \in Seq(Chars) /\ current' <= current + GROW_LEN
    <2>1. CASE source' = source
      BY <1>2, <1>4, <2>1 DEF current
    <2>2. CASE source' = source \o chunk
      <3>1. source' \in Seq(Chars) /\ Len(source') = Len(source) + Len(chunk)
        BY <1>2, <1>4, <2>2
      <3> QED BY <1>2, <1>4, <3>1 DEF current
    <2> QED BY <1>3, <2>1, <2>2
  <1>6. map_len' \in Nat /\ current + GROW_LEN <= map_len'
    BY <1>1, MapGrows DEF Inv
  <1>7. current' <= map_len'
    <2>1. current' \in Nat
      BY <1>5 DEF current
    <2> QED BY <1>2, <1>4, <1>5, <1>6, <2>1
  <1>8. TypeInv'
    BY <1>1, <1>5, <1>6 DEF Inv, TypeInv, Phases
  <1>9. MapInv' /\ ReadInv' /\ SplitInv' /\ ScanInv'
    BY <1>1, <1>7 DEF Inv, MapInv, ReadInv, SplitInv, ScanInv
  <1> QED BY <1>8, <1>9 DEF Inv

LEMMA ReadFailsStep ==
    ASSUME Inv, ReadFails
    PROVE  Inv'
  <1>1. /\ phase' = "exit" /\ map_len' = increase_map /\ source' = source
        /\ line_start' = line_start /\ line_nr' = line_nr /\ lines' = lines
        /\ cursor' = cursor /\ text' = text
    BY DEF ReadFails, Unsplit
  <1>2. map_len' \in Nat /\ current + GROW_LEN <= map_len'
    BY <1>1, MapGrows DEF Inv
  <1>3. current' <= map_len'
    BY <1>1, <1>2, SourceAssumption DEF Inv, TypeInv, current
  <1>4. TypeInv'
    BY <1>1, <1>2 DEF Inv, TypeInv, Phases
  <1>5. MapInv' /\ ReadInv' /\ SplitInv' /\ ScanInv'
    BY <1>1, <1>3 DEF MapInv, ReadInv, SplitInv, ScanInv
  <1> QED BY <1>4, <1>5 DEF Inv

LEMMA ReadEndStep ==
    ASSUME Inv, ReadEnd
    PROVE  Inv'
  <1> DEFINE lf == memchr(source, LF)
  <1>1. /\ phase = "read" /\ phase' \in {"split", "exit"} /\ map_len' = increase_map
        /\ source' = source /\ line_start' = line_start /\ line_nr' = line_nr /\ lines' = lines
        /\ cursor' = cursor /\ text' = text
        /\ phase' = "split" => file_type' # "UNKNOWN"
    BY DEF ReadEnd
  <1>2. source \in Seq(Chars) /\ current \in Nat
    BY DEF Inv, TypeInv, current
  <1>3. line_start = 1 /\ line_nr = 1 /\ cursor = 0 /\ text = <<>>
    BY <1>1 DEF Inv, ReadInv
  <1>4. map_len' \in Nat /\ current + GROW_LEN <= map_len'
    BY <1>1, MapGrows DEF Inv
  <1>5. current' < map_len'
    BY <1>1, <1>2, <1>4, SourceAssumption DEF current
  <1>6. TypeInv'
    BY <1>1, <1>4 DEF Inv, TypeInv, Phases
  <1>7. MapInv'
    BY <1>1, <1>2, <1>4, <1>5 DEF MapInv, current
  <1>8. ReadInv' /\ ScanInv'
    BY <1>1 DEF ReadInv, ScanInv
  <1>9. SplitInv'
    <2> SUFFICES ASSUME phase' = "split" PROVE SplitInv'
      BY DEF SplitInv
    <2>1. /\ file_type' \in {"WINDOWS", "UNIX", "MACOS"}
          /\ file_type' = "WINDOWS" => lf > 1
          /\ file_type' = "MACOS" => lf = 0
      <3>1. file_type' = CASE lf > 1 /\ source[lf - 1] = CR       -> "WINDOWS"
                           [] lf = 1 \/ (lf > 1 /\ source[lf - 1] # CR) -> "UNIX"
                           [] lf = 0 /\ memchr(source, CR) > 0    -> "MACOS"
                           [] OTHER                               -> "UNKNOWN"
        BY DEF ReadEnd
      <3> HIDE DEF lf
      <3> QED BY <1>1, <3>1
    <2>2. lf = 0 => \A p \in 1 .. current : source[p] # LF
      BY <1>2, Memchr DEF current
    <2>3. Counted(source, 0, 1)
      <3>1. Feeds(source, 1, 0) = {}
        BY DEF Feeds
      <3> QED BY <3>1, FS_EmptySet DEF Counted
    <2>4. Counted(source', line_start' - 1, line_nr')
      BY <1>1, <1>3, <2>3
    <2>5. file_type' = "WINDOWS" => memchr(source', LF) # 1
      BY <1>1, <2>1
    <2>6. line_start' <= current' + 1
      BY <1>1, <1>2, <1>3 DEF current
    <2>7. file_type' = "MACOS" => \A p \in line_start' .. current' : source'[p] # LF
      BY <1>1, <1>3, <2>1, <2>2 DEF current
    <2> QED BY <1>1, <1>3, <2>1, <2>4, <2>5, <2>6, <2>7 DEF SplitInv
  <1> QED BY <1>6, <1>7, <1>8, <1>9 DEF Inv

-----------------------------------------------------------------------------
(***************************************************************************)
(* process_source.                                                         *)
(***************************************************************************)
LEMMA Sub ==
    ASSUME NEW s \in Seq(Chars), NEW a \in Nat \ {0}, NEW b \in Nat, b <= Len(s), a <= b + 1
    PROVE  /\ SubSeq(s, a, b) \in Seq(Chars) /\ Len(SubSeq(s, a, b)) = b - a + 1
           /\ \A p \in 1 .. b - a + 1 : SubSeq(s, a, b)[p] = s[a + p - 1]
  <1>1. Len(s) \in Nat
    OBVIOUS
  <1>2. ASSUME NEW p \in a .. b PROVE s[p] \in Chars
    BY <1>1
  <1>3. SubSeq(s, a, b) = [p \in 1 .. b - a + 1 |-> s[a + p - 1]]
    BY <1>1
  <1>4. SubSeq(s, a, b) \in [1 .. b - a + 1 -> Chars] /\ b - a + 1 \in Nat
    BY <1>1, <1>2, <1>3
  <1>5. SubSeq(s, a, b) \in Seq(Chars) /\ Len(SubSeq(s, a, b)) = b - a + 1
    BY <1>4
  <1> QED BY <1>3, <1>5

Patch(s, done, u, a, n) == SubSeq(done, 1, a - 1) \o u \o SubSeq(s, n, Len(s))

\* Characters a to n - 1 of s are replaced by u, and those before by done's.
LEMMA Patched ==
    ASSUME NEW s \in Seq(Chars), NEW done \in Seq(Chars), NEW u \in Seq(Chars),
           NEW a \in Nat \ {0}, NEW n \in Nat, a <= n, n <= Len(s) + 1,
           Len(done) = n - 1, Len(u) = n - a
    PROVE  LET r == Patch(s, done, u, a, n)
           IN  /\ r \in Seq(Chars) /\ Len(r) = Len(s)
               /\ \A p \in 1 .. a - 1 : r[p] = done[p]
               /\ \A p \in a .. n - 1 : r[p] = u[p - a + 1]
               /\ \A p \in n .. Len(s) : r[p] = s[p]
  <1> DEFINE x == SubSeq(done, 1, a - 1)
             y == SubSeq(s, n, Len(s))
             r == Patch(s, done, u, a, n)
  <1>1. Len(s) \in Nat
    OBVIOUS
  <1>2. x \in Seq(Chars) /\ Len(x) = a - 1 /\ \A p \in 1 .. a - 1 : x[p] = done[p]
    <2>1. /\ x \in Seq(Chars) /\ Len(x) = (a - 1) - 1 + 1
          /\ \A p \in 1 .. (a - 1) - 1 + 1 : x[p] = done[1 + p - 1]
      BY Sub
    <2> QED BY <2>1
  <1>3. /\ y \in Seq(Chars) /\ Len(y) = Len(s) - n + 1
        /\ \A p \in 1 .. Len(s) - n + 1 : y[p] = s[n + p - 1]
    <2>1. n # 0
      OBVIOUS
    <2> QED BY <1>1, <2>1, Sub
  <1> HIDE DEF x, y
  <1> DEFINE w == x \o u
  <1>4. /\ w \in Seq(Chars) /\ Len(w) = n - 1
        /\ \A p \in 1 .. n - 1 : w[p] = IF p <= a - 1 THEN x[p] ELSE u[p - (a - 1)]
    <2>1. /\ w \in Seq(Chars) /\ Len(w) = Len(x) + Len(u)
          /\ \A p \in 1 .. Len(x) + Len(u) : w[p] = IF p <= Len(x) THEN x[p] ELSE u[p - Len(x)]
      BY <1>2, ConcatProperties
    <2>2. Len(x) + Len(u) = n - 1
      BY <1>2
    <2> QED BY <1>2, <2>1, <2>2
  <1>5. /\ r \in Seq(Chars) /\ Len(r) = Len(s)
        /\ \A p \in 1 .. Len(s) : r[p] = IF p <= n - 1 THEN w[p] ELSE y[p - (n - 1)]
    <2> HIDE DEF w
    <2>1. /\ w \o y \in Seq(Chars) /\ Len(w \o y) = Len(w) + Len(y)
          /\ \A p \in 1 .. Len(w) + Len(y) :
               (w \o y)[p] = IF p <= Len(w) THEN w[p] ELSE y[p - Len(w)]
      BY <1>3, <1>4, ConcatProperties
    <2>2. Len(w) + Len(y) = Len(s)
      BY <1>1, <1>3, <1>4
    <2>3. r = w \o y
      BY DEF w, x, y, Patch
    <2> QED BY <1>4, <2>1, <2>2, <2>3
  <1> HIDE DEF w, r
  <1>6. ASSUME NEW p \in 1 .. a - 1 PROVE r[p] = done[p]
    <2>1. p \in 1 .. Len(s) /\ p \in 1 .. n - 1 /\ p <= n - 1 /\ p <= a - 1
      BY <1>1
    <2> QED BY <1>2, <1>4, <1>5, <2>1
  <1>7. ASSUME NEW p \in a .. n - 1 PROVE r[p] = u[p - a + 1]
    <2>1. p \in 1 .. Len(s) /\ p \in 1 .. n - 1 /\ p <= n - 1 /\ ~(p <= a - 1)
      BY <1>1
    <2>2. r[p] = u[p - (a - 1)] /\ p - (a - 1) = p - a + 1
      BY <1>4, <1>5, <2>1
    <2> QED BY <2>2
  <1>8. ASSUME NEW p \in n .. Len(s) PROVE r[p] = s[p]
    <2>1. p \in 1 .. Len(s) /\ ~(p <= n - 1)
      BY <1>1
    <2>2. r[p] = y[p - (n - 1)] /\ p - (n - 1) \in 1 .. Len(s) - n + 1
      BY <1>1, <1>5, <2>1
    <2>3. y[p - (n - 1)] = s[n + (p - (n - 1)) - 1] /\ n + (p - (n - 1)) - 1 = p
      BY <1>3, <2>2
    <2> QED BY <2>2, <2>3
  <1> QED BY <1>5, <1>6, <1>7, <1>8 DEF r

\* The break, when there is one, is the first of the rest.
LEMMA BreakIs ==
    ASSUME TypeInv, line_start <= current + 1
    PROVE  LET c == IF file_type = "MACOS" THEN CR ELSE LF
           IN  /\ Break \in 0 .. current - line_start + 1
               /\ Break > 0 => \A p \in line_start .. line_start + Break - 2 : source[p] # c
               /\ Break = 0 /\ ~LineTooLong => \A p \in line_start .. current : source[p] # c
  <1> DEFINE c == IF file_type = "MACOS" THEN CR ELSE LF
             brk == memchr(Rest, c)
  <1>1. source \in Seq(Chars) /\ current \in Nat /\ line_start \in Nat \ {0} /\ current = Len(source)
    BY DEF TypeInv, current
  <1>2. /\ Rest \in Seq(Chars) /\ Len(Rest) = current - line_start + 1
        /\ \A p \in 1 .. current - line_start + 1 : Rest[p] = source[line_start + p - 1]
    BY <1>1, Sub DEF Rest
  <1>3. /\ brk \in 0 .. Len(Rest)
        /\ brk = 0 => \A p \in 1 .. Len(Rest) : Rest[p] # c
        /\ brk # 0 => \A p \in 1 .. brk - 1 : Rest[p] # c
    BY <1>2, Memchr
  <1>4. Break = IF brk > MAX_LINE_LEN THEN 0 ELSE brk
    BY DEF Break
  <1> HIDE DEF brk, c
  <1>5. MAX_LINE_LEN \in Nat
    BY SourceAssumption
  <1>6. Break \in 0 .. current - line_start + 1
    BY <1>1, <1>2, <1>3, <1>4
  <1>7. ASSUME NEW p \in line_start .. current PROVE source[p] = Rest[p - line_start + 1]
    <2>1. p - line_start + 1 \in 1 .. current - line_start + 1
      BY <1>1
    <2>2. line_start + (p - line_start + 1) - 1 = p
      BY <1>1
    <2> QED BY <1>2, <2>1, <2>2
  <1>8. ASSUME Break > 0, NEW p \in line_start .. line_start + Break - 2 PROVE source[p] # c
    <2>1. Break = brk /\ brk # 0
      BY <1>3, <1>4, <1>8
    <2>2. p - line_start + 1 \in 1 .. brk - 1 /\ p \in line_start .. current
      BY <1>1, <1>6, <2>1
    <2> QED BY <1>3, <1>7, <2>1, <2>2
  <1>9. ASSUME Break = 0, ~LineTooLong, NEW p \in line_start .. current PROVE source[p] # c
    <2>1. Len(Rest) < MAX_LINE_LEN
      BY <1>1, <1>2, <1>5, <1>9 DEF LineTooLong
    <2>2. brk = 0
      BY <1>1, <1>2, <1>3, <1>4, <1>5, <1>9, <2>1
    <2>3. p - line_start + 1 \in 1 .. Len(Rest)
      BY <1>1, <1>2
    <2> QED BY <1>3, <1>7, <2>2, <2>3
  <1> QED BY <1>6, <1>8, <1>9 DEF c

\* There is a character before the first line feed of a file from Windows.
LEMMA FirstBreak ==
    ASSUME Inv, phase = "split", file_type = "WINDOWS", Break > 0
    PROVE  line_start + Break > 2
  <1>1. /\ source \in Seq(Chars) /\ current \in Nat /\ line_start \in Nat \ {0}
        /\ line_start <= current + 1 /\ current = Len(source)
        /\ line_start = 1 => memchr(source, LF) # 1
    BY DEF Inv, TypeInv, SplitInv, current
  <1>2. Break \in Nat
    BY <1>1, BreakIs DEF Inv
  <1>3. CASE line_start = 1
    <2>1. Rest = source
      <3>1. /\ Rest \in Seq(Chars) /\ Len(Rest) = current - 1 + 1
            /\ \A p \in 1 .. current - 1 + 1 : Rest[p] = source[1 + p - 1]
        BY <1>1, <1>3, Sub DEF Rest
      <3>2. Len(Rest) = Len(source) /\ \A p \in 1 .. Len(source) : Rest[p] = source[p]
        BY <1>1, <3>1
      <3> QED BY <1>1, <3>1, <3>2
    <2>2. Break # 1
      BY <1>1, <1>3, <2>1 DEF Break
    <2> QED BY <1>2, <1>3, <2>2
  <1>4. CASE line_start # 1
    BY <1>1, <1>2, <1>4
  <1> QED BY <1>3, <1>4

\* The line with its break made a line feed.
LEMMA BrokenIs ==
    ASSUME NEW brk \in Nat \ {0}, TypeInv, line_start + brk <= current + 1,
           file_type = "WINDOWS" => line_start + brk > 2
    PROVE  LET done == Broken(brk)
               at   == line_start + brk - 1
           IN  /\ done \in Seq(Chars) /\ Len(done) = at
               /\ file_type = "WINDOWS" =>
                    /\ done[at] = NUL /\ done[at - 1] = LF
                    /\ \A p \in 1 .. at - 2 : done[p] = source[p]
               /\ file_type # "WINDOWS" =>
                    /\ done[at] = LF
                    /\ \A p \in 1 .. at - 1 : done[p] = source[p]
  <1> DEFINE done == Broken(brk)
             at == line_start + brk - 1
             line == SubSeq(source, 1, at)
  <1>1. /\ source \in Seq(Chars) /\ current \in Nat /\ line_start \in Nat \ {0}
        /\ current = Len(source) /\ at \in 1 .. current
    BY DEF TypeInv, current
  <1>2. line \in Seq(Chars) /\ Len(line) = at /\ \A p \in 1 .. at : line[p] = source[p]
    <2>1. /\ line \in Seq(Chars) /\ Len(line) = at - 1 + 1
          /\ \A p \in 1 .. at - 1 + 1 : line[p] = source[1 + p - 1]
      BY <1>1, Sub
    <2> QED BY <1>1, <2>1
  <1>3. done = IF file_type = "WINDOWS" THEN [line EXCEPT ![at - 1] = LF, ![at] = NUL]
                                        ELSE [line EXCEPT ![at] = LF]
    BY <1>1, <1>2 DEF Broken
  <1>4. LF \in Chars /\ NUL \in Chars
    BY DEF Chars
  <1> HIDE DEF done, line
  <1>5. CASE file_type = "WINDOWS"
    <2>1. at - 1 \in 1 .. at /\ at \in 1 .. at
      BY <1>1, <1>5
    <2> HIDE DEF at
    <2>2. done = [line EXCEPT ![at - 1] = LF, ![at] = NUL]
      BY <1>3, <1>5
    <2>3. done \in Seq(Chars) /\ Len(done) = at
      BY <1>2, <1>4, <2>1, <2>2
    <2>4. done[at] = NUL /\ done[at - 1] = LF
      BY <1>1, <1>2, <2>1, <2>2
    <2>5. ASSUME NEW p \in 1 .. at - 2 PROVE done[p] = source[p]
      BY <1>1, <1>2, <2>1, <2>2, SMTT(30)
    <2> QED BY <1>5, <2>3, <2>4, <2>5 DEF at, done
  <1>6. CASE file_type # "WINDOWS"
    <2>1. at \in 1 .. at
      BY <1>1
    <2> HIDE DEF at
    <2>2. done = [line EXCEPT ![at] = LF]
      BY <1>3, <1>6
    <2>3. done \in Seq(Chars) /\ Len(done) = at
      BY <1>2, <1>4, <2>1, <2>2
    <2>4. done[at] = LF
      BY <1>2, <2>1, <2>2
    <2>5. ASSUME NEW p \in 1 .. at - 1 PROVE done[p] = source[p]
      BY <1>1, <1>2, <2>1, <2>2
    <2> QED BY <1>6, <2>3, <2>4, <2>5 DEF at, done
  <1> QED BY <1>5, <1>6

\* The line that is cleared of colours.
Line == SubSeq(Broken(Break), line_start, Len(Broken(Break)))

\* What SplitLine leaves of the source.
LEMMA SplitShape ==
    ASSUME Inv, SplitLine
    PROVE  /\ Break \in Nat \ {0} /\ line_start + Break <= current + 1
           /\ Broken(Break) \in Seq(Chars) /\ Len(Broken(Break)) = line_start + Break - 1
           /\ Line \in Seq(Chars) /\ Len(Line) = Break
           /\ \A p \in 1 .. Break : Line[p] = Broken(Break)[line_start + p - 1]
           /\ source' \in Seq(Chars) /\ current' = current
           /\ \A p \in 1 .. line_start - 1 : source'[p] = Broken(Break)[p]
           /\ \A p \in line_start .. line_start + Break - 1 :
                source'[p] = clear_color(Line)[p - line_start + 1]
           /\ \A p \in line_start + Break .. current : source'[p] = source[p]
  <1> DEFINE brk == Break
             next == line_start + brk
             done == Broken(brk)
             u == clear_color(Line)
  <1>1. /\ phase = "split" /\ brk > 0
        /\ source' = SubSeq(done, 1, line_start - 1) \o u \o SubSeq(source, next, current)
    BY DEF SplitLine, Line
  <1>2. /\ source \in Seq(Chars) /\ current \in Nat /\ line_start \in Nat \ {0}
        /\ line_start <= current + 1 /\ current = Len(source)
    BY <1>1 DEF Inv, TypeInv, SplitInv, current
  <1>3. brk \in Nat \ {0} /\ next <= current + 1
    <2>1. brk \in 0 .. current - line_start + 1
      BY <1>2, BreakIs DEF Inv
    <2> HIDE DEF brk
    <2> QED BY <1>1, <1>2, <2>1
  <1>4. file_type = "WINDOWS" => next > 2
    BY <1>1, FirstBreak
  <1>5. done \in Seq(Chars) /\ Len(done) = next - 1
    <2>1. TypeInv
      BY DEF Inv
    <2>2. Broken(brk) \in Seq(Chars)
      BY <1>3, <1>4, <2>1, BrokenIs
    <2>3. Len(Broken(brk)) = line_start + brk - 1
      BY <1>3, <1>4, <2>1, BrokenIs
    <2> HIDE DEF brk
    <2> QED BY <1>2, <1>3, <2>2, <2>3
  <1>6. /\ Line \in Seq(Chars) /\ Len(Line) = (next - 1) - line_start + 1
        /\ \A p \in 1 .. (next - 1) - line_start + 1 : Line[p] = done[line_start + p - 1]
    <2>1. Line = SubSeq(done, line_start, next - 1)
      BY <1>5 DEF Line
    <2> HIDE DEF done, brk
    <2>2. next - 1 \in Nat /\ line_start <= next - 1 + 1
      BY <1>2, <1>3
    <2> QED BY <1>2, <1>5, <2>1, <2>2, Sub
  <1> HIDE DEF brk, done
  <1>7. (next - 1) - line_start + 1 = brk /\ next - line_start = brk /\ line_start <= next /\ next \in Nat
    BY <1>2, <1>3
  <1>8. u \in Seq(Chars) /\ Len(u) = next - line_start
    BY <1>6, <1>7, Cleared
  <1> HIDE DEF next, u
  <1>9. /\ source' \in Seq(Chars) /\ Len(source') = Len(source)
        /\ \A p \in 1 .. line_start - 1 : source'[p] = done[p]
        /\ \A p \in line_start .. next - 1 : source'[p] = u[p - line_start + 1]
        /\ \A p \in next .. Len(source) : source'[p] = source[p]
    <2>1. source' = Patch(source, done, u, line_start, next)
      BY <1>1, <1>2 DEF Patch
    <2>2. next <= Len(source) + 1
      BY <1>2, <1>3
    <2> QED BY <1>2, <1>5, <1>7, <1>8, <2>1, <2>2, Patched, SMTT(30)
  <1>10. current' = current
    BY <1>9 DEF current
  <1>11. next = line_start + brk
    BY DEF next
  <1>12. Len(Line) = brk /\ \A p \in 1 .. brk : Line[p] = done[line_start + p - 1]
    BY <1>6, <1>7
  <1> QED BY <1>2, <1>3, <1>5, <1>6, <1>9, <1>10, <1>11, <1>12 DEF brk, done, u

LEMMA Shifted ==
    ASSUME NEW a \in Nat \ {0}, NEW b \in Nat \ {0}, NEW p \in 1 .. b - 2
    PROVE  a + p - 1 \in 1 .. (a + b - 1) - 2
  OBVIOUS

\* At most one line feed is new, and there are only zeros between it and the
\* next line.
LEMMA SplitFeeds ==
    ASSUME Inv, SplitLine,
           NEW x \in Feeds(source', 1, line_start + Break - 1)
                       \ Feeds(source, 1, line_start - 1)
    PROVE  /\ \A y \in Feeds(source', 1, line_start + Break - 1) :
                y = x \/ y \in Feeds(source, 1, line_start - 1)
           /\ \A p \in x + 1 .. line_start + Break - 1 : source'[p] = NUL
  <1> DEFINE brk == Break
             at == line_start + brk - 1
             done == Broken(brk)
             u == clear_color(Line)
             e == IF file_type = "WINDOWS" THEN brk - 1 ELSE brk
  <1>1. phase = "split" /\ brk > 0
    BY DEF SplitLine
  <1>2. /\ source \in Seq(Chars) /\ current \in Nat /\ line_start \in Nat \ {0}
        /\ line_start <= current + 1 /\ current = Len(source)
        /\ file_type = "MACOS" => \A p \in line_start .. current : source[p] # LF
    BY <1>1 DEF Inv, TypeInv, SplitInv, current
  <1>3. /\ brk \in Nat \ {0} /\ line_start + brk <= current + 1
        /\ Line \in Seq(Chars) /\ Len(Line) = brk
        /\ \A p \in 1 .. brk : Line[p] = done[line_start + p - 1]
        /\ \A p \in 1 .. line_start - 1 : source'[p] = done[p]
        /\ \A p \in line_start .. at : source'[p] = u[p - line_start + 1]
    BY SplitShape
  <1>4. file_type = "WINDOWS" => line_start + brk > 2
    BY <1>1, FirstBreak
  <1>5. /\ file_type = "WINDOWS" =>
             /\ done[at] = NUL /\ done[at - 1] = LF
             /\ \A p \in 1 .. at - 2 : done[p] = source[p]
        /\ file_type # "WINDOWS" =>
             /\ done[at] = LF
             /\ \A p \in 1 .. at - 1 : done[p] = source[p]
    BY <1>3, <1>4, BrokenIs DEF Inv
  <1>6. \A p \in line_start .. line_start + brk - 2 : source[p] # LF
    <2>1. \A p \in line_start .. line_start + brk - 2 :
             source[p] # IF file_type = "MACOS" THEN CR ELSE LF
      BY <1>1, <1>2, BreakIs DEF Inv
    <2> HIDE DEF brk
    <2>2. \A p \in line_start .. line_start + brk - 2 : p \in line_start .. current
      BY <1>2, <1>3
    <2> QED BY <1>2, <2>1, <2>2
  <1> HIDE DEF brk, done, u
  <1>7. e \in Nat
    BY <1>3
  <1>8. ASSUME NEW p \in 1 .. brk, Line[p] = LF PROVE p = e
    <2> SUFFICES ASSUME p # e PROVE FALSE
      OBVIOUS
    <2>1. done[line_start + p - 1] = LF
      BY <1>3, <1>8
    <2>2. CASE file_type = "WINDOWS"
      <3>1. CASE p = brk
        BY <1>5, <2>1, <2>2, <3>1 DEF LF, NUL
      <3>2. CASE p # brk
        <4>3. p \in 1 .. brk - 2
          BY <1>3, <2>2, <3>2
        <4>1. line_start + p - 1 \in 1 .. at - 2
          BY <1>2, <1>3, <4>3, Shifted
        <4>2. line_start + p - 1 \in line_start .. line_start + brk - 2
          BY <1>2, <1>3, <3>2
        <4> QED BY <1>5, <1>6, <2>1, <2>2, <4>1, <4>2
      <3> QED BY <3>1, <3>2
    <2>3. CASE file_type # "WINDOWS"
      <3>1. line_start + p - 1 \in 1 .. at - 1
        BY <1>2, <1>3, <2>3, SMTT(30)
      <3>2. line_start + p - 1 \in line_start .. line_start + brk - 2
        BY <1>2, <1>3, <2>3
      <3> QED BY <1>5, <1>6, <2>1, <2>3, <3>1, <3>2
    <2> QED BY <1>2, <1>3, <2>2, <2>3
  <1>9. ASSUME NEW p \in e + 1 .. brk PROVE Line[p] = NUL
    <2>1. file_type = "WINDOWS" /\ p = brk
      BY <1>3
    <2>2. line_start + p - 1 = at /\ p \in 1 .. brk
      BY <1>2, <1>3, <2>1
    <2> QED BY <1>3, <1>5, <2>1, <2>2
  <1> HIDE DEF e
  \* A line feed that is new before the line is the one put for the \r.
  <1>10. ASSUME NEW y \in 1 .. line_start - 1, source'[y] = LF, source[y] # LF
         PROVE  /\ file_type = "WINDOWS" /\ brk = 1 /\ y = line_start - 1
                /\ source'[line_start] = NUL
    <2>1. done[y] = LF
      BY <1>3, <1>10
    <2>2. file_type = "WINDOWS"
      <3> SUFFICES ASSUME file_type # "WINDOWS" PROVE FALSE
        OBVIOUS
      <3>1. y \in 1 .. at - 1
        BY <1>2, <1>3
      <3> QED BY <1>5, <1>10, <2>1, <3>1
    <2>3. y \notin 1 .. at - 2
      BY <1>5, <1>10, <2>1, <2>2
    <2>4. brk = 1 /\ y = line_start - 1
      BY <1>2, <1>3, <2>3
    <2>5. Line[1] = NUL
      <3>1. line_start + 1 - 1 = at /\ 1 \in 1 .. brk
        BY <1>2, <2>4
      <3> QED BY <1>3, <1>5, <2>2, <3>1
    <2>6. u[1] = NUL
      <3>1. 1 \in 1 .. Len(Line) /\ Len(Line) = 1
        BY <1>3, <2>4
      <3>2. u[1] = NUL \/ \E b \in 1 .. Len(Line) : u[1] = Line[b]
        BY <1>3, <3>1, ClearedFrom DEF u
      <3> QED BY <2>5, <3>1, <3>2
    <2>7. line_start \in line_start .. at /\ line_start - line_start + 1 = 1
      BY <1>2, <1>3
    <2> QED BY <1>3, <2>2, <2>4, <2>6, <2>7
  <1>11. ASSUME NEW y \in Feeds(source', 1, at), y \notin Feeds(source, 1, line_start - 1)
         PROVE  /\ y \in 1 .. at /\ source'[y] = LF
                /\ y < line_start => y \in 1 .. line_start - 1 /\ source[y] # LF
    BY <1>2, <1>11 DEF Feeds
  <1>12. CASE x < line_start
    <2>1. x \in 1 .. line_start - 1 /\ source'[x] = LF /\ source[x] # LF
      BY <1>11, <1>12 DEF brk
    <2>2. brk = 1 /\ x = line_start - 1 /\ source'[line_start] = NUL
      BY <1>10, <2>1
    <2>3. at = line_start
      BY <1>2, <2>2
    <2>4. ASSUME NEW y \in Feeds(source', 1, at), y \notin Feeds(source, 1, line_start - 1)
          PROVE  y = x
      <3>1. /\ y \in 1 .. at /\ source'[y] = LF
            /\ y < line_start => y \in 1 .. line_start - 1 /\ source[y] # LF
        BY <1>11, <2>4
      <3>2. y # line_start
        BY <2>2, <3>1 DEF LF, NUL
      <3>3. y < line_start
        BY <1>2, <2>3, <3>1, <3>2
      <3> QED BY <1>10, <2>2, <3>1, <3>3
    <2>5. ASSUME NEW p \in x + 1 .. at PROVE source'[p] = NUL
      <3>1. p = line_start
        BY <1>2, <2>2, <2>3
      <3> QED BY <2>2, <3>1
    <2> QED BY <2>4, <2>5 DEF brk
  <1>13. CASE ~(x < line_start)
    <2>1. x \in line_start .. at /\ source'[x] = LF
      BY <1>2, <1>11, <1>13 DEF brk
    <2> DEFINE z == x - line_start + 1
    <2>2. z \in 1 .. brk /\ u[z] = LF
      BY <1>2, <1>3, <2>1
    <2>3. \A p \in 1 .. brk : (u[p] = LF => p = z) /\ (p > z => u[p] = NUL)
      <3> HIDE DEF z
      <3> QED BY <1>3, <1>7, <1>8, <1>9, <2>2, ClearedLine DEF u
    <2>4. ASSUME NEW y \in Feeds(source', 1, at), y \notin Feeds(source, 1, line_start - 1)
          PROVE  y = x
      <3>1. /\ y \in 1 .. at /\ source'[y] = LF
            /\ y < line_start => y \in 1 .. line_start - 1 /\ source[y] # LF
        BY <1>11, <2>4
      <3>2. ~(y < line_start)
        <4> SUFFICES ASSUME y < line_start PROVE FALSE
          OBVIOUS
        <4>1. brk = 1 /\ source'[line_start] = NUL
          BY <1>10, <3>1
        <4>2. x = line_start
          BY <1>2, <2>1, <4>1
        <4> QED BY <2>1, <4>1, <4>2 DEF LF, NUL
      <3>3. y \in line_start .. at
        BY <1>2, <3>1, <3>2
      <3>4. y - line_start + 1 \in 1 .. brk /\ u[y - line_start + 1] = LF
        BY <1>2, <1>3, <3>1, <3>3
      <3>5. y - line_start + 1 = z
        <4> HIDE DEF z
        <4> QED BY <2>3, <3>4
      <3> QED BY <1>2, <2>1, <3>3, <3>5
    <2>5. ASSUME NEW p \in x + 1 .. at PROVE source'[p] = NUL
      <3>1. /\ p \in line_start .. at /\ p - line_start + 1 \in 1 .. brk
            /\ p - line_start + 1 > z
        BY <1>2, <1>3, <2>1
      <3>2. u[p - line_start + 1] = NUL
        <4> HIDE DEF z
        <4> QED BY <2>3, <3>1
      <3> QED BY <1>3, <3>1, <3>2
    <2> QED BY <2>4, <2>5 DEF brk
  <1> QED BY <1>12, <1>13

LEMMA FeedsFinite ==
    ASSUME NEW s, NEW from \in Int, NEW to \in Int
    PROVE  IsFiniteSet(Feeds(s, from, to)) /\ Cardinality(Feeds(s, from, to)) \in Nat
  <1>1. IsFiniteSet(from .. to)
    BY FS_Interval
  <1>2. Feeds(s, from, to) \subseteq from .. to
    BY DEF Feeds
  <1>3. IsFiniteSet(Feeds(s, from, to))
    BY <1>1, <1>2, FS_Subset
  <1> QED BY <1>3, FS_CardinalityType

LEMMA SplitCounted ==
    ASSUME Inv, SplitLine
    PROVE  Counted(source', line_start + Break - 1, line_nr + 1)
  <1> DEFINE at == line_start + Break - 1
             F == Feeds(source, 1, line_start - 1)
             G == Feeds(source', 1, at)
  <1>1. phase = "split"
    BY DEF SplitLine
  <1>2. /\ line_start \in Nat \ {0} /\ line_nr \in Nat \ {0} /\ Cardinality(F) <= line_nr - 1
    BY <1>1 DEF Inv, TypeInv, SplitInv, Counted
  <1>3. Break \in Nat \ {0}
    BY SplitShape
  <1>4. IsFiniteSet(F) /\ Cardinality(F) \in Nat /\ IsFiniteSet(G) /\ Cardinality(G) \in Nat
    BY <1>2, <1>3, FeedsFinite
  <1>5. CASE G \subseteq F
    <2>1. Cardinality(G) <= Cardinality(F)
      <3> HIDE DEF F, G
      <3> QED BY <1>4, <1>5, FS_Subset
    <2>2. Cardinality(G) < line_nr
      <3> HIDE DEF F, G
      <3> QED BY <1>2, <1>4, <2>1
    <2> HIDE DEF at
    <2>3. Cardinality(G) <= (line_nr + 1) - 1 /\ Cardinality(G) # (line_nr + 1) - 1
      BY <1>2, <1>4, <2>2
    <2> QED BY <2>3 DEF Counted, at
  <1>6. CASE ~(G \subseteq F)
    <2>1. PICK x \in G \ F : TRUE
      BY <1>6
    <2>2. /\ \A y \in G : y = x \/ y \in F
          /\ \A p \in x + 1 .. at : source'[p] = NUL
      BY <2>1, SplitFeeds
    <2>3. G \subseteq F \cup {x}
      BY <2>2
    <2>4. Cardinality(G) <= Cardinality(F) + 1
      <3> HIDE DEF F, G
      <3>1. IsFiniteSet(F \cup {x}) /\ Cardinality(F \cup {x}) = Cardinality(F) + 1
        BY <1>4, <2>1, FS_AddElement
      <3> QED BY <2>3, <3>1, FS_Subset
    <2>5. Cardinality(G) <= (line_nr + 1) - 1
      <3> HIDE DEF F, G
      <3> QED BY <1>2, <1>4, <2>4
    <2>6. x \in 1 .. at /\ source'[x] = LF
      BY <2>1 DEF Feeds
    <2>7. ASSUME NEW p \in 1 .. at, source'[p] # NUL
          PROVE  \E q \in p .. at : source'[q] = LF
      <3>1. p \notin x + 1 .. at
        BY <2>2, <2>7
      <3>2. x \in p .. at
        BY <1>2, <1>3, <2>6, <3>1
      <3> QED BY <2>6, <3>2
    <2> HIDE DEF at
    <2> QED BY <2>5, <2>7 DEF Counted, at
  <1> QED BY <1>5, <1>6

LEMMA SplitLineStep ==
    ASSUME Inv, SplitLine
    PROVE  Inv'
  <1>1. /\ phase = "split" /\ phase' = "split" /\ map_len' = map_len /\ file_type' = file_type
        /\ line_start' = line_start + Break /\ line_nr' = line_nr + 1 /\ lines' = lines
        /\ cursor' = cursor /\ text' = text
    BY DEF SplitLine
  <1>2. /\ line_start \in Nat \ {0} /\ line_nr \in Nat \ {0} /\ current \in Nat
        /\ file_type \in {"WINDOWS", "UNIX", "MACOS"} /\ cursor = 0 /\ text = <<>>
        /\ file_type = "MACOS" => \A p \in line_start .. current : source[p] # LF
    BY <1>1 DEF Inv, TypeInv, SplitInv, current
  <1>3. /\ Break \in Nat \ {0} /\ line_start + Break <= current + 1
        /\ source' \in Seq(Chars) /\ current' = current
        /\ \A p \in line_start + Break .. current : source'[p] = source[p]
    BY SplitShape
  <1>4. Counted(source', line_start' - 1, line_nr')
    <2>1. Counted(source', line_start + Break - 1, line_nr + 1)
      BY SplitCounted
    <2>2. line_start' - 1 = line_start + Break - 1
      BY <1>1, <1>2, <1>3
    <2> QED BY <1>1, <2>1, <2>2
  <1>5. line_start' \in Nat /\ line_start' > 1 /\ line_nr' \in Nat /\ line_nr' > 1
    BY <1>1, <1>2, <1>3
  <1>6. file_type' = "MACOS" => \A p \in line_start' .. current' : source'[p] # LF
    <2> SUFFICES ASSUME file_type' = "MACOS", NEW p \in line_start' .. current'
                 PROVE  source'[p] # LF
      OBVIOUS
    <2>1. p \in line_start + Break .. current /\ p \in line_start .. current
      BY <1>1, <1>2, <1>3
    <2> QED BY <1>1, <1>2, <1>3, <2>1
  <1>7. TypeInv'
    BY <1>1, <1>3, <1>5 DEF Inv, TypeInv, Phases
  <1>8. MapInv'
    BY <1>1, <1>3 DEF Inv, MapInv
  <1>9. ReadInv' /\ ScanInv'
    BY <1>1 DEF ReadInv, ScanInv
  <1>10. line_start' <= current' + 1
    BY <1>1, <1>3
  <1>11. SplitInv'
    BY <1>1, <1>2, <1>4, <1>5, <1>6, <1>10 DEF SplitInv
  <1> QED BY <1>7, <1>8, <1>9, <1>11 DEF Inv

\* The last line has no line feed, and clear_color makes none.
LEMMA EndShape ==
    ASSUME Inv, phase = "split", Break = 0, ~LineTooLong,
           source' = SubSeq(source, 1, line_start - 1) \o clear_color(Rest)
    PROVE  /\ source' \in Seq(Chars) /\ current' = current
           /\ \A p \in 1 .. line_start - 1 : source'[p] = source[p]
           /\ \A p \in line_start .. current : source'[p] # LF
  <1> DEFINE x == SubSeq(source, 1, line_start - 1)
             u == clear_color(Rest)
             n == current - line_start + 1
  <1>1. /\ source \in Seq(Chars) /\ current \in Nat /\ line_start \in Nat \ {0}
        /\ line_start <= current + 1 /\ current = Len(source)
        /\ file_type = "MACOS" => \A p \in line_start .. current : source[p] # LF
    BY DEF Inv, TypeInv, SplitInv, current
  <1>2. \A p \in line_start .. current : source[p] # LF
    <2>1. \A p \in line_start .. current : source[p] # IF file_type = "MACOS" THEN CR ELSE LF
      BY <1>1, BreakIs DEF Inv
    <2> QED BY <1>1, <2>1
  <1>3. /\ Rest \in Seq(Chars) /\ Len(Rest) = n
        /\ \A p \in 1 .. n : Rest[p] = source[line_start + p - 1]
    BY <1>1, Sub DEF Rest
  <1>4. x \in Seq(Chars) /\ Len(x) = line_start - 1 /\ \A p \in 1 .. line_start - 1 : x[p] = source[p]
    <2>1. /\ x \in Seq(Chars) /\ Len(x) = (line_start - 1) - 1 + 1
          /\ \A p \in 1 .. (line_start - 1) - 1 + 1 : x[p] = source[1 + p - 1]
      BY <1>1, Sub
    <2> QED BY <1>1, <2>1
  <1>5. u \in Seq(Chars) /\ Len(u) = n
    BY <1>3, Cleared
  <1>6. ASSUME NEW p \in 1 .. n PROVE u[p] # LF
    <2>1. u[p] = NUL \/ \E b \in 1 .. n : u[p] = Rest[b]
      BY <1>3, ClearedFrom
    <2> HIDE DEF u, n
    <2>2. ASSUME NEW b \in 1 .. n PROVE Rest[b] # LF
      <3>1. line_start + b - 1 \in line_start .. current
        BY <1>1 DEF n
      <3> QED BY <1>2, <1>3, <3>1
    <2> QED BY <2>1, <2>2 DEF LF, NUL
  <1> HIDE DEF x, u
  <1>7. source' = x \o u
    BY DEF x, u
  <1>8. /\ x \o u \in Seq(Chars) /\ Len(x \o u) = Len(x) + Len(u)
        /\ \A p \in 1 .. Len(x) + Len(u) : (x \o u)[p] = IF p <= Len(x) THEN x[p] ELSE u[p - Len(x)]
    BY <1>4, <1>5, ConcatProperties
  <1>9. Len(x) + Len(u) = current
    BY <1>1, <1>4, <1>5
  <1>10. ASSUME NEW p \in 1 .. line_start - 1 PROVE source'[p] = source[p]
    <2>1. p \in 1 .. current /\ p <= Len(x)
      BY <1>1, <1>4
    <2> QED BY <1>4, <1>7, <1>8, <1>9, <2>1
  <1>11. ASSUME NEW p \in line_start .. current PROVE source'[p] # LF
    <2>1. p \in 1 .. current /\ ~(p <= Len(x)) /\ p - Len(x) \in 1 .. n
      BY <1>1, <1>4
    <2> HIDE DEF n
    <2> QED BY <1>6, <1>7, <1>8, <1>9, <2>1
  <1>12. current' = current
    BY <1>7, <1>8, <1>9 DEF current
  <1> QED BY <1>7, <1>8, <1>10, <1>11, <1>12

LEMMA SplitEndStep ==
    ASSUME Inv, SplitEnd
    PROVE  Inv'
  <1>1. /\ phase = "split" /\ Break = 0 /\ map_len' = map_len /\ line_start' = line_start
        /\ line_nr' = line_nr /\ cursor' = cursor /\ text' = text
    BY DEF SplitEnd
  <1>2. /\ source \in Seq(Chars) /\ line_start \in Nat \ {0} /\ line_nr \in Nat \ {0}
        /\ current \in Nat /\ current = Len(source) /\ line_start <= current + 1
        /\ line_nr = 1 => line_start = 1
        /\ Counted(source, line_start - 1, line_nr) /\ cursor = 0 /\ text = <<>>
    BY <1>1 DEF Inv, TypeInv, SplitInv, current
  <1>3. CASE LineTooLong \/ TooManyLines
    <2>1. phase' = "exit" /\ source' = source /\ lines' = lines
      BY <1>3 DEF SplitEnd
    <2>2. TypeInv'
      BY <1>1, <2>1 DEF Inv, TypeInv, Phases
    <2>3. MapInv'
      BY <1>1, <2>1 DEF Inv, MapInv, current
    <2>4. ReadInv' /\ SplitInv' /\ ScanInv'
      BY <2>1 DEF ReadInv, SplitInv, ScanInv
    <2> QED BY <2>2, <2>3, <2>4 DEF Inv
  <1>4. CASE ~LineTooLong /\ ~TooManyLines
    <2> DEFINE F == Feeds(source, 1, line_start - 1)
               G == Feeds(source', cursor' + 1, current')
    <2>1. /\ phase' = "scan" /\ lines' = IF Rest = <<>> THEN line_nr ELSE line_nr + 1
          /\ source' = SubSeq(source, 1, line_start - 1) \o clear_color(Rest)
      BY <1>4 DEF SplitEnd
    <2>2. /\ source' \in Seq(Chars) /\ current' = current
          /\ \A p \in 1 .. line_start - 1 : source'[p] = source[p]
          /\ \A p \in line_start .. current : source'[p] # LF
      BY <1>1, <1>4, <2>1, EndShape
    <2>3. lines' \in Nat /\ lines' <= 4 * BPF_MAXINSNS
      <3>1. BPF_MAXINSNS \in Nat /\ line_nr < 4 * BPF_MAXINSNS
        BY <1>2, <1>4, SourceAssumption DEF TooManyLines
      <3> QED BY <1>2, <2>1, <3>1
    <2>4. G = F
      <3>1. cursor' + 1 = 1
        BY <1>1, <1>2
      <3>2. ASSUME NEW p \in 1 .. current
            PROVE  source'[p] = LF <=> p \in 1 .. line_start - 1 /\ source[p] = LF
        <4>1. p \in 1 .. line_start - 1 \/ (p \in line_start .. current /\ p \notin 1 .. line_start - 1)
          BY <1>2
        <4> QED BY <2>2, <4>1
      <3>3. ASSUME NEW p \in 1 .. line_start - 1 PROVE p \in 1 .. current
        BY <1>2
      <3> QED BY <2>2, <3>1, <3>2, <3>3 DEF Feeds
    <2>5. IsFiniteSet(F) /\ Cardinality(F) \in Nat /\ Cardinality(F) <= line_nr - 1
      <3>1. line_start - 1 \in Int
        BY <1>2
      <3>2. IsFiniteSet(F) /\ Cardinality(F) \in Nat
        BY <3>1, FeedsFinite
      <3> QED BY <1>2, <3>2 DEF Counted
    <2>6. ASSUME Rest = <<>>, LastLine' PROVE Cardinality(F) # line_nr - 1
      <3> SUFFICES ASSUME Cardinality(F) = line_nr - 1 PROVE FALSE
        OBVIOUS
      <3>1. line_start = current + 1
        <4>1. Len(Rest) = current - line_start + 1
          BY <1>2, Sub DEF Rest
        <4> QED BY <1>2, <2>6, <4>1
      <3>2. \A p \in 1 .. current : source[p] # NUL => \E q \in p .. current : source[q] = LF
        <4>1. line_start - 1 = current
          BY <1>2, <3>1
        <4> QED BY <1>2, <4>1 DEF Counted
      <3>3. ~(EndText')
        <4> SUFFICES ASSUME NEW p \in cursor' + 1 .. current', source'[p] # NUL,
                            \A q \in p .. current' : source'[q] # LF
                     PROVE  FALSE
          BY DEF EndText
        <4>1. p \in 1 .. current /\ line_start - 1 = current
          BY <1>1, <1>2, <2>2, <3>1
        <4>2. PICK q \in p .. current : source[q] = LF
          BY <2>2, <3>2, <4>1
        <4>3. q \in 1 .. line_start - 1 /\ q \in p .. current'
          BY <2>2, <4>1
        <4> QED BY <2>2, <4>2, <4>3
      <3>4. cursor' < current' /\ G = {}
        BY <2>6, <3>3 DEF LastLine
      <3>5. Cardinality(F) = 0
        BY <2>4, <3>4, FS_EmptySet
      <3>6. line_start = 1
        BY <1>2, <3>5
      <3> QED BY <1>1, <1>2, <2>2, <3>1, <3>4, <3>6
    <2>7. Len(text') + Cardinality(G) + (IF LastLine' THEN 1 ELSE 0) < lines'
      <3>1. Len(text') = 0
        BY <1>1, <1>2
      <3> DEFINE l == IF LastLine' THEN 1 ELSE 0
                 f == Cardinality(F)
      <3>2. l \in Nat /\ l <= 1 /\ (l = 1 => LastLine')
        OBVIOUS
      <3>3. f \in Nat /\ f <= line_nr - 1 /\ Cardinality(G) = f
        BY <2>4, <2>5
      <3>4. Rest = <<>> /\ LastLine' => f # line_nr - 1
        BY <2>6
      <3> HIDE DEF l, f, G
      <3>5. f + l < lines'
        <4>1. CASE Rest = <<>>
          <5>1. lines' = line_nr /\ (l = 1 => f # line_nr - 1)
            BY <2>1, <3>2, <3>4, <4>1
          <5> QED BY <1>2, <3>2, <3>3, <5>1
        <4>2. CASE Rest # <<>>
          <5>1. lines' = line_nr + 1
            BY <2>1, <4>2
          <5> QED BY <1>2, <3>2, <3>3, <5>1
        <4> QED BY <4>1, <4>2
      <3>6. Len(text') + Cardinality(G) + l < lines'
        BY <3>1, <3>2, <3>3, <3>5
      <3> QED BY <3>6 DEF l
    <2>8. cursor' <= current'
      BY <1>1, <1>2, <2>2
    <2>9. TypeInv'
      BY <1>1, <2>1, <2>2, <2>3 DEF Inv, TypeInv, Phases
    <2>10. MapInv'
      BY <1>1, <2>2 DEF Inv, MapInv
    <2>11. ReadInv' /\ SplitInv'
      BY <2>1 DEF ReadInv, SplitInv
    <2>12. ScanInv'
      BY <2>1, <2>3, <2>7, <2>8 DEF ScanInv
    <2> QED BY <2>9, <2>10, <2>11, <2>12 DEF Inv
  <1> QED BY <1>3, <1>4

-----------------------------------------------------------------------------
(***************************************************************************)
(* next_line and parse_line.                                               *)
(***************************************************************************)
\* next_line goes beyond one line feed, and stops before a character that is
\* not a zero, or at the end.
LEMMA NextLine ==
    ASSUME TypeInv, cursor < current
    PROVE  LET c == next_line.cursor
               F == Feeds(source, cursor + 1, current)
           IN  /\ c \in cursor + 1 .. current
               /\ F = {} => c = current
               /\ F # {} => \E b \in F : b <= c
               /\ c < current => source[c + 1] # NUL
  <1> DEFINE c == next_line.cursor
             F == Feeds(source, cursor + 1, current)
             rest == SubSeq(source, cursor + 1, current)
             brk == memchr(rest, LF)
             after == SubSeq(rest, brk + 1, Len(rest))
             S == {p \in DOMAIN after : after[p] # NUL}
             char == First(S)
  <1>1. c = IF brk = 0 THEN current ELSE IF char = 0 THEN current ELSE cursor + brk + char - 1
    BY DEF next_line
  <1>2. source \in Seq(Chars) /\ current \in Nat /\ current = Len(source) /\ cursor \in Nat
    BY DEF TypeInv, current
  <1>3. /\ rest \in Seq(Chars) /\ Len(rest) = current - cursor
        /\ \A p \in 1 .. current - cursor : rest[p] = source[cursor + p]
    <2>1. /\ rest \in Seq(Chars) /\ Len(rest) = current - (cursor + 1) + 1
          /\ \A p \in 1 .. current - (cursor + 1) + 1 : rest[p] = source[(cursor + 1) + p - 1]
      BY <1>2, Sub
    <2>2. current - (cursor + 1) + 1 = current - cursor
      BY <1>2
    <2>3. ASSUME NEW p \in 1 .. current - cursor PROVE (cursor + 1) + p - 1 = cursor + p
      BY <1>2
    <2> HIDE DEF rest
    <2> QED BY <2>1, <2>2, <2>3
  <1>4. /\ brk \in 0 .. Len(rest)
        /\ brk = 0 => \A p \in 1 .. Len(rest) : rest[p] # LF
        /\ brk # 0 => rest[brk] = LF
    BY <1>3, Memchr
  <1> HIDE DEF rest, brk
  <1>5. brk = 0 => F = {}
    <2> SUFFICES ASSUME brk = 0, NEW p \in cursor + 1 .. current PROVE source[p] # LF
      BY DEF Feeds
    <2>1. p - cursor \in 1 .. current - cursor /\ cursor + (p - cursor) = p
      BY <1>2
    <2> QED BY <1>3, <1>4, <2>1
  <1>6. brk # 0 => cursor + brk \in F
    <2> SUFFICES ASSUME brk # 0 PROVE cursor + brk \in F
      OBVIOUS
    <2>1. brk \in 1 .. current - cursor /\ cursor + brk \in cursor + 1 .. current
      BY <1>2, <1>3, <1>4
    <2> QED BY <1>3, <1>4, <2>1 DEF Feeds
  <1>7. /\ after \in Seq(Chars) /\ Len(after) = current - cursor - brk
        /\ \A p \in 1 .. current - cursor - brk : after[p] = rest[brk + p]
    <2>1. Len(rest) \in Nat /\ brk \in Nat /\ brk <= Len(rest)
      BY <1>2, <1>3, <1>4
    <2>2. /\ after \in Seq(Chars) /\ Len(after) = Len(rest) - (brk + 1) + 1
          /\ \A p \in 1 .. Len(rest) - (brk + 1) + 1 : after[p] = rest[(brk + 1) + p - 1]
      BY <1>3, <2>1, Sub
    <2>3. Len(rest) - (brk + 1) + 1 = current - cursor - brk
      BY <1>2, <1>3, <2>1
    <2>4. ASSUME NEW p \in 1 .. current - cursor - brk PROVE (brk + 1) + p - 1 = brk + p
      BY <2>1
    <2> HIDE DEF after
    <2> QED BY <2>2, <2>3, <2>4
  <1> HIDE DEF after
  <1>8. char \in Nat /\ (char # 0 => char \in S)
    <2>1. S \subseteq Nat \ {0}
      BY <1>7
    <2> HIDE DEF S
    <2> QED BY <2>1, FirstIs
  <1> HIDE DEF char, c, F
  <1>9. CASE brk = 0 \/ char = 0
    <2>1. c = current /\ (F # {} => cursor + brk \in F /\ cursor + brk <= current)
      BY <1>1, <1>2, <1>3, <1>4, <1>5, <1>6, <1>9
    <2> QED BY <1>2, <2>1 DEF c, F
  <1>10. CASE brk # 0 /\ char # 0
    <2>1. c = cursor + brk + char - 1
      BY <1>1, <1>10
    <2>2. char \in 1 .. current - cursor - brk /\ after[char] # NUL
      BY <1>7, <1>8, <1>10
    <2>3. brk \in 1 .. current - cursor
      BY <1>2, <1>3, <1>4, <1>10
    <2>4. brk + char \in 1 .. current - cursor
      BY <1>2, <2>2, <2>3
    <2>5. c + 1 = cursor + (brk + char) /\ c \in cursor + 1 .. current /\ cursor + brk <= c
      BY <1>2, <2>1, <2>2, <2>3
    <2>6. source[c + 1] # NUL
      BY <1>3, <1>7, <2>2, <2>4, <2>5
    <2>7. cursor + brk \in F
      BY <1>6, <1>10
    <2> QED BY <2>5, <2>6, <2>7 DEF c, F
  <1> QED BY <1>9, <1>10

LEMMA Beyond ==
    ASSUME NEW a \in Nat, NEW b \in Nat, NEW n \in Nat, a < b, b <= n
    PROVE  /\ \A p \in b + 1 .. n : p \in a + 1 .. n /\ ~(p <= b)
           /\ b < n => b + 1 \in a + 1 .. n
  OBVIOUS

\* A line is at most one more of the text, and takes a line feed or the end of
\* the source with it.
LEMMA ParseLineStep ==
    ASSUME Inv, ParseLine
    PROVE  Inv'
  <1> DEFINE F == Feeds(source, cursor + 1, current)
             G == Feeds(source, cursor' + 1, current)
             f == Cardinality(F)
             g == Cardinality(G)
             l == IF LastLine THEN 1 ELSE 0
             k == IF LastLine' THEN 1 ELSE 0
  <1>1. /\ phase = "scan" /\ cursor < current /\ cursor' = next_line.cursor
        /\ phase' \in {"scan", "done"}
        /\ source' = source /\ map_len' = map_len /\ line_start' = line_start
        /\ line_nr' = line_nr /\ lines' = lines
    BY DEF ParseLine
  <1>2. text' = text \/ \E x : text' = Append(text, x)
    BY DEF ParseLine
  <1>3. /\ source \in Seq(Chars) /\ cursor \in Nat /\ lines \in Nat
        /\ lines <= 4 * BPF_MAXINSNS
        /\ current \in Nat /\ current' = current /\ Len(text) + f + l < lines
    BY <1>1 DEF Inv, TypeInv, ScanInv, current
  <1>4. PICK S : text \in Seq(S)
    BY DEF Inv, TypeInv
  <1>5. /\ \E T : text' \in Seq(T)
        /\ Len(text) \in Nat /\ Len(text') \in Nat /\ Len(text') <= Len(text) + 1
    <2>1. CASE text' = text
      BY <1>4, <2>1
    <2>2. CASE \E x : text' = Append(text, x)
      <3>1. PICK x : text' = Append(text, x)
        BY <2>2
      <3>2. text \in Seq(S \cup {x}) /\ x \in S \cup {x}
        BY <1>4
      <3>3. text' \in Seq(S \cup {x}) /\ Len(text') = Len(text) + 1
        BY <3>1, <3>2
      <3> QED BY <3>2, <3>3
    <2> QED BY <1>2, <2>1, <2>2
  <1>6. /\ cursor' \in cursor + 1 .. current
        /\ F = {} => cursor' = current
        /\ F # {} => \E b \in F : b <= cursor'
        /\ cursor' < current => source[cursor' + 1] # NUL
    BY <1>1, NextLine DEF Inv
  <1>7. /\ cursor \in Nat /\ current \in Nat
        /\ cursor' \in Nat /\ cursor' <= current /\ cursor < cursor'
    BY <1>3, <1>6
  <1>8. /\ \A p \in cursor' + 1 .. current : p \in cursor + 1 .. current /\ ~(p <= cursor')
        /\ cursor' < current => cursor' + 1 \in cursor + 1 .. current
    BY <1>7, Beyond
  <1>9. IsFiniteSet(F) /\ f \in Nat /\ IsFiniteSet(G) /\ g \in Nat
    BY <1>3, <1>7, FeedsFinite
  <1>10. l \in Nat /\ k \in Nat /\ k <= 1 /\ l <= 1
    OBVIOUS
  <1>11. LastLine' <=> (EndText' \/ (cursor' < current /\ G = {}))
    BY <1>1, <1>3 DEF LastLine
  <1>12. ASSUME F = {} PROVE Len(text') + g + k < lines /\ Len(text') < lines
    <2>1. cursor' = current
      BY <1>6, <1>12
    <2>2. l = 1
      BY <1>1, <1>12 DEF LastLine
    <2>3. G = {} /\ ~(EndText')
      BY <1>3, <2>1 DEF Feeds, EndText
    <2>4. k = 0
      BY <1>3, <1>11, <2>1, <2>3
    <2>5. g = 0
      BY <2>3, FS_EmptySet
    <2> HIDE DEF f, g, k, l
    <2>6. Len(text') + g + k < lines /\ Len(text') < lines
      BY <1>3, <1>5, <1>9, <2>2, <2>4, <2>5
    <2> QED BY <2>6
  <1>13. ASSUME F # {} PROVE Len(text') + g + k < lines /\ Len(text') < lines
    <2>1. PICK b \in F : b <= cursor'
      BY <1>6, <1>13
    <2>2. G \subseteq F \ {b}
      <3>2. ASSUME NEW p \in G PROVE p \in cursor + 1 .. current /\ source[p] = LF /\ p # b
        <4>1. p \in cursor' + 1 .. current /\ source[p] = LF
          BY DEF Feeds
        <4> QED BY <1>8, <2>1, <4>1
      <3> QED BY <3>2 DEF Feeds
    <2>3. f >= 1 /\ g <= f - 1
      <3> HIDE DEF F, G
      <3>1. IsFiniteSet(F \ {b}) /\ Cardinality(F \ {b}) = Cardinality(F) - 1
        BY <1>9, <2>1, FS_RemoveElement
      <3>2. Cardinality(G) <= Cardinality(F \ {b})
        BY <2>2, <3>1, FS_Subset
      <3>3. Cardinality(F \ {b}) \in Nat
        BY <3>1, FS_CardinalityType
      <3> QED BY <1>9, <3>1, <3>2, <3>3
    <2>4. LastLine' => LastLine
      <3> SUFFICES ASSUME LastLine' PROVE EndText
        BY DEF LastLine
      <3>1. CASE EndText'
        <4>1. PICK p \in cursor' + 1 .. current :
                 source[p] # NUL /\ \A q \in p .. current : source[q] # LF
          BY <1>1, <1>3, <3>1 DEF EndText
        <4>2. p \in cursor + 1 .. current
          BY <1>8
        <4> QED BY <4>1, <4>2 DEF EndText
      <3>2. CASE cursor' < current /\ G = {}
        <4>1. cursor' + 1 \in cursor + 1 .. current /\ source[cursor' + 1] # NUL
          <5>1. source[cursor' + 1] # NUL
            BY <1>6, <3>2
          <5> QED BY <1>8, <3>2, <5>1
        <4>2. \A q \in cursor' + 1 .. current : source[q] # LF
          BY <3>2 DEF Feeds
        <4> QED BY <4>1, <4>2 DEF EndText
      <3> QED BY <1>11, <3>1, <3>2
    <2>5. k <= l
      BY <2>4
    <2> HIDE DEF f, g, k, l
    <2>6. Len(text') + g + k < lines /\ Len(text') < lines
      BY <1>3, <1>5, <1>9, <1>10, <2>3, <2>5
    <2> QED BY <2>6
  <1>14. Len(text') + g + k < lines /\ Len(text') < lines
    BY <1>12, <1>13
  <1>15. TypeInv'
    BY <1>1, <1>5, <1>7 DEF Inv, TypeInv, Phases
  <1>16. MapInv'
    BY <1>1, <1>3 DEF Inv, MapInv
  <1>17. ReadInv' /\ SplitInv'
    BY <1>1 DEF ReadInv, SplitInv
  <1>18. ScanInv'
    <2>1. Len(text') + Cardinality(Feeds(source', cursor' + 1, current')) + k < lines'
      BY <1>1, <1>3, <1>14
    <2> QED BY <1>1, <1>3, <1>7, <1>14, <2>1 DEF ScanInv
  <1> QED BY <1>15, <1>16, <1>17, <1>18 DEF Inv

LEMMA ParseEofStep ==
    ASSUME Inv, ParseEof
    PROVE  Inv'
  <1> DEFINE f == Cardinality(Feeds(source, cursor + 1, current))
             l == IF LastLine THEN 1 ELSE 0
  <1>1. /\ phase = "scan" /\ phase' = "done"
        /\ source' = source /\ map_len' = map_len /\ line_start' = line_start
        /\ line_nr' = line_nr /\ lines' = lines /\ cursor' = cursor /\ text' = text
    BY DEF ParseEof
  <1>2. Len(text) < lines
    <2>1. cursor \in Nat /\ current \in Nat /\ lines \in Nat /\ Len(text) + f + l < lines
      BY <1>1 DEF Inv, TypeInv, ScanInv, current
    <2>2. f \in Nat
      BY <2>1, FeedsFinite
    <2>3. l \in Nat
      OBVIOUS
    <2>4. Len(text) \in Nat
      <3>1. PICK S : text \in Seq(S)
        BY DEF Inv, TypeInv
      <3> QED BY <3>1
    <2> HIDE DEF f, l
    <2> QED BY <2>1, <2>2, <2>3, <2>4
  <1>3. TypeInv'
    BY <1>1 DEF Inv, TypeInv, Phases
  <1>4. MapInv'
    BY <1>1 DEF Inv, MapInv, current
  <1>5. ReadInv' /\ SplitInv' /\ ScanInv'
    BY <1>1, <1>2 DEF ReadInv, SplitInv, ScanInv
  <1> QED BY <1>3, <1>4, <1>5 DEF Inv

LEMMA Unchanged ==
    ASSUME Inv, UNCHANGED vars
    PROVE  Inv'
  <1>1. /\ phase' = phase /\ source' = source /\ map_len' = map_len /\ file_type' = file_type
        /\ line_start' = line_start /\ line_nr' = line_nr /\ lines' = lines
        /\ cursor' = cursor /\ text' = text
    BY DEF vars
  <1>2. current' = current
    BY <1>1 DEF current
  <1>3. TypeInv' /\ MapInv' /\ ReadInv'
    BY <1>1, <1>2 DEF Inv, TypeInv, MapInv, ReadInv
  <1>4. SplitInv'
    BY <1>1, <1>2 DEF Inv, SplitInv
  <1>5. LastLine' <=> LastLine
    BY <1>1, <1>2 DEF LastLine, EndText
  <1>6. ScanInv'
    BY <1>1, <1>2, <1>5 DEF Inv, ScanInv
  <1> QED BY <1>3, <1>4, <1>6 DEF Inv

-----------------------------------------------------------------------------
\* A step keeps the invariant.
LEMMA NextInv ==
    ASSUME Inv, [Next]_vars
    PROVE  Inv'
  <1>1. CASE \E chunk \in Chunks : Read(chunk)
    BY <1>1, ReadStep
  <1>2. CASE ReadFails
    BY <1>2, ReadFailsStep
  <1>3. CASE ReadEnd
    BY <1>3, ReadEndStep
  <1>4. CASE SplitLine
    BY <1>4, SplitLineStep
  <1>5. CASE SplitEnd
    BY <1>5, SplitEndStep
  <1>6. CASE ParseLine
    BY <1>6, ParseLineStep
  <1>7. CASE ParseEof
    BY <1>7, ParseEofStep
  <1>8. CASE Terminated \/ UNCHANGED vars
    BY <1>8, Unchanged DEF Terminated
  <1> QED BY <1>1, <1>2, <1>3, <1>4, <1>5, <1>6, <1>7, <1>8 DEF Next

\* The invariant holds of every file, however it is read.
THEOREM InvCorrect == Spec => []Inv
  <1>1. Init => Inv
    BY InitInv
  <1>2. Inv /\ [Next]_vars => Inv'
    BY NextInv
  <1> QED BY <1>1, <1>2, PTL DEF Spec

\* Whatever the pieces a file comes in, a read and the line feed behind the
\* last line have a place in the map, and so has the \r that process_source
\* writes over before the first line feed (increase_map, next_line,
\* process_source).
THEOREM InMapCorrect == Spec => []InMap
  <1>1. Inv => InMap
    <2> SUFFICES ASSUME Inv PROVE InMap
      OBVIOUS
    <2>1. MapInv
      BY DEF Inv
    <2>2. phase = "split" /\ file_type = "WINDOWS" /\ Break > 0 => line_start + Break > 2
      BY FirstBreak
    <2> QED BY <2>1, <2>2 DEF InMap, MapInv
  <1> QED BY <1>1, InvCorrect, PTL

\* next_line never hands out more lines than init_source counted, whatever the
\* colours took out and the zeros that were left, and it counts no more than
\* 4 * BPF_MAXINSNS of them (init_source, next_line, parser).
THEOREM LinesCountedCorrect == Spec => []LinesCounted
  <1>1. Inv => LinesCounted
    <2> SUFFICES ASSUME Inv PROVE LinesCounted
      OBVIOUS
    <2>1. phase = "done" => Len(text) < lines
      BY DEF Inv, ScanInv
    <2>2. phase = "scan" => Len(text) < lines /\ lines <= 4 * BPF_MAXINSNS
      <3> SUFFICES ASSUME phase = "scan" PROVE Len(text) < lines /\ lines <= 4 * BPF_MAXINSNS
        OBVIOUS
      <3> DEFINE f == Cardinality(Feeds(source, cursor + 1, current))
                 l == IF LastLine THEN 1 ELSE 0
      <3>1. /\ cursor \in Nat /\ current \in Nat /\ lines \in Nat /\ Len(text) + f + l < lines
            /\ lines <= 4 * BPF_MAXINSNS
        BY DEF Inv, TypeInv, ScanInv, current
      <3>2. f \in Nat
        BY <3>1, FeedsFinite
      <3>3. l \in Nat
        OBVIOUS
      <3>4. Len(text) \in Nat
        <4>1. PICK S : text \in Seq(S)
          BY DEF Inv, TypeInv
        <4> QED BY <4>1
      <3> HIDE DEF f, l
      <3> QED BY <3>1, <3>2, <3>3, <3>4
    <2> QED BY <2>1, <2>2 DEF LinesCounted
  <1> QED BY <1>1, InvCorrect, PTL

-----------------------------------------------------------------------------
(***************************************************************************)
(* Sets of positions, in their order.                                      *)
(***************************************************************************)
Before(S, p) == {q \in S : q < p}

\* What there is to say of the size of such a set.
LEMMA BeforeIs ==
    ASSUME NEW N \in Nat, NEW S, S \subseteq 1 .. N
    PROVE  /\ IsFiniteSet(S) /\ Cardinality(S) \in Nat
           /\ \A p : IsFiniteSet(Before(S, p)) /\ Cardinality(Before(S, p)) \in Nat
           /\ \A p \in S : p \in Nat /\ 1 <= p /\ p <= N
  <1>1. IsFiniteSet(S) /\ Cardinality(S) \in Nat
    <2>1. IsFiniteSet(1 .. N)
      BY FS_Interval
    <2> QED BY <2>1, FS_Subset, FS_CardinalityType
  <1>2. ASSUME NEW p
        PROVE  IsFiniteSet(Before(S, p)) /\ Cardinality(Before(S, p)) \in Nat
    <2>1. Before(S, p) \subseteq S
      BY DEF Before
    <2> QED BY <1>1, <2>1, FS_Subset, FS_CardinalityType
  <1>3. ASSUME NEW p \in S PROVE p \in Nat /\ 1 <= p /\ p <= N
    OBVIOUS
  <1> QED BY <1>1, <1>2, <1>3

\* A later position has more before it.
LEMMA BeforeGrows ==
    ASSUME NEW N \in Nat, NEW S, S \subseteq 1 .. N, NEW p \in S
    PROVE  /\ \A q \in S : p < q => Cardinality(Before(S, p)) < Cardinality(Before(S, q))
           /\ Cardinality(Before(S, p)) < Cardinality(S)
  <1>1. /\ IsFiniteSet(S) /\ Cardinality(S) \in Nat
        /\ \A x : IsFiniteSet(Before(S, x)) /\ Cardinality(Before(S, x)) \in Nat
        /\ \A x \in S : x \in Nat
    BY BeforeIs
  <1>2. ASSUME NEW T, IsFiniteSet(T), Before(S, p) \subseteq T, p \in T
        PROVE  Cardinality(Before(S, p)) < Cardinality(T)
    <2>1. p \notin Before(S, p)
      BY <1>1 DEF Before
    <2>2. Before(S, p) # T
      BY <1>2, <2>1
    <2>3. /\ Cardinality(Before(S, p)) <= Cardinality(T)
          /\ Cardinality(Before(S, p)) = Cardinality(T) => Before(S, p) = T
          /\ Cardinality(T) \in Nat
      BY <1>2, FS_Subset, FS_CardinalityType
    <2> QED BY <1>1, <2>2, <2>3
  <1>3. ASSUME NEW q \in S, p < q
        PROVE  Cardinality(Before(S, p)) < Cardinality(Before(S, q))
    <2>1. p \in Before(S, q)
      BY <1>3 DEF Before
    <2>2. Before(S, p) \subseteq Before(S, q)
      <3>1. ASSUME NEW x \in S, x < p PROVE x < q
        <4>1. x \in Nat /\ p \in Nat /\ q \in Nat
          BY <1>1
        <4> QED BY <1>3, <3>1, <4>1
      <3> QED BY <3>1 DEF Before
    <2>3. IsFiniteSet(Before(S, q))
      BY <1>1
    <2> QED BY <1>2, <2>1, <2>2, <2>3
  <1>4. Cardinality(Before(S, p)) < Cardinality(S)
    <2>1. Before(S, p) \subseteq S
      BY DEF Before
    <2> QED BY <1>1, <1>2, <2>1
  <1> QED BY <1>3, <1>4

\* A position is the one its rank gives, and no other.
LEMMA NthOf ==
    ASSUME NEW N \in Nat, NEW S, S \subseteq 1 .. N, NEW p \in S
    PROVE  /\ Cardinality(Before(S, p)) + 1 \in 1 .. Cardinality(S)
           /\ Nth(S, Cardinality(Before(S, p)) + 1) = p
  <1> DEFINE n == Cardinality(Before(S, p)) + 1
  <1>1. /\ Cardinality(S) \in Nat
        /\ \A x : Cardinality(Before(S, x)) \in Nat
        /\ \A x \in S : x \in Nat
    BY BeforeIs
  <1>2. Cardinality(Before(S, p)) < Cardinality(S)
    BY BeforeGrows
  <1>3. Cardinality(Before(S, p)) \in Nat
    BY <1>1
  <1>4. n \in 1 .. Cardinality(S)
    BY <1>1, <1>2, <1>3
  <1>5. Nth(S, n) \in S /\ Cardinality(Before(S, Nth(S, n))) = n - 1
    <2> HIDE DEF n
    <2> QED BY <1>4, NthIs DEF Before
  <1>6. Cardinality(Before(S, Nth(S, n))) = Cardinality(Before(S, p))
    BY <1>3, <1>5
  <1>7. \A q \in S : q < p => Cardinality(Before(S, q)) < Cardinality(Before(S, p))
    BY BeforeGrows
  <1>8. \A q \in S : p < q => Cardinality(Before(S, p)) < Cardinality(Before(S, q))
    BY BeforeGrows
  <1> HIDE DEF n
  <1>9. Nth(S, n) = p
    <2> DEFINE x == Nth(S, n)
    <2>1. x \in S /\ Cardinality(Before(S, x)) = Cardinality(Before(S, p))
      BY <1>5, <1>6
    <2> HIDE DEF x
    <2>2. ~(x < p)
      BY <1>3, <1>7, <2>1
    <2>3. ~(p < x)
      BY <1>3, <1>8, <2>1
    <2>4. x \in Nat /\ p \in Nat
      BY <1>1, <2>1
    <2>5. x = p
      BY <2>2, <2>3, <2>4
    <2> QED BY <2>5 DEF x
  <1> QED BY <1>4, <1>9 DEF n

\* They come in their order.
LEMMA NthOrder ==
    ASSUME NEW N \in Nat, NEW S, S \subseteq 1 .. N,
           NEW a \in 1 .. Cardinality(S), NEW b \in 1 .. Cardinality(S), a < b
    PROVE  Nth(S, a) < Nth(S, b)
  <1>1. /\ Cardinality(S) \in Nat
        /\ \A x \in S : x \in Nat
    BY BeforeIs
  <1>2. /\ Nth(S, a) \in S /\ Cardinality(Before(S, Nth(S, a))) = a - 1
        /\ Nth(S, b) \in S /\ Cardinality(Before(S, Nth(S, b))) = b - 1
    BY NthIs DEF Before
  <1>3. Nth(S, b) < Nth(S, a) =>
          Cardinality(Before(S, Nth(S, b))) < Cardinality(Before(S, Nth(S, a)))
    BY <1>2, BeforeGrows
  <1>4. ~(Nth(S, b) < Nth(S, a))
    BY <1>1, <1>2, <1>3
  <1>5. Nth(S, a) # Nth(S, b)
    BY <1>1, <1>2
  <1>6. Nth(S, a) \in Nat /\ Nth(S, b) \in Nat
    BY <1>1, <1>2
  <1> QED BY <1>4, <1>5, <1>6

\* m takes the positions A of s to the positions B of t, in their order.
Matches(m, s, A, t, B) ==
    /\ \E N \in Nat, K \in Nat : A \subseteq 1 .. N /\ B \subseteq 1 .. K
    /\ m \in [A -> B]
    /\ \A p \in A, q \in A : p < q => m[p] < m[q]
    /\ \A b \in B : \E p \in A : m[p] = b
    /\ \A p \in A : s[p] = t[m[p]]

\* What keeps the order of positions keeps their ranks, and so what is picked.
LEMMA SamePicked ==
    ASSUME NEW s, NEW A, NEW t, NEW B, NEW m, Matches(m, s, A, t, B)
    PROVE  Pick(s, A) = Pick(t, B)
  <1> PICK N \in Nat, K \in Nat : A \subseteq 1 .. N /\ B \subseteq 1 .. K
    BY DEF Matches
  <1>0. /\ m \in [A -> B]
        /\ \A p \in A, q \in A : p < q => m[p] < m[q]
        /\ \A b \in B : \E p \in A : m[p] = b
        /\ \A p \in A : s[p] = t[m[p]]
    BY DEF Matches
  <1>1. /\ IsFiniteSet(A) /\ Cardinality(A) \in Nat
        /\ \A x : IsFiniteSet(Before(A, x)) /\ Cardinality(Before(A, x)) \in Nat
        /\ \A x \in A : x \in Nat
    BY BeforeIs
  <1>2. \A x \in B : x \in Nat
    BY BeforeIs
  <1>3. ASSUME NEW p \in A, NEW q \in A PROVE m[p] < m[q] <=> p < q
    <2>1. p \in Nat /\ q \in Nat /\ m[p] \in Nat /\ m[q] \in Nat
      BY <1>0, <1>1, <1>2
    <2>2. CASE p < q
      BY <1>0, <2>1, <2>2
    <2>3. CASE q < p
      <3>1. m[q] < m[p]
        BY <1>0, <2>3
      <3> QED BY <2>1, <2>3, <3>1
    <2>4. CASE p = q
      BY <2>1, <2>4
    <2> QED BY <2>1, <2>2, <2>3, <2>4
  <1>4. ASSUME NEW p \in A, NEW q \in A, m[p] = m[q] PROVE p = q
    <2>1. p \in Nat /\ q \in Nat /\ m[p] \in Nat /\ m[q] \in Nat
      BY <1>0, <1>1, <1>2
    <2>2. ~(p < q) /\ ~(q < p)
      BY <1>3, <1>4, <2>1
    <2> QED BY <2>1, <2>2
  <1>5. ASSUME NEW P \in SUBSET A, NEW Q \in SUBSET B,
               \A p \in A : p \in P <=> m[p] \in Q
        PROVE  Cardinality(Q) = Cardinality(P)
    <2> DEFINE f == [p \in P |-> m[p]]
    <2>1. f \in [P -> Q] /\ \A p \in P : f[p] = m[p]
      BY <1>0, <1>5
    <2>2. \A a, b \in P : f[a] = f[b] => a = b
      BY <1>4, <2>1
    <2>3. \A b \in Q : \E p \in P : f[p] = b
      BY <1>0, <1>5, <2>1
    <2> HIDE DEF f
    <2>4. f \in Bijection(P, Q)
      BY <2>1, <2>2, <2>3 DEF Bijection, Injection, IsInjective, Surjection
    <2>5. ExistsBijection(P, Q)
      BY <2>4 DEF ExistsBijection
    <2>6. IsFiniteSet(P)
      BY <1>1, FS_Subset
    <2> QED BY <2>5, <2>6, FS_Bijection
  <1>6. Cardinality(B) = Cardinality(A)
    BY <1>0, <1>5
  <1>7. ASSUME NEW n \in 1 .. Cardinality(A) PROVE Nth(B, n) = m[Nth(A, n)]
    <2> DEFINE p == Nth(A, n)
    <2>1. p \in A /\ Cardinality(Before(A, p)) = n - 1
      BY NthIs DEF Before
    <2> HIDE DEF p
    <2>2. Cardinality(Before(B, m[p])) = Cardinality(Before(A, p))
      <3>1. Before(A, p) \in SUBSET A /\ Before(B, m[p]) \in SUBSET B
        BY DEF Before
      <3>2. \A q \in A : q \in Before(A, p) <=> m[q] \in Before(B, m[p])
        BY <1>0, <1>3, <2>1 DEF Before
      <3> QED BY <1>5, <3>1, <3>2
    <2>3. m[p] \in B
      BY <1>0, <2>1
    <2>4. Nth(B, Cardinality(Before(B, m[p])) + 1) = m[p]
      BY <2>3, NthOf
    <2>5. (n - 1) + 1 = n
      BY <1>1
    <2> QED BY <2>1, <2>2, <2>4, <2>5 DEF p
  <1>8. ASSUME NEW n \in 1 .. Cardinality(A) PROVE s[Nth(A, n)] = t[Nth(B, n)]
    <2>1. Nth(A, n) \in A
      BY NthIs
    <2> QED BY <1>0, <1>7, <2>1
  <1>9. Pick(s, A) = [n \in 1 .. Cardinality(A) |-> s[Nth(A, n)]]
    BY DEF Pick
  <1>10. Pick(t, B) = [n \in 1 .. Cardinality(A) |-> t[Nth(B, n)]]
    BY <1>6 DEF Pick
  <1> QED BY <1>8, <1>9, <1>10

-----------------------------------------------------------------------------
(***************************************************************************)
(* Colours.                                                                *)
(***************************************************************************)
\* A colour has begun by position p and has not ended.
Open(t, p) == \E q \in 1 .. p : t[q] = ESC /\ \A r \in q .. p : t[r] # M

\* A colour is open from ESC to the next m.
LEMMA OpenSteps ==
    ASSUME NEW t, NEW p \in Nat \ {0}
    PROVE  /\ Open(t, p) <=> IF Open(t, p - 1) THEN t[p] # M ELSE t[p] = ESC
           /\ Coloured(t, p) <=> Open(t, p - 1) \/ t[p] = ESC
           /\ ~Open(t, 0)
  <1>1. ESC # M
    BY DEF ESC, M
  <1>2. \A q \in 1 .. p : q = p \/ q \in 1 .. p - 1
    OBVIOUS
  <1>3. ~Open(t, 0)
    BY DEF Open
  <1>4. ASSUME Open(t, p), ~Open(t, p - 1) PROVE t[p] = ESC
    <2>1. PICK q \in 1 .. p : t[q] = ESC /\ \A r \in q .. p : t[r] # M
      BY <1>4 DEF Open
    <2>2. CASE q = p
      BY <2>1, <2>2
    <2>3. CASE q \in 1 .. p - 1
      <3>1. \A r \in q .. p - 1 : t[r] # M
        BY <2>1, <2>3
      <3> QED BY <1>4, <2>1, <2>3, <3>1 DEF Open
    <2> QED BY <1>2, <2>2, <2>3
  <1>5. ASSUME Open(t, p) PROVE t[p] # M
    <2>1. PICK q \in 1 .. p : t[q] = ESC /\ \A r \in q .. p : t[r] # M
      BY <1>5 DEF Open
    <2>2. p \in q .. p
      OBVIOUS
    <2> QED BY <2>1, <2>2
  <1>6. ASSUME Open(t, p - 1), t[p] # M PROVE Open(t, p)
    <2>1. PICK q \in 1 .. p - 1 : t[q] = ESC /\ \A r \in q .. p - 1 : t[r] # M
      BY <1>6 DEF Open
    <2>2. q \in 1 .. p /\ \A r \in q .. p : r = p \/ r \in q .. p - 1
      OBVIOUS
    <2>3. \A r \in q .. p : t[r] # M
      BY <1>6, <2>1, <2>2
    <2> QED BY <2>1, <2>2, <2>3 DEF Open
  <1>7. ASSUME t[p] = ESC PROVE Open(t, p)
    <2>1. p \in 1 .. p /\ \A r \in p .. p : r = p
      OBVIOUS
    <2> QED BY <1>1, <1>7, <2>1 DEF Open
  <1>8. ASSUME Coloured(t, p), t[p] # ESC PROVE Open(t, p - 1)
    <2>1. PICK q \in 1 .. p : t[q] = ESC /\ \A r \in q .. p - 1 : t[r] # M
      BY <1>8 DEF Coloured
    <2>2. q \in 1 .. p - 1
      BY <1>2, <1>8, <2>1
    <2> QED BY <2>1, <2>2 DEF Open
  <1>9. ASSUME Open(t, p - 1) PROVE Coloured(t, p)
    <2>1. PICK q \in 1 .. p - 1 : t[q] = ESC /\ \A r \in q .. p - 1 : t[r] # M
      BY <1>9 DEF Open
    <2>2. q \in 1 .. p
      OBVIOUS
    <2> QED BY <2>1, <2>2 DEF Coloured
  <1>10. ASSUME t[p] = ESC PROVE Coloured(t, p)
    <2>1. p \in 1 .. p /\ \A r \in p .. p - 1 : FALSE
      OBVIOUS
    <2> QED BY <1>10, <2>1 DEF Coloured
  <1> QED BY <1>3, <1>4, <1>5, <1>6, <1>7, <1>8, <1>9, <1>10

\* clear_color keeps what is in no colour.
LEMMA KeptIs ==
    ASSUME NEW t \in Seq(Chars)
    PROVE  Kept(t) = {p \in 1 .. Len(t) : ~Coloured(t, p)}
  <1> DEFINE Is(cs) == cs = [p \in 0 .. Len(t) |->
                               IF p = 0 THEN FALSE
                               ELSE IF cs[p - 1] THEN t[p] # M ELSE t[p] = ESC]
             cs == CHOOSE f : Is(f)
             w  == [p \in 0 .. Len(t) |-> Open(t, p)]
  <1>1. Kept(t) = {p \in DOMAIN t : ~cs[p - 1] /\ t[p] # ESC}
    BY DEF Kept
  <1>2. Len(t) \in Nat /\ DOMAIN t = 1 .. Len(t)
    OBVIOUS
  <1>3. Is(w)
    <2>1. ASSUME NEW p \in 0 .. Len(t)
          PROVE  Open(t, p) = IF p = 0 THEN FALSE
                              ELSE IF w[p - 1] THEN t[p] # M ELSE t[p] = ESC
      <3>1. CASE p = 0
        <4>1. ~Open(t, 0)
          BY DEF Open
        <4>2. Open(t, 0) = FALSE
          BY <4>1 DEF Open
        <4> QED BY <3>1, <4>2
      <3>2. CASE p # 0
        <4>1. p \in Nat \ {0} /\ p - 1 \in 0 .. Len(t)
          BY <1>2, <3>2
        <4>2. w[p - 1] = Open(t, p - 1)
          BY <4>1
        <4> HIDE DEF w
        <4>3. Open(t, p) <=> IF Open(t, p - 1) THEN t[p] # M ELSE t[p] = ESC
          BY <4>1, OpenSteps
        <4>4. Open(t, p) = IF Open(t, p - 1) THEN t[p] # M ELSE t[p] = ESC
          BY <4>3 DEF Open
        <4> QED BY <3>2, <4>2, <4>4
      <3> QED BY <3>1, <3>2
    <2>2. w = [p \in 0 .. Len(t) |-> IF p = 0 THEN FALSE
                                     ELSE IF w[p - 1] THEN t[p] # M ELSE t[p] = ESC]
      BY <2>1
    <2> QED BY <2>2
  <1>4. Is(cs)
    BY <1>3
  <1> HIDE DEF cs, w
  <1>5. \A p \in 0 .. Len(t) : cs[p] = IF p = 0 THEN FALSE
                                       ELSE IF cs[p - 1] THEN t[p] # M ELSE t[p] = ESC
    BY <1>4
  <1>6. ASSUME NEW p \in 0 .. Len(t) PROVE cs[p] <=> Open(t, p)
    <2> DEFINE Wrong == {q \in 0 .. Len(t) : ~(cs[q] <=> Open(t, q))}
    <2>1. ASSUME Wrong # {} PROVE FALSE
      <3>1. PICK m \in Wrong : \A n \in Wrong : m <= n
        <4>1. Wrong \subseteq Nat
          BY <1>2
        <4> HIDE DEF Wrong
        <4> QED BY <2>1, <4>1, MinExists
      <3>2. m \in 0 .. Len(t) /\ ~(cs[m] <=> Open(t, m))
        OBVIOUS
      <3>3. m # 0
        <4>1. ~cs[0]
          <5>1. 0 \in 0 .. Len(t)
            BY <1>2
          <5>2. cs[0] = IF 0 = 0 THEN FALSE ELSE IF cs[0 - 1] THEN t[0] # M ELSE t[0] = ESC
            BY <1>5, <5>1
          <5>3. cs[0] = FALSE
            BY <5>2
          <5> QED BY <5>3
        <4>2. ~Open(t, 0)
          BY DEF Open
        <4> QED BY <3>2, <4>1, <4>2
      <3>4. m \in Nat \ {0} /\ m - 1 \in 0 .. Len(t)
        BY <1>2, <3>2, <3>3
      <3>5. cs[m - 1] <=> Open(t, m - 1)
        <4>1. m - 1 \notin Wrong
          BY <1>2, <3>1, <3>4
        <4> QED BY <3>4, <4>1
      <3>6. cs[m] <=> IF cs[m - 1] THEN t[m] # M ELSE t[m] = ESC
        BY <1>5, <3>2, <3>3
      <3>7. Open(t, m) <=> IF Open(t, m - 1) THEN t[m] # M ELSE t[m] = ESC
        BY <3>4, OpenSteps
      <3> QED BY <3>2, <3>5, <3>6, <3>7
    <2> QED BY <2>1
  <1>7. ASSUME NEW p \in 1 .. Len(t) PROVE (~cs[p - 1] /\ t[p] # ESC) <=> ~Coloured(t, p)
    <2>1. p \in Nat \ {0} /\ p - 1 \in 0 .. Len(t)
      BY <1>2
    <2>2. cs[p - 1] <=> Open(t, p - 1)
      BY <1>6, <2>1
    <2> QED BY <2>1, <2>2, OpenSteps
  <1> QED BY <1>1, <1>2, <1>7

-----------------------------------------------------------------------------
(***************************************************************************)
(* The lines of a file.                                                    *)
(***************************************************************************)
Breaks == {p \in DOMAIN file : file[p] = LineBreak}

\* A file that is split.
FileOK ==
    /\ file \in Seq(Chars)
    /\ file_type \in {"WINDOWS", "UNIX", "MACOS"}
    /\ \A p \in 1 .. Len(file) : file[p] # NUL
    /\ file_type = "MACOS" => \A p \in 1 .. Len(file) : file[p] # LF
    /\ file_type = "WINDOWS" => file[1] # LF
    /\ Breaks # {}

\* A set of positions has a last one.
LEMMA MaxExists ==
    ASSUME NEW N \in Nat, NEW S, S \subseteq 1 .. N, S # {}
    PROVE  \E m \in S : \A x \in S : x <= m
  <1> DEFINE U == {m \in Nat : \A x \in S : x <= m}
  <1>1. \A x \in S : x \in Nat /\ x <= N /\ 1 <= x
    OBVIOUS
  <1>2. PICK m \in U : \A k \in U : m <= k
    <2>1. N \in U /\ U \subseteq Nat
      BY <1>1
    <2> HIDE DEF U
    <2> QED BY <2>1, MinExists
  <1>3. m \in Nat /\ \A x \in S : x <= m
    OBVIOUS
  <1>4. m \in S
    <2>1. ASSUME m \notin S PROVE FALSE
      <3>1. m # 0
        <4>1. PICK x \in S : TRUE
          OBVIOUS
        <4> QED BY <1>1, <1>3
      <3>2. \A x \in S : x <= m - 1
        BY <1>1, <1>3, <2>1
      <3>3. m - 1 \in Nat
        BY <1>3, <3>1
      <3>4. m - 1 \in U
        BY <3>2, <3>3
      <3>5. m <= m - 1
        BY <1>2, <3>4
      <3> QED BY <1>3, <3>5
    <2> QED BY <2>1
  <1> QED BY <1>3, <1>4

\* The places where lines end, and which of them have a break.
LEMMA EndsIn ==
    ASSUME FileOK
    PROVE  /\ Len(file) \in Nat \ {0} /\ DOMAIN file = 1 .. Len(file)
           /\ Ends \subseteq 1 .. Len(file) /\ Breaks \subseteq Ends /\ Len(file) \in Ends
           /\ \A p \in Ends : p < Len(file) => p \in Breaks
           /\ \A p \in 1 .. Len(file) : p \in Breaks <=> file[p] = LineBreak
           /\ LineBreak \in {CR, LF}
  <1>1. DOMAIN file = 1 .. Len(file) /\ Len(file) \in Nat
    BY DEF FileOK
  <1>2. PICK p : p \in 1 .. Len(file)
    BY <1>1 DEF FileOK, Breaks
  <1>3. Len(file) \in Nat \ {0} /\ Len(file) \in 1 .. Len(file)
    BY <1>1, <1>2
  <1>4. \A e \in Ends : e < Len(file) => e \in Breaks
    BY <1>1 DEF Ends, Breaks
  <1>5. Ends \subseteq 1 .. Len(file) /\ Breaks \subseteq Ends /\ Len(file) \in Ends
    BY <1>1, <1>3 DEF Ends, Breaks
  <1>6. LineBreak \in {CR, LF}
    BY DEF LineBreak
  <1> QED BY <1>1, <1>3, <1>4, <1>5, <1>6 DEF Breaks

\* E ends the line before the one that ends at end, or is 0.
Previous(E, end) ==
    /\ E \in Nat /\ E < end
    /\ E = 0 \/ E \in Ends
    /\ \A x \in Ends : x < end => x <= E

\* There is always an end of the line before.
LEMMA PreviousExists ==
    ASSUME FileOK, NEW end \in Ends
    PROVE  \E E : Previous(E, end)
  <1> DEFINE before == {p \in Ends : p < end}
  <1>1. /\ Ends \subseteq 1 .. Len(file) /\ Len(file) \in Nat /\ end \in Nat /\ end > 0
        /\ before \subseteq 1 .. Len(file)
    BY EndsIn
  <1>2. CASE before = {}
    <2>1. Previous(0, end)
      BY <1>1, <1>2 DEF Previous
    <2> QED BY <2>1
  <1>3. CASE before # {}
    <2>1. PICK m \in before : \A x \in before : x <= m
      <3> HIDE DEF before
      <3> QED BY <1>1, <1>3, MaxExists
    <2>2. Previous(m, end)
      BY <1>1, <2>1 DEF Previous
    <2> QED BY <2>2
  <1> QED BY <1>2, <1>3

\* The line between two ends.
LEMMA LineAtIs ==
    ASSUME FileOK, NEW end \in Ends, NEW E, Previous(E, end)
    PROVE  LET last == IF file[end] = LineBreak THEN end - 1 ELSE end
               line == LineAt(end)
           IN  /\ line \in Seq(Chars) /\ Len(line) = last - E /\ last - E \in Nat
               /\ DOMAIN line = 1 .. last - E
               /\ \A j \in 1 .. last - E : line[j] = file[E + j]
  <1> DEFINE before == {p \in Ends : p < end}
             first == IF before = {} THEN 1 ELSE Max(before) + 1
             last == IF file[end] = LineBreak THEN end - 1 ELSE end
  <1>1. /\ Ends \subseteq 1 .. Len(file) /\ Len(file) \in Nat /\ end \in 1 .. Len(file)
        /\ file \in Seq(Chars)
    BY EndsIn DEF FileOK
  <1>2. /\ E \in Nat /\ E < end /\ (E = 0 \/ E \in Ends)
        /\ \A x \in Ends : x < end => x <= E
    BY DEF Previous
  <1>3. first = E + 1
    <2>1. CASE before = {}
      <3>1. E \notin Ends
        BY <1>2, <2>1
      <3>2. E = 0
        BY <1>2, <3>1
      <3>3. first = 1
        BY <2>1
      <3> HIDE DEF first
      <3> QED BY <3>2, <3>3
    <2>2. CASE before # {}
      <3>1. \A x \in before : x \in Nat /\ x >= 1 /\ x <= E
        BY <1>1, <1>2
      <3>2. E \in before
        <4>1. PICK x \in before : TRUE
          BY <2>2
        <4>2. E # 0
          BY <3>1, <4>1
        <4> QED BY <1>2, <4>2
      <3>3. \A x \in before : x <= E
        BY <3>1
      <3> HIDE DEF before
      <3>4. Max(before) \in before /\ \A x \in before : Max(before) >= x
        <4>1. \E m \in before : \A x \in before : m >= x
          BY <1>2, <3>1, <3>2
        <4> QED BY <4>1 DEF Max
      <3> DEFINE m == Max(before)
      <3>5. m \in before /\ m >= E
        BY <3>2, <3>4
      <3> HIDE DEF m
      <3>6. m \in Nat /\ m <= E
        BY <3>1, <3>5
      <3>7. m = E
        BY <1>2, <3>5, <3>6
      <3> QED BY <2>2, <3>7 DEF before, m
    <2> QED BY <2>1, <2>2
  <1>4. last \in Nat /\ last <= Len(file) /\ E + 1 <= last + 1 /\ E + 1 \in Nat \ {0}
    BY <1>1, <1>2
  <1>5. LineAt(end) = SubSeq(file, first, last)
    BY DEF LineAt
  <1> HIDE DEF first, last
  <1>6. LineAt(end) = SubSeq(file, E + 1, last)
    BY <1>3, <1>5
  <1>7. /\ SubSeq(file, E + 1, last) \in Seq(Chars)
        /\ Len(SubSeq(file, E + 1, last)) = last - (E + 1) + 1
        /\ \A p \in 1 .. last - (E + 1) + 1 : SubSeq(file, E + 1, last)[p] = file[E + 1 + p - 1]
    BY <1>1, <1>4, Sub
  <1>8. last - (E + 1) + 1 = last - E /\ last - E \in Nat
    BY <1>2, <1>4
  <1>9. \A p \in 1 .. last - E : E + 1 + p - 1 = E + p
    BY <1>2, <1>4
  <1>10. LineAt(end) \in Seq(Chars) /\ Len(LineAt(end)) = last - E
    BY <1>6, <1>7, <1>8
  <1>11. DOMAIN LineAt(end) = 1 .. last - E
    BY <1>10
  <1>12. \A j \in 1 .. last - E : LineAt(end)[j] = file[E + j]
    BY <1>6, <1>7, <1>8, <1>9
  <1> QED BY <1>8, <1>10, <1>11, <1>12 DEF last

\* A colour has ended where a line does.
LEMMA ColoursEnd ==
    ASSUME FileOK, ColoursClosed, NEW end \in Ends, NEW q \in 1 .. end, file[q] = ESC
    PROVE  \E r \in q .. end : file[r] = M
  <1> DEFINE T == {x \in Ends : q <= x}
  <1>1. /\ Ends \subseteq 1 .. Len(file) /\ Len(file) \in Nat /\ end \in Nat /\ q \in Nat
        /\ \A p \in 1 .. Len(file) : p \in Breaks <=> file[p] = LineBreak
        /\ LineBreak \in {CR, LF}
    BY EndsIn
  <1>2. PICK e \in T : \A x \in T : e <= x
    <2>1. end \in T
      BY <1>1
    <2>2. \A x \in T : x \in Nat
      BY <1>1
    <2>3. T \subseteq Nat /\ T # {}
      BY <2>1, <2>2
    <2> HIDE DEF T
    <2> QED BY <2>3, MinExists
  <1>3. e \in Ends /\ e \in Nat /\ q <= e /\ e <= end
    BY <1>1, <1>2
  <1>4. PICK E : Previous(E, e)
    BY <1>3, PreviousExists
  <1>5. E \in Nat /\ E < q
    <2>1. ASSUME E >= q PROVE FALSE
      <3>1. E \in Ends /\ E < e
        BY <1>1, <1>4, <2>1 DEF Previous
      <3>2. e <= E
        BY <1>2, <2>1, <3>1
      <3> QED BY <1>1, <1>3, <3>1, <3>2
    <2>2. E \in Nat
      BY <1>4 DEF Previous
    <2> QED BY <1>1, <2>1, <2>2
  <1> DEFINE last == IF file[e] = LineBreak THEN e - 1 ELSE e
             line == LineAt(e)
  <1>6. /\ Len(line) = last - E /\ last - E \in Nat /\ DOMAIN line = 1 .. last - E
        /\ \A j \in 1 .. last - E : line[j] = file[E + j]
    BY <1>3, <1>4, LineAtIs
  <1>7. q <= last /\ last <= e /\ last \in Int
    <2>1. file[q] # LineBreak
      BY <1>1 DEF ESC, CR, LF
    <2> QED BY <1>1, <1>3, <2>1
  <1>8. \A p \in DOMAIN line : line[p] = ESC => \E r \in p .. Len(line) : line[r] = M
    BY <1>3 DEF ColoursClosed
  <1> HIDE DEF line, last
  <1>9. q - E \in 1 .. last - E /\ E + (q - E) = q
    BY <1>1, <1>5, <1>7
  <1>10. PICK r \in q - E .. last - E : line[r] = M
    <2>1. line[q - E] = ESC
      BY <1>6, <1>9
    <2> QED BY <1>6, <1>8, <1>9, <2>1
  <1>11. r \in 1 .. last - E /\ E + r \in q .. end
    BY <1>1, <1>3, <1>5, <1>7, <1>9, <1>10
  <1>12. file[E + r] = M
    BY <1>6, <1>10, <1>11
  <1> QED BY <1>11, <1>12

\* A line break is in no colour, and neither is the \r before one.
LEMMA BreakShown ==
    ASSUME FileOK, ColoursClosed, NEW b \in Breaks
    PROVE  /\ ~Coloured(file, b)
           /\ b > 1 /\ file[b - 1] = CR => ~Coloured(file, b - 1)
  <1>1. /\ b \in Ends /\ b \in 1 .. Len(file) /\ Len(file) \in Nat /\ file[b] = LineBreak
        /\ LineBreak \in {CR, LF}
    BY EndsIn
  <1>2. file[b] # M
    BY <1>1 DEF M, CR, LF
  <1>3. ASSUME NEW q \in 1 .. b, file[q] = ESC, NEW c \in Nat, b = c \/ (b = c + 1 /\ file[c] # M),
               \A r \in q .. c - 1 : file[r] # M
        PROVE  FALSE
    <2>1. PICK r \in q .. b : file[r] = M
      BY <1>1, <1>3, ColoursEnd
    <2>2. r \in q .. c - 1 \/ r = c \/ r = b
      BY <1>1, <1>3, <2>1
    <2> QED BY <1>2, <1>3, <2>1, <2>2
  <1>4. ~Coloured(file, b)
    <2> SUFFICES ASSUME Coloured(file, b) PROVE FALSE
      OBVIOUS
    <2>1. PICK q \in 1 .. b : file[q] = ESC /\ \A r \in q .. b - 1 : file[r] # M
      BY DEF Coloured
    <2>2. b \in Nat
      BY <1>1
    <2> QED BY <1>3, <2>1, <2>2
  <1>5. ASSUME b > 1, file[b - 1] = CR, Coloured(file, b - 1) PROVE FALSE
    <2>1. PICK q \in 1 .. b - 1 : file[q] = ESC /\ \A r \in q .. (b - 1) - 1 : file[r] # M
      BY <1>5 DEF Coloured
    <2>2. q \in 1 .. b /\ b - 1 \in Nat /\ b = (b - 1) + 1
      BY <1>1, <1>5
    <2>3. file[b - 1] # M
      BY <1>5 DEF CR, M
    <2> QED BY <1>3, <2>1, <2>2, <2>3
  <1> QED BY <1>4, <1>5

\* A part of the file that begins with a line has the colours of the file.
LEMMA ColouredPart ==
    ASSUME FileOK, ColoursClosed, NEW E \in Nat, E = 0 \/ E \in Ends,
           NEW t, NEW n \in Nat, \A j \in 1 .. n : t[j] = file[E + j], NEW j \in 1 .. n + 1,
           j = n + 1 => /\ t[j] # ESC /\ file[E + j] # ESC
    PROVE  Coloured(t, j) <=> Coloured(file, E + j)
  <1>1. j \in Nat /\ j >= 1
    OBVIOUS
  <1>2. ASSUME NEW q \in 1 .. j, t[q] = ESC, \A r \in q .. j - 1 : t[r] # M
        PROVE  Coloured(file, E + j)
    <2>1. q \in 1 .. n
      BY <1>2
    <2>2. E + q \in 1 .. E + j /\ file[E + q] = ESC
      BY <1>2, <2>1
    <2>3. ASSUME NEW r \in E + q .. E + j - 1 PROVE file[r] # M
      <3>1. r - E \in q .. j - 1 /\ r - E \in 1 .. n /\ E + (r - E) = r
        BY <1>1, <2>1
      <3>2. t[r - E] # M /\ t[r - E] = file[E + (r - E)]
        BY <1>2, <3>1
      <3> QED BY <3>1, <3>2
    <2> QED BY <2>2, <2>3 DEF Coloured
  <1>3. ASSUME NEW q \in 1 .. E + j, file[q] = ESC, \A r \in q .. E + j - 1 : file[r] # M
        PROVE  Coloured(t, j)
    <2>1. q > E
      <3>1. ASSUME q <= E PROVE FALSE
        <4>1. E \in Ends
          BY <3>1
        <4>2. q \in 1 .. E
          BY <3>1
        <4>3. PICK r \in q .. E : file[r] = M
          BY <1>3, <4>1, <4>2, ColoursEnd
        <4>4. r \in q .. E + j - 1
          BY <1>1, <4>2, <4>3
        <4> QED BY <1>3, <4>3, <4>4
      <3> QED BY <3>1
    <2>2. q - E \in 1 .. j /\ E + (q - E) = q
      BY <1>1, <2>1
    <2>3. q - E \in 1 .. n
      <3>1. q - E # n + 1
        BY <1>3, <2>2
      <3> QED BY <2>2, <3>1
    <2>4. t[q - E] = ESC
      BY <1>3, <2>2, <2>3
    <2>5. ASSUME NEW r \in q - E .. j - 1 PROVE t[r] # M
      <3>1. E + r \in q .. E + j - 1 /\ r \in 1 .. n
        BY <1>1, <2>2
      <3>2. file[E + r] # M /\ t[r] = file[E + r]
        BY <1>3, <3>1
      <3> QED BY <3>2
    <2> QED BY <2>2, <2>4, <2>5 DEF Coloured
  <1> QED BY <1>2, <1>3 DEF Coloured

-----------------------------------------------------------------------------
(***************************************************************************)
(* Where the characters of the text come from.                             *)
(***************************************************************************)
\* The places of the file whose characters are to stay.
Stays ==
    {v \in DOMAIN file : /\ ~Coloured(file, v)
                         /\ ~(file_type = "WINDOWS" /\ file[v] = CR /\ v + 1 \in Breaks)}

\* o gives the origin of the first n characters of s, zeros aside: they are
\* those of the file that are to stay, in their order.
Origins(o, s, n) ==
    /\ \A p \in 1 .. n : s[p] # NUL =>
         /\ o[p] \in Stays /\ o[p] <= n
         /\ s[p] = IF o[p] \in Breaks THEN LF ELSE file[o[p]]
    /\ \A p \in 1 .. n, q \in 1 .. n : s[p] # NUL /\ s[q] # NUL /\ p < q => o[p] < o[q]
    /\ \A v \in Stays : v <= n => \E p \in 1 .. n : s[p] # NUL /\ o[p] = v

\* There is nothing but zeros between p and a line feed before it.
BehindLine(s, p) == \E q \in 1 .. p - 1 : s[q] = LF /\ \A r \in q + 1 .. p : s[r] = NUL

\* The n-th position is not before n.
LEMMA NthAtLeast ==
    ASSUME NEW N \in Nat, NEW S, S \subseteq 1 .. N, NEW n \in 1 .. Cardinality(S)
    PROVE  Nth(S, n) >= n
  <1> DEFINE p == Nth(S, n)
  <1>1. p \in S /\ Cardinality(Before(S, p)) = n - 1
    BY NthIs DEF Before
  <1> HIDE DEF p
  <1>2. p \in Nat /\ p >= 1 /\ Cardinality(S) \in Nat
    BY <1>1, BeforeIs
  <1>3. Before(S, p) \subseteq 1 .. p - 1
    <2>1. \A q \in S : q \in Nat /\ 1 <= q
      BY BeforeIs
    <2>2. \A q \in S : q < p => q \in 1 .. p - 1
      BY <1>2, <2>1
    <2> QED BY <2>2 DEF Before
  <1>4. IsFiniteSet(1 .. p - 1) /\ Cardinality(1 .. p - 1) = p - 1
    <2>1. /\ IsFiniteSet(1 .. p - 1)
          /\ Cardinality(1 .. p - 1) = IF 1 > p - 1 THEN 0 ELSE (p - 1) - 1 + 1
      <3>1. 1 \in Int /\ p - 1 \in Int
        BY <1>2
      <3> QED BY <3>1, FS_Interval
    <2> QED BY <1>2, <2>1
  <1>5. Cardinality(Before(S, p)) <= Cardinality(1 .. p - 1)
    BY <1>3, <1>4, FS_Subset
  <1>6. n - 1 <= p - 1
    BY <1>1, <1>4, <1>5
  <1>7. p >= n
    BY <1>2, <1>6
  <1> QED BY <1>7 DEF p

\* Where the characters come from that clear_color leaves at the front.
ClearedBy(t, n, g) ==
    /\ n \in 0 .. Len(t)
    /\ \A i \in 1 .. n : /\ g[i] \in 1 .. Len(t) /\ ~Coloured(t, g[i])
                         /\ clear_color(t)[i] = t[g[i]] /\ g[i] >= i
    /\ \A i \in 1 .. n, k \in 1 .. n : i < k => g[i] < g[k]
    /\ \A j \in 1 .. Len(t) : ~Coloured(t, j) => \E i \in 1 .. n : g[i] = j
    /\ \A i \in n + 1 .. Len(t) : clear_color(t)[i] = NUL

\* There is such a map for every line.
LEMMA ClearedMap ==
    ASSUME NEW t \in Seq(Chars)
    PROVE  \E n, g : ClearedBy(t, n, g)
  <1> DEFINE kept == Kept(t)
             n == Cardinality(kept)
             g == [i \in 1 .. n |-> Nth(kept, i)]
             u == clear_color(t)
  <1>1. /\ n \in 0 .. Len(t) /\ Len(t) \in Nat
        /\ \A i \in 1 .. n : Nth(kept, i) \in kept /\ u[i] = t[Nth(kept, i)]
        /\ \A i \in n + 1 .. Len(t) : u[i] = NUL
    <2>1. Len(t) \in Nat
      OBVIOUS
    <2>2. n \in 0 .. Len(t)
      BY Cleared
    <2>3. ASSUME NEW i \in 1 .. n PROVE Nth(kept, i) \in kept /\ u[i] = t[Nth(kept, i)]
      BY Cleared
    <2>4. ASSUME NEW i \in n + 1 .. Len(t) PROVE u[i] = NUL
      BY Cleared
    <2> HIDE DEF n, kept, u
    <2> QED BY <2>1, <2>2, <2>3, <2>4
  <1>2. kept = {p \in 1 .. Len(t) : ~Coloured(t, p)}
    BY KeptIs
  <1>3. kept \subseteq 1 .. Len(t)
    BY <1>2
  <1> HIDE DEF kept, u
  <1>4. ASSUME NEW i \in 1 .. n PROVE Nth(kept, i) >= i
    BY <1>1, <1>3, NthAtLeast
  <1>5. ASSUME NEW i \in 1 .. n, NEW k \in 1 .. n, i < k PROVE Nth(kept, i) < Nth(kept, k)
    BY <1>1, <1>3, <1>5, NthOrder
  <1>6. ASSUME NEW j \in kept PROVE \E i \in 1 .. n : Nth(kept, i) = j
    BY <1>1, <1>3, NthOf
  <1> HIDE DEF n
  <1>7. \A i \in 1 .. n : g[i] = Nth(kept, i)
    OBVIOUS
  <1> HIDE DEF g
  <1>8. \A i \in 1 .. n : /\ g[i] \in 1 .. Len(t) /\ ~Coloured(t, g[i])
                          /\ u[i] = t[g[i]] /\ g[i] >= i
    BY <1>1, <1>2, <1>4, <1>7
  <1>9. \A i \in 1 .. n, k \in 1 .. n : i < k => g[i] < g[k]
    BY <1>5, <1>7
  <1>10. \A j \in 1 .. Len(t) : ~Coloured(t, j) => \E i \in 1 .. n : g[i] = j
    BY <1>2, <1>6, <1>7
  <1> QED BY <1>1, <1>8, <1>9, <1>10 DEF u, ClearedBy

-----------------------------------------------------------------------------
(***************************************************************************)
(* What SplitLine and SplitEnd keep of that.                               *)
(***************************************************************************)
\* An empty line of a file from Windows that ends without \r: its line feed is
\* put into the line before.
LEMMA BareLine ==
    ASSUME FileOK, ColoursClosed, file_type = "WINDOWS",
           NEW at \in Breaks, at > 1, NEW o, NEW s, NEW u,
           Origins(o, s, at - 1), \A p \in 1 .. at - 1 : s[p] = NUL => BehindLine(s, p),
           s[at - 1] = NUL,
           \A p \in 1 .. at - 2 : u[p] = s[p], u[at - 1] = LF, u[at] = NUL
    PROVE  /\ \E x : Origins(x, u, at)
           /\ \A p \in 1 .. at : u[p] = NUL => BehindLine(u, p)
  <1> DEFINE x == [p \in 1 .. at |-> IF p = at - 1 THEN at ELSE o[p]]
  <1>1. /\ at \in Nat \ {0} /\ at \in 1 .. Len(file) /\ file[at] = LineBreak
        /\ DOMAIN file = 1 .. Len(file) /\ Len(file) \in Nat
    BY EndsIn
  <1>2. LineBreak = LF /\ LF # CR /\ LF # NUL
    BY DEF LineBreak, LF, CR, NUL
  <1>3. at \in Stays
    BY <1>1, <1>2, BreakShown DEF Stays
  <1>4. \A p \in 1 .. at : x[p] = IF p = at - 1 THEN at ELSE o[p]
    OBVIOUS
  <1> HIDE DEF x
  <1>5. /\ at - 1 \in 1 .. at - 1 /\ at - 1 \in 1 .. at
        /\ \A p \in 1 .. at : p \in 1 .. at - 2 \/ p = at - 1 \/ p = at
        /\ \A p \in 1 .. at - 2 : p \in 1 .. at - 1 /\ p \in 1 .. at /\ p # at - 1 /\ p < at - 1
    BY <1>1
  <1>6. \A v \in Stays : v \in Nat
    BY <1>1 DEF Stays
  <1>7. \A p \in 1 .. at - 1 : s[p] # NUL =>
          /\ o[p] \in Stays /\ o[p] <= at - 1
          /\ s[p] = IF o[p] \in Breaks THEN LF ELSE file[o[p]]
    BY DEF Origins
  <1>8. ASSUME NEW p \in 1 .. at, u[p] # NUL
        PROVE  /\ x[p] \in Stays /\ x[p] <= at
               /\ u[p] = IF x[p] \in Breaks THEN LF ELSE file[x[p]]
    <2>1. CASE p = at - 1
      BY <1>1, <1>3, <1>4, <2>1
    <2>2. CASE p \in 1 .. at - 2
      <3>1. x[p] = o[p] /\ u[p] = s[p]
        BY <1>4, <1>5, <2>2
      <3>2. /\ o[p] \in Stays /\ o[p] <= at - 1
            /\ s[p] = IF o[p] \in Breaks THEN LF ELSE file[o[p]]
        BY <1>5, <1>7, <1>8, <2>2, <3>1
      <3>3. o[p] <= at
        BY <1>1, <1>6, <3>2
      <3> QED BY <3>1, <3>2, <3>3
    <2> QED BY <1>5, <1>8, <2>1, <2>2
  <1>9. ASSUME NEW p \in 1 .. at, NEW q \in 1 .. at, u[p] # NUL, u[q] # NUL, p < q
        PROVE  x[p] < x[q]
    <2>1. p \in 1 .. at - 2
      BY <1>1, <1>5, <1>9
    <2>2. x[p] = o[p] /\ s[p] # NUL /\ p \in 1 .. at - 1
      BY <1>4, <1>5, <1>9, <2>1
    <2>3. CASE q = at - 1
      <3>1. o[p] \in Nat /\ o[p] <= at - 1 /\ x[q] = at
        BY <1>4, <1>6, <1>7, <2>2, <2>3
      <3> QED BY <1>1, <2>2, <3>1
    <2>4. CASE q \in 1 .. at - 2
      <3>1. x[q] = o[q] /\ s[q] # NUL /\ q \in 1 .. at - 1
        BY <1>4, <1>5, <1>9, <2>4
      <3> QED BY <1>9, <2>2, <3>1 DEF Origins
    <2> QED BY <1>5, <1>9, <2>3, <2>4
  <1>10. ASSUME NEW v \in Stays, v <= at
         PROVE  \E p \in 1 .. at : u[p] # NUL /\ x[p] = v
    <2>1. CASE v = at
      BY <1>2, <1>4, <1>5, <2>1
    <2>2. CASE v <= at - 1
      <3>1. PICK p \in 1 .. at - 1 : s[p] # NUL /\ o[p] = v
        BY <2>2 DEF Origins
      <3>2. p \in 1 .. at - 2
        BY <1>1, <3>1
      <3> QED BY <1>4, <1>5, <3>1, <3>2
    <2> QED BY <1>1, <1>6, <1>10, <2>1, <2>2
  <1>11. ASSUME NEW p \in 1 .. at, u[p] = NUL PROVE BehindLine(u, p)
    <2>1. CASE p = at
      <3>1. at - 1 \in 1 .. p - 1 /\ \A r \in (at - 1) + 1 .. p : r = at
        BY <1>1, <2>1
      <3> QED BY <3>1 DEF BehindLine
    <2>2. CASE p \in 1 .. at - 2
      <3>1. PICK q \in 1 .. p - 1 : s[q] = LF /\ \A r \in q + 1 .. p : s[r] = NUL
        <4>1. s[p] = NUL /\ p \in 1 .. at - 1
          BY <1>5, <1>11, <2>2
        <4> QED BY <4>1 DEF BehindLine
      <3>2. q \in 1 .. at - 2 /\ \A r \in q + 1 .. p : r \in 1 .. at - 2
        BY <1>1, <2>2
      <3>3. u[q] = LF /\ \A r \in q + 1 .. p : u[r] = NUL
        BY <3>1, <3>2
      <3> QED BY <3>3 DEF BehindLine
    <2>3. p # at - 1
      BY <1>2, <1>11
    <2> QED BY <1>5, <2>1, <2>2, <2>3
  <1>12. Origins(x, u, at)
    BY <1>8, <1>9, <1>10 DEF Origins
  <1> QED BY <1>11, <1>12

\* A line that is cleared: t is what it was, with its break made a line feed at
\* z, which is one place before its end in a file from Windows.  The last line
\* may have none: then z is beyond its end.
Region(E, t, k, z, o, s, u) ==
    /\ E \in Nat /\ (E = 0 \/ E \in Ends)
    /\ t \in Seq(Chars) /\ k = Len(t) /\ E + k <= Len(file)
    /\ Origins(o, s, E)
    /\ \A p \in 1 .. E : s[p] = NUL => BehindLine(s, p)
    /\ \A p \in 1 .. E : u[p] = s[p]
    /\ \A i \in 1 .. k : u[E + i] = clear_color(t)[i]
    /\ z \in 1 .. k + 1
    /\ \A i \in 1 .. z - 1 : t[i] = file[E + i] /\ E + i \notin Breaks
    /\ z = k + 1 => E + k = Len(file)
    /\ z <= k => /\ t[z] = LF /\ \A i \in z + 1 .. k : t[i] = NUL
                 /\ E + k \in Breaks
                 /\ IF file_type = "WINDOWS" THEN k = z + 1 /\ file[E + z] = CR ELSE k = z

\* With such a line the origins are known a line further, and every zero is
\* behind a line feed.
LEMMA ClearedOrigins ==
    ASSUME FileOK, ColoursClosed,
           NEW E, NEW t, NEW k, NEW z, NEW o, NEW s, NEW u, Region(E, t, k, z, o, s, u)
    PROVE  /\ \E x : Origins(x, u, E + k)
           /\ \A p \in 1 .. E + k : u[p] = NUL =>
                BehindLine(u, p) \/ (z = k + 1 /\ \A r \in p .. E + k : u[r] = NUL)
           /\ z <= k /\ file_type = "WINDOWS" => u[E + k] = NUL
  <1> DEFINE b == E + k
  <1>0. /\ E \in Nat /\ k \in Nat /\ z \in Nat /\ 1 <= z /\ z <= k + 1 /\ b \in Nat
        /\ \A j \in 1 .. z - 1 : j \in Nat /\ 1 <= j /\ j < z /\ j <= k
    BY DEF Region
  <1>a. E + k <= Len(file) /\ k = Len(t) /\ t \in Seq(Chars) /\ (E = 0 \/ E \in Ends)
    BY DEF Region
  <1>b. \A i \in 1 .. z - 1 : t[i] = file[E + i] /\ E + i \notin Breaks
    BY DEF Region
  <1>c. z = k + 1 => E + k = Len(file)
    BY DEF Region
  <1>d. z <= k => /\ t[z] = LF /\ \A i \in z + 1 .. k : t[i] = NUL
                  /\ b \in Breaks
                  /\ IF file_type = "WINDOWS" THEN k = z + 1 /\ file[E + z] = CR ELSE k = z
    BY DEF Region
  <1>e. /\ Origins(o, s, E) /\ \A p \in 1 .. E : u[p] = s[p]
        /\ \A p \in 1 .. E : s[p] = NUL => BehindLine(s, p)
    BY DEF Region
  <1>f. \A i \in 1 .. k : u[E + i] = clear_color(t)[i]
    BY DEF Region
  <1>1. PICK n, g : ClearedBy(t, n, g)
    BY <1>a, ClearedMap
  <1>2. /\ n \in Nat /\ n <= k
        /\ \A i \in 1 .. n : /\ g[i] \in 1 .. k /\ ~Coloured(t, g[i])
                             /\ u[E + i] = t[g[i]] /\ g[i] >= i
        /\ \A i \in 1 .. n, j \in 1 .. n : i < j => g[i] < g[j]
        /\ \A j \in 1 .. k : ~Coloured(t, j) => \E i \in 1 .. n : g[i] = j
        /\ \A i \in 1 .. k : i > n => u[E + i] = NUL
    <2>1. n \in Nat /\ n <= k /\ \A i \in 1 .. n : i \in 1 .. k
      BY <1>0, <1>1, <1>a DEF ClearedBy
    <2>2. \A i \in 1 .. k : i > n => i \in n + 1 .. k
      BY <1>0, <2>1
    <2> QED BY <1>1, <1>a, <1>f, <2>1, <2>2 DEF ClearedBy
  <1>3. /\ Len(file) \in Nat /\ DOMAIN file = 1 .. Len(file)
        /\ \A p \in 1 .. Len(file) : p \in Breaks <=> file[p] = LineBreak
        /\ Breaks \subseteq 1 .. Len(file)
        /\ LineBreak \in {CR, LF}
        /\ file_type = "WINDOWS" => LineBreak = LF
        /\ LF # NUL /\ LF # CR /\ ESC # CR /\ ESC # LF
    BY EndsIn DEF LineBreak, LF, NUL, CR, ESC
  <1>4. ASSUME NEW j \in 1 .. z - 1
        PROVE  /\ Coloured(t, j) <=> Coloured(file, E + j)
               /\ j \in 1 .. k /\ E + j \in 1 .. Len(file)
               /\ t[j] = file[E + j] /\ t[j] # NUL /\ E + j \notin Breaks
    <2>2. Coloured(t, j) <=> Coloured(file, E + j)
      <3> DEFINE m == z - 1
      <3>1. m \in Nat /\ j \in 1 .. m + 1 /\ j # m + 1
        BY <1>0
      <3>2. \A i \in 1 .. m : t[i] = file[E + i]
        BY <1>b
      <3> HIDE DEF m
      <3> QED BY <1>0, <1>a, <3>1, <3>2, ColouredPart
    <2>3. j \in 1 .. k /\ E + j \in 1 .. Len(file)
      <3>1. j \in Nat /\ 1 <= j /\ j <= k
        BY <1>0
      <3>2. E + j \in Nat /\ E + j >= 1 /\ E + j <= E + k
        BY <1>0, <3>1
      <3>3. E + j <= Len(file)
        BY <1>0, <1>3, <1>a, <3>2
      <3> QED BY <1>3, <3>1, <3>2, <3>3
    <2> QED BY <1>b, <2>2, <2>3 DEF FileOK
  <1>5. ASSUME z <= k
        PROVE  /\ ~Coloured(t, z) /\ b \in Stays /\ b \in 1 .. Len(file)
    <2>1. b \in Breaks /\ b \in 1 .. Len(file)
      BY <1>3, <1>5, <1>d
    <2>2. E + z = b \/ (E + z = b - 1 /\ file[E + z] = CR /\ b > 1)
      BY <1>0, <1>5, <1>d
    <2>3. ~Coloured(file, E + z) /\ ~Coloured(file, b)
      BY <2>1, <2>2, BreakShown
    <2>4. file[E + z] # ESC
      <3>1. file[b] = LineBreak
        BY <1>3, <2>1
      <3>2. file[E + z] = LineBreak \/ file[E + z] = CR
        <4>1. CASE E + z = b
          <5> HIDE DEF b
          <5> QED BY <3>1, <4>1
        <4>2. CASE file[E + z] = CR
          BY <4>2
        <4> QED BY <2>2, <4>1, <4>2
      <3> QED BY <1>3, <3>2
    <2>5. Coloured(t, z) <=> Coloured(file, E + z)
      <3> DEFINE m == z - 1
      <3>1. m \in Nat /\ z \in 1 .. m + 1
        BY <1>0
      <3>2. t[z] # ESC
        BY <1>3, <1>5, <1>d
      <3>3. \A j \in 1 .. m : t[j] = file[E + j]
        BY <1>b
      <3> HIDE DEF m
      <3> QED BY <1>0, <1>a, <2>4, <3>1, <3>2, <3>3, ColouredPart
    <2>6. b \in Stays
      BY <1>3, <2>1, <2>3 DEF Stays
    <2> QED BY <2>1, <2>3, <2>5, <2>6
  <1>6. ASSUME NEW i \in 1 .. n
        PROVE  /\ u[E + i] = NUL <=> g[i] > z
               /\ u[E + i] # NUL => g[i] = z \/ g[i] \in 1 .. z - 1
               /\ g[i] = z => z <= k
               /\ g[i] \in Nat
    <2>1. g[i] \in 1 .. k /\ u[E + i] = t[g[i]]
      BY <1>2
    <2>2. CASE g[i] > z
      <3>1. g[i] \in z + 1 .. k /\ z <= k
        BY <1>0, <2>1, <2>2
      <3>2. t[g[i]] = NUL
        BY <1>d, <3>1
      <3> QED BY <1>0, <2>1, <2>2, <3>1, <3>2
    <2>3. CASE g[i] = z
      <3>1. z <= k
        BY <1>0, <2>1, <2>3
      <3>2. t[g[i]] # NUL
        BY <1>3, <1>d, <2>3, <3>1
      <3> QED BY <1>0, <2>1, <2>3, <3>1, <3>2
    <2>4. CASE g[i] < z
      <3>1. g[i] \in 1 .. z - 1 /\ g[i] \in Nat
        BY <1>0, <2>1, <2>4
      <3>2. t[g[i]] # NUL
        BY <1>4, <3>1
      <3>3. ~(g[i] > z) /\ g[i] # z
        BY <1>0, <2>4, <3>1
      <3>4. u[E + i] # NUL
        BY <2>1, <3>2
      <3> HIDE DEF b
      <3> QED BY <3>1, <3>3, <3>4
    <2> QED BY <1>0, <2>1, <2>2, <2>3, <2>4
  <1>7. ASSUME NEW j \in 1 .. z - 1, ~Coloured(t, j) PROVE E + j \in Stays
    <2>1. ASSUME file_type = "WINDOWS", file[E + j] = CR, E + j + 1 \in Breaks PROVE FALSE
      <3>1. CASE j + 1 \in 1 .. z - 1
        <4>1. E + (j + 1) \notin Breaks
          BY <1>b, <3>1
        <4>2. E + (j + 1) = E + j + 1
          BY <1>0
        <4> QED BY <2>1, <4>1, <4>2
      <3>2. CASE j + 1 = z /\ z <= k
        <4>1. file[E + z] = CR
          BY <1>d, <2>1, <3>2
        <4>2. E + j + 1 = E + z
          BY <1>0, <3>2
        <4> QED BY <1>3, <2>1, <4>1, <4>2
      <3>3. CASE j + 1 = z /\ z = k + 1
        <4>1. E + j + 1 = Len(file) + 1
          <5>1. j = k /\ E + k = Len(file) /\ j \in Nat
            BY <1>0, <1>c, <3>3
          <5> QED BY <1>0, <5>1
        <4> QED BY <1>3, <2>1, <4>1
      <3> QED BY <1>0, <3>1, <3>2, <3>3
    <2> QED BY <1>3, <1>4, <1>7, <2>1 DEF Stays
  <1> DEFINE x == [p \in 1 .. b |-> IF p <= E THEN o[p] ELSE IF g[p - E] = z THEN b ELSE E + g[p - E]]
  <1>8. /\ b \in Nat /\ E <= b /\ b <= Len(file)
        /\ \A p \in 1 .. b : p <= E => p \in 1 .. E
        /\ \A p \in 1 .. b : ~(p <= E) => p - E \in 1 .. k /\ E + (p - E) = p
        /\ \A p \in 1 .. E : p \in 1 .. b /\ p <= E
        /\ \A i \in 1 .. k : E + i \in 1 .. b /\ ~(E + i <= E) /\ (E + i) - E = i
    BY <1>0, <1>a
  <1>9. /\ \A p \in 1 .. E : x[p] = o[p]
        /\ \A i \in 1 .. k : x[E + i] = IF g[i] = z THEN b ELSE E + g[i]
    <2>1. ASSUME NEW p \in 1 .. E PROVE x[p] = o[p]
      BY <1>8
    <2>2. ASSUME NEW i \in 1 .. k PROVE x[E + i] = IF g[i] = z THEN b ELSE E + g[i]
      <3>1. E + i \in 1 .. b /\ ~(E + i <= E) /\ (E + i) - E = i
        BY <1>8
      <3> HIDE DEF b
      <3> QED BY <3>1
    <2> HIDE DEF x, b
    <2> QED BY <2>1, <2>2
  <1> HIDE DEF x, b
  <1>10. \A v \in Stays : v \in Nat /\ v >= 1
    BY <1>3 DEF Stays
  <1>11. ASSUME NEW i \in 1 .. k, u[E + i] # NUL
         PROVE  /\ i \in 1 .. n
                /\ x[E + i] \in Stays /\ E < x[E + i] /\ x[E + i] <= b
                /\ u[E + i] = IF x[E + i] \in Breaks THEN LF ELSE file[x[E + i]]
    <2>1. i \in 1 .. n
      <3>1. ~(i > n)
        BY <1>2, <1>11
      <3> QED BY <1>2, <3>1
    <2>2. u[E + i] = t[g[i]] /\ ~Coloured(t, g[i])
      BY <1>2, <2>1
    <2>3. CASE g[i] = z
      <3>1. z <= k /\ x[E + i] = b
        BY <1>6, <1>9, <2>1, <2>3
      <3>2. b \in Stays /\ b \in Breaks /\ t[z] = LF
        BY <1>5, <1>d, <3>1
      <3>3. E < b
        BY <1>0, <3>1 DEF b
      <3> QED BY <1>8, <2>1, <2>2, <2>3, <3>1, <3>2, <3>3
    <2>4. CASE g[i] \in 1 .. z - 1
      <3>1. x[E + i] = E + g[i]
        BY <1>9, <2>4
      <3>2. E + g[i] \in Stays
        BY <1>7, <2>2, <2>4
      <3>3. t[g[i]] = file[E + g[i]] /\ E + g[i] \notin Breaks /\ g[i] \in 1 .. k
        BY <1>4, <2>4
      <3>4. E < E + g[i] /\ E + g[i] <= b
        BY <1>0, <3>3 DEF b
      <3> QED BY <2>1, <2>2, <3>1, <3>2, <3>3, <3>4
    <2> QED BY <1>6, <1>11, <2>1, <2>3, <2>4
  <1>12. ASSUME NEW p \in 1 .. E, u[p] # NUL
         PROVE  /\ x[p] \in Stays /\ x[p] <= E
                /\ u[p] = IF x[p] \in Breaks THEN LF ELSE file[x[p]]
    BY <1>9, <1>12, <1>e DEF Origins
  <1>13. ASSUME NEW p \in 1 .. b, u[p] # NUL
         PROVE  /\ x[p] \in Stays /\ x[p] <= b
                /\ u[p] = IF x[p] \in Breaks THEN LF ELSE file[x[p]]
    <2>1. CASE p <= E
      <3>1. p \in 1 .. E
        BY <1>8, <2>1
      <3>2. x[p] \in Stays /\ x[p] <= E
        BY <1>12, <1>13, <3>1
      <3>3. x[p] <= b
        BY <1>8, <1>10, <3>2
      <3> QED BY <1>12, <1>13, <3>1, <3>3
    <2>2. CASE ~(p <= E)
      <3>1. p - E \in 1 .. k /\ E + (p - E) = p
        BY <1>8, <2>2
      <3> QED BY <1>11, <1>13, <3>1
    <2> QED BY <2>1, <2>2
  <1>14. ASSUME NEW p \in 1 .. b, NEW q \in 1 .. b, u[p] # NUL, u[q] # NUL, p < q
         PROVE  x[p] < x[q]
    <2>1. CASE q <= E
      <3>1. p \in 1 .. E /\ q \in 1 .. E
        BY <1>0, <1>8, <1>14, <2>1
      <3>2. s[p] # NUL /\ s[q] # NUL
        BY <1>14, <1>e, <3>1
      <3> QED BY <1>9, <1>14, <1>e, <3>1, <3>2 DEF Origins
    <2>2. CASE p <= E /\ ~(q <= E)
      <3>1. p \in 1 .. E /\ q - E \in 1 .. k /\ E + (q - E) = q
        BY <1>8, <2>2
      <3>2. x[p] \in Nat /\ x[p] <= E
        BY <1>10, <1>12, <1>14, <3>1
      <3>3. E < x[q] /\ x[q] \in Nat
        BY <1>10, <1>11, <1>14, <3>1
      <3> QED BY <1>0, <3>2, <3>3
    <2>3. CASE ~(p <= E) /\ ~(q <= E)
      <3> DEFINE i == p - E
                 j == q - E
      <3>1. i \in 1 .. k /\ E + i = p /\ j \in 1 .. k /\ E + j = q /\ i < j
        BY <1>0, <1>8, <1>14, <2>3
      <3> HIDE DEF i, j
      <3>2. i \in 1 .. n /\ j \in 1 .. n
        BY <1>11, <1>14, <3>1
      <3>3. /\ g[i] < g[j]
            /\ g[i] = z \/ g[i] \in 1 .. z - 1
            /\ g[j] = z \/ g[j] \in 1 .. z - 1
        BY <1>2, <1>6, <1>14, <3>1, <3>2
      <3>4. g[i] \in 1 .. z - 1
        BY <1>0, <3>3
      <3>5. x[p] = E + g[i]
        <4>1. g[i] # z
          BY <3>4
        <4>2. x[E + i] = E + g[i]
          BY <1>9, <3>1, <4>1
        <4> QED BY <3>1, <4>2
      <3>6. CASE g[j] = z
        <4>1. x[q] = b /\ z <= k
          BY <1>6, <1>9, <3>1, <3>2, <3>6
        <4> QED BY <1>0, <3>4, <3>5, <4>1 DEF b
      <3>7. CASE g[j] \in 1 .. z - 1
        <4>1. x[q] = E + g[j]
          <5>1. g[j] # z
            BY <3>7
          <5>2. x[E + j] = E + g[j]
            BY <1>9, <3>1, <5>1
          <5> QED BY <3>1, <5>2
        <4> QED BY <1>0, <3>3, <3>4, <3>5, <3>7, <4>1
      <3> QED BY <3>3, <3>6, <3>7
    <2>4. p \in Nat /\ q \in Nat /\ E \in Nat
      BY <1>0, <1>8
    <2> QED BY <1>14, <2>1, <2>2, <2>3, <2>4
  <1>15. ASSUME NEW v \in Stays, v <= b
         PROVE  \E p \in 1 .. b : u[p] # NUL /\ x[p] = v
    <2>1. CASE v <= E
      <3>1. PICK p \in 1 .. E : s[p] # NUL /\ o[p] = v
        BY <1>e, <2>1 DEF Origins
      <3>2. u[p] = s[p] /\ x[p] = o[p] /\ p \in 1 .. b
        BY <1>8, <1>9, <1>e
      <3> QED BY <3>1, <3>2
    <2>2. ASSUME NEW j \in 1 .. z, j <= k, ~Coloured(t, j), v = IF j = z THEN b ELSE E + j
          PROVE  \E p \in 1 .. b : u[p] # NUL /\ x[p] = v
      <3>1. j \in 1 .. k
        BY <1>0, <2>2
      <3>2. PICK i \in 1 .. n : g[i] = j
        BY <1>2, <2>2, <3>1
      <3>3. i \in 1 .. k
        BY <1>0, <1>2
      <3>4. u[E + i] # NUL
        <4>1. ~(g[i] > z)
          BY <1>0, <3>2
        <4> QED BY <1>6, <4>1
      <3>5. x[E + i] = v
        BY <1>9, <2>2, <3>2, <3>3
      <3>6. E + i \in 1 .. b
        BY <1>8, <3>3
      <3> QED BY <3>4, <3>5, <3>6
    <2>3. CASE ~(v <= E)
      <3> DEFINE j == v - E
      <3>1. j \in 1 .. k /\ E + j = v
        BY <1>0, <1>10, <1>15, <2>3 DEF b
      <3>2. ~Coloured(file, v)
        BY DEF Stays
      <3> HIDE DEF j
      <3>3. CASE j \in 1 .. z - 1
        <4>1. ~Coloured(t, j)
          BY <1>4, <3>1, <3>2, <3>3
        <4>2. j \in 1 .. z /\ j <= k /\ j # z
          BY <1>0, <3>1, <3>3
        <4> QED BY <2>2, <3>1, <4>1, <4>2
      <3>4. CASE j >= z
        <4>1. z <= k
          BY <1>0, <3>1, <3>4
        <4>2. j = k
          <5>1. ASSUME j # k PROVE FALSE
            <6>1. k = z + 1 /\ j = z /\ file[E + z] = CR /\ file_type = "WINDOWS"
              BY <1>0, <1>d, <3>1, <3>4, <4>1, <5>1
            <6>2. E + z = v /\ v + 1 = b
              BY <1>0, <3>1, <6>1 DEF b
            <6>3. b \in Breaks
              BY <1>d, <4>1
            <6> QED BY <6>1, <6>2, <6>3 DEF Stays
          <5> QED BY <5>1
        <4>3. v = b
          BY <3>1, <4>2 DEF b
        <4>4. z \in 1 .. z /\ ~Coloured(t, z)
          BY <1>0, <1>5, <4>1
        <4> QED BY <2>2, <4>1, <4>3, <4>4
      <3> QED BY <1>0, <3>1, <3>3, <3>4
    <2> QED BY <2>1, <2>3
  <1>16. Origins(x, u, b)
    BY <1>13, <1>14, <1>15 DEF Origins
  <1>17. ASSUME NEW p \in 1 .. E, u[p] = NUL PROVE BehindLine(u, p)
    <2>1. PICK q \in 1 .. p - 1 : s[q] = LF /\ \A r \in q + 1 .. p : s[r] = NUL
      <3>1. s[p] = NUL
        BY <1>17, <1>e
      <3> QED BY <1>e, <3>1 DEF BehindLine
    <2>2. q \in 1 .. E /\ \A r \in q + 1 .. p : r \in 1 .. E
      BY <1>0
    <2>3. u[q] = LF /\ \A r \in q + 1 .. p : u[r] = NUL
      BY <1>e, <2>1, <2>2
    <2> QED BY <2>3 DEF BehindLine
  \* Behind its line feed a line is zeros.
  <1>18. ASSUME z <= k, NEW i \in 1 .. k, u[E + i] = NUL PROVE BehindLine(u, E + i)
    <2>1. PICK y \in 1 .. n : g[y] = z
      <3>1. z \in 1 .. k
        BY <1>0, <1>18
      <3> QED BY <1>2, <1>5, <1>18, <3>1
    <2>2. y \in 1 .. k /\ u[E + y] = LF
      <3>1. y \in 1 .. k
        BY <1>0, <1>2
      <3> QED BY <1>2, <1>18, <1>d, <2>1, <3>1
    <2>3. ASSUME NEW a \in 1 .. k, y < a PROVE u[E + a] = NUL
      <3>1. CASE a \in 1 .. n
        <4>1. g[a] > z
          BY <1>0, <1>2, <2>1, <2>3, <3>1
        <4> QED BY <1>6, <3>1, <4>1
      <3>2. CASE a > n
        BY <1>2, <3>2
      <3> QED BY <1>0, <1>2, <3>1, <3>2
    <2>4. y < i
      <3>1. ASSUME i < y PROVE FALSE
        <4>1. i \in 1 .. n
          BY <1>0, <1>2, <3>1
        <4>2. g[i] < g[y] /\ g[i] > z
          BY <1>6, <1>18, <2>1, <3>1, <4>1, <1>2
        <4>3. g[i] \in Nat
          BY <1>6, <4>1
        <4> QED BY <1>0, <2>1, <4>2, <4>3
      <3>2. i # y
        BY <1>3, <1>18, <2>2
      <3> QED BY <1>0, <2>2, <3>1, <3>2
    <2>5. E + y \in 1 .. (E + i) - 1
      BY <1>0, <2>2, <2>4
    <2>6. ASSUME NEW r \in (E + y) + 1 .. E + i PROVE u[r] = NUL
      <3>1. r - E \in 1 .. k /\ y < r - E /\ E + (r - E) = r
        BY <1>0, <2>2, <2>4
      <3>2. u[E + (r - E)] = NUL
        BY <2>3, <3>1
      <3> QED BY <3>1, <3>2
    <2> QED BY <2>2, <2>5, <2>6 DEF BehindLine
  <1>19. ASSUME z = k + 1, NEW i \in 1 .. k, u[E + i] = NUL
         PROVE  \A r \in E + i .. E + k : u[r] = NUL
    <2>1. i > n
      <3>1. ASSUME i \in 1 .. n PROVE FALSE
        <4>1. g[i] > z /\ g[i] \in 1 .. k
          BY <1>2, <1>6, <1>19, <3>1
        <4> QED BY <1>0, <1>19, <4>1
      <3> QED BY <1>0, <1>2, <3>1
    <2> SUFFICES ASSUME NEW r \in E + i .. E + k PROVE u[r] = NUL
      OBVIOUS
    <2>2. r - E \in 1 .. k /\ r - E > n /\ E + (r - E) = r
      BY <1>0, <1>2, <2>1
    <2>3. u[E + (r - E)] = NUL
      BY <1>2, <2>2
    <2> QED BY <2>2, <2>3
  <1>20. ASSUME NEW p \in 1 .. E + k, u[p] = NUL
         PROVE  BehindLine(u, p) \/ (z = k + 1 /\ \A r \in p .. E + k : u[r] = NUL)
    <2>1. CASE p <= E
      <3>1. p \in 1 .. E
        BY <1>0, <2>1
      <3> QED BY <1>17, <1>20, <3>1
    <2>2. CASE ~(p <= E)
      <3>1. p - E \in 1 .. k /\ E + (p - E) = p
        BY <1>0, <2>2
      <3>2. z <= k \/ z = k + 1
        BY <1>0
      <3> QED BY <1>18, <1>19, <1>20, <3>1, <3>2
    <2> QED BY <2>1, <2>2
  <1>21. ASSUME z <= k, file_type = "WINDOWS" PROVE u[E + k] = NUL
    <2>1. k = z + 1 /\ k \in 1 .. k
      BY <1>0, <1>21, <1>d
    <2>2. CASE k \in 1 .. n
      <3>1. g[k] > z
        <4>1. g[k] >= k /\ g[k] \in 1 .. k
          BY <1>2, <2>2
        <4> QED BY <1>0, <2>1, <4>1
      <3> QED BY <1>6, <2>2, <3>1
    <2>3. CASE k > n
      BY <1>2, <2>1, <2>3
    <2> QED BY <1>0, <1>2, <2>1, <2>2, <2>3
  <1> QED BY <1>16, <1>20, <1>21 DEF b

-----------------------------------------------------------------------------
(***************************************************************************)
(* The invariant that what is handed out is what the file says.            *)
(***************************************************************************)
\* Before line_start the text is what is to stay of the file, and from there on
\* it is the file.
SplitText ==
    phase = "split" =>
      /\ FileOK /\ Len(source) = Len(file)
      /\ \A p \in line_start .. Len(file) : source[p] = file[p]
      /\ line_start = 1 \/ line_start - 1 \in Breaks
      /\ Uniform /\ ColoursClosed =>
           /\ \E o : Origins(o, source, line_start - 1)
           /\ \A p \in 1 .. line_start - 1 : source[p] = NUL => BehindLine(source, p)
           /\ file_type = "WINDOWS" /\ line_start > 1 => source[line_start - 1] = NUL

\* The text is what the lines of the file up to E say.
AsWritten(E) ==
    /\ Len(text) = Cardinality({x \in Ends : x <= E})
    /\ \A n \in 1 .. Len(text) : text[n] = Statement(LineAt(Nth(Ends, n)))

\* next_line stands where the line of the file ends that E ends, and behind the
\* zeros.
ScanAt(o, E) ==
    /\ Origins(o, source, current)
    /\ \A p \in 1 .. current : source[p] = NUL =>
         BehindLine(source, p) \/ \A r \in p .. current : source[r] = NUL
    /\ E \in 0 .. Len(file) /\ (E = 0 \/ E \in Ends)
    /\ \A p \in 1 .. current : source[p] # NUL => (p <= cursor <=> o[p] <= E)
    /\ cursor < current => source[cursor + 1] # NUL
    /\ \/ AsWritten(E)
       \/ Refused(text) /\ file[Len(file)] # LineBreak /\ cursor = current

ScanText ==
    /\ phase \in {"read", "split"} => unknown_count = 0
    /\ phase = "scan" =>
         /\ FileOK /\ Len(source) = Len(file)
         /\ unknown_count \in Nat
         /\ unknown_count > 0 => Refused(text)
         /\ Uniform /\ ColoursClosed => \E o, E : ScanAt(o, E)

\* At the end the text is what the file says, or it is refused, and for a reason
\* if the last line is not cut off.
DoneText ==
    phase = "done" /\ Uniform /\ ColoursClosed =>
      \/ Written \in {text, Append(text, <<>>)}
      \/ Refused(text) /\ (file[Len(file)] # LineBreak \/ Refused(Written))

TextInv == Inv /\ SplitText /\ ScanText /\ DoneText

\* It holds at the start.
LEMMA InitText == Init => TextInv
  <1> SUFFICES ASSUME Init PROVE TextInv
    OBVIOUS
  <1>1. phase = "read" /\ unknown_count = 0
    BY DEF Init
  <1> QED BY <1>1, InitInv DEF TextInv, SplitText, ScanText, DoneText

\* What depends on the file alone.
LEMMA SameFile ==
    ASSUME file' = file, file_type' = file_type
    PROVE  /\ Breaks' = Breaks /\ Ends' = Ends /\ Stays' = Stays /\ LineBreak' = LineBreak
           /\ Written' = Written
           /\ \A e : LineAt(e)' = LineAt(e)
           /\ FileOK' <=> FileOK
           /\ Uniform' <=> Uniform
           /\ ColoursClosed' <=> ColoursClosed
  <1>1. LineBreak' = LineBreak
    BY DEF LineBreak
  <1>2. Breaks' = Breaks /\ Ends' = Ends
    BY <1>1 DEF Breaks, Ends
  <1>3. Stays' = Stays
    BY <1>2 DEF Stays
  <1>4. FileOK' <=> FileOK
    BY <1>2 DEF FileOK
  <1>5. Uniform' <=> Uniform
    BY DEF Uniform
  <1>6. ASSUME NEW e PROVE LineAt(e)' = LineAt(e)
    BY <1>1, <1>2 DEF LineAt
  <1>7. ColoursClosed' <=> ColoursClosed
    BY <1>2, <1>6 DEF ColoursClosed
  <1>8. Written' = Written
    BY <1>2, <1>6 DEF Written
  <1> QED BY <1>1, <1>2, <1>3, <1>4, <1>5, <1>6, <1>7, <1>8

\* ReadEnd leaves a file to be split.
LEMMA ReadEndText ==
    ASSUME TextInv, ReadEnd
    PROVE  SplitText' /\ ScanText' /\ DoneText'
  <1> DEFINE lf == memchr(source, LF)
  <1>1. /\ phase = "read" /\ phase' \in {"split", "exit"}
        /\ source' = source /\ line_start' = line_start /\ unknown_count' = unknown_count
        /\ file' = source
        /\ phase' = "split" => file_type' # "UNKNOWN" /\ ~(memchr(source, NUL) > 0)
        /\ file_type' = CASE lf > 1 /\ source[lf - 1] = CR       -> "WINDOWS"
                          [] lf = 1 \/ (lf > 1 /\ source[lf - 1] # CR) -> "UNIX"
                          [] lf = 0 /\ memchr(source, CR) > 0    -> "MACOS"
                          [] OTHER                               -> "UNKNOWN"
    BY DEF ReadEnd
  <1>2. source \in Seq(Chars) /\ line_start = 1 /\ unknown_count = 0
    BY <1>1 DEF TextInv, Inv, TypeInv, ReadInv, ScanText
  <1>3. /\ ScanText' /\ DoneText'
    BY <1>1, <1>2 DEF ScanText, DoneText
  <1>4. SplitText'
    <2> SUFFICES ASSUME phase' = "split" PROVE SplitText'
      BY DEF SplitText
    <2>1. /\ lf \in 0 .. Len(source)
          /\ lf = 0 => \A p \in 1 .. Len(source) : source[p] # LF
          /\ lf # 0 => source[lf] = LF /\ \A p \in 1 .. lf - 1 : source[p] # LF
      BY <1>2, Memchr
    <2>2. \A p \in 1 .. Len(source) : source[p] # NUL
      <3>1. memchr(source, NUL) = 0
        <4>1. memchr(source, NUL) \in 0 .. Len(source)
          BY <1>2, Memchr
        <4> QED BY <1>1, <4>1
      <3> QED BY <1>2, <3>1, Memchr
    <2>3. memchr(source, CR) > 0 => \E p \in 1 .. Len(source) : source[p] = CR
      <3> DEFINE m == memchr(source, CR)
      <3>1. m \in 0 .. Len(source) /\ (m # 0 => source[m] = CR)
        BY <1>2, Memchr
      <3> HIDE DEF m
      <3>2. m > 0 => m \in 1 .. Len(source) /\ source[m] = CR
        BY <3>1
      <3> QED BY <3>2 DEF m
    <2> HIDE DEF lf
    <2>4. Len(source) \in Nat /\ DOMAIN source = 1 .. Len(source)
      BY <1>2
    <2>5. /\ file_type' \in {"WINDOWS", "UNIX", "MACOS"}
          /\ file_type' = "WINDOWS" => lf > 1
          /\ file_type' = "UNIX" => lf > 0
          /\ file_type' = "MACOS" => lf = 0 /\ memchr(source, CR) > 0
      <3> DEFINE cr == memchr(source, CR) > 0
                 before == source[lf - 1] = CR
      <3>1. file_type' = CASE lf > 1 /\ before              -> "WINDOWS"
                           [] lf = 1 \/ (lf > 1 /\ ~before) -> "UNIX"
                           [] lf = 0 /\ cr                  -> "MACOS"
                           [] OTHER                         -> "UNKNOWN"
        BY <1>1
      <3> HIDE DEF cr, before
      <3>2. lf \in Nat
        BY <2>1, <2>4
      <3>3. CASE lf > 1 /\ before
        BY <3>1, <3>2, <3>3
      <3>4. CASE lf = 1 \/ (lf > 1 /\ ~before)
        BY <3>1, <3>2, <3>4
      <3>5. CASE lf = 0 /\ cr
        <4>1. file_type' = "MACOS"
          BY <3>1, <3>5
        <4> QED BY <3>5, <4>1 DEF cr
      <3>6. CASE lf = 0 /\ ~cr
        <4>1. file_type' = "UNKNOWN"
          BY <3>1, <3>6
        <4> QED BY <1>1, <4>1
      <3> QED BY <3>2, <3>3, <3>4, <3>5, <3>6
    <2>6. LineBreak' = IF file_type' = "MACOS" THEN CR ELSE LF
      BY DEF LineBreak
    <2>7. \E p \in 1 .. Len(source) : source[p] = LineBreak'
      <3>1. CASE file_type' = "MACOS"
        BY <2>3, <2>5, <2>6, <3>1
      <3>2. CASE file_type' # "MACOS"
        <4>1. lf \in 1 .. Len(source) /\ source[lf] = LF
          BY <2>1, <2>4, <2>5, <3>2
        <4> QED BY <2>6, <3>2, <4>1
      <3> QED BY <3>1, <3>2
    <2>8. (Breaks # {})'
      BY <1>1, <2>4, <2>7 DEF Breaks
    <2>9. file_type' = "WINDOWS" => source[1] # LF
      <3>1. file_type' = "WINDOWS" => 1 \in 1 .. lf - 1 /\ lf # 0
        BY <2>1, <2>4, <2>5
      <3> QED BY <2>1, <3>1
    <2>10. FileOK'
      BY <1>1, <1>2, <2>1, <2>2, <2>5, <2>8, <2>9 DEF FileOK
    <2>11. /\ Origins(<<>>, source, 0)'
           /\ \A p \in 1 .. 0 : FALSE
      <3>1. \A v \in Stays' : ~(v <= 0)
        <4>1. Stays' \subseteq 1 .. Len(source)
          BY <1>1, <2>4 DEF Stays
        <4> QED BY <2>4, <4>1
      <3>2. \A p \in 1 .. 0 : FALSE
        OBVIOUS
      <3> QED BY <3>1, <3>2 DEF Origins
    <2>12. line_start' = 1 /\ line_start' - 1 = 0
      BY <1>1, <1>2
    <2>13. (\E o : Origins(o, source, line_start - 1))'
      BY <2>11, <2>12
    <2> QED BY <1>1, <2>10, <2>11, <2>12, <2>13 DEF SplitText
  <1> QED BY <1>3, <1>4

\* A break that is found is one.
LEMMA BreakAt ==
    ASSUME TypeInv, line_start <= current + 1, Break > 0
    PROVE  source[line_start + Break - 1] = IF file_type = "MACOS" THEN CR ELSE LF
  <1> DEFINE c == IF file_type = "MACOS" THEN CR ELSE LF
             brk == memchr(Rest, c)
  <1>1. source \in Seq(Chars) /\ current \in Nat /\ line_start \in Nat \ {0} /\ current = Len(source)
    BY DEF TypeInv, current
  <1>2. /\ Rest \in Seq(Chars) /\ Len(Rest) = current - line_start + 1
        /\ \A p \in 1 .. current - line_start + 1 : Rest[p] = source[line_start + p - 1]
    BY <1>1, Sub DEF Rest
  <1>3. brk \in 0 .. Len(Rest) /\ (brk # 0 => Rest[brk] = c)
    BY <1>2, Memchr
  <1>4. Break = IF brk > MAX_LINE_LEN THEN 0 ELSE brk
    BY DEF Break
  <1> HIDE DEF brk, c
  <1>5. Break = brk /\ brk \in 1 .. current - line_start + 1
    <2>1. Break = brk
      BY <1>4
    <2> QED BY <1>1, <1>2, <1>3, <2>1
  <1>6. Rest[brk] = c /\ Rest[brk] = source[line_start + brk - 1]
    BY <1>2, <1>3, <1>5
  <1> QED BY <1>5, <1>6 DEF c

\* process_source keeps it with every line.
LEMMA SplitLineText ==
    ASSUME TextInv, SplitLine
    PROVE  SplitText' /\ ScanText' /\ DoneText'
  <1> DEFINE b == Break
             E == line_start - 1
             at == E + b
             done == Broken(Break)
             t == Line
  <1>1. /\ phase = "split" /\ phase' = "split" /\ file' = file /\ file_type' = file_type
        /\ line_start' = line_start + Break /\ unknown_count' = unknown_count
    BY DEF SplitLine
  <1>2. Inv /\ SplitText /\ ScanText /\ TypeInv
    BY DEF TextInv, Inv
  <1>3. /\ FileOK /\ Len(source) = Len(file) /\ current = Len(file)
        /\ \A p \in line_start .. Len(file) : source[p] = file[p]
        /\ line_start = 1 \/ line_start - 1 \in Breaks
    BY <1>1, <1>2 DEF SplitText, current
  <1>4. /\ ScanText' /\ DoneText'
    BY <1>1, <1>2 DEF ScanText, DoneText
  <1>5. /\ FileOK' /\ Breaks' = Breaks /\ Stays' = Stays
        /\ (Uniform /\ ColoursClosed)' <=> Uniform /\ ColoursClosed
    BY <1>1, <1>3, SameFile
  <1>6. /\ Break \in Nat \ {0} /\ line_start + Break <= current + 1
        /\ done \in Seq(Chars) /\ Len(done) = line_start + Break - 1
        /\ t \in Seq(Chars) /\ Len(t) = Break
        /\ \A p \in 1 .. Break : t[p] = done[line_start + p - 1]
        /\ source' \in Seq(Chars) /\ current' = current
        /\ \A p \in 1 .. line_start - 1 : source'[p] = done[p]
        /\ \A p \in line_start .. line_start + Break - 1 :
             source'[p] = clear_color(t)[p - line_start + 1]
        /\ \A p \in line_start + Break .. current : source'[p] = source[p]
    BY <1>2, SplitShape
  <1>7. line_start \in Nat \ {0} /\ line_start <= current + 1 /\ Len(file) \in Nat
    BY <1>1, <1>2, EndsIn, <1>3 DEF Inv, TypeInv, SplitInv
  <1>8. file_type = "WINDOWS" => line_start + Break > 2
    BY <1>1, <1>2, <1>6, FirstBreak
  <1>10. /\ LineBreak = IF file_type = "MACOS" THEN CR ELSE LF
         /\ \A p \in line_start .. line_start + Break - 2 : source[p] # LineBreak
         /\ source[line_start + Break - 1] = LineBreak
    <2>1. Break > 0
      BY <1>6
    <2>2. \A p \in line_start .. line_start + Break - 2 :
            source[p] # IF file_type = "MACOS" THEN CR ELSE LF
      BY <1>2, <1>7, <2>1, BreakIs
    <2>3. source[line_start + Break - 1] = IF file_type = "MACOS" THEN CR ELSE LF
      BY <1>2, <1>7, <2>1, BreakAt
    <2> QED BY <2>2, <2>3 DEF LineBreak
  <1> HIDE DEF b, done, t
  \* The same, counted from the end of the line before.
  <1>11. /\ b \in Nat \ {0} /\ E \in Nat /\ at \in Nat \ {0} /\ at <= Len(file)
         /\ line_start = E + 1 /\ line_start + Break = at + 1 /\ Break = b
         /\ E = 0 \/ E \in Breaks
    <2>1. Break = b
      BY DEF b
    <2>2. b \in Nat \ {0} /\ line_start + b <= Len(file) + 1
      BY <1>3, <1>6, <2>1
    <2>3. E \in Nat /\ at \in Nat \ {0} /\ at <= Len(file) /\ line_start = E + 1 /\ line_start + b = at + 1
      BY <1>7, <2>2
    <2>4. E = 0 \/ E \in Breaks
      BY <1>3, <1>7
    <2> QED BY <2>1, <2>2, <2>3, <2>4
  <1>12. /\ t \in Seq(Chars) /\ Len(t) = b
         /\ \A i \in 1 .. b : t[i] = done[E + i]
         /\ \A p \in 1 .. E : source'[p] = done[p]
         /\ \A i \in 1 .. b : source'[E + i] = clear_color(t)[i]
    <2>1. ASSUME NEW i \in 1 .. b
          PROVE  /\ E + i \in line_start .. line_start + Break - 1
                 /\ (E + i) - line_start + 1 = i /\ line_start + i - 1 = E + i
      <3>1. line_start + Break - 1 = E + b /\ b \in Nat /\ i \in Nat /\ 1 <= i /\ i <= b
        BY <1>11
      <3>2. E \in Nat /\ line_start = E + 1
        BY <1>11
      <3> HIDE DEF E
      <3>3. E + i \in E + 1 .. E + b /\ (E + i) - (E + 1) + 1 = i /\ (E + 1) + i - 1 = E + i
        BY <3>1, <3>2
      <3> QED BY <3>1, <3>2, <3>3
    <2>2. ASSUME NEW i \in 1 .. b PROVE t[i] = done[E + i]
      <3>1. t[i] = done[line_start + i - 1]
        BY <1>6 DEF b
      <3> QED BY <2>1, <3>1
    <2>3. ASSUME NEW i \in 1 .. b PROVE source'[E + i] = clear_color(t)[i]
      <3>1. source'[E + i] = clear_color(t)[(E + i) - line_start + 1]
        BY <1>6, <2>1
      <3> QED BY <2>1, <3>1
    <2> HIDE DEF E
    <2> QED BY <1>6, <2>2, <2>3 DEF b, E
  <1>13. \A p \in at + 1 .. Len(file) : source'[p] = file[p]
    <2> SUFFICES ASSUME NEW p \in at + 1 .. Len(file) PROVE source'[p] = file[p]
      OBVIOUS
    <2>1. p \in line_start + Break .. current /\ p \in line_start .. Len(file)
      BY <1>3, <1>11
    <2> QED BY <1>3, <1>6, <2>1
  <1>14. /\ \A p \in E + 1 .. at : source[p] = file[p] /\ p \in 1 .. Len(file)
         /\ \A p \in E + 1 .. at - 1 : p \notin Breaks
         /\ at \in Breaks /\ at \in 1 .. Len(file) /\ file[at] = LineBreak
    <2>1. ASSUME NEW p \in E + 1 .. at PROVE source[p] = file[p] /\ p \in 1 .. Len(file)
      <3>1. p \in line_start .. Len(file) /\ p \in 1 .. Len(file)
        BY <1>7, <1>11
      <3> QED BY <1>3, <3>1
    <2>2. ASSUME NEW p \in E + 1 .. at - 1 PROVE p \notin Breaks
      <3>1. p \in E + 1 .. at /\ p \in line_start .. line_start + Break - 2
        BY <1>11
      <3>2. file[p] # LineBreak
        BY <1>10, <2>1, <3>1
      <3> QED BY <3>2 DEF Breaks
    <2>3. at \in E + 1 .. at /\ line_start + Break - 1 = at
      BY <1>11
    <2>4. file[at] = LineBreak /\ at \in 1 .. Len(file)
      BY <1>10, <2>1, <2>3
    <2>5. at \in Breaks
      <3> HIDE DEF at
      <3> QED BY <1>3, <2>4, EndsIn
    <2> QED BY <2>1, <2>2, <2>4, <2>5
  <1>15. /\ file_type = "WINDOWS" =>
              /\ done[at] = NUL /\ done[at - 1] = LF /\ at > 1
              /\ \A p \in 1 .. at - 2 : done[p] = source[p]
         /\ file_type # "WINDOWS" =>
              /\ done[at] = LF
              /\ \A p \in 1 .. at - 1 : done[p] = source[p]
    <2>1. TypeInv /\ b \in Nat \ {0} /\ line_start + b <= current + 1 /\ Break = b
      BY <1>2, <1>6 DEF b
    <2>2. file_type = "WINDOWS" => line_start + b > 2
      BY <1>8, <2>1
    <2>3. line_start + b - 1 = at /\ done = Broken(b)
      BY <1>11, <2>1 DEF done
    <2>4. file_type = "WINDOWS" => at > 1
      BY <1>11, <2>1, <2>2
    <2>5. ASSUME file_type = "WINDOWS"
          PROVE  /\ done[at] = NUL /\ done[at - 1] = LF
                 /\ \A p \in 1 .. at - 2 : done[p] = source[p]
      <3> HIDE DEF at
      <3>1. /\ Broken(b)[line_start + b - 1] = NUL
            /\ Broken(b)[(line_start + b - 1) - 1] = LF
            /\ \A p \in 1 .. (line_start + b - 1) - 2 : Broken(b)[p] = source[p]
        BY <2>1, <2>2, <2>5, BrokenIs
      <3> QED BY <2>3, <3>1
    <2>6. ASSUME file_type # "WINDOWS"
          PROVE  /\ done[at] = LF
                 /\ \A p \in 1 .. at - 1 : done[p] = source[p]
      <3> HIDE DEF at
      <3>1. /\ Broken(b)[line_start + b - 1] = LF
            /\ \A p \in 1 .. (line_start + b - 1) - 1 : Broken(b)[p] = source[p]
        BY <2>1, <2>2, <2>6, BrokenIs
      <3> QED BY <2>3, <3>1
    <2> HIDE DEF at
    <2> QED BY <2>4, <2>5, <2>6
  <1> HIDE DEF E
  <1>16. ASSUME Uniform, ColoursClosed
         PROVE  /\ \E o : Origins(o, source', at)
                /\ \A p \in 1 .. at : source'[p] = NUL => BehindLine(source', p)
                /\ file_type = "WINDOWS" => source'[at] = NUL
    <2>1. PICK o : Origins(o, source, E)
      BY <1>1, <1>2, <1>16 DEF SplitText, E
    <2>2. /\ \A p \in 1 .. E : source[p] = NUL => BehindLine(source, p)
          /\ file_type = "WINDOWS" /\ E > 0 => source[E] = NUL
      BY <1>1, <1>2, <1>11, <1>16 DEF SplitText, E
    <2>3. file_type = "WINDOWS" => LineBreak = LF /\ file[at - 1] \in {CR, LF}
      <3>1. file_type = "WINDOWS" => LineBreak = LF
        BY DEF LineBreak
      <3>2. at \in DOMAIN file
        BY <1>14 DEF Breaks
      <3> HIDE DEF at
      <3> QED BY <1>14, <1>16, <3>1, <3>2 DEF Uniform
    <2>4. CASE file_type = "WINDOWS" /\ b = 1 /\ file[at - 1] = LF
      <3>1. E = at - 1 /\ E > 0 /\ 1 \in 1 .. b
        BY <1>11, <1>15, <2>4
      <3>2. source[at - 1] = NUL
        BY <2>2, <2>4, <3>1
      <3>3. \A p \in 1 .. at - 2 : source'[p] = source[p]
        <4> SUFFICES ASSUME NEW p \in 1 .. at - 2 PROVE source'[p] = source[p]
          OBVIOUS
        <4>1. p \in 1 .. E
          BY <1>11, <3>1
        <4> HIDE DEF at
        <4> QED BY <1>12, <1>15, <2>4, <4>1
      <3>4. source'[at - 1] = LF
        <4>1. E \in 1 .. E
          BY <1>11, <3>1
        <4>2. source'[E] = done[E] /\ done[at - 1] = LF
          BY <1>12, <1>15, <2>4, <4>1
        <4> QED BY <3>1, <4>2
      <3>5. source'[at] = NUL
        <4>1. source'[E + 1] = clear_color(t)[1] /\ t[1] = done[E + 1]
          BY <1>12, <3>1
        <4>2. clear_color(t)[1] = NUL \/ \E i \in 1 .. Len(t) : clear_color(t)[1] = t[i]
          BY <1>12, <3>1, ClearedFrom
        <4>3. \A i \in 1 .. Len(t) : i = 1
          BY <1>12, <2>4
        <4>4. at = E + 1
          BY <2>4
        <4>5. done[at] = NUL
          BY <1>15, <2>4
        <4> HIDE DEF at
        <4> QED BY <4>1, <4>2, <4>3, <4>4, <4>5
      <3>6. at \in Breaks /\ at > 1
        BY <1>14, <1>15, <2>4
      <3>7. Origins(o, source, at - 1) /\ \A p \in 1 .. at - 1 : source[p] = NUL => BehindLine(source, p)
        BY <2>1, <2>2, <3>1
      <3> HIDE DEF at
      <3>8. /\ \E x : Origins(x, source', at)
            /\ \A p \in 1 .. at : source'[p] = NUL => BehindLine(source', p)
        BY <1>3, <1>16, <2>4, <3>2, <3>3, <3>4, <3>5, <3>6, <3>7, BareLine
      <3> QED BY <3>5, <3>8
    <2>5. CASE ~(file_type = "WINDOWS" /\ b = 1 /\ file[at - 1] = LF)
      <3> DEFINE z == IF file_type = "WINDOWS" THEN b - 1 ELSE b
      <3>1. file_type = "WINDOWS" => b > 1 /\ file[at - 1] = CR
        <4> SUFFICES ASSUME file_type = "WINDOWS" PROVE b > 1 /\ file[at - 1] = CR
          OBVIOUS
        <4>1. CASE b = 1
          <5>1. E = at - 1 /\ E > 0
            BY <1>11, <1>15, <4>1
          <5>2. E \in Breaks
            BY <1>11, <5>1
          <5>3. file[E] = LF
            BY <2>3, <5>2 DEF Breaks
          <5> QED BY <2>5, <4>1, <5>1, <5>3
        <4>2. CASE b # 1
          <5>1. at - 1 \in E + 1 .. at - 1 /\ at - 1 \in E + 1 .. at /\ b > 1
            BY <1>11, <4>2
          <5>2. at - 1 \notin Breaks /\ at - 1 \in 1 .. Len(file)
            BY <1>14, <5>1
          <5>3. file[at - 1] # LF
            <6> HIDE DEF at
            <6> QED BY <1>3, <2>3, <5>2, EndsIn
          <5> QED BY <2>3, <5>1, <5>3
        <4> QED BY <4>1, <4>2
      <3>2. z \in 1 .. b /\ z \in Nat
        BY <1>11, <3>1
      <3>3. ASSUME NEW p \in 1 .. at, p < E + z PROVE done[p] = source[p]
        <4>1. CASE file_type = "WINDOWS"
          <5>1. p \in 1 .. at - 2
            BY <1>11, <3>1, <3>3, <4>1
          <5> QED BY <1>15, <4>1, <5>1
        <4>2. CASE file_type # "WINDOWS"
          <5>1. p \in 1 .. at - 1
            BY <1>11, <3>3, <4>2
          <5> QED BY <1>15, <4>2, <5>1
        <4> QED BY <4>1, <4>2
      <3>4. \A p \in 1 .. E : source'[p] = source[p]
        <4> SUFFICES ASSUME NEW p \in 1 .. E PROVE source'[p] = source[p]
          OBVIOUS
        <4>1. p \in 1 .. at /\ p < E + z
          BY <1>11, <3>2
        <4> HIDE DEF at, z
        <4> QED BY <1>12, <3>3, <4>1
      <3>5. \A i \in 1 .. z - 1 : t[i] = file[E + i] /\ E + i \notin Breaks
        <4> SUFFICES ASSUME NEW i \in 1 .. z - 1 PROVE t[i] = file[E + i] /\ E + i \notin Breaks
          OBVIOUS
        <4> HIDE DEF z
        <4>1. /\ i \in 1 .. b /\ E + i \in 1 .. at /\ E + i < E + z
              /\ E + i \in E + 1 .. at /\ E + i \in E + 1 .. at - 1
          BY <1>11, <3>2
        <4> HIDE DEF at
        <4>2. t[i] = done[E + i] /\ done[E + i] = source[E + i]
          BY <1>12, <3>3, <4>1
        <4> QED BY <1>14, <4>1, <4>2
      <3>6. t[z] = LF
        <4>1. z \in 1 .. b /\ E + z = IF file_type = "WINDOWS" THEN at - 1 ELSE at
          BY <1>11, <3>2
        <4>2. done[E + z] = LF
          <5> HIDE DEF at, z
          <5> QED BY <1>15, <4>1
        <4> HIDE DEF z
        <4> QED BY <1>12, <4>1, <4>2
      <3>7. \A i \in z + 1 .. b : t[i] = NUL
        <4> SUFFICES ASSUME NEW i \in z + 1 .. b PROVE t[i] = NUL
          OBVIOUS
        <4>1. file_type = "WINDOWS" /\ i = b /\ b \in 1 .. b
          BY <1>11
        <4>2. t[b] = done[at]
          BY <1>12, <4>1
        <4> QED BY <1>15, <4>1, <4>2
      <3>8. IF file_type = "WINDOWS" THEN b = z + 1 /\ file[E + z] = CR ELSE b = z
        <4>1. CASE file_type = "WINDOWS"
          <5>1. b = z + 1 /\ E + z = at - 1
            BY <1>11, <4>1
          <5> HIDE DEF z
          <5> QED BY <3>1, <4>1, <5>1
        <4>2. CASE file_type # "WINDOWS"
          BY <4>2
        <4> QED BY <4>1, <4>2
      <3>9. /\ E \in Nat /\ (E = 0 \/ E \in Ends) /\ E + b <= Len(file)
            /\ z \in 1 .. b + 1 /\ z # b + 1 /\ z <= b
        BY <1>3, <1>11, <3>2, EndsIn
      <3>10. E + b \in Breaks
        BY <1>14
      <3> HIDE DEF z
      <3>11. Region(E, t, b, z, o, source, source')
        BY <1>12, <2>1, <2>2, <3>4, <3>5, <3>6, <3>7, <3>8, <3>9, <3>10 DEF Region
      <3>12. /\ \E x : Origins(x, source', E + b)
             /\ \A p \in 1 .. E + b : source'[p] = NUL =>
                  BehindLine(source', p) \/ (z = b + 1 /\ \A r \in p .. E + b : source'[r] = NUL)
             /\ z <= b /\ file_type = "WINDOWS" => source'[E + b] = NUL
        BY <1>3, <1>16, <3>11, ClearedOrigins
      <3> QED BY <3>9, <3>12
    <2> QED BY <2>4, <2>5
  <1>17. SplitText'
    <2>1. line_start' - 1 = at /\ line_start' = at + 1 /\ at # 0 /\ at \in Nat
      BY <1>1, <1>11
    <2>2. Len(source')  = Len(file')
      BY <1>1, <1>3, <1>6 DEF current
    <2>3. \A p \in line_start' .. Len(file') : source'[p] = file'[p]
      BY <1>1, <1>13, <2>1
    <2>4. line_start' = 1 \/ line_start' - 1 \in Breaks'
      BY <1>5, <1>14, <2>1
    <2>5. ASSUME (Uniform /\ ColoursClosed)'
          PROVE  /\ (\E o : Origins(o, source, line_start - 1))'
                 /\ \A p \in 1 .. line_start' - 1 : source'[p] = NUL => BehindLine(source', p)
                 /\ file_type' = "WINDOWS" => source'[line_start' - 1] = NUL
      <3>1. /\ \E o : Origins(o, source', at)
            /\ \A p \in 1 .. at : source'[p] = NUL => BehindLine(source', p)
            /\ file_type = "WINDOWS" => source'[at] = NUL
        BY <1>5, <1>16, <2>5
      <3>2. PICK o : Origins(o, source', at)
        BY <3>1
      <3>3. Origins(o, source, line_start - 1)'
        <4> HIDE DEF at
        <4> QED BY <1>1, <1>5, <2>1, <3>2 DEF Origins
      <3> HIDE DEF at
      <3> QED BY <1>1, <2>1, <3>1, <3>3
    <2> QED BY <1>5, <2>2, <2>3, <2>4, <2>5 DEF SplitText
  <1> QED BY <1>4, <1>17

\* What SplitEnd leaves of the source.
LEMMA EndPlaces ==
    ASSUME Inv, phase = "split",
           source' = SubSeq(source, 1, line_start - 1) \o clear_color(Rest)
    PROVE  /\ Rest \in Seq(Chars) /\ Len(Rest) = current - line_start + 1
           /\ \A p \in 1 .. current - line_start + 1 : Rest[p] = source[line_start + p - 1]
           /\ Len(source') = current
           /\ \A p \in 1 .. line_start - 1 : source'[p] = source[p]
           /\ \A p \in 1 .. current - line_start + 1 :
                source'[line_start - 1 + p] = clear_color(Rest)[p]
  <1> DEFINE x == SubSeq(source, 1, line_start - 1)
             u == clear_color(Rest)
             n == current - line_start + 1
             E == line_start - 1
  <1>1. /\ source \in Seq(Chars) /\ current \in Nat /\ line_start \in Nat \ {0}
        /\ line_start <= current + 1 /\ current = Len(source)
    BY DEF Inv, TypeInv, SplitInv, current
  <1>2. n \in Nat /\ E \in Nat /\ E + n = current
    BY <1>1
  <1>3. /\ Rest \in Seq(Chars) /\ Len(Rest) = n
        /\ \A p \in 1 .. n : Rest[p] = source[line_start + p - 1]
    BY <1>1, Sub DEF Rest
  <1>4. x \in Seq(Chars) /\ Len(x) = E /\ \A p \in 1 .. E : x[p] = source[p]
    <2>1. /\ x \in Seq(Chars) /\ Len(x) = (line_start - 1) - 1 + 1
          /\ \A p \in 1 .. (line_start - 1) - 1 + 1 : x[p] = source[1 + p - 1]
      BY <1>1, Sub
    <2> QED BY <1>1, <2>1
  <1>5. u \in Seq(Chars) /\ Len(u) = n
    BY <1>3, Cleared
  <1>6. source' = x \o u
    OBVIOUS
  <1> HIDE DEF x, u, n, E
  <1>7. /\ Len(x \o u) = Len(x) + Len(u)
        /\ \A p \in 1 .. Len(x) + Len(u) : (x \o u)[p] = IF p <= Len(x) THEN x[p] ELSE u[p - Len(x)]
    BY <1>4, <1>5, ConcatProperties
  <1>8. /\ Len(source') = E + n
        /\ \A p \in 1 .. E + n : source'[p] = IF p <= E THEN x[p] ELSE u[p - E]
    BY <1>4, <1>5, <1>6, <1>7
  <1>9. ASSUME NEW p \in 1 .. E PROVE source'[p] = source[p]
    <2>1. p \in 1 .. E + n /\ p <= E
      BY <1>2
    <2> QED BY <1>4, <1>8, <2>1
  <1>10. ASSUME NEW p \in 1 .. n PROVE source'[E + p] = u[p]
    <2>1. E + p \in 1 .. E + n /\ ~(E + p <= E) /\ (E + p) - E = p
      BY <1>2
    <2>2. source'[E + p] = u[(E + p) - E]
      BY <1>8, <2>1
    <2> QED BY <2>1, <2>2
  <1> QED BY <1>2, <1>3, <1>8, <1>9, <1>10 DEF u, n, E

\* After the last line next_line can begin.
LEMMA SplitEndText ==
    ASSUME TextInv, SplitEnd
    PROVE  SplitText' /\ ScanText' /\ DoneText'
  <1> DEFINE E == line_start - 1
             k == current - line_start + 1
  <1>1. /\ phase = "split" /\ Break = 0 /\ phase' \in {"exit", "scan"}
        /\ phase' = "scan" =>
             /\ ~LineTooLong
             /\ source' = SubSeq(source, 1, line_start - 1) \o clear_color(Rest)
        /\ file' = file /\ file_type' = file_type /\ cursor' = cursor /\ text' = text
        /\ unknown_count' = unknown_count
    BY DEF SplitEnd
  <1>2. Inv /\ TypeInv /\ SplitInv /\ SplitText /\ ScanText
    BY DEF TextInv, Inv
  <1>3. SplitText' /\ DoneText'
    BY <1>1 DEF SplitText, DoneText
  <1>4. /\ FileOK /\ Len(source) = Len(file) /\ current = Len(file)
        /\ \A p \in line_start .. Len(file) : source[p] = file[p]
        /\ line_start = 1 \/ line_start - 1 \in Breaks
        /\ cursor = 0 /\ text = <<>> /\ unknown_count = 0
    BY <1>1, <1>2 DEF SplitText, SplitInv, ScanText, current
  <1>5. /\ FileOK' /\ Breaks' = Breaks /\ Stays' = Stays /\ Ends' = Ends
        /\ (Uniform /\ ColoursClosed)' <=> Uniform /\ ColoursClosed
    BY <1>1, <1>4, SameFile
  <1>6. ASSUME phase' = "scan" PROVE ScanText'
    <2>1. /\ Rest \in Seq(Chars) /\ Len(Rest) = k
          /\ \A p \in 1 .. k : Rest[p] = source[line_start + p - 1]
          /\ Len(source') = current
          /\ \A p \in 1 .. E : source'[p] = source[p]
          /\ \A p \in 1 .. k : source'[E + p] = clear_color(Rest)[p]
      BY <1>1, <1>2, <1>6, EndPlaces
    <2>2. /\ line_start \in Nat \ {0} /\ line_start <= current + 1 /\ current \in Nat
      BY <1>1, <1>2 DEF TypeInv, SplitInv, current
    <2>3. /\ E \in Nat /\ k \in Nat /\ E + k = Len(file) /\ line_start = E + 1
      BY <1>4, <2>2
    <2>4. /\ LineBreak = IF file_type = "MACOS" THEN CR ELSE LF
          /\ \A p \in line_start .. current : source[p] # LineBreak
      <3>1. \A p \in line_start .. current : source[p] # IF file_type = "MACOS" THEN CR ELSE LF
        BY <1>1, <1>2, <1>6, <2>2, BreakIs
      <3> QED BY <3>1 DEF LineBreak
    <2> HIDE DEF E, k
    <2>5. \A i \in 1 .. k : Rest[i] = file[E + i] /\ E + i \notin Breaks
      <3> SUFFICES ASSUME NEW i \in 1 .. k PROVE Rest[i] = file[E + i] /\ E + i \notin Breaks
        OBVIOUS
      <3>1. E + i \in line_start .. Len(file) /\ line_start + i - 1 = E + i
        BY <2>3
      <3>2. Rest[i] = source[E + i] /\ source[E + i] = file[E + i]
        BY <1>4, <2>1, <3>1
      <3>3. file[E + i] # LineBreak
        BY <1>4, <2>4, <3>1, <3>2
      <3> QED BY <3>2, <3>3 DEF Breaks
    <2>6. ASSUME Uniform, ColoursClosed
          PROVE  \E x : /\ Origins(x, source', current)
                        /\ \A p \in 1 .. current : source'[p] = NUL =>
                             BehindLine(source', p) \/ \A r \in p .. current : source'[r] = NUL
                        /\ 0 < current => source'[1] # NUL
      <3>1. PICK o : Origins(o, source, E)
        BY <1>1, <1>2, <2>6 DEF SplitText, E
      <3>2. \A p \in 1 .. E : source[p] = NUL => BehindLine(source, p)
        BY <1>1, <1>2, <2>6 DEF SplitText, E
      <3>3. E = 0 \/ E \in Ends
        BY <1>4, EndsIn DEF E
      <3> DEFINE z == k + 1
      <3>4. z \in 1 .. k + 1 /\ ~(z <= k) /\ z - 1 = k
        BY <2>3
      <3>5. /\ \A i \in 1 .. z - 1 : Rest[i] = file[E + i] /\ E + i \notin Breaks
            /\ z = k + 1 => E + k = Len(file)
            /\ E + k <= Len(file)
        <4>1. E + k <= Len(file)
          BY <2>3
        <4> HIDE DEF z
        <4> QED BY <2>3, <2>5, <3>4, <4>1
      <3> HIDE DEF z
      <3>6. Region(E, Rest, k, z, o, source, source')
        BY <2>1, <2>3, <3>1, <3>2, <3>3, <3>4, <3>5 DEF Region
      <3>7. /\ \E x : Origins(x, source', E + k)
            /\ \A p \in 1 .. E + k : source'[p] = NUL =>
                 BehindLine(source', p) \/ (z = k + 1 /\ \A r \in p .. E + k : source'[r] = NUL)
        BY <1>4, <2>6, <3>6, ClearedOrigins
      <3>8. PICK x : Origins(x, source', current)
        BY <1>4, <2>3, <3>7
      <3>9. ASSUME NEW p \in 1 .. current, source'[p] = NUL
            PROVE  BehindLine(source', p) \/ \A r \in p .. current : source'[r] = NUL
        BY <1>4, <2>3, <3>7, <3>9
      <3>10. ASSUME 0 < current, source'[1] = NUL PROVE FALSE
        <4>1. 1 \in 1 .. current
          BY <2>2, <3>10
        <4>2. ~BehindLine(source', 1)
          <5>1. \A q \in 1 .. 1 - 1 : FALSE
            OBVIOUS
          <5> QED BY <5>1 DEF BehindLine
        <4>3. \A r \in 1 .. current : source'[r] = NUL
          BY <3>9, <3>10, <4>1, <4>2
        <4>4. PICK b : b \in Breaks
          BY <1>4 DEF FileOK
        <4>5. b \in 1 .. Len(file) /\ file[b] = LineBreak
          BY <1>4, <4>4, EndsIn
        <4>6. b \in Stays
          <5>1. ~Coloured(file, b)
            BY <1>4, <2>6, <4>4, BreakShown
          <5>2. ~(file_type = "WINDOWS" /\ file[b] = CR)
            BY <4>5 DEF LineBreak, CR, LF
          <5> QED BY <4>4, <5>1, <5>2 DEF Stays, Breaks
        <4>7. b <= current
          BY <1>4, <2>2, <4>5
        <4>8. \E p \in 1 .. current : source'[p] # NUL
          BY <3>8, <4>6, <4>7 DEF Origins
        <4> QED BY <4>3, <4>8
      <3> QED BY <3>8, <3>9, <3>10
    <2>7. current' = current
      BY <2>1 DEF current
    <2>8. ASSUME Uniform, ColoursClosed PROVE \E o, e : ScanAt(o, e)'
      <3>1. PICK o : /\ Origins(o, source', current)
                     /\ \A p \in 1 .. current : source'[p] = NUL =>
                          BehindLine(source', p) \/ \A r \in p .. current : source'[r] = NUL
                     /\ 0 < current => source'[1] # NUL
        BY <2>6, <2>8
      <3>2. Origins(o, source, current)'
        BY <1>1, <1>5, <2>7, <3>1 DEF Origins
      <3>3. AsWritten(0)'
        <4>1. {x \in Ends : x <= 0} = {}
          <5>1. \A x \in Ends : x \in 1 .. Len(file)
            BY <1>4, EndsIn
          <5>2. \A x \in Ends : ~(x <= 0)
            BY <2>2, <1>4, <5>1
          <5> QED BY <5>2
        <4>2. Cardinality({x \in Ends : x <= 0}) = 0
          BY <4>1, FS_EmptySet
        <4>3. text' = <<>> /\ Len(<<>>) = 0 /\ \A n \in 1 .. 0 : FALSE
          BY <1>1, <1>4
        <4> QED BY <1>5, <4>2, <4>3 DEF AsWritten
      <3>4. \A p \in 1 .. current' : source'[p] # NUL => (p <= cursor' <=> o[p] <= 0)
        <4> SUFFICES ASSUME NEW p \in 1 .. current, source'[p] # NUL
                     PROVE  ~(p <= 0) /\ ~(o[p] <= 0)
          BY <1>1, <1>4, <2>7
        <4>1. o[p] \in Stays
          BY <3>1 DEF Origins
        <4>2. o[p] \in 1 .. Len(file)
          BY <1>4, <4>1, EndsIn DEF Stays
        <4> QED BY <2>2, <1>4, <4>2
      <3>5. cursor' < current' => source'[cursor' + 1] # NUL
        BY <1>1, <1>4, <2>7, <3>1
      <3>6. 0 \in 0 .. Len(file')
        BY <1>1, <1>4, <2>2
      <3>7. \A p \in 1 .. current' : source'[p] = NUL =>
              BehindLine(source', p) \/ \A r \in p .. current' : source'[r] = NUL
        BY <2>7, <3>1
      <3>8. ScanAt(o, 0)'
        BY <3>2, <3>3, <3>4, <3>5, <3>6, <3>7 DEF ScanAt
      <3> QED BY <3>8
    <2>9. Len(source') = Len(file') /\ unknown_count' = 0
      BY <1>1, <1>4, <2>1
    <2>10. (Uniform /\ ColoursClosed)' => (\E o, e : ScanAt(o, e))'
      BY <1>5, <2>8
    <2> QED BY <1>5, <1>6, <2>9, <2>10 DEF ScanText
  <1>7. ScanText'
    BY <1>1, <1>6 DEF ScanText
  <1> QED BY <1>3, <1>7

-----------------------------------------------------------------------------
(***************************************************************************)
(* next_line and scan_token.                                               *)
(***************************************************************************)
\* The line of next_line, up to the line feed at c or the end, and what it
\* skips behind it.
LEMMA NextLinePlaces ==
    ASSUME TypeInv, cursor < current
    PROVE  LET line == next_line.line
               n    == next_line.cursor
           IN  /\ line \in Seq(Chars)
               /\ \A i \in 1 .. Len(line) : line[i] = source[cursor + i] /\ line[i] # LF
               /\ \/ /\ cursor + Len(line) = current /\ n = current
                  \/ /\ cursor + Len(line) + 1 <= n /\ n <= current
                     /\ source[cursor + Len(line) + 1] = LF
                     /\ \A p \in cursor + Len(line) + 2 .. n : source[p] = NUL
  <1> DEFINE rest == SubSeq(source, cursor + 1, current)
             brk == memchr(rest, LF)
             after == SubSeq(rest, brk + 1, Len(rest))
             S == {p \in DOMAIN after : after[p] # NUL}
             char == First(S)
             n == next_line.cursor
             line == next_line.line
  <1>1. /\ n = IF brk = 0 THEN current ELSE IF char = 0 THEN current ELSE cursor + brk + char - 1
        /\ line = IF brk = 0 THEN rest ELSE SubSeq(rest, 1, brk - 1)
    BY DEF next_line
  <1>2. source \in Seq(Chars) /\ current \in Nat /\ current = Len(source) /\ cursor \in Nat
    BY DEF TypeInv, current
  <1>3. /\ rest \in Seq(Chars) /\ Len(rest) = current - cursor
        /\ \A p \in 1 .. current - cursor : rest[p] = source[cursor + p]
    <2>1. /\ rest \in Seq(Chars) /\ Len(rest) = current - (cursor + 1) + 1
          /\ \A p \in 1 .. current - (cursor + 1) + 1 : rest[p] = source[(cursor + 1) + p - 1]
      BY <1>2, Sub
    <2>2. current - (cursor + 1) + 1 = current - cursor
      BY <1>2
    <2>3. ASSUME NEW p \in 1 .. current - cursor PROVE (cursor + 1) + p - 1 = cursor + p
      BY <1>2
    <2> HIDE DEF rest
    <2> QED BY <2>1, <2>2, <2>3
  <1>4. /\ brk \in 0 .. Len(rest)
        /\ brk = 0 => \A p \in 1 .. Len(rest) : rest[p] # LF
        /\ brk # 0 => rest[brk] = LF /\ \A p \in 1 .. brk - 1 : rest[p] # LF
    BY <1>3, Memchr
  <1> HIDE DEF rest, brk, n, line
  <1>5. CASE brk = 0
    <2>1. line = rest /\ n = current
      BY <1>1, <1>5
    <2>2. cursor + Len(line) = current
      <3>1. Len(line) = current - cursor
        BY <1>3, <2>1
      <3>2. cursor + (current - cursor) = current
        BY <1>2
      <3> QED BY <3>1, <3>2
    <2>3. \A i \in 1 .. Len(line) : line[i] = source[cursor + i] /\ line[i] # LF
      BY <1>3, <1>4, <1>5, <2>1
    <2> QED BY <1>3, <2>1, <2>2, <2>3 DEF n, line
  <1>6. CASE brk # 0
    <2>1. brk \in Nat \ {0} /\ cursor + brk <= current /\ brk <= Len(rest) /\ Len(rest) \in Nat
      BY <1>2, <1>3, <1>4, <1>6
    <2>2. /\ line \in Seq(Chars) /\ Len(line) = brk - 1
          /\ \A i \in 1 .. brk - 1 : line[i] = rest[i]
      <3>1. /\ SubSeq(rest, 1, brk - 1) \in Seq(Chars) /\ Len(SubSeq(rest, 1, brk - 1)) = (brk - 1) - 1 + 1
            /\ \A p \in 1 .. (brk - 1) - 1 + 1 : SubSeq(rest, 1, brk - 1)[p] = rest[1 + p - 1]
        BY <1>3, <2>1, Sub
      <3> QED BY <1>1, <1>6, <2>1, <3>1
    <2>3. ASSUME NEW i \in 1 .. Len(line) PROVE line[i] = source[cursor + i] /\ line[i] # LF
      <3>1. i \in 1 .. brk - 1 /\ i \in 1 .. current - cursor
        BY <1>2, <1>3, <2>1, <2>2
      <3> QED BY <1>3, <1>4, <1>6, <2>2, <3>1
    <2>4. source[cursor + Len(line) + 1] = LF
      <3>1. brk \in 1 .. current - cursor /\ cursor + Len(line) + 1 = cursor + brk
        BY <1>2, <1>3, <2>1, <2>2
      <3> QED BY <1>3, <1>4, <1>6, <3>1
    <2>5. /\ after \in Seq(Chars) /\ Len(after) = Len(rest) - brk
          /\ \A p \in 1 .. Len(rest) - brk : after[p] = source[cursor + brk + p]
      <3>1. /\ after \in Seq(Chars) /\ Len(after) = Len(rest) - (brk + 1) + 1
            /\ \A p \in 1 .. Len(rest) - (brk + 1) + 1 : after[p] = rest[(brk + 1) + p - 1]
        BY <1>3, <2>1, Sub
      <3>2. ASSUME NEW p \in 1 .. Len(rest) - brk
            PROVE  /\ (brk + 1) + p - 1 = brk + p /\ brk + p \in 1 .. current - cursor
                   /\ cursor + (brk + p) = cursor + brk + p
        BY <1>2, <1>3, <2>1
      <3>3. Len(rest) - (brk + 1) + 1 = Len(rest) - brk
        BY <2>1
      <3> HIDE DEF after
      <3>4. ASSUME NEW p \in 1 .. Len(rest) - brk PROVE after[p] = source[cursor + brk + p]
        <4>1. after[p] = rest[brk + p]
          BY <3>1, <3>2, <3>3
        <4> QED BY <1>3, <3>2, <4>1
      <3> QED BY <3>1, <3>3, <3>4
    <2>6. S = {p \in 1 .. Len(rest) - brk : source[cursor + brk + p] # NUL}
      <3> HIDE DEF after
      <3>1. DOMAIN after = 1 .. Len(rest) - brk
        BY <2>5
      <3> QED BY <2>5, <3>1
    <2> HIDE DEF S
    <2>7. /\ char \in Nat
          /\ char = 0 <=> S = {}
          /\ char # 0 => char \in S /\ \A x \in S : char <= x
      <3>1. S \subseteq Nat \ {0}
        BY <2>1, <2>6
      <3> QED BY <3>1, FirstIs
    <2> HIDE DEF char
    <2>8. /\ cursor + Len(line) + 1 <= n /\ n <= current /\ n \in Nat
          /\ \A p \in cursor + brk + 1 .. n : p - (cursor + brk) \notin S
      <3>1. CASE char = 0
        BY <1>1, <1>2, <1>6, <2>1, <2>2, <2>7, <3>1
      <3>2. CASE char # 0
        <4>1. n = cursor + brk + char - 1 /\ char >= 1 /\ char <= Len(rest) - brk
          BY <1>1, <1>6, <2>6, <2>7, <3>2
        <4>2. cursor + Len(line) + 1 <= n /\ n <= current /\ n \in Nat
          BY <1>2, <1>3, <2>1, <2>2, <2>7, <4>1
        <4>3. ASSUME NEW p \in cursor + brk + 1 .. n, p - (cursor + brk) \in S PROVE FALSE
          <5>1. char <= p - (cursor + brk)
            BY <2>7, <3>2, <4>3
          <5> QED BY <1>2, <2>1, <2>7, <4>1, <4>2, <5>1
        <4> QED BY <4>2, <4>3
      <3> QED BY <3>1, <3>2
    <2>9. ASSUME NEW p \in cursor + Len(line) + 2 .. n PROVE source[p] = NUL
      <3> DEFINE q == p - (cursor + brk)
      <3>1. p \in cursor + brk + 1 .. n /\ q \in 1 .. Len(rest) - brk /\ cursor + brk + q = p
        BY <1>2, <1>3, <2>1, <2>2, <2>8
      <3> HIDE DEF q
      <3>2. q \notin S
        BY <2>8, <3>1 DEF q
      <3>3. source[cursor + brk + q] = NUL
        BY <2>6, <3>1, <3>2
      <3> QED BY <3>1, <3>3
    <2>10. \A i \in 1 .. Len(line) : line[i] = source[cursor + i] /\ line[i] # LF
      BY <2>3
    <2> QED BY <2>2, <2>4, <2>8, <2>9, <2>10 DEF n, line
  <1> QED BY <1>5, <1>6

\* The characters of a line are those of the file from E on that are to stay, up
\* to last.
LineOf(line, o, E, last) ==
    /\ line \in Seq(Chars)
    /\ \A i \in 1 .. Len(line) : line[i] # NUL =>
         /\ o[cursor + i] \in Stays /\ E < o[cursor + i] /\ o[cursor + i] <= last
         /\ line[i] = file[o[cursor + i]]
    /\ \A i \in 1 .. Len(line), k \in 1 .. Len(line) :
         line[i] # NUL /\ line[k] # NUL /\ i < k => o[cursor + i] < o[cursor + k]
    /\ \A v \in Stays : E < v /\ v <= last =>
         \E i \in 1 .. Len(line) : line[i] # NUL /\ o[cursor + i] = v

\* What scan_token looks at.
Looked(line) ==
    LET hash == memchr(line, Hash)
    IN  {p \in DOMAIN line : line[p] # CR /\ (hash = 0 \/ p < hash)}

\* What the scanner gets of such a line is what the file says there, and it
\* contains no ESC.
LEMMA LineScanned ==
    ASSUME FileOK, ColoursClosed, NEW end \in Ends, NEW E, Previous(E, end),
           NEW line, NEW o,
           LineOf(line, o, E, IF file[end] = LineBreak THEN end - 1 ELSE end),
           \A i \in Looked(line) : line[i] # NUL
    PROVE  /\ Statement(LineAt(end)) =
                IF Contains(Scanned(line), Bad) THEN ErrorLine ELSE Scanned(line)
           /\ \A i \in Looked(line) : line[i] # ESC
  <1> DEFINE last == IF file[end] = LineBreak THEN end - 1 ELSE end
             L == LineAt(end)
             hash == memchr(line, Hash)
             A == Looked(line)
             H == {p \in DOMAIN L : L[p] = Hash /\ ~Coloured(L, p)}
             B == {p \in DOMAIN L : /\ ~Coloured(L, p) /\ L[p] # CR
                                    /\ \A h \in H : p < h}
  <1>1. /\ line \in Seq(Chars)
        /\ \A i \in 1 .. Len(line) : line[i] # NUL =>
             /\ o[cursor + i] \in Stays /\ E < o[cursor + i] /\ o[cursor + i] <= last
             /\ line[i] = file[o[cursor + i]]
        /\ \A i \in 1 .. Len(line), k \in 1 .. Len(line) :
             line[i] # NUL /\ line[k] # NUL /\ i < k => o[cursor + i] < o[cursor + k]
        /\ \A v \in Stays : E < v /\ v <= last =>
             \E i \in 1 .. Len(line) : line[i] # NUL /\ o[cursor + i] = v
    BY DEF LineOf
  <1>2. /\ L \in Seq(Chars) /\ Len(L) = last - E /\ last - E \in Nat
        /\ DOMAIN L = 1 .. last - E
        /\ \A j \in 1 .. last - E : L[j] = file[E + j]
    BY LineAtIs
  <1>3. /\ hash \in 0 .. Len(line)
        /\ hash = 0 => \A p \in 1 .. Len(line) : line[p] # Hash
        /\ hash # 0 => line[hash] = Hash /\ \A p \in 1 .. hash - 1 : line[p] # Hash
    BY <1>1, Memchr
  <1>4. /\ A = {p \in 1 .. Len(line) : line[p] # CR /\ (hash = 0 \/ p < hash)}
        /\ Len(line) \in Nat
    BY <1>1 DEF Looked
  <1>5. Scanned(line) = Pick(line, A)
    BY DEF Scanned, Looked
  <1>6. Statement(L) = IF Contains(Pick(L, B), Bad) THEN ErrorLine ELSE Pick(L, B)
    BY DEF Statement
  <1>7. /\ E \in Nat /\ (E = 0 \/ E \in Ends) /\ end \in 1 .. Len(file) /\ Len(file) \in Nat
        /\ DOMAIN file = 1 .. Len(file)
        /\ last \in Nat /\ last <= Len(file)
    <2>1. E \in Nat /\ (E = 0 \/ E \in Ends)
      BY DEF Previous
    <2>2. end \in 1 .. Len(file) /\ Len(file) \in Nat /\ DOMAIN file = 1 .. Len(file)
      BY EndsIn
    <2> QED BY <2>1, <2>2
  <1> HIDE DEF last, L, hash, A, H, B
  <1>8. ASSUME NEW j \in 1 .. last - E
        PROVE  /\ Coloured(L, j) <=> Coloured(file, E + j)
               /\ E + j \in 1 .. Len(file) /\ L[j] = file[E + j]
    <2> DEFINE n == last - E
    <2>1. n \in Nat /\ j \in 1 .. n + 1 /\ j # n + 1 /\ \A i \in 1 .. n : L[i] = file[E + i]
      BY <1>2
    <2>2. E + j \in 1 .. Len(file)
      BY <1>2, <1>7
    <2> HIDE DEF n
    <2>3. Coloured(L, j) <=> Coloured(file, E + j)
      BY <1>7, <2>1, ColouredPart
    <2> QED BY <1>2, <2>2, <2>3
  <1>9. ASSUME NEW i \in 1 .. Len(line), line[i] # NUL
        PROVE  /\ o[cursor + i] \in Nat
               /\ o[cursor + i] - E \in 1 .. last - E
               /\ E + (o[cursor + i] - E) = o[cursor + i]
               /\ L[o[cursor + i] - E] = line[i] /\ ~Coloured(L, o[cursor + i] - E)
               /\ line[i] # ESC
    <2> DEFINE v == o[cursor + i]
    <2>1. v \in Stays /\ E < v /\ v <= last /\ line[i] = file[v]
      BY <1>1, <1>9
    <2> HIDE DEF v
    <2>2. v \in 1 .. Len(file) /\ ~Coloured(file, v)
      BY <1>7, <2>1 DEF Stays
    <2>3. v - E \in 1 .. last - E /\ E + (v - E) = v /\ v \in Nat
      BY <1>7, <2>1, <2>2
    <2>4. L[v - E] = line[i] /\ ~Coloured(L, v - E)
      BY <1>8, <2>1, <2>2, <2>3
    <2>5. file[v] # ESC
      <3>1. v \in Nat \ {0}
        BY <2>2
      <3> QED BY <2>2, <3>1, OpenSteps
    <2> QED BY <2>1, <2>3, <2>4, <2>5 DEF v
  <1>10. ASSUME NEW j \in 1 .. last - E, ~Coloured(L, j), L[j] # CR
         PROVE  \E i \in 1 .. Len(line) : line[i] # NUL /\ o[cursor + i] = E + j
    <2>1. E + j \in Stays
      BY <1>7, <1>8, <1>10 DEF Stays
    <2>2. E < E + j /\ E + j <= last
      BY <1>2, <1>7
    <2> QED BY <1>1, <2>1, <2>2
  <1> DEFINE m == [i \in A |-> o[cursor + i] - E]
  <1>11. ASSUME NEW i \in A
         PROVE  i \in 1 .. Len(line) /\ line[i] # NUL /\ line[i] # CR /\ (hash = 0 \/ i < hash)
    BY <1>4 DEF A
  <1>12. ASSUME NEW i \in A PROVE o[cursor + i] - E \in B
    <2> DEFINE j == o[cursor + i] - E
    <2>1. /\ j \in 1 .. last - E /\ E + j = o[cursor + i]
          /\ L[j] = line[i] /\ ~Coloured(L, j)
      BY <1>9, <1>11
    <2> HIDE DEF j
    <2>2. L[j] # CR
      BY <1>11, <2>1
    <2>3. ASSUME NEW h \in H PROVE j < h
      <3>1. h \in 1 .. last - E /\ L[h] = Hash /\ ~Coloured(L, h)
        BY <1>2 DEF H
      <3>2. L[h] # CR
        BY <3>1 DEF Hash, CR
      <3>3. PICK k \in 1 .. Len(line) : line[k] # NUL /\ o[cursor + k] = E + h
        BY <1>10, <3>1, <3>2
      <3>4. line[k] = Hash
        <4>1. line[k] = file[E + h]
          BY <1>1, <3>3
        <4> QED BY <1>8, <3>1, <4>1
      <3>5. hash # 0 /\ hash <= k
        <4>1. hash # 0
          BY <1>3, <3>4
        <4>2. k \notin 1 .. hash - 1
          BY <1>3, <3>4, <4>1
        <4> QED BY <1>3, <1>4, <4>1, <4>2
      <3>6. i < k
        BY <1>3, <1>4, <1>11, <3>5
      <3>7. o[cursor + i] < o[cursor + k]
        BY <1>1, <1>11, <3>3, <3>6
      <3>8. E + j < E + h
        BY <2>1, <3>3, <3>7
      <3> QED BY <1>2, <1>7, <2>1, <3>1, <3>8
    <2>4. j \in B
      BY <1>2, <2>1, <2>2, <2>3 DEF B
    <2> QED BY <2>4 DEF j
  <1>13. m \in [A -> B] /\ \A i \in A : m[i] = o[cursor + i] - E
    BY <1>12
  <1>14. ASSUME NEW p \in A, NEW q \in A, p < q PROVE m[p] < m[q]
    <2>1. o[cursor + p] < o[cursor + q]
      BY <1>1, <1>11, <1>14
    <2>2. o[cursor + p] \in Nat /\ o[cursor + q] \in Nat
      BY <1>9, <1>11
    <2>3. o[cursor + p] - E < o[cursor + q] - E
      BY <1>7, <2>1, <2>2
    <2> HIDE DEF m
    <2> QED BY <1>13, <2>3
  <1>15. ASSUME NEW j \in B PROVE \E i \in A : m[i] = j
    <2>1. j \in 1 .. last - E /\ ~Coloured(L, j) /\ L[j] # CR /\ \A h \in H : j < h
      BY <1>2 DEF B
    <2>2. PICK i \in 1 .. Len(line) : line[i] # NUL /\ o[cursor + i] = E + j
      BY <1>10, <2>1
    <2>3. line[i] = L[j]
      <3>1. line[i] = file[E + j]
        BY <1>1, <2>2
      <3> QED BY <1>8, <2>1, <3>1
    <2>4. hash = 0 \/ i < hash
      <3> SUFFICES ASSUME hash # 0, ~(i < hash) PROVE FALSE
        OBVIOUS
      <3>1. hash \in 1 .. Len(line) /\ line[hash] = Hash /\ line[hash] # NUL /\ hash <= i
        BY <1>3, <1>4 DEF Hash, NUL
      <3> DEFINE h == o[cursor + hash] - E
      <3>2. h \in 1 .. last - E /\ E + h = o[cursor + hash] /\ L[h] = line[hash] /\ ~Coloured(L, h)
        BY <1>9, <3>1
      <3> HIDE DEF h
      <3>3. h \in H
        BY <1>2, <3>1, <3>2 DEF H
      <3>4. j < h
        BY <2>1, <3>3
      <3>5. CASE hash = i
        <4>1. E + h = E + j
          BY <2>2, <3>2, <3>5
        <4> QED BY <1>2, <1>7, <2>1, <3>2, <3>4, <4>1
      <3>6. CASE hash # i
        <4>1. hash < i
          BY <1>4, <3>1, <3>6
        <4>2. o[cursor + hash] < o[cursor + i]
          BY <1>1, <2>2, <3>1, <4>1
        <4>3. E + h < E + j
          BY <2>2, <3>2, <4>2
        <4> QED BY <1>2, <1>7, <2>1, <3>2, <3>4, <4>3
      <3> QED BY <3>5, <3>6
    <2>5. i \in A
      BY <1>4, <2>1, <2>3, <2>4
    <2>6. (E + j) - E = j
      BY <1>7, <2>1, <1>2
    <2> HIDE DEF m
    <2> QED BY <1>13, <2>2, <2>5, <2>6
  <1>16. ASSUME NEW i \in A PROVE line[i] = L[m[i]]
    <2> HIDE DEF m
    <2> QED BY <1>9, <1>11, <1>13
  <1> HIDE DEF m
  <1>17. Pick(line, A) = Pick(L, B)
    <2> DEFINE N == Len(line)
               K == last - E
    <2>1. N \in Nat /\ K \in Nat /\ A \subseteq 1 .. N /\ B \subseteq 1 .. K
      BY <1>2, <1>4 DEF B
    <2>2. \A p \in A, q \in A : p < q => m[p] < m[q]
      BY <1>14
    <2>3. \A b \in B : \E p \in A : m[p] = b
      BY <1>15
    <2>4. \A p \in A : line[p] = L[m[p]]
      BY <1>16
    <2>5. m \in [A -> B]
      BY <1>13
    <2> HIDE DEF N, K
    <2>6. Matches(m, line, A, L, B)
      BY <2>1, <2>2, <2>3, <2>4, <2>5 DEF Matches
    <2> QED BY <2>6, SamePicked
  <1>18. \A i \in A : line[i] # ESC
    BY <1>9, <1>11
  <1> QED BY <1>5, <1>6, <1>17, <1>18 DEF L, A

-----------------------------------------------------------------------------
(***************************************************************************)
(* One line of the text.                                                   *)
(***************************************************************************)
\* A text with one more line is refused for that line or for an earlier one.
LEMMA Appended ==
    ASSUME NEW S, NEW t \in Seq(S), NEW x
    PROVE  /\ Append(t, x) \in Seq(S \cup {x})
           /\ Len(t) \in Nat /\ Len(Append(t, x)) = Len(t) + 1
           /\ \A i \in 1 .. Len(t) : Append(t, x)[i] = t[i]
           /\ Append(t, x)[Len(t) + 1] = x
           /\ Refused(t) => Refused(Append(t, x))
           /\ Refused(Append(t, ErrorLine))
  <1>1. ASSUME NEW y
        PROVE  /\ Append(t, y) \in Seq(S \cup {y})
               /\ Len(t) \in Nat /\ Len(Append(t, y)) = Len(t) + 1
               /\ \A i \in 1 .. Len(t) : Append(t, y)[i] = t[i]
               /\ Append(t, y)[Len(t) + 1] = y
    <2>1. t \in Seq(S \cup {y}) /\ y \in S \cup {y}
      OBVIOUS
    <2> QED BY <2>1, AppendProperties
  <1>2. Refused(t) => Refused(Append(t, x))
    <2> SUFFICES ASSUME Refused(t) PROVE Refused(Append(t, x))
      OBVIOUS
    <2>1. PICK i \in 1 .. Len(t) : t[i] = ErrorLine
      BY DEF Refused, Contains
    <2>2. i \in 1 .. Len(Append(t, x)) /\ Append(t, x)[i] = ErrorLine
      BY <1>1, <2>1
    <2> QED BY <2>2 DEF Refused, Contains
  <1>3. Refused(Append(t, ErrorLine))
    <2>1. Len(t) + 1 \in 1 .. Len(Append(t, ErrorLine))
      BY <1>1
    <2> QED BY <1>1, <2>1 DEF Refused, Contains
  <1> QED BY <1>1, <1>2, <1>3

\* What is picked is what s has at one of the positions.
LEMMA Picked ==
    ASSUME NEW s \in Seq(Chars), NEW S \in SUBSET (1 .. Len(s))
    PROVE  /\ Pick(s, S) \in Seq(Chars)
           /\ \A i \in 1 .. Len(Pick(s, S)) : \E p \in S : Pick(s, S)[i] = s[p]
           /\ \A p \in S : \E i \in 1 .. Len(Pick(s, S)) : Pick(s, S)[i] = s[p]
  <1> DEFINE k == Cardinality(S)
             r == Pick(s, S)
  <1>0. Len(s) \in Nat /\ \A p \in S : s[p] \in Chars
    OBVIOUS
  <1>1. k \in Nat
    BY <1>0, BeforeIs
  <1>2. r = [n \in 1 .. k |-> s[Nth(S, n)]]
    BY DEF Pick
  <1>3. ASSUME NEW n \in 1 .. k PROVE Nth(S, n) \in S
    BY <1>0, NthIs
  <1>4. ASSUME NEW p \in S PROVE \E n \in 1 .. k : Nth(S, n) = p
    BY <1>0, NthOf
  <1> HIDE DEF k, r
  <1>5. \A n \in 1 .. k : s[Nth(S, n)] \in Chars
    BY <1>0, <1>3
  <1>6. r \in [1 .. k -> Chars] /\ \A n \in 1 .. k : r[n] = s[Nth(S, n)]
    BY <1>2, <1>5
  <1>7. r \in Seq(Chars) /\ Len(r) = k
    BY <1>1, <1>6
  <1>8. \A i \in 1 .. Len(r) : \E p \in S : r[i] = s[p]
    BY <1>3, <1>6, <1>7
  <1>9. ASSUME NEW p \in S PROVE \E i \in 1 .. Len(r) : r[i] = s[p]
    <2>1. PICK n \in 1 .. k : Nth(S, n) = p
      BY <1>4
    <2> QED BY <1>6, <1>7, <2>1
  <1> QED BY <1>7, <1>8, <1>9 DEF r

\* What scan_token gets of a line.
LEMMA ScannedIs ==
    ASSUME NEW line \in Seq(Chars)
    PROVE  /\ Scanned(line) \in Seq(Chars)
           /\ \A i \in 1 .. Len(Scanned(line)) : \E p \in Looked(line) : Scanned(line)[i] = line[p]
           /\ \A p \in Looked(line) : \E i \in 1 .. Len(Scanned(line)) : Scanned(line)[i] = line[p]
           /\ Looked(line) \subseteq 1 .. Len(line)
  <1> DEFINE A == Looked(line)
  <1>1. Len(line) \in Nat /\ DOMAIN line = 1 .. Len(line)
    OBVIOUS
  <1>2. A \in SUBSET (1 .. Len(line))
    BY <1>1 DEF Looked
  <1>3. Scanned(line) = Pick(line, A)
    BY DEF Scanned, Looked
  <1> HIDE DEF A
  <1>5. /\ Pick(line, A) \in Seq(Chars)
        /\ \A i \in 1 .. Len(Pick(line, A)) : \E p \in A : Pick(line, A)[i] = line[p]
        /\ \A p \in A : \E i \in 1 .. Len(Pick(line, A)) : Pick(line, A)[i] = line[p]
    BY <1>2, Picked
  <1> QED BY <1>2, <1>3, <1>5 DEF A

\* A line is added as it is, or it is refused; and when the scanner gives up the
\* text is refused.
LEMMA LineRead ==
    ASSUME TypeInv, ParseLine, unknown_count \in Nat, unknown_count > 0 => Refused(text)
    PROVE  LET chars == Scanned(next_line.line)
               odd   == \E p \in 1 .. Len(chars) : Unknown(chars[p])
           IN  /\ unknown_count' \in Nat
               /\ unknown_count' > 0 => Refused(text')
               /\ odd => Refused(text')
               /\ phase' = "scan" \/ (phase' = "done" /\ odd)
               /\ phase' = "scan" => text' = Append(text, IF odd THEN ErrorLine ELSE chars)
  <1> DEFINE chars == Scanned(next_line.line)
             odd == \E p \in 1 .. Len(chars) : Unknown(chars[p])
             Odd(k) == {q \in 1 .. k : Unknown(chars[q])}
             count(p) == unknown_count + Cardinality({q \in 1 .. p : Unknown(chars[q])})
             stops == {p \in DOMAIN chars : Unknown(chars[p]) /\ GivesUp(count(p))}
             read == IF stops = {} THEN chars ELSE SubSeq(chars, 1, Min(stops) - 1)
             bad == \E p \in DOMAIN read : Unknown(read[p])
  <1>1. /\ phase = "scan"
        /\ text' = IF stops # {} /\ read = <<>> THEN text
                   ELSE Append(text, IF bad THEN ErrorLine ELSE read)
        /\ unknown_count' = unknown_count + Cardinality(Odd(Len(read)))
        /\ phase' = IF stops = {} THEN phase ELSE "done"
    BY DEF ParseLine
  <1>2. chars \in Seq(Chars)
    <2>1. next_line.line \in Seq(Chars)
      BY NextLinePlaces DEF ParseLine
    <2> QED BY <2>1, ScannedIs
  <1> HIDE DEF chars
  <1>3. Len(chars) \in Nat /\ DOMAIN chars = 1 .. Len(chars)
    BY <1>2
  <1>4. ASSUME NEW k \in Nat
        PROVE  /\ IsFiniteSet(Odd(k)) /\ Cardinality(Odd(k)) \in Nat
               /\ Odd(k) = {} => Cardinality(Odd(k)) = 0
    <2>1. IsFiniteSet(1 .. k)
      BY FS_Interval
    <2>2. Odd(k) \subseteq 1 .. k
      OBVIOUS
    <2> HIDE DEF Odd
    <2> QED BY <2>1, <2>2, FS_Subset, FS_CardinalityType, FS_EmptySet
  <1>5. PICK S : text \in Seq(S)
    BY DEF TypeInv
  <1>6. \A x : (Refused(text) => Refused(Append(text, x))) /\ Refused(Append(text, ErrorLine))
    BY <1>5, Appended
  <1>7. /\ unknown_count' \in Nat
        /\ unknown_count' > 0 => Refused(text')
        /\ odd => Refused(text')
        /\ phase' = "scan" \/ (phase' = "done" /\ odd)
        /\ phase' = "scan" => text' = Append(text, IF odd THEN ErrorLine ELSE chars)
    <2>1. CASE stops = {}
      <3>1. /\ read = chars /\ phase' = "scan"
            /\ bad <=> odd
        BY <1>1, <1>3, <2>1
      <3>2. text' = Append(text, IF odd THEN ErrorLine ELSE chars)
        BY <1>1, <2>1, <3>1
      <3>3. unknown_count' \in Nat /\ (unknown_count' > 0 => unknown_count > 0 \/ Odd(Len(chars)) # {})
        <4> DEFINE c == Cardinality(Odd(Len(chars)))
        <4> HIDE DEF read, stops, Odd
        <4>1. unknown_count' = unknown_count + c
          BY <1>1, <3>1
        <4>2. c \in Nat /\ (Odd(Len(chars)) = {} => c = 0)
          BY <1>3, <1>4
        <4> HIDE DEF c
        <4> QED BY <4>1, <4>2
      <3>4. Odd(Len(chars)) # {} => odd
        OBVIOUS
      <3>5. odd => Refused(text')
        BY <1>6, <3>2
      <3>6. Refused(text) => Refused(text')
        BY <1>6, <3>2
      <3> QED BY <3>1, <3>2, <3>3, <3>4, <3>5, <3>6
    <2>2. CASE stops # {}
      <3> DEFINE k == Min(stops)
      <3>1. k \in stops
        <4>1. stops \subseteq Nat
          BY <1>3
        <4>2. \E m \in stops : \A n \in stops : m <= n
          <5> HIDE DEF stops
          <5> QED BY <2>2, <4>1, MinExists
        <4> QED BY <4>2 DEF Min
      <3>2. /\ k \in 1 .. Len(chars) /\ Unknown(chars[k])
            /\ unknown_count + Cardinality(Odd(k)) > UnknownMax + 1
        BY <1>3, <3>1 DEF GivesUp
      <3>3. phase' = "done" /\ read = SubSeq(chars, 1, k - 1)
        BY <1>1, <2>2
      <3>4. text' = IF read = <<>> THEN text ELSE Append(text, IF bad THEN ErrorLine ELSE read)
        BY <1>1, <2>2
      <3>5. unknown_count' = unknown_count + Cardinality(Odd(Len(read)))
        BY <1>1
      <3> HIDE DEF k, stops
      <3>6. Len(read) = k - 1 /\ \A q \in 1 .. k - 1 : read[q] = chars[q]
        <4>1. k - 1 \in Nat /\ k - 1 <= Len(chars) /\ 1 <= (k - 1) + 1
          BY <1>3, <3>2
        <4>2. /\ Len(SubSeq(chars, 1, k - 1)) = (k - 1) - 1 + 1
              /\ \A p \in 1 .. (k - 1) - 1 + 1 : SubSeq(chars, 1, k - 1)[p] = chars[1 + p - 1]
          BY <1>2, <4>1, Sub
        <4> HIDE DEF read
        <4> QED BY <3>2, <3>3, <4>2
      <3> HIDE DEF read
      <3>7. read \in Seq(Chars)
        <4>1. k - 1 \in Nat /\ k - 1 <= Len(chars) /\ 1 <= (k - 1) + 1
          BY <1>3, <3>2
        <4>2. SubSeq(chars, 1, k - 1) \in Seq(Chars)
          BY <1>2, <4>1, Sub
        <4> QED BY <3>3, <4>2
      <3>8. DOMAIN read = 1 .. k - 1 /\ (k - 1 > 0 => read # <<>>) /\ k - 1 \in Nat
        BY <3>2, <3>6, <3>7
      <3>9. ASSUME NEW q \in 1 .. k - 1, Unknown(chars[q]) PROVE Refused(text')
        <4>1. bad /\ read # <<>>
          BY <3>6, <3>8, <3>9
        <4> QED BY <1>6, <3>4, <4>1
      <3>10. Refused(text) => Refused(text')
        BY <1>6, <3>4
      <3>11. Refused(text')
        <4>1. CASE unknown_count > 0
          BY <3>10, <4>1
        <4>2. CASE unknown_count = 0
          <5> DEFINE c == Cardinality(Odd(k))
          <5>1. c \in Nat /\ c > UnknownMax + 1 /\ UnknownMax \in Nat
            <6>1. k \in Nat
              BY <3>2
            <6>2. c \in Nat
              BY <1>4, <6>1
            <6> HIDE DEF c
            <6>3. unknown_count + c > UnknownMax + 1
              BY <3>2 DEF c
            <6> QED BY <4>2, <6>2, <6>3, SourceAssumption
          <5>2. PICK q \in Odd(k) : q # k
            <6> SUFFICES ASSUME Odd(k) \subseteq {k} PROVE FALSE
              BY DEF Odd
            <6>1. c <= Cardinality({k})
              <7>1. IsFiniteSet({k}) /\ Odd(k) \in SUBSET {k}
                BY FS_Singleton
              <7> HIDE DEF Odd
              <7> QED BY <7>1, FS_Subset
            <6>2. Cardinality({k}) = 1
              BY FS_Singleton
            <6> HIDE DEF c
            <6> QED BY <5>1, <6>1, <6>2
          <5>3. q \in 1 .. k - 1 /\ Unknown(chars[q])
            BY <3>2, <5>2
          <5> QED BY <3>9, <5>3
        <4> QED BY <4>1, <4>2
      <3>12. unknown_count' \in Nat
        <4> DEFINE c == Cardinality(Odd(Len(read)))
        <4> HIDE DEF Odd
        <4>1. c \in Nat
          BY <1>4, <3>6, <3>8
        <4>2. unknown_count' = unknown_count + c
          BY <3>5
        <4> HIDE DEF c
        <4> QED BY <4>1, <4>2
      <3>13. odd
        BY <3>2
      <3>14. phase' # "scan"
        BY <3>3
      <3> QED BY <3>3, <3>11, <3>12, <3>13, <3>14
    <2> QED BY <2>1, <2>2
  <1> QED BY <1>7 DEF chars

\* next_line hands out the line of the file that end ends, and stands behind it.
\* Only a last line without a break may have zeros in it.
LineEnd(o, E, end) ==
    LET line == next_line.line
        n    == next_line.cursor
    IN  /\ Previous(E, end)
        /\ LineOf(line, o, E, IF file[end] = LineBreak THEN end - 1 ELSE end)
        /\ \A p \in 1 .. current : source[p] # NUL => (p <= n <=> o[p] <= end)
        /\ n < current => source[n + 1] # NUL
        /\ \/ \A i \in 1 .. Len(line) : line[i] # NUL
           \/ end = Len(file) /\ file[end] # LineBreak /\ n = current

\* A line break of the file is a line feed of the source.
LEMMA BreakFeeds ==
    ASSUME FileOK, ColoursClosed, NEW o, NEW s, Origins(o, s, Len(file))
    PROVE  \A x \in Breaks : \E p \in 1 .. Len(file) : s[p] = LF /\ o[p] = x
  <1> SUFFICES ASSUME NEW x \in Breaks
               PROVE  \E p \in 1 .. Len(file) : s[p] = LF /\ o[p] = x
    OBVIOUS
  <1>1. x \in 1 .. Len(file) /\ file[x] = LineBreak /\ x <= Len(file) /\ x \in DOMAIN file
    BY EndsIn
  <1>2. ~Coloured(file, x)
    BY BreakShown
  <1>3. ~(file_type = "WINDOWS" /\ file[x] = CR)
    BY <1>1 DEF LineBreak, LF, CR
  <1>4. x \in Stays
    BY <1>1, <1>2, <1>3 DEF Stays
  <1>5. PICK p \in 1 .. Len(file) : s[p] # NUL /\ o[p] = x
    BY <1>1, <1>4 DEF Origins
  <1>6. s[p] = LF
    BY <1>5 DEF Origins
  <1> QED BY <1>5, <1>6

\* There is such an end for every line that next_line hands out.
LEMMA LineEnds ==
    ASSUME TypeInv, FileOK, ColoursClosed, Len(source) = Len(file), cursor < current,
           NEW o, NEW E, ScanAt(o, E)
    PROVE  \E end \in Ends : LineEnd(o, E, end)
  <1> DEFINE line == next_line.line
             n == next_line.cursor
             K == Len(line)
             c == cursor + K + 1
  <1>1. /\ source \in Seq(Chars) /\ current \in Nat /\ cursor \in Nat
        /\ current = Len(source) /\ current = Len(file)
    BY DEF TypeInv, current
  <1>2. /\ \A p \in 1 .. current : source[p] # NUL =>
             /\ o[p] \in Stays
             /\ source[p] = IF o[p] \in Breaks THEN LF ELSE file[o[p]]
        /\ \A p \in 1 .. current, q \in 1 .. current :
             source[p] # NUL /\ source[q] # NUL /\ p < q => o[p] < o[q]
        /\ \A v \in Stays : v <= current => \E p \in 1 .. current : source[p] # NUL /\ o[p] = v
    BY DEF ScanAt, Origins
  <1>3. /\ \A p \in 1 .. current : source[p] = NUL =>
             BehindLine(source, p) \/ \A r \in p .. current : source[r] = NUL
        /\ E \in 0 .. Len(file) /\ (E = 0 \/ E \in Ends)
        /\ \A p \in 1 .. current : source[p] # NUL => (p <= cursor <=> o[p] <= E)
        /\ source[cursor + 1] # NUL
    BY DEF ScanAt
  <1>4. /\ line \in Seq(Chars)
        /\ \A i \in 1 .. K : line[i] = source[cursor + i] /\ line[i] # LF
        /\ \/ /\ cursor + K = current /\ n = current
           \/ /\ c <= n /\ n <= current
              /\ source[c] = LF
              /\ \A p \in cursor + K + 2 .. n : source[p] = NUL
    BY NextLinePlaces
  <1>5. n \in cursor + 1 .. current /\ (n < current => source[n + 1] # NUL)
    BY NextLine
  <1>6. K \in Nat /\ c \in Nat /\ c = cursor + K + 1 /\ E \in Nat /\ n \in Nat /\ Len(file) \in Nat
    BY <1>1, <1>3, <1>4, <1>5
  <1>7. /\ DOMAIN file = 1 .. Len(file) /\ Ends \subseteq 1 .. Len(file) /\ Breaks \subseteq Ends
        /\ Len(file) \in Ends /\ \A p \in Ends : p < Len(file) => p \in Breaks
        /\ \A p \in 1 .. Len(file) : p \in Breaks <=> file[p] = LineBreak
    BY EndsIn
  <1>8. Stays \subseteq 1 .. Len(file)
    BY <1>7 DEF Stays
  <1>9. LF # NUL
    BY DEF LF, NUL
  <1> HIDE DEF line, n, K, c
  \* A line break of the file is a line feed of the source, and the other way
  \* round.
  <1>10. \A x \in Breaks : \E p \in 1 .. current : source[p] = LF /\ o[p] = x
    <2>1. Origins(o, source, Len(file))
      BY <1>1 DEF ScanAt
    <2> QED BY <1>1, <2>1, BreakFeeds
  <1>11. ASSUME NEW p \in 1 .. current, source[p] = LF PROVE o[p] \in Breaks
    <2>1. o[p] \in Stays /\ LF = IF o[p] \in Breaks THEN LF ELSE file[o[p]]
      BY <1>2, <1>9, <1>11
    <2>2. SUFFICES ASSUME o[p] \notin Breaks PROVE FALSE
      OBVIOUS
    <2>3. o[p] \in 1 .. Len(file) /\ file[o[p]] = LF
      BY <1>8, <2>1, <2>2
    <2>4. file[o[p]] # LineBreak
      BY <1>7, <2>2, <2>3
    <2>5. file_type = "MACOS"
      BY <2>3, <2>4 DEF LineBreak
    <2> QED BY <2>3, <2>5 DEF FileOK
  \* The origins of two characters are as far apart as they are.
  <1>12. ASSUME NEW p \in 1 .. current, NEW q \in 1 .. current, source[p] # NUL, source[q] # NUL
         PROVE  /\ o[p] \in Nat /\ o[p] <= Len(file)
                /\ p <= q <=> o[p] <= o[q]
    <2>1. o[p] \in Nat /\ o[q] \in Nat /\ o[p] <= Len(file)
      <3>1. o[p] \in Stays /\ o[q] \in Stays
        BY <1>2, <1>12
      <3>2. o[p] \in 1 .. Len(file) /\ o[q] \in 1 .. Len(file)
        BY <1>8, <3>1
      <3> QED BY <1>6, <3>2
    <2>2. CASE p < q
      BY <1>2, <1>12, <2>1, <2>2
    <2>3. CASE q < p
      BY <1>2, <1>12, <2>1, <2>3
    <2>4. CASE p = q
      BY <2>1, <2>4
    <2> QED BY <2>1, <2>2, <2>3, <2>4
  \* What is on the line is behind E.
  <1>13. ASSUME NEW i \in 1 .. K, cursor + i <= current
         PROVE  /\ cursor + i \in 1 .. current /\ line[i] = source[cursor + i]
                /\ line[i] # NUL => /\ o[cursor + i] \in Stays /\ E < o[cursor + i]
                                    /\ o[cursor + i] \in Nat /\ o[cursor + i] <= Len(file)
                                    /\ line[i] = file[o[cursor + i]]
    <2> DEFINE p == cursor + i
    <2>1. p \in 1 .. current /\ ~(p <= cursor) /\ line[i] = source[p] /\ line[i] # LF
      BY <1>1, <1>4, <1>6, <1>13
    <2> HIDE DEF p
    <2>2. ASSUME line[i] # NUL
          PROVE  /\ o[p] \in Stays /\ E < o[p] /\ line[i] = file[o[p]]
                 /\ o[p] \in Nat /\ o[p] <= Len(file)
      <3>1. o[p] \in Stays /\ source[p] = file[o[p]]
        BY <1>2, <2>1, <2>2
      <3>2. o[p] \in Nat /\ o[p] <= Len(file)
        BY <1>12, <2>1, <2>2
      <3>3. ~(o[p] <= E)
        BY <1>3, <2>1, <2>2
      <3> QED BY <1>6, <2>1, <3>1, <3>2, <3>3
    <2> QED BY <2>1, <2>2 DEF p
  <1>14. ASSUME NEW i \in 1 .. K, NEW k \in 1 .. K, cursor + K <= current,
                line[i] # NUL, line[k] # NUL, i < k
         PROVE  o[cursor + i] < o[cursor + k]
    <2>1. cursor + i <= current /\ cursor + k <= current /\ cursor + i < cursor + k
      BY <1>1, <1>6, <1>14
    <2> QED BY <1>2, <1>13, <1>14, <2>1
  \* No line of the file ends on the line that is handed out.
  <1>15. ASSUME NEW x \in Breaks, E < x, NEW p \in 1 .. current, source[p] = LF, o[p] = x
         PROVE  cursor < p /\ ~(p <= cursor + K)
    <2>1. x \in Nat
      BY <1>6, <1>7
    <2>2. ~(p <= cursor)
      BY <1>3, <1>6, <1>9, <1>15, <2>1
    <2>3. ASSUME p <= cursor + K PROVE FALSE
      <3>1. p - cursor \in 1 .. K /\ cursor + (p - cursor) = p
        BY <1>1, <1>6, <2>2, <2>3
      <3> QED BY <1>4, <1>15, <3>1
    <2> QED BY <1>1, <2>2, <2>3
  <1>16. CASE c <= n /\ n <= current /\ source[c] = LF /\ \A p \in cursor + K + 2 .. n : source[p] = NUL
    <2> DEFINE end == o[c]
    <2>1. c \in 1 .. current /\ cursor + K <= current /\ cursor < c
      BY <1>1, <1>6, <1>16
    <2>2. source[c] # NUL
      BY <1>9, <1>16
    <2>3. end \in Breaks
      BY <1>11, <1>16, <2>1
    <2>4. E < end /\ end \in Nat /\ end \in 1 .. Len(file) /\ end \in Ends /\ file[end] = LineBreak
      <3>1. ~(c <= cursor)
        BY <1>1, <1>6, <2>1
      <3>2. ~(o[c] <= E)
        BY <1>3, <2>1, <2>2, <3>1
      <3>3. end \in 1 .. Len(file)
        BY <1>7, <2>3
      <3> QED BY <1>6, <1>7, <2>3, <3>2, <3>3
    <2>5. Previous(E, end)
      <3>1. ASSUME NEW x \in Ends, x < end, ~(x <= E) PROVE FALSE
        <4>1. x \in Nat /\ x < Len(file) /\ E < x
          BY <1>6, <1>7, <2>4, <3>1
        <4>2. x \in Breaks
          BY <1>7, <4>1
        <4>3. PICK p \in 1 .. current : source[p] = LF /\ o[p] = x
          BY <1>10, <4>2
        <4>4. ~(p <= cursor + K)
          BY <1>15, <4>1, <4>2, <4>3
        <4>5. c <= p
          BY <1>6, <1>1, <4>4
        <4>6. o[c] <= o[p]
          BY <1>9, <1>12, <2>1, <2>2, <4>3, <4>5
        <4> QED BY <2>4, <3>1, <4>1, <4>3, <4>6
      <3> QED BY <1>3, <1>6, <2>4, <3>1 DEF Previous
    <2>6. ASSUME NEW i \in 1 .. K PROVE line[i] # NUL
      <3> DEFINE p == cursor + i
      <3>1. p \in 1 .. current /\ line[i] = source[p] /\ c \in p .. current /\ cursor < p /\ p <= cursor + K
        BY <1>1, <1>6, <1>13, <2>1
      <3> HIDE DEF p
      <3>2. SUFFICES ASSUME source[p] = NUL PROVE FALSE
        BY <3>1
      <3>3. BehindLine(source, p)
        BY <1>3, <2>2, <3>1, <3>2
      <3>4. PICK q \in 1 .. p - 1 : source[q] = LF /\ \A r \in q + 1 .. p : source[r] = NUL
        BY <3>3 DEF BehindLine
      <3>5. CASE q <= cursor
        <4>1. cursor + 1 \in q + 1 .. p
          BY <1>1, <3>1, <3>5
        <4> QED BY <1>3, <3>4, <4>1
      <3>6. CASE cursor < q
        <4>1. q - cursor \in 1 .. K /\ cursor + (q - cursor) = q
          BY <1>1, <1>6, <3>1, <3>6
        <4> QED BY <1>4, <3>4, <4>1
      <3> QED BY <1>1, <3>1, <3>5, <3>6
    <2>7. LineOf(line, o, E, end - 1)
      <3>1. ASSUME NEW i \in 1 .. K
            PROVE  /\ o[cursor + i] \in Stays /\ E < o[cursor + i] /\ o[cursor + i] <= end - 1
                   /\ line[i] = file[o[cursor + i]]
        <4> DEFINE p == cursor + i
        <4>1. cursor + i <= current /\ p < c
          BY <1>1, <1>6, <2>1
        <4>2. /\ p \in 1 .. current /\ source[p] # NUL /\ o[p] \in Stays /\ E < o[p] /\ o[p] \in Nat
              /\ line[i] = file[o[p]]
          BY <1>13, <2>6, <4>1
        <4> HIDE DEF p
        <4>3. o[p] < o[c]
          BY <1>2, <2>1, <2>2, <4>1, <4>2
        <4>4. o[p] <= end - 1
          BY <2>4, <4>2, <4>3
        <4> QED BY <4>2, <4>4 DEF p
      <3>2. ASSUME NEW v \in Stays, E < v, v <= end - 1
            PROVE  \E i \in 1 .. K : line[i] # NUL /\ o[cursor + i] = v
        <4>1. v \in Nat /\ v <= current /\ v < end
          BY <1>1, <1>6, <1>8, <2>4, <3>2
        <4>2. PICK p \in 1 .. current : source[p] # NUL /\ o[p] = v
          BY <1>2, <4>1
        <4>3. ~(p <= cursor)
          BY <1>3, <1>6, <3>2, <4>1, <4>2
        <4>4. ~(c <= p)
          BY <1>12, <2>1, <2>2, <2>4, <4>1, <4>2
        <4>5. p - cursor \in 1 .. K /\ cursor + (p - cursor) = p
          BY <1>1, <1>6, <4>3, <4>4
        <4> QED BY <2>6, <4>2, <4>5
      <3> HIDE DEF end
      <3> QED BY <1>4, <1>14, <2>1, <3>1, <3>2 DEF LineOf, K
    <2>8. ASSUME NEW p \in 1 .. current, source[p] # NUL PROVE p <= n <=> o[p] <= end
      <3>1. p <= n <=> p <= c
        <4>1. ~(p \in cursor + K + 2 .. n)
          BY <1>16, <2>8
        <4> QED BY <1>1, <1>6, <1>16, <4>1
      <3>2. p <= c <=> o[p] <= o[c]
        BY <1>12, <2>1, <2>2, <2>8
      <3> QED BY <3>1, <3>2
    <2>9. LineEnd(o, E, end)
      <3>1. (IF file[end] = LineBreak THEN end - 1 ELSE end) = end - 1
        BY <2>4
      <3> HIDE DEF end
      <3> QED BY <1>5, <2>5, <2>6, <2>7, <2>8, <3>1 DEF LineEnd, line, n, K
    <2> QED BY <2>4, <2>9
  <1>17. CASE cursor + K = current /\ n = current
    <2> DEFINE end == Len(file)
    <2>1. E < end
      <3>1. cursor + 1 \in 1 .. current /\ ~(cursor + 1 <= cursor)
        BY <1>1
      <3>2. ~(o[cursor + 1] <= E) /\ o[cursor + 1] \in Nat /\ o[cursor + 1] <= Len(file)
        BY <1>3, <1>12, <3>1
      <3> QED BY <1>6, <3>2
    <2>2. ASSUME NEW x \in Breaks, E < x PROVE FALSE
      <3>1. PICK p \in 1 .. current : source[p] = LF /\ o[p] = x
        BY <1>10
      <3>2. ~(p <= cursor + K)
        BY <1>15, <2>2, <3>1
      <3> QED BY <1>1, <1>17, <3>1, <3>2
    <2>3. end \in Ends /\ file[end] # LineBreak /\ end \in 1 .. Len(file)
      <3>1. end \in Ends /\ end \in 1 .. Len(file)
        BY <1>7
      <3>2. end \notin Breaks
        BY <2>1, <2>2
      <3> QED BY <1>7, <3>1, <3>2
    <2>4. Previous(E, end)
      <3>1. ASSUME NEW x \in Ends, x < end, ~(x <= E) PROVE FALSE
        <4>1. x \in Breaks /\ E < x
          BY <1>6, <1>7, <3>1
        <4> QED BY <2>2, <4>1
      <3> QED BY <1>3, <1>6, <2>1, <3>1 DEF Previous
    <2>5. LineOf(line, o, E, end)
      <3>1. ASSUME NEW i \in 1 .. K, line[i] # NUL
            PROVE  /\ o[cursor + i] \in Stays /\ E < o[cursor + i] /\ o[cursor + i] <= end
                   /\ line[i] = file[o[cursor + i]]
        <4>1. cursor + i <= current
          BY <1>1, <1>6, <1>17
        <4> QED BY <1>13, <3>1, <4>1
      <3>2. ASSUME NEW v \in Stays, E < v, v <= end
            PROVE  \E i \in 1 .. K : line[i] # NUL /\ o[cursor + i] = v
        <4>1. v \in Nat /\ v <= current
          BY <1>1, <1>8, <3>2
        <4>2. PICK p \in 1 .. current : source[p] # NUL /\ o[p] = v
          BY <1>2, <4>1
        <4>3. ~(p <= cursor)
          BY <1>3, <1>6, <3>2, <4>1, <4>2
        <4>4. p - cursor \in 1 .. K /\ cursor + (p - cursor) = p
          BY <1>1, <1>6, <1>17, <4>3
        <4>5. line[p - cursor] = source[p]
          BY <1>4, <4>4
        <4> QED BY <4>2, <4>4, <4>5
      <3>3. cursor + K <= current
        BY <1>1, <1>17
      <3> HIDE DEF end
      <3> QED BY <1>4, <1>14, <3>1, <3>2, <3>3 DEF LineOf, K
    <2>6. ASSUME NEW p \in 1 .. current, source[p] # NUL PROVE p <= n <=> o[p] <= end
      <3>1. o[p] \in Nat /\ o[p] <= Len(file)
        BY <1>12, <2>6
      <3> QED BY <1>17, <3>1
    <2>7. LineEnd(o, E, end)
      <3>1. (IF file[end] = LineBreak THEN end - 1 ELSE end) = end
        BY <2>3
      <3>2. end = Len(file)
        OBVIOUS
      <3> HIDE DEF end
      <3> QED BY <1>5, <1>17, <2>3, <2>4, <2>5, <2>6, <3>1, <3>2 DEF LineEnd, line, n
    <2> QED BY <2>3, <2>7
  <1> QED BY <1>4, <1>16, <1>17

\* The next line of the file is the one behind those up to E.
LEMMA RankNext ==
    ASSUME FileOK, NEW end \in Ends, NEW E, Previous(E, end)
    PROVE  LET k == Cardinality({x \in Ends : x <= E})
           IN  /\ k \in Nat /\ k + 1 \in 1 .. Cardinality(Ends)
               /\ Nth(Ends, k + 1) = end
               /\ Cardinality({x \in Ends : x <= end}) = k + 1
  <1> DEFINE B == Before(Ends, end)
             k == Cardinality(B)
  <1>1. Len(file) \in Nat /\ Ends \subseteq 1 .. Len(file)
    BY EndsIn
  <1>2. \A x \in Ends : x \in Nat
    BY <1>1
  <1>3. E \in Nat /\ E < end /\ \A x \in Ends : x < end => x <= E
    BY DEF Previous
  <1>4. {x \in Ends : x <= E} = B
    BY <1>2, <1>3 DEF Before
  <1>5. {x \in Ends : x <= end} = B \cup {end}
    BY <1>2 DEF Before
  <1>6. end \notin B
    BY <1>2 DEF Before
  <1>7. IsFiniteSet(B) /\ k \in Nat /\ k + 1 \in 1 .. Cardinality(Ends) /\ Nth(Ends, k + 1) = end
    BY <1>1, BeforeIs, NthOf
  <1> HIDE DEF B
  <1>8. Cardinality(B \cup {end}) = Cardinality(B) + 1
    BY <1>6, <1>7, FS_AddElement
  <1> QED BY <1>4, <1>5, <1>7, <1>8

\* A line that is parsed is the next one of the file.
LEMMA ParseLineText ==
    ASSUME TextInv, ParseLine
    PROVE  SplitText' /\ ScanText' /\ DoneText'
  <1> DEFINE line == next_line.line
             n == next_line.cursor
             chars == Scanned(line)
             odd == \E p \in 1 .. Len(chars) : Unknown(chars[p])
  <1>1. /\ phase = "scan" /\ cursor < current /\ cursor' = n
        /\ source' = source /\ file' = file /\ file_type' = file_type
    BY DEF ParseLine
  <1>2. Inv /\ TypeInv /\ ScanText
    BY DEF TextInv, Inv
  <1>3. /\ FileOK /\ Len(source) = Len(file) /\ unknown_count \in Nat
        /\ unknown_count > 0 => Refused(text)
    BY <1>1, <1>2 DEF ScanText
  <1>4. /\ FileOK' /\ Breaks' = Breaks /\ Stays' = Stays /\ Ends' = Ends /\ LineBreak' = LineBreak
        /\ Written' = Written
        /\ \A e : LineAt(e)' = LineAt(e)
        /\ (Uniform /\ ColoursClosed)' <=> Uniform /\ ColoursClosed
    BY <1>1, <1>3, SameFile
  <1>5. /\ unknown_count' \in Nat
        /\ unknown_count' > 0 => Refused(text')
        /\ odd => Refused(text')
        /\ phase' = "scan" \/ (phase' = "done" /\ odd)
        /\ phase' = "scan" => text' = Append(text, IF odd THEN ErrorLine ELSE chars)
    BY <1>2, <1>3, LineRead
  <1>6. line \in Seq(Chars)
    BY <1>1, <1>2, NextLinePlaces
  <1>7. current = Len(source) /\ current \in Nat /\ current' = current /\ cursor \in Nat
    BY <1>1, <1>2 DEF TypeInv, current
  <1>8. n \in cursor + 1 .. current
    BY <1>1, <1>2, NextLine
  <1> HIDE DEF line, n
  <1>9. /\ chars \in Seq(Chars)
        /\ \A i \in 1 .. Len(chars) : \E p \in Looked(line) : chars[i] = line[p]
        /\ \A p \in Looked(line) : \E i \in 1 .. Len(chars) : chars[i] = line[p]
        /\ Looked(line) \subseteq 1 .. Len(line)
    BY <1>6, ScannedIs
  <1> HIDE DEF chars
  <1>10. ASSUME Uniform, ColoursClosed
         PROVE  /\ phase' = "scan" => \E o, e : ScanAt(o, e)'
                /\ phase' = "done" => Refused(text') /\ (file[Len(file)] # LineBreak \/ Refused(Written))
    <2>1. PICK o, E : ScanAt(o, E)
      BY <1>1, <1>2, <1>10 DEF ScanText
    <2>2. AsWritten(E) /\ Origins(o, source, current)
      BY <1>1, <1>7, <2>1 DEF ScanAt
    <2>3. PICK end \in Ends : LineEnd(o, E, end)
      BY <1>1, <1>2, <1>3, <1>10, <2>1, LineEnds
    <2>4. /\ Previous(E, end)
          /\ LineOf(line, o, E, IF file[end] = LineBreak THEN end - 1 ELSE end)
          /\ \A p \in 1 .. current : source[p] # NUL => (p <= n <=> o[p] <= end)
          /\ n < current => source[n + 1] # NUL
          /\ \/ \A i \in 1 .. Len(line) : line[i] # NUL
             \/ end = Len(file) /\ file[end] # LineBreak /\ n = current
      BY <2>3 DEF LineEnd, line, n
    <2>5. ASSUME AsWritten(end)' \/ (Refused(text') /\ file[Len(file)] # LineBreak /\ n = current)
          PROVE  ScanAt(o, end)'
      <3>1. Origins(o, source, current)'
        BY <1>1, <1>4, <1>7, <2>2 DEF Origins
      <3>2. \A p \in 1 .. current' : source'[p] = NUL =>
              BehindLine(source', p) \/ \A r \in p .. current' : source'[r] = NUL
        BY <1>1, <1>7, <2>1 DEF ScanAt
      <3>3. end \in 0 .. Len(file') /\ end \in Ends'
        BY <1>1, <1>3, <1>4, EndsIn
      <3>4. /\ \A p \in 1 .. current' : source'[p] # NUL => (p <= cursor' <=> o[p] <= end)
            /\ cursor' < current' => source'[cursor' + 1] # NUL
        BY <1>1, <1>7, <2>4
      <3>5. AsWritten(end)' \/ (Refused(text') /\ file'[Len(file')] # LineBreak' /\ cursor' = current')
        BY <1>1, <1>4, <1>7, <2>5
      <3> QED BY <3>1, <3>2, <3>3, <3>4, <3>5 DEF ScanAt
    <2>6. CASE \E p \in Looked(line) : line[p] = NUL
      <3>1. odd
        BY <1>9, <2>6 DEF Unknown
      <3>2. Refused(text')
        BY <1>5, <3>1
      <3>3. end = Len(file) /\ file[end] # LineBreak /\ n = current
        BY <1>9, <2>4, <2>6
      <3> QED BY <2>5, <3>2, <3>3
    <2>7. CASE \A p \in Looked(line) : line[p] # NUL
      <3>1. /\ Statement(LineAt(end)) = IF Contains(chars, Bad) THEN ErrorLine ELSE chars
            /\ \A i \in Looked(line) : line[i] # ESC
        BY <1>3, <1>10, <2>4, <2>7, LineScanned DEF chars
      <3>2. odd <=> Contains(chars, Bad)
        <4>1. ASSUME NEW i \in 1 .. Len(chars) PROVE Unknown(chars[i]) <=> chars[i] = Bad
          <5>1. PICK p \in Looked(line) : chars[i] = line[p]
            BY <1>9
          <5> QED BY <2>7, <3>1, <5>1 DEF Unknown
        <4> QED BY <4>1 DEF Contains
      <3> DEFINE k == Cardinality({x \in Ends : x <= E})
                 st == Statement(LineAt(end))
      <3>3. /\ k \in Nat /\ k + 1 \in 1 .. Cardinality(Ends) /\ Nth(Ends, k + 1) = end
            /\ Cardinality({x \in Ends : x <= end}) = k + 1
        BY <1>3, <2>4, RankNext
      <3>4. Len(text) = k /\ \A i \in 1 .. Len(text) : text[i] = Statement(LineAt(Nth(Ends, i)))
        BY <2>2 DEF AsWritten
      <3> HIDE DEF k, st
      <3>5. CASE phase' = "scan"
        <4>1. text' = Append(text, st)
          BY <1>5, <3>1, <3>2, <3>5 DEF st
        <4>2. PICK S : text \in Seq(S)
          BY <1>2 DEF TypeInv
        <4>3. /\ Len(text') = k + 1 /\ \A i \in 1 .. k : text'[i] = text[i]
              /\ text'[k + 1] = st
          BY <3>4, <4>1, <4>2, Appended
        <4>4. ASSUME NEW i \in 1 .. k + 1 PROVE text'[i] = Statement(LineAt(Nth(Ends, i)))
          <5>1. CASE i \in 1 .. k
            BY <3>4, <4>3, <5>1
          <5>2. CASE i = k + 1
            BY <3>3, <4>3, <5>2 DEF st
          <5> QED BY <3>3, <5>1, <5>2
        <4>5. \A i \in 1 .. Len(text') : text'[i] = Statement(LineAt(Nth(Ends, i)))
          BY <4>3, <4>4
        <4>6. AsWritten(end)'
          BY <1>4, <3>3, <4>3, <4>5 DEF AsWritten
        <4>7. phase' # "done"
          BY <3>5
        <4> QED BY <2>5, <4>6, <4>7
      <3>6. CASE phase' = "done"
        <4>1. odd
          BY <1>5, <3>6
        <4>2. st = ErrorLine /\ Refused(text')
          BY <1>5, <3>1, <3>2, <4>1 DEF st
        <4>3. Refused(Written)
          <5>1. Written[k + 1] = ErrorLine
            BY <3>3, <4>2 DEF Written, st
          <5>2. Len(Written) = Cardinality(Ends)
            <6>1. Cardinality(Ends) \in Nat
              BY <1>3, EndsIn, BeforeIs
            <6> QED BY <6>1 DEF Written
          <5> QED BY <3>3, <5>1, <5>2 DEF Refused, Contains
        <4>4. phase' # "scan"
          BY <3>6
        <4> QED BY <4>2, <4>3, <4>4
      <3> QED BY <1>5, <3>5, <3>6
    <2> QED BY <2>6, <2>7
  <1>11. SplitText'
    <2>1. phase' # "split"
      BY <1>5
    <2> QED BY <2>1 DEF SplitText
  <1>12. ScanText'
    <2>1. phase' \notin {"read", "split"}
      BY <1>5
    <2>2. (Uniform /\ ColoursClosed)' /\ phase' = "scan" => (\E o, e : ScanAt(o, e))'
      BY <1>4, <1>10
    <2>3. Len(source') = Len(file')
      BY <1>1, <1>3
    <2> QED BY <1>4, <1>5, <2>1, <2>2, <2>3 DEF ScanText
  <1>13. DoneText'
    BY <1>1, <1>4, <1>10 DEF DoneText
  <1> QED BY <1>11, <1>12, <1>13

\* Behind the last character that is handed out the file has nothing to say.
LEMMA EndOfText ==
    ASSUME TypeInv, FileOK, ColoursClosed, Len(source) = Len(file), cursor >= current,
           NEW o, NEW E, ScanAt(o, E), AsWritten(E)
    PROVE  Written \in {text, Append(text, <<>>)}
  <1>1. /\ current \in Nat /\ cursor \in Nat /\ current = Len(file)
    BY DEF TypeInv, current
  <1>2. /\ Origins(o, source, Len(file))
        /\ E \in Nat /\ E <= Len(file) /\ (E = 0 \/ E \in Ends)
        /\ \A p \in 1 .. Len(file) : source[p] # NUL => (p <= cursor <=> o[p] <= E)
    BY <1>1 DEF ScanAt
  <1>3. /\ Len(file) \in Nat /\ DOMAIN file = 1 .. Len(file)
        /\ Ends \subseteq 1 .. Len(file) /\ Breaks \subseteq Ends /\ Len(file) \in Ends
        /\ \A p \in Ends : p < Len(file) => p \in Breaks
        /\ \A p \in 1 .. Len(file) : p \in Breaks <=> file[p] = LineBreak
    BY EndsIn
  <1>4. \A x \in Ends : x <= Len(file)
    BY <1>3
  <1>5. ASSUME NEW v \in Stays PROVE v <= E
    <2>1. v \in 1 .. Len(file) /\ v <= Len(file)
      BY <1>3 DEF Stays
    <2>2. PICK p \in 1 .. Len(file) : source[p] # NUL /\ o[p] = v
      BY <1>2, <2>1 DEF Origins
    <2>3. p <= cursor
      BY <1>1, <2>2
    <2> QED BY <1>2, <2>2, <2>3
  <1>6. ASSUME NEW x \in Breaks PROVE x <= E
    <2>1. PICK p \in 1 .. Len(file) : source[p] = LF /\ o[p] = x
      BY <1>2, BreakFeeds
    <2>2. source[p] # NUL /\ p <= cursor
      BY <1>1, <2>1 DEF LF, NUL
    <2> QED BY <1>2, <2>1, <2>2
  <1> DEFINE k == Cardinality({x \in Ends : x <= E})
             m == Cardinality(Ends)
  <1>7. Len(text) = k /\ \A i \in 1 .. k : text[i] = Statement(LineAt(Nth(Ends, i)))
    BY DEF AsWritten
  <1>8. PICK S : text \in Seq(S)
    BY DEF TypeInv
  <1>9. m \in Nat
    BY <1>3, BeforeIs
  <1>10. Written = [i \in 1 .. m |-> Statement(LineAt(Nth(Ends, i)))]
    BY DEF Written
  <1> HIDE DEF k, m
  <1>11. Len(Written) = m /\ DOMAIN Written = 1 .. m
    BY <1>9, <1>10
  <1>12. CASE E = Len(file)
    <2>1. {x \in Ends : x <= E} = Ends
      BY <1>12, <1>4
    <2>2. k = m
      BY <2>1 DEF k, m
    <2>3. text = [i \in 1 .. k |-> text[i]]
      BY <1>7, <1>8
    <2>4. Written = text
      BY <1>7, <1>10, <2>2, <2>3
    <2> QED BY <2>4
  <1>13. CASE E # Len(file)
    <2> DEFINE end == Len(file)
               L == LineAt(end)
    <2>1. E < end /\ end \in Ends /\ end \notin Breaks /\ file[end] # LineBreak
      <3>1. E < end
        BY <1>2, <1>3, <1>13
      <3>2. end \notin Breaks
        BY <1>2, <1>3, <1>6, <3>1
      <3>3. end \in 1 .. Len(file)
        BY <1>3
      <3> QED BY <1>3, <3>1, <3>2, <3>3
    <2>2. Previous(E, end)
      <3>1. ASSUME NEW x \in Ends, x < end PROVE x <= E
        BY <1>3, <1>6, <3>1
      <3> QED BY <1>2, <2>1, <3>1 DEF Previous
    <2>3. k + 1 = m /\ Nth(Ends, k + 1) = end /\ k \in Nat
      <3>1. /\ k \in Nat /\ Nth(Ends, k + 1) = end
            /\ Cardinality({x \in Ends : x <= end}) = k + 1
        BY <2>1, <2>2, RankNext DEF k
      <3>2. {x \in Ends : x <= end} = Ends
        BY <1>4
      <3> QED BY <3>1, <3>2 DEF m
    <2>4. /\ L \in Seq(Chars) /\ DOMAIN L = 1 .. end - E /\ end - E \in Nat
          /\ \A j \in 1 .. end - E : L[j] = file[E + j]
      <3>1. LET last == IF file[end] = LineBreak THEN end - 1 ELSE end
            IN  /\ L \in Seq(Chars) /\ last - E \in Nat
                /\ DOMAIN L = 1 .. last - E
                /\ \A j \in 1 .. last - E : L[j] = file[E + j]
        <4> HIDE DEF end
        <4> QED BY <2>1, <2>2, LineAtIs
      <3>2. (IF file[end] = LineBreak THEN end - 1 ELSE end) = end
        BY <2>1
      <3> HIDE DEF end, L
      <3> QED BY <3>1, <3>2
    <2> HIDE DEF L
    <2>5. ASSUME NEW j \in DOMAIN L PROVE Coloured(L, j)
      <3> SUFFICES ASSUME ~Coloured(L, j) PROVE FALSE
        OBVIOUS
      <3> DEFINE c == end - E
      <3>1. c \in Nat /\ j \in 1 .. c + 1 /\ j # c + 1 /\ \A i \in 1 .. c : L[i] = file[E + i]
        BY <2>4
      <3>2. E + j \in 1 .. Len(file) /\ ~(E + j <= E)
        BY <1>2, <1>3, <2>4
      <3> HIDE DEF c
      <3>3. ~Coloured(file, E + j)
        BY <1>2, <3>1, ColouredPart
      <3>4. E + j \notin Stays
        BY <1>5, <3>2
      <3>5. E + j + 1 \in Breaks
        BY <1>3, <3>2, <3>3, <3>4 DEF Stays
      <3> QED BY <1>2, <1>6, <2>4, <3>5
    <2>6. Statement(L) = <<>>
      <3> DEFINE hash == {p \in DOMAIN L : L[p] = Hash /\ ~Coloured(L, p)}
                 shown == {p \in DOMAIN L : /\ ~Coloured(L, p) /\ L[p] # CR
                                            /\ \A h \in hash : p < h}
                 chars == Pick(L, shown)
      <3>1. Statement(L) = IF Contains(chars, Bad) THEN ErrorLine ELSE chars
        BY DEF Statement
      <3>2. shown = {}
        BY <2>5
      <3>3. chars = <<>>
        <4>1. Cardinality({}) = 0
          BY FS_EmptySet
        <4> HIDE DEF shown
        <4> QED BY <3>2, <4>1 DEF Pick
      <3> HIDE DEF chars
      <3>4. ~Contains(chars, Bad)
        BY <3>3 DEF Contains
      <3> QED BY <3>1, <3>3, <3>4
    <2>7. /\ Append(text, <<>>) \in Seq(S \cup {<<>>}) /\ Len(Append(text, <<>>)) = k + 1
          /\ \A i \in 1 .. k : Append(text, <<>>)[i] = text[i]
          /\ Append(text, <<>>)[k + 1] = <<>>
      BY <1>7, <1>8, Appended
    <2> DEFINE a == Append(text, <<>>)
    <2> HIDE DEF a, end
    <2>8. a = [i \in 1 .. m |-> a[i]]
      <3>1. a \in Seq(S \cup {<<>>}) /\ Len(a) = m
        BY <2>3, <2>7 DEF a
      <3> QED BY <3>1
    <2>9. ASSUME NEW i \in 1 .. m PROVE a[i] = Statement(LineAt(Nth(Ends, i)))
      <3>1. CASE i = k + 1
        BY <2>3, <2>6, <2>7, <3>1 DEF a, L
      <3>2. CASE i # k + 1
        <4>1. i \in 1 .. k
          BY <1>9, <2>3, <3>2
        <4> QED BY <1>7, <2>7, <4>1 DEF a
      <3> QED BY <3>1, <3>2
    <2>10. Written = a
      BY <1>10, <2>8, <2>9
    <2> QED BY <2>10 DEF a
  <1> QED BY <1>12, <1>13

\* At the end of the source the text is complete.
LEMMA ParseEofText ==
    ASSUME TextInv, ParseEof
    PROVE  SplitText' /\ ScanText' /\ DoneText'
  <1>1. /\ phase = "scan" /\ cursor >= current /\ phase' = "done"
        /\ source' = source /\ file' = file /\ file_type' = file_type /\ text' = text
    BY DEF ParseEof
  <1>2. Inv /\ TypeInv /\ ScanText
    BY DEF TextInv, Inv
  <1>3. FileOK /\ Len(source) = Len(file)
    BY <1>1, <1>2 DEF ScanText
  <1>4. /\ Written' = Written /\ LineBreak' = LineBreak
        /\ (Uniform /\ ColoursClosed)' <=> Uniform /\ ColoursClosed
    BY <1>1, <1>3, SameFile
  <1>5. ASSUME Uniform, ColoursClosed
        PROVE  \/ Written \in {text, Append(text, <<>>)}
               \/ Refused(text) /\ (file[Len(file)] # LineBreak \/ Refused(Written))
    <2>1. PICK o, E : ScanAt(o, E)
      BY <1>1, <1>2, <1>5 DEF ScanText
    <2>2. AsWritten(E) \/ (Refused(text) /\ file[Len(file)] # LineBreak)
      BY <2>1 DEF ScanAt
    <2>3. AsWritten(E) => Written \in {text, Append(text, <<>>)}
      BY <1>1, <1>2, <1>3, <1>5, <2>1, EndOfText
    <2> QED BY <2>2, <2>3
  <1>6. SplitText' /\ ScanText'
    BY <1>1 DEF SplitText, ScanText
  <1>7. DoneText'
    BY <1>1, <1>4, <1>5 DEF DoneText
  <1> QED BY <1>6, <1>7

\* A step that changes nothing keeps it.
LEMMA SameText ==
    ASSUME TextInv, UNCHANGED vars
    PROVE  SplitText' /\ ScanText' /\ DoneText'
  <1>1. /\ phase' = phase /\ source' = source /\ file_type' = file_type /\ file' = file
        /\ line_start' = line_start /\ cursor' = cursor /\ unknown_count' = unknown_count
        /\ text' = text
    BY DEF vars
  <1>2. /\ Breaks' = Breaks /\ Stays' = Stays /\ Ends' = Ends /\ LineBreak' = LineBreak
        /\ Written' = Written /\ current' = current
        /\ \A e : LineAt(e)' = LineAt(e)
        /\ FileOK' <=> FileOK
        /\ (Uniform /\ ColoursClosed)' <=> Uniform /\ ColoursClosed
    BY <1>1, SameFile DEF current
  <1>3. SplitText'
    <2>1. ASSUME NEW o, Origins(o, source, line_start - 1)
          PROVE  Origins(o, source, line_start - 1)'
      BY <1>1, <1>2, <2>1 DEF Origins
    <2>2. (\E o : Origins(o, source, line_start - 1)) => (\E o : Origins(o, source, line_start - 1))'
      BY <2>1
    <2>3. SplitText
      BY DEF TextInv
    <2> QED BY <1>1, <1>2, <2>2, <2>3 DEF SplitText
  <1>4. ScanText'
    <2>1. ASSUME NEW o, NEW E, ScanAt(o, E) PROVE ScanAt(o, E)'
      <3>1. Origins(o, source, current)'
        BY <1>1, <1>2, <2>1 DEF ScanAt, Origins
      <3>2. AsWritten(E) => AsWritten(E)'
        BY <1>1, <1>2 DEF AsWritten
      <3> QED BY <1>1, <1>2, <2>1, <3>1, <3>2 DEF ScanAt
    <2>2. (\E o, E : ScanAt(o, E)) => (\E o, E : ScanAt(o, E))'
      BY <2>1
    <2>3. ScanText
      BY DEF TextInv
    <2> QED BY <1>1, <1>2, <2>2, <2>3 DEF ScanText
  <1>5. DoneText'
    <2>1. DoneText
      BY DEF TextInv
    <2> QED BY <1>1, <1>2, <2>1 DEF DoneText
  <1> QED BY <1>3, <1>4, <1>5

\* While the file is read there is nothing to say of it.
LEMMA ReadText ==
    ASSUME TextInv, ReadFails \/ \E chunk \in Chunks : Read(chunk)
    PROVE  SplitText' /\ ScanText' /\ DoneText'
  <1>1. phase = "read" /\ phase' \in {"read", "exit"} /\ unknown_count' = unknown_count
    BY DEF ReadFails, Read, Unsplit
  <1>2. ScanText
    BY DEF TextInv
  <1> QED BY <1>1, <1>2 DEF SplitText, ScanText, DoneText

\* The invariant holds of every file, however it is read.
THEOREM TextInvCorrect == Spec => []TextInv
  <1>1. Init => TextInv
    BY InitText
  <1>2. TextInv /\ [Next]_vars => TextInv'
    <2> SUFFICES ASSUME TextInv, [Next]_vars PROVE TextInv'
      OBVIOUS
    <2>1. Inv'
      BY NextInv DEF TextInv
    <2>2. SplitText' /\ ScanText' /\ DoneText'
      <3>1. CASE ReadFails \/ \E chunk \in Chunks : Read(chunk)
        BY <3>1, ReadText
      <3>2. CASE ReadEnd
        BY <3>2, ReadEndText
      <3>3. CASE SplitLine
        BY <3>3, SplitLineText
      <3>4. CASE SplitEnd
        BY <3>4, SplitEndText
      <3>5. CASE ParseLine
        BY <3>5, ParseLineText
      <3>6. CASE ParseEof
        BY <3>6, ParseEofText
      <3>7. CASE Terminated \/ UNCHANGED vars
        BY <3>7, SameText DEF Terminated
      <3> QED BY <3>1, <3>2, <3>3, <3>4, <3>5, <3>6, <3>7 DEF Next
    <2> QED BY <2>1, <2>2 DEF TextInv
  <1> QED BY <1>1, <1>2, PTL DEF Spec

\* Whatever the line breaks of a file, its colours, the pieces it is read in and
\* the zeros that are left in it, a text that no line is refused of is what the
\* file says, line by line (process_source, clear_color, next_line, scan_token).
THEOREM AcceptedAsWrittenCorrect == Spec => []AcceptedAsWritten
  <1>1. TextInv => AcceptedAsWritten
    BY DEF TextInv, DoneText, AcceptedAsWritten
  <1> QED BY <1>1, TextInvCorrect, PTL

\* Colours and line breaks make no line of a text an error that ends in a line
\* break: if what is written without them has none, none is refused
\* (process_source, clear_color, next_line, scan_token).
THEOREM ColoursDiscardedCorrect == Spec => []ColoursDiscarded
  <1>1. TextInv => ColoursDiscarded
    <2> SUFFICES ASSUME TextInv, phase = "done", Uniform, ColoursClosed,
                        file[Len(file)] = LineBreak, ~Refused(Written), Refused(text)
                 PROVE  FALSE
      BY DEF ColoursDiscarded
    <2>1. Written \in {text, Append(text, <<>>)}
      BY DEF TextInv, DoneText
    <2>2. PICK S : text \in Seq(S)
      BY DEF TextInv, Inv, TypeInv
    <2>3. Refused(Append(text, <<>>))
      BY <2>2, Appended
    <2> QED BY <2>1, <2>3
  <1> QED BY <1>1, TextInvCorrect, PTL
=============================================================================
