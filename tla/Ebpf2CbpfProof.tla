-------------------------- MODULE Ebpf2CbpfProof --------------------------
(***************************************************************************)
(* Ebpf2Cbpf: the conversion stays inside its arrays whatever part of a    *)
(* filter it is given, and it refuses no filter the kernel made, for every *)
(* acceptable filter, every random word of the JIT and every cut of a      *)
(* file.                                                                   *)
(*                                                                         *)
(* Both rest on what the kernel's filter looks like.  It is the prologue   *)
(* and one body per classic instruction, one behind the other: FlattenSeq  *)
(* is taken by its steps (FlattenParts), every body has one of the shapes  *)
(* of Shape whether its constants are hidden or not (MakesBody), and its   *)
(* jumps go to the start of a later body (Resolved).  KernelFramed says it *)
(* of the array.  Where a set of numbers must have a first one, the least  *)
(* counterexample stands for an induction.                                 *)
(*                                                                         *)
(* InBounds needs that a round of pass 1 fits at any place whatever        *)
(* (FoldFits), as a file may be cut anywhere.  NeverRefused needs that     *)
(* pass 1 stands at the start of a body or at the jump that ends one       *)
(* (Aligned), and that from there it goes to such a place again, although  *)
(* it may take the first jump of the next body with it (AlignedFolds).     *)
(***************************************************************************)
EXTENDS Ebpf2Cbpf, SequenceTheorems, WellFoundedInduction, TLAPS

\* A set of numbers has a first one.
LEMMA FirstNumber ==
    ASSUME NEW T, T \in SUBSET Nat, T # {}
    PROVE  \E m \in T : \A k \in T : m <= k
  <1>1. PICK m \in T : \A k \in T : ~(<<k, m>> \in OpToRel(<, Nat))
    BY NatLessThanWellFounded, WFMin
  <1>2. ASSUME NEW k \in T PROVE m <= k
    <2>1. ~(k < m)
      BY <1>1 DEF OpToRel
    <2> QED
      BY <2>1
  <1> QED
    BY <1>2

---------------------------------------------------------------------------
(* FlattenSeq by its steps: where each part is in the whole.             *)

\* The steps of FlattenSeq over the first n of its parts.
Flattens(fl, seqs, n) ==
    \A m \in 1 .. n : fl[m] = IF m = 1 THEN seqs[m] ELSE fl[m - 1] \o seqs[m]

\* The steps can be taken: FlattenSeq has the recursive function it chooses.
LEMMA FlattenExists ==
    ASSUME NEW S, NEW seqs \in Seq(Seq(S)), NEW n \in 1 .. Len(seqs)
    PROVE  \E fl \in [1 .. n -> Seq(S)] : Flattens(fl, seqs, n)
  <1> DEFINE Good(m) == \E fl \in [1 .. m -> Seq(S)] : Flattens(fl, seqs, m)
             Bad == {m \in 1 .. Len(seqs) : ~Good(m)}
  <1> SUFFICES ASSUME Bad # {} PROVE FALSE
    OBVIOUS
  <1>1. PICK m \in Bad : \A k \in Bad : m <= k
    <2>1. Bad \in SUBSET Nat
      OBVIOUS
    <2> QED
      BY <2>1, FirstNumber
  <1>2. m \in 1 .. Len(seqs) /\ seqs[m] \in Seq(S) /\ m \in Nat /\ Len(seqs) \in Nat
    OBVIOUS
  <1>3. CASE m = 1
    <2>1. [k \in 1 .. 1 |-> seqs[1]] \in [1 .. m -> Seq(S)]
      BY <1>2, <1>3
    <2>2. Flattens([k \in 1 .. 1 |-> seqs[1]], seqs, m)
      BY <1>3 DEF Flattens
    <2>3. Good(m)
      BY <2>1, <2>2
    <2> QED
      BY <2>3
  <1>4. CASE m # 1
    <2>1. m - 1 \in 1 .. Len(seqs) /\ ~(m <= m - 1)
      BY <1>2, <1>4
    <2>0. m - 1 \notin Bad
      BY <1>1, <2>1
    <2>2. PICK fl \in [1 .. m - 1 -> Seq(S)] : Flattens(fl, seqs, m - 1)
      BY <2>0, <2>1
    <2> DEFINE gl == [k \in 1 .. m |-> IF k = m THEN fl[m - 1] \o seqs[m] ELSE fl[k]]
    <2>3. fl[m - 1] \in Seq(S)
      BY <2>1, <2>2
    <2>4. fl[m - 1] \o seqs[m] \in Seq(S)
      BY <2>3, <1>2, ConcatProperties
    <2>5. gl \in [1 .. m -> Seq(S)]
      <3>1. \A k \in 1 .. m : k # m => k \in 1 .. m - 1
        BY <1>2
      <3> QED
        BY <2>4, <3>1
    <2>6. Flattens(gl, seqs, m)
      <3> SUFFICES ASSUME NEW k \in 1 .. m
                   PROVE  gl[k] = IF k = 1 THEN seqs[k] ELSE gl[k - 1] \o seqs[k]
        BY DEF Flattens
      <3>1. CASE k = m
        <4>1. k - 1 \in 1 .. m /\ k - 1 # m
          BY <3>1, <1>2, <1>4
        <4> QED
          BY <3>1, <4>1, <1>4
      <3>2. CASE k # m
        <4>1. k \in 1 .. m - 1 /\ (k # 1 => k - 1 \in 1 .. m /\ k - 1 # m)
          BY <3>2, <1>2
        <4>2. fl[k] = IF k = 1 THEN seqs[k] ELSE fl[k - 1] \o seqs[k]
          BY <4>1, <2>2 DEF Flattens
        <4> QED
          BY <4>1, <4>2, <3>2
      <3> QED
        BY <3>1, <3>2
    <2>7. Good(m)
      BY <2>5, <2>6
    <2> QED
      BY <2>7
  <1> QED
    BY <1>3, <1>4

\* FlattenSeq by its steps.
LEMMA FlattenSteps ==
    ASSUME NEW S, NEW seqs \in Seq(Seq(S)), Len(seqs) > 0
    PROVE  \E fl \in [1 .. Len(seqs) -> Seq(S)] :
              Flattens(fl, seqs, Len(seqs)) /\ FlattenSeq(seqs) = fl[Len(seqs)]
  <1> DEFINE N == Len(seqs)
  <1>0. N \in Nat /\ N > 0
    OBVIOUS
  <1> HIDE DEF N
  <1>1. PICK wl \in [1 .. N -> Seq(S)] : Flattens(wl, seqs, N)
    BY <1>0, FlattenExists DEF N
  <1> DEFINE Is(fl) == fl = [n \in 1 .. Len(seqs) |-> IF n = 1 THEN seqs[n] ELSE fl[n - 1] \o seqs[n]]
             fl == CHOOSE f : Is(f)
  <1>2. wl = [n \in 1 .. N |-> IF n = 1 THEN seqs[n] ELSE wl[n - 1] \o seqs[n]]
    BY <1>1 DEF Flattens
  <1>3. Is(wl)
    BY <1>2 DEF N
  <1>4. Is(fl)
    BY <1>3
  <1>5. FlattenSeq(seqs) = fl[Len(seqs)]
    BY <1>0 DEF FlattenSeq, N
  <1> HIDE DEF fl
  <1>6. /\ fl = [n \in 1 .. N |-> fl[n]]
        /\ \A n \in 1 .. N : fl[n] = IF n = 1 THEN seqs[n] ELSE fl[n - 1] \o seqs[n]
    <2>1. fl = [n \in 1 .. N |-> IF n = 1 THEN seqs[n] ELSE fl[n - 1] \o seqs[n]]
      BY <1>4 DEF N
    <2> QED
      BY <2>1
  <1>7. Flattens(fl, seqs, N)
    BY <1>6 DEF Flattens
  <1>8. \A n \in 1 .. N : fl[n] = wl[n]
    <2> DEFINE Bad == {n \in 1 .. N : fl[n] # wl[n]}
    <2> SUFFICES ASSUME Bad # {} PROVE FALSE
      OBVIOUS
    <2>1. PICK m \in Bad : \A k \in Bad : m <= k
      <3>1. Bad \in SUBSET Nat
        BY <1>0
      <3> QED
        BY <3>1, FirstNumber
    <2>2. m # 1
      BY <1>1, <1>7 DEF Flattens
    <2>3. m - 1 \in 1 .. N /\ m - 1 \notin Bad
      BY <2>1, <2>2, <1>0
    <2> QED
      BY <2>2, <2>3, <1>1, <1>7 DEF Flattens
  <1>9. fl = wl
    <2>1. wl = [n \in 1 .. N |-> wl[n]]
      BY <1>1
    <2>2. [n \in 1 .. N |-> wl[n]] = [n \in 1 .. N |-> fl[n]]
      BY <1>8
    <2> QED
      BY <1>6, <2>1, <2>2
  <1> QED
    BY <1>1, <1>5, <1>9 DEF N

\* Where each part of a flattened sequence starts: base[n] elements come before
\* part n.
Bases(base, seqs) ==
    /\ base \in [1 .. Len(seqs) + 1 -> Nat]
    /\ base[1] = 0
    /\ \A n \in 1 .. Len(seqs) : base[n + 1] = base[n] + Len(seqs[n])

\* A flattened sequence is its parts, one behind the other, and nothing else.
Parts(base, seqs, flat) ==
    /\ Len(flat) = base[Len(seqs) + 1]
    /\ \A n \in 1 .. Len(seqs) : \A j \in 1 .. Len(seqs[n]) :
          base[n] + j \in 1 .. Len(flat) /\ flat[base[n] + j] = seqs[n][j]
    /\ \A q \in 1 .. Len(flat) : \E n \in 1 .. Len(seqs) : \E j \in 1 .. Len(seqs[n]) :
          q = base[n] + j

\* Every part lies in the whole where its base says, and nothing else does.
LEMMA FlattenParts ==
    ASSUME NEW S, NEW seqs \in Seq(Seq(S)), Len(seqs) > 0
    PROVE  /\ FlattenSeq(seqs) \in Seq(S)
           /\ \E base : Bases(base, seqs) /\ Parts(base, seqs, FlattenSeq(seqs))
  <1> DEFINE N == Len(seqs)
  <1>0. N \in Nat /\ N > 0 /\ \A n \in 1 .. N : seqs[n] \in Seq(S) /\ Len(seqs[n]) \in Nat
    BY LenProperties
  <1> HIDE DEF N
  <1>1. PICK fl \in [1 .. N -> Seq(S)] : Flattens(fl, seqs, N) /\ FlattenSeq(seqs) = fl[N]
    BY FlattenSteps DEF N
  <1> DEFINE base == [n \in 1 .. N + 1 |-> IF n = 1 THEN 0 ELSE Len(fl[n - 1])]
  <1>2. \A n \in 1 .. N : fl[n] \in Seq(S) /\ Len(fl[n]) \in Nat
    BY <1>1
  <1>3. \A n \in 1 .. N : n # 1 =>
           /\ n - 1 \in 1 .. N
           /\ fl[n] = fl[n - 1] \o seqs[n]
           /\ Len(fl[n]) = Len(fl[n - 1]) + Len(seqs[n])
           /\ \A q \in 1 .. Len(fl[n]) :
                 fl[n][q] = IF q <= Len(fl[n - 1]) THEN fl[n - 1][q] ELSE seqs[n][q - Len(fl[n - 1])]
    <2> SUFFICES ASSUME NEW n \in 1 .. N, n # 1
                 PROVE  /\ n - 1 \in 1 .. N
                        /\ fl[n] = fl[n - 1] \o seqs[n]
                        /\ Len(fl[n]) = Len(fl[n - 1]) + Len(seqs[n])
                        /\ \A q \in 1 .. Len(fl[n]) :
                              fl[n][q] = IF q <= Len(fl[n - 1]) THEN fl[n - 1][q]
                                         ELSE seqs[n][q - Len(fl[n - 1])]
      OBVIOUS
    <2>1. n - 1 \in 1 .. N
      BY <1>0
    <2>2. fl[n] = fl[n - 1] \o seqs[n]
      BY <1>1 DEF Flattens
    <2>3. fl[n - 1] \in Seq(S) /\ seqs[n] \in Seq(S)
      BY <2>1, <1>2, <1>0
    <2> DEFINE s1 == fl[n - 1]
               s2 == seqs[n]
    <2> HIDE DEF s1, s2
    <2>4. /\ Len(s1 \o s2) = Len(s1) + Len(s2)
          /\ \A q \in 1 .. Len(s1) + Len(s2) :
                (s1 \o s2)[q] = IF q <= Len(s1) THEN s1[q] ELSE s2[q - Len(s1)]
      BY <2>3, ConcatProperties DEF s1, s2
    <2>5. fl[n] = s1 \o s2
      BY <2>2 DEF s1, s2
    <2>6. /\ Len(fl[n]) = Len(s1) + Len(s2)
          /\ \A q \in 1 .. Len(fl[n]) :
                fl[n][q] = IF q <= Len(s1) THEN s1[q] ELSE s2[q - Len(s1)]
      BY <2>4, <2>5
    <2> QED
      BY <2>1, <2>2, <2>6 DEF s1, s2
  <1>4. fl[1] = seqs[1]
    <2>1. 1 \in 1 .. N
      BY <1>0
    <2> QED
      BY <1>1, <2>1 DEF Flattens
  <1>5. Bases(base, seqs)
    <2>1. base \in [1 .. N + 1 -> Nat]
      <3>1. \A n \in 1 .. N + 1 : n # 1 => n - 1 \in 1 .. N
        BY <1>0
      <3> QED
        BY <3>1, <1>2
    <2>2. base[1] = 0
      BY <1>0
    <2>3. ASSUME NEW n \in 1 .. N PROVE base[n + 1] = base[n] + Len(seqs[n])
      <3>1. n + 1 \in 1 .. N + 1 /\ n \in 1 .. N + 1 /\ n + 1 # 1 /\ n + 1 - 1 = n
        BY <1>0
      <3>2. base[n + 1] = Len(fl[n])
        BY <3>1
      <3>3. CASE n = 1
        BY <3>3, <3>2, <2>2, <1>4, <1>0
      <3>4. CASE n # 1
        <4>1. base[n] = Len(fl[n - 1])
          BY <3>4, <3>1
        <4> QED
          BY <4>1, <3>4, <3>2, <1>3
      <3> QED
        BY <3>3, <3>4
    <2> HIDE DEF base
    <2> QED
      BY <2>1, <2>2, <2>3 DEF Bases, N
  <1>6. \A n \in 1 .. N : base[n + 1] = Len(fl[n])
    <2>1. \A n \in 1 .. N : n + 1 \in 1 .. N + 1 /\ n + 1 # 1 /\ n + 1 - 1 = n
      BY <1>0
    <2> QED
      BY <2>1
  <1> DEFINE L(n) == Len(fl[n])
             P(n) == Len(seqs[n])
  <1>b. /\ base[1] = 0 /\ L(1) = P(1)
        /\ \A n \in 1 .. N : base[n] \in Nat /\ L(n) \in Nat /\ P(n) \in Nat
        /\ \A n \in 1 .. N : n # 1 => base[n] = L(n - 1) /\ L(n) = L(n - 1) + P(n)
    <2>1. \A n \in 1 .. N : n \in 1 .. N + 1
      BY <1>0
    <2>2. \A n \in 1 .. N : n # 1 => base[n] = Len(fl[n - 1])
      BY <2>1
    <2>3. base[1] = 0 /\ \A n \in 1 .. N : base[n] \in Nat
      BY <1>5, <2>1, <1>0 DEF Bases, N
    <2> HIDE DEF base
    <2> QED
      BY <2>2, <2>3, <1>0, <1>2, <1>3, <1>4
  <1>c. \A n \in 1 .. N : n # 1 => \A q \in 1 .. L(n) :
            fl[n][q] = IF q <= L(n - 1) THEN fl[n - 1][q] ELSE seqs[n][q - L(n - 1)]
    BY <1>3
  <1> DEFINE Covers(n) ==
        /\ \A k \in 1 .. n : \A j \in 1 .. P(k) :
              base[k] + j \in 1 .. L(n) /\ fl[n][base[k] + j] = seqs[k][j]
        /\ \A q \in 1 .. L(n) : \E k \in 1 .. n : \E j \in 1 .. P(k) : q = base[k] + j
  <1> HIDE DEF base, L, P
  <1>7. Covers(1)
    <2>1. ASSUME NEW k \in 1 .. 1, NEW j \in 1 .. P(k)
          PROVE  base[k] + j \in 1 .. L(1) /\ fl[1][base[k] + j] = seqs[k][j]
      BY <1>b, <1>4, <1>0
    <2>2. ASSUME NEW q \in 1 .. L(1)
          PROVE  \E k \in 1 .. 1 : \E j \in 1 .. P(k) : q = base[k] + j
      <3>1. q \in 1 .. P(1) /\ q = base[1] + q /\ 1 \in 1 .. 1
        BY <1>b, <1>4, <1>0
      <3> QED
        BY <3>1
    <2> QED
      BY <2>1, <2>2
  <1>8. ASSUME NEW n \in 1 .. N, n # 1, Covers(n - 1) PROVE Covers(n)
    <2>0. /\ n - 1 \in 1 .. N /\ base[n] = L(n - 1) /\ L(n - 1) \in Nat
          /\ L(n) = L(n - 1) + P(n) /\ P(n) \in Nat /\ n \in 1 .. n
      BY <1>8, <1>b, <1>0
    <2>c. \A q \in 1 .. L(n) :
            fl[n][q] = IF q <= L(n - 1) THEN fl[n - 1][q] ELSE seqs[n][q - L(n - 1)]
      BY <1>8, <1>c
    <2>1. ASSUME NEW k \in 1 .. n, NEW j \in 1 .. P(k)
          PROVE  base[k] + j \in 1 .. L(n) /\ fl[n][base[k] + j] = seqs[k][j]
      <3>1. CASE k = n
        <4> DEFINE q == base[n] + j
        <4>1. q \in 1 .. L(n) /\ ~(q <= L(n - 1)) /\ q - L(n - 1) = j
          BY <2>0, <3>1
        <4> HIDE DEF q
        <4>2. fl[n][q] = seqs[n][q - L(n - 1)]
          BY <4>1, <2>c
        <4>3. q \in 1 .. L(n) /\ fl[n][q] = seqs[n][j]
          BY <4>1, <4>2
        <4> QED
          BY <4>3, <3>1 DEF q
      <3>2. CASE k # n
        <4>1. k \in 1 .. n - 1
          BY <3>2
        <4>2. base[k] + j \in 1 .. L(n - 1) /\ fl[n - 1][base[k] + j] = seqs[k][j]
          BY <4>1, <1>8
        <4>3. base[k] + j \in 1 .. L(n) /\ base[k] + j <= L(n - 1)
          BY <4>2, <2>0
        <4> QED
          BY <4>2, <4>3, <2>c
      <3> QED
        BY <3>1, <3>2
    <2>2. ASSUME NEW q \in 1 .. L(n)
          PROVE  \E k \in 1 .. n : \E j \in 1 .. P(k) : q = base[k] + j
      <3>1. CASE q <= L(n - 1)
        <4>1. q \in 1 .. L(n - 1)
          BY <3>1, <2>0
        <4>2. PICK k \in 1 .. n - 1 : \E j \in 1 .. P(k) : q = base[k] + j
          BY <4>1, <1>8
        <4>3. k \in 1 .. n
          BY <2>0
        <4> QED
          BY <4>2, <4>3
      <3>2. CASE ~(q <= L(n - 1))
        <4>1. q - L(n - 1) \in 1 .. P(n) /\ q = base[n] + (q - L(n - 1))
          BY <3>2, <2>0
        <4> QED
          BY <4>1, <2>0
      <3> QED
        BY <3>1, <3>2
    <2> QED
      BY <2>1, <2>2
  <1> HIDE DEF Covers
  <1>9. Covers(N)
    <2> DEFINE Bad == {n \in 1 .. N : ~Covers(n)}
    <2>0. N \in 1 .. N
      BY <1>0
    <2> SUFFICES ASSUME Bad # {} PROVE FALSE
      BY <2>0
    <2>1. PICK m \in Bad : \A k \in Bad : m <= k
      <3>1. Bad \in SUBSET Nat
        BY <1>0
      <3> QED
        BY <3>1, FirstNumber
    <2>2. m # 1
      BY <1>7
    <2>3. m - 1 \in 1 .. N /\ ~(m <= m - 1)
      BY <2>2, <1>0
    <2>4. m - 1 \notin Bad
      BY <2>1, <2>3
    <2>5. Covers(m - 1)
      BY <2>3, <2>4
    <2> QED
      BY <2>2, <2>5, <1>8
  <1>10. Parts(base, seqs, FlattenSeq(seqs))
    <2>1. Len(FlattenSeq(seqs)) = base[N + 1]
      BY <1>1, <1>6, <1>0
    <2> QED
      BY <2>1, <1>9, <1>1 DEF Parts, Covers, L, P, N
  <1> QED
    BY <1>5, <1>10, <1>1, <1>0

\* The parts come in the order of their numbers, and none of them overlap.
LEMMA BasesGrow ==
    ASSUME NEW S, NEW seqs \in Seq(Seq(S)), NEW base, Bases(base, seqs),
           NEW m \in 1 .. Len(seqs) + 1, NEW n \in m .. Len(seqs) + 1
    PROVE  /\ base[m] <= base[n]
           /\ m < n => base[m] + Len(seqs[m]) <= base[n]
  <1> DEFINE N == Len(seqs)
  <1>0. N \in Nat /\ \A k \in 1 .. N : Len(seqs[k]) \in Nat
    BY LenProperties
  <1> HIDE DEF N
  <1>1. /\ \A k \in 1 .. N + 1 : base[k] \in Nat
        /\ \A k \in 1 .. N : base[k + 1] = base[k] + Len(seqs[k])
    BY DEF Bases, N
  <1>2. ASSUME NEW a \in 1 .. N + 1, NEW b \in a .. N + 1 PROVE base[a] <= base[b]
    <2> DEFINE Bad == {k \in a .. N + 1 : ~(base[a] <= base[k])}
    <2> SUFFICES ASSUME Bad # {} PROVE FALSE
      BY <1>0
    <2>1. PICK k \in Bad : \A l \in Bad : k <= l
      <3>1. Bad \in SUBSET Nat
        BY <1>0
      <3> QED
        BY <3>1, FirstNumber
    <2>2. k # a
      BY <1>1
    <2>3. k - 1 \in a .. N + 1 /\ ~(k <= k - 1) /\ k - 1 \in 1 .. N /\ k - 1 + 1 = k
      BY <2>2, <1>0
    <2>4. base[a] <= base[k - 1]
      BY <2>1, <2>3
    <2>5. base[k] = base[k - 1] + Len(seqs[k - 1])
      BY <1>1, <2>3
    <2>6. base[k - 1] \in Nat /\ base[a] \in Nat /\ Len(seqs[k - 1]) \in Nat
      BY <1>0, <1>1, <2>3
    <2> QED
      BY <2>4, <2>5, <2>6
  <1>3. base[m] <= base[n]
    BY <1>2 DEF N
  <1>4. ASSUME m < n PROVE base[m] + Len(seqs[m]) <= base[n]
    <2>1. m \in 1 .. N /\ m + 1 \in 1 .. N + 1 /\ n \in m + 1 .. N + 1
      BY <1>4, <1>0 DEF N
    <2> QED
      BY <2>1, <1>1, <1>2
  <1> QED
    BY <1>3, <1>4

---------------------------------------------------------------------------
(* What the kernel makes of one classic instruction.                     *)

\* The classes, operations and registers of the instructions the kernel makes.
Clss == {"LD", "LDX", "STX", "ALU", "ALU64", "JMP"}
Ops  == {"MEM", "MOV", "ADD", "XOR", "LSH", "DIV", "JA", "EXIT",
         "JEQ", "JGT", "JGE", "JSET", "JNE", "JLE", "JLT"}
Regs == {"A", "X", "CTX", "ARG1", "FP", "TMP", "AX"}
\* An instruction the kernel makes (struct bpf_insn).
EbpfInsn == [cls : Clss, op : Ops, src : {"K", "X"}, dst : Regs, sreg : Regs,
             off : Int, imm : Word]
\* The conditional jumps, and the arithmetic a classic filter has.
CondOps == {"JEQ", "JGT", "JGE", "JSET", "JNE", "JLE", "JLT"}
AluOps == {"ADD", "XOR", "LSH", "DIV"}

\* What bpf_convert_filter makes of a division by X, guard included.
Division ==
    <<Ebpf("ALU", "MOV", "X", "X", "X", 0, 0), Ebpf("JMP", "JNE", "K", "X", "A", 2, 0),
      Ebpf("ALU", "XOR", "X", "A", "A", 0, 0), Exit,
      Ebpf("ALU", "DIV", "X", "A", "X", 0, 0)>>

\* Concatenations of one and two instructions, by their elements.
LEMMA ConcatOne ==
    ASSUME NEW a, NEW b
    PROVE  <<a>> \o <<b>> = <<a, b>>
  <1> DEFINE S == {a, b}
             s1 == <<a>>
             s2 == <<b>>
             s3 == <<a, b>>
  <1>1. /\ s1 \in Seq(S) /\ s2 \in Seq(S) /\ s3 \in Seq(S)
        /\ Len(s1) = 1 /\ Len(s2) = 1 /\ Len(s3) = 2
        /\ s1[1] = a /\ s2[1] = b
        /\ s3[1] = a /\ s3[2] = b
    OBVIOUS
  <1> HIDE DEF S, s1, s2, s3
  <1>2. /\ s1 \o s2 \in Seq(S) /\ Len(s1 \o s2) = 2
        /\ \A n \in 1 .. 2 : (s1 \o s2)[n] = IF n <= 1 THEN s1[n] ELSE s2[n - 1]
    <2>1. /\ s1 \o s2 \in Seq(S) /\ Len(s1 \o s2) = Len(s1) + Len(s2)
          /\ \A n \in 1 .. Len(s1) + Len(s2) :
                (s1 \o s2)[n] = IF n <= Len(s1) THEN s1[n] ELSE s2[n - Len(s1)]
      BY <1>1, ConcatProperties
    <2>2. Len(s1) + Len(s2) = 2
      BY <1>1
    <2> QED
      BY <1>1, <2>1, <2>2
  <1>3. (s1 \o s2)[1] = a /\ (s1 \o s2)[2] = b
    BY <1>1, <1>2
  <1>4. \A n \in 1 .. 2 : n = 1 \/ n = 2
    OBVIOUS
  <1>5. \A n \in 1 .. 2 : (s1 \o s2)[n] = s3[n]
    BY <1>1, <1>3, <1>4
  <1>6. s1 \o s2 = s3
    BY <1>1, <1>2, <1>5, SeqEqual
  <1> QED
    BY <1>6 DEF s1, s2, s3
LEMMA ConcatTwo ==
    ASSUME NEW a, NEW b, NEW c
    PROVE  <<a>> \o <<b, c>> = <<a, b, c>>
  <1> DEFINE S == {a, b, c}
             s1 == <<a>>
             s2 == <<b, c>>
             s3 == <<a, b, c>>
  <1>1. /\ s1 \in Seq(S) /\ s2 \in Seq(S) /\ s3 \in Seq(S)
        /\ Len(s1) = 1 /\ Len(s2) = 2 /\ Len(s3) = 3
        /\ s1[1] = a /\ s2[1] = b /\ s2[2] = c
        /\ s3[1] = a /\ s3[2] = b /\ s3[3] = c
    OBVIOUS
  <1> HIDE DEF S, s1, s2, s3
  <1>2. /\ s1 \o s2 \in Seq(S) /\ Len(s1 \o s2) = 3
        /\ \A n \in 1 .. 3 : (s1 \o s2)[n] = IF n <= 1 THEN s1[n] ELSE s2[n - 1]
    <2>1. /\ s1 \o s2 \in Seq(S) /\ Len(s1 \o s2) = Len(s1) + Len(s2)
          /\ \A n \in 1 .. Len(s1) + Len(s2) :
                (s1 \o s2)[n] = IF n <= Len(s1) THEN s1[n] ELSE s2[n - Len(s1)]
      BY <1>1, ConcatProperties
    <2>2. Len(s1) + Len(s2) = 3
      BY <1>1
    <2> QED
      BY <1>1, <2>1, <2>2
  <1>3. (s1 \o s2)[1] = a /\ (s1 \o s2)[2] = b /\ (s1 \o s2)[3] = c
    BY <1>1, <1>2
  <1>4. \A n \in 1 .. 3 : n = 1 \/ n = 2 \/ n = 3
    OBVIOUS
  <1>5. \A n \in 1 .. 3 : (s1 \o s2)[n] = s3[n]
    BY <1>1, <1>3, <1>4
  <1>6. s1 \o s2 = s3
    BY <1>1, <1>2, <1>5, SeqEqual
  <1> QED
    BY <1>6 DEF s1, s2, s3
LEMMA ConcatNone ==
    ASSUME NEW a, NEW b
    PROVE  <<>> \o <<a>> = <<a>> /\ <<>> \o <<a, b>> = <<a, b>>
  <1>1. <<a>> \in Seq({a, b}) /\ <<a, b>> \in Seq({a, b})
    OBVIOUS
  <1> QED
    BY <1>1, ConcatEmptySeq

\* What bpf_convert_filter makes of a conditional jump: at most a move of a
\* large constant, the jump, and an explicit jump for the other way.
LEMMA ConvertBranch ==
    ASSUME NEW p \in Seq(ClassicInsn), Acceptable(p), NEW c \in DOMAIN p,
           p[c].cls = "JMP", p[c].op # "JA"
    PROVE  \E op \in CondOps, src \in {"K", "X"}, sreg \in {"A", "X", "TMP"}, k \in Word,
              to \in c + 1 .. Len(p), jf \in c + 1 .. Len(p) :
              LET jxx == Jump(op, src, sreg, k, to)
                  ja  == Jump("JA", "K", "A", 0, jf)
              IN  \/ Convert(p, c) \in {<<jxx>>, <<jxx, ja>>}
                  \/ src = "X" /\ \E large \in Word :
                       Convert(p, c) \in {<<Mov("TMP", large), jxx>>, <<Mov("TMP", large), jxx, ja>>}
  <1> DEFINE f == p[c]
  <1>1. /\ f.cls = "JMP" /\ f.op \in {"JEQ", "JGT", "JGE", "JSET"} /\ f.src \in {"K", "X"}
        /\ f.k \in Word /\ f.jt \in Nat /\ f.jf \in Nat
    <2>1. f \in ClassicInsn
      OBVIOUS
    <2> QED
      BY <2>1 DEF ClassicInsn, Stmts
  <1>2. c + 1 + f.jt \in c + 1 .. Len(p) /\ c + 1 + f.jf \in c + 1 .. Len(p)
    <2>1. c + 1 + f.jt <= Len(p) /\ c + 1 + f.jf <= Len(p)
      BY DEF Acceptable
    <2> QED
      BY <2>1, <1>1
  <1> DEFINE large == f.src = "K" /\ Negative(f.k)
             Jxx(op, to) == IF large THEN Jump(op, "X", "TMP", 0, to)
                       ELSE Jump(op, f.src, IF f.src = "X" THEN "X" ELSE "A",
                                 IF f.src = "X" THEN 0 ELSE f.k, to)
             jt == c + 1 + f.jt
             jf == c + 1 + f.jf
             opposite == [JEQ |-> "JNE", JGT |-> "JLE", JGE |-> "JLT"]
             tail == CASE f.jf = 0 -> <<Jxx(f.op, jt)>>
                       [] f.jf # 0 /\ f.jt = 0 /\ f.op # "JSET" -> <<Jxx(opposite[f.op], jf)>>
                       [] OTHER -> <<Jxx(f.op, jt), Jump("JA", "K", "A", 0, jf)>>
  <1>3. Convert(p, c) = (IF large THEN <<Mov("TMP", f.k)>> ELSE <<>>) \o tail
    BY <1>1 DEF Convert
  <1>4. \E op \in CondOps, to \in c + 1 .. Len(p) :
            tail \in {<<Jxx(op, to)>>, <<Jxx(op, to), Jump("JA", "K", "A", 0, jf)>>}
    <2>1. CASE f.jf = 0
      BY <2>1, <1>1, <1>2 DEF CondOps
    <2>2. CASE f.jf # 0 /\ f.jt = 0 /\ f.op # "JSET"
      <3>1. opposite[f.op] \in CondOps
        BY <2>2, <1>1 DEF CondOps
      <3>2. tail = <<Jxx(opposite[f.op], jf)>>
        BY <2>2
      <3> HIDE DEF Jxx, opposite, jf, tail
      <3>3. jf \in c + 1 .. Len(p)
        BY <1>2 DEF jf
      <3> QED
        BY <3>1, <3>2, <3>3
    <2>3. CASE f.jf # 0 /\ ~(f.jt = 0 /\ f.op # "JSET")
      <3>1. tail = <<Jxx(f.op, jt), Jump("JA", "K", "A", 0, jf)>>
        BY <2>3
      <3> HIDE DEF Jxx, opposite, jt, jf, tail
      <3>2. f.op \in CondOps /\ jt \in c + 1 .. Len(p)
        BY <1>1, <1>2 DEF CondOps, jt
      <3> QED
        BY <3>1, <3>2
    <2> QED
      BY <2>1, <2>2, <2>3
  <1>5. PICK op \in CondOps, to \in c + 1 .. Len(p) :
            tail \in {<<Jxx(op, to)>>, <<Jxx(op, to), Jump("JA", "K", "A", 0, jf)>>}
    BY <1>4
  <1>6. CASE large
    <2>1. Jxx(op, to) = Jump(op, "X", "TMP", 0, to)
      BY <1>6
    <2>2. Convert(p, c) = <<Mov("TMP", f.k)>> \o tail
      BY <1>3, <1>6
    <2>3. jf \in c + 1 .. Len(p) /\ f.k \in Word /\ 0 \in Word
      BY <1>1, <1>2, FilterAssumption
    <2> HIDE DEF f, Jxx, tail, large, jf
    <2>4. Convert(p, c) \in {<<Mov("TMP", f.k), Jump(op, "X", "TMP", 0, to)>>,
               <<Mov("TMP", f.k), Jump(op, "X", "TMP", 0, to), Jump("JA", "K", "A", 0, jf)>>}
      <3> DEFINE mov == Mov("TMP", f.k)
                 jxx == Jump(op, "X", "TMP", 0, to)
                 ja == Jump("JA", "K", "A", 0, jf)
      <3>1. tail = <<jxx>> \/ tail = <<jxx, ja>>
        BY <1>5, <2>1
      <3>2. Convert(p, c) = <<mov>> \o tail
        BY <2>2
      <3> HIDE DEF mov, jxx, ja
      <3>3. CASE tail = <<jxx>>
        <4>1. Convert(p, c) = <<mov, jxx>>
          BY <3>2, <3>3, ConcatOne
        <4> QED
          BY <4>1 DEF mov, jxx
      <3>4. CASE tail = <<jxx, ja>>
        <4>1. Convert(p, c) = <<mov, jxx, ja>>
          BY <3>2, <3>4, ConcatTwo
        <4> QED
          BY <4>1 DEF mov, jxx, ja
      <3> QED
        BY <3>1, <3>3, <3>4
    <2> QED
      BY <2>3, <2>4
  <1>7. CASE ~large
    <2> DEFINE sreg == IF f.src = "X" THEN "X" ELSE "A"
               k == IF f.src = "X" THEN 0 ELSE f.k
    <2>1. Jxx(op, to) = Jump(op, f.src, sreg, k, to)
      BY <1>7
    <2>2. Convert(p, c) = <<>> \o tail
      BY <1>3, <1>7
    <2>3. jf \in c + 1 .. Len(p) /\ k \in Word /\ sreg \in {"A", "X", "TMP"} /\ f.src \in {"K", "X"}
      BY <1>1, <1>2, FilterAssumption
    <2> HIDE DEF f, Jxx, tail, large, jf, sreg, k
    <2>4. Convert(p, c) \in {<<Jump(op, f.src, sreg, k, to)>>,
               <<Jump(op, f.src, sreg, k, to), Jump("JA", "K", "A", 0, jf)>>}
      BY <1>5, <2>1, <2>2, ConcatNone
    <2> QED
      BY <2>3, <2>4
  <1> QED
    BY <1>6, <1>7

\* A load or a store, and a move between A and X.
MemInsnOf(e) ==
    /\ e \in EbpfInsn /\ e.op = "MEM"
    /\ e.cls = "STX" \/ (e.cls = "LDX" /\ e.sreg \in {"CTX", "FP"})
TaxInsn(e) ==
    /\ e \in EbpfInsn
    /\ e.cls = "ALU64" /\ e.op = "MOV" /\ e.src = "X" /\ e.dst # "AX" /\ "X" \in {e.sreg, e.dst}

\* What it makes of an instruction that neither jumps nor returns.
LEMMA ConvertStraight ==
    ASSUME NEW p \in Seq(ClassicInsn), NEW c \in DOMAIN p, p[c].cls \notin {"JMP", "RET"}
    PROVE  \/ \E e \in EbpfInsn : Convert(p, c) = <<e>> /\ (MemInsnOf(e) \/ TaxInsn(e))
           \/ \E dst \in {"A", "X"}, k \in Word : Convert(p, c) = <<Mov(dst, k)>>
           \/ \E op \in AluOps, src \in {"K", "X"}, k \in Word :
                 Convert(p, c) = <<Ebpf("ALU", op, src, "A", "X", 0, k)>>
           \/ Convert(p, c) = Division
  <1> DEFINE f == p[c]
  <1>0. f \in ClassicInsn
    OBVIOUS
  <1>w. 0 \in Word /\ DataLen \in Word /\ \A k \in Word : k \in Int
    BY FilterAssumption DEF Word
  <1>1. CASE f.cls \in {"LD", "LDX"}
    <2> DEFINE dst == IF f.cls = "LD" THEN "A" ELSE "X"
               loaded == CASE f.op = "ABS" -> Ebpf("LDX", "MEM", "K", "A", "CTX", f.k, 0)
                    [] f.op = "MEM" -> Ebpf("LDX", "MEM", "K", dst, "FP", StackSlot(f.k), 0)
                    [] f.op = "IMM" -> Mov(dst, f.k)
                    [] f.op = "LEN" -> Mov(dst, DataLen)
    <2>2. f.op \in {"ABS", "MEM", "IMM", "LEN"} /\ f.k \in Word
      BY <1>0, <1>1 DEF ClassicInsn, Stmts
    <2>1. Convert(p, c) = <<loaded>>
      BY <1>1, <2>2 DEF Convert
    <2>3. CASE f.op = "ABS"
      <3>1. MemInsnOf(Ebpf("LDX", "MEM", "K", "A", "CTX", f.k, 0))
        BY <1>w, <2>2 DEF MemInsnOf, Ebpf, EbpfInsn, Clss, Ops, Regs
      <3>2. Convert(p, c) = <<Ebpf("LDX", "MEM", "K", "A", "CTX", f.k, 0)>>
        BY <2>1, <2>3
      <3> QED
        BY <3>1, <3>2 DEF MemInsnOf
    <2>4. CASE f.op = "MEM"
      <3>0. StackSlot(f.k) \in Int
        BY <1>w, <2>2 DEF StackSlot
      <3>1. MemInsnOf(Ebpf("LDX", "MEM", "K", dst, "FP", StackSlot(f.k), 0))
        BY <1>w, <3>0 DEF MemInsnOf, Ebpf, EbpfInsn, Clss, Ops, Regs
      <3>2. Convert(p, c) = <<Ebpf("LDX", "MEM", "K", dst, "FP", StackSlot(f.k), 0)>>
        BY <2>1, <2>4
      <3> QED
        BY <3>1, <3>2 DEF MemInsnOf
    <2>5. CASE f.op = "IMM"
      <3>1. Convert(p, c) = <<Mov(dst, f.k)>> /\ dst \in {"A", "X"}
        BY <2>1, <2>5
      <3> QED
        BY <3>1, <2>2
    <2>6. CASE f.op = "LEN"
      <3>1. Convert(p, c) = <<Mov(dst, DataLen)>> /\ dst \in {"A", "X"}
        BY <2>1, <2>6
      <3> QED
        BY <3>1, <1>w
    <2> QED
      BY <2>2, <2>3, <2>4, <2>5, <2>6
  <1>2. CASE f.cls \in {"ST", "STX"}
    <2> DEFINE sreg == IF f.cls = "ST" THEN "A" ELSE "X"
               e == Ebpf("STX", "MEM", "K", "FP", sreg, StackSlot(f.k), 0)
    <2>1. f.op = "MEM" /\ f.k \in Word
      BY <1>0, <1>2 DEF ClassicInsn, Stmts
    <2>2. Convert(p, c) = <<e>>
      BY <1>2, <2>1 DEF Convert
    <2>3. StackSlot(f.k) \in Int
      BY <1>w, <2>1 DEF StackSlot
    <2>r. sreg \in {"A", "X"}
      OBVIOUS
    <2> HIDE DEF sreg
    <2>5. e \in EbpfInsn /\ e.cls = "STX" /\ e.op = "MEM"
      BY <1>w, <2>3, <2>r DEF Ebpf, EbpfInsn, Clss, Ops, Regs
    <2> HIDE DEF e
    <2>4. MemInsnOf(e)
      BY <2>5 DEF MemInsnOf
    <2> QED
      BY <2>2, <2>4 DEF MemInsnOf
  <1>3. CASE f.cls = "MISC"
    <2>1. f.op \in {"TAX", "TXA"}
      BY <1>0, <1>3 DEF ClassicInsn, Stmts
    <2> DEFINE e == IF f.op = "TAX" THEN Ebpf("ALU64", "MOV", "X", "X", "A", 0, 0)
                                    ELSE Ebpf("ALU64", "MOV", "X", "A", "X", 0, 0)
    <2>2. Convert(p, c) = <<e>>
      BY <1>3, <2>1 DEF Convert
    <2>3. TaxInsn(e)
      <3>1. CASE f.op = "TAX"
        <4>1. TaxInsn(Ebpf("ALU64", "MOV", "X", "X", "A", 0, 0))
          BY <1>w DEF TaxInsn, Ebpf, EbpfInsn, Clss, Ops, Regs
        <4> QED
          BY <3>1, <4>1
      <3>2. CASE f.op # "TAX"
        <4>1. TaxInsn(Ebpf("ALU64", "MOV", "X", "A", "X", 0, 0))
          BY <1>w DEF TaxInsn, Ebpf, EbpfInsn, Clss, Ops, Regs
        <4> QED
          BY <3>2, <4>1
      <3> QED
        BY <3>1, <3>2
    <2> QED
      BY <2>2, <2>3 DEF TaxInsn
  <1>4. CASE f.cls = "ALU"
    <2>1. f.op \in AluOps /\ f.src \in {"K", "X"} /\ f.k \in Word
      BY <1>0, <1>4 DEF ClassicInsn, Stmts, AluOps
    <2>2. CASE f.op = "DIV" /\ f.src = "X"
      <3>1. Convert(p, c) = Division
        BY <1>4, <2>2 DEF Convert, Division
      <3> QED
        BY <3>1
    <2>3. CASE ~(f.op = "DIV" /\ f.src = "X")
      <3>1. Convert(p, c) = <<Ebpf("ALU", f.op, f.src, "A", "X", 0, f.k)>>
        BY <1>4, <2>1, <2>3 DEF Convert, AluOps
      <3> QED
        BY <3>1, <2>1
    <2> QED
      BY <2>2, <2>3
  <1>5. f.cls \in {"LD", "LDX", "ST", "STX", "MISC", "ALU"}
    BY <1>0 DEF ClassicInsn, Stmts
  <1> QED
    BY <1>1, <1>2, <1>3, <1>4, <1>5

\* What it makes of a return: the value goes to A first.
LEMMA ConvertReturn ==
    ASSUME NEW p \in Seq(ClassicInsn), NEW c \in DOMAIN p, p[c].cls = "RET"
    PROVE  \/ Convert(p, c) = <<Exit>>
           \/ \E k \in Word : Convert(p, c) = <<Mov("A", k), Exit>>
  <1>0. p[c] \in ClassicInsn
    OBVIOUS
  <1>1. p[c].op = "RET" /\ p[c].k \in Word
    BY <1>0 DEF ClassicInsn, Stmts
  <1>2. Convert(p, c) = (IF p[c].src = "K" THEN <<Mov("A", p[c].k)>> ELSE <<>>) \o <<Exit>>
    BY <1>1 DEF Convert
  <1> QED
    BY <1>1, <1>2, ConcatOne, ConcatNone

\* What it makes of a jump.
LEMMA ConvertJa ==
    ASSUME NEW p \in Seq(ClassicInsn), Acceptable(p), NEW c \in DOMAIN p,
           p[c].cls = "JMP", p[c].op = "JA"
    PROVE  \E to \in c + 1 .. Len(p) : Convert(p, c) = <<Jump("JA", "K", "A", 0, to)>>
  <1>0. p[c] \in ClassicInsn
    OBVIOUS
  <1>1. p[c].k \in Word /\ p[c].k \in Nat /\ c \in Nat /\ Len(p) \in Nat
    BY <1>0 DEF ClassicInsn, Stmts, Word
  <1>2. c + 1 + p[c].k <= Len(p)
    BY DEF Acceptable
  <1>3. c + 1 + p[c].k \in c + 1 .. Len(p)
    BY <1>1, <1>2
  <1>4. Convert(p, c) = <<Jump("JA", "K", "A", 0, c + 1 + p[c].k)>>
    BY DEF Convert
  <1> QED
    BY <1>3, <1>4

\* What the kernel keeps of one eBPF instruction.
Hide(e, r) == IF r = NoRnd THEN <<e>> ELSE Blind(e, r)

\* A move of a constant to dst: as it is, or the XOR that stands for zero.
Moves(e, dst) ==
    \/ e.cls = "ALU" /\ e.op = "MOV" /\ e.src = "K" /\ e.dst = dst /\ e.sreg = "A"
    \/ e.cls = "ALU64" /\ e.op = "XOR" /\ e.src = "X" /\ e.dst = dst /\ e.sreg = dst
\* The two instructions by which a hidden constant is built up in AX.
HidesIn(e, cls) == e.cls = cls /\ e.op = "MOV" /\ e.src = "K" /\ e.dst = "AX"
XorsIn(e, cls) == e.cls = cls /\ e.op = "XOR" /\ e.src = "K" /\ e.dst = "AX"

\* What is kept of a move, of a conditional jump and of an operation, in the
\* h instructions of g behind place o: one instruction, or three when the
\* constant is hidden.
MovUnit(g, o, dst, h) ==
    \/ h = 1 /\ Moves(g[o + 1], dst)
    \/ /\ h = 3 /\ HidesIn(g[o + 1], "ALU") /\ XorsIn(g[o + 2], "ALU")
       /\ g[o + 3].cls = "ALU" /\ g[o + 3].op = "MOV" /\ g[o + 3].dst = dst
CondUnit(g, o, h) ==
    \/ h = 1 /\ g[o + 1].cls = "JMP" /\ g[o + 1].op \in CondOps
    \/ /\ h = 3 /\ HidesIn(g[o + 1], "ALU64") /\ XorsIn(g[o + 2], "ALU64")
       /\ g[o + 3].cls = "JMP" /\ g[o + 3].op \in CondOps
AluUnit(g, o, h) ==
    \/ /\ h = 1 /\ g[o + 1].cls = "ALU" /\ g[o + 1].op \in AluOps
       /\ g[o + 1].dst = "A" /\ g[o + 1].sreg = "X"
    \/ /\ h = 3 /\ HidesIn(g[o + 1], "ALU") /\ XorsIn(g[o + 2], "ALU")
       /\ g[o + 3].cls = "ALU" /\ g[o + 3].op \in AluOps

\* bpf_jit_blind_insn on a move of a constant.
LEMMA HideMov ==
    ASSUME NEW dst \in {"A", "X", "TMP"}, NEW k \in Word, NEW r
    PROVE  /\ Len(Hide(Mov(dst, k), r)) \in {1, 3}
           /\ MovUnit(Hide(Mov(dst, k), r), 0, dst, Len(Hide(Mov(dst, k), r)))
  <1> DEFINE e == Mov(dst, k)
             s == Hide(e, r)
  <1>0. /\ e.cls = "ALU" /\ e.op = "MOV" /\ e.src = "K" /\ e.dst = dst /\ e.sreg = "A"
        /\ e.imm = k
    BY DEF Mov, Ebpf
  <1>1. CASE r = NoRnd
    <2>1. s = <<e>>
      BY <1>1 DEF Hide
    <2>2. Len(s) = 1 /\ s[0 + 1] = e
      BY <2>1
    <2> HIDE DEF e, s
    <2> QED
      BY <1>0, <2>2 DEF MovUnit, Moves, e, s
  <1>2. CASE r # NoRnd /\ k = 0
    <2>1. s = <<Ebpf("ALU64", "XOR", "X", dst, dst, 0, 0)>>
      BY <1>0, <1>2 DEF Hide, Blind
    <2>2. Len(s) = 1 /\ s[0 + 1] = Ebpf("ALU64", "XOR", "X", dst, dst, 0, 0)
      BY <2>1
    <2>3. Moves(s[0 + 1], dst)
      BY <2>2 DEF Moves, Ebpf
    <2> HIDE DEF e, s
    <2> QED
      BY <2>2, <2>3 DEF MovUnit, e, s
  <1>3. CASE r # NoRnd /\ k # 0
    <2> DEFINE a == Ebpf("ALU", "MOV", "K", "AX", "A", 0, BitXor(r, e.imm))
               b == Ebpf("ALU", "XOR", "K", "AX", "A", 0, r)
               d == [e EXCEPT !.src = "X", !.sreg = "AX", !.imm = 0]
    <2>1. s = <<a, b, d>>
      BY <1>0, <1>3 DEF Hide, Blind
    <2>2. Len(s) = 3 /\ s[0 + 1] = a /\ s[0 + 2] = b /\ s[0 + 3] = d
      BY <2>1
    <2>3. HidesIn(a, "ALU") /\ XorsIn(b, "ALU")
      BY DEF HidesIn, XorsIn, Ebpf
    <2>4. d.cls = "ALU" /\ d.op = "MOV" /\ d.dst = dst
      BY DEF Mov, Ebpf
    <2> HIDE DEF e, s, a, b, d
    <2> QED
      BY <2>2, <2>3, <2>4 DEF MovUnit, e, s
  <1> QED
    BY <1>1, <1>2, <1>3

\* bpf_jit_blind_insn on a conditional jump: where it goes is kept.
LEMMA HideCond ==
    ASSUME NEW op \in CondOps, NEW src \in {"K", "X"}, NEW sreg, NEW k, NEW to, NEW r
    PROVE  LET s == Hide(Jump(op, src, sreg, k, to), r)
           IN  /\ Len(s) \in {1, 3} /\ (src = "X" => Len(s) = 1)
               /\ CondUnit(s, 0, Len(s))
  <1> DEFINE e == Jump(op, src, sreg, k, to)
             s == Hide(e, r)
  <1>0. /\ e.cls = "JMP" /\ e.op = op /\ e.src = src /\ op \notin {"MOV", "JA", "EXIT"}
    BY DEF Jump, Ebpf, CondOps
  <1>1. CASE r = NoRnd \/ src = "X"
    <2>1. s = <<e>>
      BY <1>0, <1>1 DEF Hide, Blind
    <2>2. Len(s) = 1 /\ s[0 + 1] = e
      BY <2>1
    <2> HIDE DEF e, s
    <2> QED
      BY <1>0, <2>2 DEF CondUnit, e, s
  <1>3. CASE r # NoRnd /\ src = "K"
    <2> DEFINE a == Ebpf("ALU64", "MOV", "K", "AX", "A", 0, BitXor(r, e.imm))
               b == Ebpf("ALU64", "XOR", "K", "AX", "A", 0, r)
               d == [e EXCEPT !.src = "X", !.sreg = "AX", !.imm = 0]
    <2>1. s = <<a, b, d>>
      BY <1>0, <1>3 DEF Hide, Blind
    <2>2. Len(s) = 3 /\ s[0 + 1] = a /\ s[0 + 2] = b /\ s[0 + 3] = d
      BY <2>1
    <2>3. HidesIn(a, "ALU64") /\ XorsIn(b, "ALU64")
      BY DEF HidesIn, XorsIn, Ebpf
    <2>4. d.cls = "JMP" /\ d.op = op
      BY DEF Jump, Ebpf
    <2> HIDE DEF e, s, a, b, d
    <2> QED
      BY <1>3, <2>2, <2>3, <2>4 DEF CondUnit, e, s
  <1> QED
    BY <1>1, <1>3

\* bpf_jit_blind_insn on an operation.
LEMMA HideAlu ==
    ASSUME NEW op \in AluOps, NEW src \in {"K", "X"}, NEW k, NEW r
    PROVE  LET s == Hide(Ebpf("ALU", op, src, "A", "X", 0, k), r)
           IN  Len(s) \in {1, 3} /\ AluUnit(s, 0, Len(s))
  <1> DEFINE e == Ebpf("ALU", op, src, "A", "X", 0, k)
             s == Hide(e, r)
  <1>0. /\ e.cls = "ALU" /\ e.op = op /\ e.src = src /\ e.dst = "A" /\ e.sreg = "X"
        /\ op # "MOV"
    BY DEF Ebpf, AluOps
  <1>1. CASE r = NoRnd \/ src = "X" \/ op = "LSH"
    <2>1. s = <<e>>
      BY <1>0, <1>1 DEF Hide, Blind
    <2>2. Len(s) = 1 /\ s[0 + 1] = e
      BY <2>1
    <2> HIDE DEF e, s
    <2> QED
      BY <1>0, <2>2 DEF AluUnit, e, s
  <1>3. CASE r # NoRnd /\ src = "K" /\ op # "LSH"
    <2> DEFINE a == Ebpf("ALU", "MOV", "K", "AX", "A", 0, BitXor(r, e.imm))
               b == Ebpf("ALU", "XOR", "K", "AX", "A", 0, r)
               d == [e EXCEPT !.src = "X", !.sreg = "AX", !.imm = 0]
    <2>1. s = <<a, b, d>>
      BY <1>0, <1>3 DEF Hide, Blind
    <2>2. Len(s) = 3 /\ s[0 + 1] = a /\ s[0 + 2] = b /\ s[0 + 3] = d
      BY <2>1
    <2>3. HidesIn(a, "ALU") /\ XorsIn(b, "ALU")
      BY DEF HidesIn, XorsIn, Ebpf
    <2>4. d.cls = "ALU" /\ d.op = op
      BY DEF Ebpf
    <2> HIDE DEF e, s, a, b, d
    <2> QED
      BY <1>3, <2>2, <2>3, <2>4 DEF AluUnit, e, s
  <1> QED
    BY <1>1, <1>3

\* An instruction without a constant to hide is left alone.
LEMMA HideNot ==
    ASSUME NEW e \in EbpfInsn, NEW r,
           \/ e.src = "X"
           \/ e.cls = "JMP" /\ e.op \in {"JA", "EXIT"}
           \/ e.cls \in {"LDX", "STX"} /\ e.op = "MEM"
    PROVE  Hide(e, r) = <<e>>
  BY DEF Hide, Blind

\* What is kept of an instruction of the kernel is such instructions.
LEMMA HideKeeps ==
    ASSUME NEW e \in EbpfInsn, NEW r \in Word \cup {NoRnd}
    PROVE  /\ Hide(e, r) \in Seq(EbpfInsn) /\ Len(Hide(e, r)) \in {1, 3}
           /\ \A j \in 1 .. Len(Hide(e, r)) : Hide(e, r)[j].cls = "JMP" =>
                 /\ j = Len(Hide(e, r))
                 /\ e.cls = "JMP" /\ Hide(e, r)[j].op = e.op /\ Hide(e, r)[j].off = e.off
  <1> DEFINE s == Hide(e, r)
             hidden(cls) == <<Ebpf(cls, "MOV", "K", "AX", "A", 0, BitXor(r, e.imm)),
                              Ebpf(cls, "XOR", "K", "AX", "A", 0, r),
                              [e EXCEPT !.src = "X", !.sreg = "AX", !.imm = 0]>>
             zero == Ebpf("ALU64", "XOR", "X", e.dst, e.dst, 0, 0)
  <1>1. \/ s = <<e>>
        \/ s = <<zero>>
        \/ r \in Word /\ s = hidden("ALU")
        \/ r \in Word /\ s = hidden("ALU64")
    <2>1. CASE r = NoRnd
      BY <2>1 DEF Hide
    <2>2. CASE r # NoRnd
      <3>1. r \in Word /\ s = Blind(e, r)
        BY <2>2 DEF Hide
      <3> QED
        BY <3>1 DEF Blind
    <2> QED
      BY <2>1, <2>2
  <1>w. 0 \in Word
    BY FilterAssumption
  <1>2. CASE s = <<e>>
    <2>1. s \in Seq(EbpfInsn) /\ Len(s) = 1 /\ s[1] = e
      BY <1>2
    <2> HIDE DEF s
    <2> QED
      BY <2>1 DEF s
  <1>3. CASE s = <<zero>>
    <2>0. zero \in EbpfInsn /\ zero.cls # "JMP"
      BY <1>w DEF EbpfInsn, Ebpf, Clss, Ops
    <2> HIDE DEF zero
    <2>1. s \in Seq(EbpfInsn) /\ Len(s) = 1 /\ s[1] = zero
      BY <1>3, <2>0
    <2> HIDE DEF s
    <2> QED
      BY <2>0, <2>1 DEF s
  <1>4. ASSUME NEW cls \in {"ALU", "ALU64"}, s = hidden(cls), r \in Word
        PROVE  /\ s \in Seq(EbpfInsn) /\ Len(s) \in {1, 3}
               /\ \A j \in 1 .. Len(s) : s[j].cls = "JMP" =>
                    /\ j = Len(s)
                    /\ e.cls = "JMP" /\ s[j].op = e.op /\ s[j].off = e.off
    <2> DEFINE a == Ebpf(cls, "MOV", "K", "AX", "A", 0, BitXor(r, e.imm))
               b == Ebpf(cls, "XOR", "K", "AX", "A", 0, r)
               d == [e EXCEPT !.src = "X", !.sreg = "AX", !.imm = 0]
    <2>x. BitXor(r, e.imm) \in Word
      BY <1>4, FilterAssumption DEF EbpfInsn
    <2>1. a \in EbpfInsn /\ a.cls # "JMP"
      BY <1>w, <2>x DEF EbpfInsn, Ebpf, Clss, Ops, Regs
    <2>2. b \in EbpfInsn /\ b.cls # "JMP"
      BY <1>w, <1>4 DEF EbpfInsn, Ebpf, Clss, Ops, Regs
    <2>3. d \in EbpfInsn /\ d.cls = e.cls /\ d.op = e.op /\ d.off = e.off
      BY <1>w DEF EbpfInsn, Clss, Ops, Regs
    <2>4. s = <<a, b, d>>
      BY <1>4
    <2> HIDE DEF a, b, d
    <2>5. s \in Seq(EbpfInsn) /\ Len(s) = 3 /\ s[1] = a /\ s[2] = b /\ s[3] = d
      BY <2>1, <2>2, <2>3, <2>4
    <2>6. \A j \in 1 .. 3 : j = 1 \/ j = 2 \/ j = 3
      OBVIOUS
    <2> HIDE DEF s
    <2> QED
      BY <2>1, <2>2, <2>3, <2>5, <2>6
  <1> QED
    BY <1>1, <1>2, <1>3, <1>4

\* What the kernel keeps of the instructions of one classic instruction.
Kept(insns, r) == IF r = NoRnd THEN insns ELSE Hidden(insns, r)
\* The parts of it, one per instruction.
HideAll(insns, r) == [j \in DOMAIN insns |-> Hide(insns[j], r)]

\* What is kept is its parts one behind the other.
LEMMA KeptParts ==
    ASSUME NEW I \in Seq(EbpfInsn), Len(I) > 0, NEW r \in Word \cup {NoRnd}
    PROVE  /\ Kept(I, r) \in Seq(EbpfInsn)
           /\ HideAll(I, r) \in Seq(Seq(EbpfInsn)) /\ Len(HideAll(I, r)) = Len(I)
           /\ \A j \in 1 .. Len(I) : HideAll(I, r)[j] = Hide(I[j], r)
           /\ \E base : Bases(base, HideAll(I, r)) /\ Parts(base, HideAll(I, r), Kept(I, r))
  <1> DEFINE N == Len(I)
             seqs == HideAll(I, r)
  <1>0. N \in Nat /\ N > 0 /\ DOMAIN I = 1 .. N /\ \A j \in 1 .. N : I[j] \in EbpfInsn
    OBVIOUS
  <1> HIDE DEF N
  <1>1. \A j \in 1 .. N : Hide(I[j], r) \in Seq(EbpfInsn)
    BY <1>0, HideKeeps
  <1>2. seqs = [j \in 1 .. N |-> Hide(I[j], r)]
    BY <1>0 DEF HideAll
  <1>3. seqs \in Seq(Seq(EbpfInsn)) /\ Len(seqs) = N
    BY <1>0, <1>1, <1>2, IsASeq
  <1>4. \A j \in 1 .. N : seqs[j] = Hide(I[j], r)
    BY <1>2
  <1> HIDE DEF seqs
  <1>5. CASE r = NoRnd
    <2> DEFINE base == [n \in 1 .. N + 1 |-> n - 1]
    <2>1. Kept(I, r) = I
      BY <1>5 DEF Kept
    <2>2. \A j \in 1 .. N : seqs[j] = <<I[j]>>
      BY <1>4, <1>5 DEF Hide
    <2>3. \A j \in 1 .. N : Len(seqs[j]) = 1 /\ seqs[j][1] = I[j]
      <3>1. ASSUME NEW x PROVE Len(<<x>>) = 1 /\ <<x>>[1] = x
        OBVIOUS
      <3> QED
        BY <2>2, <3>1
    <2>4. Bases(base, seqs)
      <3>1. base \in [1 .. N + 1 -> Nat] /\ base[1] = 0
        BY <1>0
      <3>2. \A n \in 1 .. N : base[n + 1] = base[n] + 1
        BY <1>0
      <3> HIDE DEF base
      <3> QED
        BY <3>1, <3>2, <1>3, <2>3 DEF Bases
    <2>5. Parts(base, seqs, I)
      <3>1. base[N + 1] = N /\ \A n \in 1 .. N : base[n] + 1 = n
        BY <1>0
      <3> HIDE DEF base
      <3>2. ASSUME NEW n \in 1 .. N, NEW j \in 1 .. Len(seqs[n])
            PROVE  base[n] + j \in 1 .. N /\ I[base[n] + j] = seqs[n][j]
        <4>0. Len(seqs[n]) = 1
          BY <2>3
        <4>1. j = 1
          BY <4>0
        <4> QED
          BY <4>1, <3>1, <2>3
      <3>3. ASSUME NEW q \in 1 .. N
            PROVE  \E n \in 1 .. N : \E j \in 1 .. Len(seqs[n]) : q = base[n] + j
        <4>1. 1 \in 1 .. Len(seqs[q]) /\ q = base[q] + 1
          BY <3>1, <2>3
        <4> QED
          BY <4>1
      <3> QED
        BY <3>1, <3>2, <3>3, <1>3 DEF Parts, N
    <2> HIDE DEF base
    <2> QED
      BY <2>1, <2>4, <2>5, <1>3, <1>4 DEF N, seqs
  <1>6. CASE r # NoRnd
    <2>1. seqs = [j \in DOMAIN I |-> Blind(I[j], r)]
      BY <1>2, <1>0, <1>6 DEF Hide
    <2>2. Kept(I, r) = FlattenSeq(seqs)
      BY <2>1, <1>6 DEF Kept, Hidden
    <2>3. Len(seqs) > 0
      BY <1>3, <1>0
    <2>4. /\ FlattenSeq(seqs) \in Seq(EbpfInsn)
          /\ \E base : Bases(base, seqs) /\ Parts(base, seqs, FlattenSeq(seqs))
      BY <1>3, <2>3, FlattenParts
    <2> QED
      BY <2>2, <2>4, <1>3, <1>4 DEF N, seqs
  <1> QED
    BY <1>5, <1>6

\* A jump of the kept instructions is one of the instructions themselves.
JumpsAt(base, I, B) ==
    \A q \in 1 .. Len(B) : B[q].cls = "JMP" =>
        \E n \in 1 .. Len(I) :
           /\ I[n].cls = "JMP" /\ B[q].op = I[n].op /\ B[q].off = I[n].off
           /\ q = base[n + 1]

\* A jump in what is kept goes where one of the instructions went.
LEMMA KeptJumps ==
    ASSUME NEW I \in Seq(EbpfInsn), Len(I) > 0, NEW r \in Word \cup {NoRnd},
           NEW base, Bases(base, HideAll(I, r)), Parts(base, HideAll(I, r), Kept(I, r))
    PROVE  JumpsAt(base, I, Kept(I, r))
  <1> SUFFICES ASSUME NEW q \in 1 .. Len(Kept(I, r)), Kept(I, r)[q].cls = "JMP"
               PROVE  \E n \in 1 .. Len(I) :
                         /\ I[n].cls = "JMP" /\ Kept(I, r)[q].op = I[n].op
                         /\ Kept(I, r)[q].off = I[n].off /\ q = base[n + 1]
    BY DEF JumpsAt
  <1> DEFINE seqs == HideAll(I, r)
  <1>1. /\ seqs \in Seq(Seq(EbpfInsn)) /\ Len(seqs) = Len(I)
        /\ \A j \in 1 .. Len(I) : seqs[j] = Hide(I[j], r)
    BY KeptParts
  <1>2. PICK n \in 1 .. Len(I) : \E j \in 1 .. Len(seqs[n]) : q = base[n] + j
    <2>1. Parts(base, seqs, Kept(I, r))
      OBVIOUS
    <2> HIDE DEF seqs
    <2> QED
      BY <1>1, <2>1 DEF Parts
  <1>3. PICK j \in 1 .. Len(seqs[n]) : q = base[n] + j
    BY <1>2
  <1>4. Kept(I, r)[q] = seqs[n][j]
    BY <1>1, <1>3 DEF Parts
  <1>5. seqs[n] = Hide(I[n], r) /\ I[n] \in EbpfInsn
    BY <1>1
  <1>6. /\ j = Len(seqs[n]) /\ I[n].cls = "JMP"
        /\ seqs[n][j].op = I[n].op /\ seqs[n][j].off = I[n].off
    <2>1. Hide(I[n], r)[j].cls = "JMP" /\ j \in 1 .. Len(Hide(I[n], r))
      BY <1>4, <1>5
    <2> QED
      BY <2>1, <1>5, HideKeeps
  <1>7. base[n + 1] = base[n] + Len(seqs[n])
    BY <1>1 DEF Bases
  <1> QED
    BY <1>3, <1>4, <1>6, <1>7

\* What is kept of one, of two and of three instructions.
LEMMA KeptOne ==
    ASSUME NEW a \in EbpfInsn, NEW r \in Word \cup {NoRnd}
    PROVE  LET s == Hide(a, r) B == Kept(<<a>>, r)
           IN  /\ Len(B) = Len(s) /\ Len(s) \in {1, 3}
               /\ \A j \in 1 .. Len(s) : B[j] = s[j]
  <1> DEFINE I == <<a>>
             seqs == HideAll(I, r)
             B == Kept(I, r)
             s == Hide(a, r)
  <1>0. I \in Seq(EbpfInsn) /\ Len(I) = 1 /\ I[1] = a
    OBVIOUS
  <1> HIDE DEF I
  <1>1. I \in Seq(EbpfInsn) /\ Len(I) > 0 /\ 1 \in 1 .. Len(I)
    BY <1>0
  <1>k. /\ Len(seqs) = Len(I) /\ \A j \in 1 .. Len(I) : seqs[j] = Hide(I[j], r)
        /\ \E base : Bases(base, seqs) /\ Parts(base, seqs, B)
    BY <1>1, KeptParts
  <1>2. PICK base : Bases(base, seqs) /\ Parts(base, seqs, B)
    BY <1>k
  <1> HIDE DEF seqs
  <1>3. Len(seqs) = 1 /\ seqs[1] = s
    BY <1>0, <1>1, <1>k
  <1>4. Len(s) \in {1, 3}
    BY HideKeeps
  <1> HIDE DEF seqs, B, s
  <1>5. base[1] = 0 /\ base[1 + 1] = base[1] + Len(s)
    BY <1>2, <1>3 DEF Bases
  <1>6. Len(B) = Len(s)
    BY <1>2, <1>3, <1>4, <1>5 DEF Parts
  <1>7. \A j \in 1 .. Len(s) : B[base[1] + j] = s[j]
    BY <1>2, <1>3 DEF Parts
  <1>8. \A j \in 1 .. Len(s) : base[1] + j = j
    BY <1>5
  <1>9. \A j \in 1 .. Len(s) : B[j] = s[j]
    BY <1>7, <1>8
  <1> QED
    BY <1>4, <1>6, <1>9 DEF B, s, I

LEMMA KeptTwo ==
    ASSUME NEW a \in EbpfInsn, NEW b \in EbpfInsn, NEW r \in Word \cup {NoRnd}
    PROVE  LET s == Hide(a, r) t == Hide(b, r) B == Kept(<<a, b>>, r)
           IN  /\ Len(B) = Len(s) + Len(t) /\ Len(s) \in {1, 3} /\ Len(t) \in {1, 3}
               /\ \A j \in 1 .. Len(s) : B[j] = s[j]
               /\ \A j \in 1 .. Len(t) : B[Len(s) + j] = t[j]
  <1> DEFINE I == <<a, b>>
             seqs == HideAll(I, r)
             B == Kept(I, r)
             s == Hide(a, r)
             t == Hide(b, r)
  <1>0. I \in Seq(EbpfInsn) /\ Len(I) = 2 /\ I[1] = a /\ I[2] = b
    OBVIOUS
  <1> HIDE DEF I
  <1>1. I \in Seq(EbpfInsn) /\ Len(I) > 0 /\ 1 \in 1 .. Len(I) /\ 2 \in 1 .. Len(I)
    BY <1>0
  <1>k. /\ Len(seqs) = Len(I) /\ \A j \in 1 .. Len(I) : seqs[j] = Hide(I[j], r)
        /\ \E base : Bases(base, seqs) /\ Parts(base, seqs, B)
    BY <1>1, KeptParts
  <1>2. PICK base : Bases(base, seqs) /\ Parts(base, seqs, B)
    BY <1>k
  <1> HIDE DEF seqs
  <1>3. Len(seqs) = 2 /\ seqs[1] = s /\ seqs[2] = t
    BY <1>0, <1>1, <1>k
  <1>4. Len(s) \in {1, 3} /\ Len(t) \in {1, 3}
    BY HideKeeps
  <1> HIDE DEF seqs, B, s, t
  <1>5. base[1] = 0 /\ base[1 + 1] = base[1] + Len(s) /\ base[2 + 1] = base[2] + Len(t)
    BY <1>2, <1>3 DEF Bases
  <1>6. base[1] = 0 /\ base[2] = Len(s) /\ base[3] = Len(s) + Len(t)
    BY <1>4, <1>5
  <1>7. Len(B) = Len(s) + Len(t)
    BY <1>2, <1>3, <1>6 DEF Parts
  <1>8. \A j \in 1 .. Len(s) : B[base[1] + j] = s[j]
    BY <1>2, <1>3 DEF Parts
  <1>9. \A j \in 1 .. Len(t) : B[base[2] + j] = t[j]
    BY <1>2, <1>3 DEF Parts
  <1>10. \A j \in 1 .. Len(s) : base[1] + j = j
    BY <1>6
  <1>11. \A j \in 1 .. Len(s) : B[j] = s[j]
    BY <1>8, <1>10
  <1>12. \A j \in 1 .. Len(t) : B[Len(s) + j] = t[j]
    BY <1>6, <1>9
  <1> QED
    BY <1>4, <1>7, <1>11, <1>12 DEF B, s, t, I

\* Three parts, one behind the other.
Joins(B, s, t, u) ==
    /\ Len(B) = Len(s) + Len(t) + Len(u)
    /\ Len(s) \in {1, 3} /\ Len(t) \in {1, 3} /\ Len(u) \in {1, 3}
    /\ \A j \in 1 .. Len(s) : B[j] = s[j]
    /\ \A j \in 1 .. Len(t) : B[Len(s) + j] = t[j]
    /\ \A j \in 1 .. Len(u) : B[Len(s) + Len(t) + j] = u[j]

LEMMA KeptThree ==
    ASSUME NEW a \in EbpfInsn, NEW b \in EbpfInsn, NEW d \in EbpfInsn,
           NEW r \in Word \cup {NoRnd}
    PROVE  Joins(Kept(<<a, b, d>>, r), Hide(a, r), Hide(b, r), Hide(d, r))
  <1> DEFINE I == <<a, b, d>>
             seqs == HideAll(I, r)
             B == Kept(I, r)
             s == Hide(a, r)
             t == Hide(b, r)
             u == Hide(d, r)
  <1>0. I \in Seq(EbpfInsn) /\ Len(I) = 3 /\ I[1] = a /\ I[2] = b /\ I[3] = d
    OBVIOUS
  <1> HIDE DEF I
  <1>1. I \in Seq(EbpfInsn) /\ Len(I) > 0 /\ 1 \in 1 .. Len(I) /\ 2 \in 1 .. Len(I) /\ 3 \in 1 .. Len(I)
    BY <1>0
  <1>k. /\ Len(seqs) = Len(I) /\ \A j \in 1 .. Len(I) : seqs[j] = Hide(I[j], r)
        /\ \E base : Bases(base, seqs) /\ Parts(base, seqs, B)
    BY <1>1, KeptParts
  <1>2. PICK base : Bases(base, seqs) /\ Parts(base, seqs, B)
    BY <1>k
  <1> HIDE DEF seqs
  <1>3. Len(seqs) = 3 /\ seqs[1] = s /\ seqs[2] = t /\ seqs[3] = u
    BY <1>0, <1>1, <1>k
  <1>4. Len(s) \in {1, 3} /\ Len(t) \in {1, 3} /\ Len(u) \in {1, 3}
    BY HideKeeps
  <1> HIDE DEF seqs, B, s, t, u
  <1>5. base[1] = 0 /\ base[1 + 1] = base[1] + Len(s) /\ base[2 + 1] = base[2] + Len(t)
        /\ base[3 + 1] = base[3] + Len(u)
    BY <1>2, <1>3 DEF Bases
  <1>6. base[1] = 0 /\ base[2] = Len(s) /\ base[3] = Len(s) + Len(t)
        /\ base[4] = Len(s) + Len(t) + Len(u)
    BY <1>4, <1>5
  <1>7. Len(B) = Len(s) + Len(t) + Len(u)
    BY <1>2, <1>3, <1>6 DEF Parts
  <1>8. \A j \in 1 .. Len(s) : B[base[1] + j] = s[j]
    BY <1>2, <1>3 DEF Parts
  <1>9. \A j \in 1 .. Len(t) : B[base[2] + j] = t[j]
    BY <1>2, <1>3 DEF Parts
  <1>10. \A j \in 1 .. Len(u) : B[base[3] + j] = u[j]
    BY <1>2, <1>3 DEF Parts
  <1>11. \A j \in 1 .. Len(s) : base[1] + j = j
    BY <1>6
  <1>12. \A j \in 1 .. Len(s) : B[j] = s[j]
    BY <1>8, <1>11
  <1>13. /\ \A j \in 1 .. Len(t) : B[Len(s) + j] = t[j]
         /\ \A j \in 1 .. Len(u) : B[Len(s) + Len(t) + j] = u[j]
    BY <1>6, <1>9, <1>10
  <1> QED
    BY <1>4, <1>7, <1>12, <1>13 DEF B, s, t, u, I, Joins

---------------------------------------------------------------------------
(* The shape of a body: the instructions that stand for a classic one.   *)

\* The instructions agree in all but their offset and their constant.
Same(e, d) == /\ e.cls = d.cls /\ e.op = d.op /\ e.src = d.src
              /\ e.dst = d.dst /\ e.sreg = d.sreg

\* The units of one instruction: a load or a store, a move between A and X,
\* a jump, and a return.
MemUnit(g, o) ==
    g[o + 1].cls = "STX" \/ (g[o + 1].cls = "LDX" /\ g[o + 1].sreg \in {"CTX", "FP"})
TaxUnit(g, o) ==
    /\ g[o + 1].cls = "ALU64" /\ g[o + 1].op = "MOV" /\ g[o + 1].src = "X"
    /\ g[o + 1].dst # "AX" /\ "X" \in {g[o + 1].sreg, g[o + 1].dst}
JaUnit(g, o) == g[o + 1].cls = "JMP" /\ g[o + 1].op = "JA"
ExitUnit(g, o) == g[o + 1].cls = "JMP" /\ g[o + 1].op = "EXIT"

\* The guard of a division, from instruction o + n on.
GuardUnit(g, o, n) ==
    /\ g[o + n].cls = "ALU" /\ g[o + n].op = "XOR" /\ g[o + n].src = "X"
    /\ g[o + n + 1].cls = "JMP" /\ g[o + n + 1].op = "EXIT"
    /\ g[o + n + 2].cls = "ALU" /\ g[o + n + 2].op = "DIV"
\* A division by X, its guard as it is or with a hidden zero.
DivUnit(g, o, h) ==
    /\ g[o + 1].cls = "ALU" /\ g[o + 1].op = "MOV" /\ g[o + 1].src = "X"
    /\ g[o + 1].dst = "X" /\ g[o + 1].sreg = "X"
    /\ \/ /\ h = 5 /\ GuardUnit(g, o, 3)
          /\ g[o + 2].cls = "JMP" /\ g[o + 2].op = "JNE" /\ g[o + 2].src = "K"
       \/ /\ h = 7 /\ GuardUnit(g, o, 5)
          /\ HidesIn(g[o + 2], "ALU64") /\ XorsIn(g[o + 3], "ALU64")
          /\ g[o + 4].cls = "JMP" /\ g[o + 4].op = "JNE" /\ g[o + 4].src = "X"
          /\ g[o + 4].sreg = "AX"

\* What stands for a classic instruction in the m instructions of g behind o:
\* for one that goes on, for a jump and for a return.
StraightBody(g, o, m) ==
    \/ m = 1 /\ (MemUnit(g, o) \/ TaxUnit(g, o))
    \/ m \in {1, 3} /\ (MovUnit(g, o, "A", m) \/ MovUnit(g, o, "X", m) \/ AluUnit(g, o, m))
    \/ DivUnit(g, o, m)
BranchBody(g, o, m) ==
    \/ m = 1 /\ JaUnit(g, o)
    \/ \E h \in {1, 3} : CondUnit(g, o, h) /\ (m = h \/ (m = h + 1 /\ JaUnit(g, o + h)))
    \/ \E t \in {1, 3} : /\ MovUnit(g, o, "TMP", t) /\ CondUnit(g, o + t, 1)
                         /\ m = t + 1 \/ (m = t + 2 /\ JaUnit(g, o + t + 1))
ReturnBody(g, o, m) ==
    \/ m = 1 /\ ExitUnit(g, o)
    \/ \E h \in {1, 3} : MovUnit(g, o, "A", h) /\ m = h + 1 /\ ExitUnit(g, o + h)

\* All of them, by the class of the classic instruction.
Shape(cls, g, o, m) ==
    \/ cls \notin {"JMP", "RET"} /\ StraightBody(g, o, m)
    \/ cls = "JMP" /\ BranchBody(g, o, m)
    \/ cls = "RET" /\ ReturnBody(g, o, m)

\* A unit is one wherever the same instructions stand.
LEMMA MovShift ==
    ASSUME NEW s, NEW g, NEW o, NEW dst, NEW h \in {1, 3}, MovUnit(s, 0, dst, h),
           \A j \in 1 .. h : Same(g[o + j], s[j])
    PROVE  MovUnit(g, o, dst, h)
  BY DEF MovUnit, Moves, HidesIn, XorsIn, Same

LEMMA CondShift ==
    ASSUME NEW s, NEW g, NEW o, NEW h \in {1, 3}, CondUnit(s, 0, h),
           \A j \in 1 .. h : Same(g[o + j], s[j])
    PROVE  CondUnit(g, o, h)
  BY DEF CondUnit, HidesIn, XorsIn, Same

LEMMA AluShift ==
    ASSUME NEW s, NEW g, NEW o, NEW h \in {1, 3}, AluUnit(s, 0, h),
           \A j \in 1 .. h : Same(g[o + j], s[j])
    PROVE  AluUnit(g, o, h)
  BY DEF AluUnit, HidesIn, XorsIn, Same

\* The instructions of which bodies are made are instructions of the kernel.
LEMMA MovTyped ==
    ASSUME NEW dst \in {"A", "X", "TMP"}, NEW k \in Word
    PROVE  Mov(dst, k) \in EbpfInsn
  BY FilterAssumption DEF Mov, Ebpf, EbpfInsn, Clss, Ops, Regs

LEMMA JumpTyped ==
    ASSUME NEW op \in CondOps \cup {"JA"}, NEW src \in {"K", "X"},
           NEW sreg \in {"A", "X", "TMP"}, NEW k \in Word, NEW to \in Int
    PROVE  /\ Jump(op, src, sreg, k, to) \in EbpfInsn
           /\ Jump(op, src, sreg, k, to).cls = "JMP" /\ Jump(op, src, sreg, k, to).op = op
           /\ Jump(op, src, sreg, k, to).off = to
  BY DEF Jump, Ebpf, EbpfInsn, Clss, Ops, Regs, CondOps

LEMMA ExitTyped == Exit \in EbpfInsn /\ Exit.cls = "JMP" /\ Exit.op = "EXIT"
  BY FilterAssumption DEF Exit, Ebpf, EbpfInsn, Clss, Ops, Regs

\* A jump and a return have no constant to hide.
LEMMA JaKept ==
    ASSUME NEW to \in Int, NEW r
    PROVE  /\ Jump("JA", "K", "A", 0, to) \in EbpfInsn
           /\ Hide(Jump("JA", "K", "A", 0, to), r) = <<Jump("JA", "K", "A", 0, to)>>
           /\ Len(Hide(Jump("JA", "K", "A", 0, to), r)) = 1
           /\ Hide(Jump("JA", "K", "A", 0, to), r)[1].cls = "JMP"
           /\ Hide(Jump("JA", "K", "A", 0, to), r)[1].op = "JA"
  <1> DEFINE e == Jump("JA", "K", "A", 0, to)
  <1>1. e \in EbpfInsn /\ e.cls = "JMP" /\ e.op = "JA"
    BY FilterAssumption DEF Jump, Ebpf, EbpfInsn, Clss, Ops, Regs
  <1> HIDE DEF e
  <1>2. Hide(e, r) = <<e>>
    BY <1>1, HideNot
  <1>3. Len(<<e>>) = 1 /\ <<e>>[1] = e
    OBVIOUS
  <1> QED
    BY <1>1, <1>2, <1>3 DEF e

LEMMA ExitKept ==
    ASSUME NEW r
    PROVE  /\ Hide(Exit, r) = <<Exit>> /\ Len(Hide(Exit, r)) = 1
           /\ Hide(Exit, r)[1].cls = "JMP" /\ Hide(Exit, r)[1].op = "EXIT"
  <1>1. Hide(Exit, r) = <<Exit>>
    BY ExitTyped, HideNot
  <1>2. Len(<<Exit>>) = 1 /\ <<Exit>>[1] = Exit
    OBVIOUS
  <1> QED
    BY <1>1, <1>2, ExitTyped

\* The body of a return.
LEMMA ReturnShape ==
    ASSUME NEW p \in Seq(ClassicInsn), NEW c \in DOMAIN p, p[c].cls = "RET",
           NEW r \in Word \cup {NoRnd}
    PROVE  /\ Convert(p, c) \in Seq(EbpfInsn) /\ Len(Convert(p, c)) > 0
           /\ ReturnBody(Kept(Convert(p, c), r), 0, Len(Kept(Convert(p, c), r)))
           /\ \A n \in 1 .. Len(Convert(p, c)) :
                Convert(p, c)[n].cls = "JMP" => Convert(p, c)[n].op = "EXIT"
  <1> DEFINE I == Convert(p, c)
             B == Kept(I, r)
  <1>1. CASE I = <<Exit>>
    <2>1. I \in Seq(EbpfInsn) /\ Len(I) = 1 /\ I[1] = Exit
      BY <1>1, ExitTyped
    <2>2. Len(B) = 1 /\ B[1] = Hide(Exit, r)[1]
      BY <1>1, ExitTyped, ExitKept, KeptOne
    <2> HIDE DEF I, B
    <2>3. B[0 + 1] = B[1]
      OBVIOUS
    <2>4. ReturnBody(B, 0, Len(B))
      BY <2>2, <2>3, ExitKept DEF ReturnBody, ExitUnit
    <2> QED
      BY <2>1, <2>4, ExitTyped DEF I, B
  <1>2. ASSUME NEW k \in Word, I = <<Mov("A", k), Exit>>
        PROVE  /\ I \in Seq(EbpfInsn) /\ Len(I) > 0
               /\ ReturnBody(B, 0, Len(B))
               /\ \A n \in 1 .. Len(I) : I[n].cls = "JMP" => I[n].op = "EXIT"
    <2> DEFINE a == Mov("A", k)
               s == Hide(a, r)
               t == Hide(Exit, r)
    <2>1. a \in EbpfInsn
      BY MovTyped
    <2>c. a.cls # "JMP"
      BY DEF Mov, Ebpf
    <2>2. Len(s) \in {1, 3} /\ MovUnit(s, 0, "A", Len(s))
      BY HideMov
    <2>3. Len(t) = 1 /\ t[1].cls = "JMP" /\ t[1].op = "EXIT"
      BY ExitKept
    <2>4. I = <<a, Exit>>
      BY <1>2
    <2> HIDE DEF a, I
    <2>5. /\ Len(B) = Len(s) + Len(t)
          /\ \A j \in 1 .. Len(s) : B[j] = s[j]
          /\ \A j \in 1 .. Len(t) : B[Len(s) + j] = t[j]
      BY <2>1, <2>4, ExitTyped, KeptTwo
    <2>6. I \in Seq(EbpfInsn) /\ Len(I) = 2 /\ I[1] = a /\ I[2] = Exit
      BY <2>1, <2>4, ExitTyped
    <2> HIDE DEF I, B, s, t
    <2>7. MovUnit(B, 0, "A", Len(s))
      <3>1. \A j \in 1 .. Len(s) : Same(B[0 + j], s[j])
        BY <2>2, <2>5 DEF Same
      <3>2. PICK h \in {1, 3} : h = Len(s)
        BY <2>2
      <3>3. MovUnit(s, 0, "A", h) /\ \A j \in 1 .. h : Same(B[0 + j], s[j])
        BY <2>2, <3>1, <3>2
      <3>4. MovUnit(B, 0, "A", h)
        BY <3>3 DEF MovUnit, Moves, HidesIn, XorsIn, Same
      <3> QED
        BY <3>2, <3>4
    <2>8. ExitUnit(B, 0 + Len(s)) /\ Len(B) = Len(s) + 1
      <3>1. B[Len(s) + 1] = t[1] /\ 0 + Len(s) = Len(s)
        BY <2>2, <2>3, <2>5
      <3> QED
        BY <3>1, <2>3, <2>5 DEF ExitUnit
    <2>9. ReturnBody(B, 0, Len(B))
      BY <2>2, <2>7, <2>8 DEF ReturnBody
    <2>10. \A n \in 1 .. 2 : n = 1 \/ n = 2
      OBVIOUS
    <2> QED
      BY <2>6, <2>9, <2>10, <2>c, ExitTyped
  <1> QED
    BY <1>1, <1>2, ConvertReturn

\* The body of a load, a store or a move between A and X.
LEMMA PlainUnit ==
    ASSUME NEW e \in EbpfInsn, MemInsnOf(e) \/ TaxInsn(e), NEW r \in Word \cup {NoRnd}
    PROVE  /\ Len(Kept(<<e>>, r)) = 1 /\ Kept(<<e>>, r)[1] = e
           /\ MemUnit(Kept(<<e>>, r), 0) \/ TaxUnit(Kept(<<e>>, r), 0)
           /\ e.cls # "JMP"
  <1>0. e.cls # "JMP"
    BY DEF MemInsnOf, TaxInsn
  <1>1. Hide(e, r) = <<e>>
    <2>1. CASE TaxInsn(e)
      BY <2>1, HideNot DEF TaxInsn
    <2>2. CASE MemInsnOf(e)
      BY <2>2, HideNot DEF MemInsnOf
    <2> QED
      BY <2>1, <2>2
  <1>2. Len(<<e>>) = 1 /\ <<e>>[1] = e
    OBVIOUS
  <1> DEFINE B == Kept(<<e>>, r)
  <1>3. Len(B) = 1 /\ B[1] = e
    BY <1>1, <1>2, KeptOne
  <1> HIDE DEF B
  <1>4. B[0 + 1] = e
    BY <1>3
  <1>5. MemUnit(B, 0) \/ TaxUnit(B, 0)
    BY <1>4 DEF MemUnit, TaxUnit, MemInsnOf, TaxInsn
  <1> QED
    BY <1>0, <1>3, <1>5 DEF B

\* The body of an instruction that goes on, a division by X apart.
LEMMA StraightShape ==
    ASSUME NEW p \in Seq(ClassicInsn), NEW c \in DOMAIN p, p[c].cls \notin {"JMP", "RET"},
           NEW r \in Word \cup {NoRnd}, Convert(p, c) # Division
    PROVE  /\ Convert(p, c) \in Seq(EbpfInsn) /\ Len(Convert(p, c)) > 0
           /\ StraightBody(Kept(Convert(p, c), r), 0, Len(Kept(Convert(p, c), r)))
           /\ \A n \in 1 .. Len(Convert(p, c)) : Convert(p, c)[n].cls # "JMP"
  <1> DEFINE I == Convert(p, c)
             B == Kept(I, r)
  <1>0. ASSUME NEW e \in EbpfInsn, I = <<e>>, e.cls # "JMP", StraightBody(B, 0, Len(B))
        PROVE  /\ I \in Seq(EbpfInsn) /\ Len(I) > 0
               /\ StraightBody(B, 0, Len(B))
               /\ \A n \in 1 .. Len(I) : I[n].cls # "JMP"
    <2>1. I \in Seq(EbpfInsn) /\ Len(I) = 1 /\ I[1] = e
      BY <1>0
    <2> HIDE DEF I
    <2> QED
      BY <1>0, <2>1
  <1>1. ASSUME NEW e \in EbpfInsn, I = <<e>>, MemInsnOf(e) \/ TaxInsn(e)
        PROVE  StraightBody(B, 0, Len(B)) /\ e.cls # "JMP"
    <2>1. B = Kept(<<e>>, r)
      BY <1>1
    <2> HIDE DEF I, B
    <2> QED
      BY <1>1, <2>1, PlainUnit DEF StraightBody
  <1>2. ASSUME NEW dst \in {"A", "X"}, NEW k \in Word, I = <<Mov(dst, k)>>
        PROVE  StraightBody(B, 0, Len(B)) /\ Mov(dst, k) \in EbpfInsn /\ Mov(dst, k).cls # "JMP"
    <2> DEFINE e == Mov(dst, k)
               s == Hide(e, r)
    <2>1. B = Kept(<<e>>, r)
      BY <1>2
    <2>2. e \in EbpfInsn
      BY MovTyped
    <2>3. e.cls # "JMP"
      BY DEF Mov, Ebpf
    <2>4. Len(s) \in {1, 3} /\ MovUnit(s, 0, dst, Len(s))
      BY HideMov
    <2> HIDE DEF I, B, e
    <2>5. Len(B) = Len(s) /\ \A j \in 1 .. Len(s) : B[j] = s[j]
      BY <2>1, <2>2, KeptOne
    <2> HIDE DEF s
    <2>6. PICK h \in {1, 3} : h = Len(s)
      BY <2>4
    <2>7. MovUnit(s, 0, dst, h) /\ \A j \in 1 .. h : Same(B[0 + j], s[j])
      BY <2>4, <2>5, <2>6 DEF Same
    <2>8. MovUnit(B, 0, dst, h)
      BY <2>7 DEF MovUnit, Moves, HidesIn, XorsIn, Same
    <2>9. StraightBody(B, 0, Len(B))
      BY <2>5, <2>6, <2>8 DEF StraightBody
    <2> QED
      BY <2>2, <2>3, <2>9 DEF e
  <1>3. ASSUME NEW op \in AluOps, NEW src \in {"K", "X"}, NEW k \in Word,
               I = <<Ebpf("ALU", op, src, "A", "X", 0, k)>>
        PROVE  /\ StraightBody(B, 0, Len(B))
               /\ Ebpf("ALU", op, src, "A", "X", 0, k) \in EbpfInsn
               /\ Ebpf("ALU", op, src, "A", "X", 0, k).cls # "JMP"
    <2> DEFINE e == Ebpf("ALU", op, src, "A", "X", 0, k)
               s == Hide(e, r)
    <2>1. B = Kept(<<e>>, r)
      BY <1>3
    <2>2. e \in EbpfInsn
      BY DEF Ebpf, EbpfInsn, Clss, Ops, Regs, AluOps
    <2>3. e.cls # "JMP"
      BY DEF Ebpf
    <2>4. Len(s) \in {1, 3} /\ AluUnit(s, 0, Len(s))
      BY HideAlu
    <2> HIDE DEF I, B, e
    <2>5. Len(B) = Len(s) /\ \A j \in 1 .. Len(s) : B[j] = s[j]
      BY <2>1, <2>2, KeptOne
    <2> HIDE DEF s
    <2>6. PICK h \in {1, 3} : h = Len(s)
      BY <2>4
    <2>7. AluUnit(s, 0, h) /\ \A j \in 1 .. h : Same(B[0 + j], s[j])
      BY <2>4, <2>5, <2>6 DEF Same
    <2>8. AluUnit(B, 0, h)
      BY <2>7 DEF AluUnit, HidesIn, XorsIn, Same
    <2>9. StraightBody(B, 0, Len(B))
      BY <2>5, <2>6, <2>8 DEF StraightBody
    <2> QED
      BY <2>2, <2>3, <2>9 DEF e
  <1> HIDE DEF I, B
  <1>4. \/ \E e \in EbpfInsn : I = <<e>> /\ (MemInsnOf(e) \/ TaxInsn(e))
        \/ \E dst \in {"A", "X"}, k \in Word : I = <<Mov(dst, k)>>
        \/ \E op \in AluOps, src \in {"K", "X"}, k \in Word :
              I = <<Ebpf("ALU", op, src, "A", "X", 0, k)>>
    BY ConvertStraight DEF I
  <1>5. /\ I \in Seq(EbpfInsn) /\ Len(I) > 0
        /\ StraightBody(B, 0, Len(B))
        /\ \A n \in 1 .. Len(I) : I[n].cls # "JMP"
    <2>1. CASE \E e \in EbpfInsn : I = <<e>> /\ (MemInsnOf(e) \/ TaxInsn(e))
      <3>1. PICK e \in EbpfInsn : I = <<e>> /\ (MemInsnOf(e) \/ TaxInsn(e))
        BY <2>1
      <3> QED
        BY <3>1, <1>0, <1>1
    <2>2. CASE \E dst \in {"A", "X"}, k \in Word : I = <<Mov(dst, k)>>
      <3>1. PICK dst \in {"A", "X"}, k \in Word : I = <<Mov(dst, k)>>
        BY <2>2
      <3> QED
        BY <3>1, <1>0, <1>2
    <2>3. CASE \E op \in AluOps, src \in {"K", "X"}, k \in Word :
                  I = <<Ebpf("ALU", op, src, "A", "X", 0, k)>>
      <3>1. PICK op \in AluOps, src \in {"K", "X"}, k \in Word :
                  I = <<Ebpf("ALU", op, src, "A", "X", 0, k)>>
        BY <2>3
      <3> QED
        BY <3>1, <1>0, <1>3
    <2> QED
      BY <1>4, <2>1, <2>2, <2>3
  <1> QED
    BY <1>5 DEF I, B

\* The body of a division by X: five instructions, or seven.
LEMMA DivisionShape ==
    ASSUME NEW r \in Word \cup {NoRnd}
    PROVE  /\ Division \in Seq(EbpfInsn) /\ Len(Division) > 0
           /\ DivUnit(Kept(Division, r), 0, Len(Kept(Division, r)))
           /\ \A q \in 1 .. Len(Kept(Division, r)) :
                /\ Kept(Division, r)[q].cls = "JMP" /\ Kept(Division, r)[q].op # "EXIT"
                => Kept(Division, r)[q].off = 2 /\ q + 3 <= Len(Kept(Division, r))
  <1> DEFINE mov == Ebpf("ALU", "MOV", "X", "X", "X", 0, 0)
             jne == Ebpf("JMP", "JNE", "K", "X", "A", 2, 0)
             xor == Ebpf("ALU", "XOR", "X", "A", "A", 0, 0)
             div == Ebpf("ALU", "DIV", "X", "A", "X", 0, 0)
             I == Division
             B == Kept(I, r)
             seqs == HideAll(I, r)
  <1>w. 0 \in Word
    BY FilterAssumption
  <1>1. /\ mov \in EbpfInsn /\ mov.cls = "ALU" /\ mov.op = "MOV" /\ mov.src = "X"
        /\ mov.dst = "X" /\ mov.sreg = "X"
    BY <1>w DEF Ebpf, EbpfInsn, Clss, Ops, Regs
  <1>2. /\ jne \in EbpfInsn /\ jne.cls = "JMP" /\ jne.op = "JNE" /\ jne.src = "K" /\ jne.off = 2
        /\ jne.imm = 0
    BY <1>w DEF Ebpf, EbpfInsn, Clss, Ops, Regs
  <1>3. xor \in EbpfInsn /\ xor.cls = "ALU" /\ xor.op = "XOR" /\ xor.src = "X"
    BY <1>w DEF Ebpf, EbpfInsn, Clss, Ops, Regs
  <1>4. div \in EbpfInsn /\ div.cls = "ALU" /\ div.op = "DIV" /\ div.src = "X"
    BY <1>w DEF Ebpf, EbpfInsn, Clss, Ops, Regs
  <1>5. I = <<mov, jne, xor, Exit, div>>
    BY DEF Division
  <1> HIDE DEF mov, jne, xor, div, I
  <1>6. /\ I \in Seq(EbpfInsn) /\ Len(I) = 5
        /\ I[1] = mov /\ I[2] = jne /\ I[3] = xor /\ I[4] = Exit /\ I[5] = div
    BY <1>1, <1>2, <1>3, <1>4, <1>5, ExitTyped
  <1>7. /\ Len(I) > 0 /\ 1 \in 1 .. Len(I) /\ 2 \in 1 .. Len(I) /\ 3 \in 1 .. Len(I)
        /\ 4 \in 1 .. Len(I) /\ 5 \in 1 .. Len(I)
    BY <1>6
  <1>8. /\ Len(seqs) = Len(I) /\ \A j \in 1 .. Len(I) : seqs[j] = Hide(I[j], r)
        /\ \E base : Bases(base, seqs) /\ Parts(base, seqs, B)
    BY <1>6, <1>7, KeptParts
  <1>9. PICK base : Bases(base, seqs) /\ Parts(base, seqs, B)
    BY <1>8
  <1>10. /\ Hide(mov, r) = <<mov>> /\ Hide(xor, r) = <<xor>> /\ Hide(div, r) = <<div>>
         /\ Hide(Exit, r) = <<Exit>>
    BY <1>1, <1>3, <1>4, HideNot, ExitKept
  <1>j. \A q \in 1 .. Len(B) : B[q].cls = "JMP" =>
           \E n \in 1 .. Len(I) : /\ I[n].cls = "JMP" /\ B[q].op = I[n].op /\ B[q].off = I[n].off
                                  /\ q = base[n + 1]
    <2>1. JumpsAt(base, I, B)
      BY <1>6, <1>7, <1>9, KeptJumps
    <2> HIDE DEF B
    <2> QED
      BY <2>1 DEF JumpsAt
  <1> HIDE DEF seqs, B
  <1>11. /\ seqs[1] = <<mov>> /\ seqs[2] = Hide(jne, r) /\ seqs[3] = <<xor>>
         /\ seqs[4] = <<Exit>> /\ seqs[5] = <<div>>
    BY <1>6, <1>7, <1>8, <1>10
  <1>12. ASSUME NEW x PROVE Len(<<x>>) = 1 /\ <<x>>[1] = x
    OBVIOUS
  <1> DEFINE h == Len(Hide(jne, r))
  <1>13. h \in {1, 3}
    BY <1>2, HideKeeps
  <1> HIDE DEF h
  <1>14. /\ Len(seqs) = 5 /\ Len(seqs[1]) = 1 /\ Len(seqs[2]) = h /\ Len(seqs[3]) = 1
         /\ Len(seqs[4]) = 1 /\ Len(seqs[5]) = 1
    BY <1>6, <1>8, <1>11, <1>12 DEF h
  <1>15. /\ base[1] = 0 /\ base[1 + 1] = base[1] + 1 /\ base[2 + 1] = base[2] + h
         /\ base[3 + 1] = base[3] + 1 /\ base[4 + 1] = base[4] + 1 /\ base[5 + 1] = base[5] + 1
    <2>1. base[1] = 0 /\ \A n \in 1 .. 5 : base[n + 1] = base[n] + Len(seqs[n])
      BY <1>9, <1>14 DEF Bases
    <2>2. 1 \in 1 .. 5 /\ 2 \in 1 .. 5 /\ 3 \in 1 .. 5 /\ 4 \in 1 .. 5 /\ 5 \in 1 .. 5
      OBVIOUS
    <2> QED
      BY <2>1, <2>2, <1>14
  <1>16. /\ base[1] = 0 /\ base[2] = 1 /\ base[3] = h + 1 /\ base[4] = h + 2
         /\ base[5] = h + 3 /\ base[6] = h + 4
    BY <1>13, <1>15
  <1>17. /\ Len(B) = base[5 + 1] /\ B[base[1] + 1] = mov
         /\ \A j \in 1 .. h : B[base[2] + j] = Hide(jne, r)[j]
         /\ B[base[3] + 1] = xor /\ B[base[4] + 1] = Exit /\ B[base[5] + 1] = div
    <2>1. /\ 1 \in 1 .. Len(seqs[1]) /\ 1 \in 1 .. Len(seqs[3]) /\ 1 \in 1 .. Len(seqs[4])
          /\ 1 \in 1 .. Len(seqs[5])
          /\ 1 \in 1 .. Len(seqs) /\ 2 \in 1 .. Len(seqs) /\ 3 \in 1 .. Len(seqs)
          /\ 4 \in 1 .. Len(seqs) /\ 5 \in 1 .. Len(seqs)
      BY <1>14
    <2>2. /\ Len(B) = base[Len(seqs) + 1]
          /\ \A n \in 1 .. Len(seqs) : \A j \in 1 .. Len(seqs[n]) : B[base[n] + j] = seqs[n][j]
      BY <1>9 DEF Parts
    <2>3. /\ B[base[1] + 1] = seqs[1][1] /\ B[base[3] + 1] = seqs[3][1]
          /\ B[base[4] + 1] = seqs[4][1] /\ B[base[5] + 1] = seqs[5][1]
      BY <2>1, <2>2
    <2>4. \A j \in 1 .. h : B[base[2] + j] = seqs[2][j]
      BY <2>1, <2>2, <1>14
    <2> QED
      BY <2>2, <2>3, <2>4, <1>11, <1>12, <1>14
  <1>18. /\ Len(B) = h + 4 /\ B[1] = mov /\ B[h + 2] = xor /\ B[h + 3] = Exit /\ B[h + 4] = div
         /\ \A j \in 1 .. h : B[1 + j] = Hide(jne, r)[j]
    BY <1>13, <1>16, <1>17
  <1>19. \/ h = 1 /\ Hide(jne, r)[1] = jne
         \/ /\ h = 3 /\ HidesIn(Hide(jne, r)[1], "ALU64") /\ XorsIn(Hide(jne, r)[2], "ALU64")
            /\ Hide(jne, r)[3].cls = "JMP" /\ Hide(jne, r)[3].op = "JNE"
            /\ Hide(jne, r)[3].src = "X" /\ Hide(jne, r)[3].sreg = "AX"
    <2>1. CASE r = NoRnd
      <3>1. Hide(jne, r) = <<jne>>
        BY <2>1 DEF Hide
      <3> QED
        BY <3>1, <1>12 DEF h
    <2>2. CASE r # NoRnd
      <3> DEFINE a == Ebpf("ALU64", "MOV", "K", "AX", "A", 0, BitXor(r, jne.imm))
                 b == Ebpf("ALU64", "XOR", "K", "AX", "A", 0, r)
                 d == [jne EXCEPT !.src = "X", !.sreg = "AX", !.imm = 0]
      <3>1. Hide(jne, r) = <<a, b, d>>
        BY <2>2, <1>2 DEF Hide, Blind
      <3>2. HidesIn(a, "ALU64") /\ XorsIn(b, "ALU64")
        BY DEF HidesIn, XorsIn, Ebpf
      <3>3. d.cls = "JMP" /\ d.op = "JNE" /\ d.src = "X" /\ d.sreg = "AX"
        BY <1>2 DEF EbpfInsn
      <3> HIDE DEF a, b, d
      <3>4. Len(<<a, b, d>>) = 3 /\ <<a, b, d>>[1] = a /\ <<a, b, d>>[2] = b /\ <<a, b, d>>[3] = d
        OBVIOUS
      <3> QED
        BY <3>1, <3>2, <3>3, <3>4 DEF h
    <2> QED
      BY <2>1, <2>2
  <1>20. DivUnit(B, 0, Len(B))
    <2>1. CASE h = 1
      <3>1. /\ Len(B) = 5 /\ B[0 + 1] = mov /\ B[0 + 2] = jne /\ B[0 + 3] = xor
            /\ B[0 + 3 + 1] = Exit /\ B[0 + 3 + 2] = div
        BY <2>1, <1>18, <1>19
      <3> QED
        BY <3>1, <1>1, <1>2, <1>3, <1>4, ExitTyped DEF DivUnit, GuardUnit
    <2>2. CASE h = 3
      <3>1. /\ Len(B) = 7 /\ B[0 + 1] = mov /\ B[0 + 2] = Hide(jne, r)[1]
            /\ B[0 + 3] = Hide(jne, r)[2] /\ B[0 + 4] = Hide(jne, r)[3] /\ B[0 + 5] = xor
            /\ B[0 + 5 + 1] = Exit /\ B[0 + 5 + 2] = div
        BY <2>2, <1>18
      <3>2. /\ HidesIn(Hide(jne, r)[1], "ALU64") /\ XorsIn(Hide(jne, r)[2], "ALU64")
            /\ Hide(jne, r)[3].cls = "JMP" /\ Hide(jne, r)[3].op = "JNE"
            /\ Hide(jne, r)[3].src = "X" /\ Hide(jne, r)[3].sreg = "AX"
        BY <2>2, <1>19
      <3> QED
        BY <3>1, <3>2, <1>1, <1>3, <1>4, ExitTyped DEF DivUnit, GuardUnit
    <2> QED
      BY <1>13, <2>1, <2>2
  <1>21. ASSUME NEW q \in 1 .. Len(B), B[q].cls = "JMP", B[q].op # "EXIT"
         PROVE  B[q].off = 2 /\ q + 3 <= Len(B)
    <2>1. PICK n \in 1 .. Len(I) : /\ I[n].cls = "JMP" /\ B[q].op = I[n].op /\ B[q].off = I[n].off
                                   /\ q = base[n + 1]
      BY <1>21, <1>j
    <2>2. n = 1 \/ n = 2 \/ n = 3 \/ n = 4 \/ n = 5
      BY <1>6
    <2>3. n = 2
      BY <2>1, <2>2, <1>1, <1>3, <1>4, <1>6, <1>21, ExitTyped
    <2>4. q = h + 1 /\ B[q].off = 2
      BY <2>1, <2>3, <1>2, <1>6, <1>16
    <2> QED
      BY <2>4, <1>13, <1>18
  <1> QED
    BY <1>6, <1>7, <1>20, <1>21 DEF B, I

\* The jumps of a branch go on to a later instruction of the filter.
Onward(p, c, I) ==
    \A n \in 1 .. Len(I) : I[n].cls = "JMP" => I[n].off \in c + 1 .. Len(p)

\* The body of a conditional jump that is one jump.
LEMMA BranchOne ==
    ASSUME NEW p, NEW c, NEW jxx \in EbpfInsn, NEW r \in Word \cup {NoRnd},
           Len(Hide(jxx, r)) \in {1, 3}, CondUnit(Hide(jxx, r), 0, Len(Hide(jxx, r))),
           jxx.off \in c + 1 .. Len(p)
    PROVE  /\ <<jxx>> \in Seq(EbpfInsn) /\ Len(<<jxx>>) > 0
           /\ BranchBody(Kept(<<jxx>>, r), 0, Len(Kept(<<jxx>>, r)))
           /\ Onward(p, c, <<jxx>>)
  <1> DEFINE I == <<jxx>>
             B == Kept(I, r)
             s == Hide(jxx, r)
  <1>1. I \in Seq(EbpfInsn) /\ Len(I) = 1 /\ I[1] = jxx
    OBVIOUS
  <1>2. Len(B) = Len(s) /\ \A j \in 1 .. Len(s) : B[j] = s[j]
    BY KeptOne
  <1>3. PICK h \in {1, 3} : h = Len(s)
    OBVIOUS
  <1>4. CondUnit(s, 0, h)
    BY <1>3
  <1> HIDE DEF I, B, s
  <1>5. \A j \in 1 .. h : Same(B[0 + j], s[j])
    BY <1>2, <1>3 DEF Same
  <1>6. CondUnit(B, 0, h)
    BY <1>4, <1>5 DEF CondUnit, HidesIn, XorsIn, Same
  <1>7. BranchBody(B, 0, Len(B))
    BY <1>2, <1>3, <1>6 DEF BranchBody
  <1>8. Onward(p, c, I)
    BY <1>1 DEF Onward
  <1> QED
    BY <1>1, <1>7, <1>8 DEF I, B

\* The body of a jump.
LEMMA BranchJa ==
    ASSUME NEW p, NEW c \in Nat, NEW to \in c + 1 .. Len(p), Len(p) \in Nat, NEW r \in Word \cup {NoRnd}
    PROVE  LET I == <<Jump("JA", "K", "A", 0, to)>>
           IN  /\ I \in Seq(EbpfInsn) /\ Len(I) > 0
               /\ BranchBody(Kept(I, r), 0, Len(Kept(I, r)))
               /\ Onward(p, c, I)
  <1> DEFINE ja == Jump("JA", "K", "A", 0, to)
             I == <<ja>>
             B == Kept(I, r)
             s == Hide(ja, r)
  <1>0. to \in Int
    OBVIOUS
  <1>1. ja \in EbpfInsn /\ Len(s) = 1 /\ s[1].cls = "JMP" /\ s[1].op = "JA"
    BY <1>0, JaKept
  <1>2. ja.off = to
    BY DEF Jump, Ebpf
  <1> HIDE DEF ja
  <1>3. I \in Seq(EbpfInsn) /\ Len(I) = 1 /\ I[1] = ja
    BY <1>1
  <1>4. Len(B) = Len(s) /\ \A j \in 1 .. Len(s) : B[j] = s[j]
    BY <1>1, KeptOne
  <1> HIDE DEF I, B, s
  <1>5. Len(B) = 1 /\ B[0 + 1] = s[1]
    BY <1>1, <1>4
  <1>6. BranchBody(B, 0, Len(B))
    BY <1>1, <1>5 DEF BranchBody, JaUnit
  <1>7. Onward(p, c, I)
    BY <1>2, <1>3 DEF Onward
  <1> QED
    BY <1>3, <1>6, <1>7 DEF I, B, ja

\* The body of a conditional jump with an explicit jump for the other way.
LEMMA BranchTwo ==
    ASSUME NEW p, NEW c, NEW jxx \in EbpfInsn, NEW ja \in EbpfInsn, NEW r \in Word \cup {NoRnd},
           Len(Hide(jxx, r)) \in {1, 3}, CondUnit(Hide(jxx, r), 0, Len(Hide(jxx, r))),
           Len(Hide(ja, r)) = 1, Hide(ja, r)[1].cls = "JMP", Hide(ja, r)[1].op = "JA",
           jxx.off \in c + 1 .. Len(p), ja.off \in c + 1 .. Len(p)
    PROVE  /\ <<jxx, ja>> \in Seq(EbpfInsn) /\ Len(<<jxx, ja>>) > 0
           /\ BranchBody(Kept(<<jxx, ja>>, r), 0, Len(Kept(<<jxx, ja>>, r)))
           /\ Onward(p, c, <<jxx, ja>>)
  <1> DEFINE I == <<jxx, ja>>
             B == Kept(I, r)
             s == Hide(jxx, r)
             t == Hide(ja, r)
  <1>1. I \in Seq(EbpfInsn) /\ Len(I) = 2 /\ I[1] = jxx /\ I[2] = ja
    OBVIOUS
  <1>2. /\ Len(B) = Len(s) + Len(t) /\ \A j \in 1 .. Len(s) : B[j] = s[j]
        /\ \A j \in 1 .. Len(t) : B[Len(s) + j] = t[j]
    BY KeptTwo
  <1>3. PICK h \in {1, 3} : h = Len(s)
    OBVIOUS
  <1>4. CondUnit(s, 0, h) /\ Len(t) = 1 /\ t[1].cls = "JMP" /\ t[1].op = "JA"
    BY <1>3
  <1> HIDE DEF I, B, s, t
  <1>5. \A j \in 1 .. h : Same(B[0 + j], s[j])
    BY <1>2, <1>3 DEF Same
  <1>6. CondUnit(B, 0, h)
    BY <1>4, <1>5 DEF CondUnit, HidesIn, XorsIn, Same
  <1>7. Len(B) = h + 1 /\ B[h + 1] = t[1] /\ 0 + h = h
    BY <1>2, <1>3, <1>4
  <1>8. JaUnit(B, 0 + h)
    BY <1>4, <1>7 DEF JaUnit
  <1>9. BranchBody(B, 0, Len(B))
    BY <1>6, <1>7, <1>8 DEF BranchBody
  <1>10. \A n \in 1 .. 2 : n = 1 \/ n = 2
    OBVIOUS
  <1>11. Onward(p, c, I)
    BY <1>1, <1>10 DEF Onward
  <1> QED
    BY <1>1, <1>9, <1>11 DEF I, B

\* The body of a comparison with a large constant.
LEMMA BranchLarge ==
    ASSUME NEW p, NEW c, NEW mov \in EbpfInsn, NEW jxx \in EbpfInsn, NEW r \in Word \cup {NoRnd},
           Len(Hide(mov, r)) \in {1, 3}, MovUnit(Hide(mov, r), 0, "TMP", Len(Hide(mov, r))),
           mov.cls # "JMP",
           Len(Hide(jxx, r)) = 1, CondUnit(Hide(jxx, r), 0, 1),
           jxx.off \in c + 1 .. Len(p)
    PROVE  /\ <<mov, jxx>> \in Seq(EbpfInsn) /\ Len(<<mov, jxx>>) > 0
           /\ BranchBody(Kept(<<mov, jxx>>, r), 0, Len(Kept(<<mov, jxx>>, r)))
           /\ Onward(p, c, <<mov, jxx>>)
  <1> DEFINE I == <<mov, jxx>>
             B == Kept(I, r)
             s == Hide(mov, r)
             t == Hide(jxx, r)
  <1>1. I \in Seq(EbpfInsn) /\ Len(I) = 2 /\ I[1] = mov /\ I[2] = jxx
    OBVIOUS
  <1>2. /\ Len(B) = Len(s) + Len(t) /\ \A j \in 1 .. Len(s) : B[j] = s[j]
        /\ \A j \in 1 .. Len(t) : B[Len(s) + j] = t[j]
    BY KeptTwo
  <1>3. PICK h \in {1, 3} : h = Len(s)
    OBVIOUS
  <1>4. MovUnit(s, 0, "TMP", h) /\ Len(t) = 1 /\ CondUnit(t, 0, 1)
    BY <1>3
  <1> HIDE DEF I, B, s, t
  <1>5. \A j \in 1 .. h : Same(B[0 + j], s[j])
    BY <1>2, <1>3 DEF Same
  <1>6. MovUnit(B, 0, "TMP", h)
    BY <1>4, <1>5 DEF MovUnit, Moves, HidesIn, XorsIn, Same
  <1>7. Len(B) = h + 1 /\ B[h + 1] = t[1] /\ 0 + h = h
    BY <1>2, <1>3, <1>4
  <1>8. CondUnit(B, 0 + h, 1)
    BY <1>4, <1>7 DEF CondUnit
  <1>9. BranchBody(B, 0, Len(B))
    BY <1>6, <1>7, <1>8 DEF BranchBody
  <1>10. \A n \in 1 .. 2 : n = 1 \/ n = 2
    OBVIOUS
  <1>11. Onward(p, c, I)
    BY <1>1, <1>10 DEF Onward
  <1> QED
    BY <1>1, <1>9, <1>11 DEF I, B

\* The body of a comparison with a large constant and an explicit jump.
LEMMA BranchThree ==
    ASSUME NEW p, NEW c, NEW mov \in EbpfInsn, NEW jxx \in EbpfInsn, NEW ja \in EbpfInsn,
           NEW r \in Word \cup {NoRnd},
           Len(Hide(mov, r)) \in {1, 3}, MovUnit(Hide(mov, r), 0, "TMP", Len(Hide(mov, r))),
           mov.cls # "JMP",
           Len(Hide(jxx, r)) = 1, CondUnit(Hide(jxx, r), 0, 1),
           Len(Hide(ja, r)) = 1, Hide(ja, r)[1].cls = "JMP", Hide(ja, r)[1].op = "JA",
           jxx.off \in c + 1 .. Len(p), ja.off \in c + 1 .. Len(p)
    PROVE  /\ <<mov, jxx, ja>> \in Seq(EbpfInsn) /\ Len(<<mov, jxx, ja>>) > 0
           /\ BranchBody(Kept(<<mov, jxx, ja>>, r), 0, Len(Kept(<<mov, jxx, ja>>, r)))
           /\ Onward(p, c, <<mov, jxx, ja>>)
  <1> DEFINE I == <<mov, jxx, ja>>
             B == Kept(I, r)
             s == Hide(mov, r)
             t == Hide(jxx, r)
             u == Hide(ja, r)
  <1>1. I \in Seq(EbpfInsn) /\ Len(I) = 3 /\ I[1] = mov /\ I[2] = jxx /\ I[3] = ja
    OBVIOUS
  <1>2. /\ Len(B) = Len(s) + Len(t) + Len(u) /\ \A j \in 1 .. Len(s) : B[j] = s[j]
        /\ \A j \in 1 .. Len(t) : B[Len(s) + j] = t[j]
        /\ \A j \in 1 .. Len(u) : B[Len(s) + Len(t) + j] = u[j]
    <2>1. Joins(B, s, t, u)
      BY KeptThree
    <2> HIDE DEF B, s, t, u
    <2> QED
      BY <2>1 DEF Joins
  <1>3. PICK h \in {1, 3} : h = Len(s)
    OBVIOUS
  <1>4. /\ MovUnit(s, 0, "TMP", h) /\ Len(t) = 1 /\ CondUnit(t, 0, 1)
        /\ Len(u) = 1 /\ u[1].cls = "JMP" /\ u[1].op = "JA"
    BY <1>3
  <1> HIDE DEF I, B, s, t, u
  <1>5. \A j \in 1 .. h : Same(B[0 + j], s[j])
    BY <1>2, <1>3 DEF Same
  <1>6. MovUnit(B, 0, "TMP", h)
    BY <1>4, <1>5 DEF MovUnit, Moves, HidesIn, XorsIn, Same
  <1>7. /\ Len(B) = h + 2 /\ B[h + 1] = t[1] /\ B[h + 1 + 1] = u[1]
        /\ 0 + h = h /\ 0 + h + 1 = h + 1
    BY <1>2, <1>3, <1>4
  <1>8. CondUnit(B, 0 + h, 1) /\ JaUnit(B, 0 + h + 1)
    BY <1>4, <1>7 DEF CondUnit, JaUnit
  <1>9. BranchBody(B, 0, Len(B))
    BY <1>6, <1>7, <1>8 DEF BranchBody
  <1>10. \A n \in 1 .. 3 : n = 1 \/ n = 2 \/ n = 3
    OBVIOUS
  <1>11. Onward(p, c, I)
    BY <1>1, <1>10 DEF Onward
  <1> QED
    BY <1>1, <1>9, <1>11 DEF I, B

\* The body of every jump, and where its jumps go.
LEMMA BranchShape ==
    ASSUME NEW p \in Seq(ClassicInsn), Acceptable(p), NEW c \in DOMAIN p, p[c].cls = "JMP",
           NEW r \in Word \cup {NoRnd}
    PROVE  /\ Convert(p, c) \in Seq(EbpfInsn) /\ Len(Convert(p, c)) > 0
           /\ BranchBody(Kept(Convert(p, c), r), 0, Len(Kept(Convert(p, c), r)))
           /\ Onward(p, c, Convert(p, c))
  <1> DEFINE Good(I) == /\ I \in Seq(EbpfInsn) /\ Len(I) > 0
                        /\ BranchBody(Kept(I, r), 0, Len(Kept(I, r)))
                        /\ Onward(p, c, I)
  <1>0. c \in Nat /\ Len(p) \in Nat
    OBVIOUS
  <1>1. CASE p[c].op = "JA"
    <2>1. PICK to \in c + 1 .. Len(p) : Convert(p, c) = <<Jump("JA", "K", "A", 0, to)>>
      BY <1>1, ConvertJa
    <2>2. Good(<<Jump("JA", "K", "A", 0, to)>>)
      BY <1>0, BranchJa
    <2> QED
      BY <2>1, <2>2
  <1>2. CASE p[c].op # "JA"
    <2>1. PICK op \in CondOps, src \in {"K", "X"}, sreg \in {"A", "X", "TMP"}, k \in Word,
               to \in c + 1 .. Len(p), jf \in c + 1 .. Len(p) :
              LET jxx == Jump(op, src, sreg, k, to)
                  ja  == Jump("JA", "K", "A", 0, jf)
              IN  \/ Convert(p, c) \in {<<jxx>>, <<jxx, ja>>}
                  \/ src = "X" /\ \E large \in Word :
                       Convert(p, c) \in {<<Mov("TMP", large), jxx>>, <<Mov("TMP", large), jxx, ja>>}
      BY <1>2, ConvertBranch
    <2> DEFINE jxx == Jump(op, src, sreg, k, to)
               ja  == Jump("JA", "K", "A", 0, jf)
    <2>2. to \in Int /\ jf \in Int /\ op \in CondOps \cup {"JA"}
      BY <1>0
    <2>3. jxx \in EbpfInsn /\ jxx.off = to
      BY <2>2, JumpTyped
    <2>4. /\ ja \in EbpfInsn /\ Len(Hide(ja, r)) = 1
          /\ Hide(ja, r)[1].cls = "JMP" /\ Hide(ja, r)[1].op = "JA"
      BY <2>2, JaKept
    <2>5. ja.off = jf
      BY DEF Jump, Ebpf
    <2>6. /\ Len(Hide(jxx, r)) \in {1, 3} /\ (src = "X" => Len(Hide(jxx, r)) = 1)
          /\ CondUnit(Hide(jxx, r), 0, Len(Hide(jxx, r)))
      BY HideCond
    <2>7. \/ Convert(p, c) \in {<<jxx>>, <<jxx, ja>>}
          \/ src = "X" /\ \E large \in Word :
                       Convert(p, c) \in {<<Mov("TMP", large), jxx>>, <<Mov("TMP", large), jxx, ja>>}
      BY <2>1
    <2> HIDE DEF jxx, ja
    <2>8. Good(<<jxx>>)
      BY <2>3, <2>6, BranchOne
    <2>9. Good(<<jxx, ja>>)
      BY <2>3, <2>4, <2>5, <2>6, BranchTwo
    <2>10. ASSUME NEW large \in Word, src = "X"
           PROVE  Good(<<Mov("TMP", large), jxx>>) /\ Good(<<Mov("TMP", large), jxx, ja>>)
      <3> DEFINE mov == Mov("TMP", large)
      <3>1. mov \in EbpfInsn
        BY MovTyped
      <3>2. Len(Hide(mov, r)) \in {1, 3} /\ MovUnit(Hide(mov, r), 0, "TMP", Len(Hide(mov, r)))
        BY HideMov
      <3>3. mov.cls # "JMP"
        BY DEF Mov, Ebpf
      <3>4. Len(Hide(jxx, r)) = 1 /\ CondUnit(Hide(jxx, r), 0, 1)
        <4>1. Len(Hide(jxx, r)) = 1
          BY <2>10, <2>6
        <4> QED
          BY <4>1, <2>6
      <3> HIDE DEF mov
      <3>5. Good(<<mov, jxx>>)
        BY <3>1, <3>2, <3>3, <3>4, <2>3, BranchLarge
      <3>6. Good(<<mov, jxx, ja>>)
        BY <3>1, <3>2, <3>3, <3>4, <2>3, <2>4, <2>5, BranchThree
      <3> QED
        BY <3>5, <3>6 DEF mov
    <2> HIDE DEF Good
    <2>11. Good(Convert(p, c))
      BY <2>7, <2>8, <2>9, <2>10
    <2> QED
      BY <2>11 DEF Good
  <1> QED
    BY <1>1, <1>2

\* What one classic instruction becomes, before its jumps are resolved.
JumpsMeant(p, c, B) ==
    \A j \in 1 .. Len(B) : B[j].cls = "JMP" /\ B[j].op # "EXIT" =>
        IF p[c].cls = "JMP" THEN B[j].off \in c + 1 .. Len(p)
        ELSE B[j].off = 2 /\ j + 3 <= Len(B)
\* B is a body of instruction c of filter p.
Body(p, c, B) ==
    /\ B \in Seq(EbpfInsn) /\ Len(B) >= 1
    /\ Shape(p[c].cls, B, 0, Len(B))
    /\ JumpsMeant(p, c, B)

\* A body has one to seven instructions.
LEMMA ShapeLength ==
    ASSUME NEW cls, NEW g, NEW o, NEW m, Shape(cls, g, o, m)
    PROVE  m \in 1 .. 7
  BY DEF Shape, StraightBody, BranchBody, ReturnBody, DivUnit

\* The jumps of a body mean what those of its instructions did.
LEMMA JumpsOfBody ==
    ASSUME NEW I \in Seq(EbpfInsn), Len(I) > 0, NEW r \in Word \cup {NoRnd},
           NEW q \in 1 .. Len(Kept(I, r)), Kept(I, r)[q].cls = "JMP"
    PROVE  \E n \in 1 .. Len(I) : I[n].cls = "JMP" /\ Kept(I, r)[q].op = I[n].op
                                  /\ Kept(I, r)[q].off = I[n].off
  <1>1. PICK base : Bases(base, HideAll(I, r)) /\ Parts(base, HideAll(I, r), Kept(I, r))
    BY KeptParts
  <1>2. JumpsAt(base, I, Kept(I, r))
    BY <1>1, KeptJumps
  <1> QED
    BY <1>2 DEF JumpsAt

\* The body of an instruction, before and after constants are hidden.
LEMMA MakesBody ==
    ASSUME NEW p, NEW c, NEW I \in Seq(EbpfInsn), Len(I) > 0, NEW r \in Word \cup {NoRnd},
           Shape(p[c].cls, Kept(I, r), 0, Len(Kept(I, r))), JumpsMeant(p, c, Kept(I, r))
    PROVE  Body(p, c, Kept(I, r))
  <1>1. Kept(I, r) \in Seq(EbpfInsn)
    BY KeptParts
  <1>2. Len(Kept(I, r)) \in 1 .. 7
    BY ShapeLength
  <1>n. ASSUME NEW m \in 1 .. 7 PROVE m >= 1
    OBVIOUS
  <1>3. Len(Kept(I, r)) >= 1
    BY <1>2, <1>n, Zenon
  <1> QED
    BY <1>1, <1>3 DEF Body

\* The kernel makes a body of every instruction of an acceptable filter.
LEMMA BodyOf ==
    ASSUME NEW p \in Seq(ClassicInsn), Acceptable(p), NEW c \in DOMAIN p,
           NEW r \in Word \cup {NoRnd}
    PROVE  Body(p, c, Kept(Convert(p, c), r))
  <1> DEFINE I == Convert(p, c)
             B == Kept(I, r)
  <1>1. SUFFICES /\ I \in Seq(EbpfInsn) /\ Len(I) > 0
                 /\ Shape(p[c].cls, B, 0, Len(B)) /\ JumpsMeant(p, c, B)
    BY <1>1, MakesBody
  <1>2. CASE p[c].cls = "JMP"
    <2>1. I \in Seq(EbpfInsn) /\ Len(I) > 0 /\ BranchBody(B, 0, Len(B)) /\ Onward(p, c, I)
      BY <1>2, BranchShape
    <2> HIDE DEF I
    <2>2. JumpsMeant(p, c, B)
      <3> SUFFICES ASSUME NEW q \in 1 .. Len(B), B[q].cls = "JMP"
                   PROVE  B[q].off \in c + 1 .. Len(p)
        BY <1>2 DEF JumpsMeant
      <3>1. PICK n \in 1 .. Len(I) : I[n].cls = "JMP" /\ B[q].off = I[n].off
        BY <2>1, JumpsOfBody
      <3> QED
        BY <3>1, <2>1 DEF Onward
    <2> QED
      BY <2>1, <2>2, <1>2 DEF Shape
  <1>3. CASE p[c].cls = "RET"
    <2>1. /\ I \in Seq(EbpfInsn) /\ Len(I) > 0 /\ ReturnBody(B, 0, Len(B))
          /\ \A n \in 1 .. Len(I) : I[n].cls = "JMP" => I[n].op = "EXIT"
      BY <1>3, ReturnShape
    <2> HIDE DEF I
    <2>2. JumpsMeant(p, c, B)
      <3> SUFFICES ASSUME NEW q \in 1 .. Len(B), B[q].cls = "JMP"
                   PROVE  B[q].op = "EXIT"
        BY DEF JumpsMeant
      <3>1. PICK n \in 1 .. Len(I) : I[n].cls = "JMP" /\ B[q].op = I[n].op
        BY <2>1, JumpsOfBody
      <3> QED
        BY <3>1, <2>1
    <2> QED
      BY <2>1, <2>2, <1>3 DEF Shape
  <1>4. CASE p[c].cls \notin {"JMP", "RET"} /\ I # Division
    <2>1. /\ I \in Seq(EbpfInsn) /\ Len(I) > 0 /\ StraightBody(B, 0, Len(B))
          /\ \A n \in 1 .. Len(I) : I[n].cls # "JMP"
      BY <1>4, StraightShape
    <2> HIDE DEF I
    <2>2. JumpsMeant(p, c, B)
      <3> SUFFICES ASSUME NEW q \in 1 .. Len(B), B[q].cls = "JMP"
                   PROVE  FALSE
        BY DEF JumpsMeant
      <3>1. PICK n \in 1 .. Len(I) : I[n].cls = "JMP"
        BY <2>1, JumpsOfBody
      <3> QED
        BY <3>1, <2>1
    <2> QED
      BY <2>1, <2>2, <1>4 DEF Shape
  <1>5. CASE p[c].cls \notin {"JMP", "RET"} /\ I = Division
    <2> HIDE DEF I
    <2>1. /\ I \in Seq(EbpfInsn) /\ Len(I) > 0 /\ DivUnit(B, 0, Len(B))
          /\ \A q \in 1 .. Len(B) :
                B[q].cls = "JMP" /\ B[q].op # "EXIT" => B[q].off = 2 /\ q + 3 <= Len(B)
      BY <1>5, DivisionShape
    <2> QED
      BY <2>1, <1>5 DEF Shape, StraightBody, JumpsMeant
  <1> QED
    BY <1>2, <1>3, <1>4, <1>5

---------------------------------------------------------------------------
(* The bodies one behind the other.                                      *)

\* b adds up the lengths L.
Grows(b, L, N) == \A n \in 1 .. N : L[n] \in Nat /\ b[n + 1] = b[n] + L[n]

\* Two sequences with parts of the same lengths have the same bases.
LEMMA BasesSame ==
    ASSUME NEW N \in Nat, NEW b1, NEW b2, NEW L, b1[1] = b2[1],
           Grows(b1, L, N), Grows(b2, L, N)
    PROVE  \A n \in 1 .. N + 1 : b1[n] = b2[n]
  <1> DEFINE Bad == {n \in 1 .. N + 1 : b1[n] # b2[n]}
  <1> SUFFICES ASSUME Bad # {} PROVE FALSE
    OBVIOUS
  <1>1. PICK m \in Bad : \A k \in Bad : m <= k
    <2>1. Bad \in SUBSET Nat
      OBVIOUS
    <2> QED
      BY <2>1, FirstNumber
  <1>2. m # 1
    OBVIOUS
  <1>3. m - 1 \in 1 .. N /\ m - 1 \in 1 .. N + 1 /\ ~(m <= m - 1) /\ (m - 1) + 1 = m
    BY <1>2
  <1>4. b1[m - 1] = b2[m - 1]
    BY <1>1, <1>3
  <1> QED
    BY <1>3, <1>4 DEF Grows

\* Where the bodies are put: behind the prologue, one behind the other.
Placed(at, bodies) ==
    /\ at \in [1 .. Len(bodies) + 1 -> Nat]
    /\ at[1] = 3
    /\ \A n \in 1 .. Len(bodies) : at[n + 1] = at[n] + Len(bodies[n])

\* Addresses puts every body behind the one before it.
LEMMA AddressesPlaced ==
    ASSUME NEW S, NEW bodies \in Seq(Seq(S)), Len(bodies) > 0
    PROVE  Placed(Addresses(bodies), bodies)
  <1> DEFINE N == Len(bodies)
             Is(f) == f = [n \in 1 .. Len(bodies) + 1 |->
                             IF n = 1 THEN 3 ELSE f[n - 1] + Len(bodies[n - 1])]
             addr == CHOOSE f : Is(f)
  <1>0. N \in Nat /\ \A n \in 1 .. N : Len(bodies[n]) \in Nat
    BY LenProperties
  <1>1. PICK base : Bases(base, bodies)
    BY FlattenParts
  <1>2. /\ base \in [1 .. N + 1 -> Nat] /\ base[1] = 0
        /\ \A n \in 1 .. N : base[n + 1] = base[n] + Len(bodies[n])
    BY <1>1 DEF Bases
  <1> DEFINE g == [n \in 1 .. N + 1 |-> 3 + base[n]]
  <1> HIDE DEF N
  <1>3. g = [n \in 1 .. N + 1 |-> IF n = 1 THEN 3 ELSE g[n - 1] + Len(bodies[n - 1])]
    <2>1. ASSUME NEW n \in 1 .. N + 1
          PROVE  3 + base[n] = IF n = 1 THEN 3 ELSE g[n - 1] + Len(bodies[n - 1])
      <3>1. CASE n = 1
        BY <3>1, <1>2
      <3>2. CASE n # 1
        <4>1. n - 1 \in 1 .. N /\ n - 1 \in 1 .. N + 1 /\ (n - 1) + 1 = n
          BY <3>2, <1>0
        <4>2. g[n - 1] = 3 + base[n - 1] /\ base[n] = base[n - 1] + Len(bodies[n - 1])
          BY <4>1, <1>2
        <4>3. base[n - 1] \in Nat /\ Len(bodies[n - 1]) \in Nat
          BY <4>1, <1>2, <1>0
        <4> QED
          BY <3>2, <4>2, <4>3
      <3> QED
        BY <3>1, <3>2
    <2> QED
      BY <2>1
  <1>4. Is(g)
    BY <1>3 DEF N
  <1>5. Is(addr)
    <2> HIDE DEF g
    <2> QED
      BY <1>4
  <1>6. addr = Addresses(bodies)
    BY DEF Addresses
  <1> HIDE DEF addr
  <1>7. /\ addr = [n \in 1 .. N + 1 |-> addr[n]]
        /\ \A n \in 1 .. N + 1 : addr[n] = IF n = 1 THEN 3 ELSE addr[n - 1] + Len(bodies[n - 1])
    <2>1. addr = [n \in 1 .. N + 1 |-> IF n = 1 THEN 3 ELSE addr[n - 1] + Len(bodies[n - 1])]
      BY <1>5 DEF N
    <2> QED
      BY <2>1
  <1>8. addr[1] = 3 /\ \A n \in 1 .. N : addr[n + 1] = addr[n] + Len(bodies[n])
    <2>1. 1 \in 1 .. N + 1 /\ \A n \in 1 .. N : n + 1 \in 1 .. N + 1 /\ n + 1 # 1 /\ (n + 1) - 1 = n
      BY <1>0
    <2> QED
      BY <1>7, <2>1
  <1>g. \A n \in 1 .. N + 1 : g[n] = 3 + base[n] /\ base[n] \in Nat
    BY <1>2
  <1> HIDE DEF g
  <1>9. g[1] = 3 /\ \A n \in 1 .. N : g[n + 1] = g[n] + Len(bodies[n])
    <2>1. 1 \in 1 .. N + 1 /\ \A n \in 1 .. N : n + 1 \in 1 .. N + 1 /\ n \in 1 .. N + 1
      BY <1>0
    <2>2. \A n \in 1 .. N : base[n] \in Nat /\ Len(bodies[n]) \in Nat
      BY <2>1, <1>0, <1>2
    <2>3. g[1] = 3
      BY <1>g, <1>2, <2>1
    <2>4. ASSUME NEW n \in 1 .. N PROVE g[n + 1] = g[n] + Len(bodies[n])
      <3>1. g[n + 1] = 3 + base[n + 1] /\ g[n] = 3 + base[n]
        BY <1>g, <2>1
      <3>2. base[n + 1] = base[n] + Len(bodies[n])
        BY <1>2
      <3>3. base[n] \in Nat /\ Len(bodies[n]) \in Nat
        BY <2>2
      <3> QED
        BY <3>1, <3>2, <3>3
    <2> QED
      BY <2>3, <2>4
  <1>10. \A n \in 1 .. N + 1 : addr[n] = g[n]
    <2> DEFINE L == [n \in 1 .. N |-> Len(bodies[n])]
    <2>1. Grows(g, L, N) /\ Grows(addr, L, N)
      BY <1>0, <1>8, <1>9 DEF Grows
    <2> HIDE DEF L
    <2>2. addr[1] = g[1]
      BY <1>8, <1>9
    <2>3. N \in Nat
      BY <1>0
    <2> HIDE DEF addr
    <2> QED
      BY <2>1, <2>2, <2>3, BasesSame
  <1>11. \A n \in 1 .. N + 1 : addr[n] \in Nat
    BY <1>10, <1>g
  <1>12. addr \in [1 .. N + 1 -> Nat]
    BY <1>7, <1>11
  <1> QED
    BY <1>6, <1>8, <1>12 DEF Placed, N

\* The bodies of the instructions of a filter.
LEMMA BodiesOf ==
    ASSUME NEW p \in Seq(ClassicInsn), Acceptable(p), NEW r \in Word \cup {NoRnd}
    PROVE  /\ Bodies(p, r) \in Seq(Seq(EbpfInsn)) /\ Len(Bodies(p, r)) = Len(p) /\ Len(p) > 0
           /\ \A c \in 1 .. Len(p) : Body(p, c, Bodies(p, r)[c])
  <1> DEFINE N == Len(p)
             bodies == Bodies(p, r)
  <1>0. N \in Nat /\ DOMAIN p = 1 .. N
    OBVIOUS
  <1>1. N > 0
    BY DEF Acceptable
  <1> HIDE DEF N
  <1>2. \A c \in 1 .. N : Body(p, c, Kept(Convert(p, c), r))
    BY <1>0, BodyOf
  <1>3. bodies = [c \in 1 .. N |-> Kept(Convert(p, c), r)]
    BY <1>0 DEF Bodies, Kept
  <1>4. \A c \in 1 .. N : Kept(Convert(p, c), r) \in Seq(EbpfInsn)
    BY <1>2 DEF Body
  <1>5. bodies \in Seq(Seq(EbpfInsn)) /\ Len(bodies) = N
    BY <1>0, <1>3, <1>4, IsASeq
  <1>6. \A c \in 1 .. N : bodies[c] = Kept(Convert(p, c), r)
    BY <1>3
  <1> HIDE DEF bodies
  <1> QED
    BY <1>1, <1>2, <1>5, <1>6 DEF N, bodies

\* Resolving the jumps of a body changes nothing but where they go.
Resolved(p, c, B, at, R) ==
    /\ R \in Seq(EbpfInsn) /\ Len(R) = Len(B)
    /\ \A j \in 1 .. Len(B) :
         /\ Same(R[j], B[j])
         /\ R[j].off = IF B[j].cls = "JMP" /\ B[j].op # "EXIT" /\ p[c].cls = "JMP"
                       THEN at[B[j].off] - (at[c] + j) ELSE B[j].off

\* Resolving the jumps of a body changes nothing but where they go.
LEMMA ResolveOne ==
    ASSUME NEW e \in EbpfInsn, NEW k \in Int
    PROVE  /\ [e EXCEPT !.off = k] \in EbpfInsn /\ Same([e EXCEPT !.off = k], e)
           /\ [e EXCEPT !.off = k].off = k
  BY DEF EbpfInsn, Same

\* Resolve is that for every instruction of a body.
LEMMA ResolveBody ==
    ASSUME NEW p, Len(p) \in Nat, NEW c \in 1 .. Len(p), NEW B, Body(p, c, B),
           NEW at \in [1 .. Len(p) + 1 -> Nat]
    PROVE  Resolved(p, c, B, at, Resolve(p[c], B, at, c))
  <1> DEFINE R == Resolve(p[c], B, at, c)
             N == Len(B)
             new(j) == IF B[j].cls = "JMP" /\ B[j].op # "EXIT" /\ p[c].cls = "JMP"
                       THEN [B[j] EXCEPT !.off = at[B[j].off] - (at[c] + j)] ELSE B[j]
  <1>1. B \in Seq(EbpfInsn) /\ N \in Nat /\ DOMAIN B = 1 .. N /\ \A j \in 1 .. N : B[j] \in EbpfInsn
    BY DEF Body
  <1>2. R = [j \in 1 .. N |-> new(j)]
    BY <1>1 DEF Resolve
  <1>3. ASSUME NEW j \in 1 .. N
        PROVE  /\ new(j) \in EbpfInsn /\ Same(new(j), B[j])
               /\ new(j).off = IF B[j].cls = "JMP" /\ B[j].op # "EXIT" /\ p[c].cls = "JMP"
                               THEN at[B[j].off] - (at[c] + j) ELSE B[j].off
    <2>1. CASE B[j].cls = "JMP" /\ B[j].op # "EXIT" /\ p[c].cls = "JMP"
      <3>1. B[j].off \in c + 1 .. Len(p)
        BY <2>1 DEF Body, JumpsMeant
      <3>2. at[B[j].off] \in Nat /\ at[c] \in Nat
        BY <3>1
      <3>3. at[B[j].off] - (at[c] + j) \in Int
        BY <3>2, <1>1
      <3>4. B[j] \in EbpfInsn
        BY <1>1
      <3> QED
        BY <2>1, <3>3, <3>4, ResolveOne
    <2>2. CASE ~(B[j].cls = "JMP" /\ B[j].op # "EXIT" /\ p[c].cls = "JMP")
      BY <2>2, <1>1 DEF Same
    <2> QED
      BY <2>1, <2>2
  <1> HIDE DEF new
  <1>4. R \in Seq(EbpfInsn) /\ Len(R) = N
    BY <1>1, <1>2, <1>3, IsASeq
  <1>5. \A j \in 1 .. N : R[j] = new(j)
    BY <1>2
  <1> HIDE DEF R, N
  <1>6. Resolved(p, c, B, at, R)
    BY <1>3, <1>4, <1>5 DEF Resolved, N
  <1> QED
    BY <1>6 DEF R

\* How the eBPF filter w is laid out: the prologue, then the bodies with their
\* jumps resolved.
Laid(p, bodies, at, w) ==
    /\ Len(w) = at[Len(p) + 1]
    /\ \A c \in 1 .. Len(p) : \A j \in 1 .. Len(bodies[c]) :
          w[at[c] + j] = Resolve(p[c], bodies[c], at, c)[j]
    /\ \A q \in 1 .. Len(w) :
          q <= 3 \/ \E c \in 1 .. Len(p) : \E j \in 1 .. Len(bodies[c]) : q = at[c] + j
    /\ w[1].cls = "ALU" /\ w[1].op = "XOR"
    /\ w[2].cls = "ALU" /\ w[2].op = "XOR"
    /\ w[3].cls = "ALU64" /\ w[3].op = "MOV" /\ w[3].dst = "CTX"

\* The filter the kernel keeps is the prologue and the resolved bodies, each
\* at its address.
LEMMA KernelLaid ==
    ASSUME NEW p \in Seq(ClassicInsn), Acceptable(p), NEW r \in Word \cup {NoRnd}
    PROVE  /\ KernelEbpf(p, r) \in Seq(EbpfInsn)
           /\ Placed(Addresses(Bodies(p, r)), Bodies(p, r))
           /\ Laid(p, Bodies(p, r), Addresses(Bodies(p, r)), KernelEbpf(p, r))
  <1> DEFINE N == Len(p)
             bodies == Bodies(p, r)
             at == Addresses(bodies)
             w == KernelEbpf(p, r)
             seqs == [n \in DOMAIN p |-> Resolve(p[n], bodies[n], at, n)]
             F == FlattenSeq(seqs)
             a == Ebpf("ALU", "XOR", "X", "A", "A", 0, 0)
             b == Ebpf("ALU", "XOR", "X", "X", "X", 0, 0)
             d == Ebpf("ALU64", "MOV", "X", "CTX", "ARG1", 0, 0)
             pro == <<a, b, d>>
  <1>1. /\ bodies \in Seq(Seq(EbpfInsn)) /\ Len(bodies) = N /\ N > 0
        /\ \A c \in 1 .. N : Body(p, c, bodies[c])
    BY BodiesOf
  <1>2. N \in Nat /\ DOMAIN p = 1 .. N
    OBVIOUS
  <1>3. w = pro \o F
    BY DEF KernelEbpf
  <1>a. a \in EbpfInsn /\ a.cls = "ALU" /\ a.op = "XOR"
    BY FilterAssumption DEF Ebpf, EbpfInsn, Clss, Ops, Regs
  <1>b. b \in EbpfInsn /\ b.cls = "ALU" /\ b.op = "XOR"
    BY FilterAssumption DEF Ebpf, EbpfInsn, Clss, Ops, Regs
  <1>d. d \in EbpfInsn /\ d.cls = "ALU64" /\ d.op = "MOV" /\ d.dst = "CTX"
    BY FilterAssumption DEF Ebpf, EbpfInsn, Clss, Ops, Regs
  <1> HIDE DEF a, b, d, bodies, w
  <1>4. Placed(at, bodies)
    BY <1>1, AddressesPlaced
  <1>s. seqs = [n \in 1 .. N |-> Resolve(p[n], bodies[n], at, n)]
    BY <1>2
  <1> HIDE DEF at
  <1>5. at \in [1 .. N + 1 -> Nat] /\ at[1] = 3
        /\ \A n \in 1 .. N : at[n + 1] = at[n] + Len(bodies[n])
    BY <1>1, <1>4 DEF Placed
  <1>6. \A c \in 1 .. N : Resolved(p, c, bodies[c], at, Resolve(p[c], bodies[c], at, c))
    BY <1>1, <1>2, <1>5, ResolveBody
  <1>7. \A c \in 1 .. N : /\ Resolve(p[c], bodies[c], at, c) \in Seq(EbpfInsn)
                          /\ Len(Resolve(p[c], bodies[c], at, c)) = Len(bodies[c])
    BY <1>6 DEF Resolved
  <1> HIDE DEF N
  <1>8. seqs \in Seq(Seq(EbpfInsn)) /\ Len(seqs) = N
    BY <1>2, <1>s, <1>7, IsASeq
  <1>9. \A c \in 1 .. N : seqs[c] = Resolve(p[c], bodies[c], at, c) /\ Len(seqs[c]) = Len(bodies[c])
    BY <1>s, <1>7
  <1> HIDE DEF seqs
  <1>10. F \in Seq(EbpfInsn) /\ \E base : Bases(base, seqs) /\ Parts(base, seqs, F)
    <2>1. Len(seqs) > 0
      BY <1>1, <1>8 DEF N
    <2> QED
      BY <1>8, <2>1, FlattenParts
  <1>11. PICK base : Bases(base, seqs) /\ Parts(base, seqs, F)
    BY <1>10
  <1> HIDE DEF F
  <1>n. N \in Nat /\ N > 0
    BY <1>1, <1>2 DEF N
  <1>12. /\ base \in [1 .. N + 1 -> Nat] /\ base[1] = 0
         /\ \A n \in 1 .. N : base[n + 1] = base[n] + Len(seqs[n])
    BY <1>8, <1>11 DEF Bases
  <1>13. /\ Len(F) = base[N + 1]
         /\ \A n \in 1 .. N : \A j \in 1 .. Len(seqs[n]) :
               base[n] + j \in 1 .. Len(F) /\ F[base[n] + j] = seqs[n][j]
         /\ \A q \in 1 .. Len(F) : \E n \in 1 .. N : \E j \in 1 .. Len(seqs[n]) : q = base[n] + j
    BY <1>8, <1>11 DEF Parts
  <1>14. \A n \in 1 .. N + 1 : at[n] = base[n] + 3
    <2> DEFINE L == [n \in 1 .. N |-> Len(bodies[n])]
               g == [n \in 1 .. N + 1 |-> base[n] + 3]
    <2>0. \A n \in 1 .. N : Len(bodies[n]) \in Nat
      BY <1>1, <1>n, LenProperties DEF N
    <2>1. \A n \in 1 .. N : n \in 1 .. N + 1 /\ n + 1 \in 1 .. N + 1
      BY <1>n
    <2>2. \A n \in 1 .. N + 1 : g[n] = base[n] + 3 /\ base[n] \in Nat
      BY <1>12
    <2>3. Grows(at, L, N)
      BY <2>0, <1>5 DEF Grows
    <2>4. Grows(g, L, N)
      <3> SUFFICES ASSUME NEW n \in 1 .. N PROVE L[n] \in Nat /\ g[n + 1] = g[n] + L[n]
        BY DEF Grows
      <3>1. L[n] = Len(bodies[n]) /\ Len(bodies[n]) \in Nat
        BY <2>0
      <3>2. g[n + 1] = base[n + 1] + 3 /\ g[n] = base[n] + 3 /\ base[n] \in Nat
        BY <2>1, <2>2
      <3>3. base[n + 1] = base[n] + Len(bodies[n])
        BY <1>9, <1>12
      <3> HIDE DEF g, L
      <3> QED
        BY <3>1, <3>2, <3>3
    <2>5. at[1] = g[1]
      <3>1. 1 \in 1 .. N + 1
        BY <1>n
      <3> HIDE DEF g
      <3> QED
        BY <3>1, <2>2, <1>5, <1>12
    <2> HIDE DEF g, L
    <2>6. \A n \in 1 .. N + 1 : at[n] = g[n]
      BY <2>3, <2>4, <2>5, <1>n, BasesSame
    <2> QED
      BY <2>2, <2>6
  <1>15. pro \in Seq(EbpfInsn) /\ Len(pro) = 3 /\ pro[1] = a /\ pro[2] = b /\ pro[3] = d
    BY <1>a, <1>b, <1>d
  <1> HIDE DEF pro
  <1>16. /\ w \in Seq(EbpfInsn) /\ Len(w) = 3 + Len(F) /\ Len(F) \in Nat
         /\ \A q \in 1 .. 3 + Len(F) : w[q] = IF q <= 3 THEN pro[q] ELSE F[q - 3]
    <2>1. /\ pro \o F \in Seq(EbpfInsn) /\ Len(pro \o F) = Len(pro) + Len(F)
          /\ \A q \in 1 .. Len(pro) + Len(F) :
                (pro \o F)[q] = IF q <= Len(pro) THEN pro[q] ELSE F[q - Len(pro)]
      BY <1>10, <1>15, ConcatProperties
    <2>2. Len(F) \in Nat
      BY <1>10
    <2> QED
      BY <2>1, <2>2, <1>3, <1>15
  <1>17. Len(w) = at[N + 1]
    <2>1. N + 1 \in 1 .. N + 1
      BY <1>n
    <2> QED
      BY <2>1, <1>12, <1>13, <1>14, <1>16
  <1>18. ASSUME NEW c \in 1 .. N, NEW j \in 1 .. Len(bodies[c])
         PROVE  w[at[c] + j] = Resolve(p[c], bodies[c], at, c)[j]
    <2>0. Len(seqs[c]) = Len(bodies[c]) /\ seqs[c] = Resolve(p[c], bodies[c], at, c)
      BY <1>9
    <2>1. base[c] + j \in 1 .. Len(F) /\ F[base[c] + j] = seqs[c][j]
      BY <2>0, <1>13
    <2>2. c \in 1 .. N + 1 /\ j \in Int
      BY <1>n, <1>1
    <2>3. at[c] = base[c] + 3 /\ base[c] \in Nat
      BY <2>2, <1>12, <1>14
    <2>n. ASSUME NEW x \in Nat, NEW y \in 1 .. Len(bodies[c]), NEW l \in Nat, x + y \in 1 .. l
          PROVE  (x + 3) + y \in 1 .. 3 + l /\ ~((x + 3) + y <= 3) /\ ((x + 3) + y) - 3 = x + y
      BY <2>n
    <2>4. at[c] + j \in 1 .. 3 + Len(F) /\ ~(at[c] + j <= 3) /\ (at[c] + j) - 3 = base[c] + j
      <3>1. Len(F) \in Nat
        BY <1>16
      <3>2. /\ (base[c] + 3) + j \in 1 .. 3 + Len(F) /\ ~((base[c] + 3) + j <= 3)
            /\ ((base[c] + 3) + j) - 3 = base[c] + j
        BY <2>1, <2>3, <3>1, <2>n
      <3> QED
        BY <2>3, <3>2
    <2> DEFINE q == at[c] + j
    <2>q. q \in 1 .. 3 + Len(F) /\ ~(q <= 3) /\ q - 3 = base[c] + j
      BY <2>4, Zenon
    <2> HIDE DEF q
    <2>5. w[q] = F[q - 3]
      BY <2>q, <1>16
    <2>6. w[q] = Resolve(p[c], bodies[c], at, c)[j]
      BY <2>0, <2>1, <2>q, <2>5
    <2> QED
      BY <2>6, Zenon DEF q
  <1>19. ASSUME NEW q \in 1 .. Len(w), ~(q <= 3)
         PROVE  \E c \in 1 .. N : \E j \in 1 .. Len(bodies[c]) : q = at[c] + j
    <2>1. q - 3 \in 1 .. Len(F)
      BY <1>16, <1>19
    <2>2. PICK c \in 1 .. N : \E j \in 1 .. Len(seqs[c]) : q - 3 = base[c] + j
      BY <2>1, <1>13
    <2>3. PICK j \in 1 .. Len(bodies[c]) : q - 3 = base[c] + j
      BY <2>2, <1>9
    <2>4. c \in 1 .. N + 1 /\ j \in Int /\ q \in Int
      BY <1>n, <1>1, <1>16
    <2>5. q = at[c] + j
      BY <2>3, <2>4, <1>12, <1>14
    <2> QED
      BY <2>5
  <1>20. w[1] = a /\ w[2] = b /\ w[3] = d
    BY <1>15, <1>16
  <1>21. Laid(p, bodies, at, w)
    BY <1>17, <1>18, <1>19, <1>20, <1>a, <1>b, <1>d DEF Laid, N
  <1> QED
    BY <1>4, <1>16, <1>21 DEF bodies, at, w

\* Where a body lies makes no difference to its shape.
LEMMA ShapeShift ==
    ASSUME NEW cls, NEW B, NEW g, NEW o \in Int, NEW m, Shape(cls, B, 0, m),
           \A j \in 1 .. m : Same(g[o + j], B[j])
    PROVE  Shape(cls, g, o, m)
  <1>m. m \in 1 .. 7
    BY ShapeLength
  <1>1. ASSUME StraightBody(B, 0, m) PROVE StraightBody(g, o, m)
    <2>1. CASE m = 1 /\ (MemUnit(B, 0) \/ TaxUnit(B, 0))
      <3>1. Same(g[o + 1], B[0 + 1])
        BY <2>1
      <3>2. MemUnit(g, o) \/ TaxUnit(g, o)
        BY <3>1, <2>1 DEF MemUnit, TaxUnit, Same
      <3> QED
        BY <3>2, <2>1 DEF StraightBody
    <2>2. CASE m \in {1, 3} /\ (MovUnit(B, 0, "A", m) \/ MovUnit(B, 0, "X", m) \/ AluUnit(B, 0, m))
      <3>1. MovUnit(g, o, "A", m) \/ MovUnit(g, o, "X", m) \/ AluUnit(g, o, m)
        <4>0. m \in {1, 3}
          BY <2>2
        <4>1. CASE MovUnit(B, 0, "A", m)
          BY <4>0, <4>1, MovShift
        <4>2. CASE MovUnit(B, 0, "X", m)
          BY <4>0, <4>2, MovShift
        <4>3. CASE AluUnit(B, 0, m)
          BY <4>0, <4>3, AluShift
        <4> QED
          BY <2>2, <4>1, <4>2, <4>3
      <3> QED
        BY <3>1, <2>2 DEF StraightBody
    <2>3. CASE DivUnit(B, 0, m)
      <3>1. CASE m = 5
        <4>1. /\ Same(g[o + 1], B[0 + 1]) /\ Same(g[o + 2], B[0 + 2]) /\ Same(g[o + 3], B[0 + 3])
              /\ Same(g[o + 3 + 1], B[0 + 3 + 1]) /\ Same(g[o + 3 + 2], B[0 + 3 + 2])
          BY <3>1
        <4>2. DivUnit(g, o, m)
          BY <4>1, <2>3, <3>1 DEF DivUnit, GuardUnit, Same
        <4> QED
          BY <4>2 DEF StraightBody
      <3>2. CASE m = 7
        <4>1. /\ Same(g[o + 1], B[0 + 1]) /\ Same(g[o + 2], B[0 + 2]) /\ Same(g[o + 3], B[0 + 3])
              /\ Same(g[o + 4], B[0 + 4]) /\ Same(g[o + 5], B[0 + 5])
              /\ Same(g[o + 5 + 1], B[0 + 5 + 1]) /\ Same(g[o + 5 + 2], B[0 + 5 + 2])
          BY <3>2
        <4>2. DivUnit(g, o, m)
          BY <4>1, <2>3, <3>2 DEF DivUnit, GuardUnit, HidesIn, XorsIn, Same
        <4> QED
          BY <4>2 DEF StraightBody
      <3> QED
        BY <3>1, <3>2, <2>3 DEF DivUnit
    <2> QED
      BY <1>1, <2>1, <2>2, <2>3 DEF StraightBody
  <1>2. ASSUME BranchBody(B, 0, m) PROVE BranchBody(g, o, m)
    <2>1. CASE m = 1 /\ JaUnit(B, 0)
      <3>1. Same(g[o + 1], B[0 + 1])
        BY <2>1
      <3> QED
        BY <3>1, <2>1 DEF BranchBody, JaUnit, Same
    <2>2. ASSUME NEW h \in {1, 3}, CondUnit(B, 0, h), m = h \/ (m = h + 1 /\ JaUnit(B, 0 + h))
          PROVE  BranchBody(g, o, m)
      <3>1. \A j \in 1 .. h : Same(g[o + j], B[j])
        BY <2>2
      <3>2. CondUnit(g, o, h)
        BY <3>1, <2>2, CondShift
      <3>3. ASSUME m = h + 1, JaUnit(B, 0 + h) PROVE JaUnit(g, o + h)
        <4>1. Same(g[o + h + 1], B[0 + h + 1])
          BY <3>3
        <4> QED
          BY <4>1, <3>3 DEF JaUnit, Same
      <3> QED
        BY <2>2, <3>2, <3>3 DEF BranchBody
    <2>3. ASSUME NEW t \in {1, 3}, MovUnit(B, 0, "TMP", t), CondUnit(B, 0 + t, 1),
                 m = t + 1 \/ (m = t + 2 /\ JaUnit(B, 0 + t + 1))
          PROVE  BranchBody(g, o, m)
      <3>1. \A j \in 1 .. t : Same(g[o + j], B[j])
        BY <2>3
      <3>2. MovUnit(g, o, "TMP", t)
        BY <3>1, <2>3, MovShift
      <3>3. CondUnit(g, o + t, 1)
        <4>1. Same(g[o + t + 1], B[0 + t + 1])
          BY <2>3
        <4> QED
          BY <4>1, <2>3 DEF CondUnit, Same
      <3>4. ASSUME m = t + 2, JaUnit(B, 0 + t + 1) PROVE JaUnit(g, o + t + 1)
        <4>1. Same(g[o + t + 1 + 1], B[0 + t + 1 + 1])
          BY <3>4
        <4> QED
          BY <4>1, <3>4 DEF JaUnit, Same
      <3> QED
        BY <2>3, <3>2, <3>3, <3>4 DEF BranchBody
    <2> QED
      BY <1>2, <2>1, <2>2, <2>3 DEF BranchBody
  <1>3. ASSUME ReturnBody(B, 0, m) PROVE ReturnBody(g, o, m)
    <2>1. CASE m = 1 /\ ExitUnit(B, 0)
      <3>1. Same(g[o + 1], B[0 + 1])
        BY <2>1
      <3> QED
        BY <3>1, <2>1 DEF ReturnBody, ExitUnit, Same
    <2>2. ASSUME NEW h \in {1, 3}, MovUnit(B, 0, "A", h), m = h + 1, ExitUnit(B, 0 + h)
          PROVE  ReturnBody(g, o, m)
      <3>1. \A j \in 1 .. h : Same(g[o + j], B[j])
        BY <2>2
      <3>2. MovUnit(g, o, "A", h)
        BY <3>1, <2>2, MovShift
      <3>3. Same(g[o + h + 1], B[0 + h + 1])
        BY <2>2
      <3>4. ExitUnit(g, o + h)
        BY <3>3, <2>2 DEF ExitUnit, Same
      <3> QED
        BY <2>2, <3>2, <3>4 DEF ReturnBody
    <2> QED
      BY <1>3, <2>1, <2>2 DEF ReturnBody
  <1> QED
    BY <1>1, <1>2, <1>3 DEF Shape

\* The addresses rise, from one instruction to the next ...
Rising(at, N) == at \in [1 .. N + 1 -> Nat] /\ \A n \in 1 .. N : at[n] < at[n + 1]

\* ... and so between any two.
LEMMA RisingOrder ==
    ASSUME NEW N \in Nat, NEW at, Rising(at, N), NEW a \in 1 .. N + 1, NEW b \in a .. N + 1
    PROVE  at[a] <= at[b] /\ (a < b => at[a] < at[b])
  <1> DEFINE Bad == {k \in a .. N + 1 : ~(at[a] <= at[k] /\ (a < k => at[a] < at[k]))}
  <1> SUFFICES ASSUME Bad # {} PROVE FALSE
    OBVIOUS
  <1>1. PICK k \in Bad : \A l \in Bad : k <= l
    <2>1. Bad \in SUBSET Nat
      OBVIOUS
    <2> QED
      BY <2>1, FirstNumber
  <1>0. \A n \in 1 .. N + 1 : at[n] \in Nat
    BY DEF Rising
  <1>2. k # a
    BY <1>0
  <1>3. k - 1 \in a .. N + 1 /\ ~(k <= k - 1) /\ k - 1 \in 1 .. N /\ (k - 1) + 1 = k
    BY <1>2
  <1>4. at[a] <= at[k - 1]
    BY <1>1, <1>3
  <1>5. at[k - 1] < at[k]
    BY <1>3 DEF Rising
  <1>6. at[k - 1] \in Nat /\ at[a] \in Nat /\ at[k] \in Nat
    BY <1>0, <1>3
  <1> QED
    BY <1>4, <1>5, <1>6

\* A hidden constant is in the last but two of the body's instructions, or
\* before, and what ends a filter is a jump.
HidesBefore(B, m) ==
    \A j \in 1 .. m : B[j].cls \in {"ALU", "ALU64"} /\ B[j].op = "MOV" /\ B[j].dst = "AX" => j + 2 <= m

\* A constant is hidden at the start of its unit.
LEMMA MovHides ==
    ASSUME NEW B, NEW dst \in {"A", "X", "TMP"}, NEW h \in {1, 3}, MovUnit(B, 0, dst, h),
           NEW j \in 1 .. h, B[j].op = "MOV", B[j].dst = "AX"
    PROVE  j + 2 <= h
  <1>1. CASE h = 1
    BY <1>1 DEF MovUnit, Moves
  <1>2. CASE h = 3
    BY <1>2 DEF MovUnit, HidesIn, XorsIn
  <1> QED
    BY <1>1, <1>2

LEMMA CondHides ==
    ASSUME NEW B, NEW h \in {1, 3}, CondUnit(B, 0, h),
           NEW j \in 1 .. h, B[j].cls # "JMP", B[j].op = "MOV"
    PROVE  j + 2 <= h
  <1>1. CASE h = 1
    BY <1>1 DEF CondUnit
  <1>2. CASE h = 3
    BY <1>2 DEF CondUnit, HidesIn, XorsIn
  <1> QED
    BY <1>1, <1>2

LEMMA AluHides ==
    ASSUME NEW B, NEW h \in {1, 3}, AluUnit(B, 0, h),
           NEW j \in 1 .. h, B[j].op = "MOV"
    PROVE  j + 2 <= h
  <1>1. CASE h = 1
    BY <1>1 DEF AluUnit, AluOps
  <1>2. CASE h = 3
    BY <1>2 DEF AluUnit, HidesIn, XorsIn, AluOps
  <1> QED
    BY <1>1, <1>2

\* In a body too, and the body of a return ends in a jump.
LEMMA ShapeHides ==
    ASSUME NEW cls, NEW B, NEW m, Shape(cls, B, 0, m)
    PROVE  HidesBefore(B, m) /\ (cls = "RET" => B[m].cls = "JMP")
  <1>m. m \in 1 .. 7
    BY ShapeLength
  <1> SUFFICES ASSUME NEW j \in 1 .. m, B[j].cls \in {"ALU", "ALU64"}, B[j].op = "MOV", B[j].dst = "AX"
               PROVE  j + 2 <= m
    <2>1. ASSUME cls = "RET" PROVE B[m].cls = "JMP"
      BY <2>1 DEF Shape, ReturnBody, ExitUnit
    <2> QED
      BY <2>1 DEF HidesBefore
  <1>1. CASE StraightBody(B, 0, m)
    <2>1. CASE m = 1 /\ (MemUnit(B, 0) \/ TaxUnit(B, 0))
      BY <2>1 DEF MemUnit, TaxUnit
    <2>2. CASE m \in {1, 3} /\ (MovUnit(B, 0, "A", m) \/ MovUnit(B, 0, "X", m) \/ AluUnit(B, 0, m))
      <3>1. m \in {1, 3}
        BY <2>2
      <3>2. CASE MovUnit(B, 0, "A", m)
        BY <3>1, <3>2, MovHides
      <3>3. CASE MovUnit(B, 0, "X", m)
        BY <3>1, <3>3, MovHides
      <3>4. CASE AluUnit(B, 0, m)
        BY <3>1, <3>4, AluHides
      <3> QED
        BY <2>2, <3>2, <3>3, <3>4
    <2>3. CASE DivUnit(B, 0, m)
      <3>1. CASE m = 5
        <4>1. j \in {1, 2, 3, 4, 5}
          BY <3>1
        <4> QED
          BY <4>1, <3>1, <2>3 DEF DivUnit, GuardUnit
      <3>2. CASE m = 7
        <4>1. j \in {1, 2, 3, 4, 5, 6, 7}
          BY <3>2
        <4> QED
          BY <4>1, <3>2, <2>3 DEF DivUnit, GuardUnit, HidesIn, XorsIn
      <3> QED
        BY <3>1, <3>2, <2>3 DEF DivUnit
    <2> QED
      BY <1>1, <2>1, <2>2, <2>3 DEF StraightBody
  <1>2. CASE BranchBody(B, 0, m)
    <2>1. CASE m = 1 /\ JaUnit(B, 0)
      BY <2>1 DEF JaUnit
    <2>2. ASSUME NEW h \in {1, 3}, CondUnit(B, 0, h), m = h \/ (m = h + 1 /\ JaUnit(B, 0 + h))
          PROVE  j + 2 <= m
      <3>1. CASE j \in 1 .. h
        <4>1. j + 2 <= h
          BY <3>1, <2>2, CondHides
        <4> QED
          BY <4>1, <2>2, <3>1
      <3>2. CASE j = h + 1
        BY <3>2, <2>2 DEF JaUnit
      <3> QED
        BY <3>1, <3>2, <2>2
    <2>3. ASSUME NEW t \in {1, 3}, MovUnit(B, 0, "TMP", t), CondUnit(B, 0 + t, 1),
                 m = t + 1 \/ (m = t + 2 /\ JaUnit(B, 0 + t + 1))
          PROVE  j + 2 <= m
      <3>1. CASE j \in 1 .. t
        <4>1. j + 2 <= t
          BY <3>1, <2>3, MovHides
        <4> QED
          BY <4>1, <2>3, <3>1
      <3>2. CASE j = t + 1
        BY <3>2, <2>3 DEF CondUnit
      <3>3. CASE j = t + 2 /\ m = t + 2
        BY <3>3, <2>3 DEF JaUnit
      <3> QED
        BY <3>1, <3>2, <3>3, <2>3
    <2> QED
      BY <1>2, <2>1, <2>2, <2>3 DEF BranchBody
  <1>3. CASE ReturnBody(B, 0, m)
    <2>1. CASE m = 1 /\ ExitUnit(B, 0)
      BY <2>1 DEF ExitUnit
    <2>2. ASSUME NEW h \in {1, 3}, MovUnit(B, 0, "A", h), m = h + 1, ExitUnit(B, 0 + h)
          PROVE  j + 2 <= m
      <3>1. CASE j \in 1 .. h
        <4>1. j + 2 <= h
          BY <3>1, <2>2, MovHides
        <4> QED
          BY <4>1, <2>2, <3>1
      <3>2. CASE j = h + 1
        BY <3>2, <2>2 DEF ExitUnit
      <3> QED
        BY <3>1, <3>2, <2>2
    <2> QED
      BY <1>3, <2>1, <2>2 DEF ReturnBody
  <1> QED
    BY <1>1, <1>2, <1>3 DEF Shape

---------------------------------------------------------------------------
(* The whole filter as it lies in the array ebpf2cbpf is given.          *)

\* The filter p as it lies in the array e of L instructions.
Framed(p, at, e, L) ==
    /\ Rising(at, Len(p)) /\ at[1] = 3 /\ at[Len(p) + 1] = L
    /\ \A c \in 1 .. Len(p) : Shape(p[c].cls, e, at[c] - 1, at[c + 1] - at[c])
\* No jump leaves the array, or goes back.
JumpsIn(e, L) ==
    \A n \in 0 .. L - 1 : e[n].cls = "JMP" /\ e[n].op # "EXIT" =>
        e[n].off >= 0 /\ n + 1 + e[n].off < L
\* The last instruction is a jump, and a hidden constant is followed by the
\* two instructions that use it.
Tight(e, L) ==
    /\ e[L - 1].cls = "JMP"
    /\ \A n \in 0 .. L - 1 :
         e[n].cls \in {"ALU", "ALU64"} /\ e[n].op = "MOV" /\ e[n].dst = "AX" => n + 2 < L
\* The prologue.
Begins(e) ==
    /\ \A n \in {0, 1} : e[n].cls = "ALU" /\ e[n].op = "XOR"
    /\ e[2].cls = "ALU64" /\ e[2].op = "MOV"

\* Arithmetic of the places of instruction j of a body of m that lies at a.
LEMMA Placing ==
    ASSUME NEW a \in Nat, NEW m \in 1 .. 7, NEW b, NEW j \in 1 .. m, NEW L \in Nat,
           a >= 3, b = a + m, b <= L
    PROVE  a - 1 + j \in 0 .. L - 1 /\ (a - 1 + j) + 1 = a + j
  OBVIOUS
LEMMA PlaceOf ==
    ASSUME NEW a \in Nat, NEW m \in 1 .. 7, NEW j \in 1 .. m, NEW L \in Nat, NEW n \in 3 .. L - 1,
           n + 1 = a + j
    PROVE  n = a - 1 + j
  OBVIOUS
LEMMA PlaceLast ==
    ASSUME NEW a \in Nat, NEW m \in 1 .. 7, NEW L, L = a + m
    PROVE  m \in 1 .. m /\ a - 1 + m = L - 1
  OBVIOUS
LEMMA PlaceHides ==
    ASSUME NEW a \in Nat, NEW m \in 1 .. 7, NEW b, NEW j \in 1 .. m, NEW L \in Nat, NEW n,
           n = a - 1 + j, b = a + m, b <= L, j + 2 <= m
    PROVE  n + 2 < L
  OBVIOUS
LEMMA PlaceJump ==
    ASSUME NEW a \in Nat, NEW m \in 1 .. 7, NEW j \in 1 .. m, NEW L \in Nat, NEW n, NEW to \in Nat,
           n = a - 1 + j, to < L, a + m <= to
    PROVE  to - (a + j) >= 0 /\ n + 1 + (to - (a + j)) < L
  OBVIOUS
LEMMA PlaceGuard ==
    ASSUME NEW a \in Nat, NEW m \in 1 .. 7, NEW b, NEW j \in 1 .. m, NEW L \in Nat, NEW n,
           n = a - 1 + j, b = a + m, b <= L, j + 3 <= m
    PROVE  n + 1 + 2 < L
  OBVIOUS

\* What ebpf2cbpf reads when it is given a whole filter of the kernel: the
\* filter lies in the array as Framed, JumpsIn and Tight say.
LEMMA KernelFramed ==
    ASSUME NEW p \in Seq(ClassicInsn), Acceptable(p), NEW r \in Word \cup {NoRnd},
           NEW e, NEW L, L = Len(KernelEbpf(p, r)),
           \A n \in 0 .. L - 1 : e[n] = KernelEbpf(p, r)[n + 1]
    PROVE  /\ L \in Nat /\ L > 3 /\ Begins(e)
           /\ Framed(p, Addresses(Bodies(p, r)), e, L) /\ JumpsIn(e, L) /\ Tight(e, L)
  <1> DEFINE N == Len(p)
             bodies == Bodies(p, r)
             at == Addresses(bodies)
             w == KernelEbpf(p, r)
             m(c) == Len(bodies[c])
             R(c) == Resolve(p[c], bodies[c], at, c)
  <1>1. /\ bodies \in Seq(Seq(EbpfInsn)) /\ Len(bodies) = N /\ N > 0
        /\ \A c \in 1 .. N : Body(p, c, bodies[c])
    BY BodiesOf
  <1>2. N \in Nat /\ DOMAIN p = 1 .. N
    OBVIOUS
  <1>3. w \in Seq(EbpfInsn) /\ Placed(at, bodies) /\ Laid(p, bodies, at, w)
    BY KernelLaid
  <1>l. Last(p) = p[N] /\ p[N].cls = "RET"
    BY DEF Acceptable, Last
  <1>j. L \in Nat /\ L = Len(w) /\ \A n \in 0 .. L - 1 : e[n] = w[n + 1]
    BY <1>3
  <1>L. L \in Nat
    BY <1>j
  <1> HIDE DEF at, bodies, w
  <1>4. at \in [1 .. N + 1 -> Nat] /\ at[1] = 3 /\ \A n \in 1 .. N : at[n + 1] = at[n] + m(n)
    BY <1>1, <1>3 DEF Placed
  <1>5. \A c \in 1 .. N : m(c) \in 1 .. 7 /\ Shape(p[c].cls, bodies[c], 0, m(c))
    BY <1>1, ShapeLength DEF Body
  <1>6. \A c \in 1 .. N : Resolved(p, c, bodies[c], at, R(c))
    BY <1>1, <1>2, <1>4, ResolveBody
  <1>7. /\ L = at[N + 1]
        /\ \A c \in 1 .. N : \A j \in 1 .. m(c) : w[at[c] + j] = R(c)[j]
        /\ \A q \in 1 .. L : q <= 3 \/ \E c \in 1 .. N : \E j \in 1 .. m(c) : q = at[c] + j
    BY <1>3, <1>j DEF Laid
  <1>p. /\ w[1].cls = "ALU" /\ w[1].op = "XOR" /\ w[2].cls = "ALU" /\ w[2].op = "XOR"
        /\ w[3].cls = "ALU64" /\ w[3].op = "MOV" /\ w[3].dst = "CTX"
    BY <1>3 DEF Laid
  <1>n. N \in Nat /\ N > 0
    BY <1>1, <1>2
  <1> HIDE DEF N, m, R
  <1>8. Rising(at, N)
    <2>1. ASSUME NEW n \in 1 .. N PROVE at[n] < at[n + 1]
      <3>1. at[n] \in Nat /\ m(n) \in 1 .. 7 /\ at[n + 1] = at[n] + m(n)
        BY <1>4, <1>5, <1>n
      <3> QED
        BY <3>1
    <2> QED
      BY <2>1, <1>4 DEF Rising
  <1>9. ASSUME NEW c \in 1 .. N
        PROVE  at[c] \in Nat /\ at[c] >= 3 /\ at[c + 1] = at[c] + m(c) /\ at[c + 1] <= L
    <2>1. c \in 1 .. N + 1 /\ c + 1 \in 1 .. N + 1 /\ N + 1 \in c + 1 .. N + 1
          /\ 1 \in 1 .. N + 1 /\ c \in 1 .. N + 1 /\ c \in 1 .. N + 1
      BY <1>n
    <2>2. at[c + 1] <= at[N + 1]
      BY <2>1, <1>8, <1>n, RisingOrder
    <2>3. at[1] <= at[c]
      BY <2>1, <1>8, <1>n, RisingOrder
    <2> QED
      BY <2>1, <2>2, <2>3, <1>4, <1>7
  <1>10. L > 3
    <2>1. 1 \in 1 .. N
      BY <1>n
    <2>2. at[1] \in Nat /\ at[1] >= 3 /\ at[1 + 1] = at[1] + m(1) /\ at[1 + 1] <= L /\ m(1) \in 1 .. 7
      BY <2>1, <1>9, <1>5
    <2> QED
      BY <2>2, <1>j
  <1>11. Begins(e)
    <2>1. /\ 0 \in 0 .. L - 1 /\ 1 \in 0 .. L - 1 /\ 2 \in 0 .. L - 1
      BY <1>10, <1>j
    <2>2. e[0] = w[0 + 1] /\ e[1] = w[1 + 1] /\ e[2] = w[2 + 1]
      BY <2>1, <1>j
    <2> QED
      BY <2>2, <1>p DEF Begins
  <1>12. ASSUME NEW c \in 1 .. N, NEW j \in 1 .. m(c)
         PROVE  /\ at[c] - 1 + j \in 0 .. L - 1 /\ e[at[c] - 1 + j] = R(c)[j]
                /\ Same(e[at[c] - 1 + j], bodies[c][j])
    <2>1. at[c] \in Nat /\ at[c] >= 3 /\ at[c + 1] = at[c] + m(c) /\ at[c + 1] <= L /\ m(c) \in 1 .. 7
      BY <1>9, <1>5
    <2>2. at[c] - 1 + j \in 0 .. L - 1 /\ (at[c] - 1 + j) + 1 = at[c] + j
      BY <2>1, <1>L, Placing
    <2>3. e[at[c] - 1 + j] = w[(at[c] - 1 + j) + 1]
      BY <2>2, <1>j
    <2>4. w[at[c] + j] = R(c)[j]
      BY <1>7
    <2>5. Same(R(c)[j], bodies[c][j])
      BY <1>6 DEF Resolved, m
    <2> QED
      BY <2>2, <2>3, <2>4, <2>5
  <1>13. ASSUME NEW n \in 3 .. L - 1
         PROVE  \E c \in 1 .. N : \E j \in 1 .. m(c) : n = at[c] - 1 + j
    <2>1. n + 1 \in 1 .. L /\ ~(n + 1 <= 3)
      BY <1>j
    <2>2. PICK c \in 1 .. N : \E j \in 1 .. m(c) : n + 1 = at[c] + j
      BY <2>1, <1>7
    <2>3. PICK j \in 1 .. m(c) : n + 1 = at[c] + j
      BY <2>2
    <2>4. at[c] \in Nat /\ m(c) \in 1 .. 7
      BY <1>9, <1>5
    <2>5. n = at[c] - 1 + j
      BY <2>3, <2>4, <1>L, PlaceOf
    <2> QED
      BY <2>5
  <1>14. Framed(p, at, e, L)
    <2>1. ASSUME NEW c \in 1 .. N PROVE Shape(p[c].cls, e, at[c] - 1, at[c + 1] - at[c])
      <3>1. at[c] \in Nat /\ at[c + 1] = at[c] + m(c) /\ m(c) \in 1 .. 7
        BY <1>9, <1>5
      <3>2. at[c] - 1 \in Int /\ at[c + 1] - at[c] = m(c)
        BY <3>1
      <3>3. \A j \in 1 .. m(c) : Same(e[at[c] - 1 + j], bodies[c][j])
        BY <1>12
      <3>4. Shape(p[c].cls, e, at[c] - 1, m(c))
        BY <3>2, <3>3, <1>5, ShapeShift
      <3> QED
        BY <3>2, <3>4
    <2> QED
      BY <2>1, <1>4, <1>7, <1>8 DEF Framed, N
  <1>15. Tight(e, L)
    <2>1. e[L - 1].cls = "JMP"
      <3>1. N \in 1 .. N
        BY <1>n
      <3>2. /\ at[N] \in Nat /\ at[N + 1] = at[N] + m(N) /\ m(N) \in 1 .. 7
            /\ Shape(p[N].cls, bodies[N], 0, m(N))
        BY <3>1, <1>9, <1>5
      <3>3. bodies[N][m(N)].cls = "JMP"
        <4>1. p[N].cls = "RET"
          BY <1>l DEF N
        <4> QED
          BY <3>2, <4>1, ShapeHides
      <3>4. m(N) \in 1 .. m(N) /\ at[N] - 1 + m(N) = L - 1
        <4>1. L = at[N] + m(N)
          BY <3>2, <1>7
        <4> QED
          BY <3>2, <4>1, PlaceLast
      <3>5. Same(e[at[N] - 1 + m(N)], bodies[N][m(N)])
        BY <3>1, <3>4, <1>12
      <3> QED
        BY <3>3, <3>4, <3>5 DEF Same
    <2>2. ASSUME NEW n \in 0 .. L - 1, e[n].cls \in {"ALU", "ALU64"}, e[n].op = "MOV", e[n].dst = "AX"
          PROVE  n + 2 < L
      <3>1. CASE n \in 0 .. 2
        <4>1. n \in {0, 1, 2}
          BY <3>1
        <4>2. n = 2
          BY <4>1, <1>11, <2>2 DEF Begins
        <4>3. e[2] = w[2 + 1]
          BY <4>2, <1>j
        <4> QED
          BY <4>2, <4>3, <2>2, <1>p
      <3>2. CASE n \in 3 .. L - 1
        <4>1. PICK c \in 1 .. N : \E j \in 1 .. m(c) : n = at[c] - 1 + j
          BY <3>2, <1>13
        <4>2. PICK j \in 1 .. m(c) : n = at[c] - 1 + j
          BY <4>1
        <4>3. Same(e[n], bodies[c][j])
          BY <4>2, <1>12
        <4>4. HidesBefore(bodies[c], m(c))
          BY <1>5, ShapeHides
        <4>5. j + 2 <= m(c)
          BY <4>3, <4>4, <2>2 DEF HidesBefore, Same
        <4>6. at[c] \in Nat /\ at[c + 1] = at[c] + m(c) /\ m(c) \in 1 .. 7 /\ at[c + 1] <= L
          BY <1>9, <1>5
        <4> QED
          BY <4>2, <4>5, <4>6, <1>L, PlaceHides
      <3> QED
        BY <3>1, <3>2, <1>10, <1>j
    <2> QED
      BY <2>1, <2>2 DEF Tight
  <1>16. JumpsIn(e, L)
    <2> SUFFICES ASSUME NEW n \in 0 .. L - 1, e[n].cls = "JMP", e[n].op # "EXIT"
                 PROVE  e[n].off >= 0 /\ n + 1 + e[n].off < L
      BY DEF JumpsIn
    <2>1. n \in 3 .. L - 1
      <3>1. n \notin {0, 1, 2}
        BY <1>11 DEF Begins
      <3> QED
        BY <3>1, <1>j
    <2>2. PICK c \in 1 .. N : \E j \in 1 .. m(c) : n = at[c] - 1 + j
      BY <2>1, <1>13
    <2>3. PICK j \in 1 .. m(c) : n = at[c] - 1 + j
      BY <2>2
    <2>4. at[c] \in Nat /\ at[c] >= 3 /\ at[c + 1] = at[c] + m(c) /\ at[c + 1] <= L /\ m(c) \in 1 .. 7
      BY <1>9, <1>5
    <2>5. e[n] = R(c)[j] /\ Same(e[n], bodies[c][j])
      BY <2>3, <1>12
    <2>6. bodies[c][j].cls = "JMP" /\ bodies[c][j].op # "EXIT"
      BY <2>5 DEF Same
    <2>7. R(c)[j].off = IF p[c].cls = "JMP" THEN at[bodies[c][j].off] - (at[c] + j)
                        ELSE bodies[c][j].off
      BY <1>6, <2>6 DEF Resolved, m
    <2>8. IF p[c].cls = "JMP" THEN bodies[c][j].off \in c + 1 .. N
          ELSE bodies[c][j].off = 2 /\ j + 3 <= m(c)
      BY <1>1, <2>6 DEF Body, JumpsMeant, N, m
    <2>9. CASE p[c].cls = "JMP"
      <3> DEFINE to == bodies[c][j].off
      <3>1. to \in c + 1 .. N /\ e[n].off = at[to] - (at[c] + j)
        BY <2>5, <2>7, <2>8, <2>9
      <3> HIDE DEF to
      <3>2. /\ c + 1 \in 1 .. N + 1 /\ to \in c + 1 .. N + 1 /\ to \in 1 .. N + 1
            /\ N + 1 \in to .. N + 1 /\ to < N + 1
        BY <3>1, <1>n
      <3>3. at[c + 1] <= at[to]
        BY <3>2, <1>8, <1>n, RisingOrder
      <3>4. at[to] < at[N + 1]
        BY <3>2, <1>8, <1>n, RisingOrder
      <3>5. at[to] \in Nat
        BY <3>2, <1>4
      <3> QED
        <4>1. at[to] < L /\ at[c] + m(c) <= at[to]
          BY <2>4, <3>3, <3>4, <1>7
        <4>2. at[to] - (at[c] + j) >= 0 /\ n + 1 + (at[to] - (at[c] + j)) < L
          BY <2>3, <2>4, <3>5, <4>1, <1>L, PlaceJump
        <4> QED
          BY <3>1, <4>2
    <2>10. CASE p[c].cls # "JMP"
      <3>1. e[n].off = 2 /\ j + 3 <= m(c)
        BY <2>5, <2>7, <2>8, <2>10
      <3> QED
        <4>1. n + 1 + 2 < L
          BY <2>3, <2>4, <3>1, <1>L, PlaceGuard
        <4> QED
          BY <3>1, <4>1
    <2> QED
      BY <2>9, <2>10
  <1> QED
    BY <1>10, <1>11, <1>14, <1>15, <1>16, <1>j DEF at, bodies

---------------------------------------------------------------------------
(* A round of pass 1 stays in bounds.                                    *)

\* What pass 1 may rely on in the array it reads, as it is or as alu_insn has
\* changed it.
Array(e) ==
    /\ JumpsIn(e, ebpf_len)
    /\ \A n \in 0 .. ebpf_len + Safe - 1 :
         e[n].off \in Int /\ (e[n].cls = "JMP" \/ e[n].op = "MOV" => n < ebpf_len)

\* The flags a round marks: none, or at most two inside the array.
Marks(ms) == ms = {} \/ \E x, y \in 0 .. ebpf_len - 1 : ms = {x, y}
\* A round stays in bounds: it eats at most six instructions, marks flags
\* inside the array and looks at most seven instructions ahead, never past
\* the end of a whole filter.
Fits(r) ==
    /\ r.ok /\ r.ate \in 0 .. 6 /\ Marks(r.marks)
    /\ r.last \in 0 .. i + 7
    /\ Tight(ebpfs, ebpf_len) => r.last < ebpf_len
\* The instruction at i is one of the array.
Here == ebpf_len \in Nat /\ i \in 0 .. ebpf_len - 1

\* A result fits when its parts do.
LEMMA FoldedFits ==
    ASSUME NEW f, NEW ate, NEW fd, NEW ms, NEW last,
           ate \in 0 .. 6, Marks(ms), last \in 0 .. i + 7,
           Tight(ebpfs, ebpf_len) => last < ebpf_len
    PROVE  Fits(Folded(f, ate, fd, ms, last))
  BY DEF Fits, Folded

\* A jump goes to an instruction of the array.
LEMMA JumpAt ==
    ASSUME Here, NEW e, Array(e), NEW n \in 0 .. ebpf_len + Safe - 1, e[n].cls = "JMP"
    PROVE  /\ n < ebpf_len
           /\ e[n].op # "EXIT" =>
                n + e[n].off + 1 \in 0 .. ebpf_len - 1 /\ e[n].off \in Nat /\ n + 1 < ebpf_len
  <1>1. n < ebpf_len /\ n \in 0 .. ebpf_len - 1 /\ e[n].off \in Int
    BY DEF Array, Here, Safe
  <1>2. e[n].op # "EXIT" => e[n].off >= 0 /\ n + 1 + e[n].off < ebpf_len
    BY <1>1 DEF Array, JumpsIn
  <1> QED
    BY <1>1, <1>2 DEF Here

\* jmp_insn fits, without a check for a pattern ...
LEMMA PlainFits ==
    ASSUME Here, NEW e, Array(e), NEW ate \in 0 .. 3, NEW fd \in 0 .. 3, NEW large_k,
           e[i + fd].cls = "JMP", JmpPlain(e, ate, fd, large_k).ok
    PROVE  Fits(JmpPlain(e, ate, fd, large_k))
  <1> DEFINE r == JmpPlain(e, ate, fd, large_k)
             p == i + fd
             op == e[p].op
             jt == p + e[p].off + 1
             ja == p + 1
             jf == ja + e[ja].off + 1
  <1>0. p \in 0 .. ebpf_len + Safe - 1 /\ ja \in 0 .. ebpf_len + Safe - 1 /\ i \in Nat
        /\ ebpf_len \in Nat
    BY DEF Here, Safe
  <1>1. /\ p < ebpf_len
        /\ op # "EXIT" => jt \in 0 .. ebpf_len - 1 /\ e[p].off \in Nat /\ ja < ebpf_len
    BY <1>0, JumpAt
  <1>2. e[ja].cls = "JMP" /\ e[ja].op = "JA" => jf \in 0 .. ebpf_len - 1
    <2>1. ASSUME e[ja].cls = "JMP", e[ja].op = "JA" PROVE jf \in 0 .. ebpf_len - 1
      <3> HIDE DEF ja
      <3> QED
        BY <1>0, <2>1, JumpAt
    <2> QED
      BY <2>1
  <1>3. ate \in 0 .. 6 /\ ate + 1 \in 0 .. 6 /\ p \in 0 .. i + 7 /\ ja \in 0 .. i + 7
    BY <1>0
  <1>m. Marks({})
    BY DEF Marks
  <1>n. ASSUME NEW x \in 0 .. ebpf_len - 1 PROVE Marks({x})
    <2>1. {x} = {x, x}
      OBVIOUS
    <2> QED
      BY <2>1 DEF Marks
  <1>4. CASE op = "EXIT"
    <2>1. r = Folded(CbpfStmt("RET", "RET", "A", 0), ate, fd, {}, p)
      BY <1>4 DEF JmpPlain
    <2> HIDE DEF r, p
    <2> QED
      BY <2>1, <1>1, <1>3, <1>m, FoldedFits DEF r
  <1>5. CASE op = "JA"
    <2>1. r = Folded(CbpfStmt("JMP", "JA", "K", 1), ate, fd, {i + e[p].off + 1}, p)
      BY <1>5 DEF JmpPlain
    <2>2. i + e[p].off + 1 \in 0 .. ebpf_len - 1
      BY <1>0, <1>1, <1>5
    <2>3. Marks({i + e[p].off + 1})
      BY <2>2, <1>n
    <2> HIDE DEF r, p
    <2> QED
      BY <2>1, <2>3, <1>1, <1>3, FoldedFits DEF r
  <1>6. CASE op \in {"JEQ", "JGT", "JGE", "JSET"}
    <2>1. op # "EXIT" /\ op # "JA"
      BY <1>6
    <2>2. Marks({jt})
      BY <2>1, <1>1, <1>n
    <2>3. \/ /\ e[ja].cls = "JMP" /\ e[ja].op = "JA"
             /\ \E f : r = Folded(f, ate + 1, fd, {jt, jf}, ja)
          \/ \E f : r = Folded(f, ate, fd, {jt}, ja)
      BY <1>6, <2>1 DEF JmpPlain
    <2>4. e[ja].cls = "JMP" /\ e[ja].op = "JA" => Marks({jt, jf})
      BY <1>1, <1>2, <2>1 DEF Marks
    <2>5. ja < ebpf_len
      BY <1>1, <2>1
    <2> HIDE DEF r, jt, jf, ja
    <2> QED
      BY <2>2, <2>3, <2>4, <2>5, <1>3, FoldedFits DEF r
  <1>7. CASE op \in {"JNE", "JLE", "JLT"}
    <2>1. op # "EXIT" /\ op # "JA" /\ op \notin {"JEQ", "JGT", "JGE", "JSET"}
      BY <1>7
    <2>2. Marks({jt})
      BY <2>1, <1>1, <1>n
    <2>3. \E f : r = Folded(f, ate, fd, {jt}, ja)
      BY <1>7, <2>1 DEF JmpPlain
    <2>5. ja < ebpf_len
      BY <1>1, <2>1
    <2> HIDE DEF r, jt, jf, ja
    <2> QED
      BY <2>2, <2>3, <2>5, <1>3, FoldedFits DEF r
  <1>8. CASE op \notin {"EXIT", "JA", "JEQ", "JGT", "JGE", "JSET", "JNE", "JLE", "JLT"}
    <2>1. op # "EXIT" /\ op # "JA" /\ op \notin {"JEQ", "JGT", "JGE", "JSET", "JNE", "JLE", "JLT"}
      BY <1>8
    <2>2. \/ r = ASSERT_JMP
          \/ /\ e[ja].cls = "JMP" /\ e[ja].op = "JA"
             /\ \E f : r = Folded(f, ate + 1, fd, {jt, jf}, ja)
      BY <2>1 DEF JmpPlain
    <2>3. e[ja].cls = "JMP" /\ e[ja].op = "JA" => Marks({jt, jf})
      BY <1>1, <1>2, <2>1 DEF Marks
    <2>4. ja < ebpf_len /\ r # ASSERT_JMP
      BY <1>1, <2>1 DEF ASSERT_JMP
    <2> HIDE DEF r, jt, jf, ja
    <2> QED
      BY <2>2, <2>3, <2>4, <1>3, FoldedFits DEF r
  <1> QED
    BY <1>4, <1>5, <1>6, <1>7, <1>8

\* Marking nothing fits.
LEMMA NoMarks == Marks({})
  BY DEF Marks

\* ... when it looks for the guard of a division ...
LEMMA DivFits ==
    ASSUME Here, NEW e, Array(e), JmpDivX(e, 0, 0).ok
    PROVE  Fits(JmpDivX(e, 0, 0))
  <1> DEFINE p == i + 0
             blinded == ~(e[p + 1].cls = "JMP" /\ e[p + 1].op = "JNE" /\ e[p + 1].src = "K")
             guard   == IF blinded THEN p + 4 ELSE p + 2
             ate     == 0 + (IF blinded THEN 6 ELSE 4)
  <1>1. /\ e[guard + 1].cls = "JMP"
        /\ JmpDivX(e, 0, 0) = Folded(CbpfStmt("ALU", "DIV", "X", 0), ate, 0, {}, guard + 1)
    BY DEF JmpDivX, ASSERT_JMP
  <1>2. /\ guard + 1 \in 0 .. ebpf_len + Safe - 1 /\ guard + 1 \in 0 .. i + 7 /\ ate \in 0 .. 6
    BY DEF Here, Safe
  <1> HIDE DEF guard, ate
  <1>3. guard + 1 < ebpf_len
    BY <1>1, <1>2, JumpAt
  <1> QED
    BY <1>1, <1>2, <1>3, NoMarks, FoldedFits

\* ... for a comparison with a large constant ...
LEMMA LargeFits ==
    ASSUME Here, NEW e, Array(e), NEW fd \in {0, 2}, JmpLargeK(e, fd, fd).ok
    PROVE  Fits(JmpLargeK(e, fd, fd))
  <1>1. /\ e[i + fd + 1].cls = "JMP"
        /\ JmpLargeK(e, fd, fd) = JmpPlain(e, fd + 1, fd + 1, e[i + fd].imm)
    BY DEF JmpLargeK, ASSERT_JMP
  <1>2. fd + 1 \in 0 .. 3 /\ i + (fd + 1) = i + fd + 1
    BY DEF Here
  <1> QED
    BY <1>1, <1>2, PlainFits

\* ... and for a return of a constant.
LEMMA RetKFits ==
    ASSUME Here, NEW e, Array(e), NEW fd \in {0, 2}, e[i + fd].op = "MOV",
           ebpfs[i + fd].cls # "JMP"
    PROVE  Fits(JmpRetK(e, fd, fd))
  <1> DEFINE p == i + fd
  <1>1. \/ \E f : JmpRetK(e, fd, fd) = Folded(f, fd + 1, fd, {}, p + 1)
        \/ \E f : JmpRetK(e, fd, fd) = Folded(f, fd, fd, {}, p + 1)
    BY DEF JmpRetK
  <1>2. p \in 0 .. ebpf_len + Safe - 1 /\ p + 1 \in 0 .. i + 7 /\ fd \in 0 .. 6 /\ fd + 1 \in 0 .. 6
    BY DEF Here, Safe
  <1>3. p < ebpf_len
    BY <1>2 DEF Array
  <1>4. Tight(ebpfs, ebpf_len) => p + 1 < ebpf_len
    <2>1. Tight(ebpfs, ebpf_len) => p # ebpf_len - 1
      BY DEF Tight
    <2> QED
      BY <1>2, <1>3, <2>1 DEF Here
  <1> HIDE DEF p
  <1> QED
    BY <1>1, <1>2, <1>4, NoMarks, FoldedFits

\* What alu_insn looks at once it has put a hidden constant back.
Blinded == ebpfs[i].op = "MOV" /\ ebpfs[i].dst = "AX"
Zeroed  == ebpfs[i].op = "XOR" /\ ebpfs[i].src = "X" /\ ebpfs[i].sreg = ebpfs[i].dst
AluFd   == IF Blinded THEN 2 ELSE 0
AluE    == CASE Blinded -> [ebpfs EXCEPT ![i + AluFd].imm = BitXor(ebpfs[i].imm, ebpfs[i + 1].imm),
                                         ![i + AluFd].src = "K", ![i + AluFd].sreg = "A"]
             [] ~Blinded /\ Zeroed -> [ebpfs EXCEPT ![i].sreg = "A", ![i].cls = "ALU",
                                                    ![i].op = "MOV", ![i].src = "K"]
             [] OTHER -> ebpfs
\* A move between A and X.
Tax(insn) == insn.cls = "ALU64" /\ insn.src = "X" /\ "X" \in {insn.sreg, insn.dst}

\* alu_insn by its cases.
LEMMA AluCases ==
    LET e == AluE  fd == AluFd  insn == AluE[i + AluFd]
    IN  \/ insn.cls = "JMP" /\ alu_insn = JmpPlain(e, fd, fd, 0)
        \/ /\ insn.cls # "JMP" /\ insn.op = "MOV"
           /\ \/ \E f : alu_insn = Folded(f, fd, fd, {}, i + fd) /\ (Tax(insn) \/ (insn.dst = "X" /\ insn.sreg = "A"))
              \/ ~Tax(insn) /\ insn.dst = "A" /\ insn.sreg = "A" /\ alu_insn = JmpRetK(e, fd, fd)
              \/ ~Tax(insn) /\ insn.dst = "X" /\ insn.sreg = "X" /\ alu_insn = JmpDivX(e, fd, fd)
              \/ ~Tax(insn) /\ insn.dst = "TMP" /\ insn.sreg = "A" /\ alu_insn = JmpLargeK(e, fd, fd)
              \/ /\ ~Tax(insn) /\ alu_insn = ASSERT_JMP
                 /\ insn.sreg = "A" => insn.dst \notin {"A", "X", "TMP"}
                 /\ insn.dst = "X" => insn.sreg # "X"
        \/ /\ insn.cls # "JMP" /\ insn.op # "MOV"
           /\ \E f : alu_insn = Folded(f, fd, fd, {}, i + fd)
  <1> DEFINE e == AluE
             fd == AluFd
             insn == e[i + fd]
             stmt == Folded(CbpfStmt(insn.cls, insn.op, insn.src, insn.imm), fd, fd, {}, i + fd)
             tax == Folded(CbpfStmt("MISC", IF insn.sreg = "A" THEN "TAX" ELSE "TXA", "K", 0),
                               fd, fd, {}, i + fd)
             ldx == Folded(CbpfStmt("LDX", IF insn.imm = DataLen THEN "LEN" ELSE "IMM", "K",
                                                IF insn.imm = DataLen THEN 0 ELSE insn.imm),
                                       fd, fd, {}, i + fd)
  <1>1. alu_insn =
          CASE insn.cls = "JMP" -> JmpPlain(e, fd, fd, 0)
          [] insn.cls # "JMP" /\ insn.op = "MOV" ->
               (CASE Tax(insn) -> tax
                  [] ~Tax(insn) ->
                        CASE insn.dst = "A" /\ insn.sreg = "A" -> JmpRetK(e, fd, fd)
                          [] insn.dst = "X" /\ insn.sreg = "A" -> ldx
                          [] insn.dst = "X" /\ insn.sreg = "X" -> JmpDivX(e, fd, fd)
                          [] insn.dst = "TMP" /\ insn.sreg = "A" -> JmpLargeK(e, fd, fd)
                          [] OTHER -> ASSERT_JMP)
          [] OTHER -> stmt
    BY DEF alu_insn, AluE, AluFd, Blinded, Zeroed, Tax
  <1> HIDE DEF e, fd
  <1>2. tax = Folded(CbpfStmt("MISC", IF insn.sreg = "A" THEN "TAX" ELSE "TXA", "K", 0), fd, fd, {}, i + fd)
    OBVIOUS
  <1>3. \E f : tax = Folded(f, fd, fd, {}, i + fd)
    BY <1>2
  <1>4. \E f : ldx = Folded(f, fd, fd, {}, i + fd)
    OBVIOUS
  <1>5. \E f : stmt = Folded(f, fd, fd, {}, i + fd)
    OBVIOUS
  <1> HIDE DEF tax, ldx, stmt, insn
  <1>6. CASE insn.cls = "JMP"
    BY <1>1, <1>6 DEF e, fd, insn
  <1>7. CASE insn.cls # "JMP" /\ insn.op # "MOV"
    <2>1. alu_insn = stmt
      BY <1>1, <1>7
    <2> QED
      BY <2>1, <1>5, <1>7 DEF e, fd, insn
  <1>8. CASE insn.cls # "JMP" /\ insn.op = "MOV" /\ Tax(insn)
    <2>1. alu_insn = tax
      BY <1>1, <1>8
    <2> QED
      BY <2>1, <1>3, <1>8 DEF e, fd, insn
  <1>9. CASE insn.cls # "JMP" /\ insn.op = "MOV" /\ ~Tax(insn)
    <2>1. alu_insn = CASE insn.dst = "A" /\ insn.sreg = "A" -> JmpRetK(e, fd, fd)
                          [] insn.dst = "X" /\ insn.sreg = "A" -> ldx
                          [] insn.dst = "X" /\ insn.sreg = "X" -> JmpDivX(e, fd, fd)
                          [] insn.dst = "TMP" /\ insn.sreg = "A" -> JmpLargeK(e, fd, fd)
                          [] OTHER -> ASSERT_JMP
      BY <1>1, <1>9
    <2>2. CASE insn.dst = "X" /\ insn.sreg = "A"
      <3>1. alu_insn = ldx
        BY <2>1, <2>2
      <3> QED
        BY <3>1, <2>2, <1>4, <1>9 DEF e, fd, insn
    <2>3. CASE ~(insn.dst = "X" /\ insn.sreg = "A")
      BY <2>1, <2>3, <1>9 DEF e, fd, insn
    <2> QED
      BY <2>2, <2>3
  <1> QED
    BY <1>6, <1>7, <1>8, <1>9

\* The array holds instructions.
Typed == ebpfs \in [0 .. ebpf_len + Safe - 1 -> EbpfInsn]

\* What putting a hidden constant back changes in the array.
AluSees(e, p) ==
    /\ \A n \in 0 .. ebpf_len + Safe - 1 : n # p => e[n] = ebpfs[n]
    /\ e[p].off = ebpfs[p].off /\ e[p].dst = ebpfs[p].dst
    /\ Blinded => e[p].cls = ebpfs[p].cls /\ e[p].op = ebpfs[p].op /\ e[p].src = "K" /\ e[p].sreg = "A"
    /\ ~Blinded /\ Zeroed => e[p].cls = "ALU" /\ e[p].op = "MOV" /\ e[p].src = "K" /\ e[p].sreg = "A"
    /\ ~Blinded /\ ~Zeroed => e[p] = ebpfs[p]

\* alu_insn changes at most the one instruction it then works on.
LEMMA AluView ==
    ASSUME Here, Typed
    PROVE  AluFd \in {0, 2} /\ AluSees(AluE, i + AluFd)
  <1>0. i \in 0 .. ebpf_len + Safe - 1 /\ i + 2 \in 0 .. ebpf_len + Safe - 1 /\ i + 0 = i
    BY DEF Here, Safe
  <1>1. CASE Blinded
    <2>1. AluFd = 2
      BY <1>1 DEF AluFd
    <2> DEFINE p == i + AluFd
               k == BitXor(ebpfs[i].imm, ebpfs[i + 1].imm)
    <2>2. AluE = [ebpfs EXCEPT ![p].imm = k, ![p].src = "K", ![p].sreg = "A"]
      BY <1>1 DEF AluE
    <2>3. p \in 0 .. ebpf_len + Safe - 1
      BY <2>1, <1>0
    <2> HIDE DEF p, k
    <2>4. ebpfs[p] \in EbpfInsn
      BY <2>3 DEF Typed
    <2>5. AluE = [ebpfs EXCEPT ![p] = [ebpfs[p] EXCEPT !.imm = k, !.src = "K", !.sreg = "A"]]
      BY <2>2, <2>3 DEF Typed
    <2>6. /\ AluE[p] = [ebpfs[p] EXCEPT !.imm = k, !.src = "K", !.sreg = "A"]
          /\ \A n \in 0 .. ebpf_len + Safe - 1 : n # p => AluE[n] = ebpfs[n]
      BY <2>5, <2>3 DEF Typed
    <2>7. /\ AluE[p].off = ebpfs[p].off /\ AluE[p].dst = ebpfs[p].dst
          /\ AluE[p].cls = ebpfs[p].cls /\ AluE[p].op = ebpfs[p].op /\ AluE[p].src = "K"
          /\ AluE[p].sreg = "A"
      BY <2>4, <2>6 DEF EbpfInsn
    <2>8. AluSees(AluE, p)
      BY <1>1, <2>6, <2>7 DEF AluSees
    <2> QED
      BY <2>1, <2>8 DEF p
  <1>2. CASE ~Blinded /\ Zeroed
    <2>1. AluFd = 0 /\ i + AluFd = i
      BY <1>2, <1>0 DEF AluFd
    <2>2. AluE = [ebpfs EXCEPT ![i].sreg = "A", ![i].cls = "ALU", ![i].op = "MOV", ![i].src = "K"]
      BY <1>2 DEF AluE
    <2>4. ebpfs[i] \in EbpfInsn
      BY <1>0 DEF Typed
    <2>5. AluE = [ebpfs EXCEPT ![i] = [ebpfs[i] EXCEPT !.sreg = "A", !.cls = "ALU", !.op = "MOV", !.src = "K"]]
      BY <2>2, <1>0 DEF Typed
    <2>6. /\ AluE[i] = [ebpfs[i] EXCEPT !.sreg = "A", !.cls = "ALU", !.op = "MOV", !.src = "K"]
          /\ \A n \in 0 .. ebpf_len + Safe - 1 : n # i => AluE[n] = ebpfs[n]
      BY <2>5, <1>0 DEF Typed
    <2>7. /\ AluE[i].off = ebpfs[i].off /\ AluE[i].dst = ebpfs[i].dst
          /\ AluE[i].cls = "ALU" /\ AluE[i].op = "MOV" /\ AluE[i].src = "K" /\ AluE[i].sreg = "A"
      BY <2>4, <2>6 DEF EbpfInsn
    <2>8. AluSees(AluE, i)
      BY <1>2, <2>6, <2>7 DEF AluSees
    <2> QED
      BY <2>1, <2>8
  <1>3. CASE ~Blinded /\ ~Zeroed
    <2>1. AluFd = 0 /\ i + AluFd = i /\ AluE = ebpfs
      BY <1>3, <1>0 DEF AluFd, AluE
    <2> QED
      BY <2>1, <1>3 DEF AluSees
  <1> QED
    BY <1>1, <1>2, <1>3

\* What alu_insn changes leaves the jumps inside.
LEMMA AluArray ==
    ASSUME Here, Typed, Array(ebpfs), ebpfs[i].cls \in {"ALU", "ALU64"}
    PROVE  /\ Array(AluE)
           /\ AluE[i + AluFd].cls = "JMP" <=> ebpfs[i + AluFd].cls = "JMP"
           /\ AluE[i + AluFd].dst = "X" /\ AluE[i + AluFd].sreg = "X" => AluFd = 0
           /\ Tight(ebpfs, ebpf_len) => i + AluFd < ebpf_len
  <1> DEFINE e == AluE
             p == i + AluFd
  <1>1. AluFd \in {0, 2} /\ AluSees(e, p)
    BY AluView
  <1>2. i \in 0 .. ebpf_len - 1 /\ p \in 0 .. ebpf_len + Safe - 1 /\ ebpf_len \in Nat /\ i + 0 = i
    BY <1>1 DEF Here, Safe
  <1>3. ~Blinded => p = i
    BY <1>2 DEF AluFd
  <1>4. e[p].cls = "JMP" <=> ebpfs[p].cls = "JMP"
    BY <1>1, <1>3 DEF AluSees
  <1>5. e[p].sreg = "X" => AluFd = 0
    BY <1>1 DEF AluSees, AluFd
  <1>6. ASSUME Tight(ebpfs, ebpf_len) PROVE p < ebpf_len
    <2>1. CASE Blinded
      BY <2>1, <1>2, <1>6 DEF Tight, Blinded, AluFd
    <2>2. CASE ~Blinded
      BY <2>2, <1>2, <1>3
    <2> QED
      BY <2>1, <2>2
  <1> HIDE DEF e, p
  <1>7. Array(e)
    <2>1. ASSUME NEW n \in 0 .. ebpf_len + Safe - 1
          PROVE  e[n].off \in Int /\ (e[n].cls = "JMP" \/ e[n].op = "MOV" => n < ebpf_len)
      <3>1. CASE n # p
        BY <3>1, <1>1 DEF AluSees, Array
      <3>2. CASE n = p /\ Blinded
        BY <3>2, <1>1 DEF AluSees, Array
      <3>3. CASE n = p /\ ~Blinded
        BY <3>3, <1>1, <1>2, <1>3 DEF AluSees, Array
      <3> QED
        BY <3>1, <3>2, <3>3
    <2>2. ASSUME NEW n \in 0 .. ebpf_len - 1, e[n].cls = "JMP", e[n].op # "EXIT"
          PROVE  e[n].off >= 0 /\ n + 1 + e[n].off < ebpf_len
      <3>0. n \in 0 .. ebpf_len + Safe - 1
        BY <1>2 DEF Safe
      <3>1. CASE n # p
        <4>1. e[n] = ebpfs[n]
          BY <3>0, <3>1, <1>1 DEF AluSees
        <4> QED
          BY <4>1, <2>2 DEF Array, JumpsIn
      <3>2. CASE n = p /\ Blinded
        <4>1. e[n].off = ebpfs[n].off /\ e[n].cls = ebpfs[n].cls /\ e[n].op = ebpfs[n].op
          BY <3>2, <1>1 DEF AluSees
        <4>2. ebpfs[n].off >= 0 /\ n + 1 + ebpfs[n].off < ebpf_len
          BY <4>1, <2>2 DEF Array, JumpsIn
        <4> QED
          BY <4>1, <4>2
      <3>3. CASE n = p /\ ~Blinded
        BY <3>3, <2>2, <1>3, <1>4
      <3> QED
        BY <3>1, <3>2, <3>3
    <2> QED
      BY <2>1, <2>2 DEF Array, JumpsIn
  <1> QED
    BY <1>4, <1>5, <1>6, <1>7 DEF e, p

\* alu_insn fits.
LEMMA AluFits ==
    ASSUME Here, Typed, Array(ebpfs), ebpfs[i].cls \in {"ALU", "ALU64"}, alu_insn.ok
    PROVE  Fits(alu_insn)
  <1> DEFINE e == AluE
             fd == AluFd
             insn == AluE[i + AluFd]
  <1>1. /\ Array(e) /\ (insn.cls = "JMP" <=> ebpfs[i + fd].cls = "JMP")
        /\ insn.dst = "X" /\ insn.sreg = "X" => fd = 0
        /\ Tight(ebpfs, ebpf_len) => i + fd < ebpf_len
    BY AluArray
  <1>2. fd \in {0, 2}
    BY AluView
  <1>3. fd \in 0 .. 3 /\ fd \in 0 .. 6 /\ i + fd \in 0 .. i + 7
    BY <1>2 DEF Here
  <1>4. ASSUME NEW f, alu_insn = Folded(f, fd, fd, {}, i + fd) PROVE Fits(alu_insn)
    <2> HIDE DEF fd
    <2> QED
      BY <1>1, <1>3, <1>4, NoMarks, FoldedFits
  <1>5. CASE insn.cls = "JMP" /\ alu_insn = JmpPlain(e, fd, fd, 0)
    <2> HIDE DEF fd, e
    <2>1. e[i + fd].cls = "JMP" /\ JmpPlain(e, fd, fd, 0).ok
      BY <1>5 DEF e, fd
    <2>2. Fits(JmpPlain(e, fd, fd, 0))
      BY <2>1, <1>1, <1>3, PlainFits
    <2> QED
      BY <2>2, <1>5
  <1>6. CASE insn.cls # "JMP" /\ insn.op = "MOV" /\ alu_insn = JmpRetK(e, fd, fd)
    <2> HIDE DEF fd, e
    <2>1. e[i + fd].op = "MOV" /\ ebpfs[i + fd].cls # "JMP"
      BY <1>1, <1>6 DEF e, fd
    <2>2. Fits(JmpRetK(e, fd, fd))
      BY <2>1, <1>1, <1>2, RetKFits
    <2> QED
      BY <2>2, <1>6
  <1>7. CASE insn.dst = "X" /\ insn.sreg = "X" /\ alu_insn = JmpDivX(e, fd, fd)
    <2>1. alu_insn = JmpDivX(e, 0, 0)
      BY <1>1, <1>7
    <2> HIDE DEF fd, e
    <2>2. Fits(JmpDivX(e, 0, 0))
      BY <2>1, <1>1, DivFits
    <2> QED
      BY <2>1, <2>2
  <1>8. CASE alu_insn = JmpLargeK(e, fd, fd)
    <2> HIDE DEF fd, e
    <2>1. Fits(JmpLargeK(e, fd, fd))
      BY <1>1, <1>2, <1>8, LargeFits
    <2> QED
      BY <2>1, <1>8
  <1>9. alu_insn # ASSERT_JMP
    BY DEF ASSERT_JMP
  <1> QED
    BY <1>4, <1>5, <1>6, <1>7, <1>8, <1>9, AluCases

\* A load or a store fits.
LEMMA MemFits ==
    ASSUME Here, ebpfs[i].cls \in {"LDX", "STX"}, MemInsn.ok
    PROVE  Fits(MemInsn)
  <1> DEFINE insn == ebpfs[i]
             slot == (-insn.off - 4) \div 4
  <1>1. /\ i \in 0 .. i + 7 /\ i < ebpf_len /\ 0 \in 0 .. 6
    BY DEF Here
  <1>2. CASE insn.cls = "LDX" /\ insn.sreg = "CTX"
    <2>1. MemInsn = Folded(CbpfStmt("LD", "ABS", "K", insn.off), 0, 0, {}, i)
      BY <1>2 DEF MemInsn
    <2> QED
      BY <2>1, <1>1, NoMarks, FoldedFits
  <1>3. CASE insn.cls = "LDX" /\ insn.sreg = "FP"
    <2>1. MemInsn = Folded(CbpfStmt(IF insn.dst = "A" THEN "LD" ELSE "LDX", "MEM", "K", slot), 0, 0, {}, i)
      BY <1>3 DEF MemInsn
    <2> HIDE DEF slot
    <2> QED
      BY <2>1, <1>1, NoMarks, FoldedFits
  <1>4. CASE insn.cls = "LDX" /\ insn.sreg \notin {"CTX", "FP"}
    <2>1. MemInsn = ASSERT_JMP
      BY <1>4 DEF MemInsn
    <2> QED
      BY <2>1 DEF ASSERT_JMP
  <1>5. CASE insn.cls = "STX"
    <2>1. MemInsn = Folded(CbpfStmt(IF insn.sreg = "A" THEN "ST" ELSE "STX", "MEM", "K", slot), 0, 0, {}, i)
      BY <1>5 DEF MemInsn
    <2> HIDE DEF slot
    <2> QED
      BY <2>1, <1>1, NoMarks, FoldedFits
  <1> QED
    BY <1>2, <1>3, <1>4, <1>5

\* Every round of pass 1 fits.
LEMMA FoldFits ==
    ASSUME Here, Typed, Array(ebpfs), FoldInsn.ok
    PROVE  Fits(FoldInsn)
  <1>1. CASE ebpfs[i].cls \in {"LDX", "STX"}
    <2>1. FoldInsn = MemInsn
      BY <1>1 DEF FoldInsn
    <2> QED
      BY <2>1, <1>1, MemFits
  <1>2. CASE ebpfs[i].cls \in {"ALU", "ALU64"}
    <2>1. FoldInsn = alu_insn
      BY <1>2 DEF FoldInsn
    <2> QED
      BY <2>1, <1>2, AluFits
  <1>3. CASE ebpfs[i].cls = "JMP"
    <2>1. FoldInsn = JmpPlain(ebpfs, 0, 0, 0)
      BY <1>3 DEF FoldInsn
    <2>2. i + 0 = i /\ 0 \in 0 .. 3
      BY DEF Here
    <2>3. ebpfs[i + 0].cls = "JMP" /\ JmpPlain(ebpfs, 0, 0, 0).ok
      BY <2>1, <2>2, <1>3
    <2>4. Fits(JmpPlain(ebpfs, 0, 0, 0))
      BY <2>2, <2>3, PlainFits
    <2> QED
      BY <2>1, <2>4
  <1>4. CASE ebpfs[i].cls \notin {"LDX", "STX", "ALU", "ALU64", "JMP"}
    <2>1. FoldInsn = ASSERT_JMP
      BY <1>4 DEF FoldInsn
    <2> QED
      BY <2>1 DEF ASSERT_JMP
  <1> QED
    BY <1>1, <1>2, <1>3, <1>4

\* A few instructions on, at most one more word of the bitmap is needed.
LEMMA NextWord ==
    ASSUME NEW a \in Nat, NEW b \in Nat, b <= a + 6
    PROVE  b \div U32BITS <= a \div U32BITS + 1
  <1> DEFINE u == U32BITS
             x == a \div u
             y == b \div u
  <1>1. u \in Nat /\ u > 6
    BY BitmapAssumption
  <1>2. x \in Int /\ a = u * x + (a % u) /\ a % u \in 0 .. u - 1
    BY <1>1
  <1>3. y \in Int /\ b = u * y + (b % u) /\ b % u \in 0 .. u - 1
    BY <1>1
  <1> HIDE DEF x, y, u
  <1> SUFFICES ASSUME y >= x + 2 PROVE FALSE
    BY <1>2, <1>3 DEF x, y, u
  <1>4. u * y >= u * (x + 2)
    BY <1>1, <1>2, <1>3
  <1>5. u * (x + 2) = u * x + 2 * u
    BY <1>1, <1>2
  <1>6. u * x \in Int /\ u * y \in Int
    BY <1>1, <1>2, <1>3
  <1> QED
    BY <1>1, <1>2, <1>3, <1>4, <1>5, <1>6

\* Behind the instructions of a file there are always some more that are zero.
LEMMA SafeArea ==
    ASSUME NEW a \in Nat
    PROVE  Mapped(a) \in Nat /\ a + Safe <= Mapped(a)
  <1> DEFINE u == BLK_SIZE
             x == a \div u
             mapped == u * (x + 1)
  <1>1. u \in Nat /\ u > 0 /\ PAGE \in Nat /\ PAGE >= 10
    BY MapAssumption DEF Safe
  <1>2. x \in Int /\ a = u * x + (a % u) /\ a % u \in 0 .. u - 1
    BY <1>1
  <1>3. Mapped(a) = IF mapped - a < 10 THEN mapped + PAGE ELSE mapped
    BY DEF Mapped, Safe
  <1> HIDE DEF u, x
  <1>4. mapped = u * x + u /\ u * x \in Int
    BY <1>1, <1>2
  <1> HIDE DEF mapped
  <1> QED
    BY <1>1, <1>2, <1>3, <1>4 DEF Safe

---------------------------------------------------------------------------
(* The invariant of InBounds, action by action.                          *)

\* The filter that was loaded, and who reads it.
Given ==
    /\ prog \in Filters /\ Acceptable(prog)
    /\ rnd \in Rnds \cup {NoRnd}
    /\ trustful \in BOOLEAN

\* What is in the array: the kernel's filter, or its first part from a file,
\* and zeros behind it.
LoadInv ==
    phase # "idle" =>
    /\ ebpf_len \in 0 .. Len(KernelEbpf(prog, rnd))
    /\ trustful => Whole
    /\ ebpfs = [n \in 0 .. ebpf_len + Safe - 1 |->
                  IF n < ebpf_len THEN KernelEbpf(prog, rnd)[n + 1] ELSE ZeroInsn]
    /\ phase # "no_filter" => ebpf_len > 0

\* Where the kernel put the instructions of the filter.
At == Addresses(Bodies(prog, rnd))

\* The filter is one, and so is what the kernel keeps of it.
LEMMA ProgTyped ==
    ASSUME Given
    PROVE  /\ prog \in Seq(ClassicInsn) /\ Acceptable(prog) /\ rnd \in Word \cup {NoRnd}
           /\ KernelEbpf(prog, rnd) \in Seq(EbpfInsn) /\ Len(KernelEbpf(prog, rnd)) \in Nat
  <1>1. prog \in Seq(ClassicInsn) /\ Acceptable(prog) /\ rnd \in Word \cup {NoRnd}
    BY FilterAssumption DEF Given
  <1>2. KernelEbpf(prog, rnd) \in Seq(EbpfInsn)
    BY <1>1, KernelLaid
  <1> QED
    BY <1>1, <1>2

\* The zeros behind a file are instructions, and no jumps.
LEMMA ZeroTyped == ZeroInsn \in EbpfInsn /\ ZeroInsn.cls = "LD" /\ ZeroInsn.op = "ADD"
  BY FilterAssumption DEF ZeroInsn, Ebpf, EbpfInsn, Clss, Ops, Regs

\* What was loaded is instructions of the kernel, with no jump behind the end.
LEMMA LoadedArray ==
    ASSUME Given, LoadInv, phase # "idle"
    PROVE  /\ ebpf_len \in Nat /\ Typed
           /\ \A n \in 0 .. ebpf_len + Safe - 1 : ebpfs[n].cls = "JMP" \/ ebpfs[n].op = "MOV" => n < ebpf_len
           /\ \A n \in 0 .. ebpf_len - 1 : ebpfs[n] = KernelEbpf(prog, rnd)[n + 1]
  <1> DEFINE w == KernelEbpf(prog, rnd)
  <1>1. w \in Seq(EbpfInsn) /\ Len(w) \in Nat
    BY ProgTyped
  <1>2. /\ ebpf_len \in 0 .. Len(w)
        /\ ebpfs = [n \in 0 .. ebpf_len + Safe - 1 |-> IF n < ebpf_len THEN w[n + 1] ELSE ZeroInsn]
    BY DEF LoadInv
  <1> HIDE DEF w
  <1>3. ebpf_len \in Nat /\ ebpf_len <= Len(w)
    BY <1>1, <1>2
  <1>4. \A n \in 0 .. ebpf_len + Safe - 1 : ebpfs[n] = IF n < ebpf_len THEN w[n + 1] ELSE ZeroInsn
    BY <1>2
  <1>5. \A n \in 0 .. ebpf_len + Safe - 1 : n < ebpf_len => w[n + 1] \in EbpfInsn
    <2> SUFFICES ASSUME NEW n \in 0 .. ebpf_len + Safe - 1, n < ebpf_len PROVE w[n + 1] \in EbpfInsn
      OBVIOUS
    <2>1. n + 1 \in 1 .. Len(w)
      BY <1>1, <1>3 DEF Safe
    <2> QED
      BY <2>1, <1>1
  <1>6. Typed
    <2>1. \A n \in 0 .. ebpf_len + Safe - 1 : (IF n < ebpf_len THEN w[n + 1] ELSE ZeroInsn) \in EbpfInsn
      BY <1>5, ZeroTyped
    <2> QED
      BY <2>1, <1>2 DEF Typed
  <1>7. \A n \in 0 .. ebpf_len + Safe - 1 : ebpfs[n].cls = "JMP" \/ ebpfs[n].op = "MOV" => n < ebpf_len
    BY <1>4, ZeroTyped
  <1>8. \A n \in 0 .. ebpf_len - 1 : ebpfs[n] = w[n + 1]
    <2>1. \A n \in 0 .. ebpf_len - 1 : n \in 0 .. ebpf_len + Safe - 1 /\ n < ebpf_len
      BY <1>3 DEF Safe
    <2> QED
      BY <2>1, <1>4
  <1> QED
    BY <1>3, <1>6, <1>7, <1>8 DEF w

\* A whole filter lies in the array as the kernel made it.
LEMMA WholeArray ==
    ASSUME Given, LoadInv, phase # "idle", Whole
    PROVE  /\ ebpf_len > 3 /\ Begins(ebpfs) /\ Framed(prog, At, ebpfs, ebpf_len)
           /\ JumpsIn(ebpfs, ebpf_len) /\ Tight(ebpfs, ebpf_len)
  <1>1. prog \in Seq(ClassicInsn) /\ Acceptable(prog) /\ rnd \in Word \cup {NoRnd}
    BY ProgTyped
  <1>2. ebpf_len = Len(KernelEbpf(prog, rnd))
    BY DEF Whole
  <1>3. \A n \in 0 .. ebpf_len - 1 : ebpfs[n] = KernelEbpf(prog, rnd)[n + 1]
    BY LoadedArray
  <1> QED
    BY <1>1, <1>2, <1>3, KernelFramed DEF At

\* JumpsIn is what the code checks of a file before it starts.
LEMMA SameCheck == JumpsInside <=> JumpsIn(ebpfs, ebpf_len)
  BY DEF JumpsInside, JumpsIn

\* The jumps are inside once the conversion has begun, and the highest places
\* are numbers.
PassInv ==
    /\ high \in [word : Nat, flag : Nat, insn : Nat]
    /\ phase \in {"idle", "start"} => high.word = 0 /\ high.flag = 0 /\ high.insn = 0
    /\ phase \in {"pass1", "pass2", "done"} => JumpsIn(ebpfs, ebpf_len)
    /\ phase = "pass1" => i \in Nat

\* The inductive invariant of InBounds.
BoundsInv == Given /\ LoadInv /\ PassInv /\ InBounds

\* During the passes the array is as the rounds of pass 1 need it.
LEMMA PassArray ==
    ASSUME Given, LoadInv, phase # "idle", JumpsIn(ebpfs, ebpf_len)
    PROVE  Array(ebpfs)
  <1>1. ebpf_len \in Nat /\ Typed
    BY LoadedArray
  <1>2. \A n \in 0 .. ebpf_len + Safe - 1 : ebpfs[n].cls = "JMP" \/ ebpfs[n].op = "MOV" => n < ebpf_len
    BY LoadedArray
  <1>3. ASSUME NEW n \in 0 .. ebpf_len + Safe - 1 PROVE ebpfs[n].off \in Int
    <2>1. ebpfs[n] \in EbpfInsn
      BY <1>1 DEF Typed
    <2> QED
      BY <2>1 DEF EbpfInsn
  <1> QED
    BY <1>2, <1>3 DEF Array

\* The greatest of a mark and at most two more.
LEMMA Greatest ==
    ASSUME NEW m \in Nat, NEW ms, Marks(ms), NEW L \in Nat, m < L, ebpf_len \in Nat, ebpf_len <= L
    PROVE  LET top == {m} \cup ms
               x == CHOOSE q \in top : \A n \in top : n <= q
           IN  x \in Nat /\ x < L
  <1> DEFINE top == {m} \cup ms
  <1>1. \E q \in top : \A n \in top : n <= q
    <2>1. CASE ms = {}
      BY <2>1
    <2>2. ASSUME NEW x \in 0 .. ebpf_len - 1, NEW y \in 0 .. ebpf_len - 1, ms = {x, y}
          PROVE  \E q \in top : \A n \in top : n <= q
      <3>1. top = {m, x, y}
        BY <2>2
      <3>2. CASE x <= m /\ y <= m
        <4>1. \A n \in top : n <= m
          BY <3>1, <3>2
        <4> QED
          BY <4>1
      <3>3. CASE m <= x /\ y <= x
        <4>1. x \in top /\ \A n \in top : n <= x
          BY <3>1, <3>3
        <4> QED
          BY <4>1
      <3>4. CASE m <= y /\ x <= y
        <4>1. y \in top /\ \A n \in top : n <= y
          BY <3>1, <3>4
        <4> QED
          BY <4>1
      <3> QED
        BY <3>2, <3>3, <3>4
    <2> QED
      BY <2>1, <2>2 DEF Marks
  <1>2. \A q \in top : q \in Nat /\ q < L
    BY DEF Marks
  <1> HIDE DEF top
  <1>3. (CHOOSE q \in top : \A n \in top : n <= q) \in top
    BY <1>1
  <1> QED
    BY <1>2, <1>3 DEF top

\* What never changes, and what the passes leave alone.
given == <<prog, rnd, trustful>>
array == <<prog, rnd, trustful, ebpf_len, ebpfs>>

\* BoundsInv holds when nothing is read yet.
LEMMA Initially == Init => BoundsInv
  <1> SUFFICES ASSUME Init PROVE BoundsInv
    OBVIOUS
  <1>1. Given
    BY DEF Init, Given
  <1>2. phase = "idle" /\ high = [word |-> 0, flag |-> 0, insn |-> 0]
    BY DEF Init
  <1> QED
    BY <1>1, <1>2 DEF BoundsInv, LoadInv, PassInv, InBounds

\* An array of n instructions of the kernel's filter w.
LEMMA Loads ==
    ASSUME BoundsInv, phase = "idle", UNCHANGED given, high' = high,
           NEW count \in 0 .. Len(KernelEbpf(prog, rnd)),
           trustful => count = Len(KernelEbpf(prog, rnd)),
           ebpf_len' = count,
           ebpfs' = [n \in 0 .. count + Safe - 1 |->
                       IF n < count THEN KernelEbpf(prog, rnd)[n + 1] ELSE ZeroInsn],
           phase' = IF count = 0 THEN "no_filter" ELSE "start"
    PROVE  BoundsInv'
  <1>0. Len(KernelEbpf(prog, rnd)) \in Nat
    BY ProgTyped DEF BoundsInv
  <1>1. Given'
    BY DEF BoundsInv, Given, given
  <1>2. KernelEbpf(prog, rnd)' = KernelEbpf(prog, rnd)
    BY DEF given
  <1>3. LoadInv'
    BY <1>0, <1>2 DEF LoadInv, Whole, given
  <1>4. PassInv' /\ InBounds'
    BY DEF BoundsInv, PassInv, InBounds
  <1> QED
    BY <1>1, <1>3, <1>4 DEF BoundsInv

\* FromKernel preserves BoundsInv: all of the filter is in the array.
LEMMA KernelStep ==
    ASSUME BoundsInv, FromKernel
    PROVE  BoundsInv'
  <1> DEFINE L == Len(KernelEbpf(prog, rnd))
  <1>0. prog \in Seq(ClassicInsn) /\ Acceptable(prog) /\ rnd \in Word \cup {NoRnd} /\ L \in Nat
    BY ProgTyped DEF BoundsInv
  <1>1. L > 3
    <2> DEFINE e == [n \in 0 .. L - 1 |-> KernelEbpf(prog, rnd)[n + 1]]
    <2>1. \A n \in 0 .. L - 1 : e[n] = KernelEbpf(prog, rnd)[n + 1]
      OBVIOUS
    <2> HIDE DEF e
    <2> QED
      BY <1>0, <2>1, KernelFramed
  <1>2. /\ phase = "idle" /\ UNCHANGED given /\ high' = high /\ ebpf_len' = L /\ phase' = "start"
        /\ ebpfs' = [n \in 0 .. L + Safe - 1 |->
                       IF n < L THEN KernelEbpf(prog, rnd)[n + 1] ELSE ZeroInsn]
    BY DEF FromKernel, given
  <1>3. L \in 0 .. L /\ phase' = IF L = 0 THEN "no_filter" ELSE "start"
    BY <1>0, <1>1, <1>2
  <1> QED
    BY <1>2, <1>3, Loads

\* FromFile preserves BoundsInv: a file holds a first part of the filter.
LEMMA FileStep ==
    ASSUME BoundsInv, FromFile
    PROVE  BoundsInv'
  <1> DEFINE L == Len(KernelEbpf(prog, rnd))
  <1>0. L \in Nat
    BY ProgTyped DEF BoundsInv
  <1>1. PICK bytes \in 0 .. INSN_SIZE * L :
          LET count == bytes \div INSN_SIZE
          IN  /\ ebpf_len' = count
              /\ ebpfs' = [n \in 0 .. count + Safe - 1 |->
                             IF n < count THEN KernelEbpf(prog, rnd)[n + 1] ELSE ZeroInsn]
              /\ phase' = IF count = 0 THEN "no_filter" ELSE "start"
    BY DEF FromFile
  <1> DEFINE count == bytes \div INSN_SIZE
  <1>2. phase = "idle" /\ UNCHANGED given /\ high' = high /\ ~trustful
    BY DEF FromFile, given
  <1>3. count \in 0 .. L
    <2> DEFINE u == INSN_SIZE
    <2>1. u \in Nat /\ u > 0
      BY MapAssumption
    <2>2. u * L \in Nat
      BY <1>0, <2>1
    <2>3. bytes \in Nat /\ bytes <= u * L
      BY <2>2
    <2>4. count \in Int /\ bytes = u * count + (bytes % u) /\ bytes % u \in 0 .. u - 1
      BY <2>1, <2>3
    <2> HIDE DEF u, count, L
    <2>5. ASSUME count < 0 PROVE FALSE
      <3>1. u * count <= u * (-1)
        BY <2>1, <2>4, <2>5
      <3>2. u * count \in Int /\ u * (-1) = -u
        BY <2>1, <2>4
      <3> QED
        BY <2>1, <2>3, <2>4, <3>1, <3>2
    <2>6. ASSUME count >= L + 1 PROVE FALSE
      <3>1. u * count >= u * (L + 1)
        BY <2>1, <2>4, <2>6, <1>0
      <3>2. u * count \in Int /\ u * (L + 1) = u * L + u
        BY <2>1, <2>4, <1>0
      <3> QED
        BY <2>1, <2>2, <2>3, <2>4, <3>1, <3>2
    <2> QED
      BY <2>4, <2>5, <2>6, <1>0
  <1>4. /\ ebpf_len' = count
        /\ ebpfs' = [n \in 0 .. count + Safe - 1 |->
                       IF n < count THEN KernelEbpf(prog, rnd)[n + 1] ELSE ZeroInsn]
        /\ phase' = IF count = 0 THEN "no_filter" ELSE "start"
    BY <1>1
  <1> HIDE DEF count
  <1> QED
    BY <1>2, <1>3, <1>4, Loads

\* A step after the array is there, which leaves it alone.
LEMMA ArrayKept ==
    ASSUME BoundsInv, UNCHANGED array, phase # "idle", phase # "no_filter"
    PROVE  Given' /\ LoadInv'
  <1>1. Given'
    BY DEF BoundsInv, Given, array
  <1>2. KernelEbpf(prog, rnd)' = KernelEbpf(prog, rnd)
    BY DEF array
  <1> QED
    BY <1>1, <1>2 DEF BoundsInv, LoadInv, Whole, array

\* Start preserves BoundsInv: a filter that is not refused has no jump that
\* leaves it, the kernel's because it is whole and a file's because it was
\* checked.
LEMMA StartStep ==
    ASSUME BoundsInv, Start
    PROVE  BoundsInv'
  <1>1. phase = "start" /\ UNCHANGED array /\ high' = high
    BY DEF Start, Refuse, array
  <1>2. Given' /\ LoadInv'
    BY <1>1, ArrayKept
  <1>3. high \in [word : Nat, flag : Nat, insn : Nat] /\ high.word = 0 /\ high.flag = 0 /\ high.insn = 0
    BY <1>1 DEF BoundsInv, PassInv
  <1>4. CASE phase' = "failed"
    BY <1>1, <1>2, <1>3, <1>4 DEF BoundsInv, PassInv, InBounds
  <1>5. CASE phase' # "failed"
    <2>1. phase' = "pass1" /\ i' = SKIP /\ (trustful \/ JumpsInside)
      BY <1>5 DEF Start, Refuse
    <2>2. JumpsIn(ebpfs, ebpf_len)
      <3>1. CASE trustful
        <4>1. Whole
          BY <3>1, <1>1 DEF BoundsInv, LoadInv
        <4> QED
          BY <4>1, <1>1, WholeArray DEF BoundsInv
      <3> QED
        BY <2>1, <3>1, SameCheck
    <2>3. JumpsIn(ebpfs, ebpf_len)'
      BY <2>2, <1>1 DEF JumpsIn, array
    <2>4. ebpf_len \in Nat /\ ebpf_len > 0
      BY <1>1, LoadedArray DEF BoundsInv, LoadInv
    <2>5. PassInv'
      BY <1>1, <1>3, <2>1, <2>3 DEF PassInv, SKIP
    <2>6. InBounds'
      <3>1. Mapped(ebpf_len) \in Nat /\ ebpf_len + Safe <= Mapped(ebpf_len)
        BY <2>4, SafeArea
      <3>2. Mapped(ebpf_len)' = Mapped(ebpf_len)
        BY <1>1 DEF array
      <3>3. 0 <= ebpf_len \div U32BITS + 1
        BY <2>4, NextWord, BitmapAssumption
      <3> HIDE DEF Mapped
      <3> QED
        BY <1>1, <1>3, <2>4, <3>1, <3>2, <3>3 DEF InBounds, array, Safe
    <2> QED
      BY <1>2, <2>5, <2>6 DEF BoundsInv
  <1> QED
    BY <1>4, <1>5

\* Fold preserves BoundsInv: the round fits.
LEMMA FoldStep ==
    ASSUME BoundsInv, Fold
    PROVE  BoundsInv'
  <1>1. phase = "pass1" /\ i < ebpf_len /\ UNCHANGED array
    BY DEF Fold, Refuse, array
  <1>2. Given' /\ LoadInv'
    BY <1>1, ArrayKept
  <1>3. CASE phase' = "failed" /\ high' = high
    BY <1>2, <1>3 DEF BoundsInv, PassInv, InBounds
  <1>4. CASE FoldInsn.ok /\ ~(phase' = "failed" /\ high' = high)
    <2> DEFINE r == FoldInsn
               reach == {high.flag} \cup r.marks
               top == CHOOSE m \in reach : \A n \in reach : n <= m
               word == (i + 1 + r.ate) \div U32BITS
    <2>1. /\ phase' = phase /\ i' = i + r.ate + 1
          /\ high' = [word |-> MaxOf(high.word, word), flag |-> top, insn |-> MaxOf(high.insn, r.last)]
      BY <1>4 DEF Fold, Refuse
    <2>2. ebpf_len \in Nat /\ Typed /\ i \in Nat
      BY <1>1, LoadedArray DEF BoundsInv, PassInv
    <2>3. JumpsIn(ebpfs, ebpf_len) /\ high \in [word : Nat, flag : Nat, insn : Nat]
      BY <1>1 DEF BoundsInv, PassInv
    <2>4. Here
      BY <1>1, <2>2 DEF Here
    <2>5. Fits(r)
      BY <1>1, <1>4, <2>2, <2>3, <2>4, PassArray, FoldFits DEF BoundsInv
    <2> HIDE DEF r
    <2>6. r.ate \in 0 .. 6 /\ Marks(r.marks) /\ r.last \in 0 .. i + 7
          /\ (Tight(ebpfs, ebpf_len) => r.last < ebpf_len)
      BY <2>5 DEF Fits
    <2>7. /\ high.insn < (IF trustful THEN ebpf_len ELSE Mapped(ebpf_len))
          /\ high.flag < ebpf_len + Safe
          /\ high.word <= ebpf_len \div U32BITS + 1
      BY <1>1 DEF BoundsInv, InBounds
    <2>8. high.word \in Nat /\ high.flag \in Nat /\ high.insn \in Nat
      BY <2>3
    <2>9. top \in Nat /\ top < ebpf_len + Safe
      <3>1. ebpf_len + Safe \in Nat /\ ebpf_len <= ebpf_len + Safe
        BY <2>2 DEF Safe
      <3> QED
        BY <2>2, <2>6, <2>7, <2>8, <3>1, Greatest
    <2> HIDE DEF top
    <2>10. word \in Nat /\ word <= ebpf_len \div U32BITS + 1
      <3>1. i + 1 + r.ate \in Nat /\ i + 1 + r.ate <= ebpf_len + 6
        BY <1>1, <2>2, <2>6
      <3> DEFINE b == i + 1 + r.ate
      <3> HIDE DEF b
      <3>2. b \in Nat /\ b <= ebpf_len + 6
        BY <3>1 DEF b
      <3>3. b \div U32BITS <= ebpf_len \div U32BITS + 1
        BY <2>2, <3>2, NextWord
      <3>4. b \div U32BITS \in Nat
        BY <3>2, BitmapAssumption
      <3> QED
        BY <3>3, <3>4 DEF b
    <2> HIDE DEF word
    <2>11. r.last \in Nat /\ r.last < (IF trustful THEN ebpf_len ELSE Mapped(ebpf_len))
      <3>0. r.last \in Nat /\ r.last <= i + 7
        BY <2>2, <2>6
      <3>1. CASE trustful
        <4>1. Whole
          BY <1>1, <3>1 DEF BoundsInv, LoadInv
        <4>2. Tight(ebpfs, ebpf_len)
          BY <4>1, <1>1, WholeArray DEF BoundsInv
        <4> QED
          BY <3>0, <3>1, <4>2, <2>6
      <3>2. CASE ~trustful
        <4>1. Mapped(ebpf_len) \in Nat /\ ebpf_len + Safe <= Mapped(ebpf_len)
          BY <2>2, SafeArea
        <4> HIDE DEF Mapped
        <4>2. r.last < ebpf_len + 10
          BY <1>1, <2>2, <3>0
        <4> QED
          BY <3>0, <3>2, <4>1, <4>2, <2>2 DEF Safe
      <3> QED
        BY <3>1, <3>2
    <2> DEFINE limit == IF trustful THEN ebpf_len ELSE Mapped(ebpf_len)
    <2>12. limit' = limit /\ (ebpf_len \div U32BITS + 1)' = ebpf_len \div U32BITS + 1
           /\ (ebpf_len + Safe)' = ebpf_len + Safe
      BY <1>1 DEF array
    <2>13. /\ high'.word = MaxOf(high.word, word) /\ high'.flag = top
           /\ high'.insn = MaxOf(high.insn, r.last)
      BY <2>1
    <2>14. /\ MaxOf(high.word, word) \in Nat /\ MaxOf(high.word, word) <= ebpf_len \div U32BITS + 1
           /\ MaxOf(high.insn, r.last) \in Nat /\ MaxOf(high.insn, r.last) < limit
      BY <2>7, <2>8, <2>10, <2>11 DEF MaxOf
    <2>15. InBounds'
      <3> HIDE DEF limit
      <3>1. high'.insn < limit' /\ high'.flag < (ebpf_len + Safe)'
            /\ high'.word <= (ebpf_len \div U32BITS + 1)'
        BY <2>9, <2>12, <2>13, <2>14
      <3> QED
        BY <3>1 DEF InBounds, limit
    <2>16. PassInv'
      <3>1. JumpsIn(ebpfs, ebpf_len)'
        BY <1>1, <2>3 DEF JumpsIn, array
      <3>2. high' \in [word : Nat, flag : Nat, insn : Nat]
        BY <2>1, <2>9, <2>14
      <3>3. i' \in Nat
        BY <2>1, <2>2, <2>6
      <3> QED
        BY <1>1, <2>1, <3>1, <3>2, <3>3 DEF PassInv
    <2> QED
      BY <1>2, <2>15, <2>16 DEF BoundsInv
  <1> QED
    BY <1>3, <1>4 DEF Fold, Refuse

\* The later passes look at nothing beyond what pass 1 looked at.
LEMMA LaterStep ==
    ASSUME BoundsInv, FoldDone \/ Relocate \/ Compress \/ Finished \/ UNCHANGED vars
    PROVE  BoundsInv'
  <1>1. CASE FoldDone \/ Relocate \/ Compress
    <2>1. /\ phase \in {"pass1", "pass2"} /\ phase' \in {"pass2", "done"} /\ high' = high
          /\ UNCHANGED array
      BY <1>1 DEF FoldDone, Relocate, Compress, array
    <2>2. Given' /\ LoadInv'
      BY <2>1, ArrayKept
    <2>3. JumpsIn(ebpfs, ebpf_len)'
      BY <2>1 DEF JumpsIn, array, BoundsInv, PassInv
    <2>4. PassInv'
      BY <2>1, <2>3 DEF BoundsInv, PassInv
    <2>5. InBounds'
      <3>1. Mapped(ebpf_len)' = Mapped(ebpf_len)
        BY <2>1 DEF array
      <3> QED
        BY <2>1, <3>1 DEF BoundsInv, InBounds, array
    <2> QED
      BY <2>2, <2>4, <2>5 DEF BoundsInv
  <1>2. CASE Finished \/ UNCHANGED vars
    <2>1. UNCHANGED vars
      BY <1>2 DEF Finished
    <2>2. UNCHANGED <<array, phase, high, i>>
      BY <2>1 DEF vars, array
    <2>3. Given'
      BY <2>2 DEF BoundsInv, Given, array
    <2>4. LoadInv'
      <3>1. KernelEbpf(prog, rnd)' = KernelEbpf(prog, rnd)
        BY <2>2 DEF array
      <3> QED
        BY <2>2, <3>1 DEF BoundsInv, LoadInv, Whole, array
    <2>5. PassInv'
      BY <2>2 DEF BoundsInv, PassInv, JumpsIn, array
    <2>6. InBounds'
      <3>1. Mapped(ebpf_len)' = Mapped(ebpf_len)
        BY <2>2 DEF array
      <3> QED
        BY <2>2, <3>1 DEF BoundsInv, InBounds, array
    <2> QED
      BY <2>3, <2>4, <2>5, <2>6 DEF BoundsInv
  <1> QED
    BY <1>1, <1>2

\* What ebpf2cbpf was given and how far it has reached, for every filter the
\* kernel accepts, every random word and every place a file can be cut at.
THEOREM BoundsInvCorrect == Spec => []BoundsInv
  <1>1. BoundsInv /\ [Next]_vars => BoundsInv'
    BY KernelStep, FileStep, StartStep, FoldStep, LaterStep DEF Next
  <1> QED
    BY <1>1, Initially, PTL DEF Spec

\* ebpf2cbpf (bpf_trans.c) stays inside the instructions it was given, the
\* safe area behind a file's included, inside its flags and inside its bitmap,
\* for every filter, every word size of the bitmap and every cut of a file.
THEOREM InBoundsCorrect == Spec => []InBounds
  <1>1. BoundsInv => InBounds
    BY DEF BoundsInv
  <1> QED
    BY <1>1, BoundsInvCorrect, PTL

---------------------------------------------------------------------------
(* How far a round of pass 1 goes.                                       *)

\* Folding a unit of h instructions goes to the one behind it, or takes the
\* jump that stands there too.
Eats(r, h, op) ==
    /\ r.ok
    /\ \/ r.ate = h - 1
       \/ r.ate = h /\ ebpfs[i + h].cls = "JMP" /\ ebpfs[i + h].op = op

\* How far jmp_insn goes without a check for a pattern ...
LEMMA PlainEats ==
    ASSUME NEW e, NEW ate, NEW fd, NEW large_k, e[i + fd].op \in CondOps \cup {"JA", "EXIT"}
    PROVE  LET r == JmpPlain(e, ate, fd, large_k)
           IN  /\ r.ok
               /\ \/ r.ate = ate
                  \/ /\ r.ate = ate + 1
                     /\ e[i + fd + 1].cls = "JMP" /\ e[i + fd + 1].op = "JA"
  <1> DEFINE r == JmpPlain(e, ate, fd, large_k)
             p == i + fd
             op == e[p].op
             ja == p + 1
  <1>0. ASSUME NEW f, NEW a, NEW ms, NEW last
        PROVE  Folded(f, a, fd, ms, last).ok /\ Folded(f, a, fd, ms, last).ate = a
    BY DEF Folded
  <1>1. CASE op = "EXIT"
    <2>1. r = Folded(CbpfStmt("RET", "RET", "A", 0), ate, fd, {}, p)
      BY <1>1 DEF JmpPlain
    <2> QED
      BY <2>1, <1>0
  <1>2. CASE op = "JA"
    <2>1. r = Folded(CbpfStmt("JMP", "JA", "K", 1), ate, fd, {i + e[p].off + 1}, p)
      BY <1>2 DEF JmpPlain
    <2> QED
      BY <2>1, <1>0
  <1>3. CASE op \in {"JEQ", "JGT", "JGE", "JSET"}
    <2>0. op # "EXIT" /\ op # "JA"
      BY <1>3
    <2>1. \/ /\ e[ja].cls = "JMP" /\ e[ja].op = "JA"
             /\ \E f, ms : r = Folded(f, ate + 1, fd, ms, ja)
          \/ \E f, ms : r = Folded(f, ate, fd, ms, ja)
      BY <1>3, <2>0 DEF JmpPlain
    <2> HIDE DEF r, ja
    <2>2. r.ok /\ (r.ate = ate \/ (r.ate = ate + 1 /\ e[ja].cls = "JMP" /\ e[ja].op = "JA"))
      BY <2>1, <1>0
    <2> QED
      BY <2>2 DEF r, ja
  <1>4. CASE op \in {"JNE", "JLE", "JLT"}
    <2>0. op # "EXIT" /\ op # "JA" /\ op \notin {"JEQ", "JGT", "JGE", "JSET"}
      BY <1>4
    <2>1. \E f, ms : r = Folded(f, ate, fd, ms, ja)
      BY <1>4, <2>0 DEF JmpPlain
    <2> HIDE DEF r, ja
    <2>2. r.ok /\ r.ate = ate
      BY <2>1, <1>0
    <2> QED
      BY <2>2 DEF r
  <1> QED
    BY <1>1, <1>2, <1>3, <1>4 DEF CondOps

\* ... and when it looks for a return of a constant.
LEMMA RetKEats ==
    ASSUME NEW e, NEW fd
    PROVE  LET r == JmpRetK(e, fd, fd)
           IN  /\ r.ok
               /\ \/ r.ate = fd
                  \/ /\ r.ate = fd + 1
                     /\ e[i + fd + 1].cls = "JMP" /\ e[i + fd + 1].op = "EXIT"
  BY DEF JmpRetK, Folded

\* What a unit at i says of the instructions there.
LEMMA Places ==
    ASSUME Here
    PROVE  /\ (i - 1) + 1 = i /\ (i - 1) + 2 = i + 1 /\ (i - 1) + 3 = i + 2
           /\ (i - 1) + 4 = i + 3 /\ (i - 1) + 5 = i + 4
           /\ (i - 1) + 3 + 1 = i + 3 /\ (i - 1) + 3 + 2 = i + 4
           /\ (i - 1) + 5 + 1 = i + 5 /\ (i - 1) + 5 + 2 = i + 6
           /\ i + 0 = i /\ i + 0 + 1 = i + 1 /\ i + 2 + 1 = i + 3
           /\ \A h \in 0 .. 8 : i + h \in 0 .. ebpf_len + Safe - 1
  BY DEF Here, Safe

\* How far pass 1 goes on an operation ...
LEMMA AluEats ==
    ASSUME Here, Typed, NEW h \in {1, 3}, AluUnit(ebpfs, i - 1, h)
    PROVE  Eats(FoldInsn, h, "EXIT")
  <1>1. AluFd \in {0, 2} /\ AluSees(AluE, i + AluFd)
    BY AluView
  <1>2. CASE h = 1
    <2>1. /\ ebpfs[i].cls = "ALU" /\ ebpfs[i].op \in AluOps /\ ebpfs[i].dst = "A" /\ ebpfs[i].sreg = "X"
      BY <1>2, Places DEF AluUnit
    <2>2. ~Blinded /\ ~Zeroed /\ AluFd = 0
      BY <2>1 DEF Blinded, Zeroed, AluFd, AluOps
    <2>3. AluE[i + AluFd] = ebpfs[i]
      BY <1>1, <2>2, Places DEF AluSees
    <2>4. AluE[i + AluFd].cls # "JMP" /\ AluE[i + AluFd].op # "MOV"
      BY <2>1, <2>3 DEF AluOps
    <2>5. \E f : alu_insn = Folded(f, AluFd, AluFd, {}, i + AluFd)
      BY <2>4, AluCases
    <2>6. FoldInsn = alu_insn
      BY <2>1 DEF FoldInsn
    <2> QED
      BY <1>2, <2>2, <2>5, <2>6 DEF Eats, Folded
  <1>3. CASE h = 3
    <2>1. /\ HidesIn(ebpfs[i], "ALU") /\ ebpfs[i + 2].cls = "ALU" /\ ebpfs[i + 2].op \in AluOps
      BY <1>3, Places DEF AluUnit
    <2>2. Blinded /\ AluFd = 2
      BY <2>1 DEF Blinded, AluFd, HidesIn
    <2>3. AluE[i + AluFd].cls = "ALU" /\ AluE[i + AluFd].op \in AluOps
      BY <1>1, <2>1, <2>2 DEF AluSees
    <2>4. AluE[i + AluFd].cls # "JMP" /\ AluE[i + AluFd].op # "MOV"
      BY <2>3 DEF AluOps
    <2>5. \E f : alu_insn = Folded(f, AluFd, AluFd, {}, i + AluFd)
      BY <2>4, AluCases
    <2>6. FoldInsn = alu_insn
      BY <2>1 DEF FoldInsn, HidesIn
    <2> QED
      BY <1>3, <2>2, <2>5, <2>6 DEF Eats, Folded
  <1> QED
    BY <1>2, <1>3

\* A move of a constant as alu_insn sees it.
LEMMA MovSeen ==
    ASSUME Here, Typed, NEW dst \in {"A", "X", "TMP"}, NEW h \in {1, 3}, MovUnit(ebpfs, i - 1, dst, h)
    PROVE  /\ FoldInsn = alu_insn /\ AluFd = h - 1
           /\ AluE[i + AluFd].cls = "ALU" /\ AluE[i + AluFd].op = "MOV"
           /\ AluE[i + AluFd].dst = dst /\ AluE[i + AluFd].sreg = "A"
           /\ AluE[i + AluFd + 1] = ebpfs[i + h]
  <1>1. AluFd \in {0, 2} /\ AluSees(AluE, i + AluFd)
    BY AluView
  <1>2. CASE h = 1
    <2>1. Moves(ebpfs[i], dst)
      BY <1>2, Places DEF MovUnit
    <2>2. ~Blinded /\ AluFd = 0 /\ FoldInsn = alu_insn
      BY <2>1 DEF Blinded, AluFd, Moves, FoldInsn
    <2>3. AluSees(AluE, i)
      BY <1>1, <2>2, Places
    <2>4. /\ AluE[i].cls = "ALU" /\ AluE[i].op = "MOV" /\ AluE[i].dst = dst /\ AluE[i].sreg = "A"
      BY <2>1, <2>2, <2>3 DEF AluSees, Zeroed, Moves
    <2>5. i + 1 \in 0 .. ebpf_len + Safe - 1 /\ i + 1 # i
      BY Places DEF Here
    <2>6. AluE[i + 1] = ebpfs[i + 1]
      BY <2>3, <2>5 DEF AluSees
    <2> QED
      BY <1>2, <2>2, <2>4, <2>6, Places
  <1>3. CASE h = 3
    <2>1. /\ HidesIn(ebpfs[i], "ALU") /\ ebpfs[i + 2].cls = "ALU" /\ ebpfs[i + 2].op = "MOV"
          /\ ebpfs[i + 2].dst = dst
      BY <1>3, Places DEF MovUnit
    <2>2. Blinded /\ AluFd = 2 /\ FoldInsn = alu_insn
      BY <2>1 DEF Blinded, AluFd, HidesIn, FoldInsn
    <2>3. AluSees(AluE, i + 2)
      BY <1>1, <2>2
    <2>4. /\ AluE[i + 2].cls = "ALU" /\ AluE[i + 2].op = "MOV" /\ AluE[i + 2].dst = dst
          /\ AluE[i + 2].sreg = "A"
      BY <2>1, <2>2, <2>3 DEF AluSees
    <2>5. i + 3 \in 0 .. ebpf_len + Safe - 1 /\ i + 3 # i + 2
      BY Places DEF Here
    <2>6. AluE[i + 3] = ebpfs[i + 3]
      BY <2>3, <2>5 DEF AluSees
    <2> QED
      BY <1>3, <2>2, <2>4, <2>6, Places
  <1> QED
    BY <1>2, <1>3

\* ... on a move to A ...
LEMMA MovAEats ==
    ASSUME Here, Typed, NEW h \in {1, 3}, MovUnit(ebpfs, i - 1, "A", h)
    PROVE  Eats(FoldInsn, h, "EXIT")
  <1> DEFINE e == AluE
             fd == AluFd
             insn == AluE[i + AluFd]
  <1>1. /\ FoldInsn = alu_insn /\ fd = h - 1
        /\ insn.cls = "ALU" /\ insn.op = "MOV" /\ insn.dst = "A" /\ insn.sreg = "A"
        /\ e[i + fd + 1] = ebpfs[i + h]
    BY MovSeen
  <1>2. insn.cls # "JMP" /\ ~Tax(insn) /\ ~(insn.dst = "X") /\ ~(insn.dst = "TMP")
    BY <1>1 DEF Tax
  <1>3. alu_insn = JmpRetK(e, fd, fd)
    <2> HIDE DEF e, fd, insn
    <2> QED
      BY <1>1, <1>2, AluCases DEF e, fd, insn
  <1> HIDE DEF e, fd, insn
  <1>4. /\ JmpRetK(e, fd, fd).ok
        /\ \/ JmpRetK(e, fd, fd).ate = fd
           \/ /\ JmpRetK(e, fd, fd).ate = fd + 1
              /\ e[i + fd + 1].cls = "JMP" /\ e[i + fd + 1].op = "EXIT"
    BY RetKEats
  <1>5. fd + 1 = h
    BY <1>1
  <1> QED
    BY <1>1, <1>3, <1>4, <1>5 DEF Eats

\* ... on a move to X ...
LEMMA MovXEats ==
    ASSUME Here, Typed, NEW h \in {1, 3}, MovUnit(ebpfs, i - 1, "X", h)
    PROVE  Eats(FoldInsn, h, "EXIT")
  <1> DEFINE e == AluE
             fd == AluFd
             insn == AluE[i + AluFd]
  <1>1. /\ FoldInsn = alu_insn /\ fd = h - 1
        /\ insn.cls = "ALU" /\ insn.op = "MOV" /\ insn.dst = "X" /\ insn.sreg = "A"
    BY MovSeen
  <1>2. insn.cls # "JMP" /\ ~Tax(insn) /\ insn.sreg # "X" /\ insn.dst # "A" /\ insn.dst # "TMP"
    BY <1>1 DEF Tax
  <1>3. \E f : alu_insn = Folded(f, fd, fd, {}, i + fd)
    <2> HIDE DEF e, fd, insn
    <2> QED
      BY <1>1, <1>2, AluCases DEF e, fd, insn
  <1> HIDE DEF e, fd, insn
  <1> QED
    BY <1>1, <1>3 DEF Eats, Folded

\* ... on a comparison with a large constant ...
LEMMA LargeEats ==
    ASSUME Here, Typed, NEW t \in {1, 3}, MovUnit(ebpfs, i - 1, "TMP", t), CondUnit(ebpfs, i - 1 + t, 1)
    PROVE  Eats(FoldInsn, t + 1, "JA")
  <1> DEFINE e == AluE
             fd == AluFd
             insn == AluE[i + AluFd]
  <1>1. /\ FoldInsn = alu_insn /\ fd = t - 1
        /\ insn.cls = "ALU" /\ insn.op = "MOV" /\ insn.dst = "TMP" /\ insn.sreg = "A"
        /\ e[i + fd + 1] = ebpfs[i + t]
    BY MovSeen
  <1>2. insn.cls # "JMP" /\ ~Tax(insn) /\ insn.sreg # "X" /\ insn.dst # "A" /\ insn.dst # "X"
    BY <1>1 DEF Tax
  <1>3. alu_insn = JmpLargeK(e, fd, fd)
    <2> HIDE DEF e, fd, insn
    <2> QED
      BY <1>1, <1>2, AluCases DEF e, fd, insn
  <1>v. AluSees(e, i + fd)
    BY AluView
  <1> HIDE DEF e, fd, insn
  <1>4. (i - 1 + t) + 1 = i + t /\ fd + 1 = t /\ i + fd + 1 = i + t /\ i + (fd + 1) = i + t
        /\ i + (fd + 1) + 1 = i + (t + 1)
    BY <1>1 DEF Here
  <1>5. ebpfs[i + t].cls = "JMP" /\ ebpfs[i + t].op \in CondOps
    BY <1>4 DEF CondUnit
  <1>6. alu_insn = JmpPlain(e, fd + 1, fd + 1, e[i + fd].imm)
    BY <1>1, <1>3, <1>4, <1>5 DEF JmpLargeK
  <1>7. e[i + (fd + 1)].op \in CondOps \cup {"JA", "EXIT"}
    BY <1>1, <1>4, <1>5
  <1>8. /\ alu_insn.ok
        /\ \/ alu_insn.ate = fd + 1
           \/ /\ alu_insn.ate = fd + 1 + 1
              /\ e[i + (fd + 1) + 1].cls = "JMP" /\ e[i + (fd + 1) + 1].op = "JA"
    BY <1>6, <1>7, PlainEats
  <1>9. e[i + (t + 1)] = ebpfs[i + (t + 1)]
    <2>1. t + 1 \in 0 .. 8 /\ i + (t + 1) # i + fd
      BY <1>1 DEF Here
    <2>2. i + (t + 1) \in 0 .. ebpf_len + Safe - 1
      BY <2>1, Places
    <2> QED
      BY <2>1, <2>2, <1>v DEF AluSees
  <1>10. fd + 1 = t + 1 - 1 /\ fd + 1 + 1 = t + 1
    BY <1>1
  <1> QED
    BY <1>1, <1>4, <1>8, <1>9, <1>10 DEF Eats

\* ... on a conditional jump ...
LEMMA CondEats ==
    ASSUME Here, Typed, NEW h \in {1, 3}, CondUnit(ebpfs, i - 1, h)
    PROVE  Eats(FoldInsn, h, "JA")
  <1>1. CASE h = 1
    <2>1. ebpfs[i].cls = "JMP" /\ ebpfs[i].op \in CondOps
      BY <1>1, Places DEF CondUnit
    <2>2. FoldInsn = JmpPlain(ebpfs, 0, 0, 0)
      BY <2>1 DEF FoldInsn
    <2>3. ebpfs[i + 0].op \in CondOps \cup {"JA", "EXIT"}
      BY <2>1, Places
    <2>4. /\ FoldInsn.ok
          /\ \/ FoldInsn.ate = 0
             \/ FoldInsn.ate = 0 + 1 /\ ebpfs[i + 0 + 1].cls = "JMP" /\ ebpfs[i + 0 + 1].op = "JA"
      BY <2>2, <2>3, PlainEats
    <2> QED
      BY <1>1, <2>4, Places DEF Eats
  <1>2. CASE h = 3
    <2>1. HidesIn(ebpfs[i], "ALU64") /\ ebpfs[i + 2].cls = "JMP" /\ ebpfs[i + 2].op \in CondOps
      BY <1>2, Places DEF CondUnit
    <2>2. Blinded /\ AluFd = 2 /\ FoldInsn = alu_insn
      BY <2>1 DEF Blinded, AluFd, HidesIn, FoldInsn
    <2>3. AluSees(AluE, i + 2)
      BY <2>2, AluView
    <2>4. AluE[i + 2].cls = "JMP" /\ AluE[i + 2].op \in CondOps \cup {"JA", "EXIT"}
      BY <2>1, <2>2, <2>3 DEF AluSees
    <2>5. alu_insn = JmpPlain(AluE, 2, 2, 0)
      BY <2>2, <2>4, AluCases
    <2>6. /\ alu_insn.ok
          /\ \/ alu_insn.ate = 2
             \/ alu_insn.ate = 2 + 1 /\ AluE[i + 2 + 1].cls = "JMP" /\ AluE[i + 2 + 1].op = "JA"
      BY <2>4, <2>5, PlainEats
    <2>7. AluE[i + 3] = ebpfs[i + 3]
      <3>1. i + 3 \in 0 .. ebpf_len + Safe - 1 /\ i + 3 # i + 2
        BY Places DEF Here
      <3> QED
        BY <2>3, <3>1 DEF AluSees
    <2> QED
      BY <1>2, <2>2, <2>6, <2>7, Places DEF Eats
  <1> QED
    BY <1>1, <1>2

\* ... on a division, with its guard as it is or blinded ...
LEMMA DivEats ==
    ASSUME Here, Typed, NEW h, DivUnit(ebpfs, i - 1, h)
    PROVE  Eats(FoldInsn, h, "EXIT")
  <1>1. /\ ebpfs[i].cls = "ALU" /\ ebpfs[i].op = "MOV" /\ ebpfs[i].src = "X"
        /\ ebpfs[i].dst = "X" /\ ebpfs[i].sreg = "X"
    BY Places DEF DivUnit
  <1>2. ~Blinded /\ ~Zeroed /\ AluFd = 0 /\ AluE = ebpfs /\ FoldInsn = alu_insn
    BY <1>1 DEF Blinded, Zeroed, AluFd, AluE, FoldInsn
  <1> DEFINE insn == AluE[i + AluFd]
  <1>3. insn = ebpfs[i]
    BY <1>2, Places
  <1>4. insn.cls # "JMP" /\ insn.op = "MOV" /\ ~Tax(insn) /\ insn.dst = "X" /\ insn.sreg = "X"
    BY <1>1, <1>3 DEF Tax
  <1>5. alu_insn = JmpDivX(ebpfs, 0, 0)
    <2>1. insn.dst # "A" /\ insn.sreg # "A"
      BY <1>4
    <2> HIDE DEF insn
    <2> QED
      BY <1>2, <1>4, <2>1, AluCases DEF insn
  <1>6. CASE h = 5
    <2>1. /\ ebpfs[i + 1].cls = "JMP" /\ ebpfs[i + 1].op = "JNE" /\ ebpfs[i + 1].src = "K"
          /\ ebpfs[i + 2].cls = "ALU" /\ ebpfs[i + 2].op = "XOR" /\ ebpfs[i + 2].src = "X"
          /\ ebpfs[i + 3].cls = "JMP" /\ ebpfs[i + 3].op = "EXIT"
      BY <1>6, Places DEF DivUnit, GuardUnit
    <2>2. JmpDivX(ebpfs, 0, 0) = Folded(CbpfStmt("ALU", "DIV", "X", 0), 0 + 4, 0, {}, i + 0 + 2 + 1)
      <3>1. i + 0 + 1 = i + 1 /\ i + 0 + 2 = i + 2 /\ i + 0 + 2 + 1 = i + 3
        BY DEF Here
      <3> QED
        BY <2>1, <3>1 DEF JmpDivX
    <2> QED
      BY <1>2, <1>5, <1>6, <2>2 DEF Eats, Folded
  <1>7. CASE h = 7
    <2>1. /\ ebpfs[i + 1].cls = "ALU64" /\ ebpfs[i + 1].op = "MOV" /\ ebpfs[i + 1].src = "K"
          /\ ebpfs[i + 2].cls = "ALU64" /\ ebpfs[i + 2].op = "XOR" /\ ebpfs[i + 2].src = "K"
          /\ ebpfs[i + 3].cls = "JMP" /\ ebpfs[i + 3].op = "JNE" /\ ebpfs[i + 3].src = "X"
          /\ ebpfs[i + 3].sreg = "AX"
      BY <1>7, Places DEF DivUnit, HidesIn, XorsIn
    <2>2. /\ ebpfs[i + 4].cls = "ALU" /\ ebpfs[i + 4].op = "XOR" /\ ebpfs[i + 4].src = "X"
          /\ ebpfs[i + 5].cls = "JMP" /\ ebpfs[i + 5].op = "EXIT"
      BY <1>7, Places DEF DivUnit, GuardUnit
    <2>3. JmpDivX(ebpfs, 0, 0) = Folded(CbpfStmt("ALU", "DIV", "X", 0), 0 + 6, 0, {}, i + 0 + 4 + 1)
      <3>1. /\ i + 0 + 1 = i + 1 /\ i + 0 + 2 = i + 2 /\ i + 0 + 3 = i + 3
            /\ i + 0 + 4 = i + 4 /\ i + 0 + 4 + 1 = i + 5
        BY DEF Here
      <3> QED
        BY <2>1, <2>2, <3>1 DEF JmpDivX
    <2> QED
      BY <1>2, <1>5, <1>7, <2>3 DEF Eats, Folded
  <1> QED
    BY <1>6, <1>7 DEF DivUnit

\* ... on a load, a store or a move between A and X ...
LEMMA PlainUnitEats ==
    ASSUME Here, Typed, MemUnit(ebpfs, i - 1) \/ TaxUnit(ebpfs, i - 1)
    PROVE  Eats(FoldInsn, 1, "EXIT")
  <1>1. CASE MemUnit(ebpfs, i - 1)
    <2>1. ebpfs[i].cls = "STX" \/ (ebpfs[i].cls = "LDX" /\ ebpfs[i].sreg \in {"CTX", "FP"})
      BY <1>1, Places DEF MemUnit
    <2>2. FoldInsn = MemInsn
      BY <2>1 DEF FoldInsn
    <2>3. MemInsn.ok /\ MemInsn.ate = 0
      BY <2>1 DEF MemInsn, Folded
    <2> QED
      BY <2>2, <2>3 DEF Eats
  <1>2. CASE TaxUnit(ebpfs, i - 1)
    <2>1. /\ ebpfs[i].cls = "ALU64" /\ ebpfs[i].op = "MOV" /\ ebpfs[i].src = "X"
          /\ ebpfs[i].dst # "AX" /\ "X" \in {ebpfs[i].sreg, ebpfs[i].dst}
      BY <1>2, Places DEF TaxUnit
    <2>2. ~Blinded /\ ~Zeroed /\ AluFd = 0 /\ AluE = ebpfs /\ FoldInsn = alu_insn
      BY <2>1 DEF Blinded, Zeroed, AluFd, AluE, FoldInsn
    <2>3. AluE[i + AluFd] = ebpfs[i]
      BY <2>2, Places
    <2>4. Tax(ebpfs[i]) /\ ebpfs[i].cls # "JMP"
      BY <2>1 DEF Tax
    <2>5. \E f : alu_insn = Folded(f, AluFd, AluFd, {}, i + AluFd)
      BY <2>1, <2>3, <2>4, AluCases
    <2> QED
      BY <2>2, <2>5 DEF Eats, Folded
  <1> QED
    BY <1>1, <1>2

\* ... and on a jump or a return that stands alone.
LEMMA JumpEats ==
    ASSUME Here, ebpfs[i].cls = "JMP", ebpfs[i].op \in {"JA", "EXIT"}
    PROVE  FoldInsn.ok /\ FoldInsn.ate = 0
  <1>1. FoldInsn = JmpPlain(ebpfs, 0, 0, 0)
    BY DEF FoldInsn
  <1>2. i + 0 = i
    BY Places
  <1> QED
    BY <1>1, <1>2 DEF JmpPlain, Folded

---------------------------------------------------------------------------
(* Pass 1 never loses its place in a whole filter.                       *)

\* The instruction at n is a jump or a return.
Leaves(e, n) == e[n].cls = "JMP" /\ e[n].op \in {"JA", "EXIT"}

\* A body that starts with one is nothing else.
LEMMA SingleJump ==
    ASSUME NEW cls, NEW g, NEW o \in Int, NEW m, Shape(cls, g, o, m), Leaves(g, o + 1)
    PROVE  m = 1
  <1>1. ASSUME NEW dst, NEW h \in {1, 3}, MovUnit(g, o, dst, h) PROVE FALSE
    BY <1>1 DEF MovUnit, Moves, HidesIn, Leaves
  <1>2. ASSUME NEW h \in {1, 3}, CondUnit(g, o, h) PROVE FALSE
    BY <1>2 DEF CondUnit, HidesIn, Leaves, CondOps
  <1>3. ASSUME NEW h \in {1, 3}, AluUnit(g, o, h) PROVE FALSE
    BY <1>3 DEF AluUnit, HidesIn, Leaves
  <1>4. ASSUME NEW h, DivUnit(g, o, h) PROVE FALSE
    BY <1>4 DEF DivUnit, Leaves
  <1>5. CASE StraightBody(g, o, m)
    BY <1>1, <1>3, <1>4, <1>5 DEF StraightBody
  <1>6. CASE BranchBody(g, o, m)
    BY <1>1, <1>2, <1>6 DEF BranchBody
  <1>7. CASE ReturnBody(g, o, m)
    BY <1>1, <1>7 DEF ReturnBody
  <1> QED
    BY <1>5, <1>6, <1>7 DEF Shape

\* Pass 1 stands where the kernel put an instruction of the filter, or at the
\* jump that ends what it made of one.
Aligned(n) ==
    \/ \E c \in 1 .. Len(prog) + 1 : n = At[c]
    \/ \E c \in 1 .. Len(prog) : n = At[c + 1] - 1 /\ Leaves(ebpfs, n)

\* What is known of the array while a whole filter is converted.
Ready ==
    /\ Typed /\ ebpf_len \in Nat /\ Len(prog) \in Nat
    /\ Framed(prog, At, ebpfs, ebpf_len)
    /\ \A n \in 0 .. ebpf_len + Safe - 1 : ebpfs[n].cls = "JMP" => n < ebpf_len

\* Where a body of the filter stands.
LEMMA Ground ==
    ASSUME Ready, NEW c \in 1 .. Len(prog)
    PROVE  /\ At[c] \in Nat /\ At[c + 1] \in Nat /\ At[c] < At[c + 1] /\ At[c + 1] <= ebpf_len
           /\ Shape(prog[c].cls, ebpfs, At[c] - 1, At[c + 1] - At[c])
           /\ c + 1 \in 1 .. Len(prog) + 1
           /\ At[Len(prog) + 1] = ebpf_len
  <1> DEFINE N == Len(prog)
             at == At
  <1>1. /\ Rising(at, N) /\ at[N + 1] = ebpf_len /\ N \in Nat
        /\ Shape(prog[c].cls, ebpfs, at[c] - 1, at[c + 1] - at[c])
    BY DEF Ready, Framed
  <1>2. c \in 1 .. N + 1 /\ c + 1 \in 1 .. N + 1 /\ N + 1 \in c + 1 .. N + 1
    BY <1>1
  <1> HIDE DEF N, at
  <1>3. at[c] \in Nat /\ at[c + 1] \in Nat
    BY <1>1, <1>2 DEF Rising
  <1>4. at[c] < at[c + 1]
    BY <1>1 DEF Rising, N
  <1>5. at[c + 1] <= at[N + 1]
    BY <1>1, <1>2, RisingOrder
  <1> QED
    BY <1>1, <1>2, <1>3, <1>4, <1>5 DEF N, at

\* A jump that starts a body is all of it.
LEMMA AfterJump ==
    ASSUME Ready, NEW d \in 1 .. Len(prog) + 1, Leaves(ebpfs, At[d])
    PROVE  d \in 1 .. Len(prog) /\ At[d] + 1 = At[d + 1]
  <1>0. Len(prog) \in Nat /\ ebpf_len \in Nat
    BY DEF Ready
  <1>1. d # Len(prog) + 1
    <2> SUFFICES ASSUME d = Len(prog) + 1 PROVE FALSE
      OBVIOUS
    <2>1. At[d] = ebpf_len
      BY DEF Ready, Framed
    <2>2. ebpf_len \in 0 .. ebpf_len + Safe - 1 /\ ~(ebpf_len < ebpf_len)
      BY <1>0 DEF Safe
    <2> QED
      BY <2>1, <2>2 DEF Ready, Leaves
  <1>2. d \in 1 .. Len(prog)
    BY <1>0, <1>1
  <1> DEFINE a == At[d]
             b == At[d + 1]
  <1>3. a \in Nat /\ b \in Nat /\ Shape(prog[d].cls, ebpfs, a - 1, b - a)
    BY <1>2, Ground
  <1>4. Leaves(ebpfs, a)
    OBVIOUS
  <1> HIDE DEF a, b
  <1>5. (a - 1) + 1 = a /\ a - 1 \in Int
    BY <1>3
  <1>6. b - a = 1
    BY <1>3, <1>4, <1>5, SingleJump
  <1>7. a + 1 = b
    BY <1>3, <1>6
  <1> QED
    BY <1>2, <1>7 DEF a, b

\* A unit that ends where the body does.
LEMMA WholeUnit ==
    ASSUME Ready, NEW c \in 1 .. Len(prog), i = At[c], NEW r, NEW h \in 1 .. 7,
           At[c + 1] - At[c] = h, NEW op \in {"JA", "EXIT"}, Eats(r, h, op)
    PROVE  Aligned(i + r.ate + 1)
  <1> DEFINE b == At[c + 1]
  <1>1. i \in Nat /\ b \in Nat /\ b - i = h /\ c + 1 \in 1 .. Len(prog) + 1
    BY Ground
  <1>x. \A d \in 1 .. Len(prog) + 1 : Aligned(At[d])
    BY DEF Aligned
  <1>2. CASE r.ate = h - 1
    <2>1. i + r.ate + 1 = b
      BY <1>1, <1>2
    <2> QED
      BY <2>1, <1>1, <1>x
  <1>3. CASE r.ate = h /\ ebpfs[i + h].cls = "JMP" /\ ebpfs[i + h].op = op
    <2>1. i + h = b /\ i + r.ate + 1 = b + 1
      BY <1>1, <1>3
    <2>2. Leaves(ebpfs, b)
      BY <1>3, <2>1 DEF Leaves
    <2>3. c + 1 \in 1 .. Len(prog) /\ b + 1 = At[c + 1 + 1]
      BY <1>1, <2>2, AfterJump
    <2>4. c + 1 + 1 \in 1 .. Len(prog) + 1
      BY <2>3 DEF Ready
    <2> QED
      BY <2>1, <2>3, <2>4, <1>x
  <1> QED
    BY <1>2, <1>3 DEF Eats

\* A unit behind which the body has one jump more.
LEMMA UnitAndJump ==
    ASSUME Ready, NEW c \in 1 .. Len(prog), i = At[c], NEW r, NEW h \in 1 .. 7,
           At[c + 1] - At[c] = h + 1, Leaves(ebpfs, i + h), NEW op, Eats(r, h, op)
    PROVE  Aligned(i + r.ate + 1)
  <1> DEFINE b == At[c + 1]
  <1>1. i \in Nat /\ b \in Nat /\ b - i = h + 1 /\ c + 1 \in 1 .. Len(prog) + 1
    BY Ground
  <1>2. CASE r.ate = h - 1
    <2>1. i + r.ate + 1 = i + h
      BY <1>1, <1>2
    <2>2. i + h = b - 1
      <3> HIDE DEF b
      <3> QED
        BY <1>1
    <2> QED
      BY <2>1, <2>2 DEF Aligned
  <1>3. CASE r.ate = h
    <2>1. i + r.ate + 1 = b
      BY <1>1, <1>3
    <2> QED
      BY <2>1, <1>1 DEF Aligned
  <1> QED
    BY <1>2, <1>3 DEF Eats

\* A body is folded, and what is left of it is its last jump.
LEMMA BodyFolds ==
    ASSUME Ready, NEW c \in 1 .. Len(prog), i = At[c]
    PROVE  FoldInsn.ok /\ Aligned(i + FoldInsn.ate + 1)
  <1> DEFINE r == FoldInsn
             m == At[c + 1] - At[c]
  <1> SUFFICES r.ok /\ Aligned(i + r.ate + 1)
    OBVIOUS
  <1>1. /\ i \in Nat /\ At[c + 1] \in Nat /\ i < At[c + 1] /\ At[c + 1] <= ebpf_len
        /\ Shape(prog[c].cls, ebpfs, i - 1, m) /\ c + 1 \in 1 .. Len(prog) + 1
    BY Ground
  <1>2. Here /\ Typed
    BY <1>1 DEF Ready, Here
  <1>3. ASSUME NEW h \in 1 .. 7, m = h, NEW op \in {"JA", "EXIT"}, Eats(r, h, op)
        PROVE  r.ok /\ Aligned(i + r.ate + 1)
    <2> HIDE DEF r
    <2> QED
      BY <1>3, WholeUnit DEF Eats
  <1>4. ASSUME NEW h \in 1 .. 7, m = h + 1, Leaves(ebpfs, i + h), NEW op, Eats(r, h, op)
        PROVE  r.ok /\ Aligned(i + r.ate + 1)
    <2> HIDE DEF r
    <2> QED
      BY <1>4, UnitAndJump DEF Eats
  <1>5. ASSUME m = 1, Leaves(ebpfs, i) PROVE r.ok /\ Aligned(i + r.ate + 1)
    <2>1. r.ok /\ r.ate = 0
      BY <1>2, <1>5, JumpEats DEF Leaves
    <2>2. i + 1 = At[c + 1]
      BY <1>1, <1>5
    <2>3. i + r.ate + 1 = At[c + 1]
      <3> HIDE DEF r
      <3> QED
        BY <1>1, <2>1, <2>2
    <2> QED
      BY <1>1, <2>1, <2>3 DEF Aligned
  <1> HIDE DEF m, r
  <1>6. ASSUME NEW h \in {1, 3} PROVE h \in 1 .. 7 /\ h + 1 \in 1 .. 7
    OBVIOUS
  <1>7. ASSUME NEW h \in {1, 3} PROVE (i - 1 + h) + 1 = i + h /\ (i - 1 + h + 1) + 1 = i + (h + 1)
    BY <1>1
  <1>8. (i - 1) + 1 = i
    BY <1>1
  <1>9. CASE StraightBody(ebpfs, i - 1, m)
    <2>1. CASE m = 1 /\ (MemUnit(ebpfs, i - 1) \/ TaxUnit(ebpfs, i - 1))
      <3>1. Eats(r, 1, "EXIT")
        BY <2>1, <1>2, PlainUnitEats DEF r
      <3> QED
        BY <2>1, <3>1, <1>3
    <2>2. CASE m \in {1, 3} /\ MovUnit(ebpfs, i - 1, "A", m)
      BY <2>2, <1>2, <1>3, <1>6, MovAEats DEF r
    <2>3. CASE m \in {1, 3} /\ MovUnit(ebpfs, i - 1, "X", m)
      BY <2>3, <1>2, <1>3, <1>6, MovXEats DEF r
    <2>4. CASE m \in {1, 3} /\ AluUnit(ebpfs, i - 1, m)
      BY <2>4, <1>2, <1>3, <1>6, AluEats DEF r
    <2>5. CASE DivUnit(ebpfs, i - 1, m)
      <3>1. m \in 1 .. 7
        BY <2>5 DEF DivUnit
      <3> QED
        BY <2>5, <3>1, <1>2, <1>3, DivEats DEF r
    <2> QED
      BY <1>9, <2>1, <2>2, <2>3, <2>4, <2>5 DEF StraightBody
  <1>10. CASE BranchBody(ebpfs, i - 1, m)
    <2>1. CASE m = 1 /\ JaUnit(ebpfs, i - 1)
      BY <2>1, <1>5, <1>8 DEF JaUnit, Leaves
    <2>2. ASSUME NEW h \in {1, 3}, CondUnit(ebpfs, i - 1, h),
                 m = h \/ (m = h + 1 /\ JaUnit(ebpfs, i - 1 + h))
          PROVE  r.ok /\ Aligned(i + r.ate + 1)
      <3>1. Eats(r, h, "JA")
        BY <2>2, <1>2, CondEats DEF r
      <3>2. CASE m = h
        BY <3>1, <3>2, <1>3, <1>6
      <3>3. CASE m = h + 1 /\ JaUnit(ebpfs, i - 1 + h)
        <4>1. Leaves(ebpfs, i + h)
          BY <3>3, <1>7 DEF JaUnit, Leaves
        <4> QED
          BY <3>1, <3>3, <4>1, <1>4, <1>6
      <3> QED
        BY <2>2, <3>2, <3>3
    <2>3. ASSUME NEW t \in {1, 3}, MovUnit(ebpfs, i - 1, "TMP", t), CondUnit(ebpfs, i - 1 + t, 1),
                 m = t + 1 \/ (m = t + 2 /\ JaUnit(ebpfs, i - 1 + t + 1))
          PROVE  r.ok /\ Aligned(i + r.ate + 1)
      <3>1. Eats(r, t + 1, "JA")
        BY <2>3, <1>2, LargeEats DEF r
      <3>2. CASE m = t + 1
        BY <3>1, <3>2, <1>3, <1>6
      <3>3. CASE m = t + 2 /\ JaUnit(ebpfs, i - 1 + t + 1)
        <4>1. Leaves(ebpfs, i + (t + 1))
          BY <3>3, <1>7 DEF JaUnit, Leaves
        <4>2. m = (t + 1) + 1
          BY <3>3
        <4> QED
          BY <3>1, <4>1, <4>2, <1>4, <1>6
      <3> QED
        BY <2>3, <3>2, <3>3
    <2> QED
      BY <1>10, <2>1, <2>2, <2>3 DEF BranchBody
  <1>11. CASE ReturnBody(ebpfs, i - 1, m)
    <2>1. CASE m = 1 /\ ExitUnit(ebpfs, i - 1)
      BY <2>1, <1>5, <1>8 DEF ExitUnit, Leaves
    <2>2. ASSUME NEW h \in {1, 3}, MovUnit(ebpfs, i - 1, "A", h), m = h + 1,
                 ExitUnit(ebpfs, i - 1 + h)
          PROVE  r.ok /\ Aligned(i + r.ate + 1)
      <3>1. Eats(r, h, "EXIT")
        BY <2>2, <1>2, MovAEats DEF r
      <3>2. Leaves(ebpfs, i + h)
        BY <2>2, <1>7 DEF ExitUnit, Leaves
      <3> QED
        BY <2>2, <3>1, <3>2, <1>4, <1>6
    <2> QED
      BY <1>11, <2>1, <2>2 DEF ReturnBody
  <1> QED
    BY <1>1, <1>9, <1>10, <1>11 DEF Shape

\* From an aligned place a round of pass 1 goes on to an aligned place.
LEMMA AlignedFolds ==
    ASSUME Ready, i \in Nat, i < ebpf_len, Aligned(i)
    PROVE  FoldInsn.ok /\ Aligned(i + FoldInsn.ate + 1)
  <1>0. Here /\ Len(prog) \in Nat
    BY DEF Ready, Here
  <1>1. ASSUME NEW c \in 1 .. Len(prog) + 1, i = At[c]
        PROVE  FoldInsn.ok /\ Aligned(i + FoldInsn.ate + 1)
    <2>1. c # Len(prog) + 1
      BY <1>1 DEF Ready, Framed
    <2>2. c \in 1 .. Len(prog)
      BY <1>0, <2>1
    <2> QED
      BY <1>1, <2>2, BodyFolds
  <1>2. ASSUME NEW c \in 1 .. Len(prog), i = At[c + 1] - 1, Leaves(ebpfs, i)
        PROVE  FoldInsn.ok /\ Aligned(i + FoldInsn.ate + 1)
    <2>1. FoldInsn.ok /\ FoldInsn.ate = 0
      BY <1>0, <1>2, JumpEats DEF Leaves
    <2> DEFINE b == At[c + 1]
               q == FoldInsn.ate
    <2>2. b \in Nat /\ i = b - 1 /\ c + 1 \in 1 .. Len(prog) + 1
      BY <1>2, Ground
    <2>3. i + q + 1 = b
      <3> HIDE DEF b, q
      <3> QED
        BY <2>1, <2>2 DEF q
    <2>4. Aligned(b)
      BY <2>2 DEF Aligned
    <2> QED
      BY <2>1, <2>3, <2>4
  <1> QED
    BY <1>1, <1>2 DEF Aligned

\* The inductive invariant of NeverRefused, with BoundsInv.
RefusedInv ==
    /\ NeverRefused
    /\ phase = "pass1" /\ Whole => Aligned(i)

\* A whole filter is Ready.
LEMMA WholeReady ==
    ASSUME BoundsInv, phase # "idle", Whole
    PROVE  Ready
  <1>1. Given /\ LoadInv
    BY DEF BoundsInv
  <1>2. /\ ebpf_len \in Nat /\ Typed
        /\ \A n \in 0 .. ebpf_len + Safe - 1 : ebpfs[n].cls = "JMP" \/ ebpfs[n].op = "MOV" => n < ebpf_len
    BY <1>1, LoadedArray
  <1>3. Framed(prog, At, ebpfs, ebpf_len)
    BY <1>1, WholeArray
  <1>4. Len(prog) \in Nat
    BY <1>1, ProgTyped
  <1> QED
    BY <1>2, <1>3, <1>4 DEF Ready

\* The checks before pass 1 let a whole filter through, and pass 1 starts at
\* its first instruction.
LEMMA WholeStarts ==
    ASSUME BoundsInv, phase = "start", Whole
    PROVE  JumpsInside /\ Prologue /\ Aligned(SKIP)
  <1>1. Given /\ LoadInv
    BY DEF BoundsInv
  <1>2. Begins(ebpfs) /\ Framed(prog, At, ebpfs, ebpf_len) /\ JumpsIn(ebpfs, ebpf_len)
    BY <1>1, WholeArray
  <1>3. Prologue
    BY <1>2 DEF Begins, Prologue
  <1>4. At[1] = 3 /\ 1 \in 1 .. Len(prog) + 1
    BY <1>1, <1>2, ProgTyped DEF Framed
  <1> QED
    BY <1>2, <1>3, <1>4, SameCheck DEF Aligned, SKIP

\* A step that leaves the array alone leaves what i is aligned to alone.
LEMMA SameAlignment ==
    ASSUME UNCHANGED array
    PROVE  (Whole' <=> Whole) /\ (Aligned(i') => Aligned(i)')
  <1> DEFINE n == i'
  <1>1. UNCHANGED <<prog, rnd, ebpf_len, ebpfs>>
    BY DEF array
  <1>2. At' = At /\ KernelEbpf(prog, rnd)' = KernelEbpf(prog, rnd)
    BY <1>1 DEF At
  <1>3. Whole' <=> Whole
    BY <1>1, <1>2 DEF Whole
  <1>4. ASSUME Aligned(n) PROVE Aligned(i)'
    <2> HIDE DEF n
    <2> QED
      BY <1>1, <1>2, <1>4 DEF Aligned, Leaves, n
  <1> QED
    BY <1>3, <1>4

\* Every action preserves RefusedInv: the checks of Start pass, and a round of
\* Fold is at a body or at the jump that ends one.
LEMMA RefusedStep ==
    ASSUME BoundsInv, RefusedInv, [Next]_vars
    PROVE  RefusedInv'
  <1>1. CASE FromKernel \/ FromFile
    <2>1. phase' \in {"start", "no_filter"}
      BY <1>1 DEF FromKernel, FromFile
    <2> QED
      BY <2>1 DEF RefusedInv, NeverRefused
  <1>2. CASE Start
    <2>1. phase = "start" /\ UNCHANGED array
      BY <1>2 DEF Start, Refuse, array
    <2>2. Whole' <=> Whole
      BY <2>1, SameAlignment
    <2>3. CASE Whole
      <3>1. JumpsInside /\ Prologue /\ Aligned(SKIP)
        BY <2>1, <2>3, WholeStarts
      <3>2. phase' = "pass1" /\ i' = SKIP
        BY <1>2, <3>1 DEF Start
      <3>3. Aligned(i')
        BY <3>1, <3>2
      <3>4. Aligned(i)'
        BY <3>3, <2>1, SameAlignment
      <3> QED
        BY <3>2, <3>4 DEF RefusedInv, NeverRefused
    <2>4. CASE ~Whole
      BY <2>2, <2>4 DEF RefusedInv, NeverRefused
    <2> QED
      BY <2>3, <2>4
  <1>3. CASE Fold
    <2>1. phase = "pass1" /\ i < ebpf_len /\ UNCHANGED array
      BY <1>3 DEF Fold, Refuse, array
    <2>2. Whole' <=> Whole
      BY <2>1, SameAlignment
    <2>3. CASE Whole
      <3>1. i \in Nat /\ Aligned(i)
        BY <2>1, <2>3 DEF BoundsInv, PassInv, RefusedInv
      <3>2. Ready
        BY <2>1, <2>3, WholeReady
      <3>3. FoldInsn.ok /\ Aligned(i + FoldInsn.ate + 1)
        BY <2>1, <3>1, <3>2, AlignedFolds
      <3>4. phase' = "pass1" /\ i' = i + FoldInsn.ate + 1
        BY <1>3, <2>1, <3>3 DEF Fold
      <3>5. Aligned(i')
        BY <3>3, <3>4
      <3>6. Aligned(i)'
        BY <3>5, <2>1, SameAlignment
      <3> QED
        BY <3>4, <3>6 DEF RefusedInv, NeverRefused
    <2>4. CASE ~Whole
      BY <2>2, <2>4 DEF RefusedInv, NeverRefused
    <2> QED
      BY <2>3, <2>4
  <1>4. CASE FoldDone \/ Relocate \/ Compress
    <2>1. phase' \in {"pass2", "done"}
      BY <1>4 DEF FoldDone, Relocate, Compress
    <2> QED
      BY <2>1 DEF RefusedInv, NeverRefused
  <1>5. CASE Finished \/ UNCHANGED vars
    <2>1. UNCHANGED vars
      BY <1>5 DEF Finished
    <2>2. UNCHANGED array /\ phase' = phase /\ i' = i
      BY <2>1 DEF vars, array
    <2>3. Whole' <=> Whole
      BY <2>2, SameAlignment
    <2>4. Aligned(i) => Aligned(i)'
      BY <2>2, SameAlignment
    <2> QED
      BY <2>2, <2>3, <2>4 DEF RefusedInv, NeverRefused
  <1> QED
    BY <1>1, <1>2, <1>3, <1>4, <1>5 DEF Next

\* No ASSERT_JMP of ebpf2cbpf (bpf_trans.c) is reached on a filter the kernel
\* made of a filter it accepts, whether its constants are blinded or not: pass
\* 1 knows every pattern bpf_convert_filter and bpf_jit_blind_insn produce, in
\* every order, and never loses its place among them.
THEOREM NeverRefusedCorrect == Spec => []NeverRefused
  <1>1. Init => RefusedInv
    BY DEF Init, RefusedInv, NeverRefused
  <1>2. BoundsInv /\ RefusedInv /\ [Next]_vars => RefusedInv'
    BY RefusedStep
  <1>3. RefusedInv => NeverRefused
    BY DEF RefusedInv
  <1> QED
    BY <1>1, <1>2, <1>3, BoundsInvCorrect, PTL DEF Spec
===========================================================================
