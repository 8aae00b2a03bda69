-------------------------- MODULE CapturePidProof --------------------------
(***************************************************************************)
(* capture -p puts the chunks of filters together right and misses none    *)
(* unsaid, for every length of filters and chunks, every number of filters *)
(* and every size of the ring.                                             *)
(***************************************************************************)
EXTENDS CapturePid, TLAPS, FunctionTheorems, FiniteSetTheorems, SequenceTheorems

Walking == {"trigger", "count", "loop", "chunk", "next", "end"}
ChunkStates == {"CHUNK_DONE", "PROG_DONE", "PROG_ABORTED"}
EndStates == {"ALL_DONE", "TRUNCATED", "TASK_ABORTED", "PID_NOT_FOUND"}

\* The filter a chunk is of, and the offsets it goes from and to.
FilterOf(e) == e.insns[1][1]
StartOf(e) == e.insns[1][2] - 1
EndOf(e) == StartOf(e) + Len(e.insns)

IsChunk(e) == e.status \in ChunkStates

Events == [status : ChunkStates \cup EndStates, flen_total : Nat, filter_count : Nat,
           insns : Seq(Nat \X Nat)]
Programs == [flen : Nat, insns : Seq(Nat \X Nat)]

\* An event of dump_chunk, for a chain of these lengths walked from its filter top.
ChunkFits(e, lengths, top) ==
    /\ Len(e.insns) >= 1
    /\ FilterOf(e) \in 1 .. top
    /\ StartOf(e) \in Nat
    /\ \A k \in 1 .. Len(e.insns) : e.insns[k] = <<FilterOf(e), StartOf(e) + k>>
    /\ e.flen_total = lengths[FilterOf(e)]
    /\ e.filter_count >= top
    /\ EndOf(e) <= e.flen_total
    /\ e.status = "CHUNK_DONE" => EndOf(e) < e.flen_total
    /\ e.status = "PROG_DONE" => EndOf(e) = e.flen_total

\* Chunk d was sent some time after chunk e, and at once after it.
After(e, d) ==
    \/ FilterOf(e) > FilterOf(d)
    \/ FilterOf(e) = FilterOf(d) /\ e.status = "CHUNK_DONE"
Joins(e, d) ==
    IF e.status = "CHUNK_DONE"
      THEN FilterOf(d) = FilterOf(e) /\ StartOf(d) = EndOf(e)
      ELSE StartOf(d) = 0

\* What a ring holds: chunks, newest filter first, each filter from its first
\* chunk on and without a gap, and perhaps the last event at the end.
RingFits(ring, lengths, top) ==
    /\ \A a \in 1 .. Len(ring) :
         /\ IsChunk(ring[a]) => ChunkFits(ring[a], lengths, top)
         /\ ~IsChunk(ring[a]) => a = Len(ring) /\ ring[a].filter_count = 0
    /\ \A a, b \in 1 .. Len(ring) :
         IsChunk(ring[a]) /\ IsChunk(ring[b]) =>
           /\ a < b => After(ring[a], ring[b])
           /\ b = a + 1 => Joins(ring[a], ring[b])

TypeInv ==
    /\ chain \in Seq(Lengths)
    /\ first \in 0 .. Len(chain) /\ filter \in 0 .. first
    /\ filter_count \in Nat
    /\ prog_index \in 0 .. MaxProgs
    /\ chunk_index \in Nat
    /\ pc \in Walking \cup {"poll"} \cup Ended
    /\ event_status \in EndStates
    /\ ctx_status \in {"CHUNK_DONE", "ALL_DONE", "TRUNCATED", "TASK_ABORTED"}
    /\ scmp_events \in Seq(Events) /\ Len(scmp_events) <= RingCap
    /\ insn_offset \in Nat
    /\ printed \in Seq(Programs)
    /\ warned \in BOOLEAN
    /\ skipped \subseteq 1 .. first

RingInv ==
    /\ RingFits(scmp_events, chain, first)
    /\ pc \in Walking => \A a \in 1 .. Len(scmp_events) : IsChunk(scmp_events[a])

LastIsOpen ==
    Len(scmp_events) > 0 /\ scmp_events[Len(scmp_events)].status = "CHUNK_DONE"

\* Where the walk is, and what that says of the ring.  Once the ring is full
\* nothing is sent any more.
WalkInv ==
    /\ pc \in {"loop", "chunk", "next"} => filter_count >= first
    /\ pc = "chunk" => chunk_index * ChunkLen < chain[filter]
    /\ pc \in {"chunk", "next"} => filter >= 1 /\ prog_index < MaxProgs
    /\ pc \in {"trigger", "count"} => scmp_events = <<>> /\ skipped = {}
    /\ pc = "trigger" => first = 0
    /\ pc = "count" => filter = first
    /\ pc \in {"trigger", "count", "loop", "chunk", "next"} => event_status = "ALL_DONE"
    /\ pc \in Walking /\ Len(scmp_events) < RingCap =>
         /\ LastIsOpen =>
              /\ pc = "chunk" /\ FilterOf(scmp_events[Len(scmp_events)]) = filter
              /\ EndOf(scmp_events[Len(scmp_events)]) = chunk_index * ChunkLen
         /\ pc = "chunk" /\ ~LastIsOpen => chunk_index = 0
    /\ \A a \in 1 .. Len(scmp_events) :
         /\ pc = "loop" => FilterOf(scmp_events[a]) > filter
         /\ pc = "next" => FilterOf(scmp_events[a]) >= filter
         /\ pc = "chunk" =>
              \/ FilterOf(scmp_events[a]) > filter
              \/ FilterOf(scmp_events[a]) = filter /\ scmp_events[a].status = "CHUNK_DONE"

\* The part of filter f that is in the buffer.
Part(f, n) == [k \in 1 .. n |-> <<f, k>>]

\* What on_pid_events has of the chunks is what comes before the next one.
BufferInv ==
    /\ pc \in Walking => insn_offset = 0
    /\ insn_offset = 0 => ebpf_insns = None
    /\ Len(scmp_events) > 0 /\ IsChunk(scmp_events[1]) =>
         /\ StartOf(scmp_events[1]) = insn_offset
         /\ insn_offset > 0 =>
              ebpf_insns = [size |-> chain[FilterOf(scmp_events[1])],
                            data |-> Part(FilterOf(scmp_events[1]), insn_offset)]

PrintedFilter(j) == printed[j].insns[1][1]

\* What was printed, and what is left in the ring after it.
PrintedInv ==
    /\ pc \in Walking => printed = <<>>
    /\ \A j \in 1 .. Len(printed) :
         /\ PrintedFilter(j) \in 1 .. first
         /\ printed[j] = [flen |-> chain[PrintedFilter(j)],
                          insns |-> Part(PrintedFilter(j), chain[PrintedFilter(j)])]
         /\ \A a \in 1 .. Len(scmp_events) :
              IsChunk(scmp_events[a]) => PrintedFilter(j) > FilterOf(scmp_events[a])
         /\ \A k \in 1 .. j - 1 : PrintedFilter(k) > PrintedFilter(j)

CountInv ==
    /\ pc \in Walking => count_printed = None
    /\ count_printed = None => printed = <<>>
    /\ count_printed # None =>
         /\ count_printed \in Nat
         /\ count_printed >= first \/ (printed = <<>> /\ scmp_events = <<>>)

\* The filters that could not be read are none of those that were sent.
SkippedInv ==
    /\ \A s \in skipped : /\ pc \in {"loop", "chunk"} => s > filter
                          /\ pc = "next" => s >= filter
    /\ \A a \in 1 .. Len(scmp_events) :
         IsChunk(scmp_events[a]) => FilterOf(scmp_events[a]) \notin skipped
    /\ \A j \in 1 .. Len(printed) : PrintedFilter(j) \notin skipped

\* Filter f is not missing: it was skipped, sent or printed, or a warning given.
Handled(f) ==
    \/ f \in skipped
    \/ \E a \in 1 .. Len(scmp_events) :
         scmp_events[a].status \in {"PROG_DONE", "PROG_ABORTED"} /\ FilterOf(scmp_events[a]) = f
    \/ \E j \in 1 .. Len(printed) : PrintedFilter(j) = f
    \/ warned

CoverInv ==
    /\ pc \in Walking => ctx_status = "CHUNK_DONE"
    /\ pc \in {"loop", "chunk"} /\ Len(scmp_events) < RingCap =>
         \A f \in filter + 1 .. first : Handled(f)
    /\ pc = "next" /\ Len(scmp_events) < RingCap => \A f \in filter .. first : Handled(f)
    /\ pc = "end" /\ event_status = "ALL_DONE" /\ filter = 0 /\ Len(scmp_events) < RingCap =>
         \A f \in 1 .. first : Handled(f)
    /\ ctx_status = "ALL_DONE" => \A f \in 1 .. first : Handled(f)
    /\ Len(scmp_events) > 0 /\ scmp_events[Len(scmp_events)].status = "ALL_DONE" =>
         \A f \in 1 .. first : Handled(f)
    /\ ctx_status \in {"TRUNCATED", "TASK_ABORTED"} => warned
    /\ pc = "done" => ctx_status # "CHUNK_DONE" /\ scmp_events = <<>>

Inv ==
    /\ TypeInv /\ RingInv /\ WalkInv /\ BufferInv
    /\ PrintedInv /\ CountInv /\ SkippedInv /\ CoverInv

-----------------------------------------------------------------------------
\* bpf_loop makes as many rounds as there are chunks.
LEMMA LoopTimes ==
    ASSUME NEW n \in Nat, NEW c \in Nat
    PROVE  c < (n + ChunkLen - 1) \div ChunkLen <=> c * ChunkLen < n
<1> DEFINE C == ChunkLen
           q == (n + C - 1) \div C
<1>1. C \in Nat /\ C > 0
  BY CapturePidAssumption DEF CapturePidAssumption
<1>2. q \in Int /\ q * C <= n + C - 1 /\ n + C - 1 < (q + 1) * C
  BY <1>1, SMT
<1> HIDE DEF C, q
<1>3. ASSUME c < q PROVE c * C < n
  <2>1. (c + 1) * C <= q * C
    BY <1>1, <1>2, <1>3, SMT
  <2> QED
    BY <1>1, <1>2, <2>1, SMT
<1>4. ASSUME ~(c < q) PROVE ~(c * C < n)
  <2>1. (q + 1) * C <= (c + 1) * C
    BY <1>1, <1>2, <1>4, SMT
  <2> QED
    BY <1>1, <1>2, <2>1, SMT
<1> QED
  BY <1>3, <1>4 DEF q, C

LEMMA PartType ==
    ASSUME NEW f \in Nat, NEW n \in Nat
    PROVE  Part(f, n) \in Seq(Nat \X Nat) /\ Len(Part(f, n)) = n
<1>1. \A k \in 1 .. n : <<f, k>> \in Nat \X Nat
  OBVIOUS
<1>2. Part(f, n) \in Seq(Nat \X Nat)
  BY <1>1, IsASeq DEF Part
<1>3. DOMAIN Part(f, n) = 1 .. Len(Part(f, n)) /\ Len(Part(f, n)) \in Nat
  BY <1>2, LenProperties
<1>4. DOMAIN Part(f, n) = 1 .. n
  BY DEF Part
<1>5. \A m \in Nat : 1 .. m = 1 .. n => m = n
  OBVIOUS
<1> QED
  BY <1>2, <1>3, <1>4, <1>5

\* The ring loses its oldest event.
LEMMA TailFits ==
    ASSUME NEW ring \in Seq(Events), ring # <<>>, NEW lengths, NEW top,
           RingFits(ring, lengths, top)
    PROVE  RingFits(Tail(ring), lengths, top)
<1>1. Len(ring) \in Nat \ {0}
  BY EmptySeq
<1>2. /\ Len(Tail(ring)) = Len(ring) - 1
      /\ \A i \in 1 .. Len(Tail(ring)) : Tail(ring)[i] = ring[i + 1]
  BY HeadTailProperties
<1> DEFINE T == Tail(ring)
<1> HIDE DEF T
<1>3. /\ Len(T) = Len(ring) - 1
      /\ \A i \in 1 .. Len(T) : i + 1 \in 1 .. Len(ring) /\ T[i] = ring[i + 1]
  BY <1>1, <1>2 DEF T
<1>4. ASSUME NEW a \in 1 .. Len(T)
      PROVE  /\ IsChunk(T[a]) => ChunkFits(T[a], lengths, top)
             /\ ~IsChunk(T[a]) => a = Len(T) /\ T[a].filter_count = 0
  <2>1. a + 1 \in 1 .. Len(ring) /\ T[a] = ring[a + 1]
    BY <1>3
  <2>2. /\ IsChunk(ring[a + 1]) => ChunkFits(ring[a + 1], lengths, top)
        /\ ~IsChunk(ring[a + 1]) => a + 1 = Len(ring) /\ ring[a + 1].filter_count = 0
    BY <2>1 DEF RingFits
  <2> QED
    BY <1>1, <1>3, <2>1, <2>2
<1>5. ASSUME NEW a \in 1 .. Len(T), NEW b \in 1 .. Len(T), IsChunk(T[a]), IsChunk(T[b])
      PROVE  /\ a < b => After(T[a], T[b])
             /\ b = a + 1 => Joins(T[a], T[b])
  <2>1. /\ a + 1 \in 1 .. Len(ring) /\ T[a] = ring[a + 1]
        /\ b + 1 \in 1 .. Len(ring) /\ T[b] = ring[b + 1]
    BY <1>3
  <2>2. /\ a + 1 < b + 1 => After(ring[a + 1], ring[b + 1])
        /\ b + 1 = (a + 1) + 1 => Joins(ring[a + 1], ring[b + 1])
    BY <1>5, <2>1 DEF RingFits
  <2> QED
    BY <2>1, <2>2
<1>6. RingFits(T, lengths, top)
  BY <1>4, <1>5 DEF RingFits
<1> QED
  BY <1>6 DEF T

\* An event is sent after those that are in the ring.
LEMMA AppendFits ==
    ASSUME NEW ring \in Seq(Events), NEW e \in Events, NEW lengths, NEW top,
           RingFits(ring, lengths, top),
           \A a \in 1 .. Len(ring) : IsChunk(ring[a]),
           IsChunk(e) => /\ ChunkFits(e, lengths, top)
                         /\ \A a \in 1 .. Len(ring) : After(ring[a], e)
                         /\ Len(ring) > 0 => Joins(ring[Len(ring)], e),
           ~IsChunk(e) => e.filter_count = 0
    PROVE  RingFits(Append(ring, e), lengths, top)
<1> DEFINE R == Append(ring, e)
           n == Len(ring)
<1>1. /\ Len(R) = n + 1 /\ n \in Nat
      /\ \A i \in 1 .. n : R[i] = ring[i]
      /\ R[n + 1] = e
  BY AppendProperties, LenProperties
<1> HIDE DEF R
<1>2. ASSUME NEW a \in 1 .. Len(R)
      PROVE  /\ IsChunk(R[a]) => ChunkFits(R[a], lengths, top)
             /\ ~IsChunk(R[a]) => a = Len(R) /\ R[a].filter_count = 0
  <2>1. CASE a = n + 1
    BY <1>1, <2>1
  <2>2. CASE a # n + 1
    <3>1. a \in 1 .. n /\ R[a] = ring[a]
      BY <1>1, <2>2
    <3> QED
      BY <3>1 DEF RingFits
  <2> QED
    BY <2>1, <2>2
<1>3. ASSUME NEW a \in 1 .. Len(R), NEW b \in 1 .. Len(R), IsChunk(R[a]), IsChunk(R[b])
      PROVE  /\ a < b => After(R[a], R[b])
             /\ b = a + 1 => Joins(R[a], R[b])
  <2>1. CASE b = n + 1
    <3>1. a < b \/ b = a + 1 => a \in 1 .. n /\ R[a] = ring[a]
      BY <1>1, <2>1
    <3>2. b = a + 1 => a = n /\ n > 0
      BY <1>1, <2>1
    <3>3. R[b] = e /\ IsChunk(e)
      BY <1>1, <1>3, <2>1
    <3> QED
      BY <3>1, <3>2, <3>3
  <2>2. CASE b # n + 1
    <3>1. b \in 1 .. n /\ R[b] = ring[b]
      BY <1>1, <2>2
    <3>2. a < b \/ b = a + 1 => a \in 1 .. n /\ R[a] = ring[a]
      BY <1>1, <3>1
    <3> QED
      BY <1>3, <3>1, <3>2 DEF RingFits
  <2> QED
    BY <2>1, <2>2
<1>4. RingFits(R, lengths, top)
  BY <1>2, <1>3 DEF RingFits
<1> QED
  BY <1>4 DEF R

\* The target's new filters are not those the walk goes through.
LEMMA LongerFits ==
    ASSUME NEW ring, NEW lengths, NEW longer, NEW top,
           RingFits(ring, lengths, top),
           \A f \in 1 .. top : longer[f] = lengths[f]
    PROVE  RingFits(ring, longer, top)
<1>1. ASSUME NEW a \in 1 .. Len(ring), IsChunk(ring[a])
      PROVE  ChunkFits(ring[a], longer, top)
  <2>1. ChunkFits(ring[a], lengths, top)
    BY <1>1 DEF RingFits
  <2> QED
    BY <2>1 DEF ChunkFits
<1> QED
  BY <1>1 DEF RingFits

-----------------------------------------------------------------------------
\* While the program walks nothing has been read from the ring.
LEMMA WalkFrame ==
    ASSUME Inv, pc \in Walking, pc' \in Walking, UNCHANGED <<chain, scmp_events, first>>,
           UNCHANGED userVars
    PROVE  RingInv' /\ BufferInv' /\ PrintedInv' /\ CountInv'
<1>1. RingInv'
  BY DEF Inv, RingInv
<1>2. BufferInv'
  BY DEF Inv, BufferInv, userVars
<1>3. PrintedInv'
  BY DEF Inv, PrintedInv, PrintedFilter, userVars
<1>4. CountInv'
  BY DEF Inv, CountInv, userVars
<1> QED
  BY <1>1, <1>2, <1>3, <1>4

LEMMA ChainLength ==
    ASSUME TypeInv
    PROVE  /\ Len(chain) \in Nat
           /\ \A f \in 1 .. Len(chain) : chain[f] \in Nat /\ chain[f] > 0
<1>1. chain \in Seq(Lengths)
  BY DEF TypeInv
<1>2. Len(chain) \in Nat /\ \A f \in 1 .. Len(chain) : chain[f] \in Lengths
  BY <1>1, LenProperties, ElementOfSeq
<1>3. Lengths \subseteq Nat \ {0}
  BY CapturePidAssumption DEF CapturePidAssumption
<1>4. ASSUME NEW f \in 1 .. Len(chain) PROVE chain[f] \in Nat /\ chain[f] > 0
  <2>1. chain[f] \in Nat \ {0}
    BY <1>2, <1>3
  <2> QED
    BY <2>1
<1> QED
  BY <1>2, <1>4

LEMMA RingLength ==
    ASSUME TypeInv
    PROVE  /\ Len(scmp_events) \in Nat
           /\ \A a \in 1 .. Len(scmp_events) : scmp_events[a] \in Events
           /\ scmp_events # <<>> => Len(scmp_events) > 0
           /\ scmp_events = <<>> => Len(scmp_events) = 0
<1>1. scmp_events \in Seq(Events)
  BY DEF TypeInv
<1> QED
  BY <1>1, LenProperties, ElementOfSeq, EmptySeq

LEMMA InitInv == Init => Inv
<1> SUFFICES ASSUME Init PROVE Inv
  OBVIOUS
<1>1. chain \in Seq(Lengths) /\ Len(chain) \in Nat
  <2>1. PICK n \in 0 .. MaxFilters : chain \in [1 .. n -> Lengths]
    BY DEF Init
  <2>2. n \in Nat
    BY <2>1, CapturePidAssumption DEF CapturePidAssumption
  <2>3. chain \in Seq(Lengths)
    BY <2>1, <2>2, SeqDef
  <2> QED
    BY <2>3, LenProperties
<1>2. /\ <<>> \in Seq(Events) /\ Len(<<>>) = 0 /\ <<>> \in Seq(Programs)
  BY EmptySeq
<1>3. RingCap \in Nat /\ MaxProgs \in Nat
  BY CapturePidAssumption DEF CapturePidAssumption
<1>4. TypeInv
  <2>1. scmp_events \in Seq(Events) /\ Len(scmp_events) = 0 /\ printed \in Seq(Programs)
    BY <1>2 DEF Init
  <2> HIDE DEF Events, Programs
  <2>2. pc = "trigger" /\ pc \in Walking /\ event_status \in EndStates
    BY DEF Init, Walking, EndStates
  <2>3. /\ filter = 0 /\ filter_count = 0 /\ prog_index = 0 /\ chunk_index = 0 /\ first = 0
        /\ ctx_status = "CHUNK_DONE" /\ insn_offset = 0 /\ skipped = {}
    BY DEF Init
  <2>4. warned \in BOOLEAN
    BY DEF Init
  <2> QED
    BY <1>1, <1>3, <2>1, <2>2, <2>3, <2>4 DEF TypeInv
<1>5. RingInv
  BY <1>2 DEF Init, RingInv, RingFits
<1>6. WalkInv
  BY <1>2 DEF Init, WalkInv, LastIsOpen
<1>7. BufferInv /\ PrintedInv /\ CountInv /\ SkippedInv
  BY <1>2 DEF Init, BufferInv, PrintedInv, CountInv, SkippedInv
<1>8. CoverInv
  BY <1>2 DEF Init, CoverInv
<1> QED
  BY <1>4, <1>5, <1>6, <1>7, <1>8 DEF Inv

LEMMA LoadInv ==
    ASSUME Inv, Load
    PROVE  Inv'
<1>1. TypeInv /\ Len(chain) \in Nat
  BY ChainLength DEF Inv
<1>2. PICK n \in Lengths : chain' = Append(chain, n)
  BY DEF Load
<1>3. chain' \in Seq(Lengths) /\ Len(chain') = Len(chain) + 1
      /\ \A f \in 1 .. Len(chain) : chain'[f] = chain[f]
  BY <1>1, <1>2, AppendProperties DEF TypeInv
<1>4. /\ first \in 0 .. Len(chain) /\ filter \in 0 .. first
      /\ \A f \in 1 .. first : chain'[f] = chain[f]
  BY <1>1, <1>3, SMTT(30) DEF TypeInv
<1>5. UNCHANGED <<pc, filter, filter_count, prog_index, chunk_index, event_status, scmp_events,
                  first, skipped, insn_offset, count_printed, ebpf_insns, ctx_status, printed, warned>>
  BY DEF Load, bpfVars, userVars
<1>6. TypeInv'
  BY <1>1, <1>3, <1>4, <1>5 DEF TypeInv
<1>7. RingInv'
  <2>1. RingFits(scmp_events, chain, first)
    BY DEF Inv, RingInv
  <2>2. RingFits(scmp_events, chain', first)
    BY <1>4, <2>1, LongerFits
  <2> QED
    BY <1>5, <2>2 DEF Inv, RingInv
<1>8. WalkInv'
  <2>1. pc = "chunk" => filter \in 1 .. first
    BY <1>4 DEF Inv, WalkInv
  <2> QED
    BY <1>4, <1>5, <2>1 DEF Inv, WalkInv, LastIsOpen
<1>9. BufferInv'
  <2>1. Len(scmp_events) > 0 /\ IsChunk(scmp_events[1]) => FilterOf(scmp_events[1]) \in 1 .. first
    BY <1>1, RingLength DEF Inv, RingInv, RingFits, ChunkFits
  <2> QED
    BY <1>4, <1>5, <2>1 DEF Inv, BufferInv
<1>10. PrintedInv'
  BY <1>4, <1>5 DEF Inv, PrintedInv, PrintedFilter
<1>11. CountInv'
  BY <1>5 DEF Inv, CountInv
<1>12. SkippedInv'
  BY <1>5 DEF Inv, SkippedInv, PrintedFilter
<1>13. CoverInv'
  BY <1>5 DEF Inv, CoverInv, Handled, PrintedFilter
<1> QED
  BY <1>6, <1>7, <1>8, <1>9, <1>10, <1>11, <1>12, <1>13 DEF Inv

LEMMA ReadFilterInv ==
    ASSUME Inv, ReadFilter
    PROVE  Inv'
<1>1. TypeInv /\ Len(chain) \in Nat
  BY ChainLength DEF Inv
<1>2. scmp_events = <<>> /\ skipped = {} /\ Len(scmp_events) = 0
  BY <1>1, RingLength DEF Inv, WalkInv, ReadFilter
<1>3. UNCHANGED <<chain, filter_count, prog_index, chunk_index, event_status, scmp_events,
                  skipped, insn_offset, count_printed, ebpf_insns, ctx_status, printed, warned>>
  BY DEF ReadFilter, targetVars, userVars
<1>4. pc = "trigger" /\ pc' = "count" /\ filter' = Len(chain) /\ first' = Len(chain)
  BY DEF ReadFilter
<1>5. TypeInv'
  BY <1>1, <1>2, <1>3, <1>4 DEF TypeInv, Walking
<1>6. RingInv'
  BY <1>2, <1>3, <1>4 DEF RingInv, RingFits
<1>7. WalkInv'
  BY <1>2, <1>3, <1>4 DEF Inv, WalkInv, LastIsOpen
<1>8. BufferInv'
  BY <1>2, <1>3, <1>4 DEF Inv, BufferInv, Walking
<1>9. printed = <<>> /\ Len(printed) = 0 /\ count_printed = None
  BY <1>4, EmptySeq DEF Inv, PrintedInv, CountInv, Walking
<1>10. PrintedInv' /\ CountInv' /\ SkippedInv'
  BY <1>2, <1>3, <1>4, <1>9 DEF PrintedInv, CountInv, SkippedInv
<1>11. CoverInv'
  BY <1>2, <1>3, <1>4 DEF Inv, CoverInv, Walking
<1> QED
  BY <1>5, <1>6, <1>7, <1>8, <1>10, <1>11 DEF Inv

LEMMA ReadTaskFailsInv ==
    ASSUME Inv, NEW s \in {"PID_NOT_FOUND", "TASK_ABORTED"}, ReadTaskFails(s)
    PROVE  Inv'
<1>1. TypeInv
  BY DEF Inv
<1>2. /\ pc \in {"trigger", "count"} /\ pc' = "end" /\ event_status' = s
      /\ UNCHANGED <<chain, filter, filter_count, prog_index, chunk_index, scmp_events, first, skipped>>
      /\ UNCHANGED userVars
  BY DEF ReadTaskFails, targetVars
<1>3. scmp_events = <<>> /\ skipped = {} /\ Len(scmp_events) = 0
  BY <1>1, <1>2, RingLength DEF Inv, WalkInv
<1>4. RingInv' /\ BufferInv' /\ PrintedInv' /\ CountInv'
  BY <1>2, WalkFrame DEF Walking
<1>5. TypeInv'
  BY <1>1, <1>2 DEF TypeInv, Walking, EndStates, userVars
<1>6. WalkInv'
  BY <1>2, <1>3 DEF WalkInv, LastIsOpen
<1>7. printed' = <<>> /\ Len(printed') = 0
  BY <1>2, EmptySeq DEF Inv, PrintedInv, Walking, userVars
<1>8. SkippedInv'
  BY <1>2, <1>3, <1>7 DEF SkippedInv
<1>9. CoverInv'
  BY <1>2, <1>3 DEF Inv, CoverInv, Walking, userVars
<1> QED
  BY <1>4, <1>5, <1>6, <1>8, <1>9 DEF Inv

LEMMA ReadCountInv ==
    ASSUME Inv, ReadCount
    PROVE  Inv'
<1>1. TypeInv /\ Len(chain) \in Nat
  BY ChainLength DEF Inv
<1>2. /\ pc = "count" /\ pc' = "loop" /\ filter_count' = Len(chain)
      /\ UNCHANGED <<chain, filter, event_status, prog_index, chunk_index, scmp_events, first, skipped>>
      /\ UNCHANGED userVars
  BY DEF ReadCount, targetVars
<1>3. scmp_events = <<>> /\ skipped = {} /\ Len(scmp_events) = 0
  BY <1>1, <1>2, RingLength DEF Inv, WalkInv
<1>4. RingInv' /\ BufferInv' /\ PrintedInv' /\ CountInv'
  BY <1>2, WalkFrame DEF Walking
<1>5. TypeInv'
  BY <1>1, <1>2 DEF TypeInv, Walking, userVars
<1>6. WalkInv'
  BY <1>1, <1>2, <1>3 DEF Inv, TypeInv, WalkInv, LastIsOpen
<1>7. printed' = <<>> /\ Len(printed') = 0
  BY <1>2, EmptySeq DEF Inv, PrintedInv, Walking, userVars
<1>8. SkippedInv'
  BY <1>2, <1>3, <1>7 DEF SkippedInv
<1>9. filter' = first' /\ first' \in Nat
  BY <1>1, <1>2 DEF Inv, WalkInv, TypeInv
<1>10. CoverInv'
  BY <1>2, <1>3, <1>9 DEF Inv, CoverInv, Walking, userVars
<1> QED
  BY <1>4, <1>5, <1>6, <1>8, <1>10 DEF Inv

LEMMA ReadProgInv ==
    ASSUME Inv, ReadProg
    PROVE  Inv'
<1>1. TypeInv /\ Len(scmp_events) \in Nat
  BY RingLength DEF Inv
<1>2. /\ pc = "loop" /\ pc' \in {"chunk", "next", "end"}
      /\ UNCHANGED <<chain, filter, filter_count, event_status, prog_index, scmp_events, first>>
      /\ UNCHANGED userVars
  BY DEF ReadProg, targetVars
<1>3. RingInv' /\ BufferInv' /\ PrintedInv' /\ CountInv'
  BY <1>2, WalkFrame DEF Walking
<1>4. printed' = <<>> /\ Len(printed') = 0 /\ printed = <<>> /\ Len(printed) = 0
  BY <1>2, EmptySeq DEF Inv, PrintedInv, Walking, userVars
<1>5. /\ filter \in Nat /\ first \in Nat /\ filter <= first /\ prog_index \in Nat
      /\ MaxProgs \in Nat /\ ChunkLen \in Nat
  BY <1>1, CapturePidAssumption DEF TypeInv, CapturePidAssumption
<1>6. Len(scmp_events) < RingCap => ~LastIsOpen
  BY <1>2 DEF Inv, WalkInv, Walking
<1>7. \A a \in 1 .. Len(scmp_events) : FilterOf(scmp_events[a]) > filter
  BY <1>2 DEF Inv, WalkInv
<1>8. \A a \in 1 .. Len(scmp_events) : FilterOf(scmp_events[a]) \in Nat
  BY <1>2, <1>5 DEF Inv, RingInv, RingFits, ChunkFits, Walking
<1>9. filter_count >= first /\ event_status = "ALL_DONE" /\ ctx_status = "CHUNK_DONE"
  BY <1>2 DEF Inv, WalkInv, CoverInv, Walking
<1>10. CASE LoopGoesOn /\ pc' = "chunk" /\ chunk_index' = 0 /\ UNCHANGED skipped
  <2>1. filter \in 1 .. Len(chain) /\ chain[filter] > 0 /\ filter > 0
    BY <1>1, <1>5, <1>10, ChainLength DEF LoopGoesOn, TypeInv
  <2>2. TypeInv'
    BY <1>1, <1>2, <1>10 DEF TypeInv, Walking, userVars
  <2>3. WalkInv'
    <3>1. chunk_index' * ChunkLen = 0
      BY <1>5, <1>10
    <3> QED
      BY <1>2, <1>5, <1>6, <1>7, <1>9, <1>10, <2>1, <3>1 DEF WalkInv, LoopGoesOn, LastIsOpen
  <2>4. SkippedInv'
    BY <1>2, <1>4, <1>10 DEF Inv, SkippedInv
  <2>5. CoverInv'
    BY <1>2, <1>4, <1>9, <1>10 DEF Inv, CoverInv, Handled, Walking, userVars
  <2> QED
    BY <1>3, <2>2, <2>3, <2>4, <2>5 DEF Inv
<1>11. CASE LoopGoesOn /\ pc' = "next" /\ skipped' = skipped \cup {filter} /\ UNCHANGED chunk_index
  <2>1. filter > 0
    BY <1>5, <1>11 DEF LoopGoesOn
  <2>2. TypeInv'
    BY <1>1, <1>2, <1>5, <1>11, <2>1 DEF TypeInv, Walking, userVars
  <2>3. WalkInv'
    BY <1>2, <1>5, <1>6, <1>7, <1>8, <1>9, <1>11, <2>1 DEF WalkInv, LoopGoesOn, LastIsOpen
  <2>4. SkippedInv'
    BY <1>1, <1>2, <1>4, <1>5, <1>7, <1>8, <1>11 DEF Inv, TypeInv, SkippedInv
  <2>5. CoverInv'
    <3>1. ASSUME Len(scmp_events) < RingCap, NEW f \in filter .. first PROVE Handled(f)'
      <4>1. CASE f = filter
        BY <1>11, <4>1 DEF Handled
      <4>2. CASE f # filter
        <5>1. f \in filter + 1 .. first
          BY <1>5, <4>2
        <5>2. Handled(f)
          BY <1>2, <3>1, <5>1 DEF Inv, CoverInv
        <5> QED
          BY <1>2, <1>11, <5>2 DEF Handled, PrintedFilter, userVars
      <4> QED
        BY <4>1, <4>2
    <3>2. ~(Len(scmp_events) > 0 /\ scmp_events[Len(scmp_events)].status = "ALL_DONE")
      BY <1>1, <1>2 DEF Inv, RingInv, IsChunk, ChunkStates, Walking
    <3>3. \A f \in filter' .. first' : Len(scmp_events') < RingCap => Handled(f)'
      BY <1>2, <3>1
    <3> QED
      BY <1>2, <1>9, <1>11, <3>2, <3>3 DEF CoverInv, userVars
  <2> QED
    BY <1>3, <2>2, <2>3, <2>4, <2>5 DEF Inv
<1>12. CASE ~LoopGoesOn /\ pc' = "end" /\ UNCHANGED <<chunk_index, skipped>>
  <2>1. TypeInv'
    BY <1>1, <1>2, <1>12 DEF TypeInv, Walking, userVars
  <2>2. WalkInv'
    BY <1>2, <1>6, <1>12 DEF WalkInv, LastIsOpen
  <2>3. SkippedInv'
    BY <1>2, <1>4, <1>12 DEF Inv, SkippedInv
  <2>4. CoverInv'
    BY <1>2, <1>4, <1>9, <1>12 DEF Inv, CoverInv, Handled, Walking, userVars
  <2> QED
    BY <1>3, <2>1, <2>2, <2>3, <2>4 DEF Inv
<1> QED
  BY <1>10, <1>11, <1>12 DEF ReadProg

LEMMA NextFilterInv ==
    ASSUME Inv, NextFilter
    PROVE  Inv'
<1>1. TypeInv /\ Len(scmp_events) \in Nat
  BY RingLength DEF Inv
<1>2. /\ pc = "next" /\ pc' \in {"loop", "end"}
      /\ UNCHANGED <<chain, filter_count, chunk_index, scmp_events, first, skipped>>
      /\ UNCHANGED userVars
  BY DEF NextFilter, targetVars
<1>3. RingInv' /\ BufferInv' /\ PrintedInv' /\ CountInv'
  BY <1>2, WalkFrame DEF Walking
<1>4. printed' = <<>> /\ Len(printed') = 0 /\ printed = <<>> /\ Len(printed) = 0
  BY <1>2, EmptySeq DEF Inv, PrintedInv, Walking, userVars
<1>5. /\ filter \in Nat /\ filter >= 1 /\ first \in Nat /\ filter <= first
      /\ prog_index \in Nat /\ MaxProgs \in Nat /\ prog_index < MaxProgs
  BY <1>1, <1>2, CapturePidAssumption DEF Inv, WalkInv, TypeInv, CapturePidAssumption
<1>6. Len(scmp_events) < RingCap => ~LastIsOpen
  BY <1>2 DEF Inv, WalkInv, Walking
<1>7. \A a \in 1 .. Len(scmp_events) :
        FilterOf(scmp_events[a]) >= filter /\ FilterOf(scmp_events[a]) \in Nat
  BY <1>2, <1>5 DEF Inv, WalkInv, RingInv, RingFits, ChunkFits, Walking
<1>8. filter_count >= first /\ event_status = "ALL_DONE" /\ ctx_status = "CHUNK_DONE"
  BY <1>2 DEF Inv, WalkInv, CoverInv, Walking
<1>9. CASE /\ filter' = filter - 1 /\ prog_index' = prog_index + 1 /\ pc' = "loop"
           /\ UNCHANGED event_status
  <2>1. TypeInv'
    BY <1>1, <1>2, <1>5, <1>9 DEF TypeInv, Walking, userVars
  <2>2. WalkInv'
    BY <1>2, <1>5, <1>6, <1>7, <1>8, <1>9 DEF WalkInv, LastIsOpen
  <2>3. SkippedInv'
    BY <1>1, <1>2, <1>4, <1>5, <1>9 DEF Inv, TypeInv, SkippedInv
  <2>4. CoverInv'
    <3>1. filter' + 1 = filter
      BY <1>5, <1>9
    <3> QED
      BY <1>2, <1>4, <1>8, <1>9, <3>1 DEF Inv, CoverInv, Handled, Walking, userVars
  <2> QED
    BY <1>3, <2>1, <2>2, <2>3, <2>4 DEF Inv
<1>10. CASE event_status' = "TASK_ABORTED" /\ pc' = "end" /\ UNCHANGED <<filter, prog_index>>
  <2>1. TypeInv'
    BY <1>1, <1>2, <1>10 DEF TypeInv, Walking, EndStates, userVars
  <2>2. WalkInv'
    BY <1>2, <1>6, <1>10 DEF WalkInv, LastIsOpen
  <2>3. SkippedInv'
    BY <1>2, <1>4, <1>10 DEF Inv, SkippedInv
  <2>4. CoverInv'
    BY <1>2, <1>4, <1>8, <1>10 DEF Inv, CoverInv, Handled, Walking, userVars
  <2> QED
    BY <1>3, <2>1, <2>2, <2>3, <2>4 DEF Inv
<1> QED
  BY <1>9, <1>10 DEF NextFilter

LEMMA PollStops ==
    ASSUME Inv, ConversionFails \/ PollEnds
    PROVE  Inv'
<1>1. /\ pc = "poll" /\ pc' \in Ended /\ UNCHANGED <<targetVars, bpfVars, userVars>>
      /\ pc' = "done" => scmp_events = <<>> /\ ctx_status # "CHUNK_DONE"
  BY DEF ConversionFails, PollEnds, Ended
<1>2. UNCHANGED <<chain, filter, filter_count, prog_index, chunk_index, event_status, scmp_events,
                  first, skipped, insn_offset, count_printed, ebpf_insns, ctx_status, printed, warned>>
  BY <1>1 DEF targetVars, bpfVars, userVars
<1>3. TypeInv'
  BY <1>1, <1>2 DEF Inv, TypeInv
<1>4. pc' \notin Walking \cup {"poll"}
  BY <1>1 DEF Ended, Walking
<1>5. RingInv' /\ WalkInv' /\ BufferInv'
  BY <1>2, <1>4 DEF Inv, RingInv, WalkInv, BufferInv, Walking
<1>6. PrintedInv' /\ CountInv' /\ SkippedInv'
  BY <1>2, <1>4 DEF Inv, PrintedInv, CountInv, SkippedInv, PrintedFilter, Walking
<1>7. CoverInv'
  BY <1>1, <1>2, <1>4 DEF Inv, CoverInv, Handled, PrintedFilter, Walking
<1> QED
  BY <1>3, <1>5, <1>6, <1>7 DEF Inv

\* The event dump_chunk sends, and what was left of the filter before it.
Remaining == chain[filter] - chunk_index * ChunkLen
Sent(status) ==
    [status |-> status, flen_total |-> chain[filter], filter_count |-> filter_count,
     insns |-> [k \in 1 .. Smaller(Remaining, ChunkLen) |-> <<filter, chunk_index * ChunkLen + k>>]]

LEMMA SentFits ==
    ASSUME Inv, pc = "chunk", NEW s \in {ChunkStatus(Remaining), "PROG_ABORTED"}
    PROVE  /\ Sent(s) \in Events /\ IsChunk(Sent(s))
           /\ ChunkFits(Sent(s), chain, first)
           /\ FilterOf(Sent(s)) = filter
           /\ StartOf(Sent(s)) = chunk_index * ChunkLen
           /\ s = "CHUNK_DONE" => /\ EndOf(Sent(s)) = (chunk_index + 1) * ChunkLen
                                  /\ (chunk_index + 1) * ChunkLen < chain[filter]
           /\ s # "CHUNK_DONE" /\ s # "PROG_ABORTED"
                => ~((chunk_index + 1) * ChunkLen < chain[filter])
<1> DEFINE start == chunk_index * ChunkLen
           flen == Smaller(Remaining, ChunkLen)
           n == chain[filter]
           d == [k \in 1 .. flen |-> <<filter, start + k>>]
<1>1. TypeInv
  BY DEF Inv
<1>2. /\ filter \in 1 .. first /\ filter \in Nat /\ n \in Nat /\ n > 0 /\ filter_count \in Nat
      /\ filter_count >= first /\ first \in Nat /\ chunk_index \in Nat
  BY <1>1, ChainLength DEF Inv, TypeInv, WalkInv
<1>3. ChunkLen \in Nat /\ ChunkLen > 0
  BY CapturePidAssumption DEF CapturePidAssumption
<1>4. start \in Nat /\ (chunk_index + 1) * ChunkLen = start + ChunkLen
  BY <1>2, <1>3, SMT
<1>5. start < n /\ Remaining = n - start
  BY DEF Inv, WalkInv, Remaining
<1>6. (chunk_index + 1) * ChunkLen = start + ChunkLen
  BY <1>4
<1> HIDE DEF start, n
<1>7. /\ flen \in Nat /\ flen >= 1 /\ start + flen <= n
      /\ Remaining <= ChunkLen => start + flen = n /\ ~(start + ChunkLen < n)
      /\ ~(Remaining <= ChunkLen) => flen = ChunkLen /\ start + ChunkLen < n
  BY <1>2, <1>3, <1>4, <1>5 DEF Smaller
<1> HIDE DEF flen
<1>8. \A k \in 1 .. flen : <<filter, start + k>> \in Nat \X Nat
  BY <1>2, <1>4, <1>7
<1>9. d \in Seq(Nat \X Nat)
  BY <1>7, <1>8, IsASeq
<1>10. DOMAIN d = 1 .. Len(d) /\ Len(d) \in Nat /\ DOMAIN d = 1 .. flen
  BY <1>9, LenProperties
<1>11. Len(d) = flen
  <2>1. \A m \in Nat : 1 .. m = 1 .. flen => m = flen
    BY <1>7
  <2> QED
    BY <1>10, <2>1
<1>12. \A k \in 1 .. flen : d[k] = <<filter, start + k>>
  OBVIOUS
<1> HIDE DEF d
<1>13. Sent(s) = [status |-> s, flen_total |-> n, filter_count |-> filter_count, insns |-> d]
  BY DEF Sent, n, d, flen, start
<1>14. s \in ChunkStates
  BY DEF ChunkStatus, ChunkStates
<1>15. Sent(s) \in Events /\ IsChunk(Sent(s))
  BY <1>2, <1>9, <1>13, <1>14 DEF Events, IsChunk
<1>16. d[1] = <<filter, start + 1>>
  BY <1>7, <1>12
<1>17. FilterOf(Sent(s)) = filter /\ StartOf(Sent(s)) = start
  BY <1>4, <1>13, <1>16 DEF FilterOf, StartOf
<1>18. EndOf(Sent(s)) = start + flen
  BY <1>11, <1>13, <1>17 DEF EndOf
<1>19. /\ s = "CHUNK_DONE" => ~(Remaining <= ChunkLen)
       /\ s = "PROG_DONE" => Remaining <= ChunkLen
       /\ s \in {"CHUNK_DONE", "PROG_DONE", "PROG_ABORTED"}
  BY DEF ChunkStatus
<1>20. ChunkFits(Sent(s), chain, first)
  BY <1>2, <1>4, <1>7, <1>11, <1>12, <1>13, <1>17, <1>18, <1>19 DEF ChunkFits, n
<1> QED
  BY <1>6, <1>7, <1>15, <1>17, <1>18, <1>19, <1>20 DEF start, n

LEMMA DumpChunkInv ==
    ASSUME Inv, dump_chunk
    PROVE  Inv'
<1>1. TypeInv /\ Len(scmp_events) \in Nat /\ scmp_events \in Seq(Events)
  BY RingLength DEF Inv, TypeInv
<1>2. /\ pc = "chunk" /\ UNCHANGED skipped /\ UNCHANGED userVars
      /\ UNCHANGED <<chain, filter, filter_count, prog_index, event_status, first>>
  BY DEF dump_chunk, targetVars
<1>3. \/ Len(scmp_events) = RingCap /\ pc' = "next" /\ UNCHANGED <<scmp_events, chunk_index>>
      \/ \E s \in {ChunkStatus(Remaining), "PROG_ABORTED"} :
           /\ Len(scmp_events) < RingCap
           /\ scmp_events' = Append(scmp_events, Sent(s))
           /\ IF s = "PROG_ABORTED" THEN pc' = "next" /\ UNCHANGED chunk_index ELSE NextChunk
  <2>1. ChunkStatus(Remaining) # "PROG_ABORTED"
    BY DEF ChunkStatus
  <2> QED
    BY <2>1 DEF dump_chunk, Sent, Remaining
<1>4. printed' = <<>> /\ Len(printed') = 0 /\ printed = <<>> /\ Len(printed) = 0
      /\ count_printed = None /\ insn_offset = 0
  BY <1>2, EmptySeq DEF Inv, PrintedInv, CountInv, BufferInv, Walking, userVars
<1>5. /\ filter \in Nat /\ filter >= 1 /\ first \in Nat /\ filter <= first
      /\ prog_index < MaxProgs /\ filter_count >= first /\ event_status = "ALL_DONE"
      /\ ctx_status = "CHUNK_DONE"
  BY <1>1, <1>2 DEF Inv, WalkInv, TypeInv, CoverInv, Walking
<1>6. \A a \in 1 .. Len(scmp_events) :
        /\ IsChunk(scmp_events[a])
        /\ FilterOf(scmp_events[a]) \in Nat /\ FilterOf(scmp_events[a]) >= filter
        /\ \/ FilterOf(scmp_events[a]) > filter
           \/ FilterOf(scmp_events[a]) = filter /\ scmp_events[a].status = "CHUNK_DONE"
  BY <1>2, <1>5 DEF Inv, WalkInv, RingInv, RingFits, ChunkFits, Walking
<1>7. CASE Len(scmp_events) = RingCap /\ pc' = "next" /\ UNCHANGED <<scmp_events, chunk_index>>
  <2>1. RingInv' /\ BufferInv' /\ PrintedInv' /\ CountInv'
    BY <1>2, <1>7, WalkFrame DEF Walking
  <2>2. TypeInv'
    BY <1>1, <1>2, <1>7 DEF TypeInv, Walking, userVars
  <2>3. WalkInv'
    BY <1>1, <1>2, <1>5, <1>6, <1>7 DEF WalkInv, LastIsOpen
  <2>4. SkippedInv'
    BY <1>1, <1>2, <1>4, <1>5, <1>7 DEF Inv, SkippedInv, TypeInv
  <2>5. ~(Len(scmp_events) > 0 /\ scmp_events[Len(scmp_events)].status = "ALL_DONE")
    BY <1>1, <1>6 DEF IsChunk, ChunkStates
  <2>6. CoverInv'
    BY <1>1, <1>2, <1>5, <1>7, <2>5 DEF CoverInv, userVars
  <2> QED
    BY <2>1, <2>2, <2>3, <2>4, <2>6 DEF Inv
<1>8. CASE \E s \in {ChunkStatus(Remaining), "PROG_ABORTED"} :
             /\ Len(scmp_events) < RingCap
             /\ scmp_events' = Append(scmp_events, Sent(s))
             /\ IF s = "PROG_ABORTED" THEN pc' = "next" /\ UNCHANGED chunk_index ELSE NextChunk
  <2>1. PICK s \in {ChunkStatus(Remaining), "PROG_ABORTED"} :
             /\ Len(scmp_events) < RingCap
             /\ scmp_events' = Append(scmp_events, Sent(s))
             /\ IF s = "PROG_ABORTED" THEN pc' = "next" /\ UNCHANGED chunk_index ELSE NextChunk
    BY <1>8
  <2> DEFINE e == Sent(s)
             n == Len(scmp_events)
  <2>2. /\ e \in Events /\ IsChunk(e) /\ ChunkFits(e, chain, first)
        /\ FilterOf(e) = filter /\ StartOf(e) = chunk_index * ChunkLen /\ e.status = s
        /\ s = "CHUNK_DONE" => /\ EndOf(e) = (chunk_index + 1) * ChunkLen
                               /\ (chunk_index + 1) * ChunkLen < chain[filter]
        /\ s # "CHUNK_DONE" /\ s # "PROG_ABORTED"
             => ~((chunk_index + 1) * ChunkLen < chain[filter])
    <3>1. Sent(s).status = s
      BY DEF Sent
    <3> QED
      BY <1>2, <3>1, SentFits
  <2> HIDE DEF e
  <2>3. scmp_events' = Append(scmp_events, e)
    BY <2>1 DEF e
  <2>4. /\ scmp_events' \in Seq(Events) /\ Len(scmp_events') = n + 1
        /\ \A i \in 1 .. n : scmp_events'[i] = scmp_events[i]
        /\ scmp_events'[n + 1] = e /\ scmp_events'[Len(scmp_events')] = e
    BY <1>1, <2>2, <2>3, AppendProperties
  <2>5. chain[filter] \in Nat /\ chunk_index \in Nat
    BY <1>1, <1>5, ChainLength DEF TypeInv
  <2>6. /\ s = "CHUNK_DONE" => pc' = "chunk" /\ chunk_index' = chunk_index + 1
        /\ s # "CHUNK_DONE" => pc' = "next" /\ chunk_index' = chunk_index
        /\ pc' \in Walking
    <3>1. chunk_index + 1 < loop_times <=> (chunk_index + 1) * ChunkLen < chain[filter]
      BY <2>5, LoopTimes DEF loop_times
    <3> QED
      BY <2>1, <2>2, <3>1 DEF NextChunk, Walking
  <2>7. RingInv'
    <3>1. \A a \in 1 .. n : After(scmp_events[a], e)
      BY <1>6, <2>2 DEF After
    <3>2. n > 0 => Joins(scmp_events[n], e)
      <4>1. CASE n > 0 /\ scmp_events[n].status = "CHUNK_DONE"
        <5>1. LastIsOpen
          BY <4>1 DEF LastIsOpen
        <5>2. FilterOf(scmp_events[n]) = filter /\ EndOf(scmp_events[n]) = chunk_index * ChunkLen
          BY <1>2, <2>1, <5>1 DEF Inv, WalkInv, Walking
        <5> QED
          BY <2>2, <4>1, <5>2 DEF Joins
      <4>2. CASE n > 0 /\ scmp_events[n].status # "CHUNK_DONE"
        <5>1. ~LastIsOpen
          BY <4>2 DEF LastIsOpen
        <5>2. chunk_index = 0
          BY <1>2, <2>1, <5>1 DEF Inv, WalkInv, Walking
        <5>3. chunk_index * ChunkLen = 0
          BY <5>2, CapturePidAssumption DEF CapturePidAssumption
        <5> QED
          BY <2>2, <4>2, <5>3 DEF Joins
      <4> QED
        BY <4>1, <4>2
    <3>3. RingFits(scmp_events, chain, first)
      BY DEF Inv, RingInv
    <3>4. RingFits(Append(scmp_events, e), chain, first)
      BY <1>1, <1>6, <2>2, <3>1, <3>2, <3>3, AppendFits
    <3>5. \A a \in 1 .. n + 1 : IsChunk(scmp_events'[a])
      BY <1>1, <1>6, <2>2, <2>4
    <3> QED
      BY <1>2, <2>3, <2>4, <3>4, <3>5 DEF RingInv
  <2>8. BufferInv'
    <3>1. StartOf(scmp_events'[1]) = 0
      <4>1. CASE n = 0
        <5>1. ~LastIsOpen
          BY <4>1 DEF LastIsOpen
        <5>2. chunk_index = 0
          BY <1>2, <2>1, <5>1 DEF Inv, WalkInv, Walking
        <5>3. chunk_index * ChunkLen = 0
          BY <5>2, CapturePidAssumption DEF CapturePidAssumption
        <5> QED
          BY <2>2, <2>4, <4>1, <5>3
      <4>2. CASE n > 0
        BY <1>1, <1>4, <1>6, <2>4, <4>2 DEF Inv, BufferInv
      <4> QED
        BY <1>1, <4>1, <4>2
    <3> QED
      BY <1>2, <1>4, <3>1 DEF Inv, BufferInv, userVars
  <2>9. PrintedInv' /\ CountInv'
    BY <1>2, <1>4 DEF Inv, PrintedInv, CountInv, userVars
  <2>10. TypeInv'
    <3>1. chunk_index' \in Nat /\ pc' \in Walking
      BY <2>5, <2>6
    <3>2. Len(scmp_events') <= RingCap
      BY <1>1, <2>1, <2>4, CapturePidAssumption DEF CapturePidAssumption
    <3> QED
      BY <1>1, <1>2, <2>4, <3>1, <3>2 DEF TypeInv, userVars
  <2>11. WalkInv'
    <3>1. LastIsOpen' <=> s = "CHUNK_DONE"
      BY <1>1, <2>2, <2>4 DEF LastIsOpen
    <3>2. \A a \in 1 .. n + 1 :
            /\ FilterOf(scmp_events'[a]) >= filter
            /\ s = "CHUNK_DONE" =>
                 \/ FilterOf(scmp_events'[a]) > filter
                 \/ FilterOf(scmp_events'[a]) = filter /\ scmp_events'[a].status = "CHUNK_DONE"
      BY <1>1, <1>5, <1>6, <2>2, <2>4
    <3> QED
      BY <1>2, <1>5, <2>2, <2>4, <2>6, <3>1, <3>2 DEF WalkInv
  <2>12. filter \notin skipped
    BY <1>2, <1>5 DEF Inv, SkippedInv
  <2>13. SkippedInv'
    <3>1. \A x \in skipped : x > filter /\ x \in Nat
      BY <1>1, <1>2 DEF Inv, SkippedInv, TypeInv
    <3>2. \A a \in 1 .. n + 1 : FilterOf(scmp_events'[a]) \notin skipped
      BY <1>1, <1>6, <2>2, <2>4, <2>12 DEF Inv, SkippedInv
    <3> QED
      BY <1>2, <1>4, <1>5, <2>4, <2>6, <3>1, <3>2 DEF SkippedInv
  <2>14. CoverInv'
    <3>1. ASSUME NEW f \in filter + 1 .. first PROVE Handled(f)'
      <4>1. Handled(f)
        BY <1>2, <2>1 DEF Inv, CoverInv
      <4> QED
        BY <1>1, <1>2, <1>4, <2>4, <4>1 DEF Handled, userVars
    <3>2. ASSUME s # "CHUNK_DONE", NEW f, f = filter PROVE Handled(f)'
      <4>1. s \in {"CHUNK_DONE", "PROG_DONE", "PROG_ABORTED"}
        BY DEF ChunkStatus
      <4> QED
        BY <1>1, <2>2, <2>4, <3>2, <4>1 DEF Handled
    <3>3. ASSUME s # "CHUNK_DONE", NEW f \in filter .. first PROVE Handled(f)'
      BY <1>5, <3>1, <3>2, <3>3
    <3>4. e.status # "ALL_DONE"
      BY <2>2 DEF IsChunk, ChunkStates
    <3> QED
      BY <1>2, <1>5, <2>4, <2>6, <3>1, <3>3, <3>4 DEF CoverInv, userVars
  <2> QED
    BY <2>7, <2>8, <2>9, <2>10, <2>11, <2>13, <2>14 DEF Inv
<1> QED
  BY <1>3, <1>7, <1>8

LEMMA EndEventInv ==
    ASSUME Inv, EndEvent
    PROVE  Inv'
<1>1. TypeInv /\ Len(scmp_events) \in Nat /\ scmp_events \in Seq(Events)
  BY RingLength DEF Inv, TypeInv
<1>2. /\ pc = "end" /\ pc' = "poll" /\ UNCHANGED userVars
      /\ UNCHANGED <<chain, filter, filter_count, prog_index, chunk_index, event_status, first, skipped>>
  BY DEF EndEvent, targetVars
<1>3. /\ printed' = <<>> /\ Len(printed') = 0 /\ printed = <<>> /\ Len(printed) = 0
      /\ count_printed = None /\ insn_offset = 0 /\ ctx_status = "CHUNK_DONE"
  BY <1>2, EmptySeq DEF Inv, PrintedInv, CountInv, BufferInv, CoverInv, Walking, userVars
<1>4. \A a \in 1 .. Len(scmp_events) : IsChunk(scmp_events[a])
  BY <1>2 DEF Inv, RingInv, Walking
<1>5. RingFits(scmp_events, chain, first)
  BY DEF Inv, RingInv
<1>6. CASE Len(scmp_events) = RingCap
  <2>1. UNCHANGED scmp_events
    BY <1>6 DEF EndEvent
  <2>2. TypeInv'
    BY <1>1, <1>2, <2>1 DEF TypeInv, userVars
  <2>3. RingInv' /\ WalkInv'
    BY <1>2, <1>5, <2>1 DEF RingInv, WalkInv, Walking
  <2>4. BufferInv' /\ PrintedInv' /\ CountInv' /\ SkippedInv'
    BY <1>2, <1>3, <2>1 DEF Inv, BufferInv, PrintedInv, CountInv, SkippedInv, Walking, userVars
  <2>5. ~(Len(scmp_events) > 0 /\ scmp_events[Len(scmp_events)].status = "ALL_DONE")
    BY <1>1, <1>4 DEF IsChunk, ChunkStates
  <2>6. CoverInv'
    BY <1>2, <1>3, <2>1, <2>5 DEF CoverInv, userVars, Walking
  <2> QED
    BY <2>2, <2>3, <2>4, <2>6 DEF Inv
<1>7. CASE Len(scmp_events) # RingCap
  <2> DEFINE e == [status |-> EndStatus, flen_total |-> 0, filter_count |-> 0, insns |-> <<>>]
             n == Len(scmp_events)
  <2>1. scmp_events' = Append(scmp_events, e) /\ n < RingCap /\ RingCap \in Nat
    BY <1>1, <1>7, CapturePidAssumption DEF EndEvent, TypeInv, CapturePidAssumption
  <2>2. EndStatus \in EndStates
    BY <1>1 DEF EndStatus, EndStates, TypeInv
  <2>3. e \in Events /\ ~IsChunk(e) /\ e.filter_count = 0 /\ e.status = EndStatus
    <3>1. <<>> \in Seq(Nat \X Nat)
      BY EmptySeq
    <3> QED
      BY <2>2, <3>1 DEF Events, IsChunk, EndStates, ChunkStates
  <2> HIDE DEF e
  <2>4. /\ scmp_events' \in Seq(Events) /\ Len(scmp_events') = n + 1
        /\ \A i \in 1 .. n : scmp_events'[i] = scmp_events[i]
        /\ scmp_events'[n + 1] = e /\ scmp_events'[Len(scmp_events')] = e
    BY <1>1, <2>1, <2>3, AppendProperties
  <2>5. TypeInv'
    <3>1. Len(scmp_events') <= RingCap
      BY <1>1, <2>1, <2>4
    <3> QED
      BY <1>1, <1>2, <2>4, <3>1 DEF TypeInv, userVars
  <2>6. RingInv'
    <3>1. RingFits(Append(scmp_events, e), chain, first)
      BY <1>1, <1>4, <1>5, <2>3, AppendFits
    <3> QED
      BY <1>2, <2>1, <3>1 DEF RingInv, Walking
  <2>7. WalkInv'
    BY <1>2 DEF WalkInv, Walking
  <2>8. BufferInv'
    BY <1>1, <1>2, <1>3, <2>3, <2>4 DEF Inv, BufferInv, Walking, userVars
  <2>9. PrintedInv' /\ CountInv'
    BY <1>2, <1>3 DEF PrintedInv, CountInv, Walking, userVars
  <2>10. SkippedInv'
    BY <1>1, <1>2, <1>3, <2>3, <2>4 DEF Inv, SkippedInv
  <2>11. CoverInv'
    <3>1. ASSUME EndStatus = "ALL_DONE", NEW f \in 1 .. first PROVE Handled(f)'
      <4>1. event_status = "ALL_DONE" /\ filter = 0
        BY <3>1 DEF EndStatus
      <4>2. Handled(f)
        BY <1>2, <2>1, <4>1 DEF Inv, CoverInv
      <4> QED
        BY <1>1, <1>2, <1>3, <2>4, <4>2 DEF Handled, userVars
    <3> QED
      BY <1>2, <1>3, <2>3, <2>4, <3>1 DEF CoverInv, userVars, Walking
  <2> QED
    BY <2>5, <2>6, <2>7, <2>8, <2>9, <2>10, <2>11 DEF Inv
<1> QED
  BY <1>6, <1>7

-----------------------------------------------------------------------------
\* on_pid_events: the memcpy puts the chunk after what it has of the filter.
LEMMA BufferIsPart ==
    ASSUME Inv, scmp_events # <<>>, IsChunk(Received)
    PROVE  /\ Received = scmp_events[1] /\ ChunkFits(Received, chain, first)
           /\ Buffer(Received) = [size |-> chain[FilterOf(Received)],
                                  data |-> Part(FilterOf(Received), EndOf(Received))]
           /\ insn_offset + Len(Received.insns) = EndOf(Received)
           /\ insn_offset = StartOf(Received)
<1> DEFINE e == Received
           f == FilterOf(e)
           upto == insn_offset + Len(e.insns)
           buf == IF ebpf_insns = None THEN [size |-> e.flen_total, data |-> <<>>] ELSE ebpf_insns
<1>1. TypeInv /\ Len(scmp_events) \in Nat /\ Len(scmp_events) > 0
  BY RingLength DEF Inv
<1>2. e = scmp_events[1]
  BY <1>1 DEF Received
<1>3. ChunkFits(e, chain, first)
  BY <1>1, <1>2 DEF Inv, RingInv, RingFits
<1>4. /\ StartOf(e) = insn_offset /\ insn_offset \in Nat
      /\ insn_offset = 0 => ebpf_insns = None
      /\ insn_offset > 0 => ebpf_insns = [size |-> chain[f], data |-> Part(f, insn_offset)]
  BY <1>1, <1>2 DEF Inv, BufferInv, TypeInv
<1>5. /\ f \in 1 .. first /\ f \in Nat /\ e.flen_total = chain[f] /\ chain[f] \in Nat
      /\ EndOf(e) = upto /\ Len(e.insns) \in Nat /\ upto \in Nat
      /\ \A k \in 1 .. Len(e.insns) : e.insns[k] = <<f, insn_offset + k>>
  <2>1. e.insns \in Seq(Nat \X Nat)
    BY <1>1, <1>2, RingLength DEF Events
  <2>2. Len(e.insns) \in Nat
    BY <2>1, LenProperties
  <2>3. f \in 1 .. first /\ f \in Nat /\ e.flen_total = chain[f] /\ chain[f] \in Nat
    BY <1>1, <1>3, ChainLength DEF ChunkFits, TypeInv
  <2> QED
    BY <1>3, <1>4, <2>2, <2>3 DEF ChunkFits, EndOf
<1> HIDE DEF e, f, upto
<1>6. buf = [size |-> chain[f], data |-> Part(f, insn_offset)]
  <2>1. CASE insn_offset = 0
    <3>1. Part(f, 0) = <<>>
      BY DEF Part
    <3> QED
      BY <1>4, <1>5, <2>1, <3>1
  <2>2. CASE insn_offset > 0
    <3>1. Part(f, insn_offset) \in Seq(Nat \X Nat)
      BY <1>4, <1>5, PartType
    <3>2. ebpf_insns \in [size : Nat, data : Seq(Nat \X Nat)]
      BY <1>4, <1>5, <2>2, <3>1
    <3>3. ebpf_insns # None
      BY <3>2, CapturePidAssumption DEF CapturePidAssumption
    <3> QED
      BY <1>4, <2>2, <3>3
  <2> QED
    BY <1>4, <2>1, <2>2
<1> DEFINE copied == [k \in (DOMAIN buf.data) \cup (insn_offset + 1 .. upto) |->
                        IF k \in insn_offset + 1 .. upto THEN e.insns[k - insn_offset]
                                                         ELSE buf.data[k]]
<1>7. Buffer(e) = [buf EXCEPT !.data = copied]
  BY DEF Buffer, e, upto
<1> HIDE DEF buf
<1>8. copied = Part(f, upto)
  <2>1. DOMAIN buf.data = 1 .. insn_offset /\ \A k \in 1 .. insn_offset : buf.data[k] = <<f, k>>
    BY <1>6 DEF Part
  <2>2. (DOMAIN buf.data) \cup (insn_offset + 1 .. upto) = 1 .. upto
    <3>1. upto >= insn_offset
      BY <1>4, <1>5 DEF upto
    <3> QED
      BY <1>4, <1>5, <2>1, <3>1
  <2>3. ASSUME NEW k \in 1 .. upto
        PROVE  (IF k \in insn_offset + 1 .. upto THEN e.insns[k - insn_offset] ELSE buf.data[k])
                 = <<f, k>>
    <3>1. CASE k \in insn_offset + 1 .. upto
      <4>1. k - insn_offset \in 1 .. Len(e.insns) /\ insn_offset + (k - insn_offset) = k
        BY <1>4, <1>5, <3>1 DEF upto
      <4> QED
        BY <1>5, <3>1, <4>1
    <3>2. CASE k \notin insn_offset + 1 .. upto
      <4>1. k \in 1 .. insn_offset
        BY <1>4, <1>5, <3>2
      <4> QED
        BY <2>1, <3>2, <4>1
    <3> QED
      BY <3>1, <3>2
  <2> QED
    BY <2>2, <2>3 DEF Part
<1> HIDE DEF copied
<1>9. Buffer(e) = [size |-> chain[f], data |-> Part(f, upto)]
  BY <1>6, <1>7, <1>8
<1> QED
  BY <1>2, <1>3, <1>4, <1>5, <1>9 DEF e, f, upto

\* What every event has in common: it leaves the ring.
LEMMA EventTaken ==
    ASSUME Inv, on_pid_events
    PROVE  /\ pc = "poll" /\ Len(scmp_events) \in Nat /\ Len(scmp_events) > 0
           /\ Received = scmp_events[1] /\ Received \in Events
           /\ scmp_events' \in Seq(Events) /\ Len(scmp_events') = Len(scmp_events) - 1
           /\ \A a \in 1 .. Len(scmp_events') :
                a + 1 \in 1 .. Len(scmp_events) /\ scmp_events'[a] = scmp_events[a + 1]
           /\ UNCHANGED <<chain, filter, filter_count, prog_index, chunk_index, event_status,
                          first, skipped>>
           /\ RingFits(scmp_events', chain', first')
           /\ ~IsChunk(Received) => Len(scmp_events') = 0 /\ scmp_events' = <<>>
                                    /\ Received.filter_count = 0
<1>1. TypeInv /\ scmp_events \in Seq(Events)
  BY DEF Inv, TypeInv
<1>2. /\ pc = "poll" /\ scmp_events # <<>> /\ scmp_events' = Tail(scmp_events)
      /\ UNCHANGED <<chain, filter, filter_count, prog_index, chunk_index, event_status,
                     first, skipped>>
  BY DEF on_pid_events, targetVars
<1>3. Len(scmp_events) \in Nat /\ Len(scmp_events) > 0
  BY <1>1, <1>2, RingLength
<1>4. Received = scmp_events[1] /\ Received \in Events
  <2>1. Received = scmp_events[1]
    BY <1>3 DEF Received
  <2> QED
    BY <1>1, <1>3, <2>1, RingLength
<1>5. /\ scmp_events' \in Seq(Events) /\ Len(scmp_events') = Len(scmp_events) - 1
      /\ \A a \in 1 .. Len(scmp_events') : scmp_events'[a] = scmp_events[a + 1]
  BY <1>1, <1>2, HeadTailProperties
<1>6. \A a \in 1 .. Len(scmp_events') : a + 1 \in 1 .. Len(scmp_events)
  BY <1>3, <1>5
<1>7. RingFits(scmp_events', chain', first')
  <2>1. RingFits(scmp_events, chain, first)
    BY DEF Inv, RingInv
  <2>2. RingFits(Tail(scmp_events), chain, first)
    BY <1>1, <1>2, <2>1, TailFits
  <2> QED
    BY <1>2, <2>2
<1>8. ASSUME ~IsChunk(Received)
      PROVE  Len(scmp_events') = 0 /\ scmp_events' = <<>> /\ Received.filter_count = 0
  <2>1. 1 \in 1 .. Len(scmp_events) /\ ~IsChunk(scmp_events[1])
    BY <1>3, <1>4, <1>8
  <2>2. 1 = Len(scmp_events) /\ scmp_events[1].filter_count = 0
    BY <2>1 DEF Inv, RingInv, RingFits
  <2>3. Len(scmp_events) - 1 = 0
    BY <2>2
  <2>4. Len(scmp_events') = 0
    BY <1>5, <2>3
  <2>5. scmp_events' = <<>>
    BY <1>5, <2>4, EmptySeq
  <2> QED
    BY <1>4, <2>2, <2>4, <2>5
<1> QED
  BY <1>2, <1>3, <1>4, <1>5, <1>6, <1>7, <1>8

\* Another chunk of a filter.
LEMMA ChunkDoneInv ==
    ASSUME Inv, on_pid_events, Received.status = "CHUNK_DONE"
    PROVE  Inv'
<1> DEFINE e == Received
           f == FilterOf(e)
<1>1. TypeInv /\ IsChunk(e) /\ scmp_events # <<>>
  BY DEF Inv, IsChunk, ChunkStates, on_pid_events
<1>2. /\ pc = "poll" /\ Len(scmp_events) \in Nat /\ Len(scmp_events) > 0
      /\ e = scmp_events[1] /\ e \in Events
      /\ scmp_events' \in Seq(Events) /\ Len(scmp_events') = Len(scmp_events) - 1
      /\ \A a \in 1 .. Len(scmp_events') :
           a + 1 \in 1 .. Len(scmp_events) /\ scmp_events'[a] = scmp_events[a + 1]
      /\ UNCHANGED <<chain, filter, filter_count, prog_index, chunk_index, event_status,
                     first, skipped>>
      /\ RingFits(scmp_events', chain', first')
  BY EventTaken
<1>3. /\ ChunkFits(e, chain, first)
      /\ Buffer(e) = [size |-> chain[f], data |-> Part(f, EndOf(e))]
      /\ insn_offset + Len(e.insns) = EndOf(e) /\ insn_offset = StartOf(e)
  BY <1>1, BufferIsPart
<1>4. /\ pc' = pc /\ ebpf_insns' = Buffer(e) /\ insn_offset' = insn_offset + Len(e.insns)
      /\ count_printed' = IF count_printed = None THEN e.filter_count ELSE count_printed
      /\ UNCHANGED <<ctx_status, printed, warned>>
  BY DEF on_pid_events
<1>5. e.insns \in Seq(Nat \X Nat) /\ e.filter_count \in Nat
  BY <1>2 DEF Events
<1> HIDE DEF e, f
<1>6. insn_offset' \in Nat /\ insn_offset' > 0
  <2>1. Len(e.insns) \in Nat /\ Len(e.insns) >= 1
    BY <1>3, <1>5, LenProperties DEF ChunkFits
  <2>2. insn_offset \in Nat
    BY <1>1 DEF TypeInv
  <2> QED
    BY <1>4, <2>1, <2>2
<1>7. TypeInv'
  <2>1. RingCap \in Nat
    BY CapturePidAssumption DEF CapturePidAssumption
  <2>2. Len(scmp_events') <= RingCap
    BY <1>1, <1>2, <2>1 DEF TypeInv
  <2> QED
    BY <1>1, <1>2, <1>4, <1>6, <2>2 DEF TypeInv
<1>8. RingInv'
  BY <1>2, <1>4 DEF RingInv, Walking
<1>9. WalkInv'
  BY <1>2, <1>4 DEF WalkInv, Walking
<1>10. BufferInv'
  <2>1. ASSUME Len(scmp_events') > 0, IsChunk(scmp_events'[1])
        PROVE  StartOf(scmp_events'[1]) = EndOf(e) /\ FilterOf(scmp_events'[1]) = f
    <3>1. 2 \in 1 .. Len(scmp_events) /\ scmp_events'[1] = scmp_events[2]
      BY <1>2, <2>1
    <3>2. Joins(scmp_events[1], scmp_events[2])
      BY <1>1, <1>2, <2>1, <3>1 DEF Inv, RingInv, RingFits
    <3> QED
      BY <1>2, <3>1, <3>2 DEF Joins, e, f
  <2> QED
    BY <1>2, <1>3, <1>4, <1>6, <2>1 DEF BufferInv, Walking
<1>11. PrintedInv'
  <2>1. \A j : PrintedFilter(j)' = PrintedFilter(j)
    BY <1>4 DEF PrintedFilter
  <2>2. ASSUME NEW j \in 1 .. Len(printed), NEW a \in 1 .. Len(scmp_events'),
               IsChunk(scmp_events'[a])
        PROVE  PrintedFilter(j) > FilterOf(scmp_events'[a])
    BY <1>2, <2>2 DEF Inv, PrintedInv
  <2> QED
    BY <1>2, <1>4, <2>1, <2>2 DEF Inv, PrintedInv, Walking
<1>12. CountInv'
  <2>1. count_printed = None \/ count_printed >= first
    BY <1>1 DEF Inv, CountInv
  <2>2. e.filter_count >= first
    BY <1>3 DEF ChunkFits
  <2>3. e.filter_count # None
    BY <1>5, CapturePidAssumption DEF CapturePidAssumption
  <2> QED
    BY <1>2, <1>4, <1>5, <2>1, <2>2, <2>3 DEF Inv, CountInv, Walking
<1>13. SkippedInv'
  BY <1>2, <1>4 DEF Inv, SkippedInv, PrintedFilter
<1>14. CoverInv'
  <2>1. ASSUME NEW g, Handled(g) PROVE Handled(g)'
    <3>1. ASSUME NEW a \in 1 .. Len(scmp_events),
                 scmp_events[a].status \in {"PROG_DONE", "PROG_ABORTED"}
          PROVE  a - 1 \in 1 .. Len(scmp_events') /\ scmp_events'[a - 1] = scmp_events[a]
      <4>1. a # 1
        BY <1>2, <3>1 DEF e
      <4>2. a - 1 \in 1 .. Len(scmp_events') /\ (a - 1) + 1 = a
        BY <1>2, <4>1
      <4> QED
        BY <1>2, <4>2
    <3> QED
      BY <1>2, <1>4, <2>1, <3>1 DEF Handled, PrintedFilter
  <2>2. ASSUME Len(scmp_events') > 0, scmp_events'[Len(scmp_events')].status = "ALL_DONE"
        PROVE  scmp_events[Len(scmp_events)].status = "ALL_DONE"
    BY <1>2, <2>2
  <2> QED
    BY <1>2, <1>4, <2>1, <2>2 DEF Inv, CoverInv, Walking
<1> QED
  BY <1>7, <1>8, <1>9, <1>10, <1>11, <1>12, <1>13, <1>14 DEF Inv

\* The last chunk of a filter, which is printed.
LEMMA ProgDoneInv ==
    ASSUME Inv, on_pid_events, Received.status = "PROG_DONE"
    PROVE  Inv'
<1> DEFINE e == Received
           f == FilterOf(e)
           n == Len(printed)
           prog == [flen |-> chain[f], insns |-> Part(f, chain[f])]
<1>1. TypeInv /\ IsChunk(e) /\ scmp_events # <<>>
  BY DEF Inv, IsChunk, ChunkStates, on_pid_events
<1>2. /\ pc = "poll" /\ Len(scmp_events) \in Nat /\ Len(scmp_events) > 0
      /\ e = scmp_events[1] /\ e \in Events
      /\ scmp_events' \in Seq(Events) /\ Len(scmp_events') = Len(scmp_events) - 1
      /\ \A a \in 1 .. Len(scmp_events') :
           a + 1 \in 1 .. Len(scmp_events) /\ scmp_events'[a] = scmp_events[a + 1]
      /\ UNCHANGED <<chain, filter, filter_count, prog_index, chunk_index, event_status,
                     first, skipped>>
      /\ RingFits(scmp_events', chain', first')
  BY EventTaken
<1>3. /\ ChunkFits(e, chain, first)
      /\ Buffer(e) = [size |-> chain[f], data |-> Part(f, EndOf(e))]
  BY <1>1, BufferIsPart
<1>4. /\ pc' = pc /\ ebpf_insns' = None /\ insn_offset' = 0
      /\ printed' = Append(printed, [flen |-> e.flen_total, insns |-> Buffer(e).data])
      /\ count_printed' = IF count_printed = None THEN e.filter_count ELSE count_printed
      /\ UNCHANGED <<ctx_status, warned>>
  BY DEF on_pid_events, Reset
<1>5. e.filter_count \in Nat
  BY <1>2 DEF Events
<1>6. /\ f \in 1 .. first /\ first \in Nat /\ f \in Nat /\ chain[f] \in Nat /\ chain[f] > 0
      /\ e.flen_total = chain[f] /\ EndOf(e) = chain[f]
  BY <1>1, <1>3, ChainLength DEF ChunkFits, TypeInv
<1>7. e.status = "PROG_DONE"
  OBVIOUS
<1> HIDE DEF e, f
<1>8. printed' = Append(printed, prog)
  BY <1>3, <1>4, <1>6
<1>9. prog \in Programs
  BY <1>6, PartType DEF Programs
<1>10. prog.insns[1][1] = f
  BY <1>6 DEF Part
<1> HIDE DEF prog
<1>11. /\ printed' \in Seq(Programs) /\ Len(printed') = n + 1 /\ n \in Nat
       /\ \A j \in 1 .. n : printed'[j] = printed[j]
       /\ printed'[n + 1] = prog
  BY <1>1, <1>8, <1>9, AppendProperties, LenProperties DEF TypeInv
<1>12. /\ \A j \in 1 .. n : PrintedFilter(j)' = PrintedFilter(j)
       /\ \A j : j = n + 1 => PrintedFilter(j)' = f
  BY <1>10, <1>11 DEF PrintedFilter
<1>13. TypeInv'
  <2>1. RingCap \in Nat
    BY CapturePidAssumption DEF CapturePidAssumption
  <2>2. Len(scmp_events') <= RingCap
    BY <1>1, <1>2, <2>1 DEF TypeInv
  <2> QED
    BY <1>1, <1>2, <1>4, <1>11, <2>2 DEF TypeInv
<1>14. RingInv'
  BY <1>2, <1>4 DEF RingInv, Walking
<1>15. WalkInv'
  BY <1>2, <1>4 DEF WalkInv, Walking
<1>16. BufferInv'
  <2>1. ASSUME Len(scmp_events') > 0, IsChunk(scmp_events'[1])
        PROVE  StartOf(scmp_events'[1]) = 0
    <3>1. 2 \in 1 .. Len(scmp_events) /\ scmp_events'[1] = scmp_events[2]
      BY <1>2, <2>1
    <3>2. Joins(scmp_events[1], scmp_events[2])
      BY <1>1, <1>2, <2>1, <3>1 DEF Inv, RingInv, RingFits
    <3> QED
      BY <1>2, <1>7, <3>1, <3>2 DEF Joins
  <2> QED
    BY <1>2, <1>4, <2>1 DEF BufferInv, Walking
<1>17. ASSUME NEW a \in 1 .. Len(scmp_events'), IsChunk(scmp_events'[a])
       PROVE  f > FilterOf(scmp_events'[a])
  <2>1. a + 1 \in 1 .. Len(scmp_events) /\ scmp_events'[a] = scmp_events[a + 1]
    BY <1>2
  <2>2. After(scmp_events[1], scmp_events[a + 1])
    BY <1>1, <1>2, <1>17, <2>1 DEF Inv, RingInv, RingFits
  <2> QED
    BY <1>2, <1>7, <2>1, <2>2 DEF After, f
<1>18. \A j \in 1 .. n : PrintedFilter(j) > f
  <2>1. 1 \in 1 .. Len(scmp_events) /\ IsChunk(scmp_events[1]) /\ f = FilterOf(scmp_events[1])
    BY <1>1, <1>2 DEF f
  <2> QED
    BY <2>1 DEF Inv, PrintedInv
<1>19. PrintedInv'
  <2>1. ASSUME NEW j \in 1 .. n + 1
        PROVE  /\ PrintedFilter(j)' \in 1 .. first'
               /\ printed'[j] = [flen |-> chain'[PrintedFilter(j)'],
                                 insns |-> Part(PrintedFilter(j)', chain'[PrintedFilter(j)'])]
               /\ \A a \in 1 .. Len(scmp_events') :
                    IsChunk(scmp_events'[a]) => PrintedFilter(j)' > FilterOf(scmp_events'[a])
               /\ \A k \in 1 .. j - 1 : PrintedFilter(k)' > PrintedFilter(j)'
    <3>1. CASE j = n + 1
      <4>1. PrintedFilter(j)' = f /\ printed'[j] = prog
        BY <1>11, <1>12, <3>1
      <4>2. \A k \in 1 .. j - 1 : PrintedFilter(k)' > PrintedFilter(j)'
        BY <1>11, <1>12, <1>18, <3>1, <4>1
      <4> QED
        BY <1>2, <1>6, <1>17, <4>1, <4>2 DEF prog
    <3>2. CASE j # n + 1
      <4>1. j \in 1 .. n
        BY <1>11, <3>2
      <4>2. PrintedFilter(j)' = PrintedFilter(j) /\ printed'[j] = printed[j]
        BY <1>11, <1>12, <4>1
      <4>3. \A k \in 1 .. j - 1 : PrintedFilter(k)' = PrintedFilter(k)
        BY <1>11, <1>12, <4>1
      <4> QED
        BY <1>2, <4>1, <4>2, <4>3 DEF Inv, PrintedInv
    <3> QED
      BY <3>1, <3>2
  <2> QED
    BY <1>2, <1>4, <1>11, <2>1 DEF PrintedInv, Walking
<1>20. CountInv'
  <2>1. count_printed = None \/ count_printed >= first
    BY <1>1 DEF Inv, CountInv
  <2>2. e.filter_count >= first
    BY <1>3 DEF ChunkFits
  <2>3. e.filter_count # None
    BY <1>5, CapturePidAssumption DEF CapturePidAssumption
  <2> QED
    BY <1>2, <1>4, <1>5, <2>1, <2>2, <2>3 DEF Inv, CountInv, Walking
<1>21. f \notin skipped
  BY <1>1, <1>2 DEF Inv, SkippedInv, f
<1>22. SkippedInv'
  <2>1. ASSUME NEW j \in 1 .. n + 1 PROVE PrintedFilter(j)' \notin skipped
    <3>1. CASE j = n + 1
      BY <1>12, <1>21, <3>1
    <3>2. CASE j # n + 1
      BY <1>11, <1>12, <3>2 DEF Inv, SkippedInv
    <3> QED
      BY <3>1, <3>2
  <2> QED
    BY <1>2, <1>4, <1>11, <2>1 DEF Inv, SkippedInv
<1>23. CoverInv'
  <2>1. ASSUME NEW g, Handled(g) PROVE Handled(g)'
    <3>1. CASE g \in skipped \/ warned
      BY <1>2, <1>4, <3>1 DEF Handled
    <3>2. CASE \E j \in 1 .. n : PrintedFilter(j) = g
      BY <1>11, <1>12, <3>2 DEF Handled
    <3>3. CASE g = f
      <4>1. n + 1 \in 1 .. Len(printed')
        BY <1>11
      <4> QED
        BY <1>12, <3>3, <4>1 DEF Handled
    <3>4. CASE g # f /\ \E a \in 1 .. Len(scmp_events) :
                 /\ scmp_events[a].status \in {"PROG_DONE", "PROG_ABORTED"}
                 /\ FilterOf(scmp_events[a]) = g
      <4>1. PICK a \in 1 .. Len(scmp_events) :
              /\ scmp_events[a].status \in {"PROG_DONE", "PROG_ABORTED"}
              /\ FilterOf(scmp_events[a]) = g
        BY <3>4
      <4>2. a # 1
        BY <1>2, <3>4, <4>1 DEF f
      <4>3. a - 1 \in 1 .. Len(scmp_events') /\ (a - 1) + 1 = a
        BY <1>2, <4>2
      <4>4. scmp_events'[a - 1] = scmp_events[a]
        BY <1>2, <4>3
      <4> QED
        BY <4>1, <4>3, <4>4 DEF Handled
    <3> QED
      BY <2>1, <3>1, <3>2, <3>3, <3>4 DEF Handled
  <2>2. ASSUME Len(scmp_events') > 0, scmp_events'[Len(scmp_events')].status = "ALL_DONE"
        PROVE  scmp_events[Len(scmp_events)].status = "ALL_DONE"
    BY <1>2, <2>2
  <2> QED
    BY <1>2, <1>4, <2>1, <2>2 DEF Inv, CoverInv, Walking
<1> QED
  BY <1>13, <1>14, <1>15, <1>16, <1>19, <1>20, <1>22, <1>23 DEF Inv

\* A filter was given up in the middle.
LEMMA ProgAbortedInv ==
    ASSUME Inv, on_pid_events, Received.status = "PROG_ABORTED"
    PROVE  Inv'
<1> DEFINE e == Received
<1>1. TypeInv /\ IsChunk(e) /\ scmp_events # <<>>
  BY DEF Inv, IsChunk, ChunkStates, on_pid_events
<1>2. /\ pc = "poll" /\ Len(scmp_events) \in Nat /\ Len(scmp_events) > 0
      /\ e = scmp_events[1] /\ e \in Events
      /\ scmp_events' \in Seq(Events) /\ Len(scmp_events') = Len(scmp_events) - 1
      /\ \A a \in 1 .. Len(scmp_events') :
           a + 1 \in 1 .. Len(scmp_events) /\ scmp_events'[a] = scmp_events[a + 1]
      /\ UNCHANGED <<chain, filter, filter_count, prog_index, chunk_index, event_status,
                     first, skipped>>
      /\ RingFits(scmp_events', chain', first')
  BY EventTaken
<1>3. ChunkFits(e, chain, first)
  BY <1>1, BufferIsPart
<1>4. /\ pc' = pc /\ ebpf_insns' = None /\ insn_offset' = 0 /\ warned' = TRUE
      /\ count_printed' = IF count_printed = None THEN e.filter_count ELSE count_printed
      /\ UNCHANGED <<ctx_status, printed>>
  BY DEF on_pid_events, Reset
<1>5. e.filter_count \in Nat
  BY <1>2 DEF Events
<1>6. e.status = "PROG_ABORTED"
  OBVIOUS
<1> HIDE DEF e
<1>7. TypeInv'
  <2>1. RingCap \in Nat
    BY CapturePidAssumption DEF CapturePidAssumption
  <2>2. Len(scmp_events') <= RingCap
    BY <1>1, <1>2, <2>1 DEF TypeInv
  <2>3. warned' \in BOOLEAN
    BY <1>4
  <2> QED
    BY <1>1, <1>2, <1>4, <2>2, <2>3 DEF TypeInv
<1>8. RingInv'
  BY <1>2, <1>4 DEF RingInv, Walking
<1>9. WalkInv'
  BY <1>2, <1>4 DEF WalkInv, Walking
<1>10. BufferInv'
  <2>1. ASSUME Len(scmp_events') > 0, IsChunk(scmp_events'[1])
        PROVE  StartOf(scmp_events'[1]) = 0
    <3>1. 2 \in 1 .. Len(scmp_events) /\ scmp_events'[1] = scmp_events[2]
      BY <1>2, <2>1
    <3>2. Joins(scmp_events[1], scmp_events[2])
      BY <1>1, <1>2, <2>1, <3>1 DEF Inv, RingInv, RingFits
    <3> QED
      BY <1>2, <1>6, <3>1, <3>2 DEF Joins
  <2> QED
    BY <1>2, <1>4, <2>1 DEF BufferInv, Walking
<1>11. PrintedInv'
  <2>1. \A j : PrintedFilter(j)' = PrintedFilter(j)
    BY <1>4 DEF PrintedFilter
  <2>2. ASSUME NEW j \in 1 .. Len(printed), NEW a \in 1 .. Len(scmp_events'),
               IsChunk(scmp_events'[a])
        PROVE  PrintedFilter(j) > FilterOf(scmp_events'[a])
    BY <1>2, <2>2 DEF Inv, PrintedInv
  <2> QED
    BY <1>2, <1>4, <2>1, <2>2 DEF Inv, PrintedInv, Walking
<1>12. CountInv'
  <2>1. count_printed = None \/ count_printed >= first
    BY <1>1 DEF Inv, CountInv
  <2>2. e.filter_count >= first
    BY <1>3 DEF ChunkFits
  <2>3. e.filter_count # None
    BY <1>5, CapturePidAssumption DEF CapturePidAssumption
  <2> QED
    BY <1>2, <1>4, <1>5, <2>1, <2>2, <2>3 DEF Inv, CountInv, Walking
<1>13. SkippedInv'
  BY <1>2, <1>4 DEF Inv, SkippedInv, PrintedFilter
<1>14. CoverInv'
  <2>1. \A g : Handled(g)'
    BY <1>4 DEF Handled
  <2> QED
    BY <1>2, <1>4, <2>1 DEF CoverInv, Walking
<1> QED
  BY <1>7, <1>8, <1>9, <1>10, <1>11, <1>12, <1>13, <1>14 DEF Inv

\* The last event: nothing comes after it.
LEMMA LastEventInv ==
    ASSUME Inv, on_pid_events, ~IsChunk(Received)
    PROVE  Inv'
<1> DEFINE e == Received
<1>1. TypeInv /\ scmp_events # <<>>
  BY DEF Inv, on_pid_events
<1>2. /\ pc = "poll" /\ e = scmp_events[1] /\ e \in Events /\ e.filter_count = 0
      /\ scmp_events' \in Seq(Events) /\ RingFits(scmp_events', chain', first')
      /\ UNCHANGED <<chain, filter, filter_count, prog_index, chunk_index, event_status,
                     first, skipped>>
  BY EventTaken
<1>3. Len(scmp_events') = 0
  BY EventTaken
<1>4. Len(scmp_events) = 1
  <2>1. Len(scmp_events) \in Nat /\ Len(scmp_events') = Len(scmp_events) - 1
    BY EventTaken
  <2> QED
    BY <1>3, <2>1
<1>5. e.status \in EndStates
  BY <1>2 DEF Events, IsChunk
<1>6. /\ \/ pc' = "error" /\ UNCHANGED <<count_printed, ctx_status, warned>>
         \/ /\ pc' = "poll" /\ e.status # "PID_NOT_FOUND"
            /\ count_printed' = IF count_printed = None THEN e.filter_count ELSE count_printed
            /\ ctx_status' = e.status
            /\ warned' = (warned \/ e.status # "ALL_DONE")
      /\ UNCHANGED <<insn_offset, ebpf_insns, printed>>
  BY <1>2, <1>5 DEF on_pid_events, EndStates, userVars
<1> HIDE DEF e
<1>7. warned' \in BOOLEAN
  BY <1>1, <1>6 DEF TypeInv
<1>8. pc' \in {"poll", "error"} /\ pc' \notin Walking
  BY <1>6 DEF Walking
<1>9. ctx_status' \in {"CHUNK_DONE", "ALL_DONE", "TRUNCATED", "TASK_ABORTED"}
  BY <1>1, <1>5, <1>6 DEF TypeInv, EndStates
<1>10. TypeInv'
  <2>1. RingCap \in Nat
    BY CapturePidAssumption DEF CapturePidAssumption
  <2>2. Len(scmp_events') <= RingCap
    BY <1>3, <2>1
  <2> QED
    BY <1>1, <1>2, <1>6, <1>7, <1>8, <1>9, <2>2 DEF TypeInv, Ended
<1>11. RingInv'
  BY <1>2, <1>8 DEF RingInv
<1>12. WalkInv'
  BY <1>3, <1>8 DEF WalkInv, Walking
<1>13. BufferInv'
  BY <1>3, <1>6, <1>8 DEF Inv, BufferInv
<1>14. \A j : PrintedFilter(j)' = PrintedFilter(j)
  BY <1>6 DEF PrintedFilter
<1>15. PrintedInv' /\ SkippedInv'
  BY <1>2, <1>3, <1>6, <1>8, <1>14 DEF Inv, PrintedInv, SkippedInv, Walking
<1>16. CountInv'
  <2>1. count_printed = None => printed = <<>>
    BY DEF Inv, CountInv
  <2>2. scmp_events' = <<>>
    BY EventTaken
  <2>3. None \notin Nat
    BY CapturePidAssumption DEF CapturePidAssumption
  <2> QED
    BY <1>2, <1>6, <1>8, <2>1, <2>2, <2>3 DEF Inv, CountInv
<1>17. CoverInv'
  <2>1. ctx_status = "ALL_DONE" \/ e.status = "ALL_DONE" => \A f \in 1 .. first : Handled(f)
    <3>1. Len(scmp_events) > 0 /\ scmp_events[Len(scmp_events)] = e
      BY <1>2, <1>4
    <3> QED
      BY <3>1 DEF Inv, CoverInv
  <2>2. ASSUME NEW f, Handled(f) PROVE Handled(f)'
    <3>1. ~\E a \in 1 .. Len(scmp_events) : scmp_events[a].status \in {"PROG_DONE", "PROG_ABORTED"}
      BY <1>2, <1>4, <1>5 DEF EndStates
    <3>2. warned => warned'
      BY <1>6
    <3> QED
      BY <1>2, <1>6, <1>14, <2>2, <3>1, <3>2 DEF Handled
  <2>3. ctx_status' = "ALL_DONE" => \A f \in 1 .. first' : Handled(f)'
    BY <1>2, <1>6, <2>1, <2>2
  <2>4. ctx_status' \in {"TRUNCATED", "TASK_ABORTED"} => warned'
    BY <1>6 DEF Inv, CoverInv
  <2> QED
    BY <1>3, <1>8, <2>3, <2>4 DEF CoverInv, Walking
<1> QED
  BY <1>10, <1>11, <1>12, <1>13, <1>15, <1>16, <1>17 DEF Inv

LEMMA NextInv == Inv /\ [Next]_vars => Inv'
<1> SUFFICES ASSUME Inv, [Next]_vars PROVE Inv'
  OBVIOUS
<1>1. CASE UNCHANGED vars
  <2>1. UNCHANGED <<chain, pc, filter, filter_count, prog_index, chunk_index, event_status,
                    scmp_events, first, skipped, insn_offset, count_printed, ebpf_insns, ctx_status,
                    printed, warned>>
    BY <1>1 DEF vars, targetVars, bpfVars, userVars
  <2>2. TypeInv' /\ CountInv'
    BY <2>1 DEF Inv, TypeInv, CountInv
  <2>6. RingInv'
    BY <2>1 DEF Inv, RingInv
  <2>7. BufferInv'
    BY <2>1 DEF Inv, BufferInv
  <2>3. WalkInv'
    BY <2>1 DEF Inv, WalkInv, LastIsOpen
  <2>4. PrintedInv' /\ SkippedInv'
    BY <2>1 DEF Inv, PrintedInv, SkippedInv, PrintedFilter
  <2>5. CoverInv'
    BY <2>1 DEF Inv, CoverInv, Handled, PrintedFilter
  <2> QED
    BY <2>2, <2>3, <2>4, <2>5, <2>6, <2>7 DEF Inv
<1>2. CASE on_pid_events
  <2>1. IsChunk(Received) => Received.status \in {"CHUNK_DONE", "PROG_DONE", "PROG_ABORTED"}
    BY DEF IsChunk, ChunkStates
  <2> QED
    BY <1>2, <2>1, ChunkDoneInv, ProgDoneInv, ProgAbortedInv, LastEventInv
<1>3. CASE ReadFilter \/ ReadCount \/ ReadProg
  BY <1>3, ReadFilterInv, ReadCountInv, ReadProgInv
<1>4. CASE \E s \in {"PID_NOT_FOUND", "TASK_ABORTED"} : ReadTaskFails(s)
  BY <1>4, ReadTaskFailsInv
<1>5. CASE dump_chunk \/ NextFilter \/ EndEvent
  BY <1>5, DumpChunkInv, NextFilterInv, EndEventInv
<1>6. CASE ConversionFails \/ PollEnds
  BY <1>6, PollStops
<1>7. CASE Load
  BY <1>7, LoadInv
<1> QED
  BY <1>1, <1>2, <1>3, <1>4, <1>5, <1>6, <1>7 DEF Next, Capture, Terminated

-----------------------------------------------------------------------------
\* The invariant is one of every behaviour.
THEOREM InvCorrect == Spec => []Inv
  BY InitInv, NextInv, PTL DEF Spec

\* The walk stays in the chain and within its 32 filters, and the ring never
\* holds more than it has room for.
THEOREM TypeCorrect == Spec => []TypeOK
<1>1. Inv => TypeOK
  <2> SUFFICES ASSUME Inv PROVE TypeOK
    OBVIOUS
  <2>1. TypeInv /\ Len(chain) \in Nat
    BY ChainLength DEF Inv
  <2> QED
    BY <2>1 DEF TypeInv, TypeOK, Walking
<1> QED
  BY <1>1, InvCorrect, PTL

\* No chunk is copied past the end of the buffer made for the first chunk of
\* its filter, however the walk was cut short before (the memcpy of
\* on_pid_events).
THEOREM CopyFitsCorrect == Spec => []CopyFits
<1>1. Inv => CopyFits
  <2> SUFFICES ASSUME Inv, scmp_events # <<>>, Received.status \in {"CHUNK_DONE", "PROG_DONE"}
               PROVE  /\ insn_offset + Len(Received.insns) <= Buffer(Received).size
                      /\ Buffer(Received).size = Received.flen_total
    BY DEF CopyFits
  <2>1. IsChunk(Received)
    BY DEF IsChunk, ChunkStates
  <2>2. /\ ChunkFits(Received, chain, first)
        /\ Buffer(Received) = [size |-> chain[FilterOf(Received)],
                               data |-> Part(FilterOf(Received), EndOf(Received))]
        /\ insn_offset + Len(Received.insns) = EndOf(Received)
    BY <2>1, BufferIsPart
  <2>3. Buffer(Received).size = chain[FilterOf(Received)]
    BY <2>2
  <2> QED
    BY <2>2, <2>3 DEF ChunkFits
<1> QED
  BY <1>1, InvCorrect, PTL

\* What is disassembled is a whole filter of the target, and the filters come
\* newest first (dump_chunk, on_pid_events).
THEOREM PrintedWholeCorrect == Spec => []PrintedWhole
<1>1. Inv => PrintedWhole
  <2> SUFFICES ASSUME Inv, NEW i \in DOMAIN printed
               PROVE  \E f \in 1 .. first :
                        /\ printed[i] = [flen |-> chain[f], insns |-> [k \in 1 .. chain[f] |-> <<f, k>>]]
                        /\ \A j \in 1 .. i - 1 : printed[j].insns[1][1] > f
    BY DEF PrintedWhole
  <2>1. printed \in Seq(Programs)
    BY DEF Inv, TypeInv
  <2>2. i \in 1 .. Len(printed)
    BY <2>1, LenProperties
  <2>3. /\ PrintedFilter(i) \in 1 .. first
        /\ printed[i] = [flen |-> chain[PrintedFilter(i)],
                         insns |-> Part(PrintedFilter(i), chain[PrintedFilter(i)])]
        /\ \A j \in 1 .. i - 1 : PrintedFilter(j) > PrintedFilter(i)
    BY <2>2 DEF Inv, PrintedInv
  <2>4. /\ printed[i] = [flen |-> chain[PrintedFilter(i)],
                         insns |-> [k \in 1 .. chain[PrintedFilter(i)] |-> <<PrintedFilter(i), k>>]]
        /\ \A j \in 1 .. i - 1 : printed[j].insns[1][1] > PrintedFilter(i)
    BY <2>3 DEF PrintedFilter, Part
  <2> QED
    BY <2>3, <2>4
<1> QED
  BY <1>1, InvCorrect, PTL

\* As many filters are printed as there are programs disassembled.
LEMMA PrintedDistinct ==
    ASSUME Inv
    PROVE  LET P == {PrintedFilter(j) : j \in 1 .. Len(printed)}
           IN  /\ Len(printed) \in Nat /\ P \subseteq 1 .. first
               /\ IsFiniteSet(P) /\ Cardinality(P) = Len(printed)
<1> DEFINE n == Len(printed)
           P == {PrintedFilter(j) : j \in 1 .. n}
           F == [j \in 1 .. n |-> PrintedFilter(j)]
<1>1. n \in Nat
  BY LenProperties DEF Inv, TypeInv
<1>2. first \in Nat
  BY ChainLength DEF Inv, TypeInv
<1>3. \A j \in 1 .. n : PrintedFilter(j) \in 1 .. first /\ PrintedFilter(j) \in Nat
  <2>1. \A j \in 1 .. n : PrintedFilter(j) \in 1 .. first
    BY DEF Inv, PrintedInv
  <2> QED
    BY <1>2, <2>1
<1>4. \A a, b \in 1 .. n : a < b => PrintedFilter(a) > PrintedFilter(b)
  <2> SUFFICES ASSUME NEW a \in 1 .. n, NEW b \in 1 .. n, a < b
               PROVE  PrintedFilter(a) > PrintedFilter(b)
    OBVIOUS
  <2>1. a \in 1 .. b - 1
    BY <1>1
  <2> QED
    BY <2>1 DEF Inv, PrintedInv
<1>5. F \in [1 .. n -> P]
  OBVIOUS
<1>6. \A a, b \in 1 .. n : F[a] = F[b] => a = b
  <2> SUFFICES ASSUME NEW a \in 1 .. n, NEW b \in 1 .. n, PrintedFilter(a) = PrintedFilter(b)
               PROVE  a = b
    OBVIOUS
  <2> QED
    BY <1>1, <1>3, <1>4
<1>7. \A t \in P : \E a \in 1 .. n : F[a] = t
  OBVIOUS
<1>8. F \in Bijection(1 .. n, P)
  <2> HIDE DEF F, P, n
  <2> QED
    BY <1>5, <1>6, <1>7, Fun_IsBij
<1>9. ExistsBijection(1 .. n, P)
  BY <1>8 DEF ExistsBijection
<1>10. IsFiniteSet(1 .. n) /\ Cardinality(1 .. n) = n
  <2> HIDE DEF n
  <2>1. 1 \in Int /\ n \in Int
    BY <1>1
  <2>2. IsFiniteSet(1 .. n) /\ Cardinality(1 .. n) = IF 1 > n THEN 0 ELSE n - 1 + 1
    BY <2>1, FS_Interval
  <2> QED
    BY <1>1, <2>2
<1>11. IsFiniteSet(P) /\ Cardinality(P) = n
  <2> HIDE DEF P, n
  <2> QED
    BY <1>9, <1>10, FS_Bijection
<1> QED
  BY <1>1, <1>3, <1>11

\* When capture -p ends well and has warned of nothing it has printed every
\* filter there was when the walk began, but those it could not read; and never
\* more than it announced.
THEOREM NothingMissingCorrect == Spec => []NothingMissing
<1> DEFINE P == {PrintedFilter(j) : j \in 1 .. Len(printed)}
<1>1. ASSUME Inv, pc = "done", ~warned
      PROVE  Len(printed) + Cardinality(skipped) = first
  <2>1. TypeInv /\ first \in Nat /\ skipped \subseteq 1 .. first
    BY <1>1, ChainLength DEF Inv, TypeInv
  <2>2. scmp_events = <<>> /\ Len(scmp_events) = 0 /\ ctx_status = "ALL_DONE"
    BY <1>1, <2>1, RingLength DEF Inv, CoverInv, TypeInv
  <2>3. \A f \in 1 .. first : f \in skipped \/ f \in P
    BY <1>1, <2>2 DEF Inv, CoverInv, Handled
  <2>4. /\ Len(printed) \in Nat /\ P \subseteq 1 .. first
        /\ IsFiniteSet(P) /\ Cardinality(P) = Len(printed)
    BY <1>1, PrintedDistinct
  <2>5. \A f \in P : f \notin skipped
    BY <1>1 DEF Inv, SkippedInv
  <2> HIDE DEF P
  <2>6. P \cup skipped = 1 .. first /\ P \cap skipped = {}
    BY <2>1, <2>3, <2>4, <2>5
  <2>7. IsFiniteSet(1 .. first) /\ Cardinality(1 .. first) = first
    BY <2>1, FS_Interval
  <2>8. IsFiniteSet(skipped)
    BY <2>1, <2>7, FS_Subset
  <2>9. Cardinality(P \cup skipped) = Cardinality(P) + Cardinality(skipped) - Cardinality(P \cap skipped)
    BY <2>4, <2>8, FS_Union
  <2>10. Cardinality(skipped) \in Nat /\ Cardinality(P \cap skipped) = 0
    BY <2>6, <2>8, FS_CardinalityType, FS_EmptySet
  <2>11. first = Len(printed) + Cardinality(skipped) - 0
    BY <2>4, <2>6, <2>7, <2>9, <2>10
  <2> QED
    BY <2>4, <2>10, <2>11
<1>2. ASSUME Inv, count_printed # None
      PROVE  Len(printed) <= count_printed
  <2>1. TypeInv /\ first \in Nat
    BY <1>2, ChainLength DEF Inv, TypeInv
  <2>2. /\ Len(printed) \in Nat /\ P \subseteq 1 .. first
        /\ IsFiniteSet(P) /\ Cardinality(P) = Len(printed)
    BY <1>2, PrintedDistinct
  <2> HIDE DEF P
  <2>3. IsFiniteSet(1 .. first) /\ Cardinality(1 .. first) = first
    BY <2>1, FS_Interval
  <2>4. Cardinality(P) <= first
    BY <2>2, <2>3, FS_Subset
  <2>5. count_printed \in Nat /\ (count_printed >= first \/ printed = <<>>)
    BY <1>2 DEF Inv, CountInv
  <2>6. printed = <<>> => Len(printed) = 0
    BY EmptySeq
  <2> QED
    BY <2>1, <2>2, <2>4, <2>5, <2>6
<1>3. Inv => NothingMissing
  BY <1>1, <1>2 DEF NothingMissing
<1> QED
  BY <1>3, InvCorrect, PTL

=============================================================================
