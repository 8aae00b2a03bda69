----------------------------- MODULE CapturePid -----------------------------
(***************************************************************************)
(* Capture pid (ebpf/capture_pid.bpf.c, and capture_pid and on_pid_events  *)
(* of src/capture.c): a call of do_seccomp that ceccomp makes itself runs  *)
(* an eBPF program that walks the filters of another task, newest first,   *)
(* and sends each in chunks through a ring buffer; ceccomp then puts the   *)
(* chunks together again.                                                  *)
(*                                                                         *)
(* The program runs to its end before the first event is read, so nothing  *)
(* frees room in the ring meanwhile.  The target goes on: it may load      *)
(* another filter between two reads of its task_struct, and when it dies   *)
(* the reads may fail.                                                     *)
(***************************************************************************)
EXTENDS Integers, Sequences, FiniteSets

CONSTANTS
    Lengths,        \* of filters, in eBPF instructions
    ChunkLen,       \* CHUNK_INSN_SIZE
    MaxProgs,       \* the 32 filters the program goes through
    RingCap,        \* events that fit in scmp_events
    MaxFilters,     \* bound on the filters of the target
    MayFail,        \* reads of the target's structures may fail
    None

ASSUME CapturePidAssumption ==
    /\ Lengths \subseteq Nat \ {0}
    /\ ChunkLen \in Nat \ {0} /\ MaxProgs \in Nat /\ RingCap \in Nat \ {0}
    /\ MaxFilters \in Nat
    /\ MayFail \in BOOLEAN
    /\ None \notin Nat /\ None \notin [size : Nat, data : Seq(Nat \X Nat)]

VARIABLES
    chain,          \* the target's filters, oldest first: their lengths
    \* the eBPF program
    pc,             \* where it is, or where capture_pid is
    filter,         \* the filter it is at, a position in chain, or 0 for NULL
    filter_count, prog_index, chunk_index,
    event_status,
    scmp_events,    \* the ring
    \* ceccomp
    insn_offset, count_printed,
    ebpf_insns,     \* the buffer: its size and what was copied where
    ctx_status,     \* ctx.event.status
    \* history
    first,          \* the filter the walk began at
    skipped,        \* filters the program could not read
    printed,        \* the programs disassembled
    warned

targetVars == <<chain>>
bpfVars == <<filter, filter_count, prog_index, chunk_index, event_status, scmp_events,
             first, skipped>>
userVars == <<insn_offset, count_printed, ebpf_insns, ctx_status, printed, warned>>
vars == <<targetVars, pc, bpfVars, userVars>>

Ended == {"done", "error"}

Init ==
    /\ chain \in UNION {[1 .. n -> Lengths] : n \in 0 .. MaxFilters}
    /\ pc = "trigger"
    /\ filter = 0 /\ filter_count = 0 /\ prog_index = 0 /\ chunk_index = 0
    /\ event_status = "ALL_DONE"
    /\ scmp_events = <<>>
    /\ insn_offset = 0 /\ count_printed = None
    /\ ebpf_insns = None
    /\ ctx_status = "CHUNK_DONE"
    /\ first = 0 /\ skipped = {} /\ printed = <<>> /\ warned = FALSE

\* The target loads one more filter.
Load ==
    /\ pc \notin Ended
    /\ Len(chain) < MaxFilters
    /\ \E n \in Lengths : chain' = Append(chain, n)
    /\ UNCHANGED <<pc, bpfVars, userVars>>

-----------------------------------------------------------------------------
(***************************************************************************)
(* The eBPF program capture_pid.                                           *)
(***************************************************************************)
\* bpf_task_from_pid, and the read of seccomp.filter.
ReadFilter ==
    /\ pc = "trigger"
    /\ pc' = "count"
    /\ filter' = Len(chain) /\ first' = Len(chain)
    /\ UNCHANGED <<targetVars, userVars>>
    /\ UNCHANGED <<filter_count, prog_index, chunk_index, event_status, scmp_events, skipped>>

\* Any of the reads before the loop fails, or there is no such task.
ReadTaskFails(status) ==
    /\ MayFail
    /\ \/ pc = "trigger" /\ status \in {"PID_NOT_FOUND", "TASK_ABORTED"}
       \/ pc = "count" /\ status = "TASK_ABORTED"
    /\ event_status' = status
    /\ pc' = "end"
    /\ UNCHANGED <<targetVars, userVars>>
    /\ UNCHANGED <<filter, filter_count, prog_index, chunk_index, scmp_events, first, skipped>>

\* seccomp.filter_count, which need not belong to the filter read before.
ReadCount ==
    /\ pc = "count"
    /\ filter_count' = Len(chain)
    /\ pc' = "loop"
    /\ UNCHANGED <<targetVars, userVars>>
    /\ UNCHANGED <<filter, prog_index, chunk_index, event_status, scmp_events, first, skipped>>

\* Mutant of LoopGoesOn: the walk goes one filter too far.
LoopGoesOnOneMore == filter # 0 /\ prog_index <= MaxProgs

LoopGoesOn == filter # 0 /\ prog_index < MaxProgs

\* The head of the loop, and the reads of prog and of its length.
ReadProg ==
    /\ pc = "loop"
    /\ \/ /\ LoopGoesOn
          /\ pc' = "chunk" /\ chunk_index' = 0
          /\ UNCHANGED skipped
       \/ /\ LoopGoesOn /\ MayFail
          /\ pc' = "next" /\ skipped' = skipped \cup {filter}
          /\ UNCHANGED chunk_index
       \/ /\ ~LoopGoesOn
          /\ pc' = "end"
          /\ UNCHANGED <<chunk_index, skipped>>
    /\ UNCHANGED <<targetVars, userVars>>
    /\ UNCHANGED <<filter, filter_count, prog_index, event_status, scmp_events, first>>

\* Mutant of ChunkStatus: a last chunk that is full is not seen to be the last.
ChunkStatusStrict(remaining) == IF remaining < ChunkLen THEN "PROG_DONE" ELSE "CHUNK_DONE"

ChunkStatus(remaining) == IF remaining <= ChunkLen THEN "PROG_DONE" ELSE "CHUNK_DONE"

Smaller(m, n) == IF m <= n THEN m ELSE n

loop_times == (chain[filter] + ChunkLen - 1) \div ChunkLen

\* bpf_loop goes on to the next chunk, or is done.
NextChunk ==
    IF chunk_index + 1 < loop_times
      THEN pc' = "chunk" /\ chunk_index' = chunk_index + 1
      ELSE pc' = "next" /\ UNCHANGED chunk_index

\* dump_chunk; what is copied from filter f at offset k is <<f, k>>.
dump_chunk ==
    LET start     == chunk_index * ChunkLen
        remaining == chain[filter] - start
        flen      == Smaller(remaining, ChunkLen)
        event(status) == [status |-> status, flen_total |-> chain[filter],
                          filter_count |-> filter_count,
                          insns |-> [k \in 1 .. flen |-> <<filter, start + k>>]]
    IN  /\ pc = "chunk"
        /\ \/ /\ Len(scmp_events) = RingCap
              /\ pc' = "next"
              /\ UNCHANGED <<scmp_events, chunk_index, skipped>>
           \/ /\ Len(scmp_events) < RingCap
              /\ scmp_events' = Append(scmp_events, event(ChunkStatus(remaining)))
              /\ NextChunk
              /\ UNCHANGED skipped
           \/ /\ Len(scmp_events) < RingCap /\ MayFail
              /\ scmp_events' = Append(scmp_events, event("PROG_ABORTED"))
              /\ pc' = "next"
              /\ UNCHANGED <<chunk_index, skipped>>
        /\ UNCHANGED <<targetVars, userVars>>
        /\ UNCHANGED <<filter, filter_count, prog_index, event_status, first>>

\* filter->prev.
NextFilter ==
    /\ pc = "next"
    /\ \/ filter' = filter - 1 /\ prog_index' = prog_index + 1 /\ pc' = "loop"
          /\ UNCHANGED event_status
       \/ /\ MayFail
          /\ event_status' = "TASK_ABORTED" /\ pc' = "end"
          /\ UNCHANGED <<filter, prog_index>>
    /\ UNCHANGED <<targetVars, userVars>>
    /\ UNCHANGED <<filter_count, chunk_index, scmp_events, first, skipped>>

\* Mutant of EndStatus: what is left of the chain is not looked at.
EndStatusAllDone == event_status

EndStatus == IF event_status = "ALL_DONE" /\ filter # 0 THEN "TRUNCATED" ELSE event_status

\* The last event, if there is room for it.
EndEvent ==
    /\ pc = "end"
    /\ pc' = "poll"
    /\ scmp_events' =
         IF Len(scmp_events) = RingCap THEN scmp_events
         ELSE Append(scmp_events, [status |-> EndStatus, flen_total |-> 0,
                                   filter_count |-> 0, insns |-> <<>>])
    /\ UNCHANGED <<targetVars, userVars>>
    /\ UNCHANGED <<filter, filter_count, prog_index, chunk_index, event_status, first, skipped>>

-----------------------------------------------------------------------------
(***************************************************************************)
(* capture_pid of capture.c.                                               *)
(***************************************************************************)
Received == Head(scmp_events)

\* malloc for the first chunk, and the memcpy; nothing keeps it in the buffer.
Buffer(event) ==
    LET buf  == IF ebpf_insns = None THEN [size |-> event.flen_total, data |-> <<>>]
                                     ELSE ebpf_insns
        upto == insn_offset + Len(event.insns)
    IN  [buf EXCEPT !.data =
           [k \in (DOMAIN buf.data) \cup (insn_offset + 1 .. upto) |->
              IF k \in insn_offset + 1 .. upto THEN event.insns[k - insn_offset]
                                               ELSE buf.data[k]]]

\* Mutant of Reset: only the buffer is freed.
ResetBufferOnly == ebpf_insns' = None /\ UNCHANGED insn_offset

Reset == ebpf_insns' = None /\ insn_offset' = 0

on_pid_events ==
    LET event == Received
    IN  /\ pc = "poll"
        /\ scmp_events # <<>>
        /\ scmp_events' = Tail(scmp_events)
        /\ IF event.status = "PID_NOT_FOUND"
             THEN pc' = "error" /\ UNCHANGED userVars
             ELSE /\ UNCHANGED pc
                  /\ count_printed' = IF count_printed = None THEN event.filter_count
                                                              ELSE count_printed
                  /\ CASE event.status = "CHUNK_DONE" ->
                            /\ ebpf_insns' = Buffer(event)
                            /\ insn_offset' = insn_offset + Len(event.insns)
                            /\ UNCHANGED <<ctx_status, printed, warned>>
                       [] event.status = "PROG_DONE" ->
                            /\ printed' = Append(printed,
                                 [flen |-> event.flen_total, insns |-> Buffer(event).data])
                            /\ Reset
                            /\ UNCHANGED <<ctx_status, warned>>
                       [] event.status = "PROG_ABORTED" ->
                            Reset /\ warned' = TRUE /\ UNCHANGED <<ctx_status, printed>>
                       [] OTHER ->
                            /\ ctx_status' = event.status
                            /\ warned' = (warned \/ event.status # "ALL_DONE")
                            /\ UNCHANGED <<insn_offset, ebpf_insns, printed>>
    /\ UNCHANGED <<targetVars, filter, filter_count, prog_index, chunk_index, event_status,
                   first, skipped>>

\* do_ebpf_disasm: ebpf2cbpf does not know the program, and error () is called.
ConversionFails ==
    /\ pc = "poll"
    /\ scmp_events # <<>>
    /\ Received.status = "PROG_DONE"
    /\ pc' = "error"
    /\ UNCHANGED <<targetVars, bpfVars, userVars>>

\* Mutant of PollEnds: a poll that times out is tried again.
PollEndsRetries ==
    /\ pc = "poll"
    /\ scmp_events = <<>>
    /\ ctx_status \in {"ALL_DONE", "TRUNCATED", "TASK_ABORTED"}
    /\ pc' = "done"
    /\ UNCHANGED <<targetVars, bpfVars, userVars>>

\* ring_buffer__poll has called on_pid_events for every event.  Without a last
\* one the next poll waits three seconds in vain.
PollEnds ==
    /\ pc = "poll"
    /\ scmp_events = <<>>
    /\ pc' = IF ctx_status \in {"ALL_DONE", "TRUNCATED", "TASK_ABORTED"} THEN "done"
                                                                         ELSE "error"
    /\ UNCHANGED <<targetVars, bpfVars, userVars>>

Capture ==
    \/ ReadFilter
    \/ \E s \in {"PID_NOT_FOUND", "TASK_ABORTED"} : ReadTaskFails(s)
    \/ ReadCount \/ ReadProg \/ dump_chunk \/ NextFilter \/ EndEvent
    \/ on_pid_events \/ ConversionFails \/ PollEnds

Terminated == pc \in Ended /\ UNCHANGED vars

Next == Capture \/ Load \/ Terminated

Spec == Init /\ [][Next]_vars
FairSpec == Spec /\ WF_vars(Capture)

-----------------------------------------------------------------------------
TypeOK ==
    /\ filter \in 0 .. Len(chain)
    /\ prog_index \in 0 .. MaxProgs
    /\ Len(scmp_events) <= RingCap
    /\ pc \in {"trigger", "count", "loop", "chunk", "next", "end", "poll"} \cup Ended
    /\ ctx_status \in {"CHUNK_DONE", "ALL_DONE", "TRUNCATED", "TASK_ABORTED"}

\* No chunk is copied past the end of the buffer, whose size is that of the
\* program whose first chunk it was made for: one that was given up in the
\* middle, for want of room or by a failed read, leaves nothing to the next
\* (the memcpy of on_pid_events).
CopyFits ==
    pc = "poll" /\ scmp_events # <<>> /\ Received.status \in {"CHUNK_DONE", "PROG_DONE"}
      => LET buf == Buffer(Received)
         IN  /\ insn_offset + Len(Received.insns) <= buf.size
             /\ buf.size = Received.flen_total

\* What is disassembled is a filter of the target, from its first instruction
\* to its last, and the filters come newest first (dump_chunk, on_pid_events).
PrintedWhole ==
    \A i \in DOMAIN printed :
        \E f \in 1 .. first :
            /\ printed[i] = [flen |-> chain[f], insns |-> [k \in 1 .. chain[f] |-> <<f, k>>]]
            /\ \A j \in 1 .. i - 1 : printed[j].insns[1][1] > f

\* When capture ends well and has warned of nothing, it has printed every
\* filter the target had when the walk began, but those whose program could
\* not be read; and never more filters than the count it announces, although
\* the target may load one between the two reads.
NothingMissing ==
    /\ pc = "done" /\ ~warned => Len(printed) + Cardinality(skipped) = first
    /\ count_printed # None => Len(printed) <= count_printed

\* capture -p always ends: when the ring had no room for the last event, by
\* the time-out of the poll.
CaptureEnds == <>(pc \in Ended)
=============================================================================
