# Ceccomp in TLA+

Ceccomp reads, writes, runs and intercepts seccomp filters. This directory
holds TLA+ models of the parts of it that are hard to test, the TLC
configurations that check them on small instances, and proofs that TLAPS checks
for every instance. Paths below are relative to the repository; its C sources
are under `src/`, `include/` and `ebpf/`.

`PROJECT.json` is the index: components, runs, which definition stands for which
lines, hazards, findings, theorems.

## The system and its parts

| Part | State | Operations | Talks to | What is hard |
|---|---|---|---|---|
| Source and scanner (`read_source.c`, `scanner.c`) | a map of the text, a cursor | read, split and clean the text, next line, next token | parser | line breaks of three kinds and colours are removed in place; limits on lines and length |
| Parser (`parser.c`, `hash.c`) | `text_v`, `code_ptr_v`, `code_nr`, the label table | one line at a time | resolver, emu, asm | two numberings of the same lines; error paths that leave by `longjmp` |
| Resolver (`resolver.c`) | `mem_valid`, `masks`, offsets in the jumps | one forward pass | emu, asm | a data-flow analysis over joins; 16-bit offsets |
| emu, probe (`emu.c`, `probe.c`) | registers, scratch memory, position in the text | run a filter for one call, or for a list of them | parser, resolver, trace | memory that outlives a run; must agree with the kernel |
| trace (`trace.c`) | arch and call numbers last seen, what `waitpid` returned | follow tasks with ptrace, dump filters | the traced tasks, disasm | tasks stop, fork and die between any two requests |
| capture (`capture.c`, `capture.bpf.c`) | a map of 16 filters, a ring buffer | two eBPF programs, a printing process | every task of the system | concurrency of tasks, full map and ring, attach while calls are under way |
| capture -p (`capture.c`, `capture_pid.bpf.c`) | walk over a task's filters, ring, a buffer | chunk, send, put together | the target, ebpf2cbpf | a walk given up anywhere, a target that goes on |
| asm (`asm.c`), disasm (`disasm.c`, `decoder.c`, `check_prog.c`, `formatter.c`) | none beyond one program | encode, check, decode, print | parser and resolver; render, ebpf2cbpf | what disasm prints asm must take back; a second data-flow analysis |
| render (`render.c`) | what is known of `$A`, `$X` and memory per line | name calls and arches | disasm | joins of knowledge across branches |
| ebpf2cbpf (`bpf_trans.c`) | a bitmap and flags per instruction | three passes that take the kernel's eBPF back | capture -p, disasm of eBPF | undoing the kernel's translation and blinding; distances that change while they are used |
| command line, messages, containers | options | | all | |

What makes each part correct:

- *parser and resolver*: a text that is accepted has consistent numbers and
  labels; it is accepted exactly when no path reads scratch memory it has not
  written (the kernel's own rule).
- *emu and probe*: the walk ends, no assertion fails, no index leaves its
  vector, and registers, branches and verdict are the kernel's, whatever earlier
  runs left behind.
- *trace*: every filter loaded is printed, once, and no failed load is; no task is
  left stopped; job control is not disturbed; tracing ends when the tasks do.
- *capture*: what is printed was loaded, by that task on that arch; a load is
  printed or there is a known reason; the map does not fill with rubbish.
- *disasm and render*: what is wrong in a filter is reported and nothing indexes
  past an array because of it; a statement means what its instruction does; a
  name stands only where the number really is one of that call or arch.
- *capture -p*: chunks are put together into whole filters, within the buffer;
  nothing is missing without a warning; the command ends.
- *asm*: an instruction does what its statement says, however the condition was
  written, and what disasm prints is assembled to the filter it was printed from.
- *ebpf2cbpf*: the classic filter decides every call as the eBPF one; no filter the
  kernel made is refused; no array is left, of a file cut short either.
- *source*: what is accepted is what the file says, line by line; a colour or a
  kind of line break makes no text wrong; the map always has room.

## Modules

| Module | Models | Extends |
|---|---|---|
| `Parser` | `parser.c`, `hash.c` | |
| `Resolver` | `resolver.c` | `Parser` |
| `Emulator` | `emu.c`, the emulating half of `probe.c` | `Resolver` |
| `BpfMachine` | the kernel's classic BPF machine: the abstract specification | |
| `Alu` | the arithmetic and comparisons of `emu.c`, `decode_return_k` | |
| `EmulatorProof` | theorems about `Emulator` | `Emulator` |
| `SeccompLoad` | how a call that sets a mode ends, `load_success` | |
| `Trace` | `program_trace`, `trace -p` with and without `-s`, the tracing half of `probe` | `SeccompLoad` |
| `Capture` | `capture.bpf.c`, `global_capture` | `SeccompLoad` |
| `CapturePid` | `capture_pid.bpf.c`, `capture_pid` of `capture.c` | |
| `SeccompLoadProof` | theorems about `SeccompLoad` | `SeccompLoad` |
| `TraceProof`, `CaptureProof`, `CapturePidProof` | theorems about the module of that name | that module |
| `Decoder` | `decoder.c`: an instruction to a statement | |
| `Asm` | `asm.c`: a statement to an instruction, and its return macros | |
| `Text` | the line between them: `formatter.c`, and what parser and resolver read of it | |
| `Disasm` | `disasm.c`, `check_prog.c`, `render.c`; composes the three above | `Decoder` |
| `DisasmProof` | theorems about `Disasm`, `Decoder`, `Text` and `Asm` | `Disasm` |
| `KernelFilter` | what the kernel makes of a filter: conversion, blinding, verdict (external) | |
| `Ebpf2Cbpf` | `bpf_trans.c`, the reading of eBPF in `disasm.c` | `KernelFilter` |
| `Source` | `read_source.c`, how `scanner.c` ends a line and a text | |
| `SourceProof` | theorems about `Source` | `Source` |
| `Ebpf2CbpfProof` | theorems about `Ebpf2Cbpf` and `KernelFilter` | `Ebpf2Cbpf` |
| `MCEmulator`, `MCTrace`, `MCCapture`, `MCDisasm`, `MCEbpf2Cbpf`, `MCSource` | small instances | |

An operator named for another one with a suffix (`valid_hereNoMask` for
`valid_here`), or beginning with `Mutant_`, and introduced as "Mutant of", is a deliberately wrong
version of the definition it stands before. No specification uses them; each is
there to show that the property it belongs to would notice that mistake.

### Parser, Resolver, Emulator

One process with a `phase`. `ParseLine` is one turn of the loop of `parser`:
what the scanner and the grammar make of a line is abstracted to a member of
`Lines` (a label and a statement, or the line that does not parse), while
everything that later phases rely on is kept: which lines count as code, the
`code_nr` a line and a label get, that a duplicate label turns even an empty
line into one of code, where the limit `BPF_MAXINSNS` is checked and where it is
passed by, a label on the line of the end of file.

`Resolver` goes over the code once. `valid_here` is `mem_valid &= masks[i]`, a
jump moves the words valid to the masks of its targets and leaves "everything"
for the line after it, and offsets are kept modulo 2^16 with the sign test of
the code. `entry` is a history variable: what `mem_valid` was at each line.

`Emulator` walks the text. `StartRun` is `init_attr`, which clears the
registers and not the memory, and `InitAttrFails` its way out for a call that has
no number. `CodeNrToTextNr` is the walk back from the target
of a jump to the line of its label. `written` is a history variable.

`BpfMachine` knows nothing of labels, lines or earlier runs: a program is code
with targets, its memory is undefined at the start of a run, and reading an
undefined word is no step it has. The refinement mapping of `Emulator` takes the
line to its `code_nr`, and memory to what this run has written. `KernelAgrees`
is the whole of `BpfMachine!Spec`, so a wrong register, branch or verdict, a read
of a word an earlier run wrote, and a wrong line after a jump are all violations.

### Trace

The tracer's variables are those of `parent` and `handle_syscall`; a task has a
state, the reason of its stop, the call it is in and its result. Between any two
ptrace requests of the tracer every task may go on, stop, fork or be killed, the
one being handled too. As in the code, failures of ptrace are not looked at; what
`PTRACE_GET_SYSCALL_INFO` leaves in an uninitialised variable when it fails is any
member of `Leftover`.

The kernel's side of ptrace (`EnterSyscall`, `LeaveSyscall`, `Fork`, `Signal`,
`Continue`, `Die`, `Release`, `Resume`, `Listen`) is external: it is written from
what the code relies on. Its parts are group-stop against event stop, the stop of
a forked child before or after its parent's event, the death that replaces a
report, and `PTRACE_O_EXITKILL`.

`trace -p` without `-s` seizes the process without options, interrupts it, asks for
its filters one after the other (`GetFilter`) until there are no more
(`GetFilterEnds`, which detaches) or a request fails (`GetFilterFails`, which does
not). `EMEDIUMTYPE` is left out: the kernel gives it for a filter that has no
classic program, which no interface can load.

### Disasm

One process again: `read_filters` takes any sequence of `Filters`; `check_filter`
is one turn of the loop of `check_prog`, unless the filter comes from the kernel
(`trustful`, the way `trace` and `capture` call `print_prog`); `decode_filter` is an
operator of `Decoder`; `RenderAssign`, `RenderJump` and `RenderReturn` are turns of the loop of
`render`. An instruction is a record with the code by its name. When the text has
been printed a run of the filter in the kernel follows for any call (`RunAssign`,
`RunJump`, `RunReturn`, external), with `$A`, `$X` and memory holding a value and
what it is: the number of the call, its arch, or anything else. That is what
render's bookkeeping is compared with. `KernelAccepts` is the kernel's rule for
loading a filter, stated over paths (`SomePathReadsUnset`), not as a pass.

`NamesRight` has two preconditions. `AllSetBeforeUse`: no path uses a register it
has not set, since for render NONE is also "no line before has said". `~blurred`:
the run has asked for the arch only by equality with a number, and where `$A` holds the
arch on every path. From other tests of it render passes no arch on; a test it does not
see for one, because another path comes with something else in `$A`, leaves the arch as
it was known before. The second case came to light in the proof of `NamesRight`, which
failed there: in

    $A = $syscall_nr
    if ($A == 1) goto join
    $A = $arch
    join: if ($A == other) goto next
    next: $A = $syscall_nr
    if ($A == 1) ...

`A_stat` is MIXED at `join`, so `jump_line` (`render.c:157`) passes the arch known before
on, and the last line gets the name of call 1 on that arch, although a run on the other
one may just have found so. Both preconditions are hazards in `PROJECT.json`.

`Reassembles` takes what is printed through `Text` (`print_statement`, and the names
render put) and back (`read_statement`, the labels to distances, a name to a number
on its arch or the default one) to `Asm`, and asks for the instruction it began
with. libseccomp's tables are external: a name has another number on another arch.
`AsmKeepsMeaning` goes over every condition a text can state, `CMacroSame` over
every return value. A condition with `$X` has data 0, which render looks up like a
number; it is an input of `disasm_x` only. `NumbersReassemble` is `Reassembles` for the
filters in which every name that was put stands for a number, and is what holds of all
filters.

### KernelFilter, Ebpf2Cbpf

`KernelFilter` is the kernel's side, written from what `bpf_trans.c` takes apart:
`bpf_convert_filter` with its prologue, the guard of a division by `$X`, a negative
constant loaded first, the explicit else; and `bpf_jit_blind_insn` for a hardened
JIT. `Ebpf2Cbpf` begins with such a filter, whole (`FromKernel`, the way of
`capture -p`) or as much of it as a file holds (`FromFile`). `Start` is the checks
and the prologue. Pass 1 is `Fold`, one turn of its loop, which consumes
instructions and marks them; `FoldDone` ends it; pass 2 is `Relocate`, one
instruction at a time from the last, with the copy of the bitmap's word the code
works on; pass 3 is `Compress`. `Refuse` is the `longjmp` of an unexpected pattern.
`high` is history: the furthest index used in each array.

### Source

`Read`, `ReadFails` and `ReadEnd` are the loop of `init_source`, `SplitLine` and
`SplitEnd` that of `process_source`, `ParseLine` and `ParseEof` are `next_line` with
what the scanner makes of the characters. A character is one of eight kinds: what
matters is which end a line, begin or end a colour, begin a comment, or are no
token. `clear_color` moves the rest of the line over a colour and leaves zeros at
its end, and `next_line` skips zeros before a line. `Written` is the reference: the
lines of the file by the places of its line breaks.

`AcceptedAsWritten` and `ColoursDiscarded` have preconditions, each a quirk of the
code: `Uniform`, since in a file whose first line ends in `\r\n` a line that ends in
a bare line feed loses its last character; `ColoursClosed`, since an escape without
its `m` takes the line break with it, and inside a comment the next line. A last
line without a line break that has a colour is refused, since there the zeros come
before the line feed that `next_line` writes; it is safe, and only `ColoursDiscarded`
leaves it out.

### Capture, CapturePid

In `Capture` any number of tasks are in `do_seccomp`; each step of an eBPF
program that touches the map or the ring is an action. A record of the ring is
reserved, then submitted or discarded, and is consumed in the order of
reservation. The programs are attached one after the other, so a call may have an
entry and no exit. `loads`, `lost` and `early` are history: what the kernel loaded
in a call that was traced, what a program gave up on and why, and the calls from
before the attach.

In `CapturePid` the program runs to its end before the first event is read. The
target may load more filters meanwhile. An instruction is a pair of its filter
and its position, so a filter put together from the wrong chunks is seen to be.

## Runs

| Run | Configuration | States | What it shows |
|---|---|---|---|
| `emu_memory` | `EmuMemory.cfg` | 3.0 million | `MemReadsInitialised`, `MaskAnalysisExact`, `WithinMaxInsns`, `KernelAgrees` for every text of up to six lines out of those that use scratch memory, run twice |
| `emu_labels` | `EmuLabels.cfg` | 1.0 million | `TypeOK`, `AssertsHold`, `KernelAgrees`, `RunTerminates` with labels missing, twice, backward, past the end and out of reach, lines that do not parse, arithmetic, division by zero and comparison with `$X` |
| `emu_shift` | `EmuShift.cfg` | | `KernelAgrees` is violated: see findings |
| `trace_tasks` | `TraceTasks.cfg` | 387 thousand | `TypeOK`, `LoadsPrinted`, `GroupStopKept`, `StopsEnd`, `TracerEnds` with two tasks on two arches and one without numbers, loads with and without a listener, strict mode, and a process seized for its filters |
| `trace_assert` | `TraceAssert.cfg` | | `ExitFollowsEntry` is violated: see findings |
| `capture_tasks` | `CaptureTasks.cfg` | 514 thousand | `TypeOK`, `CapturedExact`, `NoEntryLeft`, `LoadsReported` with a full map, a full ring, failed reads and calls from before the attach |
| `capture_pid` | `CapturePid.cfg` | 27 thousand | `TypeOK`, `CopyFits`, `PrintedWhole`, `NothingMissing`, `CaptureEnds` |
| `disasm` | `Disasm.cfg` | 6.3 million | `TypeOK`, `RenderInBounds`, `DecodeKeepsBranches`, `NamesRight`, `NumbersReassemble`, `AsmKeepsMeaning`, `CMacroSame` for every filter of up to six instructions out of nine, two of them wrong |
| `disasm_valid` | `DisasmValid.cfg` | | `CheckedIsValid` is violated: see findings |
| `disasm_x` | `DisasmX.cfg` | | `Reassembles` is violated: see findings |
| `ebpf` | `Ebpf2Cbpf.cfg` | 57 thousand | `SameVerdicts`, `NeverRefused`, `InBounds` for filters with conditions, explicit jumps and returns in all arrangements, blinded or not, and for files cut anywhere |
| `source` | `Source.cfg` | 1.4 million | `InMap`, `AcceptedAsWritten`, `ColoursDiscarded`, `LinesCounted` for every file of up to six characters, read in pieces |

Every run checks for deadlock; where a system really ends, `Terminated` says so.

### Bounds

- *emu*: words of 4 bits, so that subtraction wraps, the mask of a shift is
  smaller than a word, and a return value has an action and data; two scratch
  words of which one is used across branches; a conditional jump reaches one
  or two lines, so that a label out of reach exists; `Uint16` is 16, the least the
  assumption `2 * MaxLines + 4 <= Uint16` allows with room for a backward jump to
  look like a large offset. In `emu_memory` `BPF_MAXINSNS` is
  5, below the number of lines, and a label may be declared twice, on a line past
  the limit too, which is how a text passes by it. Six lines hold a store, a jump, both its
  sides, their join and a return. Two runs are enough for what one run may leave to the next.
- *trace*: two tasks, so that one stops while the other is waited for; few calls,
  but enough that an arch changes between two calls of a task; one signal. The
  two arches number their calls so that `seccomp` of one is `prctl` of the other.
- *capture*: two tasks and a map for one, so that it is full; a ring for two;
  three calls, so that a thread id is used again after a call without an exit.
- *capture -p*: chunks of two instructions and filters of one, two and five, that
  is one chunk, one full chunk and three chunks; a walk of two of up to three
  filters; a ring of four, full in the middle of a filter or before the last event.
- *trace -p*: two filters, so that one is printed before the list ends.
- *disasm*: six instructions hold a load of the arch, its test, something on one
  side, a load of the number, its test and a return, so that two arches meet before
  a name is put; one word of memory, two arches, two calls; a limit of one on fatal
  errors. Return values have three actions and one bit of data, and a top bit the
  mask of the macros leaves out. `DecodeKeepsBranches` goes over every conditional jump with every value of
  3 bits for `k`, `$A` and `$X`.
- *ebpf*: words of two bits, so that half of the constants are negative; a bitmap of
  8 bits a word, so that filters span several; a jump of 8 bits reaches one
  instruction, so that an else has to be put back; allocations in blocks smaller
  than a filter. Filters are load, condition and four more, or one of each other
  kind before and after a condition.
- *source*: six characters hold two lines with a break of two characters and a
  colour each on one; lines of five, maps that grow by two, four lines and one
  unknown character more than allowed are all reached.

No symmetry is used.

### Fairness

- *emu*: weak fairness of `EmulateLine`. There is one process, and `emulator`
  loops until it ends.
- *trace*: weak fairness of the tracer's own steps, of the interruption it asked
  for, of the return from a call that sets a mode (such a call does not wait for
  anyone), and of the kernel's clean-up after ceccomp. Nothing is assumed of what
  tasks do otherwise: they may run for ever, never call anything, never be
  continued.
- *capture*: weak fairness of `on_events` and of a task inside `do_seccomp`, which
  does not wait for another task. No fairness of the calls.
- *capture -p*: weak fairness of the command, whose poll has a time-out.

## Findings

1. `emu.c:92` masks the count of a shift through a pointer. With `$A <<= $X` that
   pointer is the register, so `$X` holds the masked count afterwards; the kernel
   changes only what it shifts by. (`emu_shift`)
2. `check_scmp_mode` asserts that the stop it waited for is the exit of the call
   (`trace.c:110`), without a look at the status of `waitpid` or the result of
   `ptrace`. A task that is killed between entry and exit of `seccomp` has no such
   stop: `waitpid` takes the report of its death, `PTRACE_GET_SYSCALL_INFO` fails,
   and ceccomp aborts, where a death that `parent` sees is only reported
   (`trace.c:355`). `TraceAssert.cfg` leaves out the calls of an arch without
   numbers, on which ceccomp ends for another reason (`trace.c:285`), and takes what
   the failed request leaves in `exit_info` for no exit. (`trace_assert`)
3. `try_resolve_arch` and `try_resolve_sysnr` (`render.c:112`) look up the data of
   an operand without asking whether it is a number. For `$X` it is 0, so
   `$A == $X` is printed with the name of call 0 and assembled to a comparison with
   a number, where the manual says "You can just take `disasm` output to `asm`".
   (`disasm_x`)
4. `check_prog.c` keeps for each instruction the words valid there (`masks`) and
   never looks at them, so after a jump every word counts as written
   (`check_prog.c:161`) and a filter that the kernel would refuse passes "make sure
   all filter are valid" (`decoder.c:289`) without a warning. The resolver has the
   line that is missing here, `resolver.c:309`. (`disasm_valid`)

The passing runs of `Emulator` leave out shifts by `$X`, the one case of the first
finding, and `disasm` conditions with `$X`, that of the third. `LoadsReported` allows
a load to be lost when the map or the ring is full or a read fails; of these the
manual names the ring. The manual's "less than 16384 lines" is one line more than
`process_source` takes when the last one ends in a line break.

## What is proved

`EmulatorProof` proves, for every set of lines and labels, every number of lines,
scratch words and runs, every word and every arithmetic closed on words:

- `TypeCorrect`: `Spec => []TypeOK`.
- `MemReadsInitialisedCorrect`: no run reads a scratch word it has not written
  itself. This is the comment in `init_attr`, "mem must be written first to be
  read, so skip clearing them".
- `AssertsHoldCorrect`: once the resolver has accepted a text, no assertion of
  `emu.c` fails and no index is out of range.
- `WithinMaxInsnsCorrect`: what emu runs has no more than `BPF_MAXINSNS` instructions.
  The parser counts lines beyond the limit, if their label is taken; `LimitInv` says
  that only lines that do not parse come to that, and the resolver refuses those.
- `InvCorrect`: the inductive invariant they rest on.
- `MaskAnalysisExactCorrect`: the resolver's one pass over the lines is exact. What it
  accepts reads no unwritten word on any path, taken by a run or not, and what it
  refuses for its memory has a path that does.
- `KernelAgreesCorrect`: `Spec /\ []ShiftCountsFit => KernelAgrees`, the refinement of
  `BpfMachine`. The hypothesis leaves out the one way in which emu differs from the
  kernel, a shift by `$X` with a count the mask of `emu.c` changes (finding 1); there
  are texts with and without such shifts, and of the latter it says all.

None of the safety properties is inductive: whether a run may read a word depends
on what the resolver found many steps before, and that on how the parser numbered
lines. `Inv` has three parts.

- `ParserInv` (types, `NumberingInv`, `LabelInv`): `code` and `code_nr` are each
  other's inverse, numbers grow along the text, and a label that is in the table is
  declared on a line with the number the table gives, unless that is one past the
  code.
- `FlowInv`: at every resolved line that was not refused, and along every edge of
  the code out of it, the words taken for valid only shrink: `entry` of the target is
  within what the source leaves. For a target not yet reached the mask stands
  for it, for the next line `mem_valid` does.
- `WalkInv`: a run stands on a line of the text that has code at or after it, and has
  written at least `entry` of that code.

`ParserStep` preserves the first, with one lemma per action. `FlowStep` preserves the
second, from a lemma for what all lines share (`ResolveAdvance`) and one for each
kind of line. `WalkStep` preserves the third: `Landing` shows that the
line a jump lands on is the one its label was declared on. `ForwardTarget` is where
the 16-bit arithmetic is: an offset that passes the sign test really is forward.

`MaskAnalysisExactCorrect` is two directions. That an accepted text is good follows
from `FineInv`, that nothing was refused where there was nothing to refuse, and from
`FlowInv` along a path: of the lines on it the first at which the mask no longer holds
would be an error. That what is refused is bad needs `ExactInv`: for every word the
pass takes for unwritten at a line there is a path to that line that does not write it,
since the mask of a join is what the paths that were followed to it have in common.

`KernelAgreesCorrect` goes over the actions: the parser and the resolver stutter, the
end of the resolver loads the program (`LoadedProg`), a step over an empty line or
between lines with the same code stutters, and every other step of a run is a step of
the machine, with the memory of earlier runs hidden behind `written`.

`SeccompLoadProof` proves for every set of flags what the runs of `Trace` and
`Capture` check for a few: `LoadSuccessExact`, that `load_success` is true of the
outcome of a call that loads a filter exactly when it loaded it, and
`SucceedsExact`, the same of `check_scmp_mode`, which takes a listener for success,
and of strict mode. A positive result is a listener, or the id of a thread that
could not be synchronised, depending on three flags; both proofs go over the
outcomes the kernel has for the flags.

`CaptureProof` proves `CapturedExactCorrect`, `NoEntryLeftCorrect` and `TypeCorrect` for any
number of tasks, of entries of the map and of records of the ring. What is printed
depends on an entry of the map that another call may have left, so `Inv` says whose each
entry is (`MapInv`): a stale one is of a call from before the attach, and is replaced or
taken out before a call of the same thread is over that has loaded a filter. `CallInv` says where a
task is in its call, `ResultInv` that what the exit program takes for a load is one
(`LoadSuccessExact` again), `RingInv` that a record that was sent is a load.

`CapturePidProof` proves `CopyFitsCorrect`, `PrintedWholeCorrect`, `NothingMissingCorrect`
and `TypeCorrect` for every size of a chunk, of the ring, of the walk and of the
filters. The ring holds chunks of the newest filters first, each filter from its first
chunk on and without a gap (`RingInv`); once it is full nothing is sent any more, which
is why a gap cannot appear behind it (`WalkInv`); the buffer holds what comes before the
first chunk in the ring (`BufferInv`), and every filter the walk has left behind was
sent, printed, skipped or warned of (`CoverInv`).

`TraceProof` proves `LoadsPrintedCorrect`, `TypeCorrect` and the action property
`GroupStopKeptCorrect` for any number of tasks, arches, calls, forks and signals. The
numbers of `seccomp` and `prctl` are those of the arch of the call that is looked at,
whatever came between (`ArchInv`); a task inside a call that loads a filter is the one
the tracer waits for (`LoadInv`), so that no other has a load that is not printed. As
ptrace's errors are not looked at, all of what is known of the task that is handled holds
only unless it has died (`CurInv`).

`DisasmProof` proves every property of the run `disasm` for every filter, limit and set
of arches and calls. `RenderInBoundsCorrect`: a filter that comes to render has nothing
wrong with any of its instructions (`CheckInv`, `RenderedInv`). `NamesRightCorrect`
compares a forward pass with runs: behind every instruction that was rendered, what is
known there is known, or given up, before every instruction that may follow
(`SettledInv`), whatever is joined to it later; so what render says of the line a run
has come to is right of each register or word that the run has set (`PathInv`, which
keeps the way the run has come by) and of the arch (`ArchInv`).
`NumbersReassembleCorrect` goes over every kind of instruction from decoder to asm; the
names come back because the arch of the line is that of the name.
`DecodeKeepsBranchesCorrect`, `AsmKeepsMeaningCorrect` and `CMacroSameCorrect` prove
for all words what the run goes over for words of three bits.

`SourceProof` proves the four properties of the run `source` for every file and every way
to read it. `LinesCounted` needs to know what `clear_color` can do to a line feed: it may
be lost in a colour that is not closed, but never doubled, and behind it there are only
zeros (`ClearedLine`). So before the line that is being split there are fewer line feeds
than lines, or as many and nothing behind the last one (`SplitInv`), and `next_line`
hands out no more than that (`ScanInv`), since it stops before a character that is not a
zero. That the n-th of a set of positions exists (`NthIs`) is proved with a
least counterexample, in place of an induction.

`AcceptedAsWritten` and `ColoursDiscarded` compare what was handed out with the whole
file, after it was rewritten in place twice. `TextInv` says where each character of the
source that is not a zero was in the file (`Origins`), which characters of the file have
one (`Stays`: all but colours and the `\r` of a break), and that a zero is behind a line
feed unless nothing but zeros follows (`BehindLine`). A split moves the origins of one
line (`ClearedOrigins`); a bare line feed in a file from Windows overwrites the zero that
the split before it left there (`BareLine`), and this is where `Uniform` is needed. While
lines are handed out, the cursor divides the characters as a line end `E` divides their
origins (`ScanAt`), so the next line is what stays between `E` and the next end
(`LineEnds`), and what the scanner picks of it is what `Statement` picks of the line as
it was written, in the same order (`SamePicked`, `LineScanned`). The zeros `next_line`
can leave in a line are those of a last line without a break, which is refused for them
unless they are in a comment. That
every line with a break that is refused contains a character no token begins with gives
`ColoursDiscarded`.

`Ebpf2CbpfProof` proves `InBoundsCorrect` and `NeverRefusedCorrect` for every filter the
kernel accepts, every word it blinds constants with, every bitmap of more than six bits
a word and every place a file can be cut at. What the kernel keeps is one long
sequence, of which only the parts are known: the concatenation is taken by its steps,
with a least counterexample in place of an induction (`FlattenParts`), every part has
one of the forms of `Shape`, blinded or not (`MakesBody`), and `Resolve` changes nothing
of it but where its jumps go (`KernelLaid`, `KernelFramed`).

- `BoundsInv`, for `InBounds`: what is in the array is the kernel's filter, whole or a
  first part of it with zeros behind (`LoadInv`), and no jump in it leaves it once the
  passes begin (`PassInv`); for a file that is what was checked, for the kernel's
  filter it holds as it is whole. `FoldFits` shows that a round of pass 1 then looks at
  most seven instructions ahead, wherever it stands: a file may end in the middle of a
  pattern. The safe area of ten is enough for that. Without a safe area, on a filter
  from the kernel, a round never looks past the end (`Tight`).
- `RefusedInv`, for `NeverRefused`: pass 1 stands at the start of a body or at the jump
  that ends one (`Aligned`). That it stays there (`AlignedFolds`) is not plain: a
  comparison takes an explicit jump behind it along, and so it does with the first
  instruction of the next body when that is a jump; but a body that starts with a
  jump is nothing else (`SingleJump`).

Every assumption is evaluated by TLC in the runs of the module that states it. In
`EmulatorProof` the one with content is
`2 * MaxLines + 4 <= Uint16`: `read_source.c` allows 4 * 4096 lines (`LinesCounted`
of `Source`), and 2 * 16384 + 4 is below 2^16. In `DisasmProof` it is `NamesAssumption`:
on one arch no name belongs to two numbers, as in libseccomp's tables; and
`ActionAssumption`: actions are numbers. `MachineAssumption` of `Emulator` says that an
assignment takes the right side and that 0 decodes to KILL. Of `Ebpf2Cbpf` there are
`BitmapAssumption`, what `bpf_trans.c` says of its words ("count is always less than
32"); `MapAssumption`, that a page has room for the safe area; and `FilterAssumption`:
filters are made of the instructions of classic BPF and words are closed under XOR. The
others say that a constant is a number or a set of the right kind, and that `None` is none of the values
it stands beside.

## What is only model-checked

- `RunTerminates`, `StopsEnd`, `TracerEnds`, `LoadsReported` and `CaptureEnds`: liveness
  is out of reach of the prover.
- `SameVerdicts` of `Ebpf2Cbpf`: the verdict of a filter is a recursive function over
  the path it takes, and that two filters agree on it is an induction over that path;
  besides, the distances of pass 2 are cardinalities of sets of marks.

## What is not modelled

- The grammar of a single line, which token a run of known characters is, and the
  layout of what is printed: no state beyond the line.
- Descriptors and memory of traced tasks: the subject of races the manual itself
  names. A process that is stopped for job control when `trace -p` seizes it:
  `GroupStopKept` leaves its first stop out.
- The command line, messages, translations and containers: no state the properties
  speak of.
- In disasm: filters of other endianness. In asm: the formats that print the bytes
  of an instruction.
- The hash table and hash function of `hash.c` are taken to be a map.

## Plan

Done: `Parser`, `Resolver`, `Emulator` with `BpfMachine`; `Trace`; `Capture`;
`CapturePid`; `Disasm` with `Decoder`, `Text` and `Asm`; `Ebpf2Cbpf`; `Source`; the
proofs of the safety properties of all of them, as far as the section above does not
except them. Of the model there remain the names `NamesRight` excludes by a
precondition: ordering tests of the arch, and registers no path has set.
