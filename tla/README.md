# A verification project for KmStrSearch

KmStrSearch is a C++ substring search for the Windows kernel: two production
classes (8 and 16 bit characters) that combine Boyer-Moore-Horspool with AVX2
or NEON loops, two experimental classes built on a bit-parallel automaton
(BNDM), and a test suite that runs them on its own threads inside a driver.
This directory models the program in TLA+, checks the models with TLC, and
proves the safety of every component with TLAPS, for all patterns, texts, thread
counts and sizes. Of termination it proves the argument (what descends with every
step, and that no thread waits in vain), and leaves the fairness to TLC.

Abbreviations below: `8.cpp` is `StrSearch/KmStrSearch8.cpp` and so on,
`Shared.h` is `Shared/KmStrSearchShared.h`, `Drv.cpp` is
`TestKm/KmStrSearchDrv.cpp`.

## 1. The system

| Component | State | Operations | Interacts with |
|---|---|---|---|
| `CKmStrSearch8`, `CKmStrSearch16` | pattern pointer and length, skip table in paged pool, AVX2 flag | `Initialize`, `Find` (routing, save of the extended state, `FindScalar`, `FindAVX2` or `FindNEON`), constructor, destructor | pool, processor-state calls, caller's text and pattern |
| `MemChrScalar`, `WMemChrScalar` | cursor in a text | word loop, character loop | called by all `FindScalar` |
| `CKmBndmSearch8`, `CKmBndmSearch16` | pattern, mask table (absent above 64 characters or without memory) | as above, with an automaton in place of the skips | as above |
| Test plan (`RunTests`, `RunEngineTestPlan`, `RunCorrectnessTest`) | loop position, buffers | correctness tests, allocation of buffers, performance suites, verdict | searchers, log, abort flag |
| Measurement (`RunPerformanceSuiteT`, `StartThreads`, `SearchWorkerT`, `StopAndWaitThreads`) | thread manager in the pool, context on the stack, start event, start and stop flags, operation total | create, release, time, stop, join | workers share the manager, context, search object and text with the master |
| Driver (`DriverEntry`, `DriverUnload`) | reference to the master thread, abort flag | load, unload | master thread, log |
| Log (`RecordLog`, `FlushLogToFile`) | buffer, offset, fast mutex | append, flush | the I/O manager's thread and the master thread |
| User-mode program (`KmStrSearchUm.cpp`) | handle of the master thread | `main`: create, wait, return | the same test suite |
| Stand-in for the kernel (`TestUm/ntddk.h`) | the process's handles | the kernel services the suite and `main` call | Win32 |

What is hard here:

* **Boundaries.** The vector loops load registers shifted by the pattern's
  length, jump by a table entry taken from a block's last character, and leave
  a tail to another algorithm that re-reads part of what was seen. A match may
  straddle any of these borders; an index is unsigned and must not wrap.
* **Collisions.** The 16 bit tables are indexed by a hash. A skip must be the
  smallest of those that share a slot; an automaton's mask is the union, and a
  match must be verified.
* **Partial failure.** The pool may be empty, the kernel may refuse to save
  the extended state, a thread may not be created or referenced.
* **Interleaving.** Workers poll memory that the master frees; two threads
  write one log; an unload may come at any moment, and its abort meets the
  suite wherever it is.
* **Stale values.** In user mode a thread is a handle, a closed handle's value
  is given out again, and no result of a wait or a close is looked at.
* **Ordering and liveness.** The master waits without timeout for threads that
  wait for the master; a searcher's loop must make progress on every path.

`PROJECT.json` lists each of these hazards with its line and the properties
that would catch it.

## 2. Modules

| Module | Models | Proved |
|---|---|---|
| `Matching` | strings, `BasicOffset` (the suite's naive matcher), memchr, `VerifyMiddleMatch`, `static_cast<int>` | lemmas in `MatchingLemmas` |
| `StringFinder` | the abstract object: a caller sets a pattern, asks about a text, gets the leftmost occurrence | - |
| `KmStrSearch` | both production classes on both architectures | `KmStrSearchProofs` |
| `KmStrSearch8`, `KmStrSearch16` | one class each, `KmStrSearch` at the sizes and with the hash of the code | `CorrectnessTestsProofs` |
| `WordLanes` | machine words in lanes: exclusive or, subtraction with its borrows, the test for a lane of zeros | in `MatchingLemmas` |
| `SwarMemChr` | the word-at-a-time memchr that `Matching` abstracts | in `MatchingLemmas` |
| `KmBndmSearch`, `KmBndmSearch8`, `KmBndmSearch16` | the experimental classes, likewise | `KmBndmSearchProofs`, `CorrectnessTestsProofs` |
| `CorrectnessTests` | `RunCorrectnessTestEx` with an object of any of the four classes, on both architectures | `CorrectnessTestsProofs` |
| `TestThreads` | test plan, measurements, worker threads, abort; both builds | `TestThreadsProofs` |
| `Driver` | driver entry and unload, master thread, log | `DriverProofs` |
| `KernelTests` | the kernel build: `Driver` and `TestThreads` together | `KernelTestsProofs` |
| `KmStrSearchUm` | the user-mode build: `main`, the stand-in for the kernel and `TestThreads` on handles | `KmStrSearchUmProofs` |
| `MCKmStrSearch`, `MCKmBndmSearch` | small strings for TLC | - |
| `MCCorrectness` | strings for the sizes of the code | - |
| `MCSwarMemChr` | words as numbers, to check `WordLanes` | - |

`Matching` is at the bottom. `KmStrSearch` and `KmBndmSearch` extend it and
implement `StringFinder`; the class modules are instances of them, and
`CorrectnessTests` composes those instances with the test that uses them.
`KernelTests` and `KmStrSearchUm` compose the suite's threads with what surrounds
them in each build, and each is shown to implement the module it refines:
`KernelTests` implements `Driver`, `KmStrSearchUm` implements `TestThreads`.

### KmStrSearch

The four pairs (class, architecture) run one algorithm. What differs is a
constant: the characters and their hash (`HashChar`, `Slot`), the characters in
a register (`LaneLen`), the registers of one iteration (`ShortLanes`,
`LongLanes`), the bits of a move mask per character (`MaskBits`), the
thresholds. A string is a function on `0 .. n-1` together with its length, as
the code passes it.

A step is one iteration of one loop. `pc` names the loop:

| `pc` | code (8.cpp) | actions |
|---|---|---|
| `idle` | between calls | `InitializeRejects`, `InitializeAllocates`, `InitializeOutOfMemory`, `Call`, `Destroy` |
| `populate` | 239-245 | `Populate`: one table entry |
| `find` | 267-335 | `Find`: early returns, choice of the engine |
| `save` | 337-364 | `SaveState`, `SaveStateFails` |
| `block` | 505-517, 539-556 | `Block`: the loads and the combined test; `Tail` when no block is left |
| `lane` | 517-533, 556-582 | `Lane`: one `CheckMask`; then the jump |
| `scalar`, `scan`, `verify` | 370-446 | `ScalarEntry`, `ScanEnds`, `ScanSkips`, `ScanVerifies`, `Verify` |
| `restore`, `done` | 343, return | `RestoreState`, `TakeResult` |

`FindScalar` is called with `Text + uI`; the model keeps `uI` and indexes the
whole text, so that one set of variables serves the direct call, the fallback
and the tail. The offsets pass through the casts to `int` where the code has
them (`ScalarReturn`, `CheckMask`), with wrap-around.

`Usable` is the caller's side: after an `Initialize` that ran out of memory the
repository's callers drop the object. Everything else a caller may do is
allowed: `Find` before `Initialize`, `Find` with any engine on any build,
`Initialize` again (`MaxInits` bounds it in the checked instances).

### KmBndmSearch

The same frame; `slide` is the loop for patterns without a table, `window`
finds the next last character, and `automaton` is one turn of the inner loop. A
word is the set of its one bits; `ShiftLeft` drops what leaves the word.
`FullVerify` is the comparison that only the 16 bit class makes.

### SwarMemChr and WordLanes

A word is the set of its bits that are 1, each named by its lane and its place in
it, and a character is a set of bits. `Minus` is subtraction as a machine does it,
bit by bit, with the borrow written out: a place borrows if some lower place lacks a
bit to be taken away and nothing between makes up for it. So borrows cross lanes
as in the code. `MCSwarMemChr` checks that this is subtraction of the numbers the
bits stand for, for all pairs of words of 3 lanes of 2 bits and of 2 lanes of 3.
`HasZeroLane` is the code's `((v - magic1) & ~v & magic8) != 0`. `IsMemChr` links
the loop to `Matching!MemChr`, which the searchers use in its place.

### CorrectnessTests

One correctness test and the object it creates. `SearchClass` and `Arch` stand
for the template's parameter and the build; the object is an instance of that
class module, so a test is the composition of the two state machines: `Construct`
and `InitializeSearch` begin it, the class's own steps (`Runs`) carry it through
`Initialize` and each `Find`, `Found` keeps the answer, `Compare` returns the
verdict and `LeaveScope` runs the destructor. `stage` is the place in the test
(`Shared.h:236-340`). `g_HasAVX2` decides which engines are asked for. The run
begins either with a test or with a caller who does whatever the header allows
(`OtherCaller`), because the tests make few of the possible requests.

### TestThreads

A step of the master or of a worker is one access to shared state: an
interlocked operation, an event, a creation, a reference, an allocation, a
free. Between two flags a worker reads, others may move (`spin`/`spinning`,
`loop`/`looping`). Every creation, reference and allocation may fail. The
measurements the code makes one after the other are `Engines`, `Suites` and
`Configs`. `RunEngine` asks `StartThreads` for one thread today; the model asks
for `Requested`, any number, because `StartThreads` caps it, and its failure
path matters only when there are others. A failed search object or an abort
skips a suite; a correctness test passes or fails, nondeterministically. One
test plan stands for the one or two that `RunTests` starts: the second begins
where the first ends, with nothing allocated (`AllReturned`).

`StartThreads` waits for an unreferenced thread through its handle
(`Shared.h:118`); the model takes this as the wait it is meant to be, and is in
user mode. In the kernel its outcome is undefined.

`UserMode` chooses the build where it matters. A worker waits for the start
event by the address of the variable that holds it (`Shared.h:369`): in the
kernel that is the event, and `AwaitEvent` waits until `KeSetEvent` set it; in
user mode it is no handle, the wait fails at once, and the worker goes on to the
spin. `NoUseAfterFree` and the rest hold in both builds, because the spin on the
start flag does what the event was there for.

### Driver

The two threads of the driver. A line of log is the name of the thread that
wrote it, and has length 1: the buffer's capacity `LogMax` is in lines.
`RecordLog` is one step per access made under the mutex. `kept` records what
was copied, for the properties. `RunTests` is reduced to what the driver sees
of it: looks at the abort flag (`TestPlanStep`), lines, an abort of its own
(`TestPlanAborts`), the flush. A line that cannot be formatted or is too long is
dropped (`LogThenGoto`: a thread logs its line, or goes on without). `Lines` bounds
how many lines the tests write.

### KernelTests

That this reduction is right is what `KernelTests` is for. Its state is that of
`Driver` and of `TestThreads`, with one abort flag for both, and one master
thread: while the driver's `pc` has the master in its tests, `plan` (the `pc` of
`TestThreads`) says where. A step of the plan that is followed by a line of log
(`WritesLine`) hands the master to `RecordLog` before the next step of the plan.
`driverPc` is the refinement mapping: to `Driver`, the master is at work on a
line from the look at the flag that let a measurement begin until the line is
logged. `ImplementsDriver` checks every step of the composition, and `Driver`'s
fairness, through it.

### KmStrSearchUm

`TestUm/ntddk.h` turns thread objects and events into handles. `handles` says
what each value stands for; `Opens` takes any closed value, so a value just
closed may come back for something else. `KeWaitForSingleObject` of a value that
is not open returns at once, `CloseHandle` of one does nothing: the code looks at
neither result. Memory of the manager starts as `Garbage`, as `new` leaves it.
`main` creates the master, takes a second handle to it, closes the first, waits,
closes the second and returns, which ends the process (`Exit`).

The suite's own actions that touch handles are written again with the variables
of this build; the rest are those of `TestThreads` (`WithoutHandles`). The
refinement mapping is `Referenced`: the manager holds a reference to a worker
when its array has an open handle of that worker's thread. `ImplementsTests`
then says that the suite on handles takes no step that `TestThreads` does not
know, so its theorems apply.

## 3. Properties

Searchers (`KmStrSearch`, `KmBndmSearch`):

* `FindIsFirstMatch`: the result of `Find` is that of the naive matcher,
  whatever the engine, the fallback and the failures.
* `NothingSkipped`: while searching, no occurrence is left behind the cursor.
* `SkipTableExact`, `AutomatonExact`: the table holds the smallest jump of each
  slot; the automaton's bits are the factors of the pattern that end here, and
  `uLast` the longest prefix found.
* `ReadsInBounds`: no index leaves its buffer, no vector load passes its end.
* `XStateBalanced`: the extended state is saved while, and only while, a
  vector engine or what it calls is running.
* `StepsDescend`: each step of a call is one towards its end. The measure is a
  triple: the phase of the call, what is left of the text, what is left of the
  inner loop (`CallPhase`, `TextLeft`, `LoopLeft`), ordered lexicographically. A
  skip or a shift of 0, or an inner loop that does not stop, breaks it. This is
  why every call returns, and it needs no fairness to be stated.
* `CallReturns`: every call returns.
* `ImplementsFinder`: refinement of `StringFinder`, liveness included.

Correctness tests: `TestTellsTheTruth` (a test that compared passed; one that did
not reports failure unless its pattern is empty; and the table is back in the
pool either way).

Test threads: `NoUseAfterFree` (a running worker finds manager, context, search
object and text), `TotalIsComplete`, `NoEarlySearch`, `AllReturned`, `TestsEnd`.
`TestsAdvance` is why the tests end, as a property of single steps: each step of the
master shrinks what is left of its nested loops (`MasterLeft`, compared from the
outermost loop inward), and no worker's step undoes that; a worker that the master
waits for can move and comes nearer to its end with each of its own steps
(`WorkerLeft`). A thread waited for before a flag has told it to end would break it.

Driver: `LogIntact` (whole lines, in order), `FileIsLogPrefix` (the flush
without the mutex), `UnloadWaits`, `UnloadCompletes`.
`UnloadAdvances` is to `UnloadCompletes` what `TestsAdvance` is to `TestsEnd`: loader
and master never wait for each other in a circle, through the mutex and the wait of
`DriverUnload`, and once the abort is up every step takes its thread further.

Kernel build: `TypesOK`, `UnloadLeavesNothing` (no thread, buffer, object,
manager, reference or log survives an unload, whenever it came and whatever had
failed in the suite), `ImplementsDriver`, and `KernelAdvances`: both of the properties
above hold of the whole, so neither part keeps the other from its end. `MCKernel`
assumes that the master thread could be referenced (`ReferenceMayFail = FALSE`);
`MCDriverReference` shows what follows otherwise.

User-mode build: `HandlesSound` (what is passed on is the open handle of the
thread it means, and every open one will be closed), `ExitsAfterTests`,
`ImplementsTests`, `ProgramEnds`.

## 4. Runs

All constants are in the `.cfg` files. A run that should pass:

| Run | Question | Bounds |
|---|---|---|
| `MCSearch` | the searcher's safety, `IInv`, progress (`StepsDescend`, `CallReturns`), and the refinement with its liveness, with a failing pool and a failing save of the state, up to two `Initialize` | three characters, two of them in one slot; patterns of 0-3, texts of 0-9; registers of 2, blocks of 4 and 2, thresholds 3-5, two mask bits per character |
| `MCBndm8` | BNDM: safety (`IInv`, which has the types in it), progress and refinement | two characters; word of 3 bits, patterns up to 4, texts of 0, 3, 5, 9 |
| `MCCorrectness` | the sizes of the code, four classes, two architectures, inside the test that uses them and with any other caller | patterns of 0, 2, 20 or 40, 127, 128 (BNDM: 0, 2, 21, 63, 64, 65, periodic); texts 63-300, matches planted beside every boundary |
| `MCSwar` | word-at-a-time memchr | characters of 2 bits, words of 3, texts up to 7 |
| `MCTestThreads` | the test threads, safety, `TotalInv` (`IInv` and `OpsInv`), progress (`TestsAdvance`) and `TestsEnd` | 3 threads asked for, room for 2; 2 sizes, 2 measurements |
| `MCKernel` | driver, log and suite together: unload at any moment; nobody waits in a circle (`KernelAdvances`) | one of each: test, size, suite, worker; 2 measurements; a log of 6 lines, at most 8 from the tests |
| `MCUm` | handles in the user-mode build | one worker, as the code asks; 2 measurements; 6 handles |

Why the bounds are enough. The small searcher instances make every threshold
and stride a few characters, so that texts exist on both sides of each: a text
too short for a block, one that fits exactly, a second block, a tail shorter
than the pattern. The instances at real sizes show that the code's own numbers
fit together; there the strings are chosen, not enumerated. The proofs remove
these bounds; the runs remain the check that the model's assumptions are those
of the code (`MCCorrectness` evaluates `ClassesAssumption`). The smallest word whose borrows cross
two lanes has three. Two workers and a cap below the request show every race
of a worker with the master and with another worker; a second size or
measurement shows what the first leaves behind. In `MCKernel` the log overflows
at its sixth line with lines of both threads in it, and `Lines` is more than one
plan writes, so it cuts nothing off. One worker is what `RunEngine` asks for; in
`MCKernel` it lets an unload meet every stage of a measurement, and the races
between workers are those of `MCTestThreads`. In `MCUm` the second measurement
reuses the handles the first closed; six values suffice for the two events, which
are never closed, the master's one or two handles and the worker's two. Two
workers there are beyond what can be explored in minutes.

Fairness. A searcher is one thread in a call: `WF_vars(Step)` says that its
code runs. `Spec` of `TestThreads` has weak fairness of the master and of each
worker, which is the scheduler's; a waiting thread is not enabled, so nothing
is assumed about waits. Nobody has to abort. `Driver` has weak fairness of both
threads, and none for the call of `DriverUnload`. Contention for the mutex
needs no strong fairness, because each thread's own step is what releases it
and the loader logs finitely often; `MCKernel` checks this. `KernelTests` and
`KmStrSearchUm` have weak fairness of each thread they compose, and of nothing
else: no failure, abort or unload has to come, and none has to stay away. `TestsEnd` holds
without assumptions on the correctness tests or the measurements' time.

A run that should find a violation states what a comment or a test of the
repository says, and shows that the code does otherwise:

| Run | The claim | The code |
|---|---|---|
| `MCSearchNeonRequest` | an unsupported engine falls back to scalar (8.h:20) | on x64 a request for NEON passes the AVX2 test (8.cpp:332) and runs AVX2 code on a machine without it |
| `MCTestVerdict` | "All Tests Finished Successfully" (Shared.h:852) | results of the tests are not looked at |
| `MCDriverReference` | unload waits for the tests (Drv.cpp:175) | not if the thread could not be referenced |
| `MCDriverFlush` | unload flushes pending logs (Drv.cpp:175) | it frees the log unwritten |
| `MCUmEvent` | the worker threads are synchronized on an event (Shared.h:52) | in user mode the wait is for the address of the variable that has the event's handle (Shared.h:369), and fails at once |

Seen while modelling, without a run of their own:

* A match beyond `INT_MAX` characters comes back as a wrapped number
  (8.cpp:434, 592); 8.cpp:264 promises the index. `ToInt` models the cast, and
  the theorems assume `TextsFitInt`.
* A second `Initialize` on one object overwrites `m_SkipTable` (8.cpp:224,
  16.cpp:212); 16.cpp:158 promises that no memory leaks. `MCSearch` calls it twice
  (`poolTables` then counts two) and shows that the answers stay right.
* The workers' spin is there so that all threads are in it before the timer
  starts (Shared.h:375), but only a sleep of 200 ms stands between (503): in
  `TestThreads` a worker may still be waiting for the event at `StartClock`.
* `DriverEntry` returns `STATUS_SUCCESS` (Drv.cpp:269) also where its comment
  (221) promises a failure code.
* "Hash Table Collision Recovery" (Shared.h:601) searches a text in which no two
  characters share a slot of the table. `MCCorrectness` has two that do.
* The literals of the 8 bit correctness tests are shorter than 128 characters,
  so no test of `CKmStrSearch8` reaches a vector loop (8.cpp:459): `Auto` and
  `AVX2` are compared with themselves as scalar.
* In user mode the start event's handle is lost when the manager is freed, once
  per measurement, and a worker's `THREAD_START_CTX` when the worker ends by
  `PsTerminateSystemThread`. `ExitsAfterTests` allows for open events.
* `Readme.md` gives 64 bytes as the length from which the 8 bit class jumps; the
  code has 128 (8.cpp:502), and the model follows the code.

Each property of a passing run has a mutant: a definition of the model changed
as a plausible slip in the code would change it, under which TLC finds the
property violated. The mutated forms stand before the definitions they replace,
marked "Mutant".

## 5. Proofs

`KmStrSearchProofs` proves, for all values of the constants that satisfy the
named assumptions of `KmStrSearch` (strings agree with their lengths, the hash
maps characters to slots, registers and loops are not empty, one or two mask
bits) and under `TextsFitInt` (no text is longer than `INT_MAX`: the cast of the
offset wraps otherwise):

| Theorem | Property |
|---|---|
| `Invariance` | `IInv` |
| `TypeCorrect` | `TypeOK` |
| `Correct` | `FindIsFirstMatch` |
| `JumpsAreSafe` | `NothingSkipped` |
| `MemorySafe` | `ReadsInBounds` |
| `StateRestored` | `XStateBalanced` |
| `CollisionsKeepSmallestJump` | `SkipTableExact` |
| `CallsDescend` | `StepsDescend`: no call runs forever |
| `Refinement` | `Finder!Safety`: the searcher implements `StringFinder` |

So the results hold for any hash, any text and pattern, any register width and
any threshold, hence for both classes on both architectures and for any later
tuning of those numbers.

The argument. `FindIsFirstMatch` is not inductive: it says nothing before the
return. `IInv` adds where each loop stands and why its next move is safe:

* `PhaseInv`: what object and locals look like in each phase; in particular, a
  search runs only with a table and a pattern no longer than the text.
* `SkipInv`: an entry is at least 1 and at most the length, is the distance of
  some character hashed to the slot, and is no larger than the distance of any.
  The lower bound is progress, the upper one is what makes a jump safe: the
  character under the window's end, if it stands in an occurrence that ends
  later, stands at a place of the pattern whose distance the entry does not
  exceed (`SkipIsSafe`). `Populate` needs it for the characters seen so far.
* `CursorInv`: the ranges of the cursors, that a block whose lanes are being
  examined fits, and that a verification's suffix agrees.
* `NothingSkipped`: no occurrence begins before the cursor.
* `AnswerInv`: the result, from the return on, is the first match.

One lemma per action shows that the action preserves `IInv`; `FoundIsAnswer`
and `NotFoundIsAnswer` close the returns, `CheckMaskIsFirst` says that the
first surviving mask bit is the first match in a lane, `TestsAreComplete` that
a block whose combined test is empty has none. `MatchingLemmas` has the facts
about `BasicOffset`, `MemChr` and the cast. The refinement maps `pc` to the
abstract phase; the step that sets `pc` to `done` is `Reply`, and `AnswerInv`
after it is what `Reply` demands. `CallsDescend` has one lemma per action: a
return leaves the phase, a window or block that moves on moves by a skip, which
`SkipInv` keeps above 0, and the rest count down a loop.

`KmBndmSearchProofs` proves the same of the experimental searchers, for any
alphabet, hash, word width, register and threshold, with and without a mask table
(`DataAssumption` asks that a class which does not verify has a hash without
collisions, as the 8 bit class has):

| Theorem | Property |
|---|---|
| `Invariance` | `IInv` |
| `TypeCorrect` | `TypeOK` |
| `Correct` | `FindIsFirstMatch` |
| `JumpsAreSafe` | `NothingSkipped` |
| `AutomatonComputes` | `AutomatonExact` |
| `MemorySafe` | `ReadsInBounds` |
| `StateRestored` | `XStateBalanced` |
| `CallsDescend` | `StepsDescend` |
| `Refinement` | `Finder!Safety` |

Here `AutomatonExact` carries the argument. After `k` characters of the window,
bit `b + 1` of the word stands for "these `k` characters are those of the pattern
that begin `b` places before its end"; `Factor` says it for any text, window and
pattern, and `FactorStep`, `WordStep` say that reading one more character, masking and
shifting turn one set into the next. Three facts follow. The word is empty when
nothing that was read occurs in the pattern, so the loop stops at the latest
before `uJ` would wrap (`ReadNextFacts`). `uLast` is the least shift under which a
prefix of the pattern could begin in the window, so no occurrence lies before it
(`ShiftAfter` is the definition, `JumpsAreSafe` the result), and is at least 1. And
a prefix bit after the whole window is an occurrence up to collisions, which is
one if characters do not collide or the match is verified. `MaskInv` is the table:
exactly the places of the characters that share the slot, of those `Populate` has
seen.

`TestThreadsProofs` proves, for any number of threads asked for, any cap of the
manager's array, any numbers of tests and measurements
(`CountsAssumption`), and for both builds (`UserMode`):

| Theorem | Property |
|---|---|
| `Invariance` | `IInv` |
| `TypeCorrect` | `TypeOK` |
| `WorkersAreSafe` | `NoUseAfterFree` |
| `SearchesAwaitStart` | `NoEarlySearch` |
| `NothingLeaks` | `AllReturned` |
| `TotalInvariance` | `TotalInv` |
| `NoCountIsLost` | `TotalIsComplete` |
| `TestsAlwaysAdvance` | `TestsAdvance` |

`NoUseAfterFree` is not inductive: that a worker has ended when the manager is
freed follows from what the master has waited for. `IInv` says it:

* `MemoryInv`: which memory is held at each place of the master.
* `CounterInv`: the counters of the loops the master is in are below their
  bounds.
* `ThreadInv`: a thread that has not ended is referenced by the manager, or is
  the one just created; and a reference exists only while the master measures
  and its loop of waits has not passed it.
* `StartInv`: the start flag is up only between the start and the report, and a
  worker past the spin has it up.

`NoCountIsLost` is about a sum over the workers. Its invariant `OpsInv` says that
the total is the sum of the shares of the workers that have ended, and that one
which never began to search has counted nothing; so the worker that the abort
releases from the spin, and that ends without adding, adds nothing to either side.
`Sum` is a fold of the community modules, a recursive function over subsets.
What a step does to it (`SumChanges`: when one worker's share changes, the sum
changes by the difference) is an induction over the set of workers, which the
proof carries out by hand: among the subsets on which the claim fails there would be
a smallest, and it does not exist (`SmallestSubset`).

`TestsAlwaysAdvance` needs more than `IInv`: `AdvanceInv` adds which flags are up
wherever the master waits (`FlagsInv`: the start flag and the stop flag before the
join, the abort before an unreferenced thread is collected, the event from the
start on, or no event at all in user mode), and that the master waits only for
threads that were created (`CreatedInv`). With these a worker that is waited for
finds a way out at every place; what it still has to do shrinks because the
flags it polls no longer change.

`DriverProofs` proves, for any capacity of the log of at least one line and any
number of lines from the tests (`LogAssumption`):

| Theorem | Property |
|---|---|
| `Invariance` | `IInv` |
| `TypeCorrect` | `TypeOK` |
| `LogStaysIntact` | `LogIntact` |
| `FlushIsWhole` | `FileIsLogPrefix` |
| `UnloadIsSafe` | `UnloadWaits`, assuming `~ReferenceMayFail` |
| `UnloadAlwaysAdvances` | `UnloadAdvances` |

`UnloadIsSafe` needs its assumption: `MCDriverReference` is the counterexample
without it. `IInv` adds where each thread stands (`StageInv`; `Stage` looks past
the line a thread is logging), that the holder of the mutex is the one thread
inside it (`MutexInv`), that the offset is behind the log only between copy and
advance, and that a line about to be copied still fits (`LogInv`), that the
master flushes after its last line (`FileInv`), and that while the master runs
the loader has not passed the wait and the log is allocated (`UnloadInv`).
`UnloadAlwaysAdvances` adds `WaitInv`: the master exists when it is waited for, and
the abort is up from the wait on and never down again. The holder of the mutex is
inside `RecordLog` and so not waiting, which leaves no circle. What is left of the
unload is the loader's place in its sequence and, of the master, the stage first and
then its lines: the step that enters a new line is the one that counts it.

`MatchingLemmas` proves of the word-at-a-time memchr, for any number of lanes and
any number of bits in one:

| Theorem | Statement |
|---|---|
| `ZeroLaneIsFound` | `HasZeroLane(v)` if and only if some lane of `v` is zero |
| `AlarmMeansMatch` | the word loop leaves a word if and only if a character in it is the one searched |
| `WordScanIsMemChr` | `IsMemChr`: the two loops return what `MemChr` says, for a text of any length |
| `WordLoopStopsOnlyAtMatch` | `NoFalseAlarm`, of the whole scan |

A zero lane has nothing to take its 1 from, so it borrows up to its own high bit
(`ZeroLaneBorrows`; a lane of a single bit is a case of its own, and there the
lowest zero lane is the one found, `NoBorrowBelow`). Conversely, a lane whose high
bit was clear and is set by the subtraction has borrowed, and following the borrow
down ends in a lane with no bit at all (`BorrowComesFromZeroLane`). It need not be
the same lane: that is why the code pinpoints the match afterwards.

The two theorems about the loops are about the state machine of `SwarMemChr`, taken
as an instance with its variables and sizes as parameters (`Swar`). The invariant is
`ScanInv`: the cursor stays in the text, and what it has passed holds no match. A
word is passed when its test is silent, and `AlarmMeansMatch` says what that means.
So the searchers' models use `MemChr` in place of the loops rightly.

`CorrectnessTestsProofs` is where the general theorems meet the code's numbers.
The classes' registers, thresholds, hash and word are definitions of
`KmStrSearch8` and its like; the module proves that they satisfy the assumptions
of `KmStrSearch` and `KmBndmSearch`, class by class and build by build, and so
may cite their theorems. For all characters, patterns and texts
(`ClassesAssumption`: strings agree with their lengths, no text is longer than
`INT_MAX`), and for a build fixed for the run (`Arch = Build`):

| Theorem | Property |
|---|---|
| `Invariance` | `SearcherInv`, `TestInv` |
| `Correct` | `FindIsFirstMatch`, of each class |
| `JumpsAreSafe` | `NothingSkipped`, of each class |
| `MemorySafe` | `ReadsInBounds`, of each class |
| `CallsDescend` | `StepDescends`: no call of the four classes runs forever |
| `CollisionsAreSafe` | `SkipTableExact` or `AutomatonExact`, of each class |
| `StateRestored` | `XStateBalanced`, of each class |
| `VerdictIsTrue` | `TestTellsTheTruth` |

Test and object need each other: the object's invariant is kept because the test
passes it the strings and lengths that a caller passes (`CallInv`), and the test
knows its answers and its table because of the object's invariant
(`ObjectFacts`: an answer is the naive matcher's; a table that is being filled is
there). So one step is shown to keep both together (`SearcherInv` is the `IInv` of the
class at hand). From it, all indices of a test are the same (`VerdictInv`), and the
pool has one table as long as the object has.

`KernelTestsProofs` proves of the kernel build, for any number of workers, tests
and lines, any capacity of the log and any failure:

| Theorem | Property |
|---|---|
| `RefinesTests` | `T!Safety`: the suite does what `TestThreads` does |
| `RefinesDriver` | `D!Safety`: the driver does what `Driver` does |
| `NoCountIsLost` | `T!TotalIsComplete` |
| `TypeCorrect` | `TypesOK` |
| `LogStaysIntact` | `LogIntact` |
| `FlushIsWhole` | `FileIsLogPrefix` |
| `UnloadIsSafe` | `UnloadWaits`, assuming `~ReferenceMayFail` |
| `UnloadIsComplete` | `UnloadLeavesNothing`, assuming `~ReferenceMayFail` |
| `KernelAlwaysAdvances` | `KernelAdvances` |

The first two are the point: by them the invariants of both parts hold in the
whole, through instances of `TestThreadsProofs` and `DriverProofs`. `LinkInv` says how
the parts stand to each other: which `pc` of the suite goes with which of the
driver (`ControlInv`, `PlanInv`), and that what `DriverUnload` freed stays so
(`FreedInv`). `UnloadIsComplete` then adds up: the unload waited for the master, the
master had ended its plan, an ended plan has given everything back
(`NothingLeaks`), and the log is gone. `KernelAlwaysAdvances` follows from the
refinements alone, because the progress of each part is a property of its steps.

`KmStrSearchUmProofs` proves of the user-mode build, for any number of threads and
of handle values:

| Theorem | Property |
|---|---|
| `Invariance` | `HandleInv` |
| `Refinement` | `ImplementsTests` |
| `HandlesAreSound` | `HandlesSound` |
| `ReturnsLast` | `ExitsAfterTests` |
| `NoCountIsLost` | `T!TotalIsComplete` |
| `TestsAlwaysAdvance` | `T!TestsAdvance` |

The hazard is a stale value: a closed handle's value names something else later,
and a wait or close by it would hit that. `HandleInv` is therefore the full
account of who holds what: each of the places that keep a handle (`MainHolds`,
`StarterHolds`, `ManagerHolds`) names an open handle of the right object, no two
hold the same, and every open handle of a thread is held by one of them; what
the manager's memory holds before it is written is never used (`ManagerInv`). It
is proved together with `TestThreads`' `IInv`: the refinement needs the handles, and
the handles need that the suite's loops stay in their arrays. With it, a wait by a
handle is a wait for that worker's thread, which is what `TestThreads` does.

All these theorems are about the safety part of the specifications and use no
fairness.

Only model-checked:

* Liveness under fairness (`CallReturns`, `TestsEnd`, `UnloadCompletes`,
  `ProgramEnds`), and the liveness part of the refinements (`ImplementsFinder`,
  `ImplementsDriver`): `ENABLED` and fairness are out of the prover's reach. Of the
  first three, the argument itself is proved (`CallsDescend`, `TestsAlwaysAdvance`,
  `UnloadAlwaysAdvances`): what is left is that a thread which can take a step does,
  and that a measure which always shrinks ends. `ProgramEnds` adds to `TestsEnd`
  that `main` runs through its six steps.
* That `WordLanes` subtracts as numbers do (`MCSwarMemChr`, for words of up to six
  bits): a number is a sum over its bits, and that an addition carries right
  through it for words of all widths is an induction over data.

## 6. Not modelled

* The rest of `TestUm/ntddk.h` and of `main`: console output, priorities,
  counters and sizes, the pool as `malloc`, saving of extended state as a no-op.
  That `DuplicateHandle` may fail there (200): the suite would be told of success
  and use what the memory held, so that any later step could act on any handle.
* In user mode nothing raises the abort flag, and the failure path of
  `StartThreads` cannot be reached; both are in the kernel build only.
* Interrupt levels, paging, the resident state of texts and patterns; changes
  of the pattern under the object.
* 32-bit builds: `Arch = "x64"` stands for both x86 builds, whose `FindAVX2` is
  the same code; wrap-around of a 32-bit `size_t` is left out.
* One message of several lines is one line of log. `RunTests` runs one plan where
  the code may run two.
* What the performance report computes, overflow in it included, the contents of the test buffers, the
  texts of the log; truncation inside a line (a line that is too long is
  dropped, and that is modelled).
* Build and installation files.

## 7. Plan

Order of work, most important behaviour first:

1. Done: `Matching`, `StringFinder`, `KmStrSearch` with its runs, its inductive
   invariant and refinement proved; the classes at real sizes; `SwarMemChr`.
2. Done: `KmBndmSearch` with its runs; `TestThreads`; `Driver`.
3. Done: `CorrectnessTests`, which composes the four classes with the test that
   uses them; `KernelTests`, the driver with the suite; `KmStrSearchUm`, the
   suite on handles with its `main`. Several searches of one object by several
   threads at once need no module: `Find` writes nothing but its locals.
4. Done: the safety of `TestThreads` and `Driver` proved.
5. Done: the BNDM searchers proved, automaton and refinement included; every call
   of a searcher descends; the four classes at the code's sizes, with the test that
   uses them; the two compositions, `KernelTests` and `KmStrSearchUm`; the total of
   the operations.
   The memchr's word test, on `WordLanes`, without recursion.
6. Done: the loops of `SwarMemChr` proved to be `MemChr`; why the tests and the unload
   end, as properties of steps, proved of the parts and of both builds; tables,
   saved state and descent for the four classes by name.
7. Left: the production and BNDM searchers' shared parts (vector engines, routing),
   which each proof now treats by itself; a second test plan in one `RunTests`, if a
   plan ever leaves something behind; the kernel's other services (pool, processor
   state), if the code comes to look at more of their results.
