---------------------------- MODULE TestThreads ----------------------------
(***************************************************************************)
(* The test suite as its own threads run it: RunTests on a master thread,  *)
(* which works through RunEngineTestPlan, RunPerformanceSuiteT and its     *)
(* RunEngine, and the worker threads (SearchWorkerT) that StartThreads     *)
(* creates and StopAndWaitThreads collects for every measurement.  Others  *)
(* only ask for the abort.  Source lines in comments are those of          *)
(* Shared/KmStrSearchShared.h.                                             *)
(*                                                                         *)
(* A step is one access to what threads share: an interlocked operation,   *)
(* a kernel object, the creation of a thread, or memory that a thread may  *)
(* still be using when it is freed.                                        *)
(*                                                                         *)
(* The same source is built twice.  In the kernel, StartEvent is an event  *)
(* object.  In user mode (TestUm/ntddk.h) it is a variable that holds a    *)
(* handle, and a worker waits for the variable's address: that is no       *)
(* handle, so the wait fails at once and the worker goes on.               *)
(***************************************************************************)
EXTENDS Integers, FiniteSets, FiniteSetsExt

CONSTANTS
  Requested,      \* ulCount: worker threads RunEngine asks for
  MaxThreads,     \* MAX_TEST_THREADS
  Tests,          \* correctness tests of the plan
  Configs,        \* buffer sizes: testSizes
  Suites,         \* performance suites per size
  Engines,        \* measurements per suite
  UserMode,       \* the build: the program of TestUm, or the driver
  MaxOps          \* bound: searches of one worker that are told apart

ASSUME CountsAssumption ==
  /\ Requested \in Nat /\ MaxThreads \in Nat
  /\ Tests \in Nat /\ Configs \in Nat /\ Suites \in Nat /\ Engines \in Nat
  /\ MaxOps \in Nat

ASSUME BuildAssumption == UserMode \in BOOLEAN

\* Mutant: the cap is missing.
UncappedCount == Requested

\* StartThreads: no more than the manager's array has room for.
ulThreadCount == IF Requested > MaxThreads THEN MaxThreads ELSE Requested
Worker == 0 .. MaxThreads - 1

VARIABLES
  g_lAbortTests,
  \* RunEngine: the thread manager in the pool and the context on the stack.
  pMgr,           \* the manager is allocated
  lStopFlag, StartEvent,
  pThreads,       \* [Worker -> BOOLEAN]: the manager holds a reference
  lStartFlag, llTotalOps,
  \* What the workers use besides.
  buffers,        \* pool buffers of the current size: subset of {8, 16}
  Search,         \* the suite's search object is initialized
  \* The master thread.
  pc,
  test, config, suite, engine,    \* loop counters
  ulIndex,        \* the loop of StartThreads and of StopAndWaitThreads
  failed,         \* some correctness test has failed
  verdict,        \* the message RunTests ends with
  \* The worker threads.
  wpc, localOps

manager  == <<pMgr, lStopFlag, StartEvent, pThreads>>
measure  == <<lStartFlag, llTotalOps>>
memory   == <<buffers, Search>>
progress == <<test, config, suite, engine>>
outcome  == <<failed, verdict>>
workers  == <<wpc, localOps>>

vars == <<g_lAbortTests, manager, measure, memory, pc, progress, ulIndex,
          outcome, workers>>

Init ==
  /\ g_lAbortTests = FALSE
  /\ pMgr = FALSE /\ lStopFlag = FALSE /\ StartEvent = FALSE
  /\ pThreads = [w \in Worker |-> FALSE]
  /\ lStartFlag = FALSE /\ llTotalOps = 0
  /\ buffers = {} /\ Search = FALSE
  /\ pc = "plan"
  /\ test = 0 /\ config = 0 /\ suite = 0 /\ engine = 0 /\ ulIndex = 0
  /\ failed = FALSE /\ verdict = "none"
  /\ wpc = [w \in Worker |-> "none"] /\ localOps = [w \in Worker |-> 0]

Goto(from, to) == pc = from /\ pc' = to

\* Somebody else wants the tests to stop: DriverUnload.
Abort ==
  /\ ~g_lAbortTests
  /\ g_lAbortTests' = TRUE
  /\ UNCHANGED <<manager, measure, memory, pc, progress, ulIndex, outcome, workers>>

-----------------------------------------------------------------------------
(***************************************************************************)
(* RunTests and RunEngineTestPlan.                                         *)
(***************************************************************************)
RunEngineTestPlan ==
  /\ Goto("plan", IF g_lAbortTests THEN "verdict" ELSE "tests")
  /\ UNCHANGED <<g_lAbortTests, manager, measure, memory, progress, ulIndex,
                 outcome, workers>>

\* One correctness test.  It fails when it is aborted, when Initialize runs
\* out of memory, or when an engine's answer is wrong; the plan goes on.
RunCorrectnessTest ==
  /\ pc = "tests" /\ test < Tests
  /\ test' = test + 1
  /\ failed' \in IF g_lAbortTests THEN {TRUE} ELSE {failed, TRUE}
  /\ UNCHANGED <<g_lAbortTests, manager, measure, memory, pc, config, suite,
                 engine, ulIndex, verdict, workers>>

TestsDone ==
  /\ Goto("tests", "config") /\ test = Tests
  /\ UNCHANGED <<g_lAbortTests, manager, measure, memory, progress, ulIndex,
                 outcome, workers>>

\* The loop over buffer sizes: either allocation may fail; what was
\* allocated is freed again if the other was not.
NextConfig ==
  /\ pc = "config"
  /\ IF g_lAbortTests \/ config = Configs
     THEN pc' = "verdict" /\ UNCHANGED buffers
     ELSE pc' = "buffers" /\ buffers' \in SUBSET {8, 16}
  /\ UNCHANGED <<g_lAbortTests, manager, measure, Search, progress, ulIndex,
                 outcome, workers>>

\* Mutant: one of the two frees of the failure path is missing.
SkipConfigKeeps8 ==
  /\ Goto("buffers", "config") /\ buffers # {8, 16}
  /\ buffers' = buffers \ {16}
  /\ config' = config + 1
  /\ UNCHANGED <<g_lAbortTests, manager, measure, Search, test, suite, engine,
                 ulIndex, outcome, workers>>

SkipConfig ==
  /\ Goto("buffers", "config") /\ buffers # {8, 16}
  /\ buffers' = {}
  /\ config' = config + 1
  /\ UNCHANGED <<g_lAbortTests, manager, measure, Search, test, suite, engine,
                 ulIndex, outcome, workers>>

\* RunPerformanceSuiteT's beginning: an abort or a failed Initialize skip the
\* suite.
NextSuite ==
  /\ pc = "buffers" /\ buffers = {8, 16} /\ suite < Suites
  /\ \/ /\ suite' = suite + 1
        /\ UNCHANGED <<pc, Search>>
     \/ /\ ~g_lAbortTests
        /\ pc' = "engine" /\ Search' = TRUE
        /\ UNCHANGED suite
  /\ UNCHANGED <<g_lAbortTests, manager, measure, buffers, test, config,
                 engine, ulIndex, outcome, workers>>

FreeBuffers ==
  /\ Goto("buffers", "config") /\ buffers = {8, 16} /\ suite = Suites
  /\ buffers' = {}
  /\ config' = config + 1 /\ suite' = 0
  /\ UNCHANGED <<g_lAbortTests, manager, measure, Search, test, engine, ulIndex,
                 outcome, workers>>

\* RunTests' last words: only an abort keeps it from reporting success.
ReportVerdict ==
  /\ Goto("verdict", "ended")
  /\ verdict' = IF g_lAbortTests THEN "aborted" ELSE "success"
  /\ UNCHANGED <<g_lAbortTests, manager, measure, memory, progress, ulIndex,
                 failed, workers>>

-----------------------------------------------------------------------------
(***************************************************************************)
(* RunPerformanceSuiteT: one RunEngine after the other, then the return,   *)
(* which destroys the search object.                                       *)
(***************************************************************************)
SuiteReturns ==
  /\ Goto("engine", "buffers") /\ engine = Engines
  /\ engine' = 0 /\ suite' = suite + 1
  /\ Search' = FALSE
  /\ UNCHANGED <<g_lAbortTests, manager, measure, buffers, test, config,
                 ulIndex, outcome, workers>>

\* RunEngine returns 0 when aborted or out of memory.
EngineReturnsZero ==
  /\ pc = "engine" /\ engine < Engines
  /\ engine' = engine + 1
  /\ UNCHANGED <<g_lAbortTests, manager, measure, memory, pc, test, config,
                 suite, ulIndex, outcome, workers>>

\* The context is zeroed, the manager allocated, and StartThreads entered.
RunEngine ==
  /\ Goto("engine", "spawn") /\ engine < Engines
  /\ ~g_lAbortTests
  /\ pMgr' = TRUE /\ lStopFlag' = FALSE /\ StartEvent' = FALSE
  /\ UNCHANGED pThreads
  /\ lStartFlag' = FALSE /\ llTotalOps' = 0
  /\ ulIndex' = 0
  /\ UNCHANGED <<g_lAbortTests, memory, progress, outcome, workers>>

-----------------------------------------------------------------------------
(***************************************************************************)
(* StartThreads.                                                           *)
(***************************************************************************)
PsCreateSystemThread ==
  /\ pc = "spawn" /\ ulIndex < ulThreadCount
  /\ \/ /\ pc' = "reference"
        /\ wpc' = [wpc EXCEPT ![ulIndex] = "event"]
        /\ localOps' = [localOps EXCEPT ![ulIndex] = 0]
        /\ UNCHANGED <<pThreads, ulIndex>>
     \/ /\ pThreads' = [pThreads EXCEPT ![ulIndex] = FALSE]
        /\ ulIndex' = ulIndex + 1
        /\ UNCHANGED <<pc, wpc, localOps>>
  /\ UNCHANGED <<g_lAbortTests, pMgr, lStopFlag, StartEvent, measure, memory,
                 progress, outcome>>

\* Without a reference the thread cannot be collected later: the tests are
\* stopped and the thread is collected here.
ObReferenceObjectByHandle ==
  /\ pc = "reference"
  /\ \/ /\ pThreads' = [pThreads EXCEPT ![ulIndex] = TRUE]
        /\ pc' = "spawn" /\ ulIndex' = ulIndex + 1
        /\ UNCHANGED lStopFlag
     \/ /\ pThreads' = [pThreads EXCEPT ![ulIndex] = FALSE]
        /\ lStopFlag' = TRUE
        /\ pc' = "abort"
        /\ UNCHANGED ulIndex
  /\ UNCHANGED <<g_lAbortTests, pMgr, StartEvent, measure, memory, progress,
                 outcome, workers>>

\* Mutant: only this pool's stop flag is raised, not the abort.
ReleaseWithoutAbort ==
  /\ Goto("abort", "release")
  /\ UNCHANGED <<g_lAbortTests, manager, measure, memory, progress, ulIndex,
                 outcome, workers>>

AbortTests ==
  /\ Goto("abort", "release")
  /\ g_lAbortTests' = TRUE
  /\ UNCHANGED <<manager, measure, memory, progress, ulIndex, outcome, workers>>

\* KeSetEvent.  In user mode there may be no event to set: KeInitializeEvent
\* does not look at what CreateEvent returns.
KeSetEvent == StartEvent' \in IF UserMode THEN {StartEvent, TRUE} ELSE {TRUE}

ReleaseThreads ==
  /\ Goto("release", "collect")
  /\ KeSetEvent
  /\ UNCHANGED <<g_lAbortTests, pMgr, lStopFlag, pThreads, measure, memory,
                 progress, ulIndex, outcome, workers>>

CollectUnreferenced ==
  /\ Goto("collect", "spawn")
  /\ wpc[ulIndex] = "ended"
  /\ ulIndex' = ulIndex + 1
  /\ UNCHANGED <<g_lAbortTests, manager, measure, memory, progress, outcome, workers>>

StartTogether ==
  /\ Goto("spawn", "started") /\ ulIndex = ulThreadCount
  /\ KeSetEvent
  /\ UNCHANGED <<g_lAbortTests, pMgr, lStopFlag, pThreads, measure, memory,
                 progress, ulIndex, outcome, workers>>

-----------------------------------------------------------------------------
(***************************************************************************)
(* RunEngine, after 200 ms: the start flag, the clock, and StopAndWait-    *)
(* Threads, which lets the workers run for a while or until an abort.      *)
(***************************************************************************)
SetStartFlag ==
  /\ Goto("started", "clock")
  /\ lStartFlag' = TRUE
  /\ UNCHANGED <<g_lAbortTests, manager, llTotalOps, memory, progress,
                 ulIndex, outcome, workers>>

\* The measurement begins here.
StartClock ==
  /\ Goto("clock", "grace")
  /\ UNCHANGED <<g_lAbortTests, manager, measure, memory, progress, ulIndex,
                 outcome, workers>>

\* Mutant: the threads are waited for, but not told to stop.
JoinRunning ==
  /\ Goto("grace", "join")
  /\ ulIndex' = 0
  /\ UNCHANGED <<g_lAbortTests, manager, measure, memory, progress, outcome,
                 workers>>

SetStopFlag ==
  /\ Goto("grace", "join")
  /\ lStopFlag' = TRUE
  /\ ulIndex' = 0
  /\ UNCHANGED <<g_lAbortTests, pMgr, StartEvent, pThreads, measure, memory,
                 progress, outcome, workers>>

\* Mutant: a reference is dropped without waiting for the thread.
DropThread ==
  /\ pc = "join" /\ ulIndex < ulThreadCount
  /\ pThreads' = [pThreads EXCEPT ![ulIndex] = FALSE]
  /\ ulIndex' = ulIndex + 1
  /\ UNCHANGED <<g_lAbortTests, pMgr, lStopFlag, StartEvent, measure, memory,
                 pc, progress, outcome, workers>>

WaitForThread ==
  /\ pc = "join" /\ ulIndex < ulThreadCount
  /\ pThreads[ulIndex] => wpc[ulIndex] = "ended"
  /\ pThreads' = [pThreads EXCEPT ![ulIndex] = FALSE]
  /\ ulIndex' = ulIndex + 1
  /\ UNCHANGED <<g_lAbortTests, pMgr, lStopFlag, StartEvent, measure, memory,
                 pc, progress, outcome, workers>>

FreeManager ==
  /\ Goto("join", "report") /\ ulIndex = ulThreadCount
  /\ pMgr' = FALSE
  /\ UNCHANGED <<g_lAbortTests, lStopFlag, StartEvent, pThreads, measure,
                 memory, progress, ulIndex, outcome, workers>>

\* The total is read and logged; the context leaves the stack.
EngineReturns ==
  /\ Goto("report", "engine")
  /\ engine' = engine + 1
  /\ lStartFlag' = FALSE /\ llTotalOps' = 0
  /\ localOps' = [w \in Worker |-> 0]
  /\ UNCHANGED <<g_lAbortTests, manager, memory, test, config, suite, ulIndex,
                 outcome, wpc>>

-----------------------------------------------------------------------------
(***************************************************************************)
(* SearchWorkerT.                                                          *)
(***************************************************************************)
WGoto(w, from, to) == wpc[w] = from /\ wpc' = [wpc EXCEPT ![w] = to]

WorkerShared == <<g_lAbortTests, manager, lStartFlag, memory, pc,
                  progress, ulIndex, outcome>>

AwaitEvent(w) ==
  /\ WGoto(w, "event", "spin") /\ (StartEvent \/ UserMode)
  /\ UNCHANGED <<WorkerShared, llTotalOps, localOps>>

\* Mutant: the abort ends the spin, but the worker goes on to its loop.
SpinThenLoop(w) ==
  /\ \/ WGoto(w, "spin", IF lStartFlag THEN "loop" ELSE "spinning")
     \/ WGoto(w, "spinning", IF g_lAbortTests THEN "loop" ELSE "spin")
  /\ UNCHANGED <<WorkerShared, llTotalOps, localOps>>

\* Mutant: the abort does not end the spin.
SpinBlind(w) ==
  /\ \/ WGoto(w, "spin", IF lStartFlag THEN "loop" ELSE "spinning")
     \/ WGoto(w, "spinning", "spin")
  /\ UNCHANGED <<WorkerShared, llTotalOps, localOps>>

\* The spin: the start flag is read, and when it is not up, the abort flag.
Spin(w) ==
  /\ \/ WGoto(w, "spin", IF lStartFlag THEN "loop" ELSE "spinning")
     \/ WGoto(w, "spinning", IF g_lAbortTests THEN "ended" ELSE "spin")
  /\ UNCHANGED <<WorkerShared, llTotalOps, localOps>>

\* The loop: the stop flag is read, and when it is not up, the abort flag.
\* The text searched starts 0 or 32 characters late, never past its end.
SearchLoop(w) ==
  /\ \/ /\ WGoto(w, "loop", IF lStopFlag THEN "add" ELSE "looping")
        /\ UNCHANGED localOps
     \/ /\ WGoto(w, "looping", IF g_lAbortTests THEN "add" ELSE "find")
        /\ UNCHANGED localOps
     \/ /\ WGoto(w, "find", "loop")
        /\ localOps' = [localOps EXCEPT ![w] = IF @ < MaxOps THEN @ + 1 ELSE @]
  /\ UNCHANGED <<WorkerShared, llTotalOps>>

\* Mutant: a plain store where the code adds.
StoreOps(w) ==
  /\ WGoto(w, "add", "ended")
  /\ llTotalOps' = localOps[w]
  /\ UNCHANGED <<WorkerShared, localOps>>

AddOps(w) ==
  /\ WGoto(w, "add", "ended")
  /\ llTotalOps' = llTotalOps + localOps[w]
  /\ UNCHANGED <<WorkerShared, localOps>>

SearchWorkerT(w) == AwaitEvent(w) \/ Spin(w) \/ SearchLoop(w) \/ AddOps(w)

-----------------------------------------------------------------------------
StartThreads == \/ PsCreateSystemThread \/ ObReferenceObjectByHandle
                \/ AbortTests \/ ReleaseThreads \/ CollectUnreferenced
                \/ StartTogether

StopAndWaitThreads == SetStopFlag \/ WaitForThread

RunTests ==
  \/ RunEngineTestPlan \/ RunCorrectnessTest \/ TestsDone
  \/ NextConfig \/ SkipConfig \/ NextSuite \/ FreeBuffers \/ ReportVerdict
  \/ SuiteReturns \/ EngineReturnsZero \/ RunEngine
  \/ StartThreads \/ SetStartFlag \/ StartClock \/ StopAndWaitThreads
  \/ FreeManager \/ EngineReturns

Terminated == pc = "ended" /\ UNCHANGED vars

Next == RunTests \/ (\E w \in Worker : SearchWorkerT(w)) \/ Abort \/ Terminated

(***************************************************************************)
(* The scheduler runs every thread that can run; nobody has to abort.      *)
(***************************************************************************)
Safety == Init /\ [][Next]_vars
Spec == /\ Safety
        /\ WF_vars(RunTests)
        /\ \A w \in Worker : WF_vars(SearchWorkerT(w))

-----------------------------------------------------------------------------
(***************************************************************************)
(* What is claimed of the test threads.                                    *)
(***************************************************************************)
MasterPCs == {"plan", "tests", "config", "buffers", "engine", "spawn",
              "reference", "abort", "release", "collect", "started", "clock",
              "grace", "join", "report", "verdict", "ended"}
WorkerPCs == {"none", "event", "spin", "spinning", "loop", "looping", "find",
              "add", "ended"}

\* The master is inside RunEngine, between the allocation and the free.
Measuring == {"spawn", "reference", "abort", "release", "collect", "started",
              "clock", "grace", "join"}

\* StartThreads between a creation and what becomes of the new thread.
Handling == {"reference", "abort", "release", "collect"}

Running(w) == wpc[w] \notin {"none", "ended"}

Sum(f, S) == MapThenSumSet(LAMBDA w : f[w], S)

(***************************************************************************)
(* Every variable stays in its type; the loops over pThreads stay in it.   *)
(***************************************************************************)
TypeOK ==
  /\ g_lAbortTests \in BOOLEAN
  /\ pMgr \in BOOLEAN /\ lStopFlag \in BOOLEAN /\ StartEvent \in BOOLEAN
  /\ pThreads \in [Worker -> BOOLEAN]
  /\ lStartFlag \in BOOLEAN /\ llTotalOps \in Nat
  /\ buffers \in SUBSET {8, 16} /\ Search \in BOOLEAN
  /\ pc \in MasterPCs
  /\ test \in 0 .. Tests /\ config \in 0 .. Configs
  /\ suite \in 0 .. Suites /\ engine \in 0 .. Engines
  /\ ulIndex \in 0 .. MaxThreads
  /\ failed \in BOOLEAN /\ verdict \in {"none", "aborted", "success"}
  /\ wpc \in [Worker -> WorkerPCs] /\ localOps \in [Worker -> 0 .. MaxOps]

(***************************************************************************)
(* A worker that has not ended finds alive everything it may still touch:  *)
(* the manager with its event and stop flag, the context on the stack of   *)
(* RunEngine, the search object and the text.  RunEngine frees the manager *)
(* and returns only when no worker is left, with or without an abort, also *)
(* when a thread could not be created or referenced.                       *)
(***************************************************************************)
NoUseAfterFree ==
  \A w \in Worker :
    Running(w) => /\ pMgr /\ pc \in Measuring
                  /\ Search /\ buffers = {8, 16}

(***************************************************************************)
(* When RunEngine reads llTotalOps, it is the sum of what all the workers  *)
(* counted: none of them is still to add its share, none is lost.          *)
(***************************************************************************)
TotalIsComplete ==
  pc = "report" =>
    /\ \A w \in Worker : ~Running(w)
    /\ llTotalOps = Sum(localOps, Worker)

(***************************************************************************)
(* No search is made before the start flag is up, which is not before all  *)
(* threads have been created: a worker that is released by the failure of  *)
(* another one's creation does not begin on its own.                       *)
(***************************************************************************)
NoEarlySearch ==
  \A w \in Worker :
    wpc[w] \in {"loop", "looping", "find", "add"} \/ localOps[w] > 0 =>
      lStartFlag /\ pc \in {"clock", "grace", "join", "report"}

(***************************************************************************)
(* Everything taken is given back: when RunTests ends, however many of its *)
(* allocations failed and wherever the abort reached it, no buffer, search *)
(* object, manager or thread reference is left, and no thread.             *)
(***************************************************************************)
AllReturned ==
  /\ pc \in {"plan", "tests", "config", "verdict", "ended"} => buffers = {} /\ ~Search
  /\ pc \notin Measuring =>
       ~pMgr /\ \A w \in Worker : ~pThreads[w] /\ ~Running(w)

(***************************************************************************)
(* The tests come to an end by themselves: no failure to create or         *)
(* reference a thread leaves a worker spinning or the master waiting.      *)
(***************************************************************************)
TestsEnd == <>(pc = "ended")

(***************************************************************************)
(* Why they do.  Every step of the master takes it further through its     *)
(* nested loops: what is left of them, compared from the outermost inward, *)
(* shrinks.  It waits for nothing but a worker, and a worker it waits for  *)
(* can move, and comes nearer to its end with each of its steps, because   *)
(* of the flags that are up by then.  The hazard is a thread that is       *)
(* waited for before anything has told it to end: a worker that is         *)
(* collected while it spins, or joined while it searches.                  *)
(***************************************************************************)
PlanLeft ==
  CASE pc = "plan"    -> Tests + 4
    [] pc = "tests"   -> Tests - test + 3
    [] pc = "verdict" -> 1
    [] pc = "ended"   -> 0
    [] OTHER          -> 2

ConfigsLeft == Configs - config
SuitesLeft  == IF pc = "config" THEN Suites + 1 ELSE Suites - suite
EnginesLeft == IF pc = "buffers" THEN Engines + 1 ELSE Engines - engine

\* What is left of one RunEngine, and of its loop over the threads.
EngineLeft ==
  CASE pc = "engine" -> 6
    [] pc \in Handling \cup {"spawn"} -> 5
    [] pc = "started" -> 4
    [] pc = "clock"   -> 3
    [] pc = "grace"   -> 2
    [] pc = "join"    -> 1
    [] OTHER          -> 0

HandlingLeft ==
  CASE pc = "spawn"     -> 4
    [] pc = "reference" -> 3
    [] pc = "abort"     -> 2
    [] pc = "release"   -> 1
    [] OTHER            -> 0

ThreadsLeft ==
  IF pc \in Measuring THEN 5 * (ulThreadCount - ulIndex) + HandlingLeft ELSE 0

MasterLeft ==
  <<PlanLeft, ConfigsLeft, SuitesLeft, EnginesLeft, EngineLeft, ThreadsLeft>>

Loops == 1 .. 6

\* The worker whose end the master is waiting for.
Awaited(w) ==
  /\ w = ulIndex /\ wpc[w] # "ended"
  /\ pc = "collect" \/ (pc = "join" /\ ulIndex < ulThreadCount /\ pThreads[w])

\* It has been created and is not itself waiting.
CanMove(w) == wpc[w] # "none" /\ (wpc[w] = "event" => StartEvent \/ UserMode)

WorkerLeft(w) ==
  CASE wpc[w] = "event"    -> 8
    [] wpc[w] = "spinning" -> IF lStartFlag THEN 7 ELSE 5
    [] wpc[w] = "spin"     -> 6
    [] wpc[w] = "looping"  -> 5
    [] wpc[w] = "find"     -> 4
    [] wpc[w] = "loop"     -> 3
    [] wpc[w] = "add"      -> 2
    [] OTHER               -> 0

MasterAdvances ==
  \E i \in Loops : /\ MasterLeft'[i] < MasterLeft[i]
                   /\ \A j \in 1 .. i - 1 : MasterLeft'[j] = MasterLeft[j]

AwaitedAdvances ==
  /\ MasterLeft' = MasterLeft
  /\ \A w \in Worker :
       Awaited(w) => wpc'[w] = wpc[w] \/ WorkerLeft(w)' < WorkerLeft(w)

TestsAdvance ==
  /\ [](/\ \A i \in Loops : MasterLeft[i] \in Nat
        /\ \A w \in Worker : Awaited(w) => CanMove(w))
  /\ [][MasterAdvances \/ AwaitedAdvances]_vars

(***************************************************************************)
(* Shared.h:852 logs "All Tests Finished Successfully".                    *)
(***************************************************************************)
SuccessMeansPassed == verdict = "success" => ~failed

-----------------------------------------------------------------------------
(***************************************************************************)
(* The inductive invariant behind TypeOK, NoUseAfterFree, NoEarlySearch    *)
(* and AllReturned: which thread the master can still collect, and which   *)
(* memory exists, at each of its steps.                                    *)
(***************************************************************************)

\* Memory is taken and given back in nested scopes.
MemoryInv ==
  /\ pc \in {"plan", "tests", "config", "verdict", "ended"} => buffers = {}
  /\ pc \in Measuring \cup {"engine", "report"} => Search /\ buffers = {8, 16}
  /\ pc \notin Measuring \cup {"engine", "report"} => ~Search
  /\ pMgr <=> pc \in Measuring

\* The loop counters of the scopes the master is in are below their bounds.
CounterInv ==
  /\ pc \in {"plan", "tests"} => config = 0
  /\ pc \in {"plan", "tests", "config"} => suite = 0
  /\ pc = "buffers" /\ buffers # {8, 16} => suite = 0
  /\ pc \in {"buffers", "engine", "report"} \cup Measuring => config < Configs
  /\ pc \in {"engine", "report"} \cup Measuring => suite < Suites
  /\ pc \in {"report"} \cup Measuring => engine < Engines
  /\ pc \in Measuring => ulIndex <= ulThreadCount
  /\ pc \in Handling => ulIndex < ulThreadCount

\* Every thread that has not ended can be collected: the manager references
\* it and the loop has not passed it, or it is the one just created.
ThreadInv ==
  \A w \in Worker :
    /\ Running(w) => pThreads[w] \/ (pc \in Handling /\ w = ulIndex)
    /\ pThreads[w] =>
         /\ pc \in Measuring /\ w < ulThreadCount
         /\ pc \in Handling \cup {"spawn"} => w < ulIndex
         /\ pc = "join" => w >= ulIndex

\* The start flag separates the searches from what comes before them.
StartInv ==
  /\ lStartFlag => pc \in {"clock", "grace", "join", "report"}
  /\ \A w \in Worker :
       wpc[w] \in {"loop", "looping", "find", "add"} \/ localOps[w] > 0 => lStartFlag

IInv == TypeOK /\ MemoryInv /\ CounterInv /\ ThreadInv /\ StartInv

(***************************************************************************)
(* What TotalIsComplete needs besides: at any time the total holds the     *)
(* shares of the workers that have ended, and a worker that ends without   *)
(* adding its share, because the abort released it from the spin, has none *)
(* to add.                                                                 *)
(***************************************************************************)
Share == [w \in Worker |-> IF wpc[w] = "ended" THEN localOps[w] ELSE 0]

OpsInv ==
  /\ \A w \in Worker :
       wpc[w] \in {"none", "event", "spin", "spinning"} => localOps[w] = 0
  /\ llTotalOps = Sum(Share, Worker)

TotalInv == IInv /\ OpsInv

(***************************************************************************)
(* What TestsAdvance needs besides: which flags are up when the master     *)
(* waits, and that it waits only for threads that were created.            *)
(***************************************************************************)
FlagsInv ==
  /\ pc \in {"clock", "grace", "join", "report"} => lStartFlag
  /\ pc = "join" => lStopFlag
  /\ pc \in {"release", "collect"} => g_lAbortTests
  /\ pc \in {"collect", "started", "clock", "grace", "join"} => StartEvent \/ UserMode

CreatedInv ==
  /\ pc \in Handling => wpc[ulIndex] # "none"
  /\ \A w \in Worker : pThreads[w] => wpc[w] # "none"

AdvanceInv == IInv /\ FlagsInv /\ CreatedInv
=============================================================================
