-------------------------- MODULE TestThreadsProofs --------------------------
(***************************************************************************)
(* Proofs about TestThreads, for any number of worker threads, any room in *)
(* the manager, and any test plan: the inductive invariant IInv and the    *)
(* safety properties that follow from it; then, for the total of the       *)
(* operations, what a step does to a sum over the workers, and with OpsInv *)
(* that no count is lost; last, with AdvanceInv, that the tests advance.   *)
(***************************************************************************)
EXTENDS TestThreads, FiniteSetTheorems, TLAPS

M == INSTANCE MatchingLemmas

\* The cap keeps the loops inside the manager's array.
LEMMA CountFits == ulThreadCount \in Nat /\ ulThreadCount <= MaxThreads
  BY CountsAssumption DEF ulThreadCount

LEMMA InitEstablishes == Init => IInv
<1> SUFFICES ASSUME Init PROVE IInv
  OBVIOUS
<1>1. TypeOK
  <2>1. /\ 0 \in 0 .. Tests /\ 0 \in 0 .. Configs /\ 0 \in 0 .. Suites
        /\ 0 \in 0 .. Engines /\ 0 \in 0 .. MaxThreads /\ 0 \in 0 .. MaxOps
        /\ 0 \in Nat
    BY CountsAssumption
  <2> QED
    BY <2>1, Zenon DEF Init, TypeOK, MasterPCs, WorkerPCs
<1>2. MemoryInv /\ CounterInv
  BY DEF Init, MemoryInv, CounterInv, Measuring, Handling
<1>3. ThreadInv /\ StartInv
  BY DEF Init, ThreadInv, StartInv, Running
<1> QED BY <1>1, <1>2, <1>3 DEF IInv

-----------------------------------------------------------------------------
(***************************************************************************)
(* The test plan: outside a measurement there is no worker, and the memory *)
(* follows the scopes the master is in.                                    *)
(***************************************************************************)
LEMMA RunEngineTestPlanKeeps == IInv /\ RunEngineTestPlan => IInv'
<1> SUFFICES ASSUME IInv, RunEngineTestPlan PROVE IInv'
  OBVIOUS
<1> USE CountsAssumption, CountFits
    DEF IInv, RunEngineTestPlan, Goto, manager, measure, memory, progress,
        outcome, workers
<1>1. TypeOK'
  BY DEF TypeOK, MasterPCs, WorkerPCs, CounterInv, Measuring, Handling
<1>2. MemoryInv'
  BY DEF MemoryInv, Measuring, TypeOK, MasterPCs
<1>3. CounterInv'
  BY DEF CounterInv, MemoryInv, Measuring, Handling, TypeOK, MasterPCs
<1>4. ThreadInv'
  BY DEF ThreadInv, Running, MemoryInv, CounterInv, Measuring, Handling, TypeOK,
      Worker
<1>5. StartInv'
  BY DEF StartInv, ThreadInv, Running, TypeOK, Worker, MasterPCs
<1> QED BY <1>1, <1>2, <1>3, <1>4, <1>5

LEMMA RunCorrectnessTestKeeps == IInv /\ RunCorrectnessTest => IInv'
<1> SUFFICES ASSUME IInv, RunCorrectnessTest PROVE IInv'
  OBVIOUS
<1> USE CountsAssumption, CountFits
    DEF IInv, RunCorrectnessTest, Goto, manager, measure, memory, progress,
        outcome, workers
<1>1. TypeOK'
  <2>1. test' \in 0 .. Tests
    BY DEF TypeOK
  <2>2. failed' \in BOOLEAN
    BY DEF TypeOK
  <2> QED
    BY <2>1, <2>2, Zenon DEF TypeOK, MasterPCs, WorkerPCs
<1>2. MemoryInv'
  BY DEF MemoryInv, Measuring, TypeOK, MasterPCs
<1>3. CounterInv'
  BY DEF CounterInv, MemoryInv, Measuring, Handling, TypeOK, MasterPCs
<1>4. ThreadInv'
  BY DEF ThreadInv, Running, MemoryInv, CounterInv, Measuring, Handling, TypeOK,
      Worker
<1>5. StartInv'
  BY DEF StartInv, ThreadInv, Running, TypeOK, Worker, MasterPCs
<1> QED BY <1>1, <1>2, <1>3, <1>4, <1>5

LEMMA TestsDoneKeeps == IInv /\ TestsDone => IInv'
<1> SUFFICES ASSUME IInv, TestsDone PROVE IInv'
  OBVIOUS
<1> USE CountsAssumption, CountFits
    DEF IInv, TestsDone, Goto, manager, measure, memory, progress, outcome,
        workers
<1>1. TypeOK'
  BY DEF TypeOK, MasterPCs, WorkerPCs, CounterInv, Measuring, Handling
<1>2. MemoryInv'
  BY DEF MemoryInv, Measuring, TypeOK, MasterPCs
<1>3. CounterInv'
  BY DEF CounterInv, MemoryInv, Measuring, Handling, TypeOK, MasterPCs
<1>4. ThreadInv'
  BY DEF ThreadInv, Running, MemoryInv, CounterInv, Measuring, Handling, TypeOK,
      Worker
<1>5. StartInv'
  BY DEF StartInv, ThreadInv, Running, TypeOK, Worker, MasterPCs
<1> QED BY <1>1, <1>2, <1>3, <1>4, <1>5

LEMMA NextConfigKeeps == IInv /\ NextConfig => IInv'
<1> SUFFICES ASSUME IInv, NextConfig PROVE IInv'
  OBVIOUS
<1> USE CountsAssumption, CountFits
    DEF IInv, NextConfig, Goto, manager, measure, memory, progress, outcome,
        workers
<1>1. TypeOK'
  BY DEF TypeOK, MasterPCs, WorkerPCs, CounterInv, Measuring, Handling
<1>2. MemoryInv'
  BY DEF MemoryInv, Measuring, TypeOK, MasterPCs
<1>3. CounterInv'
  BY DEF CounterInv, MemoryInv, Measuring, Handling, TypeOK, MasterPCs
<1>4. ThreadInv'
  BY DEF ThreadInv, Running, MemoryInv, CounterInv, Measuring, Handling, TypeOK,
      Worker
<1>5. StartInv'
  BY DEF StartInv, ThreadInv, Running, TypeOK, Worker, MasterPCs
<1> QED BY <1>1, <1>2, <1>3, <1>4, <1>5

LEMMA SkipConfigKeeps == IInv /\ SkipConfig => IInv'
<1> SUFFICES ASSUME IInv, SkipConfig PROVE IInv'
  OBVIOUS
<1> USE CountsAssumption, CountFits
    DEF IInv, SkipConfig, Goto, manager, measure, memory, progress, outcome,
        workers
<1>1. TypeOK'
  <2>1. config' \in 0 .. Configs
    BY DEF TypeOK, CounterInv
  <2> QED
    BY <2>1 DEF TypeOK, MasterPCs, WorkerPCs
<1>2. MemoryInv'
  BY DEF MemoryInv, Measuring, TypeOK, MasterPCs
<1>3. CounterInv'
  BY DEF CounterInv, MemoryInv, Measuring, Handling, TypeOK, MasterPCs
<1>4. ThreadInv'
  BY DEF ThreadInv, Running, MemoryInv, CounterInv, Measuring, Handling, TypeOK,
      Worker
<1>5. StartInv'
  BY DEF StartInv, ThreadInv, Running, TypeOK, Worker, MasterPCs
<1> QED BY <1>1, <1>2, <1>3, <1>4, <1>5

LEMMA NextSuiteKeeps == IInv /\ NextSuite => IInv'
<1> SUFFICES ASSUME IInv, NextSuite PROVE IInv'
  OBVIOUS
<1> USE CountsAssumption, CountFits
    DEF IInv, NextSuite, Goto, manager, measure, memory, progress, outcome,
        workers
<1>1. TypeOK'
  <2>1. suite' \in 0 .. Suites
    BY DEF TypeOK
  <2> QED
    BY <2>1 DEF TypeOK, MasterPCs, WorkerPCs
<1>2. MemoryInv'
  BY DEF MemoryInv, Measuring, TypeOK, MasterPCs
<1>3. CounterInv'
  BY DEF CounterInv, MemoryInv, Measuring, Handling, TypeOK, MasterPCs
<1>4. ThreadInv'
  BY DEF ThreadInv, Running, MemoryInv, CounterInv, Measuring, Handling, TypeOK,
      Worker
<1>5. StartInv'
  BY DEF StartInv, ThreadInv, Running, TypeOK, Worker, MasterPCs
<1> QED BY <1>1, <1>2, <1>3, <1>4, <1>5

LEMMA FreeBuffersKeeps == IInv /\ FreeBuffers => IInv'
  BY CountsAssumption, CountFits
  DEF FreeBuffers, IInv, TypeOK, MemoryInv, CounterInv, ThreadInv, StartInv,
      Measuring, Handling, Running, Goto, MasterPCs, WorkerPCs, Worker,
      manager, measure, memory, progress, outcome, workers

LEMMA ReportVerdictKeeps == IInv /\ ReportVerdict => IInv'
<1> SUFFICES ASSUME IInv, ReportVerdict PROVE IInv'
  OBVIOUS
<1> USE CountsAssumption, CountFits
    DEF IInv, ReportVerdict, Goto, manager, measure, memory, progress, outcome,
        workers
<1>1. TypeOK'
  BY DEF TypeOK, MasterPCs, WorkerPCs, CounterInv, Measuring, Handling
<1>2. MemoryInv'
  BY DEF MemoryInv, Measuring, TypeOK, MasterPCs
<1>3. CounterInv'
  BY DEF CounterInv, MemoryInv, Measuring, Handling, TypeOK, MasterPCs
<1>4. ThreadInv'
  BY DEF ThreadInv, Running, MemoryInv, CounterInv, Measuring, Handling, TypeOK,
      Worker
<1>5. StartInv'
  BY DEF StartInv, ThreadInv, Running, TypeOK, Worker, MasterPCs
<1> QED BY <1>1, <1>2, <1>3, <1>4, <1>5

LEMMA SuiteReturnsKeeps == IInv /\ SuiteReturns => IInv'
<1> SUFFICES ASSUME IInv, SuiteReturns PROVE IInv'
  OBVIOUS
<1> USE CountsAssumption, CountFits
    DEF IInv, SuiteReturns, Goto, manager, measure, memory, progress, outcome,
        workers
<1>1. TypeOK'
  <2>1. suite' \in 0 .. Suites /\ engine' \in 0 .. Engines
    BY DEF TypeOK, CounterInv
  <2> QED
    BY <2>1 DEF TypeOK, MasterPCs, WorkerPCs
<1>2. MemoryInv'
  BY DEF MemoryInv, Measuring, TypeOK, MasterPCs
<1>3. CounterInv'
  BY DEF CounterInv, MemoryInv, Measuring, Handling, TypeOK, MasterPCs
<1>4. ThreadInv'
  BY DEF ThreadInv, Running, MemoryInv, CounterInv, Measuring, Handling, TypeOK,
      Worker
<1>5. StartInv'
  BY DEF StartInv, ThreadInv, Running, TypeOK, Worker, MasterPCs
<1> QED BY <1>1, <1>2, <1>3, <1>4, <1>5

LEMMA EngineReturnsZeroKeeps == IInv /\ EngineReturnsZero => IInv'
<1> SUFFICES ASSUME IInv, EngineReturnsZero PROVE IInv'
  OBVIOUS
<1> USE CountsAssumption, CountFits
    DEF IInv, EngineReturnsZero, Goto, manager, measure, memory, progress,
        outcome, workers
<1>1. TypeOK'
  BY DEF TypeOK, MasterPCs, WorkerPCs, CounterInv, Measuring, Handling
<1>2. MemoryInv'
  BY DEF MemoryInv, Measuring, TypeOK, MasterPCs
<1>3. CounterInv'
  BY DEF CounterInv, MemoryInv, Measuring, Handling, TypeOK, MasterPCs
<1>4. ThreadInv'
  BY DEF ThreadInv, Running, MemoryInv, CounterInv, Measuring, Handling, TypeOK,
      Worker
<1>5. StartInv'
  BY DEF StartInv, ThreadInv, Running, TypeOK, Worker, MasterPCs
<1> QED BY <1>1, <1>2, <1>3, <1>4, <1>5

-----------------------------------------------------------------------------
(***************************************************************************)
(* One measurement: every thread that StartThreads creates is referenced   *)
(* by the manager or collected on the spot, and StopAndWaitThreads passes  *)
(* a reference only after its thread has ended; so none is left when the   *)
(* manager is freed.                                                       *)
(***************************************************************************)
LEMMA RunEngineKeeps == IInv /\ RunEngine => IInv'
<1> SUFFICES ASSUME IInv, RunEngine PROVE IInv'
  OBVIOUS
<1> USE CountsAssumption, CountFits
    DEF IInv, RunEngine, Goto, manager, measure, memory, progress, outcome,
        workers
<1>1. TypeOK'
  <2>1. ulIndex' \in 0 .. MaxThreads /\ llTotalOps' \in Nat
    BY DEF TypeOK
  <2> QED
    BY <2>1, Zenon DEF TypeOK, MasterPCs, WorkerPCs
<1>2. MemoryInv'
  BY DEF MemoryInv, Measuring, TypeOK, MasterPCs
<1>3. CounterInv'
  BY DEF CounterInv, MemoryInv, Measuring, Handling, TypeOK, MasterPCs
<1>4. ThreadInv'
  BY DEF ThreadInv, Running, MemoryInv, CounterInv, Measuring, Handling, TypeOK,
      Worker
<1>5. StartInv'
  BY DEF StartInv, ThreadInv, Running, TypeOK, Worker, MasterPCs
<1> QED BY <1>1, <1>2, <1>3, <1>4, <1>5

LEMMA PsCreateSystemThreadKeeps == IInv /\ PsCreateSystemThread => IInv'
<1> SUFFICES ASSUME IInv, PsCreateSystemThread PROVE IInv'
  OBVIOUS
<1> USE CountsAssumption, CountFits
    DEF IInv, PsCreateSystemThread, Goto, manager, measure, memory, progress,
        outcome, workers
<1>1. TypeOK'
  <2>1. ulIndex' \in 0 .. MaxThreads
    BY DEF TypeOK, CounterInv, Measuring
  <2>2. pThreads' \in [Worker -> BOOLEAN]
    BY DEF TypeOK, Worker
  <2>3. wpc' \in [Worker -> WorkerPCs]
    BY DEF TypeOK, WorkerPCs
  <2>4. localOps' \in [Worker -> 0 .. MaxOps]
    BY DEF TypeOK
  <2> QED
    BY <2>1, <2>2, <2>3, <2>4, Zenon DEF TypeOK, MasterPCs, WorkerPCs
<1>2. MemoryInv'
  BY DEF MemoryInv, Measuring, TypeOK, MasterPCs
<1>3. CounterInv'
  BY DEF CounterInv, MemoryInv, Measuring, Handling, TypeOK, MasterPCs
<1>4. ThreadInv'
  BY DEF ThreadInv, Running, MemoryInv, CounterInv, Measuring, Handling, TypeOK,
      Worker
<1>5. StartInv'
  BY DEF StartInv, ThreadInv, Running, TypeOK, Worker, MasterPCs
<1> QED BY <1>1, <1>2, <1>3, <1>4, <1>5

LEMMA ObReferenceObjectByHandleKeeps == IInv /\ ObReferenceObjectByHandle => IInv'
<1> SUFFICES ASSUME IInv, ObReferenceObjectByHandle PROVE IInv'
  OBVIOUS
<1> USE CountsAssumption, CountFits
    DEF IInv, ObReferenceObjectByHandle, Goto, manager, measure, memory,
        progress, outcome, workers
<1>1. TypeOK'
  <2>1. ulIndex' \in 0 .. MaxThreads
    BY DEF TypeOK, CounterInv, Handling
  <2>2. pThreads' \in [Worker -> BOOLEAN]
    BY DEF TypeOK, Worker
  <2> QED
    BY <2>1, <2>2, Zenon DEF TypeOK, MasterPCs, WorkerPCs
<1>2. MemoryInv'
  BY DEF MemoryInv, Measuring, TypeOK, MasterPCs
<1>3. CounterInv'
  BY DEF CounterInv, MemoryInv, Measuring, Handling, TypeOK, MasterPCs
<1>4. ThreadInv'
  BY DEF ThreadInv, Running, MemoryInv, CounterInv, Measuring, Handling, TypeOK,
      Worker
<1>5. StartInv'
  BY DEF StartInv, ThreadInv, Running, TypeOK, Worker, MasterPCs
<1> QED BY <1>1, <1>2, <1>3, <1>4, <1>5

LEMMA AbortTestsKeeps == IInv /\ AbortTests => IInv'
  BY CountsAssumption, CountFits
  DEF AbortTests, IInv, TypeOK, MemoryInv, CounterInv, ThreadInv, StartInv,
      Measuring, Handling, Running, Goto, MasterPCs, WorkerPCs, Worker,
      manager, measure, memory, progress, outcome, workers

LEMMA ReleaseThreadsKeeps == IInv /\ ReleaseThreads => IInv'
<1>1. IInv /\ ReleaseThreads => StartEvent' \in BOOLEAN
  BY DEF ReleaseThreads, KeSetEvent, IInv, TypeOK
<1> QED
    BY <1>1, CountsAssumption, CountFits
    DEF ReleaseThreads, IInv, TypeOK, MemoryInv, CounterInv, ThreadInv, StartInv,
        Measuring, Handling, Running, Goto, MasterPCs, WorkerPCs, Worker,
        manager, measure, memory, progress, outcome, workers

LEMMA CollectUnreferencedKeeps == IInv /\ CollectUnreferenced => IInv'
  BY CountsAssumption, CountFits
  DEF CollectUnreferenced, IInv, TypeOK, MemoryInv, CounterInv, ThreadInv,
      StartInv, Measuring, Handling, Running, Goto, MasterPCs, WorkerPCs,
      Worker, manager, measure, memory, progress, outcome, workers

LEMMA StartTogetherKeeps == IInv /\ StartTogether => IInv'
<1>1. IInv /\ StartTogether => StartEvent' \in BOOLEAN
  BY DEF StartTogether, KeSetEvent, IInv, TypeOK
<1> QED
    BY <1>1, CountsAssumption, CountFits
    DEF StartTogether, IInv, TypeOK, MemoryInv, CounterInv, ThreadInv, StartInv,
        Measuring, Handling, Running, Goto, MasterPCs, WorkerPCs, Worker,
        manager, measure, memory, progress, outcome, workers

LEMMA SetStartFlagKeeps == IInv /\ SetStartFlag => IInv'
  BY CountsAssumption, CountFits
  DEF SetStartFlag, IInv, TypeOK, MemoryInv, CounterInv, ThreadInv, StartInv,
      Measuring, Handling, Running, Goto, MasterPCs, WorkerPCs, Worker,
      manager, measure, memory, progress, outcome, workers

LEMMA StartClockKeeps == IInv /\ StartClock => IInv'
  BY CountsAssumption, CountFits
  DEF StartClock, IInv, TypeOK, MemoryInv, CounterInv, ThreadInv, StartInv,
      Measuring, Handling, Running, Goto, MasterPCs, WorkerPCs, Worker,
      manager, measure, memory, progress, outcome, workers

LEMMA SetStopFlagKeeps == IInv /\ SetStopFlag => IInv'
  BY CountsAssumption, CountFits
  DEF SetStopFlag, IInv, TypeOK, MemoryInv, CounterInv, ThreadInv, StartInv,
      Measuring, Handling, Running, Goto, MasterPCs, WorkerPCs, Worker,
      manager, measure, memory, progress, outcome, workers

LEMMA WaitForThreadKeeps == IInv /\ WaitForThread => IInv'
<1> SUFFICES ASSUME IInv, WaitForThread PROVE IInv'
  OBVIOUS
<1> USE CountsAssumption, CountFits
    DEF IInv, WaitForThread, Goto, manager, measure, memory, progress, outcome,
        workers
<1>1. TypeOK'
  <2>1. ulIndex \in Worker /\ ulIndex + 1 \in 0 .. MaxThreads
    BY DEF TypeOK, Worker
  <2> QED
    BY <2>1 DEF TypeOK, MasterPCs, WorkerPCs
<1>2. MemoryInv'
  BY DEF MemoryInv, Measuring, TypeOK, MasterPCs
<1>3. CounterInv'
  BY DEF CounterInv, MemoryInv, Measuring, Handling, TypeOK, MasterPCs
<1>4. ThreadInv'
  BY DEF ThreadInv, Running, MemoryInv, CounterInv, Measuring, Handling, TypeOK,
      Worker
<1>5. StartInv'
  BY DEF StartInv, ThreadInv, Running, TypeOK, Worker, MasterPCs
<1> QED BY <1>1, <1>2, <1>3, <1>4, <1>5

LEMMA FreeManagerKeeps == IInv /\ FreeManager => IInv'
<1> SUFFICES ASSUME IInv, FreeManager PROVE IInv'
  OBVIOUS
<1> USE CountsAssumption, CountFits
    DEF IInv, FreeManager, Goto, manager, measure, memory, progress, outcome,
        workers
<1>1. TypeOK'
  BY DEF TypeOK, MasterPCs, WorkerPCs, CounterInv, Measuring, Handling
<1>2. MemoryInv'
  BY DEF MemoryInv, Measuring, TypeOK, MasterPCs
<1>3. CounterInv'
  BY DEF CounterInv, MemoryInv, Measuring, Handling, TypeOK, MasterPCs
<1>4. ThreadInv'
  BY DEF ThreadInv, Running, MemoryInv, CounterInv, Measuring, Handling, TypeOK,
      Worker
<1>5. StartInv'
  BY DEF StartInv, ThreadInv, Running, TypeOK, Worker, MasterPCs
<1> QED BY <1>1, <1>2, <1>3, <1>4, <1>5

LEMMA EngineReturnsKeeps == IInv /\ EngineReturns => IInv'
<1> SUFFICES ASSUME IInv, EngineReturns PROVE IInv'
  OBVIOUS
<1> USE CountsAssumption, CountFits
    DEF IInv, EngineReturns, Goto, manager, measure, memory, progress, outcome,
        workers
<1>1. TypeOK'
  <2>1. engine' \in 0 .. Engines /\ llTotalOps' \in Nat /\ 0 \in 0 .. MaxOps
    BY DEF TypeOK, CounterInv
  <2> QED
    BY <2>1, Zenon DEF TypeOK, MasterPCs, WorkerPCs
<1>2. MemoryInv'
  BY DEF MemoryInv, Measuring, TypeOK, MasterPCs
<1>3. CounterInv'
  BY DEF CounterInv, MemoryInv, Measuring, Handling, TypeOK, MasterPCs
<1>4. ThreadInv'
  BY DEF ThreadInv, StartInv, Running, Measuring, Handling
<1>5. StartInv'
  BY DEF ThreadInv, StartInv, Running, Measuring, Handling
<1> QED BY <1>1, <1>2, <1>3, <1>4, <1>5

-----------------------------------------------------------------------------
(***************************************************************************)
(* The workers, and whoever asks for the abort.                            *)
(***************************************************************************)
LEMMA AwaitEventKeeps ==
  ASSUME IInv, NEW w \in Worker, AwaitEvent(w)
  PROVE  IInv'
<1> USE CountsAssumption, CountFits
    DEF IInv, AwaitEvent, WGoto, WorkerShared, Goto, manager, measure, memory,
        progress, outcome, workers
<1>1. TypeOK'
  BY DEF TypeOK, MasterPCs, WorkerPCs
<1>2. MemoryInv'
  BY DEF MemoryInv, Measuring, TypeOK, MasterPCs
<1>3. CounterInv'
  BY DEF CounterInv, MemoryInv, Measuring, Handling, TypeOK, MasterPCs
<1>4. ThreadInv'
  BY DEF ThreadInv, Running, MemoryInv, CounterInv, Measuring, Handling, TypeOK,
      Worker
<1>5. StartInv'
  BY DEF StartInv, ThreadInv, Running, TypeOK, Worker, MasterPCs
<1> QED BY <1>1, <1>2, <1>3, <1>4, <1>5

LEMMA SpinKeeps ==
  ASSUME IInv, NEW w \in Worker, Spin(w)
  PROVE  IInv'
<1> USE CountsAssumption, CountFits
    DEF IInv, Spin, WGoto, WorkerShared, Goto, manager, measure, memory,
        progress, outcome, workers
<1>1. TypeOK'
  BY DEF TypeOK, MasterPCs, WorkerPCs
<1>2. MemoryInv'
  BY DEF MemoryInv, Measuring, TypeOK, MasterPCs
<1>3. CounterInv'
  BY DEF CounterInv, MemoryInv, Measuring, Handling, TypeOK, MasterPCs
<1>4. ThreadInv'
  BY DEF ThreadInv, Running, MemoryInv, CounterInv, Measuring, Handling, TypeOK,
      Worker
<1>5. StartInv'
  BY DEF StartInv, ThreadInv, Running, TypeOK, Worker, MasterPCs
<1> QED BY <1>1, <1>2, <1>3, <1>4, <1>5

LEMMA SearchLoopKeeps ==
  ASSUME IInv, NEW w \in Worker, SearchLoop(w)
  PROVE  IInv'
<1> USE CountsAssumption, CountFits
    DEF IInv, SearchLoop, WGoto, WorkerShared, Goto, manager, measure, memory,
        progress, outcome, workers
<1>1. TypeOK'
  BY DEF TypeOK, MasterPCs, WorkerPCs
<1>2. MemoryInv'
  BY DEF MemoryInv, Measuring, TypeOK, MasterPCs
<1>3. CounterInv'
  BY DEF CounterInv, MemoryInv, Measuring, Handling, TypeOK, MasterPCs
<1>4. ThreadInv'
  BY DEF ThreadInv, Running, MemoryInv, CounterInv, Measuring, Handling, TypeOK,
      Worker
<1>5. StartInv'
  BY DEF StartInv, ThreadInv, Running, TypeOK, Worker, MasterPCs
<1> QED BY <1>1, <1>2, <1>3, <1>4, <1>5

LEMMA AddOpsKeeps ==
  ASSUME IInv, NEW w \in Worker, AddOps(w)
  PROVE  IInv'
<1> USE CountsAssumption, CountFits
    DEF IInv, AddOps, WGoto, WorkerShared, Goto, manager, measure, memory,
        progress, outcome, workers
<1>1. TypeOK'
  BY DEF TypeOK, MasterPCs, WorkerPCs
<1>2. MemoryInv'
  BY DEF MemoryInv, Measuring, TypeOK, MasterPCs
<1>3. CounterInv'
  BY DEF CounterInv, MemoryInv, Measuring, Handling, TypeOK, MasterPCs
<1>4. ThreadInv'
  BY DEF ThreadInv, Running, MemoryInv, CounterInv, Measuring, Handling, TypeOK,
      Worker
<1>5. StartInv'
  BY DEF StartInv, ThreadInv, Running, TypeOK, Worker, MasterPCs
<1> QED BY <1>1, <1>2, <1>3, <1>4, <1>5

LEMMA AbortKeeps == IInv /\ Abort => IInv'
  BY CountsAssumption, CountFits
  DEF Abort, IInv, TypeOK, MemoryInv, CounterInv, ThreadInv, StartInv,
      Measuring, Handling, Running, Goto, MasterPCs, WorkerPCs, Worker,
      manager, measure, memory, progress, outcome, workers

LEMMA StepKeeps == IInv /\ [Next]_vars => IInv'
<1> SUFFICES ASSUME IInv, [Next]_vars PROVE IInv'
  OBVIOUS
<1>1. CASE RunTests
  BY <1>1, RunEngineTestPlanKeeps, RunCorrectnessTestKeeps, TestsDoneKeeps,
     NextConfigKeeps, SkipConfigKeeps, NextSuiteKeeps, FreeBuffersKeeps,
     ReportVerdictKeeps, SuiteReturnsKeeps, EngineReturnsZeroKeeps,
     RunEngineKeeps, PsCreateSystemThreadKeeps, ObReferenceObjectByHandleKeeps,
     AbortTestsKeeps, ReleaseThreadsKeeps, CollectUnreferencedKeeps,
     StartTogetherKeeps, SetStartFlagKeeps, StartClockKeeps, SetStopFlagKeeps,
     WaitForThreadKeeps, FreeManagerKeeps, EngineReturnsKeeps
     DEF RunTests, StartThreads, StopAndWaitThreads
<1>2. CASE \E w \in Worker : SearchWorkerT(w)
  BY <1>2, AwaitEventKeeps, SpinKeeps, SearchLoopKeeps, AddOpsKeeps
     DEF SearchWorkerT
<1>3. CASE Abort
  BY <1>3, AbortKeeps
<1>4. CASE UNCHANGED vars
  BY <1>4 DEF IInv, TypeOK, MemoryInv, CounterInv, ThreadInv, StartInv, Running,
     vars, manager, measure, memory, progress, outcome, workers
<1> QED BY <1>1, <1>2, <1>3, <1>4 DEF Next, Terminated

-----------------------------------------------------------------------------
(***************************************************************************)
(* IInv holds in every state of the test suite.                            *)
(***************************************************************************)
THEOREM Invariance == Safety => []IInv
  BY InitEstablishes, StepKeeps, PTL DEF Safety

(***************************************************************************)
(* The variables stay in their types; in particular the loops of           *)
(* StartThreads and StopAndWaitThreads stay inside the arrays, however     *)
(* many threads are asked for.                                             *)
(***************************************************************************)
THEOREM TypeCorrect == Safety => []TypeOK
<1>1. IInv => TypeOK
  BY DEF IInv
<1> QED BY <1>1, Invariance, PTL

(***************************************************************************)
(* A worker that has not ended finds the manager, the context, the search  *)
(* object and the text alive, whatever failed in StartThreads and whenever *)
(* the abort came.                                                         *)
(***************************************************************************)
THEOREM WorkersAreSafe == Safety => []NoUseAfterFree
<1>1. IInv => NoUseAfterFree
  BY DEF IInv, NoUseAfterFree, ThreadInv, MemoryInv, Measuring, Handling
<1> QED BY <1>1, Invariance, PTL

(***************************************************************************)
(* No worker searches before the start flag is up, also when the abort     *)
(* releases it from the spin.                                              *)
(***************************************************************************)
THEOREM SearchesAwaitStart == Safety => []NoEarlySearch
<1>1. IInv => NoEarlySearch
  BY DEF IInv, NoEarlySearch, StartInv
<1> QED BY <1>1, Invariance, PTL

(***************************************************************************)
(* What was taken is given back on every path through the tests.           *)
(***************************************************************************)
THEOREM NothingLeaks == Safety => []AllReturned
<1>1. IInv => AllReturned
  BY DEF IInv, AllReturned, ThreadInv, MemoryInv, Measuring, Handling
<1> QED BY <1>1, Invariance, PTL
-----------------------------------------------------------------------------
(***************************************************************************)
(* The sum of a function over a finite set.  MapThenSumSet is a recursive  *)
(* function on the subsets; that it exists, and what changes when one of   *)
(* the summands does, is shown by looking at a smallest exception.         *)
(***************************************************************************)
\* The recursion of MapThenSumSet, and the function that solves it.
Chosen(s) == CHOOSE x \in s : TRUE
IsFold(h, f, S) ==
  h = [s \in SUBSET S |-> IF s = {} THEN 0 ELSE f[Chosen(s)] + h[s \ {Chosen(s)}]]
Fold(f, S) == CHOOSE h : IsFold(h, f, S)

\* h solves it for the subsets of no more than n elements.
IsFoldTo(h, f, S, n) ==
  /\ h \in [SUBSET S -> Int]
  /\ \A s \in SUBSET S : Cardinality(s) <= n =>
       h[s] = IF s = {} THEN 0 ELSE f[Chosen(s)] + h[s \ {Chosen(s)}]

LEMMA SumIsFold == ASSUME NEW f, NEW S PROVE Sum(f, S) = Fold(f, S)[S]
  BY Zenon DEF Sum, Fold, IsFold, MapThenSumSet, MapThenFoldSet, Chosen

LEMMA ChosenIs ==
  ASSUME NEW S, IsFiniteSet(S), NEW s \in SUBSET S, s # {}
  PROVE  /\ Chosen(s) \in s /\ s \ {Chosen(s)} \in SUBSET S
         /\ Cardinality(s) \in Nat \ {0}
         /\ Cardinality(s \ {Chosen(s)}) = Cardinality(s) - 1
<1>1. Chosen(s) \in s
  BY DEF Chosen
<1>2. IsFiniteSet(s)
  BY FS_Subset
<1>3. Cardinality(s) \in Nat /\ Cardinality(s) # 0
  BY <1>2, FS_CardinalityType, FS_EmptySet
<1>4. Cardinality(s \ {Chosen(s)}) = Cardinality(s) - 1
  BY <1>1, <1>2, FS_RemoveElement
<1> QED BY <1>1, <1>3, <1>4

LEMMA FoldToExists ==
  ASSUME NEW S, IsFiniteSet(S), NEW f \in [S -> Int]
  PROVE  \A n \in Nat : \E h : IsFoldTo(h, f, S, n)
<1> DEFINE T == { n \in Nat : ~ \E h : IsFoldTo(h, f, S, n) }
<1> SUFFICES ASSUME T # {} PROVE FALSE
  OBVIOUS
<1>1. PICK n \in T : \A k \in T : n <= k
  BY M!NatHasLeast
<1>2. n \in Nat /\ ~ \E h : IsFoldTo(h, f, S, n)
  OBVIOUS
<1>3. \A k \in Nat : k < n => \E h : IsFoldTo(h, f, S, k)
  BY <1>1, <1>2
<1> HIDE DEF T
<1>4. \A s \in SUBSET S : Cardinality(s) \in Nat /\ (Cardinality(s) = 0 <=> s = {})
  BY FS_Subset, FS_CardinalityType, FS_EmptySet
<1>5. CASE n = 0
  <2> DEFINE h == [s \in SUBSET S |-> 0]
  <2>1. h \in [SUBSET S -> Int]
    OBVIOUS
  <2>2. \A s \in SUBSET S : Cardinality(s) <= n => s = {} /\ h[s] = 0
    BY <1>4, <1>5
  <2>3. IsFoldTo(h, f, S, n)
    BY <2>1, <2>2 DEF IsFoldTo
  <2> QED BY <1>2, <2>3
<1>6. CASE n # 0
  <2>1. n - 1 \in Nat /\ n - 1 < n
    BY <1>2, <1>6
  <2>2. PICK h : IsFoldTo(h, f, S, n - 1)
    BY <1>3, <2>1
  <2> DEFINE g == [s \in SUBSET S |->
                     IF Cardinality(s) = n THEN f[Chosen(s)] + h[s \ {Chosen(s)}]
                     ELSE h[s]]
  <2>3. \A s \in SUBSET S : s # {} =>
          f[Chosen(s)] \in Int /\ h[s \ {Chosen(s)}] \in Int
    BY <2>2, ChosenIs DEF IsFoldTo
  <2>4. g \in [SUBSET S -> Int]
    <3> SUFFICES ASSUME NEW s \in SUBSET S
                 PROVE  (IF Cardinality(s) = n THEN f[Chosen(s)] + h[s \ {Chosen(s)}]
                         ELSE h[s]) \in Int
      OBVIOUS
    <3>1. h[s] \in Int
      BY <2>2 DEF IsFoldTo
    <3>2. CASE Cardinality(s) = n
      <4>1. s # {}
        BY <1>4, <1>6, <3>2
      <4>2. f[Chosen(s)] \in Int /\ h[s \ {Chosen(s)}] \in Int
        BY <2>3, <4>1
      <4>3. f[Chosen(s)] + h[s \ {Chosen(s)}] \in Int
        BY <4>2
      <4> QED BY <3>2, <4>3
    <3>3. CASE Cardinality(s) # n
      BY <3>1, <3>3
    <3> QED BY <3>2, <3>3
  <2>5. ASSUME NEW s \in SUBSET S, Cardinality(s) <= n
        PROVE  g[s] = IF s = {} THEN 0 ELSE f[Chosen(s)] + g[s \ {Chosen(s)}]
    <3>1. CASE s = {}
      <4>1. Cardinality(s) = 0 /\ Cardinality(s) # n /\ Cardinality(s) <= n - 1
        BY <1>2, <1>4, <1>6, <3>1
      <4>2. h[s] = 0
        BY <2>2, <3>1, <4>1 DEF IsFoldTo
      <4> QED BY <3>1, <4>1, <4>2
    <3>2. CASE s # {}
      <4>1. /\ s \ {Chosen(s)} \in SUBSET S
            /\ Cardinality(s) \in Nat
            /\ Cardinality(s \ {Chosen(s)}) = Cardinality(s) - 1
        BY <3>2, ChosenIs
      <4>2. Cardinality(s \ {Chosen(s)}) # n
        BY <1>2, <2>5, <4>1
      <4>3. g[s \ {Chosen(s)}] = h[s \ {Chosen(s)}]
        BY <4>1, <4>2
      <4>4. CASE Cardinality(s) = n
        BY <3>2, <4>3, <4>4
      <4>5. CASE Cardinality(s) # n
        <5>1. Cardinality(s) <= n - 1
          BY <1>2, <2>5, <4>1, <4>5
        <5>2. h[s] = f[Chosen(s)] + h[s \ {Chosen(s)}]
          BY <2>2, <3>2, <5>1 DEF IsFoldTo
        <5> QED BY <3>2, <4>3, <4>5, <5>2
      <4> QED BY <4>4, <4>5
    <3> QED BY <3>1, <3>2
  <2> HIDE DEF g
  <2>6. IsFoldTo(g, f, S, n)
    BY <2>4, <2>5 DEF IsFoldTo
  <2> QED BY <1>2, <2>6
<1> QED BY <1>5, <1>6

LEMMA FoldIs ==
  ASSUME NEW S, IsFiniteSet(S), NEW f \in [S -> Int]
  PROVE  IsFold(Fold(f, S), f, S)
<1>1. Cardinality(S) \in Nat
  BY FS_CardinalityType
<1>2. PICK h : IsFoldTo(h, f, S, Cardinality(S))
  BY <1>1, FoldToExists
<1>3. \A s \in SUBSET S : Cardinality(s) <= Cardinality(S)
  BY FS_Subset
<1>4. h = [s \in SUBSET S |-> h[s]]
  BY <1>2 DEF IsFoldTo
<1>5. \A s \in SUBSET S :
        h[s] = IF s = {} THEN 0 ELSE f[Chosen(s)] + h[s \ {Chosen(s)}]
  BY <1>2, <1>3 DEF IsFoldTo
<1>6. IsFold(h, f, S)
  BY <1>4, <1>5 DEF IsFold
<1> QED BY <1>6, Zenon DEF Fold

LEMMA FoldStep ==
  ASSUME NEW S, IsFiniteSet(S), NEW f \in [S -> Int], NEW s \in SUBSET S
  PROVE  Fold(f, S)[s] =
           IF s = {} THEN 0 ELSE f[Chosen(s)] + Fold(f, S)[s \ {Chosen(s)}]
<1> DEFINE h == Fold(f, S)
<1>1. IsFold(h, f, S)
  BY FoldIs
<1> HIDE DEF h
<1>2. h[s] = IF s = {} THEN 0 ELSE f[Chosen(s)] + h[s \ {Chosen(s)}]
  BY <1>1 DEF IsFold
<1> QED BY <1>2 DEF h

\* A set of subsets that is not empty has one of the smallest size.
LEMMA SmallestSubset ==
  ASSUME NEW S, IsFiniteSet(S), NEW X \in SUBSET SUBSET S, X # {}
  PROVE  \E s \in X : \A t \in X : Cardinality(s) <= Cardinality(t)
<1> DEFINE N == { Cardinality(s) : s \in X }
<1>1. N \in SUBSET Nat
  BY FS_Subset, FS_CardinalityType
<1>2. N # {}
  OBVIOUS
<1>3. PICK n \in N : \A k \in N : n <= k
  BY <1>1, <1>2, M!NatHasLeast
<1> QED BY <1>3

LEMMA FoldType ==
  ASSUME NEW S, IsFiniteSet(S), NEW f \in [S -> Int]
  PROVE  \A s \in SUBSET S : Fold(f, S)[s] \in Int
<1> DEFINE X == { s \in SUBSET S : Fold(f, S)[s] \notin Int }
<1> SUFFICES ASSUME X # {} PROVE FALSE
  OBVIOUS
<1>1. PICK s \in X : \A t \in X : Cardinality(s) <= Cardinality(t)
  BY SmallestSubset
<1>2. s # {}
  <2>1. s = {} => Fold(f, S)[s] = 0
    BY FoldStep
  <2> QED BY <2>1
<1>3. /\ Chosen(s) \in S /\ s \ {Chosen(s)} \in SUBSET S
      /\ Cardinality(s) \in Nat
      /\ Cardinality(s \ {Chosen(s)}) = Cardinality(s) - 1
  BY <1>2, ChosenIs
<1>4. s \ {Chosen(s)} \notin X
  <2>1. ~(Cardinality(s) <= Cardinality(s) - 1)
    BY <1>3
  <2> QED BY <1>1, <1>3, <2>1
<1>5. Fold(f, S)[s \ {Chosen(s)}] \in Int /\ f[Chosen(s)] \in Int
  BY <1>3, <1>4
<1>6. Fold(f, S)[s] = f[Chosen(s)] + Fold(f, S)[s \ {Chosen(s)}]
  BY <1>2, FoldStep
<1> QED BY <1>5, <1>6

\* One summand changes, and the sum of the sets that have it by as much.
LEMMA FoldChanges ==
  ASSUME NEW S, IsFiniteSet(S), NEW f \in [S -> Int], NEW g \in [S -> Int],
         NEW w \in S, \A v \in S : v # w => g[v] = f[v]
  PROVE  \A s \in SUBSET S :
           Fold(g, S)[s] = Fold(f, S)[s] + IF w \in s THEN g[w] - f[w] ELSE 0
<1> DEFINE X == { s \in SUBSET S : Fold(g, S)[s] #
                    Fold(f, S)[s] + IF w \in s THEN g[w] - f[w] ELSE 0 }
<1> SUFFICES ASSUME X # {} PROVE FALSE
  OBVIOUS
<1>1. PICK s \in X : \A t \in X : Cardinality(s) <= Cardinality(t)
  BY SmallestSubset
<1>2. s # {}
  <2>1. s = {} => Fold(f, S)[s] = 0 /\ Fold(g, S)[s] = 0 /\ w \notin s
    BY FoldStep
  <2> QED BY <2>1
<1>3. /\ Chosen(s) \in s /\ Chosen(s) \in S /\ s \ {Chosen(s)} \in SUBSET S
      /\ Cardinality(s) \in Nat
      /\ Cardinality(s \ {Chosen(s)}) = Cardinality(s) - 1
  BY <1>2, ChosenIs
<1>4. s \ {Chosen(s)} \notin X
  <2>1. ~(Cardinality(s) <= Cardinality(s) - 1)
    BY <1>3
  <2> QED BY <1>1, <1>3, <2>1
<1>5. Fold(g, S)[s \ {Chosen(s)}] = Fold(f, S)[s \ {Chosen(s)}] +
        IF w \in s \ {Chosen(s)} THEN g[w] - f[w] ELSE 0
  BY <1>3, <1>4
<1>6. /\ Fold(g, S)[s] = g[Chosen(s)] + Fold(g, S)[s \ {Chosen(s)}]
      /\ Fold(f, S)[s] = f[Chosen(s)] + Fold(f, S)[s \ {Chosen(s)}]
  BY <1>2, FoldStep
<1>7. /\ Fold(f, S)[s \ {Chosen(s)}] \in Int /\ f[Chosen(s)] \in Int
      /\ g[w] \in Int /\ f[w] \in Int
  BY <1>3, FoldType
<1>8. Fold(g, S)[s] # Fold(f, S)[s] + IF w \in s THEN g[w] - f[w] ELSE 0
  OBVIOUS
<1> HIDE DEF X
<1>9. CASE Chosen(s) = w
  BY <1>3, <1>5, <1>6, <1>7, <1>8, <1>9
<1>10. CASE Chosen(s) # w
  <2>1. g[Chosen(s)] = f[Chosen(s)] /\ (w \in s <=> w \in s \ {Chosen(s)})
    BY <1>3, <1>10
  <2> QED BY <1>5, <1>6, <1>7, <1>8, <2>1
<1> QED BY <1>9, <1>10

LEMMA FoldOfZeros ==
  ASSUME NEW S, IsFiniteSet(S), NEW f \in [S -> Int], \A v \in S : f[v] = 0
  PROVE  \A s \in SUBSET S : Fold(f, S)[s] = 0
<1> DEFINE X == { s \in SUBSET S : Fold(f, S)[s] # 0 }
<1> SUFFICES ASSUME X # {} PROVE FALSE
  OBVIOUS
<1>1. PICK s \in X : \A t \in X : Cardinality(s) <= Cardinality(t)
  BY SmallestSubset
<1>2. s # {}
  <2>1. s = {} => Fold(f, S)[s] = 0
    BY FoldStep
  <2> QED BY <2>1
<1>3. /\ Chosen(s) \in S /\ s \ {Chosen(s)} \in SUBSET S
      /\ Cardinality(s) \in Nat
      /\ Cardinality(s \ {Chosen(s)}) = Cardinality(s) - 1
  BY <1>2, ChosenIs
<1>4. s \ {Chosen(s)} \notin X
  <2>1. ~(Cardinality(s) <= Cardinality(s) - 1)
    BY <1>3
  <2> QED BY <1>1, <1>3, <2>1
<1>5. Fold(f, S)[s \ {Chosen(s)}] = 0 /\ f[Chosen(s)] = 0
  BY <1>3, <1>4
<1>6. Fold(f, S)[s] = f[Chosen(s)] + Fold(f, S)[s \ {Chosen(s)}]
  BY <1>2, FoldStep
<1> QED BY <1>5, <1>6

LEMMA SumChanges ==
  ASSUME NEW S, IsFiniteSet(S), NEW f \in [S -> Int], NEW g \in [S -> Int],
         NEW w \in S, \A v \in S : v # w => g[v] = f[v]
  PROVE  Sum(g, S) = Sum(f, S) + (g[w] - f[w])
  BY SumIsFold, FoldChanges

LEMMA SumOfZeros ==
  ASSUME NEW S, IsFiniteSet(S), NEW f \in [S -> Int], \A v \in S : f[v] = 0
  PROVE  Sum(f, S) = 0
  BY SumIsFold, FoldOfZeros

-----------------------------------------------------------------------------
(***************************************************************************)
(* The total is the sum of the shares, step by step.  Most steps touch     *)
(* neither; those that reset or create something do so while all shares    *)
(* are zero; AddOps moves one share.                                       *)
(***************************************************************************)
LEMMA Workers == IsFiniteSet(Worker)
  BY CountsAssumption, FS_Interval DEF Worker

LEMMA ShareType == IInv => Share \in [Worker -> Int]
<1> SUFFICES ASSUME IInv PROVE Share \in [Worker -> Int]
  OBVIOUS
<1>1. \A w \in Worker : localOps[w] \in Int
  BY CountsAssumption DEF IInv, TypeOK
<1> QED BY <1>1 DEF Share

LEMMA NextShareType == IInv' => Share' \in [Worker -> Int]
<1> SUFFICES ASSUME IInv' PROVE Share' \in [Worker -> Int]
  OBVIOUS
<1>1. \A w \in Worker : localOps'[w] \in Int
  BY CountsAssumption DEF IInv, TypeOK
<1> QED BY <1>1 DEF Share

\* While nobody has counted anything, the total is zero.
LEMMA NothingCounted ==
  ASSUME IInv, \A w \in Worker : localOps[w] = 0
  PROVE  Sum(Share, Worker) = 0
<1>1. \A w \in Worker : Share[w] = 0
  BY DEF Share
<1> QED BY <1>1, ShareType, Workers, SumOfZeros

LEMMA NothingCountedNext ==
  ASSUME IInv', \A w \in Worker : localOps'[w] = 0
  PROVE  Sum(Share', Worker) = 0
<1>1. \A w \in Worker : Share'[w] = 0
  BY DEF Share
<1> QED BY <1>1, NextShareType, Workers, SumOfZeros

LEMMA OpsInitially == Init => OpsInv
<1> SUFFICES ASSUME Init PROVE OpsInv
  OBVIOUS
<1>1. IInv
  BY InitEstablishes
<1>2. llTotalOps = 0 /\ \A w \in Worker : localOps[w] = 0
  BY DEF Init
<1> QED BY <1>1, <1>2, NothingCounted DEF OpsInv

LEMMA OpsUntouched ==
  ASSUME OpsInv, UNCHANGED <<llTotalOps, wpc, localOps>>
  PROVE  OpsInv'
<1>1. Share' = Share
  BY DEF Share
<1> QED BY <1>1 DEF OpsInv

\* Before the start flag is up, nobody has counted anything.
LEMMA NotStarted ==
  ASSUME IInv, pc \in {"engine", "spawn"}
  PROVE  \A w \in Worker : localOps[w] = 0
<1> SUFFICES ASSUME NEW w \in Worker PROVE localOps[w] = 0
  OBVIOUS
<1>1. ~(localOps[w] > 0)
  BY DEF IInv, StartInv
<1>2. localOps[w] \in Nat
  BY CountsAssumption DEF IInv, TypeOK
<1> QED BY <1>1, <1>2

LEMMA RunEngineKeepsOps == IInv /\ OpsInv /\ RunEngine => OpsInv'
<1> SUFFICES ASSUME IInv, OpsInv, RunEngine PROVE OpsInv'
  OBVIOUS
<1>1. IInv'
  BY RunEngineKeeps
<1>2. \A w \in Worker : localOps'[w] = 0
  BY NotStarted DEF RunEngine, Goto, workers
<1>3. llTotalOps' = 0
  BY DEF RunEngine
<1> QED BY <1>1, <1>2, <1>3, NothingCountedNext DEF OpsInv

LEMMA PsCreateSystemThreadKeepsOps == IInv /\ OpsInv /\ PsCreateSystemThread => OpsInv'
<1> SUFFICES ASSUME IInv, OpsInv, PsCreateSystemThread PROVE OpsInv'
  OBVIOUS
<1>1. IInv'
  BY PsCreateSystemThreadKeeps
<1>2. \A w \in Worker : localOps[w] = 0
  BY NotStarted DEF PsCreateSystemThread
<1>3. \A w \in Worker : localOps'[w] = 0
  BY <1>2 DEF PsCreateSystemThread, IInv, TypeOK
<1>4. llTotalOps' = 0
  BY <1>2, NothingCounted DEF OpsInv, PsCreateSystemThread, measure
<1> QED BY <1>1, <1>3, <1>4, NothingCountedNext DEF OpsInv

LEMMA EngineReturnsKeepsOps == IInv /\ OpsInv /\ EngineReturns => OpsInv'
<1> SUFFICES ASSUME IInv, OpsInv, EngineReturns PROVE OpsInv'
  OBVIOUS
<1>1. IInv'
  BY EngineReturnsKeeps
<1>2. llTotalOps' = 0 /\ \A w \in Worker : localOps'[w] = 0
  BY DEF EngineReturns
<1> QED BY <1>1, <1>2, NothingCountedNext DEF OpsInv

\* A worker that does not add keeps the shares: the one the abort releases
\* from the spin ends with nothing counted.
LEMMA SharesKept ==
  ASSUME OpsInv, UNCHANGED llTotalOps, Share' = Share,
         \A w \in Worker :
           wpc'[w] \in {"none", "event", "spin", "spinning"} => localOps'[w] = 0
  PROVE  OpsInv'
  BY DEF OpsInv

LEMMA AwaitEventKeepsOps ==
  ASSUME IInv, OpsInv, NEW w \in Worker, AwaitEvent(w)
  PROVE  OpsInv'
<1> USE DEF AwaitEvent, WGoto
<1>1. \A v \in Worker :
        /\ localOps'[v] = localOps[v]
        /\ v # w => wpc'[v] = wpc[v]
        /\ v = w => wpc[v] = "event" /\ wpc'[v] = "spin"
  BY DEF IInv, TypeOK
<1>2. Share' = Share
  BY <1>1 DEF Share
<1>3. \A v \in Worker :
        wpc'[v] \in {"none", "event", "spin", "spinning"} => localOps'[v] = 0
  BY <1>1 DEF OpsInv
<1> QED BY <1>2, <1>3, SharesKept

LEMMA SpinKeepsOps ==
  ASSUME IInv, OpsInv, NEW w \in Worker, Spin(w)
  PROVE  OpsInv'
<1> USE DEF Spin, WGoto
<1>1. \A v \in Worker :
        /\ localOps'[v] = localOps[v]
        /\ v # w => wpc'[v] = wpc[v]
        /\ v = w => wpc[v] \in {"spin", "spinning"}
  BY DEF IInv, TypeOK
<1>2. localOps[w] = 0
  BY <1>1 DEF OpsInv
<1>3. Share' = Share
  BY <1>1, <1>2 DEF Share
<1>4. \A v \in Worker :
        wpc'[v] \in {"none", "event", "spin", "spinning"} => localOps'[v] = 0
  BY <1>1, <1>2 DEF OpsInv
<1> QED BY <1>3, <1>4, SharesKept

LEMMA SearchLoopKeepsOps ==
  ASSUME IInv, OpsInv, NEW w \in Worker, SearchLoop(w)
  PROVE  OpsInv'
<1> USE DEF SearchLoop, WGoto
<1>1. \A v \in Worker :
        /\ v # w => wpc'[v] = wpc[v] /\ localOps'[v] = localOps[v]
        /\ v = w => /\ wpc[v] \in {"loop", "looping", "find"}
                    /\ wpc'[v] \in {"loop", "looping", "find", "add"}
  BY DEF IInv, TypeOK
<1>2. Share' = Share
  BY <1>1 DEF Share
<1>3. \A v \in Worker :
        wpc'[v] \in {"none", "event", "spin", "spinning"} => localOps'[v] = 0
  BY <1>1 DEF OpsInv
<1> QED BY <1>2, <1>3, SharesKept

LEMMA AddOpsKeepsOps ==
  ASSUME IInv, OpsInv, NEW w \in Worker, AddOps(w)
  PROVE  OpsInv'
<1>1. IInv'
  BY AddOpsKeeps
<1>2. Share \in [Worker -> Int] /\ Share' \in [Worker -> Int]
  BY <1>1, ShareType, NextShareType
<1>3. /\ localOps' = localOps
      /\ wpc[w] = "add" /\ wpc'[w] = "ended"
      /\ \A v \in Worker : v # w => wpc'[v] = wpc[v]
  BY DEF AddOps, WGoto, IInv, TypeOK
<1>4. \A v \in Worker : v # w => Share'[v] = Share[v]
  BY <1>3 DEF Share
<1>5. Share[w] = 0 /\ Share'[w] = localOps[w]
  BY <1>3 DEF Share
<1>6. Sum(Share', Worker) = Sum(Share, Worker) + (Share'[w] - Share[w])
  BY <1>2, <1>4, Workers, SumChanges
<1>7. Sum(Share', Worker) = llTotalOps + (localOps[w] - 0)
  BY <1>5, <1>6 DEF OpsInv
<1>8. localOps[w] \in Int /\ llTotalOps \in Int
  BY CountsAssumption DEF IInv, TypeOK
<1>9. llTotalOps' = Sum(Share', Worker)
  BY <1>7, <1>8 DEF AddOps
<1>10. \A v \in Worker :
         wpc'[v] \in {"none", "event", "spin", "spinning"} => localOps'[v] = 0
  BY <1>3 DEF OpsInv
<1> QED BY <1>9, <1>10 DEF OpsInv

\* The other steps touch neither the total nor the shares.
LEMMA OthersKeepOps ==
  ASSUME OpsInv,
         \/ RunEngineTestPlan \/ RunCorrectnessTest \/ TestsDone \/ NextConfig
         \/ SkipConfig \/ NextSuite \/ FreeBuffers \/ ReportVerdict
         \/ SuiteReturns \/ EngineReturnsZero \/ ObReferenceObjectByHandle
         \/ AbortTests \/ ReleaseThreads \/ CollectUnreferenced
         \/ StartTogether \/ SetStartFlag \/ StartClock \/ SetStopFlag
         \/ WaitForThread \/ FreeManager \/ Abort \/ UNCHANGED vars
  PROVE  OpsInv'
<1>1. UNCHANGED <<llTotalOps, wpc, localOps>>
  BY DEF RunEngineTestPlan, RunCorrectnessTest, TestsDone, NextConfig, SkipConfig,
     NextSuite, FreeBuffers, ReportVerdict, SuiteReturns, EngineReturnsZero,
     ObReferenceObjectByHandle, AbortTests, ReleaseThreads, CollectUnreferenced,
     StartTogether, SetStartFlag, StartClock, SetStopFlag, WaitForThread,
     FreeManager, Abort, vars, measure, workers
<1> QED BY <1>1, OpsUntouched

LEMMA StepKeepsTotal == TotalInv /\ [Next]_vars => TotalInv'
<1> SUFFICES ASSUME IInv, OpsInv, [Next]_vars PROVE IInv' /\ OpsInv'
  BY DEF TotalInv
<1>1. IInv'
  BY StepKeeps
<1>2. OpsInv'
  <2>1. CASE RunTests
    BY <2>1, RunEngineKeepsOps, PsCreateSystemThreadKeepsOps,
       EngineReturnsKeepsOps, OthersKeepOps
       DEF RunTests, StartThreads, StopAndWaitThreads
  <2>2. CASE \E w \in Worker : SearchWorkerT(w)
    BY <2>2, AwaitEventKeepsOps, SpinKeepsOps, SearchLoopKeepsOps,
       AddOpsKeepsOps DEF SearchWorkerT
  <2>3. CASE Abort \/ UNCHANGED vars
    BY <2>3, OthersKeepOps
  <2> QED BY <2>1, <2>2, <2>3 DEF Next, Terminated
<1> QED BY <1>1, <1>2

(***************************************************************************)
(* The invariant of the count: whatever the workers' number, the total is  *)
(* at every moment the sum of the shares of those that have ended.         *)
(***************************************************************************)
THEOREM TotalInvariance == Safety => []TotalInv
<1>1. Init => TotalInv
  BY InitEstablishes, OpsInitially DEF TotalInv
<1> QED BY <1>1, StepKeepsTotal, PTL DEF Safety

(***************************************************************************)
(* When RunEngine reads the total, no worker is left that could still add  *)
(* to it, and it is the sum of all the counts.                             *)
(***************************************************************************)
THEOREM NoCountIsLost == Safety => []TotalIsComplete
<1>1. ASSUME TotalInv, pc = "report"
      PROVE  TotalIsComplete
  <2>1. IInv /\ OpsInv
    BY <1>1 DEF TotalInv
  <2>2. \A w \in Worker : ~Running(w)
    BY <1>1, <2>1 DEF IInv, ThreadInv, Measuring, Handling
  <2>3. \A w \in Worker : wpc[w] # "ended" => localOps[w] = 0
    BY <2>1, <2>2 DEF OpsInv, Running
  <2>4. localOps = [w \in Worker |-> localOps[w]]
    BY <2>1 DEF IInv, TypeOK
  <2>5. Share = localOps
    BY <2>3, <2>4 DEF Share
  <2> QED BY <2>1, <2>2, <2>5 DEF OpsInv, TotalIsComplete
<1>2. TotalInv => TotalIsComplete
  BY <1>1 DEF TotalIsComplete
<1> QED BY <1>2, TotalInvariance, PTL

-----------------------------------------------------------------------------
(***************************************************************************)
(* The tests advance.  The flags that are up, and the threads that have    *)
(* been created, when the master waits: AdvanceInv is an invariant.        *)
(***************************************************************************)
LEMMA AdvanceInitially == Init => AdvanceInv
<1>1. Init => FlagsInv /\ CreatedInv
  BY DEF Init, FlagsInv, CreatedInv, Handling
<1> QED BY <1>1, InitEstablishes DEF AdvanceInv

\* The steps of the plan are outside a measurement, and so is what they reach.
PlanStep ==
  \/ RunEngineTestPlan \/ RunCorrectnessTest \/ TestsDone
  \/ NextConfig \/ SkipConfig \/ NextSuite \/ FreeBuffers \/ ReportVerdict
  \/ SuiteReturns \/ EngineReturnsZero \/ EngineReturns

LEMMA PlanKeepsFlags ==
  ASSUME IInv, PlanStep
  PROVE  FlagsInv' /\ CreatedInv'
<1>1. /\ pc' \notin {"clock", "grace", "join", "report", "release", "collect", "started"}
      /\ pc' \notin Handling
      /\ pThreads' = pThreads /\ wpc' = wpc /\ pc \notin Measuring
  BY DEF PlanStep, RunEngineTestPlan, RunCorrectnessTest, TestsDone, NextConfig,
     SkipConfig, NextSuite, FreeBuffers, ReportVerdict, SuiteReturns,
     EngineReturnsZero, EngineReturns, Goto, manager, workers, Handling, Measuring
<1>2. \A w \in Worker : ~pThreads[w]
  BY <1>1 DEF IInv, ThreadInv
<1> QED BY <1>1, <1>2 DEF FlagsInv, CreatedInv

LEMMA SpawnKeepsFlags ==
  ASSUME IInv, FlagsInv, CreatedInv, RunEngine \/ StartThreads
  PROVE  FlagsInv' /\ CreatedInv'
<1> USE DEF Goto, manager, measure, memory, progress, outcome, workers
<1>1. CASE RunEngine
  BY <1>1 DEF RunEngine, FlagsInv, CreatedInv, Handling
<1>2. CASE PsCreateSystemThread
  <2>1. FlagsInv'
    BY <1>2 DEF PsCreateSystemThread, FlagsInv
  <2>2. ulIndex \in Worker /\ \A w \in Worker : pThreads'[w] => pThreads[w]
    BY <1>2, CountsAssumption, CountFits DEF PsCreateSystemThread, IInv, TypeOK, Worker
  <2>3. CreatedInv'
    BY <1>2, <2>2 DEF PsCreateSystemThread, CreatedInv, Handling, IInv, TypeOK
  <2> QED BY <2>1, <2>3
<1>3. CASE ObReferenceObjectByHandle
  <2>1. FlagsInv'
    BY <1>3 DEF ObReferenceObjectByHandle, FlagsInv
  <2>2. /\ wpc' = wpc /\ wpc[ulIndex] # "none"
        /\ pc' \in Handling => ulIndex' = ulIndex
        /\ \A w \in Worker : pThreads'[w] => pThreads[w] \/ w = ulIndex
    BY <1>3 DEF ObReferenceObjectByHandle, IInv, TypeOK, CreatedInv, Handling
  <2> QED BY <2>1, <2>2 DEF CreatedInv
<1>4. CASE AbortTests
  BY <1>4 DEF AbortTests, FlagsInv, CreatedInv, Handling
<1>5. CASE ReleaseThreads
  BY <1>5 DEF ReleaseThreads, KeSetEvent, FlagsInv, CreatedInv, Handling
<1>6. CASE CollectUnreferenced
  BY <1>6 DEF CollectUnreferenced, FlagsInv, CreatedInv, Handling
<1>7. CASE StartTogether
  BY <1>7 DEF StartTogether, KeSetEvent, FlagsInv, CreatedInv, Handling
<1> QED BY <1>1, <1>2, <1>3, <1>4, <1>5, <1>6, <1>7 DEF StartThreads

LEMMA MeasureKeepsFlags ==
  ASSUME IInv, FlagsInv, CreatedInv,
         SetStartFlag \/ StartClock \/ StopAndWaitThreads \/ FreeManager
  PROVE  FlagsInv' /\ CreatedInv'
<1> USE DEF Goto, manager, measure, memory, progress, outcome, workers
<1>1. CASE SetStartFlag \/ StartClock \/ SetStopFlag \/ FreeManager
  BY <1>1 DEF SetStartFlag, StartClock, SetStopFlag, FreeManager, FlagsInv,
     CreatedInv, Handling
<1>2. CASE WaitForThread
  <2>1. \A w \in Worker : pThreads'[w] => pThreads[w]
    BY <1>2 DEF WaitForThread, IInv, TypeOK
  <2> QED BY <1>2, <2>1 DEF WaitForThread, FlagsInv, CreatedInv, Handling
<1> QED BY <1>1, <1>2 DEF StopAndWaitThreads

\* A worker lowers no flag and does not become unborn.
LEMMA WorkerKeepsFlags ==
  ASSUME IInv, FlagsInv, CreatedInv, NEW w \in Worker, SearchWorkerT(w)
  PROVE  FlagsInv' /\ CreatedInv'
<1> USE DEF WorkerShared, manager
<1>1. /\ UNCHANGED WorkerShared
      /\ \A v \in Worker : wpc[v] # "none" => wpc'[v] # "none"
  BY DEF SearchWorkerT, AwaitEvent, Spin, SearchLoop, AddOps, WGoto, IInv, TypeOK
<1>2. FlagsInv'
  BY <1>1 DEF FlagsInv
<1>3. pc \in Handling => ulIndex \in Worker
  BY CountsAssumption, CountFits
     DEF IInv, TypeOK, CounterInv, Handling, Worker
<1>4. CreatedInv'
  BY <1>1, <1>3 DEF CreatedInv
<1> QED BY <1>2, <1>4

LEMMA StepKeepsAdvance == AdvanceInv /\ [Next]_vars => AdvanceInv'
<1> SUFFICES ASSUME IInv, FlagsInv, CreatedInv, [Next]_vars
             PROVE  IInv' /\ FlagsInv' /\ CreatedInv'
  BY DEF AdvanceInv
<1>1. IInv'
  BY StepKeeps
<1>2. FlagsInv' /\ CreatedInv'
  <2>1. CASE RunTests
    BY <2>1, PlanKeepsFlags, SpawnKeepsFlags, MeasureKeepsFlags DEF RunTests, PlanStep
  <2>2. CASE \E w \in Worker : SearchWorkerT(w)
    BY <2>2, WorkerKeepsFlags
  <2>3. CASE Abort
    BY <2>3 DEF Abort, FlagsInv, CreatedInv, Handling, manager, measure, workers
  <2>4. CASE UNCHANGED vars
    BY <2>4 DEF FlagsInv, CreatedInv, Handling, vars, manager, measure, workers
  <2> QED BY <2>1, <2>2, <2>3, <2>4 DEF Next, Terminated
<1> QED BY <1>1, <1>2

THEOREM AdvanceInvariance == Safety => []AdvanceInv
  BY AdvanceInitially, StepKeepsAdvance, PTL DEF Safety

-----------------------------------------------------------------------------
(***************************************************************************)
(* What is left for the master is counted in natural numbers, and each of  *)
(* its steps takes it further in one loop and back in none around it.      *)
(***************************************************************************)
LEMMA LeftIsNatural == IInv => \A i \in Loops : MasterLeft[i] \in Nat
<1> SUFFICES ASSUME IInv PROVE \A i \in Loops : MasterLeft[i] \in Nat
  OBVIOUS
<1> USE CountsAssumption, CountFits DEF IInv, TypeOK
<1>1. PlanLeft \in Nat
  BY DEF PlanLeft, MasterPCs
<1>2. ConfigsLeft \in Nat /\ SuitesLeft \in Nat /\ EnginesLeft \in Nat
  BY DEF ConfigsLeft, SuitesLeft, EnginesLeft
<1>3. EngineLeft \in Nat
  BY DEF EngineLeft
<1>4. ThreadsLeft \in Nat
  <2>1. HandlingLeft \in Nat
    BY DEF HandlingLeft
  <2>2. pc \in Measuring => ulThreadCount - ulIndex \in Nat
    BY DEF CounterInv
  <2> QED BY <2>1, <2>2 DEF ThreadsLeft
<1>5. /\ MasterLeft[1] = PlanLeft /\ MasterLeft[2] = ConfigsLeft
      /\ MasterLeft[3] = SuitesLeft /\ MasterLeft[4] = EnginesLeft
      /\ MasterLeft[5] = EngineLeft /\ MasterLeft[6] = ThreadsLeft
  BY DEF MasterLeft
<1> QED BY <1>1, <1>2, <1>3, <1>4, <1>5 DEF Loops

LEMMA LeftComponents ==
  /\ MasterLeft[1] = PlanLeft /\ MasterLeft'[1] = PlanLeft'
  /\ MasterLeft[2] = ConfigsLeft /\ MasterLeft'[2] = ConfigsLeft'
  /\ MasterLeft[3] = SuitesLeft /\ MasterLeft'[3] = SuitesLeft'
  /\ MasterLeft[4] = EnginesLeft /\ MasterLeft'[4] = EnginesLeft'
  /\ MasterLeft[5] = EngineLeft /\ MasterLeft'[5] = EngineLeft'
  /\ MasterLeft[6] = ThreadsLeft /\ MasterLeft'[6] = ThreadsLeft'
  BY DEF MasterLeft

LEMMA AdvancesAt ==
  ASSUME NEW i \in Loops, MasterLeft'[i] < MasterLeft[i],
         \A j \in 1 .. i - 1 : MasterLeft'[j] = MasterLeft[j]
  PROVE  MasterAdvances
  BY DEF MasterAdvances

LEMMA AdvancesInPlan ==
  ASSUME PlanLeft' < PlanLeft
  PROVE  MasterAdvances
<1>1. 1 \in Loops /\ 1 .. 1 - 1 = {}
  BY DEF Loops
<1> QED BY <1>1, AdvancesAt, LeftComponents

LEMMA AdvancesInConfigs ==
  ASSUME PlanLeft' = PlanLeft, ConfigsLeft' < ConfigsLeft
  PROVE  MasterAdvances
<1>1. 2 \in Loops /\ 1 .. 2 - 1 = {1}
  BY DEF Loops
<1> QED BY <1>1, AdvancesAt, LeftComponents

LEMMA AdvancesInSuites ==
  ASSUME UNCHANGED <<PlanLeft, ConfigsLeft>>, SuitesLeft' < SuitesLeft
  PROVE  MasterAdvances
<1>1. 3 \in Loops /\ 1 .. 3 - 1 = {1, 2}
  BY DEF Loops
<1> QED BY <1>1, AdvancesAt, LeftComponents

LEMMA AdvancesInEngines ==
  ASSUME UNCHANGED <<PlanLeft, ConfigsLeft, SuitesLeft>>,
         EnginesLeft' < EnginesLeft
  PROVE  MasterAdvances
<1>1. 4 \in Loops /\ 1 .. 4 - 1 = {1, 2, 3}
  BY DEF Loops
<1> QED BY <1>1, AdvancesAt, LeftComponents

LEMMA AdvancesInEngine ==
  ASSUME UNCHANGED <<PlanLeft, ConfigsLeft, SuitesLeft, EnginesLeft>>,
         EngineLeft' < EngineLeft
  PROVE  MasterAdvances
<1>1. 5 \in Loops /\ 1 .. 5 - 1 = {1, 2, 3, 4}
  BY DEF Loops
<1> QED BY <1>1, AdvancesAt, LeftComponents

LEMMA AdvancesInThreads ==
  ASSUME UNCHANGED <<PlanLeft, ConfigsLeft, SuitesLeft, EnginesLeft, EngineLeft>>,
         ThreadsLeft' < ThreadsLeft
  PROVE  MasterAdvances
<1>1. 6 \in Loops /\ 1 .. 6 - 1 = {1, 2, 3, 4, 5}
  BY DEF Loops
<1> QED BY <1>1, AdvancesAt, LeftComponents

LEMMA PlanAdvances ==
  ASSUME IInv,
         \/ RunEngineTestPlan \/ RunCorrectnessTest \/ TestsDone \/ ReportVerdict
         \/ (NextConfig /\ pc' = "verdict")
  PROVE  MasterAdvances
<1>1. Tests \in Nat /\ test \in Nat /\ test <= Tests
  BY CountsAssumption DEF IInv, TypeOK
<1>2. CASE RunEngineTestPlan
  BY <1>1, <1>2, AdvancesInPlan DEF RunEngineTestPlan, Goto, PlanLeft, progress
<1>3. CASE RunCorrectnessTest
  <2>1. pc = "tests" /\ pc' = pc /\ test' = test + 1
    BY <1>3 DEF RunCorrectnessTest
  <2>2. PlanLeft = Tests - test + 3 /\ PlanLeft' = Tests - (test + 1) + 3
    BY <2>1 DEF PlanLeft
  <2> QED BY <1>1, <2>2, AdvancesInPlan
<1>4. CASE TestsDone
  BY <1>1, <1>4, AdvancesInPlan DEF TestsDone, Goto, PlanLeft
<1>5. CASE ReportVerdict
  BY <1>5, AdvancesInPlan DEF ReportVerdict, Goto, PlanLeft
<1>6. CASE NextConfig /\ pc' = "verdict"
  BY <1>6, AdvancesInPlan DEF NextConfig, PlanLeft
<1> QED BY <1>2, <1>3, <1>4, <1>5, <1>6

LEMMA ConfigAdvances ==
  ASSUME IInv, SkipConfig \/ FreeBuffers
  PROVE  MasterAdvances
<1>1. PlanLeft' = PlanLeft
  BY DEF SkipConfig, FreeBuffers, Goto, PlanLeft
<1>2. ConfigsLeft' < ConfigsLeft
  BY CountsAssumption DEF SkipConfig, FreeBuffers, ConfigsLeft, IInv, TypeOK
<1> QED BY <1>1, <1>2, AdvancesInConfigs

LEMMA SuiteAdvances ==
  ASSUME IInv,
         \/ (NextConfig /\ pc' = "buffers") \/ SuiteReturns
         \/ (NextSuite /\ pc' = pc)
  PROVE  MasterAdvances
<1> USE DEF NextConfig, SuiteReturns, NextSuite, Goto, progress
<1>1. UNCHANGED <<PlanLeft, ConfigsLeft>>
  BY DEF PlanLeft, ConfigsLeft
<1>2. SuitesLeft' < SuitesLeft
  BY CountsAssumption DEF SuitesLeft, IInv, TypeOK
<1> QED BY <1>1, <1>2, AdvancesInSuites

LEMMA EnginesAdvance ==
  ASSUME IInv,
         \/ (NextSuite /\ pc' = "engine" /\ suite' = suite)
         \/ EngineReturnsZero \/ EngineReturns
  PROVE  MasterAdvances
<1> USE DEF NextSuite, EngineReturnsZero, EngineReturns, Goto
<1>1. UNCHANGED <<PlanLeft, ConfigsLeft, SuitesLeft>>
  BY DEF PlanLeft, ConfigsLeft, SuitesLeft
<1>2. EnginesLeft' < EnginesLeft
  BY CountsAssumption DEF EnginesLeft, IInv, TypeOK
<1> QED BY <1>1, <1>2, AdvancesInEngines

LEMMA EngineAdvances ==
  ASSUME IInv,
         \/ RunEngine \/ StartTogether \/ SetStartFlag \/ StartClock
         \/ SetStopFlag \/ FreeManager
  PROVE  MasterAdvances
<1> USE DEF RunEngine, StartTogether, SetStartFlag, StartClock, SetStopFlag,
        FreeManager, Goto, progress
<1>1. UNCHANGED <<PlanLeft, ConfigsLeft, SuitesLeft, EnginesLeft>>
  BY DEF PlanLeft, ConfigsLeft, SuitesLeft, EnginesLeft
<1>2. EngineLeft' < EngineLeft
  BY DEF EngineLeft, Handling
<1> QED BY <1>1, <1>2, AdvancesInEngine

LEMMA ThreadsAdvance ==
  ASSUME IInv,
         \/ PsCreateSystemThread \/ ObReferenceObjectByHandle \/ AbortTests
         \/ ReleaseThreads \/ CollectUnreferenced \/ WaitForThread
  PROVE  MasterAdvances
<1> USE DEF PsCreateSystemThread, ObReferenceObjectByHandle, AbortTests,
        ReleaseThreads, CollectUnreferenced, WaitForThread, Goto, progress
<1>1. UNCHANGED <<PlanLeft, ConfigsLeft, SuitesLeft, EnginesLeft, EngineLeft>>
  BY DEF PlanLeft, ConfigsLeft, SuitesLeft, EnginesLeft, EngineLeft, Handling
<1>2. ulThreadCount \in Int /\ ulIndex \in Int /\ pc \in Measuring /\ pc' \in Measuring
  BY CountFits, CountsAssumption DEF IInv, TypeOK, Measuring
<1>3. \/ ulIndex' = ulIndex /\ HandlingLeft' < HandlingLeft
      \/ ulIndex' = ulIndex + 1 /\ HandlingLeft' < HandlingLeft + 5
  BY DEF HandlingLeft
<1>4. HandlingLeft \in Int /\ HandlingLeft' \in Int
  BY DEF HandlingLeft
<1>5. ThreadsLeft = 5 * (ulThreadCount - ulIndex) + HandlingLeft
  BY <1>2 DEF ThreadsLeft
<1>6. ThreadsLeft' = 5 * (ulThreadCount - ulIndex') + HandlingLeft'
  BY <1>2 DEF ThreadsLeft, ulThreadCount
<1>7. ThreadsLeft' < ThreadsLeft
  BY <1>2, <1>3, <1>4, <1>5, <1>6
<1> QED BY <1>1, <1>7, AdvancesInThreads

LEMMA MasterStepAdvances == IInv /\ RunTests => MasterAdvances
<1> SUFFICES ASSUME IInv, RunTests PROVE MasterAdvances
  OBVIOUS
<1>1. NextConfig => pc' \in {"verdict", "buffers"}
  BY DEF NextConfig
<1>2. NextSuite => pc' = pc \/ (pc' = "engine" /\ suite' = suite)
  BY DEF NextSuite
<1> QED
  BY <1>1, <1>2, PlanAdvances, ConfigAdvances, SuiteAdvances, EnginesAdvance,
     EngineAdvances, ThreadsAdvance
     DEF RunTests, StartThreads, StopAndWaitThreads

-----------------------------------------------------------------------------
(***************************************************************************)
(* The worker the master waits for can move, and every step of its own     *)
(* brings it nearer to its end.                                            *)
(***************************************************************************)
LEMMA AwaitedCanMove ==
  ASSUME AdvanceInv, NEW w \in Worker, Awaited(w)
  PROVE  CanMove(w)
  BY DEF AdvanceInv, FlagsInv, CreatedInv, Awaited, CanMove, Handling

\* Where it can be, and which flags are up.
LEMMA AwaitedIs ==
  ASSUME AdvanceInv, NEW w \in Worker, Awaited(w)
  PROVE  \/ lStartFlag /\ lStopFlag
         \/ /\ ~lStartFlag /\ g_lAbortTests
            /\ wpc[w] \notin {"loop", "looping", "find", "add"}
  BY DEF AdvanceInv, IInv, StartInv, FlagsInv, Awaited

LEMMA AwaitedStep ==
  ASSUME AdvanceInv, NEW w \in Worker, SearchWorkerT(w), Awaited(w)
  PROVE  WorkerLeft(w)' < WorkerLeft(w)
<1>1. lStartFlag' = lStartFlag
  BY DEF SearchWorkerT, AwaitEvent, Spin, SearchLoop, AddOps, WorkerShared
<1>2. wpc \in [Worker -> WorkerPCs]
  BY DEF AdvanceInv, IInv, TypeOK
<1> QED
  BY <1>1, <1>2, AwaitedIs
     DEF SearchWorkerT, AwaitEvent, Spin, SearchLoop, AddOps, WGoto, WorkerLeft

LEMMA SameLeft ==
  ASSUME UNCHANGED <<pc, progress, ulIndex>>
  PROVE  MasterLeft' = MasterLeft
  BY DEF progress, MasterLeft, PlanLeft, ConfigsLeft, SuitesLeft, EnginesLeft,
     EngineLeft, ThreadsLeft, HandlingLeft

LEMMA WorkerAdvances ==
  ASSUME AdvanceInv, NEW v \in Worker, SearchWorkerT(v)
  PROVE  AwaitedAdvances
<1>1. UNCHANGED <<pc, progress, ulIndex>> /\ \A w \in Worker : w # v => wpc'[w] = wpc[w]
  BY DEF SearchWorkerT, AwaitEvent, Spin, SearchLoop, AddOps, WorkerShared, WGoto,
     AdvanceInv, IInv, TypeOK
<1> QED BY <1>1, SameLeft, AwaitedStep DEF AwaitedAdvances

LEMMA OthersLeaveIt ==
  ASSUME UNCHANGED <<pc, progress, ulIndex, workers>>
  PROVE  AwaitedAdvances
  BY SameLeft DEF AwaitedAdvances, workers

LEMMA StepAdvances ==
  ASSUME AdvanceInv, [Next]_vars
  PROVE  [MasterAdvances \/ AwaitedAdvances]_vars
<1>1. CASE RunTests
  BY <1>1, MasterStepAdvances DEF AdvanceInv
<1>2. CASE \E w \in Worker : SearchWorkerT(w)
  BY <1>2, WorkerAdvances
<1>3. CASE Abort
  BY <1>3, OthersLeaveIt DEF Abort
<1> QED BY <1>1, <1>2, <1>3 DEF Next, Terminated

(***************************************************************************)
(* The tests advance: for any plan and any number of threads, no failure,  *)
(* no abort and no interleaving leaves the master waiting for a worker     *)
(* that cannot end, and nothing is done for ever.  With a scheduler that   *)
(* runs what can run, this is why they end.                                *)
(***************************************************************************)
THEOREM TestsAlwaysAdvance == Safety => TestsAdvance
<1>1. AdvanceInv => /\ \A i \in Loops : MasterLeft[i] \in Nat
                    /\ \A w \in Worker : Awaited(w) => CanMove(w)
  BY LeftIsNatural, AwaitedCanMove DEF AdvanceInv
<1>2. AdvanceInv /\ [Next]_vars => [MasterAdvances \/ AwaitedAdvances]_vars
  BY StepAdvances
<1> QED BY <1>1, <1>2, AdvanceInvariance, PTL DEF Safety, TestsAdvance
=============================================================================
