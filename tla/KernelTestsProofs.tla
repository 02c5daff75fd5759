-------------------------- MODULE KernelTestsProofs --------------------------
(***************************************************************************)
(* Proofs about the kernel build as a whole, for any number of worker      *)
(* threads, any test plan and any log.  The composition implements both of *)
(* its parts: what it does to the variables of TestThreads is a step of    *)
(* TestThreads, and what it does to the variables of Driver is a step of   *)
(* Driver, under the mapping driverPc of the master's control.  So what is *)
(* proved of the parts in TestThreadsProofs and DriverProofs holds here    *)
(* too, and with LinkInv, which ties the two together, it says that an     *)
(* unloaded driver leaves nothing behind.                                  *)
(***************************************************************************)
EXTENDS KernelTests, TLAPS

TP == INSTANCE TestThreadsProofs WITH pc <- plan, UserMode <- FALSE
DP == INSTANCE DriverProofs WITH pc <- driverPc

\* The parts' assumptions hold of the constants they get here.
LEMMA TestsAssumptions == TP!CountsAssumption /\ TP!BuildAssumption
  BY TestsAssumption DEF TP!CountsAssumption, TP!BuildAssumption

LEMMA DriverAssumptions == DP!LogAssumption /\ DP!KernelAssumption
  BY LogAssumption, KernelAssumption DEF DP!LogAssumption, DP!KernelAssumption

-----------------------------------------------------------------------------
(***************************************************************************)
(* The suite inside the composition is TestThreads.                        *)
(***************************************************************************)
LEMMA InitTests == KernelInit => T!Init
  BY DEF KernelInit

LEMMA StepTests == [KernelNext]_kernelVars => [T!Next]_(T!vars)
<1> SUFFICES ASSUME [KernelNext]_kernelVars PROVE [T!Next]_(T!vars)
  OBVIOUS
<1> USE DEF testVars, driverVars, logVars, T!vars, T!manager, T!measure, T!memory,
        T!progress, T!outcome, T!workers
<1>1. CASE LoaderStep
  <2>1. CASE SignalAbort
    BY <1>1, <2>1 DEF SignalAbort, LoaderStep, T!Abort, T!Next
  <2>2. CASE ~SignalAbort
    BY <1>1, <2>2 DEF LoaderStep, Loader, DriverEntry, Unload, RecordLog,
       AllocateLog, DetectAVX2, CreateMaster, ReferenceMaster, ReturnSuccess,
       WaitForMaster, FreeLog, ForgetLog, ExAcquireFastMutex,
       CheckBuffer, CopyLine, AdvanceOffset, ExReleaseFastMutex
  <2> QED BY <2>1, <2>2
<1>2. CASE UnloadRequest
  BY <1>2 DEF UnloadRequest, DriverUnload
<1>3. CASE OutsidePlan
  BY <1>3 DEF OutsidePlan, StartTests, FlushLogToFile, FlushCheck, FlushWrite,
     RecordLog, ExAcquireFastMutex, CheckBuffer, CopyLine,
     AdvanceOffset, ExReleaseFastMutex
<1>4. CASE PlanStep
  BY <1>4 DEF PlanStep, T!Next
<1>5. CASE LogPlanLine
  BY <1>5 DEF LogPlanLine
<1>6. CASE PlanEnds
  BY <1>6 DEF PlanEnds, T!Next, T!RunTests
<1>7. CASE \E w \in T!Worker : WorkerStep(w)
  BY <1>7 DEF WorkerStep, T!Next
<1>8. CASE UNCHANGED kernelVars
  BY <1>8 DEF kernelVars
<1> QED
  BY <1>1, <1>2, <1>3, <1>4, <1>5, <1>6, <1>7, <1>8
  DEF KernelNext, MasterStep, Unloaded

(***************************************************************************)
(* The kernel build implements TestThreads: driver and log stay out of the *)
(* suite's way, and the only thing they do to it is to raise the abort.    *)
(***************************************************************************)
THEOREM RefinesTests == KernelSafety => T!Safety
  BY InitTests, StepTests, PTL DEF KernelSafety, T!Safety

-----------------------------------------------------------------------------
(***************************************************************************)
(* LinkInv is inductive.                                                   *)
(***************************************************************************)
LEMMA InitLink == KernelInit => LinkInv
  BY DEF KernelInit, Init, T!Init, LinkInv, ControlInv, PlanInv, FreedInv, Stage,
     LoggingPCs, LoaderPCs, MasterPCs, Thread, T!Measuring

LEMMA RecordLogLink ==
  ASSUME LinkInv, NEW t \in Thread, RecordLog(t), UNCHANGED testVars
  PROVE  LinkInv'
<1> USE DEF LinkInv, RecordLog, ExAcquireFastMutex, CheckBuffer,
        CopyLine, AdvanceOffset, ExReleaseFastMutex, Goto, logVars, testVars
<1>1. ControlInv'
  BY DEF ControlInv, Stage, LoggingPCs, LoaderPCs, MasterPCs, Thread
<1>2. PlanInv'
  BY DEF PlanInv, ControlInv, Stage, LoggingPCs, LoaderPCs, MasterPCs, Thread
<1>3. FreedInv'
  BY DEF FreedInv, ControlInv, Stage, LoggingPCs, LoaderPCs, MasterPCs, Thread
<1> QED BY <1>1, <1>2, <1>3

LEMMA LoaderLink ==
  ASSUME LinkInv, Loader \/ DriverUnload, UNCHANGED testVars
  PROVE  LinkInv'
<1>1. CASE RecordLog("loader")
  BY <1>1, RecordLogLink DEF Thread
<1>2. CASE AllocateLog \/ DetectAVX2 \/ DriverUnload \/ ForgetLog
  <2> USE <1>2 DEF LinkInv, AllocateLog, DetectAVX2, DriverUnload, ForgetLog,
          LogThenGoto, Goto, logVars, testVars
  <2>1. ControlInv'
    BY DEF ControlInv, Stage, LoggingPCs, LoaderPCs, MasterPCs, Thread
  <2>2. PlanInv'
    BY DEF PlanInv, ControlInv, Stage, LoggingPCs, LoaderPCs, MasterPCs, Thread
  <2>3. FreedInv'
    BY DEF FreedInv, ControlInv, Stage, LoggingPCs, LoaderPCs, MasterPCs, Thread
  <2> QED BY <2>1, <2>2, <2>3
<1>3. CASE CreateMaster
  <2> USE <1>3 DEF LinkInv, CreateMaster, logVars, testVars
  <2>1. ControlInv'
    BY DEF ControlInv, Stage, LoggingPCs, LoaderPCs, MasterPCs, Thread
  <2>2. PlanInv'
    BY DEF PlanInv, ControlInv, Stage, LoggingPCs, LoaderPCs, MasterPCs, Thread
  <2>3. FreedInv'
    BY DEF FreedInv, ControlInv, Stage, LoggingPCs, LoaderPCs, MasterPCs, Thread
  <2> QED BY <2>1, <2>2, <2>3
<1>4. CASE ReferenceMaster \/ ReturnSuccess \/ SignalAbort \/ WaitForMaster \/ FreeLog
  <2> USE <1>4 DEF LinkInv, ReferenceMaster, ReturnSuccess, SignalAbort,
          WaitForMaster, FreeLog, Goto, logVars, testVars
  <2>1. ControlInv'
    BY DEF ControlInv, Stage, LoggingPCs, LoaderPCs, MasterPCs, Thread
  <2>2. PlanInv'
    BY DEF PlanInv, ControlInv, Stage, LoggingPCs, LoaderPCs, MasterPCs, Thread
  <2>3. FreedInv'
    <3> USE DEF FreedInv, ControlInv, Stage, LoggingPCs, LoaderPCs, MasterPCs, Thread
    <3>1. CASE ReferenceMaster \/ ReturnSuccess \/ SignalAbort
      BY <3>1
    <3>2. CASE WaitForMaster
      BY <3>2
    <3>3. CASE FreeLog
      BY <3>3
    <3> QED BY <3>1, <3>2, <3>3
  <2> QED BY <2>1, <2>2, <2>3
<1> QED BY <1>1, <1>2, <1>3, <1>4 DEF Loader, DriverEntry, Unload

LEMMA MasterLink == ASSUME LinkInv, OutsidePlan \/ LogPlanLine PROVE LinkInv'
<1>1. CASE RecordLog("master") /\ UNCHANGED testVars
  BY <1>1, RecordLogLink DEF Thread
<1>2. CASE ((StartTests \/ FlushLogToFile) /\ UNCHANGED testVars) \/ LogPlanLine
  <2> USE <1>2 DEF LinkInv, StartTests, FlushLogToFile, FlushCheck, FlushWrite,
          LogPlanLine, LogThenGoto, Goto, logVars, testVars
  <2>1. ControlInv'
    BY DEF ControlInv, Stage, LoggingPCs, LoaderPCs, MasterPCs, Thread
  <2>2. PlanInv'
    BY DEF PlanInv, ControlInv, Stage, LoggingPCs, LoaderPCs, MasterPCs, Thread
  <2>3. FreedInv'
    BY DEF FreedInv, ControlInv, Stage, LoggingPCs, LoaderPCs, MasterPCs, Thread
  <2> QED BY <2>1, <2>2, <2>3
<1> QED BY <1>1, <1>2 DEF OutsidePlan

\* Where the plan goes, and that it writes a line only outside a measurement.
LEMMA PlanMoves ==
  ASSUME T!RunTests, plan # "verdict"
  PROVE  /\ plan' # "ended" /\ plan # "ended"
         /\ WritesLine => plan' \notin T!Measuring \cup {"report"}
  BY DEF T!RunTests, T!StartThreads, T!StopAndWaitThreads, WritesLine,
     T!RunEngineTestPlan, T!RunCorrectnessTest, T!TestsDone, T!NextConfig,
     T!SkipConfig, T!NextSuite, T!FreeBuffers, T!ReportVerdict, T!SuiteReturns,
     T!EngineReturnsZero, T!RunEngine, T!PsCreateSystemThread,
     T!ObReferenceObjectByHandle, T!AbortTests, T!ReleaseThreads,
     T!CollectUnreferenced, T!StartTogether, T!SetStartFlag, T!StartClock,
     T!SetStopFlag, T!WaitForThread, T!FreeManager, T!EngineReturns, T!Goto,
     T!Measuring

LEMMA PlanStepLink == ASSUME LinkInv, PlanStep PROVE LinkInv'
<1> USE DEF LinkInv, PlanStep, Goto, logVars
<1>1. ControlInv'
  BY DEF ControlInv, Stage, LoggingPCs, LoaderPCs, MasterPCs, Thread
<1>2. PlanInv'
  BY PlanMoves DEF PlanInv, ControlInv, Stage, LoggingPCs, LoaderPCs, MasterPCs, Thread
<1>3. FreedInv'
  BY DEF FreedInv, ControlInv, Stage, LoggingPCs, LoaderPCs, MasterPCs, Thread
<1> QED BY <1>1, <1>2, <1>3

LEMMA PlanEndsLink == ASSUME LinkInv, PlanEnds PROVE LinkInv'
<1> USE DEF LinkInv, PlanEnds, TestPlanEnds, T!ReportVerdict, T!Goto, LogThenGoto,
        Goto, logVars
<1>1. ControlInv'
  BY DEF ControlInv, Stage, LoggingPCs, LoaderPCs, MasterPCs, Thread
<1>2. PlanInv'
  BY DEF PlanInv, ControlInv, Stage, LoggingPCs, LoaderPCs, MasterPCs, Thread,
     T!Measuring
<1>3. FreedInv'
  BY DEF FreedInv, ControlInv, Stage, LoggingPCs, LoaderPCs, MasterPCs, Thread
<1> QED BY <1>1, <1>2, <1>3

LEMMA WorkerLink ==
  ASSUME LinkInv, NEW w \in T!Worker, WorkerStep(w)
  PROVE  LinkInv'
<1>1. UNCHANGED <<driverVars, plan>>
  BY DEF WorkerStep, T!SearchWorkerT, T!AwaitEvent, T!Spin, T!SearchLoop, T!AddOps,
     T!WorkerShared
<1> QED
  BY <1>1 DEF LinkInv, ControlInv, PlanInv, FreedInv, Stage, driverVars, logVars

LEMMA StepLink == LinkInv /\ [KernelNext]_kernelVars => LinkInv'
<1> SUFFICES ASSUME LinkInv, [KernelNext]_kernelVars PROVE LinkInv'
  OBVIOUS
<1>1. CASE LoaderStep \/ UnloadRequest
  BY <1>1, LoaderLink DEF LoaderStep, UnloadRequest
<1>2. CASE MasterStep
  BY <1>2, MasterLink, PlanStepLink, PlanEndsLink DEF MasterStep
<1>3. CASE \E w \in T!Worker : WorkerStep(w)
  BY <1>3, WorkerLink
<1>4. CASE UNCHANGED kernelVars
  BY <1>4 DEF LinkInv, ControlInv, PlanInv, FreedInv, Stage, kernelVars, driverVars,
     logVars, testVars
<1> QED BY <1>1, <1>2, <1>3, <1>4 DEF KernelNext, Unloaded

LEMMA AlwaysLink == KernelSafety => []LinkInv
  BY InitLink, StepLink, PTL DEF KernelSafety

-----------------------------------------------------------------------------
(***************************************************************************)
(* The driver inside the composition is Driver.  driverPc maps the loader  *)
(* to itself and the master to its place in Driver's shorter plan.         *)
(***************************************************************************)
MasterPc == IF pc["master"] = "line" \/ (pc["master"] = "tests" /\ plan \in T!Measuring \cup {"report"})
            THEN "work" ELSE pc["master"]

LEMMA DriverPcAt ==
  ASSUME ControlInv
  PROVE  driverPc["loader"] = pc["loader"] /\ driverPc["master"] = MasterPc
  BY DEF ControlInv, Thread, driverPc, MasterPc

LEMMA LoaderMoves ==
  ASSUME ControlInv, NEW to, pc' = [pc EXCEPT !["loader"] = to], UNCHANGED plan
  PROVE  driverPc' = [driverPc EXCEPT !["loader"] = to]
  BY DEF ControlInv, Thread, driverPc

LEMMA MasterMoves ==
  ASSUME ControlInv, NEW to, pc' = [pc EXCEPT !["master"] = to]
  PROVE  driverPc' = [driverPc EXCEPT !["master"] = MasterPc']
  BY DEF ControlInv, Thread, driverPc, MasterPc

LEMMA InitDriver == KernelInit => D!Init
<1> SUFFICES ASSUME KernelInit PROVE D!Init
  OBVIOUS
<1>1. pc = [t \in Thread |-> IF t = "loader" THEN "entry" ELSE "none"]
  BY DEF KernelInit, Init
<1>2. driverPc = [t \in D!Thread |-> IF t = "loader" THEN "entry" ELSE "none"]
  BY <1>1 DEF driverPc, Thread, D!Thread
<1> QED
  BY <1>2 DEF KernelInit, Init, D!Init, D!Nobody, Nobody, D!Thread, Thread

LEMMA DriverGoto ==
  ASSUME ControlInv, NEW t \in Thread, NEW from, NEW to, Goto(t, from, to),
         UNCHANGED plan, t = "master" => MasterPc = from /\ MasterPc' = to
  PROVE  D!Goto(t, from, to)
<1>1. CASE t = "loader"
  BY <1>1, DriverPcAt, LoaderMoves DEF Goto, D!Goto
<1>2. CASE t = "master"
  BY <1>2, DriverPcAt, MasterMoves DEF Goto, D!Goto
<1> QED BY <1>1, <1>2 DEF Thread

LEMMA RecordLogDriver ==
  ASSUME LinkInv, LinkInv', NEW t \in Thread, RecordLog(t), UNCHANGED plan
  PROVE  D!RecordLog(t)
<1> USE DEF logVars, D!logVars, Nobody, D!Nobody, Fits, D!Fits
<1>1. ASSUME NEW from \in LoggingPCs, NEW to, Goto(t, from, to)
      PROVE  D!Goto(t, from, to)
  <2>1. ControlInv /\ PlanInv /\ PlanInv' /\ ControlInv'
    BY DEF LinkInv
  <2>2. ASSUME t = "master" PROVE MasterPc = from /\ MasterPc' = to
    <3>1. pc["master"] = from /\ pc'["master"] = to
      BY <2>1, <2>2, <1>1 DEF Goto, ControlInv, Thread
    <3>2. plan \notin T!Measuring \cup {"report"}
      BY <2>1, <3>1 DEF PlanInv, LoggingPCs
    <3>3. to # "line"
      BY <2>1, <2>2, <3>1, <1>1 DEF RecordLog, ExAcquireFastMutex, CheckBuffer, CopyLine, AdvanceOffset, ExReleaseFastMutex, Goto, ControlInv, LoggingPCs
    <3> QED BY <3>1, <3>2, <3>3 DEF MasterPc, LoggingPCs
  <2> QED BY <1>1, <2>1, <2>2, DriverGoto
<1>3. CASE ExAcquireFastMutex(t)
  BY <1>1, <1>3 DEF ExAcquireFastMutex, D!RecordLog, D!ExAcquireFastMutex, LoggingPCs
<1>4. CASE CheckBuffer(t)
  BY <1>1, <1>4 DEF CheckBuffer, D!RecordLog, D!CheckBuffer, LoggingPCs
<1>5. CASE CopyLine(t)
  BY <1>1, <1>5 DEF CopyLine, D!RecordLog, D!CopyLine, LoggingPCs
<1>6. CASE AdvanceOffset(t)
  BY <1>1, <1>6 DEF AdvanceOffset, D!RecordLog, D!AdvanceOffset, LoggingPCs
<1>7. CASE ExReleaseFastMutex(t)
  BY <1>1, <1>7 DEF ExReleaseFastMutex, D!RecordLog, D!ExReleaseFastMutex, LoggingPCs
<1> QED BY <1>3, <1>4, <1>5, <1>6, <1>7 DEF RecordLog

LEMMA LoaderDriver ==
  ASSUME LinkInv, LinkInv', Loader \/ DriverUnload, UNCHANGED testVars
  PROVE  D!Loader \/ D!DriverUnload
<1> USE DEF logVars, D!logVars, testVars
<1>0. ControlInv /\ ControlInv'
  BY DEF LinkInv
<1>1. ASSUME NEW from, NEW to, Goto("loader", from, to)
      PROVE  D!Goto("loader", from, to)
  BY <1>0, <1>1, DriverGoto DEF Thread
<1>2. ASSUME NEW from, NEW to, LogThenGoto("loader", from, to)
      PROVE  D!LogThenGoto("loader", from, to)
  BY <1>1, <1>2 DEF LogThenGoto, D!LogThenGoto
<1>3. CASE RecordLog("loader")
  BY <1>3, RecordLogDriver DEF D!Loader, Thread
<1>4. CASE AllocateLog \/ DetectAVX2
  BY <1>2, <1>4 DEF AllocateLog, DetectAVX2, D!AllocateLog, D!DetectAVX2,
     D!DriverEntry, D!Loader
<1>5. CASE CreateMaster
  <2>1. driverPc["loader"] = "create"
    BY <1>0, <1>5, DriverPcAt DEF CreateMaster
  <2>2. CASE pc' = [pc EXCEPT !["loader"] = "reference", !["master"] = "start"]
    <3>1. driverPc' = [driverPc EXCEPT !["loader"] = "reference", !["master"] = "start"]
      BY <1>0, <2>2 DEF driverPc, ControlInv, Thread
    <3> QED BY <1>5, <2>1, <3>1 DEF CreateMaster, D!CreateMaster, D!DriverEntry, D!Loader
  <2>3. CASE pc' = [pc EXCEPT !["loader"] = "return"]
    <3>1. driverPc' = [driverPc EXCEPT !["loader"] = "return"]
      BY <1>0, <2>3, LoaderMoves
    <3> QED BY <1>5, <2>1, <3>1 DEF CreateMaster, D!CreateMaster, D!DriverEntry, D!Loader
  <2> QED BY <1>5, <2>2, <2>3 DEF CreateMaster
<1>6. CASE ReferenceMaster \/ ReturnSuccess
  BY <1>1, <1>6 DEF ReferenceMaster, ReturnSuccess, D!ReferenceMaster,
     D!ReturnSuccess, D!DriverEntry, D!Loader
<1>7. CASE SignalAbort \/ FreeLog
  BY <1>1, <1>7 DEF SignalAbort, FreeLog, D!SignalAbort, D!FreeLog, D!Unload, D!Loader
<1>8. CASE WaitForMaster
  <2>1. pc["master"] = "ended" => driverPc["master"] = "ended"
    BY <1>0, DriverPcAt DEF MasterPc
  <2> QED BY <1>1, <1>8, <2>1 DEF WaitForMaster, D!WaitForMaster, D!Unload, D!Loader
<1>9. CASE ForgetLog \/ DriverUnload
  BY <1>2, <1>9 DEF ForgetLog, DriverUnload, D!ForgetLog, D!DriverUnload, D!Unload, D!Loader
<1> QED
  BY <1>3, <1>4, <1>5, <1>6, <1>7, <1>8, <1>9 DEF Loader, DriverEntry, Unload

LEMMA OutsidePlanDriver == ASSUME LinkInv, LinkInv', OutsidePlan PROVE D!Master
<1> USE DEF logVars, D!logVars, testVars
<1>0. ControlInv /\ ControlInv' /\ PlanInv /\ PlanInv'
  BY DEF LinkInv
<1>1. CASE RecordLog("master")
  BY <1>1, RecordLogDriver DEF OutsidePlan, D!Master, Thread
<1>2. ASSUME NEW from, NEW to, Goto("master", from, to),
             from \in {"start", "flush", "write"},
             to \in {"acquire", "tests", "write", "ended"}
      PROVE  D!Goto("master", from, to)
  <2>1. pc["master"] = from /\ pc'["master"] = to
    BY <1>0, <1>2 DEF Goto, ControlInv, Thread
  <2>2. plan' \notin T!Measuring \cup {"report"}
    BY <1>0, <1>2, <2>1 DEF PlanInv, OutsidePlan
  <2>3. MasterPc = from /\ MasterPc' = to
    BY <1>2, <2>1, <2>2 DEF MasterPc
  <2> QED BY <1>0, <1>2, <2>3, DriverGoto DEF OutsidePlan, Thread
<1>3. CASE StartTests
  BY <1>2, <1>3 DEF StartTests, LogThenGoto, D!StartTests, D!LogThenGoto, D!RunTests,
     D!Master
<1>4. CASE FlushLogToFile
  BY <1>2, <1>4 DEF FlushLogToFile, FlushCheck, FlushWrite, D!FlushLogToFile,
     D!FlushCheck, D!FlushWrite, D!Master
<1> QED BY <1>1, <1>3, <1>4 DEF OutsidePlan

\* Between a look at the abort flag and the next line there is at most one
\* measurement, and only a measurement raises the abort.
LEMMA PlanLooks ==
  ASSUME T!RunTests, plan # "verdict"
  PROVE  /\ plan \in T!Measuring =>
              plan' \in T!Measuring \cup {"report"} /\ g_lAbortTests' \in {g_lAbortTests, TRUE}
         /\ plan = "report" => WritesLine
         /\ plan \notin T!Measuring => g_lAbortTests' = g_lAbortTests
         /\ plan \notin T!Measuring \cup {"report"} =>
              (WritesLine \/ plan' \in T!Measuring \cup {"report"} => ~g_lAbortTests)
  BY DEF T!RunTests, T!StartThreads, T!StopAndWaitThreads, WritesLine,
     T!RunEngineTestPlan, T!RunCorrectnessTest, T!TestsDone, T!NextConfig,
     T!SkipConfig, T!NextSuite, T!FreeBuffers, T!ReportVerdict, T!SuiteReturns,
     T!EngineReturnsZero, T!RunEngine, T!PsCreateSystemThread,
     T!ObReferenceObjectByHandle, T!AbortTests, T!ReleaseThreads,
     T!CollectUnreferenced, T!StartTogether, T!SetStartFlag, T!StartClock,
     T!SetStopFlag, T!WaitForThread, T!FreeManager, T!EngineReturns, T!Goto,
     T!Measuring, T!progress

LEMMA PlanStepDriver ==
  ASSUME LinkInv, LinkInv', PlanStep
  PROVE  [D!Next]_(D!vars)
<1> USE DEF logVars, D!logVars
<1>0. ControlInv /\ ControlInv'
  BY DEF LinkInv
<1>1. /\ pc["master"] = "tests" /\ pc'["master"] = IF WritesLine THEN "line" ELSE "tests"
      /\ pc' = [pc EXCEPT !["master"] = IF WritesLine THEN "line" ELSE "tests"]
  BY <1>0 DEF PlanStep, Goto, ControlInv, Thread
<1>2. driverPc["master"] = MasterPc /\ driverPc' = [driverPc EXCEPT !["master"] = MasterPc']
  BY <1>0, <1>1, DriverPcAt, MasterMoves
<1>3. MasterPc' = MasterPc => driverPc' = driverPc
  BY <1>0, <1>2 DEF driverPc, ControlInv, Thread
<1>4. CASE plan \in T!Measuring \cup {"report"}
  <2>1. MasterPc = "work" /\ MasterPc' = "work"
    BY <1>1, <1>4, PlanLooks DEF MasterPc, PlanStep
  <2>2. CASE g_lAbortTests' = g_lAbortTests
    BY <1>3, <2>1, <2>2 DEF PlanStep, D!vars
  <2>3. CASE g_lAbortTests' = TRUE
    BY <1>2, <1>3, <2>1, <2>3 DEF PlanStep, D!TestPlanAborts, D!RunTests, D!Master, D!Next
  <2> QED BY <1>4, <2>2, <2>3, PlanLooks DEF PlanStep, T!Measuring
<1>5. CASE plan \notin T!Measuring \cup {"report"}
  <2>1. MasterPc = "tests" /\ g_lAbortTests' = g_lAbortTests
    BY <1>1, <1>5, PlanLooks DEF MasterPc, PlanStep
  <2>2. CASE MasterPc' = "tests"
    BY <1>3, <2>1, <2>2 DEF PlanStep, D!vars
  <2>3. CASE MasterPc' # "tests"
    <3>1. MasterPc' = "work" /\ ~g_lAbortTests
      BY <1>1, <1>5, <2>3, PlanLooks DEF MasterPc, PlanStep
    <3>2. D!LookAtAbort
      BY <1>2, <2>1, <3>1 DEF PlanStep, D!LookAtAbort, D!Goto
    <3> QED BY <3>2 DEF D!RunTests, D!Master, D!Next
  <2> QED BY <2>2, <2>3
<1> QED BY <1>4, <1>5

LEMMA PlanLogsDriver ==
  ASSUME LinkInv, LinkInv', LogPlanLine \/ PlanEnds
  PROVE  D!Master
<1> USE DEF logVars, D!logVars, testVars
<1>0. ControlInv /\ ControlInv' /\ PlanInv /\ PlanInv'
  BY DEF LinkInv
<1>1. CASE LogPlanLine
  <2>1. PICK to \in {"acquire", "tests"} : pc' = [pc EXCEPT !["master"] = to]
    BY <1>1 DEF LogPlanLine, LogThenGoto, Goto
  <2>2. pc["master"] = "line" /\ pc'["master"] = to
    BY <1>0, <1>1, <2>1 DEF LogPlanLine, LogThenGoto, Goto, ControlInv, Thread
  <2>3. plan' \notin T!Measuring \cup {"report"}
    BY <1>0, <1>1, <2>2 DEF PlanInv, LogPlanLine
  <2>4. MasterPc = "work" /\ MasterPc' = to
    BY <2>2, <2>3 DEF MasterPc
  <2>5. D!Goto("master", "work", to)
    BY <1>0, <2>1, <2>4, DriverPcAt, MasterMoves DEF D!Goto
  <2>6. D!LogThenGoto("master", "work", "tests")
    BY <1>1, <2>5 DEF LogPlanLine, LogThenGoto, D!LogThenGoto
  <2> QED
    BY <1>1, <2>6 DEF LogPlanLine, D!TestPlanLine, D!RunTests, D!Master
<1>2. CASE PlanEnds
  <2>1. PICK to \in {"acquire", "flush"} : pc' = [pc EXCEPT !["master"] = to]
    BY <1>2 DEF PlanEnds, TestPlanEnds, LogThenGoto, Goto
  <2>2. pc["master"] = "tests" /\ pc'["master"] = to /\ plan = "verdict"
    BY <1>0, <1>2, <2>1 DEF PlanEnds, TestPlanEnds, LogThenGoto, Goto, ControlInv,
       Thread, T!ReportVerdict, T!Goto
  <2>3. MasterPc = "tests" /\ MasterPc' = to
    BY <2>2 DEF MasterPc, T!Measuring
  <2>4. D!Goto("master", "tests", to)
    BY <1>0, <2>1, <2>3, DriverPcAt, MasterMoves DEF D!Goto
  <2>5. D!LogThenGoto("master", "tests", "flush")
    BY <1>2, <2>4 DEF PlanEnds, TestPlanEnds, LogThenGoto, D!LogThenGoto
  <2> QED
    BY <1>2, <2>5 DEF PlanEnds, TestPlanEnds, D!TestPlanEnds, D!RunTests, D!Master
<1> QED BY <1>1, <1>2

LEMMA StepDriver ==
  ASSUME LinkInv, LinkInv', [KernelNext]_kernelVars
  PROVE  [D!Next]_(D!vars)
<1>1. CASE LoaderStep \/ UnloadRequest
  BY <1>1, LoaderDriver DEF LoaderStep, UnloadRequest, D!Next
<1>2. CASE OutsidePlan
  BY <1>2, OutsidePlanDriver DEF D!Next
<1>3. CASE PlanStep
  BY <1>3, PlanStepDriver
<1>4. CASE LogPlanLine \/ PlanEnds
  BY <1>4, PlanLogsDriver DEF D!Next
<1>5. CASE \E w \in T!Worker : WorkerStep(w)
  <2>1. UNCHANGED <<driverVars, plan, g_lAbortTests>>
    BY <1>5 DEF WorkerStep, T!SearchWorkerT, T!AwaitEvent, T!Spin, T!SearchLoop,
       T!AddOps, T!WorkerShared
  <2> QED BY <2>1 DEF driverVars, logVars, D!vars, D!logVars, driverPc
<1>6. CASE UNCHANGED kernelVars
  BY <1>6 DEF kernelVars, driverVars, testVars, logVars, D!vars, D!logVars, driverPc
<1> QED
  BY <1>1, <1>2, <1>3, <1>4, <1>5, <1>6 DEF KernelNext, MasterStep, Unloaded

(***************************************************************************)
(* The kernel build implements Driver: what that module assumes of the     *)
(* test plan, between two looks at the abort flag and between two lines of *)
(* log, is what the suite does.  (The safety part of ImplementsDriver.)    *)
(***************************************************************************)
THEOREM RefinesDriver == KernelSafety => D!Safety
  BY InitDriver, StepDriver, AlwaysLink, PTL DEF KernelSafety, D!Safety

-----------------------------------------------------------------------------
(***************************************************************************)
(* What is proved of the parts holds in the composition.  The instances T  *)
(* and TP of TestThreads are the same formulas under two names, as are D   *)
(* and DP of Driver.                                                       *)
(***************************************************************************)
LEMMA SameTests == T!Safety => TP!Safety
  BY DEF T!Safety, TP!Safety, T!Init, TP!Init, T!Next, TP!Next, T!vars, TP!vars,
     T!manager, TP!manager, T!measure, TP!measure, T!memory, TP!memory,
     T!progress, TP!progress, T!outcome, TP!outcome, T!workers, TP!workers,
     T!Worker, TP!Worker, T!ulThreadCount, TP!ulThreadCount, T!Goto, TP!Goto,
     T!Abort, TP!Abort, T!RunTests, TP!RunTests,
     T!StartThreads, TP!StartThreads, T!StopAndWaitThreads, TP!StopAndWaitThreads,
     T!RunEngineTestPlan, TP!RunEngineTestPlan,
     T!RunCorrectnessTest, TP!RunCorrectnessTest, T!TestsDone, TP!TestsDone,
     T!NextConfig, TP!NextConfig, T!SkipConfig, TP!SkipConfig,
     T!NextSuite, TP!NextSuite, T!FreeBuffers, TP!FreeBuffers,
     T!ReportVerdict, TP!ReportVerdict, T!SuiteReturns, TP!SuiteReturns,
     T!EngineReturnsZero, TP!EngineReturnsZero, T!RunEngine, TP!RunEngine,
     T!PsCreateSystemThread, TP!PsCreateSystemThread,
     T!ObReferenceObjectByHandle, TP!ObReferenceObjectByHandle,
     T!AbortTests, TP!AbortTests, T!KeSetEvent, TP!KeSetEvent,
     T!ReleaseThreads, TP!ReleaseThreads, T!CollectUnreferenced, TP!CollectUnreferenced,
     T!StartTogether, TP!StartTogether, T!SetStartFlag, TP!SetStartFlag,
     T!StartClock, TP!StartClock, T!SetStopFlag, TP!SetStopFlag,
     T!WaitForThread, TP!WaitForThread, T!FreeManager, TP!FreeManager,
     T!EngineReturns, TP!EngineReturns, T!SearchWorkerT, TP!SearchWorkerT,
     T!WorkerShared, TP!WorkerShared, T!WGoto, TP!WGoto,
     T!AwaitEvent, TP!AwaitEvent, T!Spin, TP!Spin, T!SearchLoop, TP!SearchLoop,
     T!AddOps, TP!AddOps, T!Terminated, TP!Terminated

LEMMA SameDriver == D!Safety => DP!Safety
  BY DEF D!Safety, DP!Safety, D!Init, DP!Init, D!Next, DP!Next, D!vars, DP!vars,
     D!logVars, DP!logVars, D!Thread, DP!Thread, D!Nobody, DP!Nobody, D!Goto, DP!Goto,
     D!LogThenGoto, DP!LogThenGoto, D!Fits, DP!Fits, D!RecordLog, DP!RecordLog,
     D!ExAcquireFastMutex, DP!ExAcquireFastMutex,
     D!CheckBuffer, DP!CheckBuffer, D!CopyLine, DP!CopyLine,
     D!AdvanceOffset, DP!AdvanceOffset, D!ExReleaseFastMutex, DP!ExReleaseFastMutex,
     D!AllocateLog, DP!AllocateLog, D!DetectAVX2, DP!DetectAVX2,
     D!CreateMaster, DP!CreateMaster, D!ReferenceMaster, DP!ReferenceMaster,
     D!ReturnSuccess, DP!ReturnSuccess, D!DriverUnload, DP!DriverUnload,
     D!SignalAbort, DP!SignalAbort, D!WaitForMaster, DP!WaitForMaster,
     D!FreeLog, DP!FreeLog, D!ForgetLog, DP!ForgetLog, D!StartTests, DP!StartTests,
     D!LookAtAbort, DP!LookAtAbort, D!TestPlanLine, DP!TestPlanLine,
     D!TestPlanStep, DP!TestPlanStep, D!TestPlanAborts, DP!TestPlanAborts,
     D!TestPlanEnds, DP!TestPlanEnds, D!FlushCheck, DP!FlushCheck,
     D!FlushWrite, DP!FlushWrite, D!DriverEntry, DP!DriverEntry, D!Unload, DP!Unload,
     D!Loader, DP!Loader, D!FlushLogToFile, DP!FlushLogToFile,
     D!RunTests, DP!RunTests, D!Master, DP!Master, D!Terminated, DP!Terminated

LEMMA AlwaysTests == KernelSafety => []TP!IInv
  BY RefinesTests, SameTests, TestsAssumptions, TP!Invariance

LEMMA AlwaysDriver == KernelSafety => []DP!IInv
  BY RefinesDriver, SameDriver, DriverAssumptions, DP!Invariance

(***************************************************************************)
(* Driver's and TestThreads' variables stay in their types when the two    *)
(* are composed.                                                           *)
(***************************************************************************)
THEOREM TypeCorrect == KernelSafety => []TypesOK
<1>1. TP!IInv => T!TypeOK
  BY DEF TP!IInv, TP!TypeOK, T!TypeOK, TP!Worker, T!Worker, TP!MasterPCs, T!MasterPCs,
     TP!WorkerPCs, T!WorkerPCs
<1>2. DP!IInv => D!TypeOK
  BY DEF DP!IInv, DP!TypeOK, D!TypeOK, DP!Thread, D!Thread, DP!Nobody, D!Nobody,
     DP!LoaderPCs, D!LoaderPCs, DP!MasterPCs, D!MasterPCs, DP!LoggingPCs, D!LoggingPCs
<1> QED
  BY <1>1, <1>2, AlwaysTests, AlwaysDriver, PTL DEF TypesOK

(***************************************************************************)
(* While the suite with all its threads runs beside DriverUnload, the log  *)
(* holds the lines that were copied, whole and in order.                   *)
(***************************************************************************)
THEOREM LogStaysIntact == KernelSafety => []LogIntact
<1>1. DP!IInv => LogIntact
  <2> SUFFICES ASSUME DP!IInv PROVE LogIntact
    OBVIOUS
  <2>1. log = kept
    BY DEF DP!IInv, DP!LogInv
  <2>2. ASSUME g_LogMutex = Nobody PROVE g_cbLogBufferOffset = Len(log)
    <3>1. \A t \in DP!Thread : driverPc[t] # "advance"
      BY <2>2 DEF DP!IInv, DP!MutexInv, DP!Thread, Nobody
    <3> QED BY <3>1 DEF DP!IInv, DP!LogInv
  <2> QED BY <2>1, <2>2 DEF LogIntact
<1> QED BY <1>1, AlwaysDriver, PTL

(***************************************************************************)
(* And the flush writes whole lines only, with every line of the master.   *)
(***************************************************************************)
THEOREM FlushIsWhole == KernelSafety => []FileIsLogPrefix
<1>1. DP!IInv => FileIsLogPrefix
  BY DEF DP!IInv, DP!FileInv, DP!FileIsLogPrefix, FileIsLogPrefix
<1> QED BY <1>1, AlwaysDriver, PTL

(***************************************************************************)
(* When the master can be referenced, its code is never unloaded under it, *)
(* wherever in the suite the abort reached it, and no thread touches a     *)
(* freed log.                                                              *)
(***************************************************************************)
LEMMA MasterIsGone ==
  ASSUME ~ReferenceMayFail, LinkInv, DP!IInv, pc["loader"] = "unloaded"
  PROVE  pc["master"] \in {"none", "ended"}
<1>1. driverPc["loader"] = "unloaded" /\ driverPc["master"] = MasterPc
  BY DriverPcAt DEF LinkInv
<1>2. DP!Stage("loader") = "unloaded"
  BY <1>1 DEF DP!Stage, DP!LoggingPCs
<1>3. MasterPc \in {"none", "ended"}
  BY <1>1, <1>2 DEF DP!IInv, DP!UnloadInv
<1> QED BY <1>3 DEF MasterPc

THEOREM UnloadIsSafe == ASSUME ~ReferenceMayFail PROVE KernelSafety => []UnloadWaits
<1>1. LinkInv /\ DP!IInv => UnloadWaits
  <2> SUFFICES ASSUME LinkInv, DP!IInv PROVE UnloadWaits
    OBVIOUS
  <2>1. pc["loader"] = "unloaded" => pc["master"] \in {"none", "ended"}
    BY MasterIsGone
  <2>2. ASSUME NEW t \in Thread, pc[t] \in {"copy", "advance", "write"}
        PROVE  logPool
    <3>1. t \in DP!Thread /\ driverPc[t] = pc[t]
      BY <2>2, DriverPcAt DEF LinkInv, Thread, DP!Thread, MasterPc
    <3>2. g_pLogBuffer
      BY <2>2, <3>1 DEF DP!IInv, DP!UnloadInv
    <3>3. driverPc["loader"] # "forget"
      BY <2>2, <3>1 DEF DP!IInv, DP!UnloadInv, DP!Stage, DP!LoggingPCs, DP!Thread
    <3> QED BY <3>2, <3>3 DEF DP!IInv, DP!UnloadInv
  <2> QED BY <2>1, <2>2 DEF UnloadWaits
<1> QED BY <1>1, AlwaysLink, AlwaysDriver, PTL

(***************************************************************************)
(* When the driver has been unloaded, no worker and no master runs its     *)
(* code, and no buffer, search object, thread manager, reference or log is *)
(* left, for any number of workers and whatever failed.                    *)
(***************************************************************************)
THEOREM UnloadIsComplete ==
  ASSUME ~ReferenceMayFail PROVE KernelSafety => []UnloadLeavesNothing
<1>1. LinkInv /\ DP!IInv /\ TP!IInv => UnloadLeavesNothing
  <2> SUFFICES ASSUME LinkInv, DP!IInv, TP!IInv, pc["loader"] = "unloaded"
               PROVE  /\ pc["master"] \in {"none", "ended"} /\ ~g_pMasterBenchmarkThread
                      /\ \A w \in T!Worker : ~T!Running(w) /\ ~pThreads[w]
                      /\ buffers = {} /\ ~Search /\ ~pMgr /\ ~logPool
    BY DEF UnloadLeavesNothing
  <2>1. pc["master"] \in {"none", "ended"}
    BY MasterIsGone
  <2>2. ~g_pMasterBenchmarkThread /\ ~logPool
    BY DEF LinkInv, FreedInv, Stage, LoggingPCs
  <2>3. plan \in {"plan", "ended"}
    BY <2>1 DEF LinkInv, PlanInv, Stage, LoggingPCs
  <2>4. buffers = {} /\ ~Search /\ ~pMgr
    BY <2>3 DEF TP!IInv, TP!MemoryInv, TP!Measuring
  <2>5. \A w \in T!Worker : ~T!Running(w) /\ ~pThreads[w]
    BY <2>3 DEF TP!IInv, TP!ThreadInv, TP!Running, TP!Worker, TP!Measuring, TP!Handling,
       T!Running, T!Worker
  <2> QED BY <2>1, <2>2, <2>4, <2>5
<1> QED BY <1>1, AlwaysLink, AlwaysDriver, AlwaysTests, PTL

(***************************************************************************)
(* No count is lost in the kernel build either: unload and log do not      *)
(* touch the total, and the abort, whenever it comes, releases only        *)
(* workers that have counted nothing.                                      *)
(***************************************************************************)
THEOREM NoCountIsLost == KernelSafety => []T!TotalIsComplete
<1>1. TP!TotalIsComplete => T!TotalIsComplete
  BY DEF TP!TotalIsComplete, T!TotalIsComplete, TP!Sum, T!Sum, TP!MapThenSumSet, T!MapThenSumSet,
     TP!MapThenFoldSet, T!MapThenFoldSet, TP!Worker, T!Worker,
     TP!Running, T!Running
<1>2. KernelSafety => []TP!TotalIsComplete
  BY RefinesTests, SameTests, TestsAssumptions, TP!NoCountIsLost
<1> QED BY <1>1, <1>2, PTL

(***************************************************************************)
(* Nobody waits in a circle in the whole kernel build, and every step of   *)
(* the loader, the master and the workers is one towards the end, for any  *)
(* number of workers, any plan and any log.                                *)
(***************************************************************************)
THEOREM KernelAlwaysAdvances == KernelSafety => KernelAdvances
<1>1. TP!TestsAdvance => T!TestsAdvance
  BY DEF T!TestsAdvance, TP!TestsAdvance, T!vars, TP!vars, T!manager, TP!manager,
     T!measure, TP!measure, T!memory, TP!memory, T!progress, TP!progress,
     T!outcome, TP!outcome, T!workers, TP!workers, T!Worker, TP!Worker,
     T!ulThreadCount, TP!ulThreadCount, T!Measuring, TP!Measuring, T!Handling, TP!Handling,
     T!Loops, TP!Loops, T!Awaited, TP!Awaited, T!CanMove, TP!CanMove,
     T!WorkerLeft, TP!WorkerLeft, T!MasterLeft, TP!MasterLeft, T!PlanLeft, TP!PlanLeft,
     T!ConfigsLeft, TP!ConfigsLeft, T!SuitesLeft, TP!SuitesLeft,
     T!EnginesLeft, TP!EnginesLeft, T!EngineLeft, TP!EngineLeft,
     T!HandlingLeft, TP!HandlingLeft, T!ThreadsLeft, TP!ThreadsLeft,
     T!MasterAdvances, TP!MasterAdvances, T!AwaitedAdvances, TP!AwaitedAdvances
<1>2. DP!UnloadAdvances => D!UnloadAdvances
  BY DEF D!UnloadAdvances, DP!UnloadAdvances, D!vars, DP!vars, D!logVars, DP!logVars,
     D!Thread, DP!Thread, D!Nobody, DP!Nobody, D!LoggingPCs, DP!LoggingPCs,
     D!Stage, DP!Stage, D!Waiting, DP!Waiting, D!Running, DP!Running,
     D!LogLeft, DP!LogLeft, D!LoaderStage, DP!LoaderStage, D!LoaderLeft, DP!LoaderLeft,
     D!MasterStage, DP!MasterStage, D!MasterLogLeft, DP!MasterLogLeft,
     D!MasterDescends, DP!MasterDescends, D!LoaderAdvances, DP!LoaderAdvances,
     D!MasterAdvances, DP!MasterAdvances
<1>3. KernelSafety => TP!TestsAdvance
  BY RefinesTests, SameTests, TestsAssumptions, TP!TestsAlwaysAdvance
<1>4. KernelSafety => DP!UnloadAdvances
  BY RefinesDriver, SameDriver, DriverAssumptions, DP!UnloadAlwaysAdvances
<1> QED BY <1>1, <1>2, <1>3, <1>4 DEF KernelAdvances
=============================================================================
