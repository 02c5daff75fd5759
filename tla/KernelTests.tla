---------------------------- MODULE KernelTests ----------------------------
(***************************************************************************)
(* The kernel build as a whole: the driver and its log (Driver) and the    *)
(* test suite that its master thread runs (TestThreads).  The two share    *)
(* the abort flag, which DriverUnload and StartThreads raise and every     *)
(* thread looks at, and the master thread itself: while the driver's pc    *)
(* has the master in its test plan, TestThreads' pc, here `plan`, says     *)
(* where in the plan it is.  The worker threads run beside both.           *)
(* Source lines in comments are those of TestKm/KmStrSearchDrv.cpp.        *)
(***************************************************************************)
EXTENDS Driver

CONSTANTS Requested, MaxThreads, Tests, Configs, Suites, Engines, MaxOps

VARIABLES
  plan,             \* the master inside RunTests
  pMgr, lStopFlag, StartEvent, pThreads, lStartFlag, llTotalOps,
  buffers, Search, test, config, suite, engine, ulIndex, failed, verdict,
  wpc, localOps

T == INSTANCE TestThreads WITH pc <- plan, UserMode <- FALSE

\* What TestThreads has beside the abort flag, and the Driver beside it.
testVars == <<plan, pMgr, lStopFlag, StartEvent, pThreads, lStartFlag,
              llTotalOps, buffers, Search, test, config, suite, engine,
              ulIndex, failed, verdict, wpc, localOps>>
driverVars == <<g_pMasterBenchmarkThread, logVars, ntStatus, lines, pc, ret>>

kernelVars == <<g_lAbortTests, driverVars, testVars>>

ASSUME TestsAssumption ==
  /\ Requested \in Nat /\ MaxThreads \in Nat
  /\ Tests \in Nat /\ Configs \in Nat /\ Suites \in Nat /\ Engines \in Nat
  /\ MaxOps \in Nat

KernelInit == Init /\ T!Init

-----------------------------------------------------------------------------
(***************************************************************************)
(* The threads of the I/O manager and the workers.                         *)
(***************************************************************************)
LoaderStep == Loader /\ UNCHANGED testVars

UnloadRequest == DriverUnload /\ UNCHANGED testVars

WorkerStep(w) == T!SearchWorkerT(w) /\ UNCHANGED driverVars

(***************************************************************************)
(* The master thread.  Outside its test plan it does what Driver says.     *)
(***************************************************************************)
OutsidePlan ==
  /\ StartTests \/ FlushLogToFile \/ RecordLog("master")
  /\ UNCHANGED testVars

\* Mutant: a correctness test is made and logged although it was aborted.
WritesLineAborted ==
  \/ plan = "plan" /\ plan' = "tests"
  \/ plan = "tests" /\ test' # test
  \/ plan = "config" /\ plan' = "buffers" /\ buffers' # {8, 16}
  \/ plan = "buffers" /\ plan' = "engine"
  \/ plan = "report"

\* The steps of the plan that are followed by LOG_INFO or LOG_ERR: the plan's
\* headline, a test's result, missing buffers, a suite's headline, a
\* measurement.  The lines of one headline are one line here.
WritesLine ==
  \/ plan = "plan" /\ plan' = "tests"
  \/ plan = "tests" /\ test' # test /\ ~g_lAbortTests
  \/ plan = "config" /\ plan' = "buffers" /\ buffers' # {8, 16}
  \/ plan = "buffers" /\ plan' = "engine"
  \/ plan = "report"

PlanStep ==
  /\ T!RunTests /\ plan # "verdict"
  /\ Goto("master", "tests", IF WritesLine THEN "line" ELSE "tests")
  /\ UNCHANGED <<g_pMasterBenchmarkThread, logVars, ntStatus, lines, ret>>

LogPlanLine ==
  /\ lines < Lines
  /\ LogThenGoto("master", "line", "tests")
  /\ lines' = lines + 1
  /\ UNCHANGED <<g_lAbortTests, g_pMasterBenchmarkThread, logVars, ntStatus,
                 testVars>>

\* The verdict is one more look at the abort flag, and a line of log.
PlanEnds == T!ReportVerdict /\ TestPlanEnds

MasterStep == OutsidePlan \/ PlanStep \/ LogPlanLine \/ PlanEnds

-----------------------------------------------------------------------------
Unloaded == pc["loader"] = "unloaded" /\ UNCHANGED kernelVars

KernelNext == \/ LoaderStep \/ UnloadRequest \/ MasterStep
              \/ \E w \in T!Worker : WorkerStep(w)
              \/ Unloaded

(***************************************************************************)
(* Every thread runs when it can; nobody has to unload the driver.         *)
(***************************************************************************)
KernelSafety == KernelInit /\ [][KernelNext]_kernelVars
KernelSpec == /\ KernelSafety
              /\ WF_kernelVars(LoaderStep) /\ WF_kernelVars(MasterStep)
              /\ \A w \in T!Worker : WF_kernelVars(WorkerStep(w))

-----------------------------------------------------------------------------
(***************************************************************************)
(* What is claimed of the kernel build.                                    *)
(***************************************************************************)

(***************************************************************************)
(* What Driver assumes of the test plan is what TestThreads does: between  *)
(* two lines of log there is a look at the abort flag that found it down,  *)
(* however long the measurement takes that lies between look and line.     *)
(***************************************************************************)
driverPc ==
  [pc EXCEPT !["master"] =
     IF @ = "line" \/ (@ = "tests" /\ plan \in T!Measuring \cup {"report"})
     THEN "work" ELSE @]

D == INSTANCE Driver WITH pc <- driverPc

ImplementsDriver == D!Spec

(***************************************************************************)
(* Nobody waits in a circle, and everybody gets on: DriverUnload may wait  *)
(* for the master, the master for a worker or for the log, and the worker  *)
(* or the log's owner can move.  No step of anybody undoes what another    *)
(* one has done towards the end of the tests and of the unload.            *)
(***************************************************************************)
KernelAdvances == T!TestsAdvance /\ D!UnloadAdvances

(***************************************************************************)
(* Every variable stays in its type: the log with its terminating zero in  *)
(* the buffer, the counters and the loops over the threads in their range. *)
(***************************************************************************)
TypesOK == D!TypeOK /\ T!TypeOK

(***************************************************************************)
(* Drv.cpp:173-176: DriverUnload stops all test threads, waits for them    *)
(* and frees all pool memory.  When the driver is unloaded, wherever the   *)
(* abort reached the suite and whatever had failed before, no worker and   *)
(* no master is running its code, and no buffer, search object, thread     *)
(* manager, reference or log is left in the pool.                          *)
(***************************************************************************)
UnloadLeavesNothing ==
  pc["loader"] = "unloaded" =>
    /\ pc["master"] \in {"none", "ended"} /\ ~g_pMasterBenchmarkThread
    /\ \A w \in T!Worker : ~T!Running(w) /\ ~pThreads[w]
    /\ buffers = {} /\ ~Search /\ ~pMgr /\ ~logPool

-----------------------------------------------------------------------------
(***************************************************************************)
(* What ties the two parts together, and with the invariants of both makes *)
(* UnloadLeavesNothing inductive.                                          *)
(***************************************************************************)

\* The driver's own stages, for a master whose plan is TestThreads'.
ControlInv ==
  /\ pc \in [Thread -> LoaderPCs \cup MasterPCs \cup {"line"}]
  /\ ret \in [Thread -> LoaderPCs \cup MasterPCs]
  /\ pc["loader"] \in LoaderPCs /\ pc["master"] \in (MasterPCs \ {"work"}) \cup {"line"}
  /\ pc["loader"] \in LoggingPCs => ret["loader"] \in {"entered", "create", "abort", "unloaded"}
  /\ pc["master"] \in LoggingPCs => ret["master"] \in {"tests", "flush"}
  /\ Stage("loader") \in {"entry", "entered", "create"} => pc["master"] = "none"

\* The plan has begun when the master is in it and is over when it has left it,
\* and no line is logged in the middle of a measurement.
PlanInv ==
  /\ Stage("master") \in {"none", "start"} => plan = "plan"
  /\ Stage("master") \in {"tests", "line"} => plan # "ended"
  /\ Stage("master") \in {"flush", "write", "ended"} => plan = "ended"
  /\ pc["master"] # "tests" => plan \notin T!Measuring \cup {"report"}

\* What DriverUnload has dropped and freed stays so.
FreedInv ==
  /\ Stage("loader") \in {"free", "forget", "unloaded"} => ~g_pMasterBenchmarkThread
  /\ Stage("loader") \in {"forget", "unloaded"} => ~logPool

LinkInv == ControlInv /\ PlanInv /\ FreedInv
=============================================================================
