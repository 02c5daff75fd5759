---------------------------- MODULE KmStrSearchUm ----------------------------
(***************************************************************************)
(* The user-mode build: main() of TestUm/KmStrSearchUm.cpp, and the test   *)
(* suite (TestThreads) on the stand-ins of TestUm/ntddk.h for the kernel's *)
(* services, which turn kernel objects into handles of the process.  A     *)
(* handle is an index into a table; a closed one may be given out again    *)
(* for something else.  Waiting for a value that is no open handle, or     *)
(* closing or setting it, fails, and nobody looks at the failure.          *)
(*                                                                         *)
(* Nothing here raises the abort flag, and ObReferenceObjectByHandle says  *)
(* STATUS_SUCCESS whatever happened, so StartThreads never collects an     *)
(* unreferenced thread.  That DuplicateHandle can fail is left out: the    *)
(* code would then use what happened to be in the manager's memory.        *)
(* Source lines in comments are those of TestUm/ntddk.h.                   *)
(***************************************************************************)
EXTENDS Integers

CONSTANTS
  Requested, MaxThreads, Tests, Configs, Suites, Engines, MaxOps,
  Handle,           \* bound: the values handles have
  NULL, Closed,
  Garbage,          \* what fresh memory contains
  Address           \* of a variable; no handle has such a value

ASSUME HandleAssumption ==
  /\ {NULL, Garbage, Address} \cap Handle = {}
  /\ NULL # Garbage

VARIABLES
  \* main().
  mainPc, hMaster, g_pMasterBenchmarkThread,
  \* The process: what each open handle stands for.
  handles,
  \* StartThreads' local handle, and the handles in the thread manager.
  hThread, pThreads, hStartEvent,
  \* The test suite; StartEvent says whether its latest event is set.
  g_lAbortTests, pMgr, lStopFlag, StartEvent, lStartFlag, llTotalOps,
  buffers, Search, pc, test, config, suite, engine, ulIndex, failed, verdict,
  wpc, localOps

\* The objects that handles stand for.
Thread(w) == <<"worker", w>>
Master    == <<"master", 0>>
Event     == <<"event", 0>>

ASSUME ObjectAssumption ==
  Closed \notin {Master, Event} \cup { Thread(w) : w \in 0 .. MaxThreads - 1 }

ASSUME TestsAssumption ==
  /\ Requested \in Nat /\ MaxThreads \in Nat
  /\ Tests \in Nat /\ Configs \in Nat /\ Suites \in Nat /\ Engines \in Nat
  /\ MaxOps \in Nat

IsOpen(v)   == v \in Handle /\ handles[v] # Closed
Names(v, o) == v \in Handle /\ handles[v] = o

\* The manager holds a reference to the thread.
Referenced == [w \in 0 .. MaxThreads - 1 |-> Names(pThreads[w], Thread(w))]

T == INSTANCE TestThreads WITH pThreads <- Referenced, UserMode <- TRUE

mainVars    == <<mainPc, hMaster, g_pMasterBenchmarkThread>>
managerVars == <<pThreads, hStartEvent>>
suiteVars   == <<g_lAbortTests, pMgr, lStopFlag, StartEvent, lStartFlag,
                 llTotalOps, buffers, Search, pc, test, config, suite, engine,
                 ulIndex, failed, verdict, wpc, localOps>>
vars == <<mainVars, handles, hThread, managerVars, suiteVars>>

Init ==
  /\ mainPc = "create" /\ hMaster = NULL /\ g_pMasterBenchmarkThread = NULL
  /\ handles = [h \in Handle |-> Closed]
  /\ hThread = NULL
  /\ pThreads = [w \in 0 .. MaxThreads - 1 |-> Garbage] /\ hStartEvent = Garbage
  /\ T!Init

-----------------------------------------------------------------------------
(***************************************************************************)
(* The services of ntddk.h.                                                *)
(***************************************************************************)
Opens(v, o)  == v \in Handle /\ handles[v] = Closed /\ handles' = [handles EXCEPT ![v] = o]
CloseHandle(v) == handles' = IF IsOpen(v) THEN [handles EXCEPT ![v] = Closed] ELSE handles

Signaled(o) ==
  \/ o = Master /\ pc = "ended"
  \/ \E w \in T!Worker : o = Thread(w) /\ wpc[w] = "ended"
  \/ o = Event /\ StartEvent

\* The wait for what is no open handle returns at once.
KeWaitForSingleObject(v) == IsOpen(v) => Signaled(handles[v])

-----------------------------------------------------------------------------
(***************************************************************************)
(* main().                                                                 *)
(***************************************************************************)
MainGoto(from, to) == mainPc = from /\ mainPc' = to

\* Without a master thread main has nothing to wait for and returns.
CreateMaster ==
  /\ \/ /\ MainGoto("create", "reference")
        /\ \E h \in Handle : Opens(h, Master) /\ hMaster' = h
     \/ /\ MainGoto("create", "failed")
        /\ UNCHANGED <<hMaster, handles>>
  /\ UNCHANGED <<g_pMasterBenchmarkThread, hThread, managerVars, suiteVars>>

ReferenceMaster ==
  /\ MainGoto("reference", "close")
  /\ \E h \in Handle : /\ Opens(h, handles[hMaster])
                       /\ g_pMasterBenchmarkThread' = h
  /\ UNCHANGED <<hMaster, hThread, managerVars, suiteVars>>

CloseMaster ==
  /\ MainGoto("close", IF g_pMasterBenchmarkThread # NULL THEN "wait" ELSE "exit")
  /\ CloseHandle(hMaster)
  /\ hMaster' = NULL
  /\ UNCHANGED <<g_pMasterBenchmarkThread, hThread, managerVars, suiteVars>>

\* Mutant: the thread is dereferenced and no longer waited for.
ForgetMaster ==
  /\ MainGoto("wait", "dereference")
  /\ UNCHANGED <<hMaster, g_pMasterBenchmarkThread, handles, hThread,
                 managerVars, suiteVars>>

WaitForMaster ==
  /\ MainGoto("wait", "dereference")
  /\ KeWaitForSingleObject(g_pMasterBenchmarkThread)
  /\ UNCHANGED <<hMaster, g_pMasterBenchmarkThread, handles, hThread,
                 managerVars, suiteVars>>

DereferenceMaster ==
  /\ MainGoto("dereference", "exit")
  /\ CloseHandle(g_pMasterBenchmarkThread)
  /\ g_pMasterBenchmarkThread' = NULL
  /\ UNCHANGED <<hMaster, hThread, managerVars, suiteVars>>

\* main returns: the process ends, whatever its other threads are doing.
Exit ==
  /\ MainGoto("exit", "exited")
  /\ UNCHANGED <<hMaster, g_pMasterBenchmarkThread, handles, hThread,
                 managerVars, suiteVars>>

Main == \/ CreateMaster \/ ReferenceMaster \/ CloseMaster \/ WaitForMaster
        \/ DereferenceMaster \/ Exit

-----------------------------------------------------------------------------
(***************************************************************************)
(* RunTests on the master thread: what it does to handles.                 *)
(***************************************************************************)
Goto(from, to) == pc = from /\ pc' = to

\* The manager's memory is not zeroed.  CreateEvent may fail.
RunEngine ==
  /\ Goto("engine", "spawn") /\ engine < Engines
  /\ ~g_lAbortTests
  /\ pMgr' = TRUE /\ lStopFlag' = FALSE
  /\ pThreads' = [w \in T!Worker |-> Garbage]
  /\ \/ \E h \in Handle : Opens(h, Event) /\ hStartEvent' = h
     \/ hStartEvent' = NULL /\ UNCHANGED handles
  /\ StartEvent' = FALSE
  /\ lStartFlag' = FALSE /\ llTotalOps' = 0
  /\ ulIndex' = 0
  /\ UNCHANGED <<mainVars, hThread, g_lAbortTests, buffers, Search, test, config,
                 suite, engine, failed, verdict, wpc, localOps>>

PsCreateSystemThread ==
  /\ pc = "spawn" /\ hThread = NULL /\ ulIndex < T!ulThreadCount
  /\ \/ /\ \E h \in Handle : Opens(h, Thread(ulIndex)) /\ hThread' = h
        /\ pc' = "reference"
        /\ wpc' = [wpc EXCEPT ![ulIndex] = "event"]
        /\ localOps' = [localOps EXCEPT ![ulIndex] = 0]
        /\ UNCHANGED <<pThreads, ulIndex>>
     \/ /\ pThreads' = [pThreads EXCEPT ![ulIndex] = NULL]
        /\ ulIndex' = ulIndex + 1
        /\ UNCHANGED <<handles, hThread, pc, wpc, localOps>>
  /\ UNCHANGED <<mainVars, hStartEvent, g_lAbortTests, pMgr, lStopFlag,
                 StartEvent, lStartFlag, llTotalOps, buffers, Search, test,
                 config, suite, engine, failed, verdict>>

ObReferenceObjectByHandle ==
  /\ Goto("reference", "spawn")
  /\ \E h \in Handle : /\ Opens(h, handles[hThread])
                       /\ pThreads' = [pThreads EXCEPT ![ulIndex] = h]
  /\ ulIndex' = ulIndex + 1
  /\ UNCHANGED <<mainVars, hThread, hStartEvent, g_lAbortTests, pMgr, lStopFlag,
                 StartEvent, lStartFlag, llTotalOps, buffers, Search, test,
                 config, suite, engine, failed, verdict, wpc, localOps>>

\* Mutant: the handle that CreateThread returned is not closed.
DropThreadHandle ==
  /\ pc = "spawn" /\ hThread # NULL
  /\ hThread' = NULL
  /\ UNCHANGED <<mainVars, handles, managerVars, suiteVars>>

\* The reference keeps the thread; its first handle leaves the loop's scope.
CloseThreadHandle ==
  /\ pc = "spawn" /\ hThread # NULL
  /\ CloseHandle(hThread)
  /\ hThread' = NULL
  /\ UNCHANGED <<mainVars, managerVars, suiteVars>>

StartTogether ==
  /\ Goto("spawn", "started") /\ hThread = NULL /\ ulIndex = T!ulThreadCount
  /\ StartEvent' = (StartEvent \/ Names(hStartEvent, Event))
  /\ UNCHANGED <<mainVars, handles, hThread, managerVars, g_lAbortTests, pMgr,
                 lStopFlag, lStartFlag, llTotalOps, buffers, Search, test,
                 config, suite, engine, ulIndex, failed, verdict, wpc, localOps>>

\* Mutant: the handle is closed before the wait, which then fails.
CloseThenWait ==
  /\ pc = "join" /\ ulIndex < T!ulThreadCount
  /\ IF pThreads[ulIndex] # NULL
     THEN CloseHandle(pThreads[ulIndex])
     ELSE UNCHANGED handles
  /\ ulIndex' = ulIndex + 1
  /\ UNCHANGED <<mainVars, hThread, managerVars, g_lAbortTests, pMgr, lStopFlag,
                 StartEvent, lStartFlag, llTotalOps, buffers, Search, pc, test,
                 config, suite, engine, failed, verdict, wpc, localOps>>

WaitForThread ==
  /\ pc = "join" /\ ulIndex < T!ulThreadCount
  /\ IF pThreads[ulIndex] # NULL
     THEN /\ KeWaitForSingleObject(pThreads[ulIndex])
          /\ CloseHandle(pThreads[ulIndex])
     ELSE UNCHANGED handles
  /\ ulIndex' = ulIndex + 1
  /\ UNCHANGED <<mainVars, hThread, managerVars, g_lAbortTests, pMgr, lStopFlag,
                 StartEvent, lStartFlag, llTotalOps, buffers, Search, pc, test,
                 config, suite, engine, failed, verdict, wpc, localOps>>

\* The event's handle is in the manager's memory, and nobody closes it.
FreeManager ==
  /\ Goto("join", "report") /\ ulIndex = T!ulThreadCount
  /\ pMgr' = FALSE
  /\ pThreads' = [w \in T!Worker |-> Garbage] /\ hStartEvent' = Garbage
  /\ UNCHANGED <<mainVars, handles, hThread, g_lAbortTests, lStopFlag,
                 StartEvent, lStartFlag, llTotalOps, buffers, Search, test,
                 config, suite, engine, ulIndex, failed, verdict, wpc, localOps>>

\* The rest of RunTests has no handles.
WithoutHandles ==
  /\ UNCHANGED <<mainVars, handles, hThread, managerVars>>
  /\ \/ T!RunEngineTestPlan \/ T!RunCorrectnessTest \/ T!TestsDone
     \/ T!NextConfig \/ T!SkipConfig \/ T!NextSuite \/ T!FreeBuffers
     \/ T!ReportVerdict \/ T!SuiteReturns \/ T!EngineReturnsZero
     \/ T!SetStartFlag \/ T!StartClock \/ T!SetStopFlag \/ T!EngineReturns

RunTests == \/ RunEngine \/ PsCreateSystemThread \/ ObReferenceObjectByHandle
            \/ CloseThreadHandle \/ StartTogether \/ WaitForThread
            \/ FreeManager \/ WithoutHandles

-----------------------------------------------------------------------------
(***************************************************************************)
(* SearchWorkerT: the wait for the start event is given the address of the *)
(* variable that has the handle.                                           *)
(***************************************************************************)
AwaitEvent(w) ==
  /\ wpc[w] = "event" /\ KeWaitForSingleObject(Address)
  /\ wpc' = [wpc EXCEPT ![w] = "spin"]
  /\ UNCHANGED <<g_lAbortTests, pMgr, lStopFlag, StartEvent, lStartFlag,
                 llTotalOps, buffers, Search, pc, test, config, suite, engine,
                 ulIndex, failed, verdict, localOps>>

SearchWorkerT(w) ==
  /\ UNCHANGED <<mainVars, handles, hThread, managerVars>>
  /\ AwaitEvent(w) \/ T!Spin(w) \/ T!SearchLoop(w) \/ T!AddOps(w)

-----------------------------------------------------------------------------
\* The threads run from the creation of the master until main returns.
Alive == mainPc \notin {"create", "failed", "exited"}

MasterStep    == Alive /\ RunTests
WorkerStep(w) == Alive /\ SearchWorkerT(w)

Terminated == mainPc \in {"failed", "exited"} /\ UNCHANGED vars

Next == \/ Main \/ MasterStep \/ (\E w \in T!Worker : WorkerStep(w))
        \/ Terminated

(***************************************************************************)
(* The scheduler runs every thread that can run.                           *)
(***************************************************************************)
Safety == Init /\ [][Next]_vars
Spec == /\ Safety
        /\ WF_vars(Main) /\ WF_vars(MasterStep)
        /\ \A w \in T!Worker : WF_vars(WorkerStep(w))

-----------------------------------------------------------------------------
(***************************************************************************)
(* What is claimed of the user-mode build.                                 *)
(***************************************************************************)

\* The variables that hold a handle of a thread they may still use.
Collectable(w) ==
  \/ pc \in {"reference", "spawn"} /\ w < ulIndex
  \/ pc \in {"started", "clock", "grace"} /\ w < T!ulThreadCount
  \/ pc = "join" /\ w \in ulIndex .. T!ulThreadCount - 1

\* Each with its value and the thread it stands for.
Held ==
  { x \in { <<"hMaster", hMaster, Master>>,
            <<"g_pMasterBenchmarkThread", g_pMasterBenchmarkThread, Master>>,
            <<"hThread", hThread,
              Thread(IF pc = "reference" THEN ulIndex ELSE ulIndex - 1)>> }
          \cup { <<"pThreads", pThreads[w], Thread(w)>> :
                   w \in { v \in T!Worker : Collectable(v) } } :
      x[2] # NULL }

(***************************************************************************)
(* The handle table and the variables agree, though handles are given out  *)
(* again after they are closed and nobody looks at a failure: what a step  *)
(* of main or of the tests passes on is an open handle of the thread that  *)
(* it means, never one that was closed or what fresh memory held; and      *)
(* every open handle of a thread is in exactly one such variable, so that  *)
(* it will be closed once.                                                 *)
(***************************************************************************)
HandlesSound ==
  /\ \A x \in Held : Names(x[2], x[3])
  /\ \A x, y \in Held : x[2] = y[2] => x = y
  /\ \A h \in Handle : handles[h] \notin {Closed, Event} => \E x \in Held : x[2] = h

(***************************************************************************)
(* main returns after the tests: no thread is cut off in the middle of a   *)
(* search, and the suite has given back what it took.                      *)
(***************************************************************************)
ExitsAfterTests ==
  mainPc \in {"exit", "exited"} =>
    /\ pc = "ended" /\ T!AllReturned
    /\ \A h \in Handle : handles[h] = Closed \/ handles[h] = Event

(***************************************************************************)
(* On handles, and with a start event that nobody waits for, the suite is  *)
(* still TestThreads: no worker outlives its measurement.                  *)
(***************************************************************************)
ImplementsTests == T!Safety

(***************************************************************************)
(* The program comes to its end.                                           *)
(***************************************************************************)
ProgramEnds == <>(mainPc \in {"failed", "exited"})

(***************************************************************************)
(* Shared.h:52: the worker threads are "synchronized on an event": they    *)
(* pass it when StartThreads has set it.                                   *)
(***************************************************************************)
WorkersAwaitEvent ==
  \A w \in T!Worker : wpc[w] \in T!WorkerPCs \ {"none", "event"} => StartEvent

-----------------------------------------------------------------------------
(***************************************************************************)
(* The inductive invariant behind HandlesSound, ExitsAfterTests and        *)
(* ImplementsTests, beside that of TestThreads.                            *)
(***************************************************************************)

\* What main holds at each of its steps; it waits until the tests have ended.
MainInv ==
  /\ hMaster # NULL <=> mainPc \in {"reference", "close"}
  /\ g_pMasterBenchmarkThread # NULL <=> mainPc \in {"close", "wait", "dereference"}
  /\ mainPc \in {"dereference", "exit", "exited"} => pc = "ended"

\* StartThreads fills the manager's memory in order and holds one thread's
\* first handle at a time; it never has to collect an unreferenced thread.
ManagerInv ==
  /\ pThreads \in [T!Worker -> Handle \cup {NULL, Garbage}]
  /\ handles \in [Handle -> {Closed, Event, Master} \cup { Thread(w) : w \in T!Worker }]
  /\ pc \notin {"abort", "release", "collect"}
  /\ hThread # NULL => pc = "reference" \/ (pc = "spawn" /\ ulIndex > 0)
  /\ pc = "reference" => hThread # NULL
  /\ pc \in {"spawn", "reference"} =>
       \A w \in T!Worker : w >= ulIndex => pThreads[w] = Garbage

\* HandlesSound, variable by variable.
MainHolds ==
  /\ hMaster # NULL => Names(hMaster, Master)
  /\ g_pMasterBenchmarkThread # NULL =>
       Names(g_pMasterBenchmarkThread, Master) /\ g_pMasterBenchmarkThread # hMaster
  /\ \A h \in Handle : handles[h] = Master => h \in {hMaster, g_pMasterBenchmarkThread}

StarterHolds ==
  hThread # NULL => Names(hThread, Thread(IF pc = "reference" THEN ulIndex ELSE ulIndex - 1))

ManagerHolds ==
  \A w \in T!Worker :
    /\ Collectable(w) /\ pThreads[w] # NULL => Names(pThreads[w], Thread(w)) /\ pThreads[w] # hThread
    /\ \A h \in Handle :
         handles[h] = Thread(w) => h = hThread \/ (Collectable(w) /\ h = pThreads[w])

HandleInv == MainInv /\ ManagerInv /\ MainHolds /\ StarterHolds /\ ManagerHolds
=============================================================================
