------------------------------- MODULE Driver -------------------------------
(***************************************************************************)
(* The kernel driver that runs the test suite: DriverEntry and             *)
(* DriverUnload, called by the I/O manager's thread, RunTests on the       *)
(* master thread, and the log both write to.  RunTests appears here with   *)
(* its lines of log and its looks at the abort flag; what it does between  *)
(* them, on threads that are gone when RunTests ends, is TestThreads.      *)
(* Source lines in comments are those of TestKm/KmStrSearchDrv.cpp.        *)
(***************************************************************************)
EXTENDS Integers, Sequences

CONSTANTS
  LogMax,               \* g_cbLogBufferMax, in lines of log
  Lines,                \* bound: lines of log the test plan writes
  ReferenceMayFail      \* ObReferenceObjectByHandle may fail for the master

ASSUME LogAssumption == LogMax \in Nat \ {0} /\ Lines \in Nat
ASSUME KernelAssumption == ReferenceMayFail \in BOOLEAN

Thread == {"loader", "master"}
Nobody == "nobody"

VARIABLES
  g_lAbortTests,
  g_pMasterBenchmarkThread,   \* the driver holds a reference to the master
  \* The log.
  g_pLogBuffer,               \* the pointer is not null
  logPool,                    \* the buffer is allocated
  log,                        \* its lines; each is named by who wrote it
  g_cbLogBufferOffset,
  g_LogMutex,                 \* who holds the mutex
  kept,                       \* history: the lines that were copied
  file,                       \* what the log file has gained
  \* The threads.
  ntStatus,                   \* what DriverEntry returned
  lines,                      \* lines the test plan has written
  pc, ret                     \* ret: where a thread goes after RecordLog

logVars == <<g_pLogBuffer, logPool, log, g_cbLogBufferOffset, g_LogMutex, kept, file>>

vars == <<g_lAbortTests, g_pMasterBenchmarkThread, logVars, ntStatus, lines, pc, ret>>

Init ==
  /\ g_lAbortTests = FALSE /\ g_pMasterBenchmarkThread = FALSE
  /\ g_pLogBuffer = FALSE /\ logPool = FALSE
  /\ log = <<>> /\ g_cbLogBufferOffset = 0
  /\ g_LogMutex = Nobody
  /\ kept = <<>> /\ file = <<>>
  /\ ntStatus = "none" /\ lines = 0
  /\ pc = [t \in Thread |-> IF t = "loader" THEN "entry" ELSE "none"]
  /\ ret = [t \in Thread |-> "none"]

Goto(t, from, to) == pc[t] = from /\ pc' = [pc EXCEPT ![t] = to]

\* t calls RecordLog at `from` and goes on at `to`.  The line is formatted
\* first; one that does not fit the stack's buffer is not logged at all.
LogThenGoto(t, from, to) ==
  /\ Goto(t, from, "acquire") \/ Goto(t, from, to)
  /\ ret' = [ret EXCEPT ![t] = to]

-----------------------------------------------------------------------------
(***************************************************************************)
(* RecordLog, once the line is formatted.                                  *)
(***************************************************************************)

\* Mutant: a log without a mutex.
AcquireAnyway(t) ==
  /\ Goto(t, "acquire", "check")
  /\ g_LogMutex' = t
  /\ UNCHANGED <<g_lAbortTests, g_pMasterBenchmarkThread, g_pLogBuffer, logPool,
                 log, g_cbLogBufferOffset, kept, file, ntStatus, lines, ret>>

ExAcquireFastMutex(t) ==
  /\ Goto(t, "acquire", "check") /\ g_LogMutex = Nobody
  /\ g_LogMutex' = t
  /\ UNCHANGED <<g_lAbortTests, g_pMasterBenchmarkThread, g_pLogBuffer, logPool,
                 log, g_cbLogBufferOffset, kept, file, ntStatus, lines, ret>>

\* Mutant: no room is left for the terminating zero.
FitsWithoutZero == g_cbLogBufferOffset + 1 <= LogMax

\* A line and the zero behind it fit.
Fits == g_cbLogBufferOffset + 1 < LogMax

\* Mutant: a line that does not fit returns with the mutex held.
CheckReturns(t) ==
  /\ Goto(t, "check", IF g_pLogBuffer /\ Fits THEN "copy" ELSE ret[t])
  /\ UNCHANGED <<g_lAbortTests, g_pMasterBenchmarkThread, logVars, ntStatus,
                 lines, ret>>

\* Without a buffer, or when the line does not fit, it is dropped.
CheckBuffer(t) ==
  /\ Goto(t, "check", IF g_pLogBuffer /\ Fits THEN "copy" ELSE "release")
  /\ UNCHANGED <<g_lAbortTests, g_pMasterBenchmarkThread, logVars, ntStatus,
                 lines, ret>>

CopyLine(t) ==
  /\ Goto(t, "copy", "advance")
  /\ log' = Append(SubSeq(log, 1, g_cbLogBufferOffset), t)
  /\ kept' = Append(kept, t)
  /\ UNCHANGED <<g_lAbortTests, g_pMasterBenchmarkThread, g_pLogBuffer, logPool,
                 g_cbLogBufferOffset, g_LogMutex, file, ntStatus, lines, ret>>

\* The offset moves on and the terminating zero is written.
AdvanceOffset(t) ==
  /\ Goto(t, "advance", "release")
  /\ g_cbLogBufferOffset' = g_cbLogBufferOffset + 1
  /\ UNCHANGED <<g_lAbortTests, g_pMasterBenchmarkThread, g_pLogBuffer, logPool,
                 log, g_LogMutex, kept, file, ntStatus, lines, ret>>

ExReleaseFastMutex(t) ==
  /\ Goto(t, "release", ret[t])
  /\ g_LogMutex' = Nobody
  /\ UNCHANGED <<g_lAbortTests, g_pMasterBenchmarkThread, g_pLogBuffer, logPool,
                 log, g_cbLogBufferOffset, kept, file, ntStatus, lines, ret>>

RecordLog(t) == \/ ExAcquireFastMutex(t) \/ CheckBuffer(t) \/ CopyLine(t)
                \/ AdvanceOffset(t) \/ ExReleaseFastMutex(t)

-----------------------------------------------------------------------------
(***************************************************************************)
(* DriverEntry.                                                            *)
(***************************************************************************)

\* The log starts empty, or there is none.
AllocateLog ==
  /\ LogThenGoto("loader", "entry", "entered")
  /\ \E ok \in BOOLEAN : g_pLogBuffer' = ok /\ logPool' = ok
  /\ UNCHANGED <<g_lAbortTests, g_pMasterBenchmarkThread, log, g_cbLogBufferOffset,
                 g_LogMutex, kept, file, ntStatus, lines>>

DetectAVX2 ==
  /\ LogThenGoto("loader", "entered", "create")
  /\ UNCHANGED <<g_lAbortTests, g_pMasterBenchmarkThread, logVars, ntStatus, lines>>

CreateMaster ==
  /\ pc["loader"] = "create"
  /\ \/ pc' = [pc EXCEPT !["loader"] = "reference", !["master"] = "start"]
     \/ pc' = [pc EXCEPT !["loader"] = "return"]
  /\ UNCHANGED <<g_lAbortTests, g_pMasterBenchmarkThread, logVars, ntStatus,
                 lines, ret>>

\* The status of this call is not looked at.
ReferenceMaster ==
  /\ Goto("loader", "reference", "return")
  /\ g_pMasterBenchmarkThread' \in IF ReferenceMayFail THEN BOOLEAN ELSE {TRUE}
  /\ UNCHANGED <<g_lAbortTests, logVars, ntStatus, lines, ret>>

ReturnSuccess ==
  /\ Goto("loader", "return", "loaded")
  /\ ntStatus' = "STATUS_SUCCESS"
  /\ UNCHANGED <<g_lAbortTests, g_pMasterBenchmarkThread, logVars, lines, ret>>

-----------------------------------------------------------------------------
(***************************************************************************)
(* DriverUnload, whenever the I/O manager calls it.                        *)
(***************************************************************************)
DriverUnload ==
  /\ LogThenGoto("loader", "loaded", "abort")
  /\ UNCHANGED <<g_lAbortTests, g_pMasterBenchmarkThread, logVars, ntStatus, lines>>

SignalAbort ==
  /\ Goto("loader", "abort", "wait")
  /\ g_lAbortTests' = TRUE
  /\ UNCHANGED <<g_pMasterBenchmarkThread, logVars, ntStatus, lines, ret>>

\* Mutant: the reference is dropped without waiting for the thread.
UnloadAtOnce ==
  /\ Goto("loader", "wait", "free")
  /\ g_pMasterBenchmarkThread' = FALSE
  /\ UNCHANGED <<g_lAbortTests, logVars, ntStatus, lines, ret>>

WaitForMaster ==
  /\ Goto("loader", "wait", "free")
  /\ g_pMasterBenchmarkThread => pc["master"] = "ended"
  /\ g_pMasterBenchmarkThread' = FALSE
  /\ UNCHANGED <<g_lAbortTests, logVars, ntStatus, lines, ret>>

FreeLog ==
  /\ Goto("loader", "free", "forget")
  /\ logPool' = FALSE
  /\ UNCHANGED <<g_lAbortTests, g_pMasterBenchmarkThread, g_pLogBuffer, log,
                 g_cbLogBufferOffset, g_LogMutex, kept, file, ntStatus, lines, ret>>

ForgetLog ==
  /\ LogThenGoto("loader", "forget", "unloaded")
  /\ g_pLogBuffer' = FALSE
  /\ UNCHANGED <<g_lAbortTests, g_pMasterBenchmarkThread, logPool, log,
                 g_cbLogBufferOffset, g_LogMutex, kept, file, ntStatus, lines>>

-----------------------------------------------------------------------------
(***************************************************************************)
(* RunTests on the master thread, and FlushLogToFile.                      *)
(***************************************************************************)
StartTests ==
  /\ LogThenGoto("master", "start", "tests")
  /\ UNCHANGED <<g_lAbortTests, g_pMasterBenchmarkThread, logVars, ntStatus, lines>>

\* The plan looks at the abort flag now and then, and does not come to an end
\* by itself within any fixed number of looks.
LookAtAbort ==
  /\ Goto("master", "tests", "work") /\ ~g_lAbortTests
  /\ UNCHANGED <<g_lAbortTests, g_pMasterBenchmarkThread, logVars, ntStatus,
                 lines, ret>>

\* After a look it may write lines before the next one, abort or not.
TestPlanLine ==
  /\ lines < Lines
  /\ \E to \in {"work", "tests"} : LogThenGoto("master", "work", to)
  /\ lines' = lines + 1
  /\ UNCHANGED <<g_lAbortTests, g_pMasterBenchmarkThread, logVars, ntStatus>>

\* Or nothing.
TestPlanStep ==
  /\ Goto("master", "work", "tests")
  /\ UNCHANGED <<g_lAbortTests, g_pMasterBenchmarkThread, logVars, ntStatus,
                 lines, ret>>

\* Or, when StartThreads cannot reference a worker, it asks for the abort.
TestPlanAborts ==
  /\ pc["master"] = "work"
  /\ g_lAbortTests' = TRUE
  /\ UNCHANGED <<g_pMasterBenchmarkThread, logVars, ntStatus, lines, pc, ret>>

\* The plan is done, or cut short by an abort; the verdict is logged.
TestPlanEnds ==
  /\ LogThenGoto("master", "tests", "flush")
  /\ UNCHANGED <<g_lAbortTests, g_pMasterBenchmarkThread, logVars, ntStatus, lines>>

\* Without the mutex; the file may fail to open.
FlushCheck ==
  /\ \/ Goto("master", "flush", "ended")
     \/ /\ g_pLogBuffer /\ g_cbLogBufferOffset # 0
        /\ Goto("master", "flush", "write")
  /\ UNCHANGED <<g_lAbortTests, g_pMasterBenchmarkThread, logVars, ntStatus,
                 lines, ret>>

\* Mutant: the last line is taken for the terminating zero.
FlushWriteShort ==
  /\ Goto("master", "write", "ended")
  /\ file' = file \o SubSeq(log, 1, g_cbLogBufferOffset - 1)
  /\ UNCHANGED <<g_lAbortTests, g_pMasterBenchmarkThread, g_pLogBuffer, logPool,
                 log, g_cbLogBufferOffset, g_LogMutex, kept, ntStatus, lines, ret>>

FlushWrite ==
  /\ Goto("master", "write", "ended")
  /\ file' = file \o SubSeq(log, 1, g_cbLogBufferOffset)
  /\ UNCHANGED <<g_lAbortTests, g_pMasterBenchmarkThread, g_pLogBuffer, logPool,
                 log, g_cbLogBufferOffset, g_LogMutex, kept, ntStatus, lines, ret>>

-----------------------------------------------------------------------------
DriverEntry == \/ AllocateLog \/ DetectAVX2 \/ CreateMaster \/ ReferenceMaster
               \/ ReturnSuccess

Unload == SignalAbort \/ WaitForMaster \/ FreeLog \/ ForgetLog

Loader == DriverEntry \/ Unload \/ RecordLog("loader")

FlushLogToFile == FlushCheck \/ FlushWrite

RunTests == \/ StartTests \/ LookAtAbort \/ TestPlanLine \/ TestPlanStep
            \/ TestPlanAborts \/ TestPlanEnds

Master == RunTests \/ FlushLogToFile \/ RecordLog("master")

Terminated == pc["loader"] = "unloaded" /\ UNCHANGED vars

Next == Loader \/ DriverUnload \/ Master \/ Terminated

(***************************************************************************)
(* Both threads run when they can; nobody has to unload the driver.        *)
(***************************************************************************)
Safety == Init /\ [][Next]_vars
Spec == Safety /\ WF_vars(Loader) /\ WF_vars(Master)

-----------------------------------------------------------------------------
(***************************************************************************)
(* What is claimed of the driver.                                          *)
(***************************************************************************)
LoggingPCs == {"acquire", "check", "copy", "advance", "release"}
LoaderPCs == LoggingPCs \cup {"entry", "entered", "create", "reference",
               "return", "loaded", "abort", "wait", "free", "forget", "unloaded"}
MasterPCs == LoggingPCs \cup {"none", "start", "tests", "work", "flush", "write", "ended"}

\* Where a thread is, apart from the line it may be logging.
Stage(t) == IF pc[t] \in LoggingPCs THEN ret[t] ELSE pc[t]

(***************************************************************************)
(* Every variable stays in its type.                                       *)
(***************************************************************************)
TypeOK ==
  /\ g_lAbortTests \in BOOLEAN /\ g_pMasterBenchmarkThread \in BOOLEAN
  /\ g_pLogBuffer \in BOOLEAN /\ logPool \in BOOLEAN
  /\ log \in Seq(Thread) /\ kept \in Seq(Thread) /\ file \in Seq(Thread)
  /\ g_cbLogBufferOffset \in 0 .. LogMax - 1
  /\ g_LogMutex \in Thread \cup {Nobody}
  /\ ntStatus \in {"none", "STATUS_SUCCESS"}
  /\ lines \in 0 .. Lines
  /\ pc["loader"] \in LoaderPCs /\ pc["master"] \in MasterPCs
  /\ ret \in [Thread -> LoaderPCs \cup MasterPCs]

(***************************************************************************)
(* The log holds exactly the lines that fitted, whole and in the order in  *)
(* which the mutex was taken, though DriverUnload logs while the tests do. *)
(***************************************************************************)
LogIntact ==
  /\ log = kept
  /\ g_LogMutex = Nobody => g_cbLogBufferOffset = Len(log)

(***************************************************************************)
(* The flush, which takes no mutex, writes no half-made line: what reaches *)
(* the file is how the log begins, and it has every line that was in the   *)
(* log when the master wrote its last one.                                 *)
(***************************************************************************)
FileIsLogPrefix ==
  /\ Len(file) <= Len(kept) /\ file = SubSeq(kept, 1, Len(file))
  /\ file # <<>> => \A i \in Len(file) + 1 .. Len(kept) : kept[i] # "master"

(***************************************************************************)
(* Drv.cpp:173-176: DriverUnload "waits for their graceful termination ... *)
(* before the driver is unloaded".  No thread runs the driver's code after *)
(* it has been unloaded, and none touches the log after it has been freed. *)
(***************************************************************************)
UnloadWaits ==
  /\ pc["loader"] = "unloaded" => pc["master"] \in {"none", "ended"}
  /\ \A t \in Thread : pc[t] \in {"copy", "advance", "write"} => logPool

(***************************************************************************)
(* An unload, once asked for, completes: the abort ends the tests, and     *)
(* neither the mutex nor the wait for the master keeps the driver loaded.  *)
(***************************************************************************)
UnloadCompletes == pc["loader"] = "abort" ~> pc["loader"] = "unloaded"

(***************************************************************************)
(* Why it does.  A thread waits for the log's mutex or, in DriverUnload,   *)
(* for the master; the thread it waits for is then running, and not itself *)
(* waiting.  Each step of the loader takes it further through DriverEntry  *)
(* and DriverUnload; once the abort is up, it stays up and each step of    *)
(* the master takes that one further to its end.  The hazard is a circle:  *)
(* DriverUnload logs and waits while the master logs.                      *)
(***************************************************************************)
Waiting(t) ==
  \/ pc[t] = "acquire" /\ g_LogMutex # Nobody
  \/ t = "loader" /\ pc[t] = "wait" /\ g_pMasterBenchmarkThread /\ pc["master"] # "ended"

Running(t) == pc[t] \notin {"none", "ended", "loaded", "unloaded"}

LogLeft(t) ==
  CASE pc[t] = "acquire" -> 5
    [] pc[t] = "check"   -> 4
    [] pc[t] = "copy"    -> 3
    [] pc[t] = "advance" -> 2
    [] pc[t] = "release" -> 1
    [] OTHER             -> 0

LoaderStage ==
  CASE Stage("loader") = "entry"     -> 10
    [] Stage("loader") = "entered"   -> 9
    [] Stage("loader") = "create"    -> 8
    [] Stage("loader") = "reference" -> 7
    [] Stage("loader") = "return"    -> 6
    [] Stage("loader") = "loaded"    -> 5
    [] Stage("loader") = "abort"     -> 4
    [] Stage("loader") = "wait"      -> 3
    [] Stage("loader") = "free"      -> 2
    [] Stage("loader") = "forget"    -> 1
    [] OTHER                         -> 0

LoaderLeft == 6 * LoaderStage + LogLeft("loader")

\* After its lines of the present stage, of which there are fewer each time,
\* the master goes on to the next one.
MasterStage ==
  CASE Stage("master") = "start" -> 5
    [] Stage("master") = "work"  -> 4
    [] Stage("master") = "tests" -> 3
    [] Stage("master") = "flush" -> 2
    [] Stage("master") = "write" -> 1
    [] OTHER                     -> 0

MasterLogLeft == 6 * (Lines - lines) + LogLeft("master")

MasterDescends ==
  \/ MasterStage' < MasterStage
  \/ MasterStage' = MasterStage /\ MasterLogLeft' < MasterLogLeft

LoaderAdvances ==
  /\ LoaderLeft' < LoaderLeft
  /\ g_lAbortTests => g_lAbortTests' /\ UNCHANGED <<MasterStage, MasterLogLeft>>

MasterAdvances ==
  /\ LoaderLeft' = LoaderLeft
  /\ g_lAbortTests => g_lAbortTests' /\ MasterDescends

UnloadAdvances ==
  /\ [](/\ LoaderLeft \in Nat /\ MasterStage \in Nat /\ MasterLogLeft \in Nat
        /\ \A t \in Thread :
             Waiting(t) => \E u \in Thread \ {t} : Running(u) /\ ~Waiting(u)
        /\ pc["loader"] = "wait" => g_lAbortTests)
  /\ [][LoaderAdvances \/ MasterAdvances]_vars

(***************************************************************************)
(* Drv.cpp:174-176: DriverUnload "flushes pending logs, and frees all      *)
(* allocated pool memory".                                                 *)
(***************************************************************************)
PendingLogsFlushed == pc["loader"] = "unloaded" => file = kept

-----------------------------------------------------------------------------
(***************************************************************************)
(* The inductive invariant behind TypeOK, LogIntact, FileIsLogPrefix and   *)
(* UnloadWaits.                                                            *)
(***************************************************************************)

StageInv ==
  /\ pc \in [Thread -> LoaderPCs \cup MasterPCs]
  /\ pc["loader"] \in LoggingPCs => ret["loader"] \in {"entered", "create", "abort", "unloaded"}
  /\ pc["master"] \in LoggingPCs => ret["master"] \in {"tests", "work", "flush"}

\* The mutex excludes: its holder is the one thread inside it.
MutexInv ==
  \A t \in Thread : pc[t] \in {"check", "copy", "advance", "release"} <=> g_LogMutex = t

\* The offset is behind the log only between the copy and the new offset.
LogInv ==
  /\ log = kept
  /\ \A t \in Thread :
       /\ pc[t] \in {"copy", "advance"} => Fits
       /\ pc[t] = "advance" => /\ Len(log) = g_cbLogBufferOffset + 1
                               /\ log[Len(log)] = t
  /\ (\A t \in Thread : pc[t] # "advance") => Len(log) = g_cbLogBufferOffset

\* The master flushes once, after its last line.
FileInv == (pc["master"] # "ended" => file = <<>>) /\ FileIsLogPrefix

\* The master runs only while the driver is there and can wait for it, and a
\* thread that writes or reads the log's lines has found it allocated.
UnloadInv ==
  /\ Stage("loader") \in {"entry", "entered", "create"} => pc["master"] = "none"
  /\ ~ReferenceMayFail =>
       /\ pc["master"] \notin {"none", "ended"} =>
            \/ Stage("loader") = "reference"
            \/ /\ g_pMasterBenchmarkThread
               /\ Stage("loader") \in {"return", "loaded", "abort", "wait"}
       /\ g_pLogBuffer => logPool \/ pc["loader"] = "forget"
       /\ \A t \in Thread : pc[t] \in {"copy", "advance", "write"} => g_pLogBuffer

IInv == TypeOK /\ StageInv /\ MutexInv /\ LogInv /\ FileInv /\ UnloadInv

(***************************************************************************)
(* What UnloadAdvances needs besides.                                      *)
(***************************************************************************)
WaitInv ==
  /\ pc["loader"] = "reference" \/ g_pMasterBenchmarkThread => pc["master"] # "none"
  /\ Stage("loader") \in {"entry", "entered", "create"} => ~g_lAbortTests
  /\ Stage("loader") \in {"wait", "free", "forget", "unloaded"} => g_lAbortTests

ProgressInv == IInv /\ WaitInv
=============================================================================
