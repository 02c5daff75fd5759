----------------------------- MODULE DriverProofs -----------------------------
(***************************************************************************)
(* The driver's invariants, for every capacity of the log and every number *)
(* of lines.  Each action has a lemma that it keeps IInv, the inductive    *)
(* invariant of Driver, with one step per part of IInv.  On IInv rests the *)
(* progress argument of the second half: nobody waits in a circle, and     *)
(* every step takes its thread further.  Nothing here uses fairness, so    *)
(* the theorems are about Safety.                                          *)
(***************************************************************************)
EXTENDS Driver, SequenceTheorems, TLAPS

\* Appending does not change what a sequence begins with.
LEMMA SubSeqOfAppend ==
  ASSUME NEW S, NEW s \in Seq(S), NEW e \in S, NEW k \in 0 .. Len(s)
  PROVE  SubSeq(Append(s, e), 1, k) = SubSeq(s, 1, k)
  OBVIOUS

LEMMA ExAcquireFastMutexKeeps ==
  ASSUME IInv, NEW t \in Thread, ExAcquireFastMutex(t)
  PROVE  IInv'
<1> USE LogAssumption, KernelAssumption
    DEF IInv, ExAcquireFastMutex, Goto, LogThenGoto, logVars
<1>1. TypeOK'
  BY DEF TypeOK, StageInv, LoggingPCs, LoaderPCs, MasterPCs, Thread, Nobody
<1>2. StageInv'
  BY DEF StageInv, TypeOK, LoggingPCs, LoaderPCs, MasterPCs, Thread
<1>3. MutexInv'
  BY DEF MutexInv, StageInv, LoggingPCs, Thread, Nobody
<1>4. LogInv'
  BY DEF LogInv, Fits, StageInv, LoggingPCs, Thread
<1>5. FileInv'
  BY DEF FileInv, FileIsLogPrefix, StageInv, LoggingPCs, Thread
<1>6. UnloadInv'
  BY DEF UnloadInv, Stage, StageInv, LoggingPCs, Thread
<1> QED BY <1>1, <1>2, <1>3, <1>4, <1>5, <1>6

LEMMA CheckBufferKeeps ==
  ASSUME IInv, NEW t \in Thread, CheckBuffer(t)
  PROVE  IInv'
<1> USE LogAssumption, KernelAssumption
    DEF IInv, CheckBuffer, Goto, LogThenGoto, logVars
<1>1. TypeOK'
  BY DEF TypeOK, StageInv, LoggingPCs, LoaderPCs, MasterPCs, Thread, Nobody
<1>2. StageInv'
  BY DEF StageInv, TypeOK, LoggingPCs, LoaderPCs, MasterPCs, Thread
<1>3. MutexInv'
  BY DEF MutexInv, StageInv, LoggingPCs, Thread, Nobody
<1>4. LogInv'
  BY DEF LogInv, Fits, StageInv, LoggingPCs, Thread
<1>5. FileInv'
  BY DEF FileInv, FileIsLogPrefix, StageInv, LoggingPCs, Thread
<1>6. UnloadInv'
  BY DEF UnloadInv, Stage, StageInv, LoggingPCs, Thread
<1> QED BY <1>1, <1>2, <1>3, <1>4, <1>5, <1>6

LEMMA CopyLineKeeps ==
  ASSUME IInv, NEW t \in Thread, CopyLine(t)
  PROVE  IInv'
<1> USE LogAssumption, KernelAssumption
    DEF IInv, CopyLine, Goto, LogThenGoto, logVars
<1>0. log' = Append(log, t) /\ kept' = Append(kept, t) /\ Len(log) = g_cbLogBufferOffset
  <2>1. Len(log) = g_cbLogBufferOffset
    BY DEF LogInv, MutexInv, Thread, Nobody
  <2>2. SubSeq(log, 1, Len(log)) = log
    BY SubSeqFull DEF TypeOK
  <2> QED
    BY <2>1, <2>2
<1>1. TypeOK'
  <2>1. log' \in Seq(Thread) /\ kept' \in Seq(Thread)
    BY <1>0 DEF TypeOK
  <2> QED
    BY <2>1 DEF TypeOK, StageInv, LoggingPCs, LoaderPCs, MasterPCs, Thread, Nobody
<1>2. StageInv'
  BY DEF StageInv, TypeOK, LoggingPCs, LoaderPCs, MasterPCs, Thread
<1>3. MutexInv'
  BY DEF MutexInv, StageInv, LoggingPCs, Thread, Nobody
<1>4. LogInv'
  <2>1. \A s \in Thread : pc'[s] \in {"copy", "advance"} => s = t /\ pc'[s] = "advance"
    BY DEF MutexInv, StageInv, Thread, Nobody
  <2>2. Len(log') = g_cbLogBufferOffset' + 1 /\ log'[Len(log')] = t
    BY <1>0 DEF TypeOK
  <2>3. log' = kept' /\ Fits' /\ pc'[t] = "advance"
    BY <1>0 DEF LogInv, Fits, StageInv
  <2> QED
    BY <2>1, <2>2, <2>3 DEF LogInv
<1>5. FileInv'
  <2>1. CASE t = "master"
    <3>1. file = <<>> /\ pc'["master"] # "ended"
      BY <2>1 DEF FileInv, StageInv
    <3> QED
      BY <1>0, <3>1, SubSeqEmpty DEF FileInv, FileIsLogPrefix, TypeOK
  <2>2. CASE t = "loader"
    <3>1. /\ Len(kept') = Len(kept) + 1 /\ kept'[Len(kept) + 1] = "loader"
          /\ \A i \in 1 .. Len(kept) : kept'[i] = kept[i]
      BY <1>0, <2>2 DEF TypeOK
    <3>2. SubSeq(kept', 1, Len(file)) = SubSeq(kept, 1, Len(file))
      BY <1>0, <3>1, SubSeqOfAppend DEF FileInv, FileIsLogPrefix, TypeOK
    <3> QED
      BY <2>2, <3>1, <3>2 DEF FileInv, FileIsLogPrefix, TypeOK, StageInv, Thread
  <2> QED
    BY <2>1, <2>2 DEF Thread
<1>6. UnloadInv'
  BY DEF UnloadInv, Stage, StageInv, LoggingPCs, Thread
<1> QED BY <1>1, <1>2, <1>3, <1>4, <1>5, <1>6

LEMMA AdvanceOffsetKeeps ==
  ASSUME IInv, NEW t \in Thread, AdvanceOffset(t)
  PROVE  IInv'
<1> USE LogAssumption, KernelAssumption
    DEF IInv, AdvanceOffset, Goto, LogThenGoto, logVars
<1>1. TypeOK'
  <2>1. g_cbLogBufferOffset' \in 0 .. LogMax - 1
    BY DEF TypeOK, LogInv, Fits
  <2> QED
    BY <2>1 DEF TypeOK, StageInv, LoggingPCs, LoaderPCs, MasterPCs, Thread, Nobody
<1>2. StageInv'
  BY DEF StageInv, TypeOK, LoggingPCs, LoaderPCs, MasterPCs, Thread
<1>3. MutexInv'
  BY DEF MutexInv, StageInv, LoggingPCs, Thread, Nobody
<1>4. LogInv'
  <2>1. \A s \in Thread : pc'[s] \notin {"copy", "advance"}
    BY DEF MutexInv, StageInv, Thread, Nobody
  <2>2. Len(log) = g_cbLogBufferOffset'
    BY DEF LogInv, TypeOK
  <2> QED
    BY <2>1, <2>2 DEF LogInv
<1>5. FileInv'
  BY DEF FileInv, FileIsLogPrefix, StageInv, LoggingPCs, Thread
<1>6. UnloadInv'
  BY DEF UnloadInv, Stage, StageInv, LoggingPCs, Thread
<1> QED BY <1>1, <1>2, <1>3, <1>4, <1>5, <1>6

LEMMA ExReleaseFastMutexKeeps ==
  ASSUME IInv, NEW t \in Thread, ExReleaseFastMutex(t)
  PROVE  IInv'
<1> USE LogAssumption, KernelAssumption
    DEF IInv, ExReleaseFastMutex, Goto, LogThenGoto, logVars
<1>1. TypeOK'
  BY DEF TypeOK, StageInv, LoggingPCs, LoaderPCs, MasterPCs, Thread, Nobody
<1>2. StageInv'
  BY DEF StageInv, TypeOK, LoggingPCs, LoaderPCs, MasterPCs, Thread
<1>3. MutexInv'
  BY DEF MutexInv, StageInv, LoggingPCs, Thread, Nobody
<1>4. LogInv'
  BY DEF LogInv, Fits, StageInv, LoggingPCs, Thread
<1>5. FileInv'
  BY DEF FileInv, FileIsLogPrefix, StageInv, LoggingPCs, Thread
<1>6. UnloadInv'
  BY DEF UnloadInv, Stage, StageInv, LoggingPCs, Thread
<1> QED BY <1>1, <1>2, <1>3, <1>4, <1>5, <1>6

LEMMA AllocateLogKeeps ==
  ASSUME IInv, AllocateLog
  PROVE  IInv'
<1> USE LogAssumption, KernelAssumption
    DEF IInv, AllocateLog, Goto, LogThenGoto, logVars
<1>1. TypeOK'
  BY DEF TypeOK, StageInv, LoggingPCs, LoaderPCs, MasterPCs, Thread, Nobody
<1>2. StageInv'
  BY DEF StageInv, TypeOK, LoggingPCs, LoaderPCs, MasterPCs, Thread
<1>3. MutexInv'
  BY DEF MutexInv, StageInv, LoggingPCs, Thread, Nobody
<1>4. LogInv'
  BY DEF LogInv, Fits, StageInv, LoggingPCs, Thread
<1>5. FileInv'
  BY DEF FileInv, FileIsLogPrefix, StageInv, LoggingPCs, Thread
<1>6. UnloadInv'
  BY DEF UnloadInv, Stage, StageInv, LoggingPCs, Thread
<1> QED BY <1>1, <1>2, <1>3, <1>4, <1>5, <1>6

LEMMA DetectAVX2Keeps ==
  ASSUME IInv, DetectAVX2
  PROVE  IInv'
<1> USE LogAssumption, KernelAssumption
    DEF IInv, DetectAVX2, Goto, LogThenGoto, logVars
<1>1. TypeOK'
  BY DEF TypeOK, StageInv, LoggingPCs, LoaderPCs, MasterPCs, Thread, Nobody
<1>2. StageInv'
  BY DEF StageInv, TypeOK, LoggingPCs, LoaderPCs, MasterPCs, Thread
<1>3. MutexInv'
  BY DEF MutexInv, StageInv, LoggingPCs, Thread, Nobody
<1>4. LogInv'
  BY DEF LogInv, Fits, StageInv, LoggingPCs, Thread
<1>5. FileInv'
  BY DEF FileInv, FileIsLogPrefix, StageInv, LoggingPCs, Thread
<1>6. UnloadInv'
  BY DEF UnloadInv, Stage, StageInv, LoggingPCs, Thread
<1> QED BY <1>1, <1>2, <1>3, <1>4, <1>5, <1>6

LEMMA CreateMasterKeeps ==
  ASSUME IInv, CreateMaster
  PROVE  IInv'
<1> USE LogAssumption, KernelAssumption
    DEF IInv, CreateMaster, Goto, LogThenGoto, logVars
<1>1. TypeOK'
  BY DEF TypeOK, StageInv, LoggingPCs, LoaderPCs, MasterPCs, Thread, Nobody
<1>2. StageInv'
  BY DEF StageInv, TypeOK, LoggingPCs, LoaderPCs, MasterPCs, Thread
<1>3. MutexInv'
  BY DEF MutexInv, StageInv, LoggingPCs, Thread, Nobody, UnloadInv, Stage
<1>4. LogInv'
  BY DEF LogInv, Fits, StageInv, LoggingPCs, Thread, UnloadInv, Stage
<1>5. FileInv'
  BY DEF FileInv, FileIsLogPrefix, StageInv, LoggingPCs, Thread, UnloadInv, Stage
<1>6. UnloadInv'
  BY DEF UnloadInv, Stage, StageInv, LoggingPCs, Thread
<1> QED BY <1>1, <1>2, <1>3, <1>4, <1>5, <1>6

LEMMA ReferenceMasterKeeps ==
  ASSUME IInv, ReferenceMaster
  PROVE  IInv'
<1> USE LogAssumption, KernelAssumption
    DEF IInv, ReferenceMaster, Goto, LogThenGoto, logVars
<1>1. TypeOK'
  BY DEF TypeOK, StageInv, LoggingPCs, LoaderPCs, MasterPCs, Thread, Nobody
<1>2. StageInv'
  BY DEF StageInv, TypeOK, LoggingPCs, LoaderPCs, MasterPCs, Thread
<1>3. MutexInv'
  BY DEF MutexInv, StageInv, LoggingPCs, Thread, Nobody
<1>4. LogInv'
  BY DEF LogInv, Fits, StageInv, LoggingPCs, Thread
<1>5. FileInv'
  BY DEF FileInv, FileIsLogPrefix, StageInv, LoggingPCs, Thread
<1>6. UnloadInv'
  BY DEF UnloadInv, Stage, StageInv, LoggingPCs, Thread
<1> QED BY <1>1, <1>2, <1>3, <1>4, <1>5, <1>6

LEMMA ReturnSuccessKeeps ==
  ASSUME IInv, ReturnSuccess
  PROVE  IInv'
<1> USE LogAssumption, KernelAssumption
    DEF IInv, ReturnSuccess, Goto, LogThenGoto, logVars
<1>1. TypeOK'
  BY DEF TypeOK, StageInv, LoggingPCs, LoaderPCs, MasterPCs, Thread, Nobody
<1>2. StageInv'
  BY DEF StageInv, TypeOK, LoggingPCs, LoaderPCs, MasterPCs, Thread
<1>3. MutexInv'
  BY DEF MutexInv, StageInv, LoggingPCs, Thread, Nobody
<1>4. LogInv'
  BY DEF LogInv, Fits, StageInv, LoggingPCs, Thread
<1>5. FileInv'
  BY DEF FileInv, FileIsLogPrefix, StageInv, LoggingPCs, Thread
<1>6. UnloadInv'
  BY DEF UnloadInv, Stage, StageInv, LoggingPCs, Thread
<1> QED BY <1>1, <1>2, <1>3, <1>4, <1>5, <1>6

LEMMA DriverUnloadKeeps ==
  ASSUME IInv, DriverUnload
  PROVE  IInv'
<1> USE LogAssumption, KernelAssumption
    DEF IInv, DriverUnload, Goto, LogThenGoto, logVars
<1>1. TypeOK'
  BY DEF TypeOK, StageInv, LoggingPCs, LoaderPCs, MasterPCs, Thread, Nobody
<1>2. StageInv'
  BY DEF StageInv, TypeOK, LoggingPCs, LoaderPCs, MasterPCs, Thread
<1>3. MutexInv'
  BY DEF MutexInv, StageInv, LoggingPCs, Thread, Nobody
<1>4. LogInv'
  BY DEF LogInv, Fits, StageInv, LoggingPCs, Thread
<1>5. FileInv'
  BY DEF FileInv, FileIsLogPrefix, StageInv, LoggingPCs, Thread
<1>6. UnloadInv'
  BY DEF UnloadInv, Stage, StageInv, LoggingPCs, Thread, TypeOK
<1> QED BY <1>1, <1>2, <1>3, <1>4, <1>5, <1>6

LEMMA SignalAbortKeeps ==
  ASSUME IInv, SignalAbort
  PROVE  IInv'
<1> USE LogAssumption, KernelAssumption
    DEF IInv, SignalAbort, Goto, LogThenGoto, logVars
<1>1. TypeOK'
  BY DEF TypeOK, StageInv, LoggingPCs, LoaderPCs, MasterPCs, Thread, Nobody
<1>2. StageInv'
  BY DEF StageInv, TypeOK, LoggingPCs, LoaderPCs, MasterPCs, Thread
<1>3. MutexInv'
  BY DEF MutexInv, StageInv, LoggingPCs, Thread, Nobody
<1>4. LogInv'
  BY DEF LogInv, Fits, StageInv, LoggingPCs, Thread
<1>5. FileInv'
  BY DEF FileInv, FileIsLogPrefix, StageInv, LoggingPCs, Thread
<1>6. UnloadInv'
  BY DEF UnloadInv, Stage, StageInv, LoggingPCs, Thread
<1> QED BY <1>1, <1>2, <1>3, <1>4, <1>5, <1>6

LEMMA WaitForMasterKeeps ==
  ASSUME IInv, WaitForMaster
  PROVE  IInv'
<1> USE LogAssumption, KernelAssumption
    DEF IInv, WaitForMaster, Goto, LogThenGoto, logVars
<1>1. TypeOK'
  BY DEF TypeOK, StageInv, LoggingPCs, LoaderPCs, MasterPCs, Thread, Nobody
<1>2. StageInv'
  BY DEF StageInv, TypeOK, LoggingPCs, LoaderPCs, MasterPCs, Thread
<1>3. MutexInv'
  BY DEF MutexInv, StageInv, LoggingPCs, Thread, Nobody
<1>4. LogInv'
  BY DEF LogInv, Fits, StageInv, LoggingPCs, Thread
<1>5. FileInv'
  BY DEF FileInv, FileIsLogPrefix, StageInv, LoggingPCs, Thread
<1>6. UnloadInv'
  BY DEF UnloadInv, Stage, StageInv, LoggingPCs, Thread
<1> QED BY <1>1, <1>2, <1>3, <1>4, <1>5, <1>6

LEMMA FreeLogKeeps ==
  ASSUME IInv, FreeLog
  PROVE  IInv'
<1> USE LogAssumption, KernelAssumption
    DEF IInv, FreeLog, Goto, LogThenGoto, logVars
<1>1. TypeOK'
  BY DEF TypeOK, StageInv, LoggingPCs, LoaderPCs, MasterPCs, Thread, Nobody
<1>2. StageInv'
  BY DEF StageInv, TypeOK, LoggingPCs, LoaderPCs, MasterPCs, Thread
<1>3. MutexInv'
  BY DEF MutexInv, StageInv, LoggingPCs, Thread, Nobody
<1>4. LogInv'
  BY DEF LogInv, Fits, StageInv, LoggingPCs, Thread
<1>5. FileInv'
  BY DEF FileInv, FileIsLogPrefix, StageInv, LoggingPCs, Thread
<1>6. UnloadInv'
  BY DEF UnloadInv, Stage, StageInv, LoggingPCs, Thread
<1> QED BY <1>1, <1>2, <1>3, <1>4, <1>5, <1>6

LEMMA ForgetLogKeeps ==
  ASSUME IInv, ForgetLog
  PROVE  IInv'
<1> USE LogAssumption, KernelAssumption
    DEF IInv, ForgetLog, Goto, LogThenGoto, logVars
<1>1. TypeOK'
  <2>1. /\ pc'["loader"] \in {"acquire", "unloaded"} /\ pc'["master"] = pc["master"]
        /\ ret' \in [Thread -> LoaderPCs \cup MasterPCs]
    BY DEF TypeOK, StageInv, LoaderPCs, Thread
  <2> QED
    BY <2>1 DEF TypeOK, LoggingPCs, LoaderPCs
<1>2. StageInv'
  BY DEF StageInv, TypeOK, LoggingPCs, LoaderPCs, MasterPCs, Thread
<1>3. MutexInv'
  BY DEF MutexInv, StageInv, LoggingPCs, Thread, Nobody
<1>4. LogInv'
  BY DEF LogInv, Fits, StageInv, LoggingPCs, Thread
<1>5. FileInv'
  BY DEF FileInv, FileIsLogPrefix, StageInv, LoggingPCs, Thread
<1>6. UnloadInv'
  BY DEF UnloadInv, Stage, StageInv, LoggingPCs, Thread, TypeOK
<1> QED BY <1>1, <1>2, <1>3, <1>4, <1>5, <1>6

LEMMA StartTestsKeeps ==
  ASSUME IInv, StartTests
  PROVE  IInv'
<1> USE LogAssumption, KernelAssumption
    DEF IInv, StartTests, Goto, LogThenGoto, logVars
<1>1. TypeOK'
  BY DEF TypeOK, StageInv, LoggingPCs, LoaderPCs, MasterPCs, Thread, Nobody
<1>2. StageInv'
  BY DEF StageInv, TypeOK, LoggingPCs, LoaderPCs, MasterPCs, Thread
<1>3. MutexInv'
  BY DEF MutexInv, StageInv, LoggingPCs, Thread, Nobody
<1>4. LogInv'
  BY DEF LogInv, Fits, StageInv, LoggingPCs, Thread
<1>5. FileInv'
  BY DEF FileInv, FileIsLogPrefix, StageInv, LoggingPCs, Thread
<1>6. UnloadInv'
  BY DEF UnloadInv, Stage, StageInv, LoggingPCs, Thread
<1> QED BY <1>1, <1>2, <1>3, <1>4, <1>5, <1>6

LEMMA LookAtAbortKeeps ==
  ASSUME IInv, LookAtAbort
  PROVE  IInv'
<1> USE LogAssumption, KernelAssumption
    DEF IInv, LookAtAbort, Goto, LogThenGoto, logVars
<1>1. TypeOK'
  BY DEF TypeOK, StageInv, LoggingPCs, LoaderPCs, MasterPCs, Thread, Nobody
<1>2. StageInv'
  BY DEF StageInv, TypeOK, LoggingPCs, LoaderPCs, MasterPCs, Thread
<1>3. MutexInv'
  BY DEF MutexInv, StageInv, LoggingPCs, Thread, Nobody
<1>4. LogInv'
  BY DEF LogInv, Fits, StageInv, LoggingPCs, Thread
<1>5. FileInv'
  BY DEF FileInv, FileIsLogPrefix, StageInv, LoggingPCs, Thread
<1>6. UnloadInv'
  BY DEF UnloadInv, Stage, StageInv, LoggingPCs, Thread
<1> QED BY <1>1, <1>2, <1>3, <1>4, <1>5, <1>6

LEMMA TestPlanLineKeeps ==
  ASSUME IInv, TestPlanLine
  PROVE  IInv'
<1> USE LogAssumption, KernelAssumption
    DEF IInv, TestPlanLine, Goto, LogThenGoto, logVars
<1>1. TypeOK'
  BY DEF TypeOK, StageInv, LoggingPCs, LoaderPCs, MasterPCs, Thread, Nobody
<1>2. StageInv'
  BY DEF StageInv, TypeOK, LoggingPCs, LoaderPCs, MasterPCs, Thread
<1>3. MutexInv'
  BY DEF MutexInv, StageInv, LoggingPCs, Thread, Nobody
<1>4. LogInv'
  BY DEF LogInv, Fits, StageInv, LoggingPCs, Thread
<1>5. FileInv'
  BY DEF FileInv, FileIsLogPrefix, StageInv, LoggingPCs, Thread
<1>6. UnloadInv'
  BY DEF UnloadInv, Stage, StageInv, LoggingPCs, Thread
<1> QED BY <1>1, <1>2, <1>3, <1>4, <1>5, <1>6

LEMMA TestPlanStepKeeps ==
  ASSUME IInv, TestPlanStep
  PROVE  IInv'
<1> USE LogAssumption, KernelAssumption
    DEF IInv, TestPlanStep, Goto, LogThenGoto, logVars
<1>1. TypeOK'
  BY DEF TypeOK, StageInv, LoggingPCs, LoaderPCs, MasterPCs, Thread, Nobody
<1>2. StageInv'
  BY DEF StageInv, TypeOK, LoggingPCs, LoaderPCs, MasterPCs, Thread
<1>3. MutexInv'
  BY DEF MutexInv, StageInv, LoggingPCs, Thread, Nobody
<1>4. LogInv'
  BY DEF LogInv, Fits, StageInv, LoggingPCs, Thread
<1>5. FileInv'
  BY DEF FileInv, FileIsLogPrefix, StageInv, LoggingPCs, Thread
<1>6. UnloadInv'
  BY DEF UnloadInv, Stage, StageInv, LoggingPCs, Thread
<1> QED BY <1>1, <1>2, <1>3, <1>4, <1>5, <1>6

LEMMA TestPlanAbortsKeeps ==
  ASSUME IInv, TestPlanAborts
  PROVE  IInv'
<1> USE LogAssumption, KernelAssumption
    DEF IInv, TestPlanAborts, Goto, LogThenGoto, logVars
<1>1. TypeOK'
  BY DEF TypeOK, StageInv, LoggingPCs, LoaderPCs, MasterPCs, Thread, Nobody
<1>2. StageInv'
  BY DEF StageInv, TypeOK, LoggingPCs, LoaderPCs, MasterPCs, Thread
<1>3. MutexInv'
  BY DEF MutexInv, StageInv, LoggingPCs, Thread, Nobody
<1>4. LogInv'
  BY DEF LogInv, Fits, StageInv, LoggingPCs, Thread
<1>5. FileInv'
  BY DEF FileInv, FileIsLogPrefix, StageInv, LoggingPCs, Thread
<1>6. UnloadInv'
  BY DEF UnloadInv, Stage, StageInv, LoggingPCs, Thread
<1> QED BY <1>1, <1>2, <1>3, <1>4, <1>5, <1>6

LEMMA TestPlanEndsKeeps ==
  ASSUME IInv, TestPlanEnds
  PROVE  IInv'
<1> USE LogAssumption, KernelAssumption
    DEF IInv, TestPlanEnds, Goto, LogThenGoto, logVars
<1>1. TypeOK'
  BY DEF TypeOK, StageInv, LoggingPCs, LoaderPCs, MasterPCs, Thread, Nobody
<1>2. StageInv'
  BY DEF StageInv, TypeOK, LoggingPCs, LoaderPCs, MasterPCs, Thread
<1>3. MutexInv'
  BY DEF MutexInv, StageInv, LoggingPCs, Thread, Nobody
<1>4. LogInv'
  BY DEF LogInv, Fits, StageInv, LoggingPCs, Thread
<1>5. FileInv'
  BY DEF FileInv, FileIsLogPrefix, StageInv, LoggingPCs, Thread
<1>6. UnloadInv'
  BY DEF UnloadInv, Stage, StageInv, LoggingPCs, Thread
<1> QED BY <1>1, <1>2, <1>3, <1>4, <1>5, <1>6

LEMMA FlushCheckKeeps ==
  ASSUME IInv, FlushCheck
  PROVE  IInv'
<1> USE LogAssumption, KernelAssumption
    DEF IInv, FlushCheck, Goto, LogThenGoto, logVars
<1>1. TypeOK'
  BY DEF TypeOK, StageInv, LoggingPCs, LoaderPCs, MasterPCs, Thread, Nobody
<1>2. StageInv'
  BY DEF StageInv, TypeOK, LoggingPCs, LoaderPCs, MasterPCs, Thread
<1>3. MutexInv'
  BY DEF MutexInv, StageInv, LoggingPCs, Thread, Nobody
<1>4. LogInv'
  BY DEF LogInv, Fits, StageInv, LoggingPCs, Thread
<1>5. FileInv'
  BY DEF FileInv, FileIsLogPrefix, StageInv, LoggingPCs, Thread
<1>6. UnloadInv'
  BY DEF UnloadInv, Stage, StageInv, LoggingPCs, Thread
<1> QED BY <1>1, <1>2, <1>3, <1>4, <1>5, <1>6

LEMMA FlushWriteKeeps ==
  ASSUME IInv, FlushWrite
  PROVE  IInv'
<1> USE LogAssumption, KernelAssumption
    DEF IInv, FlushWrite, Goto, LogThenGoto, logVars
<1>0. file' = SubSeq(log, 1, g_cbLogBufferOffset) /\ file' \in Seq(Thread)
  <2>1. g_cbLogBufferOffset \in 0 .. Len(log)
    BY DEF LogInv, TypeOK, Thread
  <2>2. SubSeq(log, 1, g_cbLogBufferOffset) \in Seq(Thread)
    BY <2>1 DEF TypeOK
  <2>3. file = <<>>
    BY DEF FileInv
  <2> QED
    BY <2>2, <2>3, ConcatEmptySeq
<1>1. TypeOK'
  BY <1>0 DEF TypeOK, StageInv, LoggingPCs, LoaderPCs, MasterPCs, Thread, Nobody
<1>2. StageInv'
  BY DEF StageInv, TypeOK, LoggingPCs, LoaderPCs, MasterPCs, Thread
<1>3. MutexInv'
  BY DEF MutexInv, StageInv, LoggingPCs, Thread, Nobody
<1>4. LogInv'
  BY DEF LogInv, Fits, StageInv, LoggingPCs, Thread
<1>5. FileInv'
  <2>1. Len(file') = g_cbLogBufferOffset
    BY <1>0 DEF LogInv, TypeOK, Thread
  <2>2. Len(file') <= Len(kept') /\ file' = SubSeq(kept', 1, Len(file'))
    BY <1>0, <2>1 DEF LogInv, TypeOK, Thread
  <2>3. \A i \in Len(file') + 1 .. Len(kept') : kept'[i] # "master"
    BY <2>1 DEF LogInv, TypeOK, Thread
  <2>4. pc'["master"] = "ended"
    BY DEF StageInv, Thread
  <2> QED
    BY <2>2, <2>3, <2>4 DEF FileInv, FileIsLogPrefix
<1>6. UnloadInv'
  BY DEF UnloadInv, Stage, StageInv, LoggingPCs, Thread
<1> QED BY <1>1, <1>2, <1>3, <1>4, <1>5, <1>6

-----------------------------------------------------------------------------
LEMMA InitEstablishes == Init => IInv
<1> SUFFICES ASSUME Init PROVE IInv
  OBVIOUS
<1> USE LogAssumption DEF Init, Thread
<1>1. TypeOK
  <2>1. g_cbLogBufferOffset \in 0 .. LogMax - 1 /\ lines \in 0 .. Lines
    OBVIOUS
  <2>2. log \in Seq(Thread) /\ kept \in Seq(Thread) /\ file \in Seq(Thread)
    OBVIOUS
  <2>3. ret \in [Thread -> LoaderPCs \cup MasterPCs]
    BY DEF MasterPCs
  <2>4. pc["loader"] \in LoaderPCs /\ pc["master"] \in MasterPCs
    BY DEF LoaderPCs, MasterPCs
  <2> QED
    BY <2>1, <2>2, <2>3, <2>4 DEF TypeOK
<1>2. StageInv /\ MutexInv
  BY DEF StageInv, MutexInv, LoggingPCs, LoaderPCs, MasterPCs, Nobody
<1>3. LogInv
  BY DEF LogInv
<1>4. FileInv
  BY SubSeqEmpty DEF FileInv, FileIsLogPrefix
<1>5. UnloadInv
  BY DEF UnloadInv, Stage, LoggingPCs
<1> QED BY <1>1, <1>2, <1>3, <1>4, <1>5 DEF IInv

LEMMA RecordLogKeeps ==
  ASSUME IInv, NEW t \in Thread, RecordLog(t)
  PROVE  IInv'
  BY ExAcquireFastMutexKeeps, CheckBufferKeeps, CopyLineKeeps,
     AdvanceOffsetKeeps, ExReleaseFastMutexKeeps
  DEF RecordLog

LEMMA StepKeeps == IInv /\ [Next]_vars => IInv'
<1> SUFFICES ASSUME IInv, [Next]_vars PROVE IInv'
  OBVIOUS
<1>1. CASE Loader
  <2>1. CASE DriverEntry
    BY <2>1, AllocateLogKeeps, DetectAVX2Keeps, CreateMasterKeeps,
        ReferenceMasterKeeps, ReturnSuccessKeeps
       DEF DriverEntry
  <2>2. CASE Unload
    BY <2>2, SignalAbortKeeps, WaitForMasterKeeps, FreeLogKeeps,
        ForgetLogKeeps
       DEF Unload
  <2>3. CASE RecordLog("loader")
    BY <2>3, RecordLogKeeps DEF Thread
  <2> QED BY <1>1, <2>1, <2>2, <2>3 DEF Loader
<1>2. CASE DriverUnload
  BY <1>2, DriverUnloadKeeps
<1>3. CASE Master
  <2>1. CASE RunTests
    BY <2>1, StartTestsKeeps, LookAtAbortKeeps, TestPlanLineKeeps,
        TestPlanStepKeeps, TestPlanAbortsKeeps, TestPlanEndsKeeps
       DEF RunTests
  <2>2. CASE FlushLogToFile
    BY <2>2, FlushCheckKeeps, FlushWriteKeeps DEF FlushLogToFile
  <2>3. CASE RecordLog("master")
    BY <2>3, RecordLogKeeps DEF Thread
  <2> QED BY <1>3, <2>1, <2>2, <2>3 DEF Master
<1>4. CASE UNCHANGED vars
  BY <1>4 DEF IInv, TypeOK, StageInv, MutexInv, LogInv, Fits, FileInv,
     FileIsLogPrefix, UnloadInv, Stage, vars, logVars
<1> QED BY <1>1, <1>2, <1>3, <1>4 DEF Next, Terminated

-----------------------------------------------------------------------------
(***************************************************************************)
(* IInv holds in every state of the driver.                                *)
(***************************************************************************)
THEOREM Invariance == Safety => []IInv
  BY InitEstablishes, StepKeeps, PTL DEF Safety

(***************************************************************************)
(* The variables stay in their types; in particular the offset leaves room *)
(* in the buffer for the terminating zero.                                 *)
(***************************************************************************)
THEOREM TypeCorrect == Safety => []TypeOK
<1>1. IInv => TypeOK
  BY DEF IInv
<1> QED BY <1>1, Invariance, PTL

(***************************************************************************)
(* The log holds the lines that were copied, whole and in order, though    *)
(* DriverUnload logs while the tests do.                                   *)
(***************************************************************************)
THEOREM LogStaysIntact == Safety => []LogIntact
<1>1. IInv => LogIntact
  <2> SUFFICES ASSUME IInv PROVE LogIntact
    OBVIOUS
  <2>1. log = kept
    BY DEF IInv, LogInv
  <2>2. ASSUME g_LogMutex = Nobody
        PROVE  g_cbLogBufferOffset = Len(log)
    <3>1. \A t \in Thread : pc[t] # "advance"
      BY <2>2 DEF IInv, MutexInv, Thread, Nobody
    <3> QED BY <3>1 DEF IInv, LogInv
  <2> QED BY <2>1, <2>2 DEF LogIntact
<1> QED BY <1>1, Invariance, PTL

(***************************************************************************)
(* The flush, which takes no mutex, writes whole lines only, and every     *)
(* line of the master that the log has.                                    *)
(***************************************************************************)
THEOREM FlushIsWhole == Safety => []FileIsLogPrefix
<1>1. IInv => FileIsLogPrefix
  BY DEF IInv, FileInv
<1> QED BY <1>1, Invariance, PTL

(***************************************************************************)
(* When the master can be referenced, DriverUnload waits for it, and no    *)
(* thread touches a freed log.                                             *)
(***************************************************************************)
THEOREM UnloadIsSafe == ASSUME ~ReferenceMayFail PROVE Safety => []UnloadWaits
<1>1. IInv => UnloadWaits
  <2> SUFFICES ASSUME IInv PROVE UnloadWaits
    OBVIOUS
  <2>1. pc["loader"] = "unloaded" => pc["master"] \in {"none", "ended"}
    BY DEF IInv, UnloadInv, Stage, LoggingPCs
  <2>2. ASSUME NEW t \in Thread, pc[t] \in {"copy", "advance", "write"}
        PROVE  logPool
    <3>1. g_pLogBuffer
      BY <2>2 DEF IInv, UnloadInv
    <3>2. pc["loader"] # "forget"
      BY <2>2 DEF IInv, UnloadInv, Stage, LoggingPCs, Thread
    <3> QED BY <3>1, <3>2 DEF IInv, UnloadInv
  <2> QED BY <2>1, <2>2 DEF UnloadWaits
<1> QED BY <1>1, Invariance, PTL

-----------------------------------------------------------------------------
(***************************************************************************)
(* The unload advances.  First what a step does to a thread's stage and to *)
(* its line of log, whatever the thread: a line is logged within a stage,  *)
(* and a stage ends with a line, which may be dropped, or without one.     *)
(***************************************************************************)
Stages == {"entry", "entered", "create", "reference", "return", "loaded", "abort",
           "wait", "free", "forget", "unloaded", "none", "start", "tests", "work",
           "flush", "write", "ended"}

LEMMA RecordLogDescends ==
  ASSUME IInv, NEW t \in Thread, RecordLog(t)
  PROVE  /\ Stage(t)' = Stage(t) /\ LogLeft(t)' < LogLeft(t)
         /\ \A u \in Thread : u # t => pc'[u] = pc[u]
         /\ UNCHANGED <<g_lAbortTests, g_pMasterBenchmarkThread, lines, ret>>
<1> USE DEF IInv, StageInv, Stage, LogLeft, LoggingPCs, Thread, Goto
<1>1. CASE ExAcquireFastMutex(t)
  BY <1>1 DEF ExAcquireFastMutex
<1>2. CASE CheckBuffer(t)
  BY <1>2 DEF CheckBuffer, logVars
<1>3. CASE CopyLine(t)
  BY <1>3 DEF CopyLine
<1>4. CASE AdvanceOffset(t)
  BY <1>4 DEF AdvanceOffset
<1>5. CASE ExReleaseFastMutex(t)
  BY <1>5 DEF ExReleaseFastMutex
<1> QED BY <1>1, <1>2, <1>3, <1>4, <1>5 DEF RecordLog

LEMMA GotoStage ==
  ASSUME IInv, NEW t \in Thread, NEW from \in Stages, NEW to \in Stages,
         \/ Goto(t, from, to) /\ UNCHANGED ret
         \/ LogThenGoto(t, from, to)
  PROVE  /\ Stage(t) = from /\ LogLeft(t) = 0
         /\ Stage(t)' = to /\ LogLeft(t)' \in 0 .. 5
         /\ pc'[t] \in LoggingPCs \/ LogLeft(t)' = 0
         /\ \A u \in Thread : u # t => pc'[u] = pc[u] /\ ret'[u] = ret[u]
<1>1. PICK next \in {"acquire", to} : pc[t] = from /\ pc' = [pc EXCEPT ![t] = next]
  BY DEF Goto, LogThenGoto
<1>2. /\ pc'[t] = next
      /\ \A u \in Thread : u # t => pc'[u] = pc[u] /\ ret'[u] = ret[u]
  BY <1>1 DEF IInv, StageInv, TypeOK, Thread, LogThenGoto
<1>3. next = "acquire" => ret'[t] = to
  <2>1. CASE LogThenGoto(t, from, to)
    BY <2>1 DEF LogThenGoto, IInv, TypeOK
  <2>2. CASE Goto(t, from, to)
    BY <1>2, <2>2 DEF Goto, Stages, IInv, StageInv
  <2> QED BY <2>1, <2>2
<1> QED BY <1>1, <1>2, <1>3 DEF Stage, LogLeft, Stages, LoggingPCs

-----------------------------------------------------------------------------
(***************************************************************************)
(* Nobody waits in a circle: a thread that waits for the mutex waits for   *)
(* one that is inside it, and DriverUnload holds no mutex while it waits   *)
(* for the master.                                                         *)
(***************************************************************************)
LEMMA WaitInitially == Init => WaitInv
  BY DEF Init, WaitInv, Stage, LoggingPCs, Thread

LEMMA LoaderKeepsWait ==
  ASSUME IInv, WaitInv, Loader \/ DriverUnload
  PROVE  WaitInv'
<1> USE DEF WaitInv
<1>0. "loader" \in Thread /\ "master" \in Thread
  BY DEF Thread
<1>1. CASE RecordLog("loader")
  <2>1. PICK to \in {"check", "copy", "advance", "release", ret["loader"]} :
          pc["loader"] \in LoggingPCs /\ pc' = [pc EXCEPT !["loader"] = to]
    BY <1>1 DEF RecordLog, ExAcquireFastMutex, CheckBuffer, CopyLine, AdvanceOffset,
       ExReleaseFastMutex, Goto, LoggingPCs
  <2>2. pc'["loader"] # "reference"
    BY <2>1 DEF IInv, StageInv, Thread
  <2> QED BY <1>0, <1>1, <2>2, RecordLogDescends
<1>2. CASE AllocateLog \/ DetectAVX2 \/ DriverUnload
  <2>1. PICK from \in {"entry", "entered", "loaded"}, to \in {"entered", "create", "abort"} :
          /\ LogThenGoto("loader", from, to)
          /\ from = "loaded" <=> to = "abort"
    BY <1>2 DEF AllocateLog, DetectAVX2, DriverUnload
  <2>2. from \in Stages /\ to \in Stages /\ pc'["loader"] # "reference"
    BY <2>1 DEF Stages, LogThenGoto, Goto, IInv, StageInv, Thread
  <2>3. UNCHANGED <<g_pMasterBenchmarkThread, g_lAbortTests>>
    BY <1>2 DEF AllocateLog, DetectAVX2, DriverUnload
  <2>4. Stage("loader") = from /\ Stage("loader")' = to /\ pc'["master"] = pc["master"]
    BY <1>0, <2>1, <2>2, GotoStage
  <2>5. (pc["loader"] = "reference" \/ g_pMasterBenchmarkThread => pc["master"] # "none")'
    BY <2>2, <2>3, <2>4
  <2>6. (Stage("loader") \in {"entry", "entered", "create"} => ~g_lAbortTests)'
    BY <2>1, <2>3, <2>4
  <2>7. (Stage("loader") \in {"wait", "free", "forget", "unloaded"} => g_lAbortTests)'
    BY <2>1, <2>4
  <2> QED BY <2>5, <2>6, <2>7
<1>3. CASE CreateMaster
  <2>1. pc'["loader"] \in {"reference", "return"}
    BY <1>3 DEF CreateMaster, IInv, StageInv, Thread
  <2>2. Stage("loader") = "create" /\ Stage("loader")' \in {"reference", "return"}
    BY <1>3, <2>1 DEF CreateMaster, Stage, LoggingPCs
  <2>3. pc'["loader"] = "reference" \/ pc["master"] # "none" => pc'["master"] # "none"
    BY <1>3 DEF CreateMaster, IInv, StageInv, Thread
  <2> QED BY <1>3, <2>2, <2>3 DEF CreateMaster
<1>4. CASE ReferenceMaster \/ ReturnSuccess
  <2>1. /\ pc'["loader"] \in {"return", "loaded"} /\ pc'["master"] = pc["master"]
        /\ pc["loader"] = "reference" \/ g_pMasterBenchmarkThread' = g_pMasterBenchmarkThread
        /\ g_lAbortTests' = g_lAbortTests
    BY <1>4 DEF ReferenceMaster, ReturnSuccess, Goto, IInv, StageInv, Thread
  <2>2. Stage("loader")' \in {"return", "loaded"}
    BY <2>1 DEF Stage, LoggingPCs
  <2> QED BY <2>1, <2>2
<1>5. CASE SignalAbort
  BY <1>5 DEF SignalAbort, Goto, Stage, LoggingPCs, IInv, StageInv, Thread
<1>6. CASE WaitForMaster \/ FreeLog
  BY <1>6 DEF WaitForMaster, FreeLog, Goto, Stage, LoggingPCs, IInv, StageInv, Thread
<1>7. CASE ForgetLog
  <2>1. LogThenGoto("loader", "forget", "unloaded") /\ {"forget", "unloaded"} \subseteq Stages
    BY <1>7 DEF ForgetLog, Stages
  <2>2. pc'["loader"] # "reference"
    BY <2>1 DEF LogThenGoto, Goto, IInv, StageInv, Thread
  <2>3. UNCHANGED <<g_pMasterBenchmarkThread, g_lAbortTests>>
    BY <1>7 DEF ForgetLog
  <2> QED BY <1>0, <2>1, <2>2, <2>3, GotoStage
<1> QED
  BY <1>1, <1>2, <1>3, <1>4, <1>5, <1>6, <1>7 DEF Loader, DriverEntry, Unload

LEMMA MasterKeepsWait ==
  ASSUME IInv, WaitInv, Master
  PROVE  WaitInv'
<1> USE DEF LogThenGoto, Goto, IInv, StageInv, TypeOK, Thread
<1>0. ASSUME pc["master"] # "none"
      PROVE  Stage("loader") \notin {"entry", "entered", "create"}
  BY <1>0 DEF UnloadInv
<1>1. CASE RunTests
  <2>1. /\ pc["master"] \in {"start", "work", "tests"} /\ pc'["master"] # "none"
        /\ pc'["loader"] = pc["loader"] /\ ret'["loader"] = ret["loader"]
        /\ g_pMasterBenchmarkThread' = g_pMasterBenchmarkThread
        /\ g_lAbortTests => g_lAbortTests'
    BY <1>1 DEF RunTests, StartTests, LookAtAbort, TestPlanLine, TestPlanStep,
       TestPlanAborts, TestPlanEnds
  <2>2. Stage("loader") \notin {"entry", "entered", "create"}
    BY <1>0, <2>1
  <2>3. Stage("loader")' = Stage("loader")
    BY <2>1 DEF Stage
  <2> HIDE DEF LogThenGoto, Goto, IInv, StageInv, TypeOK
  <2> QED BY <2>1, <2>2, <2>3 DEF WaitInv
<1>2. CASE FlushLogToFile
  BY <1>2 DEF FlushLogToFile, FlushCheck, FlushWrite, WaitInv, Stage
<1>3. CASE RecordLog("master")
  <2>1. pc["master"] # "none" /\ pc'["master"] # "none"
    BY <1>3 DEF RecordLog, ExAcquireFastMutex, CheckBuffer, CopyLine, AdvanceOffset,
       ExReleaseFastMutex, LoggingPCs
  <2> QED BY <1>3, <2>1, RecordLogDescends DEF WaitInv, Stage
<1> QED BY <1>1, <1>2, <1>3 DEF Master

LEMMA StepKeepsProgress == ProgressInv /\ [Next]_vars => ProgressInv'
<1> SUFFICES ASSUME IInv, WaitInv, [Next]_vars PROVE IInv' /\ WaitInv'
  BY DEF ProgressInv
<1>1. IInv'
  BY StepKeeps
<1>2. WaitInv'
  <2>1. CASE UNCHANGED vars
    BY <2>1 DEF WaitInv, Stage, vars
  <2> QED BY <2>1, LoaderKeepsWait, MasterKeepsWait DEF Next, Terminated
<1> QED BY <1>1, <1>2

(***************************************************************************)
(* ProgressInv holds in every state of the driver, whether or not the      *)
(* master could be referenced.                                             *)
(***************************************************************************)
THEOREM ProgressInvariance == Safety => []ProgressInv
<1>1. Init => ProgressInv
  BY InitEstablishes, WaitInitially DEF ProgressInv
<1> QED BY <1>1, StepKeepsProgress, PTL DEF Safety

LEMMA WaitedForRuns ==
  ASSUME ProgressInv, NEW t \in Thread, Waiting(t)
  PROVE  \E u \in Thread \ {t} : Running(u) /\ ~Waiting(u)
<1> USE DEF ProgressInv, IInv
<1>1. CASE pc[t] = "acquire" /\ g_LogMutex # Nobody
  <2>1. g_LogMutex \in Thread \ {t} /\ pc[g_LogMutex] \in {"check", "copy", "advance", "release"}
    BY <1>1 DEF TypeOK, MutexInv
  <2> QED BY <2>1 DEF Running, Waiting
<1>2. CASE t = "loader" /\ pc[t] = "wait" /\ g_pMasterBenchmarkThread /\ pc["master"] # "ended"
  <2>1. g_LogMutex # "loader" /\ (g_LogMutex = "master" => pc["master"] # "acquire")
    BY <1>2 DEF MutexInv, Thread
  <2>2. ~Waiting("master")
    BY <2>1 DEF Waiting, TypeOK, Thread
  <2>3. Running("master")
    BY <1>2 DEF Running, WaitInv, TypeOK, MasterPCs, LoggingPCs
  <2> QED BY <1>2, <2>2, <2>3 DEF Thread
<1> QED BY <1>1, <1>2 DEF Waiting

LEMMA AbortIsUp == ProgressInv /\ pc["loader"] = "wait" => g_lAbortTests
  BY DEF ProgressInv, WaitInv, Stage, LoggingPCs

-----------------------------------------------------------------------------
(***************************************************************************)
(* Every step takes its thread further.                                    *)
(***************************************************************************)
LEMMA LeftIs ==
  ASSUME IInv
  PROVE  /\ LoaderStage \in Nat /\ MasterStage \in Nat
         /\ LogLeft("loader") \in 0 .. 5 /\ LogLeft("master") \in 0 .. 5
         /\ LoaderLeft \in Nat /\ MasterLogLeft \in Nat
<1>1. LoaderStage \in Nat /\ MasterStage \in Nat
  BY DEF LoaderStage, MasterStage
<1>2. LogLeft("loader") \in 0 .. 5 /\ LogLeft("master") \in 0 .. 5
  BY DEF LogLeft
<1>3. Lines - lines \in Nat
  BY LogAssumption DEF IInv, TypeOK
<1> QED BY <1>1, <1>2, <1>3 DEF LoaderLeft, MasterLogLeft

\* Within a stage the line is brought to its end, or the stage ends.
LEMMA LoaderStepAdvances ==
  ASSUME IInv, IInv',
         \/ LoaderStage' < LoaderStage
         \/ LoaderStage' = LoaderStage /\ LogLeft("loader")' < LogLeft("loader")
  PROVE  LoaderLeft' < LoaderLeft
<1>1. /\ LoaderStage \in Nat /\ LogLeft("loader") \in 0 .. 5
      /\ LoaderStage' \in Nat /\ LogLeft("loader")' \in 0 .. 5
  BY DEF LoaderStage, LogLeft
<1> QED BY <1>1 DEF LoaderLeft

LEMMA MasterUntouched ==
  ASSUME pc'["master"] = pc["master"], ret'["master"] = ret["master"], lines' = lines
  PROVE  UNCHANGED <<MasterStage, MasterLogLeft>>
  BY DEF MasterStage, MasterLogLeft, Stage, LogLeft

LEMMA LoaderUntouched ==
  ASSUME pc'["loader"] = pc["loader"], ret'["loader"] = ret["loader"]
  PROVE  LoaderLeft' = LoaderLeft
  BY DEF LoaderLeft, LoaderStage, Stage, LogLeft

\* The loader's steps from stage to stage.
LEMMA LoaderGoes ==
  ASSUME IInv,
         \/ AllocateLog \/ DetectAVX2 \/ ReferenceMaster \/ ReturnSuccess
         \/ DriverUnload \/ SignalAbort \/ WaitForMaster \/ FreeLog \/ ForgetLog
  PROVE  /\ LoaderStage' < LoaderStage
         /\ pc'["master"] = pc["master"] /\ ret'["master"] = ret["master"]
         /\ lines' = lines /\ (g_lAbortTests => g_lAbortTests')
<1> DEFINE Goes(from, to) == \/ Goto("loader", from, to) /\ UNCHANGED ret
                            \/ LogThenGoto("loader", from, to)
<1>1. \/ Goes("entry", "entered") \/ Goes("entered", "create")
      \/ Goes("reference", "return") \/ Goes("return", "loaded")
      \/ Goes("loaded", "abort") \/ Goes("abort", "wait") \/ Goes("wait", "free")
      \/ Goes("free", "forget") \/ Goes("forget", "unloaded")
  BY DEF AllocateLog, DetectAVX2, ReferenceMaster, ReturnSuccess, DriverUnload,
     SignalAbort, WaitForMaster, FreeLog, ForgetLog
<1>2. ASSUME NEW from \in Stages, NEW to \in Stages, Goes(from, to)
      PROVE  /\ Stage("loader") = from /\ Stage("loader")' = to
             /\ pc'["master"] = pc["master"] /\ ret'["master"] = ret["master"]
  BY <1>2, GotoStage DEF Thread
<1> HIDE DEF Goes
<1>4. /\ <<Stage("loader"), Stage("loader")'>> \in
           { <<"entry", "entered">>, <<"entered", "create">>, <<"reference", "return">>,
             <<"return", "loaded">>, <<"loaded", "abort">>, <<"abort", "wait">>,
             <<"wait", "free">>, <<"free", "forget">>, <<"forget", "unloaded">> }
      /\ pc'["master"] = pc["master"] /\ ret'["master"] = ret["master"]
  BY <1>1, <1>2 DEF Stages
<1>5. LoaderStage' < LoaderStage
  BY <1>4 DEF LoaderStage
<1>6. lines' = lines /\ (g_lAbortTests => g_lAbortTests')
  <2>1. lines' = lines /\ (g_lAbortTests' = g_lAbortTests \/ g_lAbortTests' = TRUE)
    BY DEF AllocateLog, DetectAVX2, ReferenceMaster, ReturnSuccess, DriverUnload,
       SignalAbort, WaitForMaster, FreeLog, ForgetLog
  <2> QED BY <2>1
<1> QED BY <1>4, <1>5, <1>6

LEMMA LoaderAlwaysAdvances ==
  ASSUME ProgressInv, IInv', Loader \/ DriverUnload
  PROVE  LoaderAdvances
<1> USE DEF ProgressInv
<1>1. CASE RecordLog("loader")
  <2>1. /\ Stage("loader")' = Stage("loader") /\ LogLeft("loader")' < LogLeft("loader")
        /\ pc'["master"] = pc["master"] /\ ret' = ret /\ lines' = lines
        /\ g_lAbortTests' = g_lAbortTests
    BY <1>1, RecordLogDescends DEF Thread
  <2>2. LoaderStage' = LoaderStage
    BY <2>1 DEF LoaderStage
  <2> QED BY <2>1, <2>2, LoaderStepAdvances, MasterUntouched DEF LoaderAdvances
<1>2. CASE CreateMaster
  <2>1. pc["loader"] = "create" /\ pc'["loader"] \in {"reference", "return"}
    BY <1>2 DEF CreateMaster, IInv, StageInv, Thread
  <2>2. Stage("loader") = "create" /\ Stage("loader")' \in {"reference", "return"}
    BY <2>1 DEF Stage, LoggingPCs
  <2>3. LoaderStage' < LoaderStage
    BY <2>2 DEF LoaderStage
  <2>4. ~g_lAbortTests
    BY <2>2 DEF WaitInv
  <2> QED BY <2>3, <2>4, LoaderStepAdvances DEF LoaderAdvances
<1>3. CASE \/ AllocateLog \/ DetectAVX2 \/ ReferenceMaster \/ ReturnSuccess
           \/ DriverUnload \/ SignalAbort \/ WaitForMaster \/ FreeLog \/ ForgetLog
  <2>1. /\ LoaderStage' < LoaderStage
        /\ pc'["master"] = pc["master"] /\ ret'["master"] = ret["master"]
        /\ lines' = lines /\ (g_lAbortTests => g_lAbortTests')
    BY <1>3, LoaderGoes, Zenon
  <2>2. LoaderLeft' < LoaderLeft
    BY <2>1, LoaderStepAdvances, Zenon
  <2> QED BY <2>1, <2>2, MasterUntouched DEF LoaderAdvances
<1> QED BY <1>1, <1>2, <1>3 DEF Loader, DriverEntry, Unload

\* The master's steps from stage to stage.
LEMMA MasterGoes ==
  ASSUME IInv, NEW from \in Stages, NEW to \in Stages,
         \/ Goto("master", from, to) /\ UNCHANGED ret
         \/ LogThenGoto("master", from, to),
         <<from, to>> \in { <<"start", "tests">>, <<"work", "tests">>, <<"tests", "flush">>,
                           <<"flush", "ended">>, <<"flush", "write">>, <<"write", "ended">> }
  PROVE  LoaderLeft' = LoaderLeft /\ MasterDescends
<1>1. /\ Stage("master") = from /\ Stage("master")' = to
      /\ pc'["loader"] = pc["loader"] /\ ret'["loader"] = ret["loader"]
  BY GotoStage DEF Thread
<1>2. MasterStage' < MasterStage
  BY <1>1 DEF MasterStage
<1> QED BY <1>1, <1>2, LoaderUntouched DEF MasterDescends

LEMMA LineDescends ==
  ASSUME IInv, TestPlanLine
  PROVE  LoaderLeft' = LoaderLeft /\ MasterDescends
<1>1. PICK to \in {"work", "tests"} : LogThenGoto("master", "work", to)
  BY DEF TestPlanLine
<1>2. /\ Stage("master") = "work" /\ Stage("master")' = to
      /\ LogLeft("master") = 0 /\ LogLeft("master")' \in 0 .. 5
      /\ pc'["loader"] = pc["loader"] /\ ret'["loader"] = ret["loader"]
  BY <1>1, GotoStage DEF Thread, Stages
<1>3. lines' = lines + 1 /\ lines \in Int /\ Lines \in Int
  BY LogAssumption DEF TestPlanLine, IInv, TypeOK
<1>4. MasterLogLeft' < MasterLogLeft
  BY <1>2, <1>3 DEF MasterLogLeft
<1>5. MasterStage' <= MasterStage /\ MasterStage' \in Int /\ MasterStage \in Int
  BY <1>2 DEF MasterStage
<1> QED BY <1>2, <1>4, <1>5, LoaderUntouched DEF MasterDescends

LEMMA MasterAlwaysAdvances ==
  ASSUME IInv, Master
  PROVE  [MasterAdvances]_vars
<1> USE DEF MasterAdvances
<1>1. CASE RecordLog("master")
  <2>1. /\ Stage("master")' = Stage("master") /\ LogLeft("master")' < LogLeft("master")
        /\ pc'["loader"] = pc["loader"] /\ ret' = ret /\ lines' = lines
        /\ g_lAbortTests' = g_lAbortTests
    BY <1>1, RecordLogDescends DEF Thread
  <2>2. LogLeft("master") \in Int /\ LogLeft("master")' \in Int /\ lines \in Int /\ Lines \in Int
    BY LogAssumption DEF LogLeft, IInv, TypeOK
  <2>3. MasterStage' = MasterStage /\ MasterLogLeft' < MasterLogLeft
    BY <2>1, <2>2 DEF MasterStage, MasterLogLeft
  <2> QED BY <2>1, <2>3, LoaderUntouched DEF MasterDescends
<1>2. CASE StartTests
  BY <1>2, MasterGoes DEF StartTests, Stages
<1>3. CASE LookAtAbort
  BY <1>3, LoaderUntouched DEF LookAtAbort, Goto, IInv, StageInv, Thread
<1>4. CASE TestPlanLine
  BY <1>4, LineDescends DEF TestPlanLine
<1>5. CASE TestPlanStep
  BY <1>5, MasterGoes DEF TestPlanStep, Stages
<1>6. CASE TestPlanAborts
  BY <1>6, LoaderUntouched DEF TestPlanAborts, vars, IInv, TypeOK
<1>7. CASE TestPlanEnds
  BY <1>7, MasterGoes DEF TestPlanEnds, Stages
<1>8. CASE FlushCheck
  BY <1>8, MasterGoes DEF FlushCheck, Stages
<1>9. CASE FlushWrite
  BY <1>9, MasterGoes DEF FlushWrite, Stages
<1> QED
  BY <1>1, <1>2, <1>3, <1>4, <1>5, <1>6, <1>7, <1>8, <1>9
     DEF Master, RunTests, FlushLogToFile

(***************************************************************************)
(* The unload advances: for any log and any number of lines, and whether   *)
(* or not the master could be referenced, no circle of waiting threads     *)
(* keeps the driver loaded, and once the abort is up every step of both    *)
(* threads brings the end nearer.                                          *)
(***************************************************************************)
THEOREM UnloadAlwaysAdvances == Safety => UnloadAdvances
<1>1. ProgressInv =>
        /\ LoaderLeft \in Nat /\ MasterStage \in Nat /\ MasterLogLeft \in Nat
        /\ \A t \in Thread :
             Waiting(t) => \E u \in Thread \ {t} : Running(u) /\ ~Waiting(u)
        /\ pc["loader"] = "wait" => g_lAbortTests
  BY LeftIs, WaitedForRuns, AbortIsUp DEF ProgressInv
<1>2. ProgressInv /\ [Next]_vars => [LoaderAdvances \/ MasterAdvances]_vars
  <2> SUFFICES ASSUME ProgressInv, [Next]_vars
               PROVE  [LoaderAdvances \/ MasterAdvances]_vars
    OBVIOUS
  <2>1. IInv /\ IInv'
    BY StepKeeps DEF ProgressInv
  <2> QED BY <2>1, LoaderAlwaysAdvances, MasterAlwaysAdvances DEF Next, Terminated
<1> QED BY <1>1, <1>2, ProgressInvariance, PTL DEF Safety, UnloadAdvances
=============================================================================
