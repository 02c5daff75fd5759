------------------------- MODULE KmStrSearchUmProofs -------------------------
(***************************************************************************)
(* Proofs about the user-mode program, for any number of worker threads,   *)
(* any test plan and any set of values that handles may have.  HandleInv   *)
(* and the invariant of TestThreads are inductive together: the first says *)
(* that a wait is for the thread it means, so that the suite's steps are   *)
(* those of TestThreads; the second says where the suite is, so that no    *)
(* handle is forgotten.                                                    *)
(***************************************************************************)
EXTENDS KmStrSearchUm, TLAPS

TP == INSTANCE TestThreadsProofs WITH pThreads <- Referenced, UserMode <- TRUE

LEMMA TestsAssumptions == TP!CountsAssumption /\ TP!BuildAssumption
  BY TestsAssumption DEF TP!CountsAssumption, TP!BuildAssumption

\* The objects that handles stand for are different from each other.
LEMMA Objects ==
  /\ Master # Event /\ Closed # Master /\ Closed # Event
  /\ \A w \in T!Worker : Thread(w) \notin {Master, Event, Closed}
  /\ \A v, w \in T!Worker : Thread(v) = Thread(w) => v = w
<1>1. Master # Event
  BY DEF Master, Event
<1>2. Closed \notin {Master, Event} \cup { Thread(w) : w \in T!Worker }
  BY ObjectAssumption DEF T!Worker
<1>3. \A w \in T!Worker : Thread(w) # Master /\ Thread(w) # Event
  BY DEF Master, Event, Thread
<1>4. \A v, w \in T!Worker : Thread(v) = Thread(w) => v = w
  BY DEF Thread
<1> QED BY <1>1, <1>2, <1>3, <1>4

LEMMA NoHandles == NULL \notin Handle /\ Garbage \notin Handle /\ Address \notin Handle /\ NULL # Garbage
  BY HandleAssumption

\* The invariant of TestThreads keeps the loops in their range.
LEMMA Counts ==
  /\ T!ulThreadCount \in Nat /\ T!ulThreadCount <= MaxThreads
  /\ \A w : w \in T!Worker <=> w \in Nat /\ w < MaxThreads
  BY TestsAssumption DEF T!ulThreadCount, T!Worker

LEMMA Index ==
  ASSUME TP!IInv
  PROVE  /\ ulIndex \in Nat /\ ulIndex <= MaxThreads
         /\ pc \in T!Measuring => ulIndex <= T!ulThreadCount
         /\ pc = "reference" => ulIndex < T!ulThreadCount /\ ulIndex \in T!Worker
         /\ ulIndex < T!ulThreadCount => ulIndex \in T!Worker
<1>1. ulIndex \in 0 .. MaxThreads
  BY DEF TP!IInv, TP!TypeOK
<1>2. TP!ulThreadCount = T!ulThreadCount /\ TP!Measuring = T!Measuring
  BY DEF TP!Measuring, T!Measuring, TP!ulThreadCount, T!ulThreadCount
<1>3. pc \in T!Measuring => ulIndex <= T!ulThreadCount
  BY <1>2 DEF TP!IInv, TP!CounterInv
<1>4. pc \in TP!Handling => ulIndex < T!ulThreadCount
  BY <1>2, Zenon DEF TP!IInv, TP!CounterInv
<1>5. ulIndex \in Nat /\ ulIndex <= MaxThreads
  BY <1>1, TestsAssumption
<1>6. ulIndex < T!ulThreadCount => ulIndex \in T!Worker
  <2> HIDE DEF T!ulThreadCount
  <2> QED BY <1>5, Counts, TestsAssumption
<1> QED BY <1>3, <1>4, <1>5, <1>6, Zenon DEF TP!Handling

LEMMA InitHandles == Init => HandleInv
<1> SUFFICES ASSUME Init PROVE HandleInv
  OBVIOUS
<1> USE Objects, NoHandles, Counts DEF Init
<1>1. pc = "plan"
  BY DEF T!Init
<1>2. MainInv
  BY <1>1 DEF MainInv
<1>3. ManagerInv
  BY <1>1 DEF ManagerInv, T!Worker
<1>4. MainHolds /\ StarterHolds
  BY DEF MainHolds, StarterHolds
<1>5. ManagerHolds
  BY <1>1 DEF ManagerHolds, Collectable
<1> QED BY <1>2, <1>3, <1>4, <1>5 DEF HandleInv

-----------------------------------------------------------------------------
(***************************************************************************)
(* main() keeps HandleInv: it opens and closes handles of the master only. *)
(***************************************************************************)
LEMMA MainFrame ==
  ASSUME HandleInv, TP!IInv, UNCHANGED <<hThread, managerVars, suiteVars>>,
         handles' \in [Handle -> {Closed, Event, Master} \cup { Thread(w) : w \in T!Worker }],
         \A h \in Handle : handles'[h] # handles[h] => {handles[h], handles'[h]} = {Closed, Master}
  PROVE  /\ ManagerInv' /\ StarterHolds' /\ ManagerHolds'
         /\ Referenced' = Referenced
<1> USE Objects, NoHandles, Counts, Index DEF managerVars, suiteVars
<1>1. ManagerInv'
  BY DEF HandleInv, ManagerInv
<1>2. \A h \in Handle, w \in T!Worker : handles'[h] = Thread(w) <=> handles[h] = Thread(w)
  OBVIOUS
<1>3. StarterHolds'
  <2>1. CASE pc = "reference"
    BY <1>2, <2>1 DEF HandleInv, StarterHolds, Names
  <2>2. CASE pc # "reference" /\ hThread # NULL
    <3>1. ulIndex > 0 /\ ulIndex \in Nat /\ ulIndex <= MaxThreads
      BY <2>2 DEF HandleInv, ManagerInv
    <3>2. ulIndex - 1 \in T!Worker
      BY <3>1, TestsAssumption DEF T!Worker
    <3> QED BY <1>2, <2>2, <3>2 DEF HandleInv, StarterHolds, Names
  <2> QED BY <2>1, <2>2 DEF StarterHolds
<1>4. ManagerHolds'
  BY <1>2 DEF HandleInv, ManagerHolds, Collectable, Names
<1>5. Referenced' = Referenced
  BY <1>2 DEF Referenced, Names, T!Worker
<1> QED BY <1>1, <1>3, <1>4, <1>5

\* A wait on the handle of a thread returns when the thread has ended.
LEMMA WaitMaster ==
  ASSUME NEW v, Names(v, Master), KeWaitForSingleObject(v)
  PROVE  pc = "ended"
  BY Objects DEF Names, KeWaitForSingleObject, IsOpen, Signaled

LEMMA WaitWorker ==
  ASSUME NEW v, NEW w \in T!Worker, Names(v, Thread(w)), KeWaitForSingleObject(v)
  PROVE  wpc[w] = "ended"
  BY Objects DEF Names, KeWaitForSingleObject, IsOpen, Signaled

LEMMA TestsFrame ==
  ASSUME Referenced' = Referenced, UNCHANGED suiteVars
  PROVE  UNCHANGED T!vars
  BY DEF suiteVars, T!vars, T!manager, T!measure, T!memory, T!progress, T!outcome, T!workers

LEMMA MainKeeps ==
  ASSUME HandleInv, TP!IInv, Main
  PROVE  HandleInv' /\ UNCHANGED T!vars
<1> DEFINE Object == {Closed, Event, Master} \cup { Thread(w) : w \in T!Worker }
           OpensMaster(h) == h \in Handle /\ handles[h] = Closed
                             /\ handles' = [handles EXCEPT ![h] = Master]
           ClosesMaster(h) == h \in Handle /\ handles[h] = Master
                              /\ handles' = [handles EXCEPT ![h] = Closed]
<1>0. handles \in [Handle -> Object]
  BY DEF HandleInv, ManagerInv
<1>1. UNCHANGED <<hThread, managerVars, suiteVars>>
  BY DEF Main, CreateMaster, ReferenceMaster, CloseMaster, WaitForMaster,
     DereferenceMaster, Exit
<1>2. ASSUME \/ UNCHANGED handles
             \/ \E h \in Handle : OpensMaster(h)
             \/ \E h \in Handle : ClosesMaster(h)
      PROVE  ManagerInv' /\ StarterHolds' /\ ManagerHolds' /\ Referenced' = Referenced
  <2>1. handles' \in [Handle -> Object]
    BY <1>0, <1>2
  <2>2. \A h \in Handle : handles'[h] # handles[h] => {handles[h], handles'[h]} = {Closed, Master}
    BY <1>0, <1>2
  <2> QED BY <1>1, <2>1, <2>2, MainFrame
<1>3. /\ UNCHANGED handles \/ (\E h \in Handle : OpensMaster(h))
                           \/ \E h \in Handle : ClosesMaster(h)
      /\ MainInv' /\ MainHolds'
  <2> USE <1>0, <1>1, Objects, NoHandles
      DEF HandleInv, MainInv, MainHolds, MainGoto, Names, suiteVars
  <2>1. CASE CreateMaster
    <3>1. CASE UNCHANGED handles
      BY <2>1, <3>1 DEF CreateMaster, Opens
    <3>2. CASE ~UNCHANGED handles
      <4>1. PICK h \in Handle : OpensMaster(h) /\ hMaster' = h /\ mainPc = "create"
                                /\ mainPc' = "reference"
        BY <2>1, <3>2 DEF CreateMaster, Opens
      <4>2. g_pMasterBenchmarkThread' = NULL /\ hMaster = NULL
        BY <2>1, <4>1 DEF CreateMaster
      <4> QED BY <4>1, <4>2
    <3> QED BY <3>1, <3>2
  <2>2. CASE ReferenceMaster
    <3>1. PICK h \in Handle : OpensMaster(h) /\ g_pMasterBenchmarkThread' = h
      BY <2>2 DEF ReferenceMaster, Opens
    <3>2. hMaster' = hMaster /\ Names(hMaster, Master) /\ g_pMasterBenchmarkThread = NULL
      BY <2>2 DEF ReferenceMaster
    <3>3. h # hMaster /\ h # NULL /\ mainPc' = "close" /\ hMaster # NULL
      BY <2>2, <3>1, <3>2 DEF ReferenceMaster
    <3>4. \A x \in Handle : handles'[x] = Master <=> x = h \/ handles[x] = Master
      BY <3>1
    <3>5. MainHolds'
      BY <3>1, <3>2, <3>3, <3>4
    <3> QED BY <3>1, <3>2, <3>3, <3>5
  <2>3. CASE CloseMaster
    <3>1. ClosesMaster(hMaster)
      BY <2>3 DEF CloseMaster, CloseHandle, IsOpen
    <3>2. g_pMasterBenchmarkThread # NULL /\ g_pMasterBenchmarkThread # hMaster
          /\ mainPc' = "wait" /\ hMaster' = NULL
          /\ g_pMasterBenchmarkThread' = g_pMasterBenchmarkThread
      BY <2>3 DEF CloseMaster
    <3> QED BY <3>1, <3>2
  <2>4. CASE WaitForMaster
    BY <2>4, WaitMaster DEF WaitForMaster
  <2>5. CASE DereferenceMaster
    <3>1. ClosesMaster(g_pMasterBenchmarkThread)
      BY <2>5 DEF DereferenceMaster, CloseHandle, IsOpen
    <3>2. hMaster = NULL /\ mainPc' = "exit" /\ hMaster' = NULL
          /\ g_pMasterBenchmarkThread' = NULL /\ pc = "ended"
      BY <2>5 DEF DereferenceMaster
    <3> QED BY <3>1, <3>2
  <2>6. CASE Exit
    BY <2>6 DEF Exit
  <2> QED BY <2>1, <2>2, <2>3, <2>4, <2>5, <2>6 DEF Main
<1>4. ManagerInv' /\ StarterHolds' /\ ManagerHolds' /\ Referenced' = Referenced
  BY <1>2, <1>3
<1>5. UNCHANGED T!vars
  BY <1>1, <1>4, TestsFrame
<1> QED BY <1>3, <1>4, <1>5 DEF HandleInv

-----------------------------------------------------------------------------
(***************************************************************************)
(* The steps of RunTests and of the workers keep HandleInv and are steps   *)
(* of TestThreads.                                                         *)
(***************************************************************************)
LEMMA SuiteFrame ==
  ASSUME HandleInv, UNCHANGED mainVars, pc # "ended" \/ pc' = pc,
         \A h \in Handle : handles'[h] = Master <=> handles[h] = Master
  PROVE  MainInv' /\ MainHolds'
<1> USE DEF HandleInv, mainVars
<1>1. MainInv'
  BY DEF MainInv
<1>2. MainHolds'
  BY DEF MainHolds, Names
<1> QED BY <1>1, <1>2

\* What TestThreads' invariant says of the references.
LEMMA References ==
  ASSUME TP!IInv
  PROVE  \A w \in T!Worker : Referenced[w] =>
           pc \in T!Measuring /\ w < T!ulThreadCount /\ (pc = "join" => w >= ulIndex)
<1>1. /\ TP!ulThreadCount = T!ulThreadCount /\ TP!Measuring = T!Measuring
      /\ TP!Worker = T!Worker
  BY DEF TP!Measuring, T!Measuring, TP!ulThreadCount, T!ulThreadCount, TP!Worker, T!Worker
<1> QED BY <1>1 DEF TP!IInv, TP!ThreadInv

LEMMA RunEngineKeeps ==
  ASSUME HandleInv, TP!IInv, RunEngine
  PROVE  HandleInv' /\ T!RunEngine
<1> USE Objects, NoHandles, Counts
<1>1. /\ pc = "engine" /\ pc' = "spawn" /\ ulIndex' = 0 /\ hThread = NULL /\ hThread' = NULL
      /\ pThreads' = [w \in T!Worker |-> Garbage]
      /\ UNCHANGED mainVars
  BY DEF RunEngine, Goto, HandleInv, ManagerInv
<1>2. \A w \in T!Worker : ~Collectable(w)
  BY <1>1 DEF Collectable
<1>3. \/ UNCHANGED handles
      \/ \E h \in Handle : handles[h] = Closed /\ handles' = [handles EXCEPT ![h] = Event]
  BY DEF RunEngine, Opens
<1>4. handles' \in [Handle -> {Closed, Event, Master} \cup { Thread(w) : w \in T!Worker }]
  BY <1>3 DEF HandleInv, ManagerInv
<1>5. ManagerInv'
  BY <1>1, <1>4 DEF ManagerInv
<1>6. \A h \in Handle, w \in T!Worker : handles'[h] # Thread(w)
  <2>1. \A h \in Handle, w \in T!Worker : handles[h] # Thread(w)
    BY <1>1, <1>2 DEF HandleInv, ManagerHolds
  <2> QED BY <1>3, <2>1 DEF HandleInv, ManagerInv
<1>7. StarterHolds' /\ ManagerHolds'
  <2>1. \A w \in T!Worker : ~Collectable(w)'
    BY <1>1 DEF Collectable
  <2> QED BY <1>1, <1>6, <2>1 DEF StarterHolds, ManagerHolds
<1>8. MainInv' /\ MainHolds'
  <2>1. \A h \in Handle : handles'[h] = Master <=> handles[h] = Master
    BY <1>3 DEF HandleInv, ManagerInv
  <2> QED BY <1>1, <2>1, SuiteFrame
<1>9. Referenced' = Referenced
  <2>1. \A w \in 0 .. MaxThreads - 1 : ~Names(pThreads[w], Thread(w))
    BY <1>1, References DEF T!Measuring, Referenced, T!Worker
  <2>2. \A w \in 0 .. MaxThreads - 1 : ~Names(pThreads[w], Thread(w))'
    BY <1>1 DEF Names, T!Worker
  <2> QED BY <2>1, <2>2 DEF Names, Referenced
<1>10. T!RunEngine
  BY <1>9 DEF RunEngine, Goto, T!RunEngine, T!Goto, T!memory, T!progress, T!outcome, T!workers
<1> QED BY <1>5, <1>7, <1>8, <1>10 DEF HandleInv

LEMMA PsCreateSystemThreadKeeps ==
  ASSUME HandleInv, TP!IInv, PsCreateSystemThread
  PROVE  HandleInv' /\ T!PsCreateSystemThread
<1> USE Objects, NoHandles, Counts
<1>1. /\ pc = "spawn" /\ hThread = NULL /\ UNCHANGED mainVars
      /\ ulIndex \in Nat /\ ulIndex \in T!Worker
      /\ ulIndex < T!ulThreadCount
  <2>1. pc = "spawn" /\ hThread = NULL /\ UNCHANGED mainVars /\ ulIndex < T!ulThreadCount
    BY DEF PsCreateSystemThread
  <2> QED BY <2>1, Index
<1>2. /\ pThreads \in [T!Worker -> Handle \cup {NULL, Garbage}]
      /\ handles \in [Handle -> {Closed, Event, Master} \cup { Thread(w) : w \in T!Worker }]
      /\ \A w \in T!Worker : w >= ulIndex => pThreads[w] = Garbage
      /\ pThreads[ulIndex] = Garbage
  BY <1>1 DEF HandleInv, ManagerInv
<1>3. \A w \in T!Worker : Collectable(w) <=> w < ulIndex
  BY <1>1 DEF Collectable
<1>4. CASE pc' = "reference"
  <2>1. PICK h \in Handle : /\ handles[h] = Closed /\ hThread' = h
                            /\ handles' = [handles EXCEPT ![h] = Thread(ulIndex)]
    BY <1>1, <1>4 DEF PsCreateSystemThread, Opens
  <2>2. pThreads' = pThreads /\ ulIndex' = ulIndex
    BY <1>1, <1>4 DEF PsCreateSystemThread
  <2>3. \A w \in T!Worker : Collectable(w)' <=> w < ulIndex
    BY <1>4, <2>2 DEF Collectable
  <2>4. ManagerInv'
    BY <1>2, <1>4, <2>1, <2>2, <1>1 DEF ManagerInv
  <2>5. StarterHolds'
    BY <1>2, <1>4, <2>1, <2>2 DEF StarterHolds, Names
  <2>6. \A w \in T!Worker : w < ulIndex /\ pThreads[w] # NULL =>
          pThreads[w] \in Handle /\ handles[pThreads[w]] = Thread(w)
    BY <1>3 DEF HandleInv, ManagerHolds, Names
  <2>7. \A w \in T!Worker, x \in Handle : handles[x] = Thread(w) =>
          w < ulIndex /\ x = pThreads[w]
    BY <1>1, <1>3 DEF HandleInv, ManagerHolds
  <2>8. ManagerHolds'
    <3>1. ASSUME NEW w \in T!Worker, w < ulIndex, pThreads[w] # NULL
          PROVE  pThreads[w] # h /\ handles'[pThreads[w]] = Thread(w)
      BY <1>2, <2>1, <2>6, <3>1
    <3>2. ASSUME NEW w \in T!Worker, NEW x \in Handle, handles'[x] = Thread(w)
          PROVE  x = h \/ (w < ulIndex /\ x = pThreads[w])
      BY <1>2, <2>1, <2>7, <3>2
    <3> QED BY <2>1, <2>2, <2>3, <2>6, <3>1, <3>2 DEF ManagerHolds, Names
  <2>9. MainInv' /\ MainHolds'
    <3>1. \A x \in Handle : handles'[x] = Master <=> handles[x] = Master
      BY <1>1, <1>2, <2>1
    <3> QED BY <1>1, <3>1, SuiteFrame
  <2>10. Referenced' = Referenced
    <3>1. ASSUME NEW w \in T!Worker
          PROVE  Names(pThreads[w], Thread(w))' <=> Names(pThreads[w], Thread(w))
      <4>1. CASE pThreads[w] = h
        BY <1>1, <1>2, <2>1, <2>2, <4>1 DEF Names
      <4>2. CASE pThreads[w] # h
        BY <1>2, <2>1, <2>2, <4>2 DEF Names
      <4> QED BY <4>1, <4>2
    <3> QED BY <3>1 DEF Names, Referenced, T!Worker
  <2>11. T!PsCreateSystemThread
    BY <1>4, <2>10 DEF PsCreateSystemThread, T!PsCreateSystemThread, T!measure, T!memory,
       T!progress, T!outcome
  <2> QED BY <2>4, <2>5, <2>8, <2>9, <2>11 DEF HandleInv
<1>5. CASE pc' # "reference"
  <2>1. /\ pThreads' = [pThreads EXCEPT ![ulIndex] = NULL] /\ ulIndex' = ulIndex + 1
        /\ UNCHANGED <<handles, hThread, pc, wpc, localOps>>
    BY <1>5 DEF PsCreateSystemThread
  <2>2. \A w \in T!Worker : Collectable(w)' <=> w < ulIndex + 1
    BY <1>1, <2>1 DEF Collectable
  <2>3. ManagerInv'
    <3>1. pThreads' \in [T!Worker -> Handle \cup {NULL, Garbage}]
      BY <1>2, <2>1
    <3>2. \A w \in T!Worker : w >= ulIndex + 1 => pThreads'[w] = Garbage
      BY <1>1, <1>2, <2>1
    <3> QED BY <1>1, <1>2, <2>1, <3>1, <3>2 DEF ManagerInv
  <2>4. StarterHolds'
    BY <1>1, <2>1 DEF StarterHolds
  <2>5. ManagerHolds'
    <3>1. ASSUME NEW w \in T!Worker, Collectable(w)', pThreads'[w] # NULL
          PROVE  w # ulIndex /\ Collectable(w) /\ pThreads'[w] = pThreads[w]
      BY <1>1, <1>2, <1>3, <2>1, <2>2, <3>1
    <3>2. ASSUME NEW w \in T!Worker, Collectable(w), pThreads[w] # NULL
          PROVE  Collectable(w)' /\ pThreads'[w] = pThreads[w]
      BY <1>1, <1>2, <1>3, <2>1, <2>2, <3>2
    <3> QED BY <1>1, <2>1, <3>1, <3>2 DEF HandleInv, ManagerHolds, Names
  <2>6. MainInv' /\ MainHolds'
    BY <1>1, <2>1, SuiteFrame
  <2>7. Referenced' = [Referenced EXCEPT ![ulIndex] = FALSE]
    BY <1>1, <1>2, <2>1 DEF Referenced, Names, T!Worker
  <2>8. T!PsCreateSystemThread
    BY <1>1, <1>5, <2>1, <2>7 DEF PsCreateSystemThread, T!PsCreateSystemThread, T!measure,
       T!memory, T!progress, T!outcome
  <2> QED BY <2>3, <2>4, <2>5, <2>6, <2>8 DEF HandleInv
<1> QED BY <1>4, <1>5

LEMMA ObReferenceObjectByHandleKeeps ==
  ASSUME HandleInv, TP!IInv, ObReferenceObjectByHandle
  PROVE  HandleInv' /\ T!ObReferenceObjectByHandle
<1> USE Objects, NoHandles, Counts
<1>1. /\ pc = "reference" /\ pc' = "spawn" /\ hThread' = hThread /\ UNCHANGED mainVars
      /\ ulIndex' = ulIndex + 1
  BY DEF ObReferenceObjectByHandle, Goto
<1>2. /\ ulIndex \in Nat /\ ulIndex \in T!Worker
      /\ hThread \in Handle /\ handles[hThread] = Thread(ulIndex)
  BY <1>1, Index DEF HandleInv, ManagerInv, StarterHolds, Names
<1>3. /\ pThreads \in [T!Worker -> Handle \cup {NULL, Garbage}]
      /\ handles \in [Handle -> {Closed, Event, Master} \cup { Thread(w) : w \in T!Worker }]
      /\ \A w \in T!Worker : w >= ulIndex => pThreads[w] = Garbage
  BY <1>1 DEF HandleInv, ManagerInv
<1>4. PICK h \in Handle : /\ handles[h] = Closed
                          /\ handles' = [handles EXCEPT ![h] = Thread(ulIndex)]
                          /\ pThreads' = [pThreads EXCEPT ![ulIndex] = h]
  BY <1>2 DEF ObReferenceObjectByHandle, Opens
<1>5. \A w \in T!Worker : /\ Collectable(w) <=> w < ulIndex
                          /\ Collectable(w)' <=> w < ulIndex + 1
  BY <1>1 DEF Collectable
<1>6. ManagerInv'
  <2>1. pThreads' \in [T!Worker -> Handle \cup {NULL, Garbage}]
    BY <1>3, <1>4
  <2>2. handles' \in [Handle -> {Closed, Event, Master} \cup { Thread(w) : w \in T!Worker }]
    BY <1>2, <1>3, <1>4
  <2>3. \A w \in T!Worker : w >= ulIndex + 1 => pThreads'[w] = Garbage
    BY <1>2, <1>3, <1>4
  <2>4. ulIndex + 1 > 0
    BY <1>2
  <2> QED BY <1>1, <2>1, <2>2, <2>3, <2>4 DEF ManagerInv
<1>7. h # hThread /\ handles'[h] = Thread(ulIndex) /\ pThreads'[ulIndex] = h
  BY <1>2, <1>3, <1>4
<1>8. StarterHolds'
  <2>1. (ulIndex + 1) - 1 = ulIndex
    BY <1>2
  <2>2. handles'[hThread] = Thread(ulIndex)
    BY <1>2, <1>3, <1>4, <1>7
  <2> QED BY <1>1, <1>2, <2>1, <2>2 DEF StarterHolds, Names
<1>9. \A w \in T!Worker : w < ulIndex + 1 => w < ulIndex \/ w = ulIndex
  BY <1>2
<1>10. ManagerHolds'
  <2>1. ASSUME NEW w \in T!Worker, Collectable(w)', pThreads'[w] # NULL
        PROVE  Names(pThreads[w], Thread(w))' /\ pThreads'[w] # hThread
    <3>1. CASE w = ulIndex
      BY <1>4, <1>7, <3>1 DEF Names
    <3>2. CASE w # ulIndex
      <4>1. Collectable(w) /\ pThreads'[w] = pThreads[w]
        BY <1>3, <1>4, <1>5, <1>9, <2>1, <3>2
      <4>2. pThreads[w] \in Handle /\ handles[pThreads[w]] = Thread(w) /\ pThreads[w] # hThread
        BY <2>1, <4>1 DEF HandleInv, ManagerHolds, Names
      <4> QED BY <1>3, <1>4, <4>1, <4>2 DEF Names
    <3> QED BY <3>1, <3>2
  <2>2. ASSUME NEW w \in T!Worker, NEW x \in Handle, handles'[x] = Thread(w)
        PROVE  x = hThread \/ (Collectable(w)' /\ x = pThreads'[w])
    <3>1. CASE x = h
      <4>1. w = ulIndex
        BY <1>2, <1>7, <2>2, <3>1
      <4>2. Collectable(w)'
        BY <1>2, <1>5, <4>1
      <4> QED BY <1>7, <3>1, <4>1, <4>2
    <3>2. CASE x # h
      <4>1. handles[x] = Thread(w)
        BY <1>3, <1>4, <2>2, <3>2
      <4>2. x = hThread \/ (Collectable(w) /\ x = pThreads[w])
        BY <4>1 DEF HandleInv, ManagerHolds
      <4>3. Collectable(w) => Collectable(w)' /\ pThreads'[w] = pThreads[w]
        BY <1>2, <1>3, <1>4, <1>5
      <4> QED BY <4>2, <4>3
    <3> QED BY <3>1, <3>2
  <2> QED BY <1>1, <2>1, <2>2 DEF ManagerHolds
<1>11. MainInv' /\ MainHolds'
  <2>1. \A x \in Handle : handles'[x] = Master <=> handles[x] = Master
    BY <1>2, <1>3, <1>4
  <2> QED BY <1>1, <2>1, SuiteFrame
<1>12. Referenced' = [Referenced EXCEPT ![ulIndex] = TRUE]
  <2>1. pThreads'[ulIndex] \in Handle /\ handles'[pThreads'[ulIndex]] = Thread(ulIndex)
    BY <1>4, <1>7
  <2>2. ASSUME NEW w \in T!Worker, w # ulIndex
        PROVE  Names(pThreads[w], Thread(w))' <=> Names(pThreads[w], Thread(w))
    BY <1>2, <1>3, <1>4, <2>2 DEF Names
  <2> QED BY <1>2, <1>4, <1>7, <2>1, <2>2 DEF Names, Referenced, T!Worker
<1>13. T!ObReferenceObjectByHandle
  BY <1>12 DEF ObReferenceObjectByHandle, Goto, T!ObReferenceObjectByHandle, T!measure,
     T!memory, T!progress, T!outcome, T!workers
<1> QED BY <1>6, <1>8, <1>10, <1>11, <1>13 DEF HandleInv

LEMMA CloseThreadHandleKeeps ==
  ASSUME HandleInv, TP!IInv, CloseThreadHandle
  PROVE  HandleInv' /\ UNCHANGED T!vars
<1> USE Objects, NoHandles, Counts
<1>1. /\ pc = "spawn" /\ hThread # NULL /\ hThread' = NULL
      /\ UNCHANGED <<mainVars, managerVars, suiteVars>>
  BY DEF CloseThreadHandle
<1>2. pc' = pc /\ ulIndex' = ulIndex /\ pThreads' = pThreads
  BY <1>1 DEF managerVars, suiteVars
<1>3. /\ pThreads \in [T!Worker -> Handle \cup {NULL, Garbage}]
      /\ handles \in [Handle -> {Closed, Event, Master} \cup { Thread(w) : w \in T!Worker }]
      /\ ulIndex > 0 /\ ulIndex \in Nat /\ ulIndex <= MaxThreads
  BY <1>1, Index DEF HandleInv, ManagerInv
<1>4. PICK v \in T!Worker : v = ulIndex - 1 /\ v < ulIndex
  BY <1>3, TestsAssumption DEF T!Worker
<1>5. hThread \in Handle /\ handles[hThread] = Thread(v)
  BY <1>1, <1>4 DEF HandleInv, StarterHolds, Names
<1>6. handles' = [handles EXCEPT ![hThread] = Closed]
  BY <1>4, <1>5 DEF CloseThreadHandle, CloseHandle, IsOpen
<1>7. \A w \in T!Worker : /\ Collectable(w) <=> w < ulIndex
                          /\ Collectable(w)' <=> w < ulIndex
  BY <1>1, <1>2 DEF Collectable
<1>8. ManagerInv'
  <2>1. handles' \in [Handle -> {Closed, Event, Master} \cup { Thread(w) : w \in T!Worker }]
    BY <1>3, <1>5, <1>6
  <2> QED BY <1>1, <1>2, <2>1 DEF HandleInv, ManagerInv
<1>9. StarterHolds'
  BY <1>1 DEF StarterHolds
<1>10. ManagerHolds'
  <2>1. ASSUME NEW w \in T!Worker, Collectable(w)', pThreads[w] # NULL
        PROVE  pThreads[w] \in Handle /\ handles'[pThreads[w]] = Thread(w)
    <3>1. pThreads[w] \in Handle /\ handles[pThreads[w]] = Thread(w) /\ pThreads[w] # hThread
      BY <1>7, <2>1 DEF HandleInv, ManagerHolds, Names
    <3> QED BY <1>3, <1>6, <3>1
  <2>2. ASSUME NEW w \in T!Worker, NEW x \in Handle, handles'[x] = Thread(w)
        PROVE  Collectable(w)' /\ x = pThreads[w]
    <3>1. x # hThread /\ handles[x] = Thread(w)
      BY <1>3, <1>5, <1>6, <2>2
    <3> QED BY <1>7, <3>1 DEF HandleInv, ManagerHolds
  <2> QED BY <1>1, <1>2, <2>1, <2>2 DEF ManagerHolds, Names
<1>11. MainInv' /\ MainHolds'
  <2>1. \A x \in Handle : handles'[x] = Master <=> handles[x] = Master
    BY <1>3, <1>4, <1>5, <1>6
  <2> QED BY <1>1, <1>2, <2>1, SuiteFrame
<1>12. Referenced' = Referenced
  <2>1. ASSUME NEW w \in T!Worker
        PROVE  Names(pThreads[w], Thread(w))' <=> Names(pThreads[w], Thread(w))
    <3>1. CASE pThreads[w] = hThread
      <4>1. handles'[hThread] = Closed
        BY <1>3, <1>5, <1>6
      <4>2. w # v
        BY <1>1, <1>4, <1>7, <3>1 DEF HandleInv, ManagerHolds
      <4> QED BY <1>2, <1>4, <1>5, <3>1, <4>1, <4>2 DEF Names
    <3>2. CASE pThreads[w] # hThread
      BY <1>2, <1>3, <1>5, <1>6, <3>2 DEF Names
    <3> QED BY <3>1, <3>2
  <2> QED BY <2>1 DEF Names, Referenced, T!Worker
<1>13. UNCHANGED T!vars
  BY <1>1, <1>12, TestsFrame
<1> QED BY <1>8, <1>9, <1>10, <1>11, <1>13 DEF HandleInv

LEMMA StartTogetherKeeps ==
  ASSUME HandleInv, TP!IInv, StartTogether
  PROVE  HandleInv' /\ T!StartTogether
<1> USE Objects, NoHandles, Counts
<1>1. /\ pc = "spawn" /\ pc' = "started" /\ ulIndex = T!ulThreadCount
      /\ hThread = NULL /\ UNCHANGED <<mainVars, handles, hThread, pThreads, ulIndex>>
  BY DEF StartTogether, Goto, managerVars
<1>2. \A w \in T!Worker : Collectable(w)' <=> Collectable(w)
  BY <1>1 DEF Collectable, T!ulThreadCount
<1>3. ManagerInv' /\ StarterHolds'
  BY <1>1 DEF HandleInv, ManagerInv, StarterHolds
<1>4. ManagerHolds'
  BY <1>1, <1>2 DEF HandleInv, ManagerHolds, Names
<1>5. MainInv' /\ MainHolds'
  BY <1>1, SuiteFrame
<1>6. Referenced' = Referenced
  BY <1>1 DEF Referenced, Names
<1>7. T!KeSetEvent
  BY DEF StartTogether, T!KeSetEvent, TP!IInv, TP!TypeOK
<1>8. T!StartTogether
  BY <1>6, <1>7 DEF StartTogether, Goto, T!StartTogether, T!Goto, T!measure, T!memory,
     T!progress, T!outcome, T!workers
<1> QED BY <1>3, <1>4, <1>5, <1>8 DEF HandleInv

LEMMA WaitForThreadKeeps ==
  ASSUME HandleInv, TP!IInv, WaitForThread
  PROVE  HandleInv' /\ T!WaitForThread
<1> USE Objects, NoHandles, Counts
<1>1. /\ pc = "join" /\ pc' = "join" /\ ulIndex < T!ulThreadCount /\ ulIndex' = ulIndex + 1
      /\ hThread = NULL /\ hThread' = NULL /\ UNCHANGED <<mainVars, pThreads, wpc>>
  BY DEF WaitForThread, HandleInv, ManagerInv, managerVars
<1>2. ulIndex \in Nat /\ ulIndex \in T!Worker
  BY <1>1, Index
<1>3. /\ pThreads \in [T!Worker -> Handle \cup {NULL, Garbage}]
      /\ handles \in [Handle -> {Closed, Event, Master} \cup { Thread(w) : w \in T!Worker }]
  BY DEF HandleInv, ManagerInv
<1>4. /\ \A w \in T!Worker : Collectable(w)' => Collectable(w) /\ w # ulIndex
      /\ \A w \in T!Worker : Collectable(w) /\ w # ulIndex => Collectable(w)'
      /\ Collectable(ulIndex)
  <2>1. \A w \in T!Worker : /\ Collectable(w) <=> w >= ulIndex /\ w < T!ulThreadCount
                            /\ Collectable(w)' <=> w >= ulIndex + 1 /\ w < T!ulThreadCount
    <3>1. \A w \in T!Worker : /\ Collectable(w) <=> w \in ulIndex .. T!ulThreadCount - 1
                              /\ Collectable(w)' <=> w \in ulIndex + 1 .. T!ulThreadCount - 1
      BY <1>1 DEF Collectable, T!ulThreadCount
    <3> HIDE DEF T!ulThreadCount
    <3> QED BY <1>2, <3>1
  <2> HIDE DEF T!ulThreadCount
  <2> QED BY <1>1, <1>2, <2>1
<1>5. \A w \in T!Worker, x \in Handle : handles[x] = Thread(w) => Collectable(w) /\ x = pThreads[w]
  BY <1>1 DEF HandleInv, ManagerHolds
<1>6. \A w \in T!Worker : Collectable(w) /\ pThreads[w] # NULL =>
        pThreads[w] \in Handle /\ handles[pThreads[w]] = Thread(w)
  BY DEF HandleInv, ManagerHolds, Names
<1> DEFINE Collected ==
             /\ pThreads[ulIndex] # NULL => wpc[ulIndex] = "ended"
             /\ handles' \in [Handle -> {Closed, Event, Master} \cup { Thread(w) : w \in T!Worker }]
             /\ \A x \in Handle : handles'[x] = Master <=> handles[x] = Master
             /\ \A w \in T!Worker, x \in Handle :
                  handles'[x] = Thread(w) <=> handles[x] = Thread(w) /\ w # ulIndex
<1>7. ASSUME pThreads[ulIndex] # NULL PROVE Collected
  <2>1. pThreads[ulIndex] \in Handle /\ handles[pThreads[ulIndex]] = Thread(ulIndex)
    BY <1>2, <1>4, <1>6, <1>7
  <2>2. wpc[ulIndex] = "ended"
    BY <1>2, <1>7, <2>1, WaitWorker DEF WaitForThread, Names
  <2>3. handles' = [handles EXCEPT ![pThreads[ulIndex]] = Closed]
    BY <1>2, <1>7, <2>1 DEF WaitForThread, CloseHandle, IsOpen
  <2>4. handles' \in [Handle -> {Closed, Event, Master} \cup { Thread(w) : w \in T!Worker }]
    BY <1>3, <2>1, <2>3
  <2>5. \A x \in Handle : handles'[x] = Master <=> handles[x] = Master
    BY <1>2, <1>3, <2>1, <2>3
  <2>6. \A w \in T!Worker, x \in Handle :
          handles'[x] = Thread(w) <=> handles[x] = Thread(w) /\ w # ulIndex
    <3>1. ASSUME NEW w \in T!Worker, NEW x \in Handle, x = pThreads[ulIndex]
          PROVE  handles'[x] # Thread(w) /\ (handles[x] = Thread(w) => w = ulIndex)
      BY <1>2, <1>3, <2>1, <2>3, <3>1
    <3>2. ASSUME NEW w \in T!Worker, NEW x \in Handle, x # pThreads[ulIndex]
          PROVE  handles'[x] = handles[x] /\ (handles[x] = Thread(w) => w # ulIndex)
      BY <1>2, <1>3, <1>5, <2>1, <2>3, <3>2
    <3> QED BY <3>1, <3>2
  <2> QED BY <2>2, <2>4, <2>5, <2>6
<1>8. ASSUME pThreads[ulIndex] = NULL PROVE Collected
  <2>1. handles' = handles
    BY <1>8 DEF WaitForThread
  <2>2. \A w \in T!Worker, x \in Handle : handles[x] = Thread(w) => w # ulIndex
    BY <1>5, <1>8
  <2> QED BY <1>3, <1>8, <2>1, <2>2
<1>9. Collected
  BY <1>7, <1>8
<1>10. ManagerInv' /\ StarterHolds'
  BY <1>1, <1>3, <1>9 DEF ManagerInv, StarterHolds
<1>11. ManagerHolds'
  <2>1. ASSUME NEW w \in T!Worker, Collectable(w)', pThreads[w] # NULL
        PROVE  pThreads[w] \in Handle /\ handles'[pThreads[w]] = Thread(w)
    BY <1>4, <1>6, <1>9, <2>1
  <2>2. ASSUME NEW w \in T!Worker, NEW x \in Handle, handles'[x] = Thread(w)
        PROVE  Collectable(w)' /\ x = pThreads[w]
    BY <1>4, <1>5, <1>9, <2>2
  <2> QED BY <1>1, <2>1, <2>2 DEF ManagerHolds, Names
<1>12. MainInv' /\ MainHolds'
  BY <1>1, <1>9, SuiteFrame
<1>13. Referenced' = [Referenced EXCEPT ![ulIndex] = FALSE]
  <2>1. \A w \in T!Worker : Names(pThreads[w], Thread(w))' <=>
                              Names(pThreads[w], Thread(w)) /\ w # ulIndex
    BY <1>1, <1>9 DEF Names
  <2> QED BY <1>2, <2>1 DEF Names, Referenced, T!Worker
<1>14. Referenced[ulIndex] => wpc[ulIndex] = "ended"
  BY <1>2, <1>9 DEF Referenced, Names, T!Worker
<1>15. T!WaitForThread
  BY <1>13, <1>14 DEF WaitForThread, T!WaitForThread, T!measure, T!memory, T!progress,
     T!outcome, T!workers
<1> QED BY <1>10, <1>11, <1>12, <1>15 DEF HandleInv

LEMMA FreeManagerKeeps ==
  ASSUME HandleInv, TP!IInv, FreeManager
  PROVE  HandleInv' /\ T!FreeManager
<1> USE Objects, NoHandles, Counts
<1>1. /\ pc = "join" /\ pc' = "report" /\ ulIndex = T!ulThreadCount /\ hThread = NULL
      /\ hThread' = NULL /\ UNCHANGED <<mainVars, handles>>
      /\ pThreads' = [w \in T!Worker |-> Garbage]
  BY DEF FreeManager, Goto, HandleInv, ManagerInv
<1>2. \A w \in T!Worker : ~Collectable(w) /\ ~Collectable(w)'
  <2>1. \A w \in T!Worker : Collectable(w) => w \in T!ulThreadCount .. T!ulThreadCount - 1
    BY <1>1 DEF Collectable
  <2>2. \A w \in T!Worker : ~Collectable(w)'
    BY <1>1 DEF Collectable
  <2> HIDE DEF T!ulThreadCount
  <2> QED BY <2>1, <2>2
<1>3. ManagerInv' /\ StarterHolds'
  BY <1>1 DEF HandleInv, ManagerInv, StarterHolds
<1>4. ManagerHolds'
  BY <1>1, <1>2 DEF HandleInv, ManagerHolds
<1>5. MainInv' /\ MainHolds'
  BY <1>1, SuiteFrame
<1>6. Referenced' = Referenced
  <2>1. \A w \in T!Worker : ~Names(pThreads[w], Thread(w))
    <3>1. \A w \in T!Worker : Referenced[w] => w < ulIndex /\ w >= ulIndex
      BY <1>1, References
    <3>2. \A w \in T!Worker : ~Referenced[w]
      <4> HIDE DEF T!ulThreadCount
      <4> QED BY <1>1, <3>1
    <3> QED BY <3>2 DEF Referenced, T!Worker
  <2>2. \A w \in T!Worker : ~Names(pThreads[w], Thread(w))'
    BY <1>1 DEF Names
  <2> QED BY <2>1, <2>2 DEF Names, Referenced, T!Worker
<1>7. T!FreeManager
  BY <1>6 DEF FreeManager, Goto, T!FreeManager, T!Goto, T!measure, T!memory, T!progress,
     T!outcome, T!workers
<1> QED BY <1>3, <1>4, <1>5, <1>7 DEF HandleInv

\* The steps that have to do with no handle leave HandleInv alone.
LEMMA HandleFrame ==
  ASSUME HandleInv, UNCHANGED <<mainVars, handles, hThread, managerVars>>,
         pc # "ended" \/ pc' = pc,
         pc' \notin {"abort", "release", "collect"},
         pc' \in {"spawn", "reference"} \/ pc \in {"spawn", "reference"} =>
           pc' = pc /\ ulIndex' = ulIndex,
         \A w \in T!Worker : Collectable(w)' <=> Collectable(w)
  PROVE  HandleInv' /\ Referenced' = Referenced
<1>1. ManagerInv' /\ StarterHolds'
  BY DEF HandleInv, ManagerInv, StarterHolds, Names, managerVars
<1>2. ManagerHolds'
  BY DEF HandleInv, ManagerHolds, Names, managerVars
<1>3. MainInv' /\ MainHolds'
  BY SuiteFrame
<1>4. Referenced' = Referenced
  BY DEF Referenced, Names, managerVars
<1> QED BY <1>1, <1>2, <1>3, <1>4 DEF HandleInv

LEMMA WithoutHandlesKeeps ==
  ASSUME HandleInv, TP!IInv, WithoutHandles
  PROVE  HandleInv' /\ T!RunTests
<1> DEFINE Plan == {"plan", "tests", "config", "buffers", "engine", "report", "verdict", "ended"}
<1>1. UNCHANGED <<mainVars, handles, hThread, managerVars>>
  BY DEF WithoutHandles
<1>2. \/ pc \in Plan \ {"ended"} /\ pc' \in Plan
      \/ <<pc, pc'>> \in {<<"started", "clock">>, <<"clock", "grace">>}
      \/ pc = "grace" /\ pc' = "join" /\ ulIndex' = 0
  <2>1. CASE \/ T!RunEngineTestPlan \/ T!RunCorrectnessTest \/ T!TestsDone
             \/ T!NextConfig \/ T!SkipConfig
    BY <2>1 DEF T!RunEngineTestPlan, T!RunCorrectnessTest, T!TestsDone, T!NextConfig,
       T!SkipConfig, T!Goto
  <2>2. CASE \/ T!NextSuite \/ T!FreeBuffers \/ T!ReportVerdict \/ T!SuiteReturns
             \/ T!EngineReturnsZero \/ T!EngineReturns
    BY <2>2 DEF T!NextSuite, T!FreeBuffers, T!ReportVerdict, T!SuiteReturns,
       T!EngineReturnsZero, T!EngineReturns, T!Goto
  <2>3. CASE T!SetStartFlag \/ T!StartClock \/ T!SetStopFlag
    BY <2>3 DEF T!SetStartFlag, T!StartClock, T!SetStopFlag, T!Goto
  <2> QED BY <2>1, <2>2, <2>3 DEF WithoutHandles
<1>3. \A w \in T!Worker : Collectable(w)' <=> Collectable(w)
  <2>1. CASE pc \in Plan /\ pc' \in Plan
    BY <2>1 DEF Collectable
  <2>2. CASE <<pc, pc'>> \in {<<"started", "clock">>, <<"clock", "grace">>}
    BY <2>2 DEF Collectable, T!ulThreadCount
  <2>3. CASE pc = "grace" /\ pc' = "join" /\ ulIndex' = 0
    <3>1. \A w \in T!Worker : /\ Collectable(w) <=> w < T!ulThreadCount
                              /\ Collectable(w)' <=> w \in 0 .. T!ulThreadCount - 1
      BY <2>3 DEF Collectable, T!ulThreadCount
    <3> HIDE DEF T!ulThreadCount
    <3> QED BY <3>1, Counts
  <2> QED BY <1>2, <2>1, <2>2, <2>3
<1>4. HandleInv'
  BY <1>1, <1>2, <1>3, HandleFrame
<1>5. T!RunTests
  BY DEF WithoutHandles, T!RunTests, T!StopAndWaitThreads
<1> QED BY <1>4, <1>5

LEMMA SearchWorkerKeeps ==
  ASSUME HandleInv, NEW w \in T!Worker, SearchWorkerT(w)
  PROVE  HandleInv' /\ T!SearchWorkerT(w)
<1>1. UNCHANGED <<mainVars, handles, hThread, managerVars>>
  BY DEF SearchWorkerT
<1>2. pc' = pc /\ ulIndex' = ulIndex
  BY DEF SearchWorkerT, AwaitEvent, T!Spin, T!SearchLoop, T!AddOps, T!WorkerShared
<1>3. \A v \in T!Worker : Collectable(v)' <=> Collectable(v)
  BY <1>2 DEF Collectable, T!ulThreadCount
<1>4. HandleInv' /\ Referenced' = Referenced
  BY <1>1, <1>2, <1>3, HandleFrame DEF HandleInv, ManagerInv
<1>5. AwaitEvent(w) => T!AwaitEvent(w)
  BY <1>4 DEF AwaitEvent, T!AwaitEvent, T!WGoto, T!WorkerShared, T!manager, T!memory,
     T!progress, T!outcome
<1> QED BY <1>4, <1>5 DEF SearchWorkerT, T!SearchWorkerT

-----------------------------------------------------------------------------
(***************************************************************************)
(* Every step of the program keeps HandleInv and is one of TestThreads, or *)
(* none.                                                                   *)
(***************************************************************************)
LEMMA StepHolds ==
  ASSUME HandleInv, TP!IInv, [Next]_vars
  PROVE  HandleInv' /\ [T!Next]_(T!vars)
<1>1. CASE Main
  BY <1>1, MainKeeps
<1>2. CASE MasterStep
  <2>1. CASE RunEngine
    BY <2>1, RunEngineKeeps, Zenon DEF T!Next, T!RunTests
  <2>2. CASE PsCreateSystemThread
    BY <2>2, PsCreateSystemThreadKeeps, Zenon DEF T!Next, T!RunTests, T!StartThreads
  <2>3. CASE ObReferenceObjectByHandle
    BY <2>3, ObReferenceObjectByHandleKeeps, Zenon DEF T!Next, T!RunTests, T!StartThreads
  <2>4. CASE CloseThreadHandle
    BY <2>4, CloseThreadHandleKeeps, Zenon
  <2>5. CASE StartTogether
    BY <2>5, StartTogetherKeeps, Zenon DEF T!Next, T!RunTests, T!StartThreads
  <2>6. CASE WaitForThread
    BY <2>6, WaitForThreadKeeps, Zenon DEF T!Next, T!RunTests, T!StopAndWaitThreads
  <2>7. CASE FreeManager
    BY <2>7, FreeManagerKeeps, Zenon DEF T!Next, T!RunTests
  <2>8. CASE WithoutHandles
    BY <2>8, WithoutHandlesKeeps, Zenon DEF T!Next
  <2> QED
    BY <1>2, <2>1, <2>2, <2>3, <2>4, <2>5, <2>6, <2>7, <2>8, Zenon DEF MasterStep, RunTests
<1>3. CASE \E w \in T!Worker : WorkerStep(w)
  <2>1. PICK w \in T!Worker : SearchWorkerT(w)
    BY <1>3, Zenon DEF WorkerStep
  <2>2. HandleInv' /\ T!SearchWorkerT(w)
    BY <2>1, SearchWorkerKeeps
  <2> QED BY <2>2, Zenon DEF T!Next
<1>4. CASE UNCHANGED vars
  <2>1. UNCHANGED <<mainVars, handles, hThread, managerVars, suiteVars>>
    BY <1>4 DEF vars
  <2>2. pc' = pc /\ ulIndex' = ulIndex
    BY <2>1 DEF suiteVars
  <2>3. \A w \in T!Worker : Collectable(w)' <=> Collectable(w)
    BY <2>2 DEF Collectable, T!ulThreadCount
  <2>4. HandleInv' /\ Referenced' = Referenced
    BY <2>1, <2>2, <2>3, HandleFrame DEF HandleInv, ManagerInv
  <2> QED BY <2>1, <2>4, TestsFrame
<1> QED BY <1>1, <1>2, <1>3, <1>4, Zenon DEF Next, Terminated


(***************************************************************************)
(* TestThreads as its proofs see it is TestThreads as this module sees it. *)
(***************************************************************************)
LEMMA SameInit == T!Init => TP!Init
  BY DEF T!Init, TP!Init, T!Worker, TP!Worker

LEMMA SameStep == [T!Next]_(T!vars) => [TP!Next]_(TP!vars)
  BY DEF T!Next, TP!Next, T!vars, TP!vars,
     T!manager, TP!manager, T!measure, TP!measure, T!memory, TP!memory,
     T!progress, TP!progress, T!outcome, TP!outcome, T!workers, TP!workers,
     T!Worker, TP!Worker, T!ulThreadCount, TP!ulThreadCount, T!Goto, TP!Goto,
     T!Abort, TP!Abort, T!RunTests, TP!RunTests,
     T!StartThreads, TP!StartThreads, T!StopAndWaitThreads, TP!StopAndWaitThreads,
     T!RunEngineTestPlan, TP!RunEngineTestPlan,
     T!RunCorrectnessTest, TP!RunCorrectnessTest, T!TestsDone, TP!TestsDone,
     T!NextConfig, TP!NextConfig, T!SkipConfig, TP!SkipConfig,
     T!NextSuite, TP!NextSuite, T!FreeBuffers, TP!FreeBuffers,
     T!ReportVerdict, TP!ReportVerdict, T!SuiteReturns, TP!SuiteReturns,
     T!EngineReturnsZero, TP!EngineReturnsZero, T!RunEngine, TP!RunEngine,
     T!PsCreateSystemThread, TP!PsCreateSystemThread,
     T!ObReferenceObjectByHandle, TP!ObReferenceObjectByHandle,
     T!AbortTests, TP!AbortTests, T!KeSetEvent, TP!KeSetEvent,
     T!ReleaseThreads, TP!ReleaseThreads, T!CollectUnreferenced, TP!CollectUnreferenced,
     T!StartTogether, TP!StartTogether, T!SetStartFlag, TP!SetStartFlag,
     T!StartClock, TP!StartClock, T!SetStopFlag, TP!SetStopFlag,
     T!WaitForThread, TP!WaitForThread, T!FreeManager, TP!FreeManager,
     T!EngineReturns, TP!EngineReturns, T!SearchWorkerT, TP!SearchWorkerT,
     T!WorkerShared, TP!WorkerShared, T!WGoto, TP!WGoto,
     T!AwaitEvent, TP!AwaitEvent, T!Spin, TP!Spin, T!SearchLoop, TP!SearchLoop,
     T!AddOps, TP!AddOps, T!Terminated, TP!Terminated

LEMMA BothHold == Safety => [](HandleInv /\ TP!IInv)
<1>1. Init => HandleInv /\ TP!IInv
  <2>1. Init => TP!Init
    BY SameInit DEF Init
  <2> QED BY <2>1, InitHandles, TestsAssumptions, TP!InitEstablishes
<1>2. HandleInv /\ TP!IInv /\ [Next]_vars => (HandleInv /\ TP!IInv)'
  <2>1. TP!IInv /\ [TP!Next]_(TP!vars) => TP!IInv'
    BY TestsAssumptions, TP!StepKeeps
  <2> QED BY <2>1, StepHolds, SameStep, Zenon
<1> QED BY <1>1, <1>2, PTL DEF Safety

(***************************************************************************)
(* HandleInv holds in every state of the program.                          *)
(***************************************************************************)
THEOREM Invariance == Safety => []HandleInv
  BY BothHold, PTL

(***************************************************************************)
(* The user-mode build implements TestThreads: though a thread is waited   *)
(* for by the value of a handle that may have been given out before, what  *)
(* the program does to the suite's variables are steps of TestThreads, and *)
(* no worker outlives its measurement.                                     *)
(***************************************************************************)
THEOREM Refinement == Safety => ImplementsTests
<1>1. Init => T!Init
  BY DEF Init
<1>2. HandleInv /\ TP!IInv /\ [Next]_vars => [T!Next]_(T!vars)
  BY StepHolds, Zenon
<1> QED BY <1>1, <1>2, BothHold, PTL DEF Safety, ImplementsTests, T!Safety

-----------------------------------------------------------------------------
\* What is held, one variable at a time.
LEMMA HeldIs ==
  ASSUME NEW x
  PROVE  x \in Held <=>
           \/ hMaster # NULL /\ x = <<"hMaster", hMaster, Master>>
           \/ /\ g_pMasterBenchmarkThread # NULL
              /\ x = <<"g_pMasterBenchmarkThread", g_pMasterBenchmarkThread, Master>>
           \/ /\ hThread # NULL
              /\ x = <<"hThread", hThread, Thread(IF pc = "reference" THEN ulIndex ELSE ulIndex - 1)>>
           \/ \E w \in T!Worker : /\ Collectable(w) /\ pThreads[w] # NULL
                                  /\ x = <<"pThreads", pThreads[w], Thread(w)>>
  BY DEF Held

LEMMA HandlesAgree ==
  ASSUME HandleInv, TP!IInv
  PROVE  HandlesSound
<1> DEFINE Started == Thread(IF pc = "reference" THEN ulIndex ELSE ulIndex - 1)
<1> USE NoHandles
<1>1. Started # Master /\ \A w \in T!Worker : Thread(w) # Master
  BY DEF Thread, Master
<1>2. /\ hMaster # NULL => Names(hMaster, Master)
      /\ g_pMasterBenchmarkThread # NULL =>
           Names(g_pMasterBenchmarkThread, Master) /\ g_pMasterBenchmarkThread # hMaster
      /\ hThread # NULL => Names(hThread, Started)
      /\ \A w \in T!Worker : Collectable(w) /\ pThreads[w] # NULL =>
           Names(pThreads[w], Thread(w)) /\ pThreads[w] # hThread
  BY DEF HandleInv, MainHolds, StarterHolds, ManagerHolds
<1> HIDE DEF Started
<1>3. ASSUME NEW x
      PROVE  x \in Held <=>
               \/ hMaster # NULL /\ x = <<"hMaster", hMaster, Master>>
               \/ /\ g_pMasterBenchmarkThread # NULL
                  /\ x = <<"g_pMasterBenchmarkThread", g_pMasterBenchmarkThread, Master>>
               \/ hThread # NULL /\ x = <<"hThread", hThread, Started>>
               \/ \E w \in T!Worker : /\ Collectable(w) /\ pThreads[w] # NULL
                                      /\ x = <<"pThreads", pThreads[w], Thread(w)>>
  BY HeldIs DEF Started
<1>4. \A x \in Held : Names(x[2], x[3])
  BY <1>2, <1>3
<1>5. ASSUME NEW x \in Held, NEW y \in Held, x[2] = y[2]
      PROVE  x = y
  <2>1. x[3] = y[3]
    BY <1>4, <1>5 DEF Names
  <2>2. CASE x[3] = Master
    <3>1. ASSUME NEW z \in Held, z[3] = Master
          PROVE  \/ hMaster # NULL /\ z = <<"hMaster", hMaster, Master>>
                 \/ /\ g_pMasterBenchmarkThread # NULL
                    /\ z = <<"g_pMasterBenchmarkThread", g_pMasterBenchmarkThread, Master>>
      BY <1>1, <1>3, <3>1
    <3>2. ASSUME NEW z \in Held, z[3] = Master
          PROVE  \/ hMaster # NULL /\ z[2] = hMaster /\ z = <<"hMaster", hMaster, Master>>
                 \/ /\ g_pMasterBenchmarkThread # NULL /\ z[2] = g_pMasterBenchmarkThread
                    /\ z = <<"g_pMasterBenchmarkThread", g_pMasterBenchmarkThread, Master>>
      BY <3>1, <3>2
    <3>3. x[3] = Master /\ y[3] = Master
      BY <2>1, <2>2
    <3> QED BY <1>2, <1>5, <3>2, <3>3, Zenon
  <2>3. CASE x[3] # Master
    <3>1. ASSUME NEW z \in Held, z[3] # Master
          PROVE  \/ hThread # NULL /\ z = <<"hThread", hThread, Started>>
                 \/ \E w \in T!Worker : /\ Collectable(w) /\ pThreads[w] # NULL
                                        /\ z = <<"pThreads", pThreads[w], Thread(w)>>
      BY <1>3, <3>1
    <3>2. \A v, w \in T!Worker : Thread(v) = Thread(w) => v = w
      BY Objects
    <3> QED BY <1>2, <1>5, <2>1, <2>3, <3>1, <3>2
  <2> QED BY <2>2, <2>3
<1>6. ASSUME NEW h \in Handle, handles[h] \notin {Closed, Event}
      PROVE  \E x \in Held : x[2] = h
  <2>1. CASE handles[h] = Master
    <3>1. h \in {hMaster, g_pMasterBenchmarkThread}
      BY <2>1 DEF HandleInv, MainHolds
    <3>2. CASE h = hMaster
      <4>1. <<"hMaster", hMaster, Master>> \in Held
        BY <1>3, <3>2
      <4> QED BY <3>2, <4>1
    <3>3. CASE h = g_pMasterBenchmarkThread
      <4>1. <<"g_pMasterBenchmarkThread", g_pMasterBenchmarkThread, Master>> \in Held
        BY <1>3, <3>3
      <4> QED BY <3>3, <4>1
    <3> QED BY <3>1, <3>2, <3>3
  <2>2. CASE \E w \in T!Worker : handles[h] = Thread(w)
    <3>1. PICK w \in T!Worker : h = hThread \/ (Collectable(w) /\ h = pThreads[w])
      BY <2>2 DEF HandleInv, ManagerHolds
    <3>2. CASE h = hThread
      <4>1. <<"hThread", hThread, Started>> \in Held
        BY <1>3, <3>2
      <4> QED BY <3>2, <4>1
    <3>3. CASE Collectable(w) /\ h = pThreads[w]
      <4>1. <<"pThreads", pThreads[w], Thread(w)>> \in Held
        BY <1>3, <3>3
      <4> QED BY <3>3, <4>1
    <3> QED BY <3>1, <3>2, <3>3
  <2>3. handles[h] = Master \/ \E w \in T!Worker : handles[h] = Thread(w)
    BY <1>6 DEF HandleInv, ManagerInv
  <2> QED BY <2>1, <2>2, <2>3
<1> QED BY <1>4, <1>5, <1>6 DEF HandlesSound

(***************************************************************************)
(* The handle table and the program's variables agree in every state, for  *)
(* any number of threads and however handle values are given out again.    *)
(***************************************************************************)
THEOREM HandlesAreSound == Safety => []HandlesSound
  BY HandlesAgree, BothHold, PTL

(***************************************************************************)
(* main returns only when the tests have ended with everything given back, *)
(* apart from the handles of start events.                                 *)
(***************************************************************************)
THEOREM ReturnsLast == Safety => []ExitsAfterTests
<1>1. ASSUME HandleInv, TP!IInv PROVE ExitsAfterTests
  <2> SUFFICES ASSUME mainPc \in {"exit", "exited"}
               PROVE  /\ pc = "ended" /\ T!AllReturned
                      /\ \A h \in Handle : handles[h] = Closed \/ handles[h] = Event
    BY DEF ExitsAfterTests
  <2>1. pc = "ended" /\ hMaster = NULL /\ g_pMasterBenchmarkThread = NULL
    BY <1>1 DEF HandleInv, MainInv
  <2>2. T!AllReturned
    <3>1. TP!Worker = T!Worker /\ TP!Measuring = T!Measuring /\ TP!Handling \subseteq T!Measuring
      BY DEF TP!Worker, T!Worker, TP!Measuring, T!Measuring, TP!Handling
    <3>2. \A w \in T!Worker : T!Running(w) <=> TP!Running(w)
      BY DEF T!Running, TP!Running
    <3>3. pc \notin T!Measuring => \A w \in T!Worker : ~Referenced[w] /\ ~T!Running(w)
      BY <1>1, <3>1, <3>2 DEF TP!IInv, TP!ThreadInv
    <3>4. pc = "ended" => buffers = {} /\ ~Search /\ ~pMgr
      BY <1>1 DEF TP!IInv, TP!MemoryInv, TP!Measuring
    <3> QED BY <2>1, <3>3, <3>4 DEF T!AllReturned, T!Measuring
  <2>3. ASSUME NEW h \in Handle PROVE handles[h] = Closed \/ handles[h] = Event
    <3>1. hThread = NULL /\ \A w \in T!Worker : ~Collectable(w)
      BY <1>1, <2>1 DEF HandleInv, ManagerInv, Collectable
    <3>2. handles[h] # Master
      BY <1>1, <2>1, NoHandles DEF HandleInv, MainHolds
    <3>3. \A w \in T!Worker : handles[h] # Thread(w)
      BY <1>1, <3>1, NoHandles DEF HandleInv, ManagerHolds
    <3> QED BY <1>1, <3>2, <3>3 DEF HandleInv, ManagerInv
  <2> QED BY <2>1, <2>2, <2>3
<1> QED BY <1>1, BothHold, PTL

(***************************************************************************)
(* No count is lost on handles either: each worker is waited for by a      *)
(* handle that is still its own before the total is read.                  *)
(***************************************************************************)
THEOREM NoCountIsLost == Safety => []T!TotalIsComplete
<1>1. TP!TotalIsComplete => T!TotalIsComplete
  BY DEF TP!TotalIsComplete, T!TotalIsComplete, TP!Sum, T!Sum, TP!MapThenSumSet,
     T!MapThenSumSet, TP!MapThenFoldSet, T!MapThenFoldSet, TP!Worker, T!Worker,
     TP!Running, T!Running
<1>2. Safety => TP!Safety
  BY Refinement, SameInit, SameStep, PTL DEF ImplementsTests, T!Safety, TP!Safety
<1>3. Safety => []TP!TotalIsComplete
  BY <1>2, TestsAssumptions, TP!NoCountIsLost
<1> QED BY <1>1, <1>3, PTL

(***************************************************************************)
(* The tests advance on handles too: the master never waits for a handle   *)
(* whose thread cannot end, and every step of anybody leaves less to do or *)
(* nothing undone.                                                         *)
(***************************************************************************)
THEOREM TestsAlwaysAdvance == Safety => T!TestsAdvance
<1>1. TP!TestsAdvance => T!TestsAdvance
  BY DEF T!TestsAdvance, TP!TestsAdvance, T!vars, TP!vars, T!manager, TP!manager,
     T!measure, TP!measure, T!memory, TP!memory, T!progress, TP!progress,
     T!outcome, TP!outcome, T!workers, TP!workers, T!Worker, TP!Worker,
     T!ulThreadCount, TP!ulThreadCount, T!Measuring, TP!Measuring, T!Handling, TP!Handling,
     T!Loops, TP!Loops, T!Awaited, TP!Awaited, T!CanMove, TP!CanMove,
     T!WorkerLeft, TP!WorkerLeft, T!MasterLeft, TP!MasterLeft, T!PlanLeft, TP!PlanLeft,
     T!ConfigsLeft, TP!ConfigsLeft, T!SuitesLeft, TP!SuitesLeft,
     T!EnginesLeft, TP!EnginesLeft, T!EngineLeft, TP!EngineLeft,
     T!HandlingLeft, TP!HandlingLeft, T!ThreadsLeft, TP!ThreadsLeft,
     T!MasterAdvances, TP!MasterAdvances, T!AwaitedAdvances, TP!AwaitedAdvances
<1>2. Safety => TP!Safety
  BY Refinement, SameInit, SameStep, PTL DEF ImplementsTests, T!Safety, TP!Safety
<1>3. Safety => TP!TestsAdvance
  BY <1>2, TestsAssumptions, TP!TestsAlwaysAdvance
<1> QED BY <1>1, <1>3
=============================================================================
