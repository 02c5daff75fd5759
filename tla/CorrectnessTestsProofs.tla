------------------------ MODULE CorrectnessTestsProofs ------------------------
(***************************************************************************)
(* Proofs about the correctness tests, for every alphabet, pattern and     *)
(* text: at the sizes that registers, thresholds, tables and words have in *)
(* the code, on either architecture, each of the four classes returns the  *)
(* first match, so that a test passes whenever it compares.                *)
(*                                                                         *)
(* First what the test does to an object of whichever class; then, class   *)
(* by class and build by build, that the object is one of the searchers    *)
(* KmStrSearch and KmBndmSearch, of which their own modules prove the rest.*)
(***************************************************************************)
EXTENDS CorrectnessTests, TLAPS

CONSTANT Build    \* the architecture that the code is built for

BuildInv == SearchClass \in Classes /\ Arch \in Archs

\* What the searchers' invariants say that the test relies on.
ObjectFacts ==
  /\ pc = "populate" => Table # Null
  /\ pc = "done" =>
       result = BasicOffset(text, cchTextLen, m_Pattern, m_cchPatternLen)

-----------------------------------------------------------------------------
(***************************************************************************)
(* The object's operations, of whichever class.                            *)
(***************************************************************************)
LEMMA InitializeDoes ==
  ASSUME BuildInv, ObjectFacts', UNCHANGED <<SearchClass, Arch>>, NEW p, NEW len,
         Initialize(p, len)
  PROVE  /\ pc = "idle" /\ pc' \in {"idle", "populate"}
         /\ UNCHANGED <<text, cchTextLen>>
         /\ \/ UNCHANGED <<m_Pattern, m_cchPatternLen, Table, poolTables, pc>>
            \/ /\ m_Pattern' = p /\ m_cchPatternLen' = len
               /\ IF Table' = Null THEN poolTables' = poolTables
                  ELSE poolTables' = poolTables + 1
<1>1. \E a \in Archs : OfClass(Str8(a)!Initialize(p, len), Str16(a)!Initialize(p, len),
                               Bndm8(a)!Initialize(p, len), Bndm16(a)!Initialize(p, len))
  BY DEF Initialize
<1>2. CASE SearchClass = "CKmStrSearch8"
  BY <1>1, <1>2 DEF Str8!Initialize, Str8!Searcher!Initialize,
     Str8!Searcher!InitializeRejects, Str8!Searcher!InitializeAllocates,
     Str8!Searcher!InitializeOutOfMemory, Str8!Searcher!BindPattern,
     Str8!Searcher!object, Str8!Searcher!memory, Str8!Searcher!call,
     Str8!Searcher!cursor, Str8!Searcher!vars, OfClass, Table, horspool, bndm,
     ObjectFacts
<1>3. CASE SearchClass = "CKmStrSearch16"
  BY <1>1, <1>3 DEF Str16!Initialize, Str16!Searcher!Initialize,
     Str16!Searcher!InitializeRejects, Str16!Searcher!InitializeAllocates,
     Str16!Searcher!InitializeOutOfMemory, Str16!Searcher!BindPattern,
     Str16!Searcher!object, Str16!Searcher!memory, Str16!Searcher!call,
     Str16!Searcher!cursor, Str16!Searcher!vars, OfClass, Table, horspool, bndm,
     ObjectFacts
<1>4. CASE SearchClass = "CKmBndmSearch8"
  BY <1>1, <1>4 DEF Bndm8!Initialize, Bndm8!Searcher!Initialize,
     Bndm8!Searcher!InitializeRejects, Bndm8!Searcher!InitializeAllocates,
     Bndm8!Searcher!InitializeWithoutTable, Bndm8!Searcher!BindPattern,
     Bndm8!Searcher!object, Bndm8!Searcher!memory, Bndm8!Searcher!call,
     Bndm8!Searcher!auto, Bndm8!Searcher!vars, OfClass, Table, horspool, bndm,
     ObjectFacts
<1>5. CASE SearchClass = "CKmBndmSearch16"
  BY <1>1, <1>5 DEF Bndm16!Initialize, Bndm16!Searcher!Initialize,
     Bndm16!Searcher!InitializeRejects, Bndm16!Searcher!InitializeAllocates,
     Bndm16!Searcher!InitializeWithoutTable, Bndm16!Searcher!BindPattern,
     Bndm16!Searcher!object, Bndm16!Searcher!memory, Bndm16!Searcher!call,
     Bndm16!Searcher!auto, Bndm16!Searcher!vars, OfClass, Table, horspool, bndm,
     ObjectFacts
<1> QED BY <1>2, <1>3, <1>4, <1>5 DEF BuildInv, Classes

LEMMA CallDoes ==
  ASSUME BuildInv, UNCHANGED <<SearchClass, Arch>>, NEW t, NEW len, NEW e, Call(t, len, e)
  PROVE  /\ pc = "idle" /\ pc' = "find"
         /\ text' = t /\ cchTextLen' = len
         /\ UNCHANGED <<m_Pattern, m_cchPatternLen, Table, poolTables>>
<1>1. \E a \in Archs : OfClass(Str8(a)!Call(t, len, e), Str16(a)!Call(t, len, e),
                               Bndm8(a)!Call(t, len, e), Bndm16(a)!Call(t, len, e))
  BY DEF Call
<1>2. CASE SearchClass = "CKmStrSearch8"
  BY <1>1, <1>2 DEF Str8!Call, Str8!Searcher!Call, Str8!Searcher!object,
     Str8!Searcher!memory, Str8!Searcher!call, Str8!Searcher!cursor,
     Str8!Searcher!vars, OfClass, Table, horspool, bndm
<1>3. CASE SearchClass = "CKmStrSearch16"
  BY <1>1, <1>3 DEF Str16!Call, Str16!Searcher!Call, Str16!Searcher!object,
     Str16!Searcher!memory, Str16!Searcher!call, Str16!Searcher!cursor,
     Str16!Searcher!vars, OfClass, Table, horspool, bndm
<1>4. CASE SearchClass = "CKmBndmSearch8"
  BY <1>1, <1>4 DEF Bndm8!Call, Bndm8!Searcher!Call, Bndm8!Searcher!object,
     Bndm8!Searcher!memory, Bndm8!Searcher!call, Bndm8!Searcher!auto,
     Bndm8!Searcher!vars, OfClass, Table, horspool, bndm
<1>5. CASE SearchClass = "CKmBndmSearch16"
  BY <1>1, <1>5 DEF Bndm16!Call, Bndm16!Searcher!Call, Bndm16!Searcher!object,
     Bndm16!Searcher!memory, Bndm16!Searcher!call, Bndm16!Searcher!auto,
     Bndm16!Searcher!vars, OfClass, Table, horspool, bndm
<1> QED BY <1>2, <1>3, <1>4, <1>5 DEF BuildInv, Classes

LEMMA TakeResultDoes ==
  ASSUME BuildInv, UNCHANGED <<SearchClass, Arch>>, TakeResult
  PROVE  /\ pc = "done" /\ pc' = "idle"
         /\ UNCHANGED <<m_Pattern, m_cchPatternLen, Table, poolTables>>
<1>1. \E a \in Archs : OfClass(Str8(a)!TakeResult, Str16(a)!TakeResult,
                               Bndm8(a)!TakeResult, Bndm16(a)!TakeResult)
  BY DEF TakeResult
<1>2. CASE SearchClass = "CKmStrSearch8"
  BY <1>1, <1>2 DEF Str8!TakeResult, Str8!Searcher!TakeResult, Str8!Searcher!object,
     Str8!Searcher!memory, Str8!Searcher!call, Str8!Searcher!cursor,
     Str8!Searcher!vars, OfClass, Table, horspool, bndm
<1>3. CASE SearchClass = "CKmStrSearch16"
  BY <1>1, <1>3 DEF Str16!TakeResult, Str16!Searcher!TakeResult,
     Str16!Searcher!object, Str16!Searcher!memory, Str16!Searcher!call,
     Str16!Searcher!cursor, Str16!Searcher!vars, OfClass, Table, horspool, bndm
<1>4. CASE SearchClass = "CKmBndmSearch8"
  BY <1>1, <1>4 DEF Bndm8!TakeResult, Bndm8!Searcher!TakeResult,
     Bndm8!Searcher!object, Bndm8!Searcher!memory, Bndm8!Searcher!call,
     Bndm8!Searcher!auto, Bndm8!Searcher!vars, OfClass, Table, horspool, bndm
<1>5. CASE SearchClass = "CKmBndmSearch16"
  BY <1>1, <1>5 DEF Bndm16!TakeResult, Bndm16!Searcher!TakeResult,
     Bndm16!Searcher!object, Bndm16!Searcher!memory, Bndm16!Searcher!call,
     Bndm16!Searcher!auto, Bndm16!Searcher!vars, OfClass, Table, horspool, bndm
<1> QED BY <1>2, <1>3, <1>4, <1>5 DEF BuildInv, Classes

LEMMA DestructDoes ==
  ASSUME BuildInv, UNCHANGED <<SearchClass, Arch>>, Destruct
  PROVE  /\ pc = "idle" /\ pc' = "destroyed"
         /\ Table' = Table
         /\ poolTables' = IF Table = Null THEN poolTables ELSE poolTables - 1
<1>1. \E a \in Archs : OfClass(Str8(a)!Destruct, Str16(a)!Destruct,
                               Bndm8(a)!Destruct, Bndm16(a)!Destruct)
  BY DEF Destruct
<1>2. CASE SearchClass = "CKmStrSearch8"
  BY <1>1, <1>2 DEF Str8!Destruct, Str8!Searcher!Destroy, Str8!Searcher!object,
     Str8!Searcher!memory, Str8!Searcher!call, Str8!Searcher!cursor,
     Str8!Searcher!vars, OfClass, Table, horspool, bndm
<1>3. CASE SearchClass = "CKmStrSearch16"
  BY <1>1, <1>3 DEF Str16!Destruct, Str16!Searcher!Destroy, Str16!Searcher!object,
     Str16!Searcher!memory, Str16!Searcher!call, Str16!Searcher!cursor,
     Str16!Searcher!vars, OfClass, Table, horspool, bndm
<1>4. CASE SearchClass = "CKmBndmSearch8"
  BY <1>1, <1>4 DEF Bndm8!Destruct, Bndm8!Searcher!Destroy, Bndm8!Searcher!object,
     Bndm8!Searcher!memory, Bndm8!Searcher!call, Bndm8!Searcher!auto,
     Bndm8!Searcher!vars, OfClass, Table, horspool, bndm
<1>5. CASE SearchClass = "CKmBndmSearch16"
  BY <1>1, <1>5 DEF Bndm16!Destruct, Bndm16!Searcher!Destroy,
     Bndm16!Searcher!object, Bndm16!Searcher!memory, Bndm16!Searcher!call,
     Bndm16!Searcher!auto, Bndm16!Searcher!vars, OfClass, Table, horspool, bndm
<1> QED BY <1>2, <1>3, <1>4, <1>5 DEF BuildInv, Classes

LEMMA RunsDoes ==
  ASSUME BuildInv, ObjectFacts, ObjectFacts', UNCHANGED <<SearchClass, Arch>>, Runs
  PROVE  /\ pc \notin {"idle", "done", "destroyed"} /\ pc' # "destroyed"
         /\ pc = "populate" <=> pc' \in {"idle", "populate"}
         /\ UNCHANGED <<m_Pattern, m_cchPatternLen, poolTables, text, cchTextLen>>
         /\ Table' = Null <=> Table = Null
<1>1. \E a \in Archs : OfClass(Str8(a)!Runs, Str16(a)!Runs, Bndm8(a)!Runs, Bndm16(a)!Runs)
  BY DEF Runs
<1>2. CASE SearchClass = "CKmStrSearch8"
  BY <1>1, <1>2 DEF Str8!Runs, Str8!Populate, Str8!Find, Str8!RunEngineWithSafety,
     Str8!FindScalar, Str8!FindAVX2, Str8!FindNEON, Str8!Searcher!Populate,
     Str8!Searcher!Find, Str8!Searcher!SaveState, Str8!Searcher!SaveStateFails,
     Str8!Searcher!RestoreState, Str8!Searcher!FindScalar, Str8!Searcher!FindVector,
     Str8!Searcher!ScalarEntry, Str8!Searcher!ScanEnds, Str8!Searcher!ScanSkips,
     Str8!Searcher!ScanVerifies, Str8!Searcher!Verify, Str8!Searcher!Block,
     Str8!Searcher!Lane, Str8!Searcher!Tail, Str8!Searcher!NextBlock,
     Str8!Searcher!Return, Str8!Searcher!ScalarReturn, Str8!Searcher!object,
     Str8!Searcher!memory, Str8!Searcher!call, Str8!Searcher!cursor,
     Str8!Searcher!vars, OfClass, Table, horspool, bndm, ObjectFacts
<1>3. CASE SearchClass = "CKmStrSearch16"
  BY <1>1, <1>3 DEF Str16!Runs, Str16!Populate, Str16!Find,
     Str16!RunEngineWithSafety, Str16!FindScalar, Str16!FindAVX2, Str16!FindNEON,
     Str16!Searcher!Populate, Str16!Searcher!Find, Str16!Searcher!SaveState,
     Str16!Searcher!SaveStateFails, Str16!Searcher!RestoreState,
     Str16!Searcher!FindScalar, Str16!Searcher!FindVector,
     Str16!Searcher!ScalarEntry, Str16!Searcher!ScanEnds, Str16!Searcher!ScanSkips,
     Str16!Searcher!ScanVerifies, Str16!Searcher!Verify, Str16!Searcher!Block,
     Str16!Searcher!Lane, Str16!Searcher!Tail, Str16!Searcher!NextBlock,
     Str16!Searcher!Return, Str16!Searcher!ScalarReturn, Str16!Searcher!object,
     Str16!Searcher!memory, Str16!Searcher!call, Str16!Searcher!cursor,
     Str16!Searcher!vars, OfClass, Table, horspool, bndm, ObjectFacts
<1>4. CASE SearchClass = "CKmBndmSearch8"
  BY <1>1, <1>4 DEF Bndm8!Runs, Bndm8!Populate, Bndm8!Find,
     Bndm8!RunEngineWithSafety, Bndm8!FindScalar, Bndm8!FindAVX2, Bndm8!FindNEON,
     Bndm8!Searcher!Populate, Bndm8!Searcher!Find, Bndm8!Searcher!SaveState,
     Bndm8!Searcher!SaveStateFails, Bndm8!Searcher!RestoreState,
     Bndm8!Searcher!FindScalar, Bndm8!Searcher!FindVector,
     Bndm8!Searcher!ScalarEntry, Bndm8!Searcher!Slide, Bndm8!Searcher!Window,
     Bndm8!Searcher!Automaton, Bndm8!Searcher!NextWindow, Bndm8!Searcher!ReadNext,
     Bndm8!Searcher!Block, Bndm8!Searcher!Lane, Bndm8!Searcher!Tail,
     Bndm8!Searcher!NextBlock, Bndm8!Searcher!Return, Bndm8!Searcher!ScalarReturn,
     Bndm8!Searcher!object, Bndm8!Searcher!memory, Bndm8!Searcher!call,
     Bndm8!Searcher!auto, Bndm8!Searcher!vars, OfClass, Table, horspool, bndm,
     ObjectFacts
<1>5. CASE SearchClass = "CKmBndmSearch16"
  BY <1>1, <1>5 DEF Bndm16!Runs, Bndm16!Populate, Bndm16!Find,
     Bndm16!RunEngineWithSafety, Bndm16!FindScalar, Bndm16!FindAVX2,
     Bndm16!FindNEON, Bndm16!Searcher!Populate, Bndm16!Searcher!Find,
     Bndm16!Searcher!SaveState, Bndm16!Searcher!SaveStateFails,
     Bndm16!Searcher!RestoreState, Bndm16!Searcher!FindScalar,
     Bndm16!Searcher!FindVector, Bndm16!Searcher!ScalarEntry, Bndm16!Searcher!Slide,
     Bndm16!Searcher!Window, Bndm16!Searcher!Automaton, Bndm16!Searcher!NextWindow,
     Bndm16!Searcher!ReadNext, Bndm16!Searcher!Block, Bndm16!Searcher!Lane,
     Bndm16!Searcher!Tail, Bndm16!Searcher!NextBlock, Bndm16!Searcher!Return,
     Bndm16!Searcher!ScalarReturn, Bndm16!Searcher!object, Bndm16!Searcher!memory,
     Bndm16!Searcher!call, Bndm16!Searcher!auto, Bndm16!Searcher!vars, OfClass,
     Table, horspool, bndm, ObjectFacts
<1> QED BY <1>2, <1>3, <1>4, <1>5 DEF BuildInv, Classes

\* What Initialize has returned can be told later.
LEMMA InitializedStays ==
  ASSUME BuildInv, UNCHANGED <<SearchClass, Arch, m_cchPatternLen>>,
         Table' = Null <=> Table = Null
  PROVE  Initialized' <=> Initialized
  BY DEF BuildInv, Classes, Initialized, Table, Str8!Initialized, Str16!Initialized,
     Bndm8!Initialized, Bndm16!Initialized, Bndm8!MAX_BNDM_PATTERN_LEN,
     Bndm16!MAX_BNDM_PATTERN_LEN

-----------------------------------------------------------------------------
(***************************************************************************)
(* The test's steps, of whichever class.                                   *)
(***************************************************************************)

\* Whatever is done to the object is a use that its searcher allows.
ObjectStep ==
  \/ UNCHANGED object
  \/ \E p \in Patterns[SearchClass] : Initialize(p[1], p[2])
  \/ \E t \in Texts[SearchClass], e \in {"Scalar", "Auto", "AVX2"} : Call(t[1], t[2], e)
  \/ Runs \/ TakeResult \/ Destruct \/ AnyUse

LEMMA EngineNames ==
  ASSUME NEW k \in Nat, k < Len(Engines)
  PROVE  Engines[k + 1] \in {"Scalar", "Auto", "AVX2"}
  BY DEF Engines

LEMMA TestSteps ==
  ASSUME TestInv, [Next]_vars
  PROVE  ObjectStep /\ UNCHANGED <<SearchClass, Arch>>
<1>1. CASE Find
  <2>1. szText \in Texts[SearchClass] /\ indices \in Seq({expectedIndex})
    BY <1>1 DEF Find, TestInv, CallInv, VerdictInv
  <2>2. Len(indices) \in Nat /\ Len(indices) < Len(Engines)
    BY <1>1, <2>1 DEF Find
  <2>3. Engines[Len(indices) + 1] \in {"Scalar", "Auto", "AVX2"}
    BY <2>2, EngineNames
  <2>4. Call(szText[1], szText[2], Engines[Len(indices) + 1])
    BY <1>1 DEF Find
  <2>5. UNCHANGED <<SearchClass, Arch>>
    BY DEF Next, vars
  <2> QED BY <2>1, <2>3, <2>4, <2>5, Zenon DEF ObjectStep
<1>2. CASE InitializeSearch
  BY <1>2 DEF InitializeSearch, ObjectStep, Next, vars
<1>3. CASE ~Find /\ ~InitializeSearch
  BY <1>3 DEF Next, vars, RunCorrectnessTestEx, OtherCaller, Aborted, InitFailed,
     Found, Compare, LeaveScope, ObjectStep
<1> QED BY <1>1, <1>2, <1>3

LEMMA TestStarts == Init => BuildInv /\ TestInv
<1> SUFFICES ASSUME Init PROVE BuildInv /\ TestInv
  OBVIOUS
<1>1. BuildInv
  BY DEF Init, Construct, BuildInv
<1>2. pc = "idle" /\ poolTables = 0 /\ m_cchPatternLen = 0 /\ Table = Null
  BY DEF Init, Construct, Table, Str8!Construct, Str16!Construct, Bndm8!Construct,
     Bndm16!Construct, Str8!Searcher!Init, Str16!Searcher!Init,
     Bndm8!Searcher!Init, Bndm16!Searcher!Init
<1>3. stage \in {"start", "none"} /\ indices = << >>
  BY DEF Init
<1> QED BY <1>1, <1>2, <1>3 DEF TestInv, CallInv, ObjectInv, VerdictInv

LEMMA TestDecides == TestInv => TestTellsTheTruth
  BY DEF TestInv, ObjectInv, VerdictInv, TestTellsTheTruth

\* What the test knows stays true, if what it relies on is true before and after.
LEMMA TestKeeps ==
  ASSUME TestInv, BuildInv, ObjectFacts, ObjectFacts', [Next]_vars
  PROVE  TestInv'
<1> SUFFICES ASSUME stage # "none", ~UNCHANGED vars PROVE TestInv'
  <2>1. CASE stage = "none"
    BY <2>1 DEF Next, vars, RunCorrectnessTestEx, Aborted, InitializeSearch,
       InitFailed, Find, Found, Compare, LeaveScope, OtherCaller, TestInv
  <2>2. CASE UNCHANGED vars
    BY <2>2 DEF vars, object, test, horspool, bndm, common, TestInv, CallInv,
       ObjectInv, VerdictInv, Table, Initialized, expectedIndex, Str8!Initialized,
       Str16!Initialized, Bndm8!Initialized, Bndm16!Initialized
  <2> QED BY <2>1, <2>2
<1>0. /\ CallInv /\ ObjectInv /\ VerdictInv
      /\ RunCorrectnessTestEx
      /\ UNCHANGED <<SearchClass, Arch>>
  BY DEF TestInv, Next, OtherCaller
<1>1. CASE Aborted
  <2>1. UNCHANGED <<pc, Table, poolTables, szPattern, szText, indices>>
    BY <1>1, <1>0 DEF Aborted, object, horspool, bndm, common, Table
  <2>2. stage = "start" /\ stage' = "returned" /\ passed' = FALSE
    BY <1>1 DEF Aborted
  <2> QED BY <1>0, <2>1, <2>2 DEF TestInv, CallInv, ObjectInv, VerdictInv, expectedIndex
<1>2. CASE InitializeSearch
  <2>1. /\ stage = "start" /\ stage' = "initialize"
        /\ szPattern' \in Patterns[SearchClass] /\ szText' \in Texts[SearchClass]
        /\ Initialize(szPattern'[1], szPattern'[2])
        /\ UNCHANGED <<indices, passed>>
    BY <1>2 DEF InitializeSearch
  <2>2. Table = Null /\ indices = << >> /\ m_cchPatternLen = 0 /\ poolTables = 0
    BY <1>0, <2>1 DEF ObjectInv
  <2>3. /\ pc' \in {"idle", "populate"}
        /\ \/ UNCHANGED <<m_Pattern, m_cchPatternLen, Table, poolTables, pc>>
           \/ /\ m_Pattern' = szPattern'[1] /\ m_cchPatternLen' = szPattern'[2]
              /\ IF Table' = Null THEN poolTables' = poolTables
                 ELSE poolTables' = poolTables + 1
    BY <1>0, <2>1, InitializeDoes
  <2>4. BuildInv'
    BY <1>0 DEF BuildInv
  <2>5. Initialized' <=> \/ Table' # Null
                         \/ /\ SearchClass \in {"CKmBndmSearch8", "CKmBndmSearch16"}
                            /\ m_cchPatternLen' > 64
    BY <1>0, <2>4 DEF BuildInv, Classes, Initialized, Table, Str8!Initialized,
       Str16!Initialized, Bndm8!Initialized, Bndm16!Initialized,
       Bndm8!MAX_BNDM_PATTERN_LEN, Bndm16!MAX_BNDM_PATTERN_LEN
  <2>6. CallInv'
    BY <1>0, <2>1, <2>2, <2>3, <2>5 DEF CallInv, ObjectFacts
  <2>7. ObjectInv'
    BY <1>0, <2>1, <2>2, <2>3 DEF ObjectInv
  <2>8. VerdictInv'
    BY <2>1, <2>2 DEF VerdictInv
  <2> QED BY <2>6, <2>7, <2>8 DEF TestInv
<1>3. CASE InitFailed \/ Compare
  <2>1. UNCHANGED <<pc, Table, poolTables, szPattern, szText, indices, expectedIndex>>
    BY <1>3, <1>0 DEF InitFailed, Compare, object, horspool, bndm, common, Table,
       expectedIndex
  <2>2. stage = "initialize" /\ stage' = "leave" /\ pc = "idle"
    BY <1>3 DEF InitFailed, Compare
  <2>3. CallInv' /\ ObjectInv'
    BY <1>0, <2>1, <2>2 DEF CallInv, ObjectInv
  <2>4. VerdictInv'
    <3>1. CASE InitFailed
      <4>1. indices = << >>
        BY <3>1, <1>0, <2>2 DEF InitFailed, CallInv
      <4> QED BY <3>1, <4>1, <2>1, <1>0 DEF InitFailed, VerdictInv
    <3>2. CASE Compare
      <4>1. indices # << >>
        BY <3>2, <1>0 DEF Compare, Engines
      <4>2. passed'
        BY <3>2, <1>0 DEF Compare, VerdictInv
      <4> QED BY <4>1, <4>2, <2>1, <1>0 DEF VerdictInv
    <3> QED BY <3>1, <3>2, <1>3
  <2> QED BY <2>3, <2>4 DEF TestInv
<1>4. CASE Find
  <2>1. stage = "initialize" /\ Initialized /\ UNCHANGED <<stage, test>>
        /\ Call(szText[1], szText[2], Engines[Len(indices) + 1])
    BY <1>4 DEF Find
  <2>2. /\ pc = "idle" /\ pc' = "find"
        /\ text' = szText[1] /\ cchTextLen' = szText[2]
        /\ UNCHANGED <<m_Pattern, m_cchPatternLen, Table, poolTables>>
    BY <1>0, <2>1, CallDoes
  <2>3. Initialized'
    BY <1>0, <2>1, <2>2, InitializedStays
  <2> QED BY <1>0, <2>1, <2>2, <2>3 DEF TestInv, CallInv, ObjectInv, VerdictInv,
          expectedIndex, test
<1>5. CASE Found
  <2>1. /\ stage = "initialize" /\ stage' = "initialize" /\ TakeResult
        /\ indices' = Append(indices, result)
        /\ UNCHANGED <<szPattern, szText, passed>>
    BY <1>5 DEF Found
  <2>2. /\ pc = "done" /\ pc' = "idle"
        /\ UNCHANGED <<m_Pattern, m_cchPatternLen, Table, poolTables>>
    BY <1>0, <2>1, TakeResultDoes
  <2>3. /\ Initialized /\ text = szText[1] /\ cchTextLen = szText[2]
        /\ m_Pattern = szPattern[1] /\ m_cchPatternLen = szPattern[2]
    BY <1>0, <2>1, <2>2 DEF CallInv
  <2>4. Initialized'
    BY <1>0, <2>2, <2>3, InitializedStays
  <2>5. result = expectedIndex /\ expectedIndex' = expectedIndex
    BY <2>1, <2>2, <2>3 DEF ObjectFacts, expectedIndex
  <2>6. indices' \in Seq({expectedIndex})
    BY <1>0, <2>1, <2>5 DEF VerdictInv
  <2> QED BY <1>0, <2>1, <2>2, <2>3, <2>4, <2>5, <2>6 DEF TestInv, CallInv, ObjectInv,
          VerdictInv
<1>6. CASE LeaveScope
  <2>1. stage = "leave" /\ stage' = "returned" /\ Destruct /\ UNCHANGED test
    BY <1>6 DEF LeaveScope
  <2>2. /\ pc = "idle" /\ pc' = "destroyed" /\ Table' = Table
        /\ poolTables' = IF Table = Null THEN poolTables ELSE poolTables - 1
    BY <1>0, <2>1, DestructDoes
  <2>3. ObjectInv'
    BY <1>0, <2>1, <2>2 DEF ObjectInv, test
  <2> QED BY <1>0, <2>1, <2>3 DEF TestInv, CallInv, VerdictInv, expectedIndex, test
<1>7. CASE stage = "initialize" /\ Runs /\ UNCHANGED <<stage, test>>
  <2>1. /\ pc \notin {"idle", "done", "destroyed"} /\ pc' # "destroyed"
        /\ pc = "populate" <=> pc' \in {"idle", "populate"}
        /\ UNCHANGED <<m_Pattern, m_cchPatternLen, poolTables, text, cchTextLen>>
        /\ Table' = Null <=> Table = Null
    BY <1>0, <1>7, RunsDoes
  <2>2. Initialized' <=> Initialized
    BY <1>0, <2>1, InitializedStays
  <2>3. CallInv'
    BY <1>0, <1>7, <2>1, <2>2 DEF CallInv, test
  <2>4. ObjectInv'
    BY <1>0, <1>7, <2>1 DEF ObjectInv, test
  <2> QED BY <1>0, <1>7, <2>3, <2>4 DEF TestInv, VerdictInv, expectedIndex, test
<1>8. CASE stage = "returned" /\ UNCHANGED <<object, stage, test>>
  <2>1. UNCHANGED <<pc, Table, poolTables>>
    BY <1>8, <1>0 DEF object, horspool, bndm, common, Table
  <2> QED BY <1>0, <1>8, <2>1 DEF TestInv, CallInv, ObjectInv, VerdictInv,
          expectedIndex, test
<1> QED BY <1>0, <1>1, <1>2, <1>3, <1>4, <1>5, <1>6, <1>7, <1>8 DEF RunCorrectnessTestEx

-----------------------------------------------------------------------------
(***************************************************************************)
(* CKmStrSearch8.                                                          *)
(***************************************************************************)
S8 == INSTANCE KmStrSearchProofs WITH
  Arch <- Build, MaxInits <- 1, Char <- Char["CKmStrSearch8"],
  Patterns <- Patterns["CKmStrSearch8"], Texts <- Texts["CKmStrSearch8"],
  HashChar <- [ch \in Char["CKmStrSearch8"] |-> ch], Slot <- Char["CKmStrSearch8"],
  KernelThreshold <- Str8(Build)!KERNEL_THRESHOLD_CHARS,
  MinVectorText <- Str8(Build)!MinVectorText, LaneLen <- Str8(Build)!LaneLen,
  ShortLanes <- 4, LongLanes <- Str8(Build)!LongLanes, LongPattern <- 128,
  MaskBits <- 1

S8Assumptions ==
  S8!DataAssumption /\ S8!BuildAssumption /\ S8!NullAssumption /\ S8!TextsFitInt

\* The sizes of the class are sizes that the searcher's theorems allow.
LEMMA S8IsInstance == ASSUME ClassesAssumption, Build \in Archs PROVE S8Assumptions
<1>1. S8!DataAssumption
  BY DEF ClassesAssumption, Classes, S8!DataAssumption, S8!IsString
<1>2. S8!BuildAssumption
  BY DEF ClassesAssumption, Archs, S8!BuildAssumption, Str8!KERNEL_THRESHOLD_CHARS,
     Str8!LaneLen, Str8!MinVectorText, Str8!LongLanes
<1>3. S8!NullAssumption
  <2>1. Slots("CKmStrSearch8") = Char["CKmStrSearch8"]
    BY DEF Slots
  <2>2. /\ Null \notin [Slots("CKmStrSearch8") -> Nat]
        /\ Null \notin [Slots("CKmStrSearch8") -> SUBSET (0 .. 63)]
    BY DEF ClassesAssumption, Classes
  <2> QED BY <2>1, <2>2, Zenon DEF S8!NullAssumption
<1>4. S8!TextsFitInt
  BY DEF ClassesAssumption, Classes, S8!TextsFitInt
<1> QED BY <1>1, <1>2, <1>3, <1>4 DEF S8Assumptions

\* The class's searcher is the one that the instance's theorems are about.
LEMMA S8SameSteps ==
  /\ [Str8(Build)!Searcher!Next]_(Str8(Build)!Searcher!vars) => [S8!Next]_(S8!vars)
  /\ S8!StepDescends => Str8(Build)!Searcher!StepDescends
  BY DEF Str8!Searcher!object, S8!object, Str8!Searcher!memory, S8!memory,
     Str8!Searcher!call, S8!call, Str8!Searcher!cursor, S8!cursor,
     Str8!Searcher!vars, S8!vars, Str8!Searcher!uLastIdx, S8!uLastIdx,
     Str8!Searcher!lastChar, S8!lastChar, Str8!Searcher!Skip, S8!Skip,
     Str8!Searcher!Rejected, S8!Rejected, Str8!Searcher!InitializeRejects,
     S8!InitializeRejects, Str8!Searcher!BindPattern, S8!BindPattern,
     Str8!Searcher!InitializeAllocates, S8!InitializeAllocates,
     Str8!Searcher!InitializeOutOfMemory, S8!InitializeOutOfMemory,
     Str8!Searcher!Populate, S8!Populate, Str8!Searcher!Destroy, S8!Destroy,
     Str8!Searcher!Usable, S8!Usable, Str8!Searcher!Call, S8!Call,
     Str8!Searcher!FindKernelUsesVector, S8!FindKernelUsesVector,
     Str8!Searcher!RunEngineUsesVector, S8!RunEngineUsesVector, Str8!Searcher!Find,
     S8!Find, Str8!Searcher!SaveState, S8!SaveState, Str8!Searcher!SaveStateFails,
     S8!SaveStateFails, Str8!Searcher!Return, S8!Return, Str8!Searcher!RestoreState,
     S8!RestoreState, Str8!Searcher!TakeResult, S8!TakeResult,
     Str8!Searcher!ScalarReturn, S8!ScalarReturn, Str8!Searcher!MemChrFrom,
     S8!MemChrFrom, Str8!Searcher!ScalarEntry, S8!ScalarEntry,
     Str8!Searcher!ScanEnds, S8!ScanEnds, Str8!Searcher!ScanSkips, S8!ScanSkips,
     Str8!Searcher!ScanVerifies, S8!ScanVerifies, Str8!Searcher!VerifyIdx,
     S8!VerifyIdx, Str8!Searcher!Verify, S8!Verify, Str8!Searcher!IsLong, S8!IsLong,
     Str8!Searcher!Lanes, S8!Lanes, Str8!Searcher!Stride, S8!Stride,
     Str8!Searcher!MoveMask, S8!MoveMask, Str8!Searcher!CheckMask, S8!CheckMask,
     Str8!Searcher!NextBlock, S8!NextBlock, Str8!Searcher!BlockFits, S8!BlockFits,
     Str8!Searcher!Block, S8!Block, Str8!Searcher!Lane, S8!Lane, Str8!Searcher!Tail,
     S8!Tail, Str8!Searcher!Initialize, S8!Initialize, Str8!Searcher!FindScalar,
     S8!FindScalar, Str8!Searcher!FindVector, S8!FindVector, Str8!Searcher!Step,
     S8!Step, Str8!Searcher!Terminated, S8!Terminated, Str8!Searcher!Next, S8!Next,
     Str8!Searcher!SearchEngine, S8!SearchEngine, Str8!Searcher!Empty, S8!Empty,
     Str8!Searcher!First, S8!First, Str8!Searcher!OccursAt, S8!OccursAt,
     Str8!Searcher!MemChr, S8!MemChr, Str8!Searcher!VerifyMiddleMatch,
     S8!VerifyMiddleMatch, Str8!Searcher!ToInt, S8!ToInt, Str8!Searcher!Min, S8!Min,
     Str8!Searcher!CallPhase, S8!CallPhase,
     Str8!Searcher!TextLeft, S8!TextLeft,
     Str8!Searcher!LoopLeft, S8!LoopLeft,
     Str8!Searcher!Descends, S8!Descends,
     Str8!Searcher!StepDescends, S8!StepDescends

\* ... and its properties are those of the theorems.
LEMMA S8SameProperties ==
  /\ S8!FindIsFirstMatch <=> Str8(Build)!Searcher!FindIsFirstMatch
  /\ S8!NothingSkipped <=> Str8(Build)!Searcher!NothingSkipped
  /\ S8!ReadsInBounds <=> Str8(Build)!Searcher!ReadsInBounds
  BY DEF Str8!Searcher!FindIsFirstMatch, S8!FindIsFirstMatch,
     Str8!Searcher!NothingSkipped, S8!NothingSkipped, Str8!Searcher!NoneBefore,
     S8!NoneBefore, Str8!Searcher!ReadsInBounds, S8!ReadsInBounds,
     Str8!Searcher!uLastIdx, S8!uLastIdx, Str8!Searcher!VerifyIdx, S8!VerifyIdx,
     Str8!Searcher!Lanes, S8!Lanes, Str8!Searcher!Stride, S8!Stride,
     Str8!Searcher!IsLong, S8!IsLong, Str8!Searcher!BasicOffset, S8!BasicOffset,
     Str8!Searcher!Occurrences, S8!Occurrences, Str8!Searcher!First, S8!First,
     Str8!Searcher!Min, S8!Min, Str8!Searcher!OccursAt, S8!OccursAt

LEMMA S8Starts ==
  ASSUME ClassesAssumption, Init, Build \in Archs, Arch = Build,
         SearchClass = "CKmStrSearch8"
  PROVE  S8!IInv
<1>1. S8Assumptions
  BY S8IsInstance
<1>2. S8!Init
  BY DEF Init, Construct, Str8!Construct, Str8!Searcher!Init, S8!Init,
     Str8!Searcher!Empty, S8!Empty
<1> QED BY <1>1, <1>2, S8!InitIInv DEF S8Assumptions

\* Whatever is done to an object of the class, its searcher takes a step.
LEMMA S8Uses ==
  ASSUME Build \in Archs, Arch = Build, SearchClass = "CKmStrSearch8", ObjectStep
  PROVE  [Str8(Build)!Searcher!Next]_(Str8(Build)!Searcher!vars)
<1>1. Str8(Build)!Next \/ UNCHANGED Str8(Build)!Searcher!vars
  <2>1. CASE UNCHANGED object
    BY <2>1 DEF object, horspool, bndm, common, Str8!Searcher!object,
       Str8!Searcher!memory, Str8!Searcher!call, Str8!Searcher!cursor,
       Str8!Searcher!vars
  <2>2. CASE ~UNCHANGED object
    BY <2>2 DEF ObjectStep, OfClass, Initialize, Call, Runs, TakeResult, Destruct,
       AnyUse, Str8!Next, Str8!Searcher!SearchEngine
  <2> QED BY <2>1, <2>2
<1>2. Str8(Build)!Searcher!Initialize(Null, 1) =>
        Str8(Build)!Searcher!InitializeRejects(Null, 1)
  BY DEF Str8!Searcher!Initialize, Str8!Searcher!InitializeRejects,
     Str8!Searcher!InitializeAllocates, Str8!Searcher!InitializeOutOfMemory,
     Str8!Searcher!BindPattern, Str8!Searcher!Rejected
<1>3. Str8(Build)!Runs => Str8(Build)!Searcher!Step
  BY DEF Str8!Runs, Str8!Populate, Str8!Find, Str8!RunEngineWithSafety,
     Str8!FindScalar, Str8!FindAVX2, Str8!FindNEON, Str8!Searcher!Step
<1> QED
  BY <1>1, <1>2, <1>3 DEF Str8!Next, Str8!Initialize, Str8!Call, Str8!TakeResult,
     Str8!Destruct, Str8!Searcher!Next

LEMMA S8Keeps ==
  ASSUME ClassesAssumption, Build \in Archs, Arch = Build,
         SearchClass = "CKmStrSearch8", S8!IInv, ObjectStep
  PROVE  S8!IInv'
<1>1. S8Assumptions
  BY S8IsInstance
<1>2. [S8!Next]_(S8!vars)
  BY S8Uses, S8SameSteps, Zenon
<1> QED BY <1>1, <1>2, S8!NextIInv DEF S8Assumptions

\* What the searcher's invariant says of an object of the class.
LEMMA S8Knows ==
  ASSUME ClassesAssumption, Build \in Archs, Arch = Build,
         SearchClass = "CKmStrSearch8", S8!IInv
  PROVE  /\ ObjectFacts
         /\ Str8(Build)!FindIsFirstMatch
         /\ Str8(Build)!NothingSkipped /\ Str8(Build)!ReadsInBounds
         /\ Str8(Build)!Searcher!StepDescends
<1>1. S8Assumptions
  BY S8IsInstance
<1>2. S8!PhaseInv /\ S8!NothingSkipped /\ S8!AnswerInv
  BY DEF S8!IInv
<1>3. S8!FindIsFirstMatch
  BY <1>2 DEF S8!AnswerInv, S8!FindIsFirstMatch
<1>4. S8!ReadsInBounds
  BY <1>1, S8!IInvReadsInBounds DEF S8Assumptions
<1>5. ObjectFacts
  <2>1. pc = "populate" => Table # Null
    BY <1>2 DEF S8!PhaseInv, Table
  <2>2. pc = "done" =>
          result = BasicOffset(text, cchTextLen, m_Pattern, m_cchPatternLen)
    BY <1>3 DEF S8!FindIsFirstMatch, S8!BasicOffset, BasicOffset, S8!Occurrences,
       Occurrences, S8!First, First, S8!Min, Min, S8!OccursAt, OccursAt
  <2> QED BY <2>1, <2>2 DEF ObjectFacts
<1>6. S8!StepDescends
  BY <1>1, S8!CallStepDescends DEF S8Assumptions
<1>7. Str8(Build)!Searcher!StepDescends
  BY <1>6, S8SameSteps, Zenon
<1> QED BY <1>2, <1>3, <1>4, <1>5, <1>7, S8SameProperties DEF Str8!FindIsFirstMatch,
        Str8!NothingSkipped, Str8!ReadsInBounds

\* ... and of its table and the saved state.
LEMMA S8Inside ==
  ASSUME ClassesAssumption, Build \in Archs, S8!IInv
  PROVE  Str8(Build)!Searcher!XStateBalanced /\ Str8(Build)!Searcher!SkipTableExact
<1>1. S8Assumptions
  BY S8IsInstance
<1>2. S8!SkipTableExact
  BY <1>1, S8!IInvSkipTableExact DEF S8Assumptions
<1>3. S8!XStateBalanced
  BY DEF S8!IInv
<1>4. /\ S8!XStateBalanced <=> Str8(Build)!Searcher!XStateBalanced
      /\ S8!SkipTableExact <=> Str8(Build)!Searcher!SkipTableExact
  BY DEF Str8!Searcher!XStateBalanced, S8!XStateBalanced,
     Str8!Searcher!SkipTableExact, S8!SkipTableExact, Str8!Searcher!Max, S8!Max
<1> QED BY <1>2, <1>3, <1>4

-----------------------------------------------------------------------------
(***************************************************************************)
(* CKmStrSearch16.                                                         *)
(***************************************************************************)
S16 == INSTANCE KmStrSearchProofs WITH
  Arch <- Build, MaxInits <- 1, Char <- Char["CKmStrSearch16"],
  Patterns <- Patterns["CKmStrSearch16"], Texts <- Texts["CKmStrSearch16"],
  HashChar <- [ch \in Char["CKmStrSearch16"] |-> Str16(Build)!HashCharOf(ch)],
  Slot <- { Str16(Build)!HashCharOf(ch) : ch \in Char["CKmStrSearch16"] },
  KernelThreshold <- Str16(Build)!KERNEL_THRESHOLD_CHARS,
  MinVectorText <- Str16(Build)!MinVectorText, LaneLen <- Str16(Build)!LaneLen,
  ShortLanes <- 4, LongLanes <- Str16(Build)!LongLanes, LongPattern <- 128,
  MaskBits <- Str16(Build)!MaskBits

S16Assumptions ==
  S16!DataAssumption /\ S16!BuildAssumption /\ S16!NullAssumption /\ S16!TextsFitInt

\* The sizes of the class are sizes that the searcher's theorems allow.
LEMMA S16IsInstance == ASSUME ClassesAssumption, Build \in Archs PROVE S16Assumptions
<1>1. S16!DataAssumption
  BY DEF ClassesAssumption, Classes, S16!DataAssumption, S16!IsString
<1>2. S16!BuildAssumption
  BY DEF ClassesAssumption, Archs, S16!BuildAssumption,
     Str16!KERNEL_THRESHOLD_CHARS, Str16!LaneLen, Str16!MinVectorText,
     Str16!LongLanes, Str16!MaskBits
<1>3. S16!NullAssumption
  <2>1. Slots("CKmStrSearch16") =
          { Str16(Build)!HashCharOf(ch) : ch \in Char["CKmStrSearch16"] }
    BY DEF Slots, Str16!HashCharOf
  <2>2. /\ Null \notin [Slots("CKmStrSearch16") -> Nat]
        /\ Null \notin [Slots("CKmStrSearch16") -> SUBSET (0 .. 63)]
    BY DEF ClassesAssumption, Classes
  <2> QED BY <2>1, <2>2, Zenon DEF S16!NullAssumption
<1>4. S16!TextsFitInt
  BY DEF ClassesAssumption, Classes, S16!TextsFitInt
<1> QED BY <1>1, <1>2, <1>3, <1>4 DEF S16Assumptions

\* The class's searcher is the one that the instance's theorems are about.
LEMMA S16SameSteps ==
  /\ [Str16(Build)!Searcher!Next]_(Str16(Build)!Searcher!vars) => [S16!Next]_(S16!vars)
  /\ S16!StepDescends => Str16(Build)!Searcher!StepDescends
  BY DEF Str16!Searcher!object, S16!object, Str16!Searcher!memory, S16!memory,
     Str16!Searcher!call, S16!call, Str16!Searcher!cursor, S16!cursor,
     Str16!Searcher!vars, S16!vars, Str16!Searcher!uLastIdx, S16!uLastIdx,
     Str16!Searcher!lastChar, S16!lastChar, Str16!Searcher!Skip, S16!Skip,
     Str16!Searcher!Rejected, S16!Rejected, Str16!Searcher!InitializeRejects,
     S16!InitializeRejects, Str16!Searcher!BindPattern, S16!BindPattern,
     Str16!Searcher!InitializeAllocates, S16!InitializeAllocates,
     Str16!Searcher!InitializeOutOfMemory, S16!InitializeOutOfMemory,
     Str16!Searcher!Populate, S16!Populate, Str16!Searcher!Destroy, S16!Destroy,
     Str16!Searcher!Usable, S16!Usable, Str16!Searcher!Call, S16!Call,
     Str16!Searcher!FindKernelUsesVector, S16!FindKernelUsesVector,
     Str16!Searcher!RunEngineUsesVector, S16!RunEngineUsesVector,
     Str16!Searcher!Find, S16!Find, Str16!Searcher!SaveState, S16!SaveState,
     Str16!Searcher!SaveStateFails, S16!SaveStateFails, Str16!Searcher!Return,
     S16!Return, Str16!Searcher!RestoreState, S16!RestoreState,
     Str16!Searcher!TakeResult, S16!TakeResult, Str16!Searcher!ScalarReturn,
     S16!ScalarReturn, Str16!Searcher!MemChrFrom, S16!MemChrFrom,
     Str16!Searcher!ScalarEntry, S16!ScalarEntry, Str16!Searcher!ScanEnds,
     S16!ScanEnds, Str16!Searcher!ScanSkips, S16!ScanSkips,
     Str16!Searcher!ScanVerifies, S16!ScanVerifies, Str16!Searcher!VerifyIdx,
     S16!VerifyIdx, Str16!Searcher!Verify, S16!Verify, Str16!Searcher!IsLong,
     S16!IsLong, Str16!Searcher!Lanes, S16!Lanes, Str16!Searcher!Stride, S16!Stride,
     Str16!Searcher!MoveMask, S16!MoveMask, Str16!Searcher!CheckMask, S16!CheckMask,
     Str16!Searcher!NextBlock, S16!NextBlock, Str16!Searcher!BlockFits,
     S16!BlockFits, Str16!Searcher!Block, S16!Block, Str16!Searcher!Lane, S16!Lane,
     Str16!Searcher!Tail, S16!Tail, Str16!Searcher!Initialize, S16!Initialize,
     Str16!Searcher!FindScalar, S16!FindScalar, Str16!Searcher!FindVector,
     S16!FindVector, Str16!Searcher!Step, S16!Step, Str16!Searcher!Terminated,
     S16!Terminated, Str16!Searcher!Next, S16!Next, Str16!Searcher!SearchEngine,
     S16!SearchEngine, Str16!Searcher!Empty, S16!Empty, Str16!Searcher!First,
     S16!First, Str16!Searcher!OccursAt, S16!OccursAt, Str16!Searcher!MemChr,
     S16!MemChr, Str16!Searcher!VerifyMiddleMatch, S16!VerifyMiddleMatch,
     Str16!Searcher!ToInt, S16!ToInt, Str16!Searcher!Min, S16!Min,
     Str16!Searcher!CallPhase, S16!CallPhase,
     Str16!Searcher!TextLeft, S16!TextLeft,
     Str16!Searcher!LoopLeft, S16!LoopLeft,
     Str16!Searcher!Descends, S16!Descends,
     Str16!Searcher!StepDescends, S16!StepDescends

\* ... and its properties are those of the theorems.
LEMMA S16SameProperties ==
  /\ S16!FindIsFirstMatch <=> Str16(Build)!Searcher!FindIsFirstMatch
  /\ S16!NothingSkipped <=> Str16(Build)!Searcher!NothingSkipped
  /\ S16!ReadsInBounds <=> Str16(Build)!Searcher!ReadsInBounds
  BY DEF Str16!Searcher!FindIsFirstMatch, S16!FindIsFirstMatch,
     Str16!Searcher!NothingSkipped, S16!NothingSkipped, Str16!Searcher!NoneBefore,
     S16!NoneBefore, Str16!Searcher!ReadsInBounds, S16!ReadsInBounds,
     Str16!Searcher!uLastIdx, S16!uLastIdx, Str16!Searcher!VerifyIdx, S16!VerifyIdx,
     Str16!Searcher!Lanes, S16!Lanes, Str16!Searcher!Stride, S16!Stride,
     Str16!Searcher!IsLong, S16!IsLong, Str16!Searcher!BasicOffset, S16!BasicOffset,
     Str16!Searcher!Occurrences, S16!Occurrences, Str16!Searcher!First, S16!First,
     Str16!Searcher!Min, S16!Min, Str16!Searcher!OccursAt, S16!OccursAt

LEMMA S16Starts ==
  ASSUME ClassesAssumption, Init, Build \in Archs, Arch = Build,
         SearchClass = "CKmStrSearch16"
  PROVE  S16!IInv
<1>1. S16Assumptions
  BY S16IsInstance
<1>2. S16!Init
  BY DEF Init, Construct, Str16!Construct, Str16!Searcher!Init, S16!Init,
     Str16!Searcher!Empty, S16!Empty
<1> QED BY <1>1, <1>2, S16!InitIInv DEF S16Assumptions

\* Whatever is done to an object of the class, its searcher takes a step.
LEMMA S16Uses ==
  ASSUME Build \in Archs, Arch = Build, SearchClass = "CKmStrSearch16", ObjectStep
  PROVE  [Str16(Build)!Searcher!Next]_(Str16(Build)!Searcher!vars)
<1>1. Str16(Build)!Next \/ UNCHANGED Str16(Build)!Searcher!vars
  <2>1. CASE UNCHANGED object
    BY <2>1 DEF object, horspool, bndm, common, Str16!Searcher!object,
       Str16!Searcher!memory, Str16!Searcher!call, Str16!Searcher!cursor,
       Str16!Searcher!vars
  <2>2. CASE ~UNCHANGED object
    BY <2>2 DEF ObjectStep, OfClass, Initialize, Call, Runs, TakeResult, Destruct,
       AnyUse, Str16!Next, Str16!Searcher!SearchEngine
  <2> QED BY <2>1, <2>2
<1>2. Str16(Build)!Searcher!Initialize(Null, 1) =>
        Str16(Build)!Searcher!InitializeRejects(Null, 1)
  BY DEF Str16!Searcher!Initialize, Str16!Searcher!InitializeRejects,
     Str16!Searcher!InitializeAllocates, Str16!Searcher!InitializeOutOfMemory,
     Str16!Searcher!BindPattern, Str16!Searcher!Rejected
<1>3. Str16(Build)!Runs => Str16(Build)!Searcher!Step
  BY DEF Str16!Runs, Str16!Populate, Str16!Find, Str16!RunEngineWithSafety,
     Str16!FindScalar, Str16!FindAVX2, Str16!FindNEON, Str16!Searcher!Step
<1> QED
  BY <1>1, <1>2, <1>3 DEF Str16!Next, Str16!Initialize, Str16!Call,
     Str16!TakeResult, Str16!Destruct, Str16!Searcher!Next

LEMMA S16Keeps ==
  ASSUME ClassesAssumption, Build \in Archs, Arch = Build,
         SearchClass = "CKmStrSearch16", S16!IInv, ObjectStep
  PROVE  S16!IInv'
<1>1. S16Assumptions
  BY S16IsInstance
<1>2. [S16!Next]_(S16!vars)
  BY S16Uses, S16SameSteps, Zenon
<1> QED BY <1>1, <1>2, S16!NextIInv DEF S16Assumptions

\* What the searcher's invariant says of an object of the class.
LEMMA S16Knows ==
  ASSUME ClassesAssumption, Build \in Archs, Arch = Build,
         SearchClass = "CKmStrSearch16", S16!IInv
  PROVE  /\ ObjectFacts
         /\ Str16(Build)!FindIsFirstMatch
         /\ Str16(Build)!NothingSkipped /\ Str16(Build)!ReadsInBounds
         /\ Str16(Build)!Searcher!StepDescends
<1>1. S16Assumptions
  BY S16IsInstance
<1>2. S16!PhaseInv /\ S16!NothingSkipped /\ S16!AnswerInv
  BY DEF S16!IInv
<1>3. S16!FindIsFirstMatch
  BY <1>2 DEF S16!AnswerInv, S16!FindIsFirstMatch
<1>4. S16!ReadsInBounds
  BY <1>1, S16!IInvReadsInBounds DEF S16Assumptions
<1>5. ObjectFacts
  <2>1. pc = "populate" => Table # Null
    BY <1>2 DEF S16!PhaseInv, Table
  <2>2. pc = "done" =>
          result = BasicOffset(text, cchTextLen, m_Pattern, m_cchPatternLen)
    BY <1>3 DEF S16!FindIsFirstMatch, S16!BasicOffset, BasicOffset, S16!Occurrences,
       Occurrences, S16!First, First, S16!Min, Min, S16!OccursAt, OccursAt
  <2> QED BY <2>1, <2>2 DEF ObjectFacts
<1>6. S16!StepDescends
  BY <1>1, S16!CallStepDescends DEF S16Assumptions
<1>7. Str16(Build)!Searcher!StepDescends
  BY <1>6, S16SameSteps, Zenon
<1> QED BY <1>2, <1>3, <1>4, <1>5, <1>7, S16SameProperties DEF Str16!FindIsFirstMatch,
        Str16!NothingSkipped, Str16!ReadsInBounds

\* ... and of its table and the saved state.
LEMMA S16Inside ==
  ASSUME ClassesAssumption, Build \in Archs, S16!IInv
  PROVE  Str16(Build)!Searcher!XStateBalanced /\ Str16(Build)!Searcher!SkipTableExact
<1>1. S16Assumptions
  BY S16IsInstance
<1>2. S16!SkipTableExact
  BY <1>1, S16!IInvSkipTableExact DEF S16Assumptions
<1>3. S16!XStateBalanced
  BY DEF S16!IInv
<1>4. /\ S16!XStateBalanced <=> Str16(Build)!Searcher!XStateBalanced
      /\ S16!SkipTableExact <=> Str16(Build)!Searcher!SkipTableExact
  BY DEF Str16!Searcher!XStateBalanced, S16!XStateBalanced,
     Str16!Searcher!SkipTableExact, S16!SkipTableExact, Str16!Searcher!Max,
     S16!Max
<1> QED BY <1>2, <1>3, <1>4

-----------------------------------------------------------------------------
(***************************************************************************)
(* CKmBndmSearch8.                                                         *)
(***************************************************************************)
B8 == INSTANCE KmBndmSearchProofs WITH
  Arch <- Build, MaxInits <- 1, Char <- Char["CKmBndmSearch8"],
  Patterns <- Patterns["CKmBndmSearch8"], Texts <- Texts["CKmBndmSearch8"],
  HashChar <- [ch \in Char["CKmBndmSearch8"] |-> ch], Slot <- Char["CKmBndmSearch8"],
  KernelThreshold <- Bndm8(Build)!KERNEL_THRESHOLD_CHARS,
  MinVectorText <- Bndm8(Build)!MinVectorText, LaneLen <- Bndm8(Build)!LaneLen,
  Lanes <- 4, WordBits <- Bndm8(Build)!MAX_BNDM_PATTERN_LEN,
  FullVerify <- FALSE

B8Assumptions ==
  B8!DataAssumption /\ B8!BuildAssumption /\ B8!NullAssumption /\ B8!TextsFitInt

\* The sizes of the class are sizes that the searcher's theorems allow.
LEMMA B8IsInstance == ASSUME ClassesAssumption, Build \in Archs PROVE B8Assumptions
<1>1. B8!DataAssumption
  BY DEF ClassesAssumption, Classes, B8!DataAssumption, B8!IsString
<1>2. B8!BuildAssumption
  BY DEF ClassesAssumption, Archs, B8!BuildAssumption, Bndm8!KERNEL_THRESHOLD_CHARS,
     Bndm8!LaneLen, Bndm8!MinVectorText, Bndm8!MAX_BNDM_PATTERN_LEN
<1>3. B8!NullAssumption
  <2>1. Slots("CKmBndmSearch8") = Char["CKmBndmSearch8"]
    BY DEF Slots
  <2>2. /\ Null \notin [Slots("CKmBndmSearch8") -> Nat]
        /\ Null \notin [Slots("CKmBndmSearch8") -> SUBSET (0 .. 63)]
    BY DEF ClassesAssumption, Classes
  <2> QED BY <2>1, <2>2 DEF B8!NullAssumption, B8!Word, Bndm8!MAX_BNDM_PATTERN_LEN
<1>4. B8!TextsFitInt
  BY DEF ClassesAssumption, Classes, B8!TextsFitInt
<1> QED BY <1>1, <1>2, <1>3, <1>4 DEF B8Assumptions

\* The class's searcher is the one that the instance's theorems are about.
LEMMA B8SameSteps ==
  /\ [Bndm8(Build)!Searcher!Next]_(Bndm8(Build)!Searcher!vars) => [B8!Next]_(B8!vars)
  /\ B8!StepDescends => Bndm8(Build)!Searcher!StepDescends
  BY DEF Bndm8!Searcher!object, B8!object, Bndm8!Searcher!memory, B8!memory,
     Bndm8!Searcher!call, B8!call, Bndm8!Searcher!auto, B8!auto,
     Bndm8!Searcher!vars, B8!vars, Bndm8!Searcher!m, B8!m, Bndm8!Searcher!uLastIdx,
     B8!uLastIdx, Bndm8!Searcher!lastChar, B8!lastChar, Bndm8!Searcher!Bit, B8!Bit,
     Bndm8!Searcher!ShiftLeft, B8!ShiftLeft, Bndm8!Searcher!AllOnes, B8!AllOnes,
     Bndm8!Searcher!MAX_BNDM_PATTERN_LEN, B8!MAX_BNDM_PATTERN_LEN,
     Bndm8!Searcher!Rejected, B8!Rejected, Bndm8!Searcher!InitializeRejects,
     B8!InitializeRejects, Bndm8!Searcher!BindPattern, B8!BindPattern,
     Bndm8!Searcher!InitializeWithoutTable, B8!InitializeWithoutTable,
     Bndm8!Searcher!InitializeAllocates, B8!InitializeAllocates,
     Bndm8!Searcher!Populate, B8!Populate, Bndm8!Searcher!Destroy, B8!Destroy,
     Bndm8!Searcher!Call, B8!Call, Bndm8!Searcher!FindKernelUsesVector,
     B8!FindKernelUsesVector, Bndm8!Searcher!RunEngineUsesVector,
     B8!RunEngineUsesVector, Bndm8!Searcher!Find, B8!Find, Bndm8!Searcher!SaveState,
     B8!SaveState, Bndm8!Searcher!SaveStateFails, B8!SaveStateFails,
     Bndm8!Searcher!Return, B8!Return, Bndm8!Searcher!RestoreState, B8!RestoreState,
     Bndm8!Searcher!TakeResult, B8!TakeResult, Bndm8!Searcher!n, B8!n,
     Bndm8!Searcher!At, B8!At, Bndm8!Searcher!ScalarReturn, B8!ScalarReturn,
     Bndm8!Searcher!MemChrFrom, B8!MemChrFrom, Bndm8!Searcher!ScalarEntry,
     B8!ScalarEntry, Bndm8!Searcher!Slide, B8!Slide, Bndm8!Searcher!Window,
     B8!Window, Bndm8!Searcher!NextWindow, B8!NextWindow, Bndm8!Searcher!ReadNext,
     B8!ReadNext, Bndm8!Searcher!Automaton, B8!Automaton, Bndm8!Searcher!Stride,
     B8!Stride, Bndm8!Searcher!CheckMask, B8!CheckMask, Bndm8!Searcher!BlockFits,
     B8!BlockFits, Bndm8!Searcher!NextBlock, B8!NextBlock, Bndm8!Searcher!Block,
     B8!Block, Bndm8!Searcher!Lane, B8!Lane, Bndm8!Searcher!Tail, B8!Tail,
     Bndm8!Searcher!Initialize, B8!Initialize, Bndm8!Searcher!FindScalar,
     B8!FindScalar, Bndm8!Searcher!FindVector, B8!FindVector, Bndm8!Searcher!Step,
     B8!Step, Bndm8!Searcher!Terminated, B8!Terminated, Bndm8!Searcher!Next,
     B8!Next, Bndm8!Searcher!SearchEngine, B8!SearchEngine, Bndm8!Searcher!Empty,
     B8!Empty, Bndm8!Searcher!First, B8!First, Bndm8!Searcher!OccursAt, B8!OccursAt,
     Bndm8!Searcher!MemChr, B8!MemChr, Bndm8!Searcher!VerifyMiddleMatch,
     B8!VerifyMiddleMatch, Bndm8!Searcher!ToInt, B8!ToInt, Bndm8!Searcher!Min,
     B8!Min,
     Bndm8!Searcher!CallPhase, B8!CallPhase,
     Bndm8!Searcher!TextLeft, B8!TextLeft,
     Bndm8!Searcher!LoopLeft, B8!LoopLeft,
     Bndm8!Searcher!Descends, B8!Descends,
     Bndm8!Searcher!StepDescends, B8!StepDescends

\* ... and its properties are those of the theorems.
LEMMA B8SameProperties ==
  /\ B8!FindIsFirstMatch <=> Bndm8(Build)!Searcher!FindIsFirstMatch
  /\ B8!NothingSkipped <=> Bndm8(Build)!Searcher!NothingSkipped
  /\ B8!ReadsInBounds <=> Bndm8(Build)!Searcher!ReadsInBounds
  BY DEF Bndm8!Searcher!FindIsFirstMatch, B8!FindIsFirstMatch,
     Bndm8!Searcher!NothingSkipped, B8!NothingSkipped, Bndm8!Searcher!NoneBefore,
     B8!NoneBefore, Bndm8!Searcher!ReadsInBounds, B8!ReadsInBounds,
     Bndm8!Searcher!m, B8!m, Bndm8!Searcher!uLastIdx, B8!uLastIdx,
     Bndm8!Searcher!Stride, B8!Stride, Bndm8!Searcher!BasicOffset, B8!BasicOffset,
     Bndm8!Searcher!Occurrences, B8!Occurrences, Bndm8!Searcher!First, B8!First,
     Bndm8!Searcher!Min, B8!Min, Bndm8!Searcher!OccursAt, B8!OccursAt

LEMMA B8Starts ==
  ASSUME ClassesAssumption, Init, Build \in Archs, Arch = Build,
         SearchClass = "CKmBndmSearch8"
  PROVE  B8!IInv
<1>1. B8Assumptions
  BY B8IsInstance
<1>2. B8!Init
  BY DEF Init, Construct, Bndm8!Construct, Bndm8!Searcher!Init, B8!Init,
     Bndm8!Searcher!Empty, B8!Empty
<1> QED BY <1>1, <1>2, B8!InitIInv DEF B8Assumptions

\* Whatever is done to an object of the class, its searcher takes a step.
LEMMA B8Uses ==
  ASSUME Build \in Archs, Arch = Build, SearchClass = "CKmBndmSearch8", ObjectStep
  PROVE  [Bndm8(Build)!Searcher!Next]_(Bndm8(Build)!Searcher!vars)
<1>1. Bndm8(Build)!Next \/ UNCHANGED Bndm8(Build)!Searcher!vars
  <2>1. CASE UNCHANGED object
    BY <2>1 DEF object, horspool, bndm, common, Bndm8!Searcher!object,
       Bndm8!Searcher!memory, Bndm8!Searcher!call, Bndm8!Searcher!auto,
       Bndm8!Searcher!vars
  <2>2. CASE ~UNCHANGED object
    BY <2>2 DEF ObjectStep, OfClass, Initialize, Call, Runs, TakeResult, Destruct,
       AnyUse, Bndm8!Next, Bndm8!Searcher!SearchEngine
  <2> QED BY <2>1, <2>2
<1>2. Bndm8(Build)!Searcher!Initialize(Null, 1) =>
        Bndm8(Build)!Searcher!InitializeRejects(Null, 1)
  BY DEF Bndm8!Searcher!Initialize, Bndm8!Searcher!InitializeRejects,
     Bndm8!Searcher!InitializeAllocates, Bndm8!Searcher!InitializeWithoutTable,
     Bndm8!Searcher!BindPattern, Bndm8!Searcher!Rejected
<1>3. Bndm8(Build)!Runs => Bndm8(Build)!Searcher!Step
  BY DEF Bndm8!Runs, Bndm8!Populate, Bndm8!Find, Bndm8!RunEngineWithSafety,
     Bndm8!FindScalar, Bndm8!FindAVX2, Bndm8!FindNEON, Bndm8!Searcher!Step
<1> QED
  BY <1>1, <1>2, <1>3 DEF Bndm8!Next, Bndm8!Initialize, Bndm8!Call,
     Bndm8!TakeResult, Bndm8!Destruct, Bndm8!Searcher!Next

LEMMA B8Keeps ==
  ASSUME ClassesAssumption, Build \in Archs, Arch = Build,
         SearchClass = "CKmBndmSearch8", B8!IInv, ObjectStep
  PROVE  B8!IInv'
<1>1. B8Assumptions
  BY B8IsInstance
<1>2. [B8!Next]_(B8!vars)
  BY B8Uses, B8SameSteps, Zenon
<1> QED BY <1>1, <1>2, B8!NextIInv DEF B8Assumptions

\* What the searcher's invariant says of an object of the class.
LEMMA B8Knows ==
  ASSUME ClassesAssumption, Build \in Archs, Arch = Build,
         SearchClass = "CKmBndmSearch8", B8!IInv
  PROVE  /\ ObjectFacts
         /\ Bndm8(Build)!FindIsFirstMatch
         /\ Bndm8(Build)!NothingSkipped /\ Bndm8(Build)!ReadsInBounds
         /\ Bndm8(Build)!Searcher!StepDescends
<1>1. B8Assumptions
  BY B8IsInstance
<1>2. B8!PhaseInv /\ B8!NothingSkipped /\ B8!AnswerInv
  BY DEF B8!IInv
<1>3. B8!FindIsFirstMatch
  BY <1>2 DEF B8!AnswerInv, B8!FindIsFirstMatch
<1>4. B8!ReadsInBounds
  BY <1>1, B8!IInvReadsInBounds DEF B8Assumptions
<1>5. ObjectFacts
  <2>1. pc = "populate" => Table # Null
    BY <1>2 DEF B8!PhaseInv, Table
  <2>2. pc = "done" =>
          result = BasicOffset(text, cchTextLen, m_Pattern, m_cchPatternLen)
    BY <1>3 DEF B8!FindIsFirstMatch, B8!BasicOffset, BasicOffset, B8!Occurrences,
       Occurrences, B8!First, First, B8!Min, Min, B8!OccursAt, OccursAt, B8!m
  <2> QED BY <2>1, <2>2 DEF ObjectFacts
<1>6. B8!StepDescends
  BY <1>1, B8!CallStepDescends DEF B8Assumptions
<1>7. Bndm8(Build)!Searcher!StepDescends
  BY <1>6, B8SameSteps, Zenon
<1> QED BY <1>2, <1>3, <1>4, <1>5, <1>7, B8SameProperties DEF Bndm8!FindIsFirstMatch,
        Bndm8!NothingSkipped, Bndm8!ReadsInBounds

\* ... and of its automaton and the saved state.
LEMMA B8Inside ==
  ASSUME ClassesAssumption, Build \in Archs, B8!IInv
  PROVE  Bndm8(Build)!Searcher!XStateBalanced /\ Bndm8(Build)!Searcher!AutomatonExact
<1>1. B8Assumptions
  BY B8IsInstance
<1>2. B8!AutomatonExact
  BY DEF B8!IInv
<1>3. B8!XStateBalanced
  BY DEF B8!IInv
<1>4. /\ B8!XStateBalanced <=> Bndm8(Build)!Searcher!XStateBalanced
      /\ B8!AutomatonExact <=> Bndm8(Build)!Searcher!AutomatonExact
  BY DEF Bndm8!Searcher!XStateBalanced, B8!XStateBalanced,
     Bndm8!Searcher!AutomatonExact, B8!AutomatonExact,
     Bndm8!Searcher!ShiftAfter, B8!ShiftAfter, Bndm8!Searcher!WordAfter,
     B8!WordAfter, Bndm8!Searcher!Factor, B8!Factor, Bndm8!Searcher!m, B8!m,
     Bndm8!Searcher!Min, B8!Min
<1> QED BY <1>2, <1>3, <1>4

-----------------------------------------------------------------------------
(***************************************************************************)
(* CKmBndmSearch16.                                                        *)
(***************************************************************************)
B16 == INSTANCE KmBndmSearchProofs WITH
  Arch <- Build, MaxInits <- 1, Char <- Char["CKmBndmSearch16"],
  Patterns <- Patterns["CKmBndmSearch16"], Texts <- Texts["CKmBndmSearch16"],
  HashChar <- [ch \in Char["CKmBndmSearch16"] |-> Bndm16(Build)!HashCharOf(ch)],
  Slot <- { Bndm16(Build)!HashCharOf(ch) : ch \in Char["CKmBndmSearch16"] },
  KernelThreshold <- Bndm16(Build)!KERNEL_THRESHOLD_CHARS,
  MinVectorText <- Bndm16(Build)!MinVectorText, LaneLen <- Bndm16(Build)!LaneLen,
  Lanes <- 4, WordBits <- Bndm16(Build)!MAX_BNDM_PATTERN_LEN,
  FullVerify <- TRUE

B16Assumptions ==
  B16!DataAssumption /\ B16!BuildAssumption /\ B16!NullAssumption /\ B16!TextsFitInt

\* The sizes of the class are sizes that the searcher's theorems allow.
LEMMA B16IsInstance == ASSUME ClassesAssumption, Build \in Archs PROVE B16Assumptions
<1>1. B16!DataAssumption
  BY DEF ClassesAssumption, Classes, B16!DataAssumption, B16!IsString
<1>2. B16!BuildAssumption
  BY DEF ClassesAssumption, Archs, B16!BuildAssumption,
     Bndm16!KERNEL_THRESHOLD_CHARS, Bndm16!LaneLen, Bndm16!MinVectorText,
     Bndm16!MAX_BNDM_PATTERN_LEN
<1>3. B16!NullAssumption
  <2>1. Slots("CKmBndmSearch16") =
          { Bndm16(Build)!HashCharOf(ch) : ch \in Char["CKmBndmSearch16"] }
    BY DEF Slots, Str16!HashCharOf, Bndm16!HashCharOf
  <2>2. /\ Null \notin [Slots("CKmBndmSearch16") -> Nat]
        /\ Null \notin [Slots("CKmBndmSearch16") -> SUBSET (0 .. 63)]
    BY DEF ClassesAssumption, Classes
  <2> QED BY <2>1, <2>2 DEF B16!NullAssumption, B16!Word, Bndm16!MAX_BNDM_PATTERN_LEN
<1>4. B16!TextsFitInt
  BY DEF ClassesAssumption, Classes, B16!TextsFitInt
<1> QED BY <1>1, <1>2, <1>3, <1>4 DEF B16Assumptions

\* The class's searcher is the one that the instance's theorems are about.
LEMMA B16SameSteps ==
  /\ [Bndm16(Build)!Searcher!Next]_(Bndm16(Build)!Searcher!vars) => [B16!Next]_(B16!vars)
  /\ B16!StepDescends => Bndm16(Build)!Searcher!StepDescends
  BY DEF Bndm16!Searcher!object, B16!object, Bndm16!Searcher!memory, B16!memory,
     Bndm16!Searcher!call, B16!call, Bndm16!Searcher!auto, B16!auto,
     Bndm16!Searcher!vars, B16!vars, Bndm16!Searcher!m, B16!m,
     Bndm16!Searcher!uLastIdx, B16!uLastIdx, Bndm16!Searcher!lastChar, B16!lastChar,
     Bndm16!Searcher!Bit, B16!Bit, Bndm16!Searcher!ShiftLeft, B16!ShiftLeft,
     Bndm16!Searcher!AllOnes, B16!AllOnes, Bndm16!Searcher!MAX_BNDM_PATTERN_LEN,
     B16!MAX_BNDM_PATTERN_LEN, Bndm16!Searcher!Rejected, B16!Rejected,
     Bndm16!Searcher!InitializeRejects, B16!InitializeRejects,
     Bndm16!Searcher!BindPattern, B16!BindPattern,
     Bndm16!Searcher!InitializeWithoutTable, B16!InitializeWithoutTable,
     Bndm16!Searcher!InitializeAllocates, B16!InitializeAllocates,
     Bndm16!Searcher!Populate, B16!Populate, Bndm16!Searcher!Destroy, B16!Destroy,
     Bndm16!Searcher!Call, B16!Call, Bndm16!Searcher!FindKernelUsesVector,
     B16!FindKernelUsesVector, Bndm16!Searcher!RunEngineUsesVector,
     B16!RunEngineUsesVector, Bndm16!Searcher!Find, B16!Find,
     Bndm16!Searcher!SaveState, B16!SaveState, Bndm16!Searcher!SaveStateFails,
     B16!SaveStateFails, Bndm16!Searcher!Return, B16!Return,
     Bndm16!Searcher!RestoreState, B16!RestoreState, Bndm16!Searcher!TakeResult,
     B16!TakeResult, Bndm16!Searcher!n, B16!n, Bndm16!Searcher!At, B16!At,
     Bndm16!Searcher!ScalarReturn, B16!ScalarReturn, Bndm16!Searcher!MemChrFrom,
     B16!MemChrFrom, Bndm16!Searcher!ScalarEntry, B16!ScalarEntry,
     Bndm16!Searcher!Slide, B16!Slide, Bndm16!Searcher!Window, B16!Window,
     Bndm16!Searcher!NextWindow, B16!NextWindow, Bndm16!Searcher!ReadNext,
     B16!ReadNext, Bndm16!Searcher!Automaton, B16!Automaton, Bndm16!Searcher!Stride,
     B16!Stride, Bndm16!Searcher!CheckMask, B16!CheckMask,
     Bndm16!Searcher!BlockFits, B16!BlockFits, Bndm16!Searcher!NextBlock,
     B16!NextBlock, Bndm16!Searcher!Block, B16!Block, Bndm16!Searcher!Lane,
     B16!Lane, Bndm16!Searcher!Tail, B16!Tail, Bndm16!Searcher!Initialize,
     B16!Initialize, Bndm16!Searcher!FindScalar, B16!FindScalar,
     Bndm16!Searcher!FindVector, B16!FindVector, Bndm16!Searcher!Step, B16!Step,
     Bndm16!Searcher!Terminated, B16!Terminated, Bndm16!Searcher!Next, B16!Next,
     Bndm16!Searcher!SearchEngine, B16!SearchEngine, Bndm16!Searcher!Empty,
     B16!Empty, Bndm16!Searcher!First, B16!First, Bndm16!Searcher!OccursAt,
     B16!OccursAt, Bndm16!Searcher!MemChr, B16!MemChr,
     Bndm16!Searcher!VerifyMiddleMatch, B16!VerifyMiddleMatch,
     Bndm16!Searcher!ToInt, B16!ToInt, Bndm16!Searcher!Min, B16!Min,
     Bndm16!Searcher!CallPhase, B16!CallPhase,
     Bndm16!Searcher!TextLeft, B16!TextLeft,
     Bndm16!Searcher!LoopLeft, B16!LoopLeft,
     Bndm16!Searcher!Descends, B16!Descends,
     Bndm16!Searcher!StepDescends, B16!StepDescends

\* ... and its properties are those of the theorems.
LEMMA B16SameProperties ==
  /\ B16!FindIsFirstMatch <=> Bndm16(Build)!Searcher!FindIsFirstMatch
  /\ B16!NothingSkipped <=> Bndm16(Build)!Searcher!NothingSkipped
  /\ B16!ReadsInBounds <=> Bndm16(Build)!Searcher!ReadsInBounds
  BY DEF Bndm16!Searcher!FindIsFirstMatch, B16!FindIsFirstMatch,
     Bndm16!Searcher!NothingSkipped, B16!NothingSkipped, Bndm16!Searcher!NoneBefore,
     B16!NoneBefore, Bndm16!Searcher!ReadsInBounds, B16!ReadsInBounds,
     Bndm16!Searcher!m, B16!m, Bndm16!Searcher!uLastIdx, B16!uLastIdx,
     Bndm16!Searcher!Stride, B16!Stride, Bndm16!Searcher!BasicOffset,
     B16!BasicOffset, Bndm16!Searcher!Occurrences, B16!Occurrences,
     Bndm16!Searcher!First, B16!First, Bndm16!Searcher!Min, B16!Min,
     Bndm16!Searcher!OccursAt, B16!OccursAt

LEMMA B16Starts ==
  ASSUME ClassesAssumption, Init, Build \in Archs, Arch = Build,
         SearchClass = "CKmBndmSearch16"
  PROVE  B16!IInv
<1>1. B16Assumptions
  BY B16IsInstance
<1>2. B16!Init
  BY DEF Init, Construct, Bndm16!Construct, Bndm16!Searcher!Init, B16!Init,
     Bndm16!Searcher!Empty, B16!Empty
<1> QED BY <1>1, <1>2, B16!InitIInv DEF B16Assumptions

\* Whatever is done to an object of the class, its searcher takes a step.
LEMMA B16Uses ==
  ASSUME Build \in Archs, Arch = Build, SearchClass = "CKmBndmSearch16", ObjectStep
  PROVE  [Bndm16(Build)!Searcher!Next]_(Bndm16(Build)!Searcher!vars)
<1>1. Bndm16(Build)!Next \/ UNCHANGED Bndm16(Build)!Searcher!vars
  <2>1. CASE UNCHANGED object
    BY <2>1 DEF object, horspool, bndm, common, Bndm16!Searcher!object,
       Bndm16!Searcher!memory, Bndm16!Searcher!call, Bndm16!Searcher!auto,
       Bndm16!Searcher!vars
  <2>2. CASE ~UNCHANGED object
    BY <2>2 DEF ObjectStep, OfClass, Initialize, Call, Runs, TakeResult, Destruct,
       AnyUse, Bndm16!Next, Bndm16!Searcher!SearchEngine
  <2> QED BY <2>1, <2>2
<1>2. Bndm16(Build)!Searcher!Initialize(Null, 1) =>
        Bndm16(Build)!Searcher!InitializeRejects(Null, 1)
  BY DEF Bndm16!Searcher!Initialize, Bndm16!Searcher!InitializeRejects,
     Bndm16!Searcher!InitializeAllocates, Bndm16!Searcher!InitializeWithoutTable,
     Bndm16!Searcher!BindPattern, Bndm16!Searcher!Rejected
<1>3. Bndm16(Build)!Runs => Bndm16(Build)!Searcher!Step
  BY DEF Bndm16!Runs, Bndm16!Populate, Bndm16!Find, Bndm16!RunEngineWithSafety,
     Bndm16!FindScalar, Bndm16!FindAVX2, Bndm16!FindNEON, Bndm16!Searcher!Step
<1> QED
  BY <1>1, <1>2, <1>3 DEF Bndm16!Next, Bndm16!Initialize, Bndm16!Call,
     Bndm16!TakeResult, Bndm16!Destruct, Bndm16!Searcher!Next

LEMMA B16Keeps ==
  ASSUME ClassesAssumption, Build \in Archs, Arch = Build,
         SearchClass = "CKmBndmSearch16", B16!IInv, ObjectStep
  PROVE  B16!IInv'
<1>1. B16Assumptions
  BY B16IsInstance
<1>2. [B16!Next]_(B16!vars)
  BY B16Uses, B16SameSteps, Zenon
<1> QED BY <1>1, <1>2, B16!NextIInv DEF B16Assumptions

\* What the searcher's invariant says of an object of the class.
LEMMA B16Knows ==
  ASSUME ClassesAssumption, Build \in Archs, Arch = Build,
         SearchClass = "CKmBndmSearch16", B16!IInv
  PROVE  /\ ObjectFacts
         /\ Bndm16(Build)!FindIsFirstMatch
         /\ Bndm16(Build)!NothingSkipped /\ Bndm16(Build)!ReadsInBounds
         /\ Bndm16(Build)!Searcher!StepDescends
<1>1. B16Assumptions
  BY B16IsInstance
<1>2. B16!PhaseInv /\ B16!NothingSkipped /\ B16!AnswerInv
  BY DEF B16!IInv
<1>3. B16!FindIsFirstMatch
  BY <1>2 DEF B16!AnswerInv, B16!FindIsFirstMatch
<1>4. B16!ReadsInBounds
  BY <1>1, B16!IInvReadsInBounds DEF B16Assumptions
<1>5. ObjectFacts
  <2>1. pc = "populate" => Table # Null
    BY <1>2 DEF B16!PhaseInv, Table
  <2>2. pc = "done" =>
          result = BasicOffset(text, cchTextLen, m_Pattern, m_cchPatternLen)
    BY <1>3 DEF B16!FindIsFirstMatch, B16!BasicOffset, BasicOffset, B16!Occurrences,
       Occurrences, B16!First, First, B16!Min, Min, B16!OccursAt, OccursAt, B16!m
  <2> QED BY <2>1, <2>2 DEF ObjectFacts
<1>6. B16!StepDescends
  BY <1>1, B16!CallStepDescends DEF B16Assumptions
<1>7. Bndm16(Build)!Searcher!StepDescends
  BY <1>6, B16SameSteps, Zenon
<1> QED BY <1>2, <1>3, <1>4, <1>5, <1>7, B16SameProperties DEF Bndm16!FindIsFirstMatch,
        Bndm16!NothingSkipped, Bndm16!ReadsInBounds

\* ... and of its automaton and the saved state.
LEMMA B16Inside ==
  ASSUME ClassesAssumption, Build \in Archs, B16!IInv
  PROVE  Bndm16(Build)!Searcher!XStateBalanced /\ Bndm16(Build)!Searcher!AutomatonExact
<1>1. B16Assumptions
  BY B16IsInstance
<1>2. B16!AutomatonExact
  BY DEF B16!IInv
<1>3. B16!XStateBalanced
  BY DEF B16!IInv
<1>4. /\ B16!XStateBalanced <=> Bndm16(Build)!Searcher!XStateBalanced
      /\ B16!AutomatonExact <=> Bndm16(Build)!Searcher!AutomatonExact
  BY DEF Bndm16!Searcher!XStateBalanced, B16!XStateBalanced,
     Bndm16!Searcher!AutomatonExact, B16!AutomatonExact,
     Bndm16!Searcher!ShiftAfter, B16!ShiftAfter, Bndm16!Searcher!WordAfter,
     B16!WordAfter, Bndm16!Searcher!Factor, B16!Factor, Bndm16!Searcher!m,
     B16!m, Bndm16!Searcher!Min, B16!Min
<1> QED BY <1>2, <1>3, <1>4

-----------------------------------------------------------------------------
(***************************************************************************)
(* The test and its object together.                                       *)
(***************************************************************************)

\* The object is in a state that its searcher's inductive invariant describes.
SearcherInv ==
  /\ BuildInv /\ Arch = Build
  /\ SearchClass = "CKmStrSearch8"   => S8!IInv
  /\ SearchClass = "CKmStrSearch16"  => S16!IInv
  /\ SearchClass = "CKmBndmSearch8"  => B8!IInv
  /\ SearchClass = "CKmBndmSearch16" => B16!IInv

Properties == FindIsFirstMatch /\ NothingSkipped /\ ReadsInBounds

\* A step of a call to the object is one towards the call's end.
StepDescends ==
  \A a \in Archs : Arch = a =>
    CASE SearchClass = "CKmStrSearch8"   -> Str8(a)!Searcher!StepDescends
      [] SearchClass = "CKmStrSearch16"  -> Str16(a)!Searcher!StepDescends
      [] SearchClass = "CKmBndmSearch8"  -> Bndm8(a)!Searcher!StepDescends
      [] SearchClass = "CKmBndmSearch16" -> Bndm16(a)!Searcher!StepDescends

\* The object's own table and the processor's state are what they must be.
TablesExact ==
  \A a \in Archs : Arch = a =>
    CASE SearchClass = "CKmStrSearch8"   -> Str8(a)!Searcher!SkipTableExact
      [] SearchClass = "CKmStrSearch16"  -> Str16(a)!Searcher!SkipTableExact
      [] SearchClass = "CKmBndmSearch8"  -> Bndm8(a)!Searcher!AutomatonExact
      [] SearchClass = "CKmBndmSearch16" -> Bndm16(a)!Searcher!AutomatonExact

XStateBalanced ==
  \A a \in Archs : Arch = a =>
    CASE SearchClass = "CKmStrSearch8"   -> Str8(a)!Searcher!XStateBalanced
      [] SearchClass = "CKmStrSearch16"  -> Str16(a)!Searcher!XStateBalanced
      [] SearchClass = "CKmBndmSearch8"  -> Bndm8(a)!Searcher!XStateBalanced
      [] SearchClass = "CKmBndmSearch16" -> Bndm16(a)!Searcher!XStateBalanced

LEMMA SearcherStarts ==
  ASSUME ClassesAssumption, Build \in Archs, Init, Arch = Build
  PROVE  SearcherInv
  BY S8Starts, S16Starts, B8Starts, B16Starts, TestStarts, Zenon DEF SearcherInv

LEMMA SearcherKeeps ==
  ASSUME ClassesAssumption, Build \in Archs, SearcherInv, TestInv, [Next]_vars
  PROVE  SearcherInv'
<1>1. ObjectStep /\ UNCHANGED <<SearchClass, Arch>>
  BY TestSteps
<1>2. Arch = Build /\ BuildInv
  BY DEF SearcherInv
<1>3. BuildInv' /\ Arch' = Build
  BY <1>1, <1>2 DEF BuildInv
<1>4. SearchClass' = SearchClass
  BY <1>1
<1>5. SearchClass' = "CKmStrSearch8" => S8!IInv'
  BY <1>1, <1>2, <1>4, S8Keeps, Zenon DEF SearcherInv
<1>6. SearchClass' = "CKmStrSearch16" => S16!IInv'
  BY <1>1, <1>2, <1>4, S16Keeps, Zenon DEF SearcherInv
<1>7. SearchClass' = "CKmBndmSearch8" => B8!IInv'
  BY <1>1, <1>2, <1>4, B8Keeps, Zenon DEF SearcherInv
<1>8. SearchClass' = "CKmBndmSearch16" => B16!IInv'
  BY <1>1, <1>2, <1>4, B16Keeps, Zenon DEF SearcherInv
<1> QED BY <1>3, <1>5, <1>6, <1>7, <1>8, Zenon DEF SearcherInv

LEMMA SearcherKnows ==
  ASSUME ClassesAssumption, Build \in Archs, SearcherInv
  PROVE  ObjectFacts /\ Properties
<1>1. SearchClass \in Classes /\ Arch = Build
  BY DEF SearcherInv, BuildInv
<1>2. CASE SearchClass = "CKmStrSearch8"
  <2>1. S8!IInv
    BY <1>2 DEF SearcherInv
  <2>2. /\ ObjectFacts
        /\ Str8(Build)!FindIsFirstMatch
        /\ Str8(Build)!NothingSkipped /\ Str8(Build)!ReadsInBounds
    BY <1>1, <1>2, <2>1, S8Knows
  <2> QED BY <1>1, <1>2, <2>2 DEF Properties, FindIsFirstMatch,
          NothingSkipped, ReadsInBounds
<1>3. CASE SearchClass = "CKmStrSearch16"
  <2>1. S16!IInv
    BY <1>3 DEF SearcherInv
  <2>2. /\ ObjectFacts
        /\ Str16(Build)!FindIsFirstMatch
        /\ Str16(Build)!NothingSkipped /\ Str16(Build)!ReadsInBounds
    BY <1>1, <1>3, <2>1, S16Knows
  <2> QED BY <1>1, <1>3, <2>2 DEF Properties, FindIsFirstMatch,
          NothingSkipped, ReadsInBounds
<1>4. CASE SearchClass = "CKmBndmSearch8"
  <2>1. B8!IInv
    BY <1>4 DEF SearcherInv
  <2>2. /\ ObjectFacts
        /\ Bndm8(Build)!FindIsFirstMatch
        /\ Bndm8(Build)!NothingSkipped /\ Bndm8(Build)!ReadsInBounds
    BY <1>1, <1>4, <2>1, B8Knows
  <2> QED BY <1>1, <1>4, <2>2 DEF Properties, FindIsFirstMatch,
          NothingSkipped, ReadsInBounds
<1>5. CASE SearchClass = "CKmBndmSearch16"
  <2>1. B16!IInv
    BY <1>5 DEF SearcherInv
  <2>2. /\ ObjectFacts
        /\ Bndm16(Build)!FindIsFirstMatch
        /\ Bndm16(Build)!NothingSkipped /\ Bndm16(Build)!ReadsInBounds
    BY <1>1, <1>5, <2>1, B16Knows
  <2> QED BY <1>1, <1>5, <2>2 DEF Properties, FindIsFirstMatch,
          NothingSkipped, ReadsInBounds
<1> QED BY <1>1, <1>2, <1>3, <1>4, <1>5 DEF Classes

LEMMA SearcherDescends ==
  ASSUME ClassesAssumption, Build \in Archs, SearcherInv
  PROVE  StepDescends
<1>1. SearchClass \in Classes /\ Arch = Build
  BY DEF SearcherInv, BuildInv
<1>2. /\ SearchClass = "CKmStrSearch8"   => Str8(Build)!Searcher!StepDescends
      /\ SearchClass = "CKmStrSearch16"  => Str16(Build)!Searcher!StepDescends
      /\ SearchClass = "CKmBndmSearch8"  => Bndm8(Build)!Searcher!StepDescends
      /\ SearchClass = "CKmBndmSearch16" => Bndm16(Build)!Searcher!StepDescends
  BY <1>1, S8Knows, S16Knows, B8Knows, B16Knows, Zenon DEF SearcherInv
<1> QED BY <1>1, <1>2 DEF StepDescends, Classes

LEMMA SearcherInside ==
  ASSUME ClassesAssumption, Build \in Archs, SearcherInv
  PROVE  TablesExact /\ XStateBalanced
<1>1. SearchClass \in Classes /\ Arch = Build
  BY DEF SearcherInv, BuildInv
<1>2. /\ SearchClass = "CKmStrSearch8"   => Str8(Build)!Searcher!SkipTableExact
      /\ SearchClass = "CKmStrSearch16"  => Str16(Build)!Searcher!SkipTableExact
      /\ SearchClass = "CKmBndmSearch8"  => Bndm8(Build)!Searcher!AutomatonExact
      /\ SearchClass = "CKmBndmSearch16" => Bndm16(Build)!Searcher!AutomatonExact
  BY <1>1, S8Inside, S16Inside, B8Inside, B16Inside, Zenon DEF SearcherInv
<1>3. /\ SearchClass = "CKmStrSearch8"   => Str8(Build)!Searcher!XStateBalanced
      /\ SearchClass = "CKmStrSearch16"  => Str16(Build)!Searcher!XStateBalanced
      /\ SearchClass = "CKmBndmSearch8"  => Bndm8(Build)!Searcher!XStateBalanced
      /\ SearchClass = "CKmBndmSearch16" => Bndm16(Build)!Searcher!XStateBalanced
  BY <1>1, S8Inside, S16Inside, B8Inside, B16Inside, Zenon DEF SearcherInv
<1> QED BY <1>1, <1>2, <1>3 DEF TablesExact, XStateBalanced, Classes

(***************************************************************************)
(* Whatever the test or another caller does, the object is in its          *)
(* searcher's invariant and the test knows what it passed to it.  The two  *)
(* rest on each other: the searcher is called as it allows because of what *)
(* the test knows, and the test's verdict is right because the searcher's  *)
(* answers are.                                                            *)
(***************************************************************************)
THEOREM Invariance ==
  ASSUME ClassesAssumption, Build \in Archs
  PROVE  Safety /\ Arch = Build => [](SearcherInv /\ TestInv)
<1>1. Init /\ Arch = Build => SearcherInv /\ TestInv
  BY SearcherStarts, TestStarts
<1>2. SearcherInv /\ TestInv /\ [Next]_vars => SearcherInv'
  BY SearcherKeeps
<1>3. SearcherInv => ObjectFacts
  BY SearcherKnows
<1>4. SearcherInv => BuildInv
  BY DEF SearcherInv
<1>5. TestInv /\ BuildInv /\ ObjectFacts /\ ObjectFacts' /\ [Next]_vars => TestInv'
  BY TestKeeps
<1> QED BY <1>1, <1>2, <1>3, <1>4, <1>5, PTL DEF Safety

(***************************************************************************)
(* Find answers as the naive matcher does: each class, on each build, with *)
(* every engine and every fallback, at the sizes of the code.              *)
(***************************************************************************)
THEOREM Correct ==
  ASSUME ClassesAssumption, Build \in Archs
  PROVE  Safety /\ Arch = Build => []FindIsFirstMatch
<1>1. SearcherInv => FindIsFirstMatch
  BY SearcherKnows DEF Properties
<1> QED BY <1>1, Invariance, PTL

(***************************************************************************)
(* No block, jump, window or tail passes over an occurrence at the code's  *)
(* own boundaries.                                                         *)
(***************************************************************************)
THEOREM JumpsAreSafe ==
  ASSUME ClassesAssumption, Build \in Archs
  PROVE  Safety /\ Arch = Build => []NothingSkipped
<1>1. SearcherInv => NothingSkipped
  BY SearcherKnows DEF Properties
<1> QED BY <1>1, Invariance, PTL

(***************************************************************************)
(* No load and no index of the four classes leaves its buffer.             *)
(***************************************************************************)
THEOREM MemorySafe ==
  ASSUME ClassesAssumption, Build \in Archs
  PROVE  Safety /\ Arch = Build => []ReadsInBounds
<1>1. SearcherInv => ReadsInBounds
  BY SearcherKnows DEF Properties
<1> QED BY <1>1, Invariance, PTL

(***************************************************************************)
(* No call of the four classes runs forever: with the code's own tables,   *)
(* registers and words, every step of Initialize and of Find, whoever      *)
(* called them, descends in a well-founded order.                          *)
(***************************************************************************)
THEOREM CallsDescend ==
  ASSUME ClassesAssumption, Build \in Archs
  PROVE  Safety /\ Arch = Build => [][StepDescends]_vars
<1>1. SearcherInv => [StepDescends]_vars
  BY SearcherDescends
<1> QED BY <1>1, Invariance, PTL

(***************************************************************************)
(* With the code's own hash functions, two characters of one slot keep the *)
(* smaller jump, and the automaton's word and its shift are what the       *)
(* characters read say, in a word of the code's own width.                 *)
(***************************************************************************)
THEOREM CollisionsAreSafe ==
  ASSUME ClassesAssumption, Build \in Archs
  PROVE  Safety /\ Arch = Build => []TablesExact
<1>1. SearcherInv => TablesExact
  BY SearcherInside
<1> QED BY <1>1, Invariance, PTL

(***************************************************************************)
(* Each class saves the extended state around its vector engine and gives  *)
(* it back, in either build, with whatever the kernel answers.             *)
(***************************************************************************)
THEOREM StateRestored ==
  ASSUME ClassesAssumption, Build \in Archs
  PROVE  Safety /\ Arch = Build => []XStateBalanced
<1>1. SearcherInv => XStateBalanced
  BY SearcherInside
<1> QED BY <1>1, Invariance, PTL

(***************************************************************************)
(* A test that compared has passed, and one that returned has given its    *)
(* table back: for want of a table or an abort alone does a test fail.     *)
(***************************************************************************)
THEOREM VerdictIsTrue ==
  ASSUME ClassesAssumption, Build \in Archs
  PROVE  Safety /\ Arch = Build => []TestTellsTheTruth
BY Invariance, TestDecides, PTL
=============================================================================
