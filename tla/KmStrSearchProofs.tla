-------------------------- MODULE KmStrSearchProofs --------------------------
(***************************************************************************)
(* IInv is inductive, for every alphabet, hash, pattern, text, register    *)
(* size and threshold; with it, Find returns the first match, the searcher *)
(* implements StringFinder, and every call comes to an end.                *)
(***************************************************************************)
EXTENDS KmStrSearch, MatchingLemmas

TextsFitInt == \A t \in Texts : t[2] <= IntMax

LEMMA EmptyIsString == \A n : n = 0 => Empty \in [0 .. n-1 -> Char]
BY DEF Empty

LEMMA InitIInv == Init => IInv
<1> SUFFICES ASSUME Init PROVE IInv
  OBVIOUS
<1>1. TypeOK
  <2>1. m_Pattern \in [0 .. m_cchPatternLen-1 -> Char]
    <3>1. m_Pattern = Empty /\ m_cchPatternLen = 0
      BY DEF Init
    <3> QED
      BY <3>1, EmptyIsString, Zenon
  <2>2. text \in [0 .. cchTextLen-1 -> Char]
    <3>1. text = Empty /\ cchTextLen = 0
      BY DEF Init
    <3> QED
      BY <3>1, EmptyIsString, Zenon
  <2>3. /\ m_cchPatternLen \in Nat /\ cchTextLen \in Nat
        /\ poolTables \in Nat /\ inits \in 0 .. MaxInits
        /\ uI \in Nat /\ lane \in Nat /\ uK \in Nat /\ uJ \in Nat /\ result \in Int
    BY BuildAssumption DEF Init
  <2>4. /\ m_SkipTable = Null
        /\ m_bHasAVX2 \in BOOLEAN /\ cpuHasAVX2 \in BOOLEAN /\ saved \in BOOLEAN
        /\ pc \in PCs /\ engine \in SearchEngine
    BY DEF Init, PCs, SearchEngine
  <2> QED
    BY <2>1, <2>2, <2>3, <2>4 DEF TypeOK
<1>2. XStateBalanced
  BY DEF Init, XStateBalanced
<1>3. PhaseInv
  BY BuildAssumption DEF Init, PhaseInv, Usable
<1>4. SkipInv /\ CursorInv /\ NothingSkipped /\ AnswerInv
  BY DEF Init, SkipInv, CursorInv, NothingSkipped, AnswerInv
<1> QED
  BY <1>1, <1>2, <1>3, <1>4 DEF IInv

LEMMA InitializeRejectsIInv ==
  ASSUME IInv, NEW p, NEW m, InitializeRejects(p, m)
  PROVE  IInv'
<1> USE DEF IInv, InitializeRejects, object, call, cursor
<1>1. TypeOK'
  BY BuildAssumption DEF TypeOK
<1>2. XStateBalanced' /\ PhaseInv'
  BY DEF XStateBalanced, PhaseInv, Usable, uLastIdx
<1>3. SkipInv'
  BY DEF SkipInv, Skip, uLastIdx
<1>4. CursorInv' /\ NothingSkipped' /\ AnswerInv'
  BY DEF CursorInv, NothingSkipped, AnswerInv
<1> QED
  BY <1>1, <1>2, <1>3, <1>4

LEMMA InitializeAllocatesIInv ==
  ASSUME IInv, NEW s \in Patterns, InitializeAllocates(s[1], s[2])
  PROVE  IInv'
<1> USE DEF InitializeAllocates, BindPattern, call, cursor
<1>0. /\ s[2] \in Nat /\ s[1] \in [0 .. s[2]-1 -> Char] /\ s[2] # 0
      /\ pc = "idle" /\ pc' = "populate" /\ TypeOK /\ XStateBalanced /\ PhaseInv
  BY DataAssumption DEF IInv, IsString, Rejected
<1>1. TypeOK'
  <2>1. m_SkipTable' \in [Slot -> Nat] /\ inits' \in 0 .. MaxInits /\ poolTables' \in Nat
    BY <1>0, BuildAssumption DEF TypeOK
  <2> QED
    BY <1>0, <2>1 DEF TypeOK, PCs
<1>2. XStateBalanced'
  BY <1>0 DEF XStateBalanced
<1>3. PhaseInv'
  <2>1. m_SkipTable' # Null /\ poolTables' >= 1
    BY <1>0, NullAssumption DEF TypeOK
  <2> QED
    BY <1>0, <2>1 DEF PhaseInv, uLastIdx
<1>4. SkipInv'
  <2>1. uI' = 0 /\ m_cchPatternLen' = s[2] /\ m_SkipTable' = [h \in Slot |-> s[2]]
    BY <1>0 DEF PhaseInv
  <2> QED
    BY <2>1, <1>0 DEF SkipInv, Skip, uLastIdx
<1>5. CursorInv' /\ NothingSkipped' /\ AnswerInv'
  BY <1>0 DEF CursorInv, NothingSkipped, AnswerInv
<1> QED
  BY <1>1, <1>2, <1>3, <1>4, <1>5 DEF IInv

LEMMA InitializeOutOfMemoryIInv ==
  ASSUME IInv, NEW s \in Patterns, InitializeOutOfMemory(s[1], s[2])
  PROVE  IInv'
<1> USE DEF InitializeOutOfMemory, BindPattern, call, cursor
<1>0. /\ s[2] \in Nat /\ s[1] \in [0 .. s[2]-1 -> Char] /\ s[2] # 0
      /\ pc = "idle" /\ pc' = "idle" /\ TypeOK /\ XStateBalanced /\ PhaseInv
  BY DataAssumption DEF IInv, IsString, Rejected
<1>1. TypeOK'
  BY <1>0, BuildAssumption DEF TypeOK
<1>2. XStateBalanced' /\ PhaseInv'
  BY <1>0 DEF XStateBalanced, PhaseInv
<1>3. SkipInv' /\ CursorInv' /\ NothingSkipped' /\ AnswerInv'
  BY <1>0 DEF SkipInv, CursorInv, NothingSkipped, AnswerInv
<1> QED
  BY <1>1, <1>2, <1>3 DEF IInv

LEMMA PopulateIInv == ASSUME IInv, Populate PROVE IInv'
<1> USE DEF Populate, memory, call
<1>0. /\ TypeOK /\ XStateBalanced /\ PhaseInv /\ SkipInv /\ pc = "populate"
      /\ m_SkipTable \in [Slot -> Nat] /\ uLastIdx \in Nat /\ uI \in Nat
      /\ m_cchPatternLen \in Nat
      /\ m_cchPatternLen >= 1 /\ uI <= uLastIdx
  BY DEF IInv, TypeOK, PhaseInv, uLastIdx
<1>1. CASE uI < uLastIdx
  <2> DEFINE h0 == HashChar[m_Pattern[uI]]
             d0 == uLastIdx - uI
  <2>1. /\ m_SkipTable' = [m_SkipTable EXCEPT ![h0] = d0]
        /\ uI' = uI + 1 /\ pc' = "populate"
        /\ uI \in 0 .. m_cchPatternLen - 1
    BY <1>0, <1>1 DEF TypeOK, uLastIdx
  <2>2. h0 \in Slot /\ d0 \in 1 .. m_cchPatternLen - 1
    BY <1>0, <1>1, <2>1, DataAssumption DEF TypeOK, uLastIdx
  <2>3. m_SkipTable' \in [Slot -> Nat]
    BY <1>0, <2>1, <2>2
  <2>4. TypeOK'
    BY <1>0, <2>1, <2>3 DEF TypeOK
  <2>5. XStateBalanced' /\ PhaseInv'
    BY <1>0, <1>1, <2>1, <2>3, NullAssumption DEF XStateBalanced, PhaseInv, uLastIdx, TypeOK
  <2>6. SkipInv'
    <3>1. uLastIdx' = uLastIdx /\ m_Pattern' = m_Pattern /\ m_cchPatternLen' = m_cchPatternLen
      BY DEF uLastIdx
    <3>2. ASSUME NEW h \in Slot
          PROVE  /\ m_SkipTable'[h] \in 1 .. m_cchPatternLen
                 /\ \/ m_SkipTable'[h] = m_cchPatternLen
                    \/ \E j \in 0 .. uI :
                          HashChar[m_Pattern[j]] = h /\ m_SkipTable'[h] = uLastIdx - j
      <4>1. CASE h = h0
        <5>1. m_SkipTable'[h] = d0 /\ uI \in 0 .. uI
          BY <1>0, <2>1, <2>2, <4>1
        <5>2. HashChar[m_Pattern[uI]] = h
          BY <4>1
        <5>3. m_SkipTable'[h] \in 1 .. m_cchPatternLen
          BY <1>0, <2>2, <5>1
        <5> QED
          BY <5>1, <5>2, <5>3
      <4>2. CASE h # h0
        <5>1. m_SkipTable'[h] = m_SkipTable[h]
          BY <1>0, <2>1, <4>2
        <5>2. /\ m_SkipTable[h] \in 1 .. m_cchPatternLen
              /\ \/ m_SkipTable[h] = m_cchPatternLen
                 \/ \E j \in 0 .. uI - 1 :
                       HashChar[m_Pattern[j]] = h /\ m_SkipTable[h] = uLastIdx - j
          BY <1>0, NullAssumption DEF SkipInv
        <5> QED
          BY <5>1, <5>2, <2>1
      <4> QED
        BY <4>1, <4>2
    <3>3. ASSUME NEW j \in 0 .. uI
          PROVE  m_SkipTable'[HashChar[m_Pattern[j]]] <= uLastIdx - j
      <4>1. j \in 0 .. m_cchPatternLen - 1 /\ HashChar[m_Pattern[j]] \in Slot
        BY <1>0, <2>1, DataAssumption DEF TypeOK
      <4>2. CASE HashChar[m_Pattern[j]] = h0
        BY <1>0, <2>1, <2>2, <4>1, <4>2
      <4>3. CASE HashChar[m_Pattern[j]] # h0
        <5>1. j # uI
          BY <4>3
        <5>2. m_SkipTable[HashChar[m_Pattern[j]]] <= uLastIdx - j
          BY <1>0, <5>1, <2>1, NullAssumption DEF SkipInv, Skip
        <5> QED
          BY <1>0, <2>1, <4>1, <4>3, <5>2
      <4> QED
        BY <4>2, <4>3
    <3>4. uI' - 1 = uI
      BY <2>1
    <3> QED
      BY <1>0, <2>1, <3>1, <3>2, <3>3, <3>4 DEF SkipInv, Skip
  <2>7. CursorInv' /\ NothingSkipped' /\ AnswerInv'
    BY <2>1 DEF CursorInv, NothingSkipped, AnswerInv
  <2> QED
    BY <2>4, <2>5, <2>6, <2>7 DEF IInv
<1>2. CASE uI >= uLastIdx
  <2>1. /\ uI = uLastIdx /\ uI' = 0 /\ pc' = "idle" /\ m_SkipTable' = m_SkipTable
    BY <1>0, <1>2 DEF TypeOK
  <2>2. TypeOK'
    BY <1>0, <2>1 DEF TypeOK, PCs
  <2>3. XStateBalanced' /\ PhaseInv'
    BY <1>0, <2>1 DEF XStateBalanced, PhaseInv
  <2>4. SkipInv'
    BY <1>0, <2>1 DEF SkipInv, Skip, uLastIdx
  <2>5. CursorInv' /\ NothingSkipped' /\ AnswerInv'
    BY <2>1 DEF CursorInv, NothingSkipped, AnswerInv
  <2> QED
    BY <2>2, <2>3, <2>4, <2>5 DEF IInv
<1> QED
  BY <1>0, <1>1, <1>2 DEF TypeOK

LEMMA DestroyIInv == ASSUME IInv, Destroy PROVE IInv'
<1> USE DEF Destroy, object, call, cursor
<1>0. TypeOK /\ XStateBalanced /\ PhaseInv /\ SkipInv /\ pc = "idle" /\ pc' = "destroyed"
  BY DEF IInv
<1>1. TypeOK'
  BY <1>0 DEF TypeOK, PhaseInv, PCs
<1>2. XStateBalanced' /\ PhaseInv'
  BY <1>0 DEF XStateBalanced, PhaseInv
<1>3. SkipInv'
  BY <1>0 DEF SkipInv, Skip, uLastIdx
<1>4. CursorInv' /\ NothingSkipped' /\ AnswerInv'
  BY <1>0 DEF CursorInv, NothingSkipped, AnswerInv
<1> QED
  BY <1>1, <1>2, <1>3, <1>4 DEF IInv

LEMMA CallIInv ==
  ASSUME TextsFitInt, IInv, NEW t \in Texts, NEW e \in SearchEngine, Call(t[1], t[2], e)
  PROVE  IInv'
<1> USE DEF Call, object, memory, cursor
<1>0. /\ TypeOK /\ XStateBalanced /\ PhaseInv /\ SkipInv /\ pc = "idle" /\ pc' = "find"
      /\ t[2] \in Nat /\ t[1] \in [0 .. t[2]-1 -> Char] /\ t[2] <= IntMax
  BY DataAssumption DEF IInv, IsString, TextsFitInt
<1>1. TypeOK'
  BY <1>0 DEF TypeOK, PCs
<1>2. XStateBalanced' /\ PhaseInv'
  BY <1>0 DEF XStateBalanced, PhaseInv, Usable
<1>3. SkipInv'
  BY <1>0 DEF SkipInv, Skip, uLastIdx
<1>4. CursorInv' /\ NothingSkipped' /\ AnswerInv'
  BY <1>0 DEF CursorInv, NothingSkipped, AnswerInv
<1> QED
  BY <1>1, <1>2, <1>3, <1>4 DEF IInv

LEMMA FindIInv == ASSUME IInv, Find PROVE IInv'
<1> USE DEF Find, object, memory, call, cursor
<1>0. /\ TypeOK /\ XStateBalanced /\ PhaseInv /\ SkipInv /\ pc = "find"
      /\ pc' \in {"done", "save", "scalar"}
  BY DEF IInv
<1>1. TypeOK'
  BY <1>0 DEF TypeOK, PCs, SearchEngine
<1>2. XStateBalanced'
  BY <1>0 DEF XStateBalanced
<1>3. PhaseInv'
  BY <1>0 DEF PhaseInv, Usable, TypeOK
<1>4. SkipInv'
  BY <1>0 DEF SkipInv, Skip, uLastIdx
<1>5. CursorInv' /\ NothingSkipped'
  BY <1>0 DEF CursorInv, NothingSkipped, NoneBefore, PhaseInv, TypeOK
<1>6. AnswerInv'
  BY <1>0 DEF AnswerInv, PhaseInv, BasicOffset
<1> QED
  BY <1>1, <1>2, <1>3, <1>4, <1>5, <1>6 DEF IInv

LEMMA SaveStateIInv == ASSUME IInv, SaveState \/ SaveStateFails PROVE IInv'
<1> USE DEF SaveState, SaveStateFails, object, memory, call, cursor
<1>0. /\ TypeOK /\ XStateBalanced /\ PhaseInv /\ SkipInv /\ pc = "save"
      /\ pc' \in {"scalar", "block"}
      /\ pc' = "block" => saved' = TRUE /\ m_cchPatternLen >= 2
      /\ saved' \in BOOLEAN
  <2>1. TypeOK /\ XStateBalanced /\ PhaseInv /\ SkipInv /\ pc = "save"
        /\ m_cchPatternLen \in Nat /\ saved \in BOOLEAN
    BY DEF IInv, TypeOK
  <2>2. CASE SaveState
    BY <2>1, <2>2
  <2>3. CASE SaveStateFails
    BY <2>1, <2>3
  <2> QED
    BY <2>1, <2>2, <2>3
<1>1. TypeOK'
  BY <1>0 DEF TypeOK, PCs
<1>2. XStateBalanced'
  BY <1>0 DEF XStateBalanced
<1>3. PhaseInv'
  BY <1>0 DEF PhaseInv
<1>4. SkipInv'
  BY <1>0 DEF SkipInv, Skip, uLastIdx
<1>5. CursorInv' /\ NothingSkipped' /\ AnswerInv'
  BY <1>0 DEF CursorInv, NothingSkipped, NoneBefore, PhaseInv, TypeOK, AnswerInv
<1> QED
  BY <1>1, <1>2, <1>3, <1>4, <1>5 DEF IInv

LEMMA RestoreStateIInv == ASSUME IInv, RestoreState PROVE IInv'
<1> USE DEF RestoreState, object, memory, call, cursor
<1>0. TypeOK /\ XStateBalanced /\ PhaseInv /\ SkipInv /\ AnswerInv /\ pc = "restore" /\ pc' = "done"
  BY DEF IInv
<1>1. TypeOK'
  BY <1>0 DEF TypeOK, PCs
<1>2. XStateBalanced' /\ PhaseInv'
  BY <1>0 DEF XStateBalanced, PhaseInv
<1>3. SkipInv'
  BY <1>0 DEF SkipInv, Skip, uLastIdx
<1>4. CursorInv' /\ NothingSkipped' /\ AnswerInv'
  BY <1>0 DEF CursorInv, NothingSkipped, AnswerInv
<1> QED
  BY <1>1, <1>2, <1>3, <1>4 DEF IInv

LEMMA TakeResultIInv == ASSUME IInv, TakeResult PROVE IInv'
<1> USE DEF TakeResult, object, memory
<1>0. TypeOK /\ XStateBalanced /\ PhaseInv /\ SkipInv /\ pc = "done" /\ pc' = "idle"
  BY DEF IInv
<1>1. TypeOK'
  <2>1. text' \in [0 .. cchTextLen'-1 -> Char]
    <3>1. text' = Empty /\ cchTextLen' = 0
      OBVIOUS
    <3> QED
      BY <3>1, EmptyIsString, Zenon
  <2> QED
    BY <1>0, <2>1 DEF TypeOK, PCs
<1>2. XStateBalanced' /\ PhaseInv'
  BY <1>0, BuildAssumption DEF XStateBalanced, PhaseInv
<1>3. SkipInv'
  BY <1>0 DEF SkipInv, Skip, uLastIdx
<1>4. CursorInv' /\ NothingSkipped' /\ AnswerInv'
  BY <1>0 DEF CursorInv, NothingSkipped, AnswerInv
<1> QED
  BY <1>1, <1>2, <1>3, <1>4 DEF IInv

-----------------------------------------------------------------------------
(***************************************************************************)
(* The engines.                                                            *)
(***************************************************************************)
Searching == {"save", "block", "lane", "scalar", "scan", "verify"}

\* What no step of an engine touches.
EngineFrame == UNCHANGED <<object, cpuHasAVX2, memory, saved, call, engine>>

LEMMA SearchFacts ==
  ASSUME IInv, pc \in Searching
  PROVE  /\ m_cchPatternLen \in Nat /\ cchTextLen \in Nat /\ IntMax \in Nat
         /\ m_cchPatternLen >= 1 /\ m_cchPatternLen <= cchTextLen
         /\ cchTextLen <= IntMax
         /\ uLastIdx \in Nat /\ uLastIdx = m_cchPatternLen - 1
         /\ m_Pattern \in [0 .. m_cchPatternLen-1 -> Char]
         /\ text \in [0 .. cchTextLen-1 -> Char]
         /\ m_SkipTable \in [Slot -> Nat] /\ m_SkipTable # Null
         /\ uI \in Nat /\ lane \in Nat /\ uK \in Nat /\ uJ \in Nat
         /\ result \in Int
BY BuildAssumption DEF IInv, TypeOK, PhaseInv, Searching, uLastIdx

(***************************************************************************)
(* The skip of the character at a window's end e is at least 1, and no     *)
(* occurrence ends after e and before e plus that skip.                    *)
(***************************************************************************)
LEMMA SkipIsSafe ==
  ASSUME IInv, pc \in Searching, NEW e \in 0 .. cchTextLen - 1, uLastIdx <= e
  PROVE  /\ Skip(text[e]) \in 1 .. m_cchPatternLen
         /\ \A s \in 0 .. cchTextLen - m_cchPatternLen :
              e < s + uLastIdx /\ s + uLastIdx < e + Skip(text[e]) =>
                ~OccursAt(text, m_Pattern, m_cchPatternLen, s)
<1>0. /\ m_cchPatternLen \in Nat /\ cchTextLen \in Nat /\ m_cchPatternLen >= 1
      /\ uLastIdx = m_cchPatternLen - 1 /\ text[e] \in Char
      /\ m_SkipTable # Null /\ SkipInv /\ pc # "populate"
  BY SearchFacts DEF IInv, Searching
<1>1. Skip(text[e]) \in 1 .. m_cchPatternLen
  BY <1>0, DataAssumption DEF SkipInv, Skip
<1>2. ASSUME NEW s \in 0 .. cchTextLen - m_cchPatternLen,
             e < s + uLastIdx, s + uLastIdx < e + Skip(text[e]),
             OccursAt(text, m_Pattern, m_cchPatternLen, s)
      PROVE  FALSE
  <2> DEFINE j == e - s
  <2>1. j \in 0 .. uLastIdx - 1 /\ s + j = e
    BY <1>0, <1>1, <1>2
  <2>2. m_Pattern[j] = text[e]
    BY <1>0, <1>2, <2>1 DEF OccursAt
  <2>3. Skip(m_Pattern[j]) <= uLastIdx - j
    BY <1>0, <2>1 DEF SkipInv
  <2>4. Skip(text[e]) <= uLastIdx - j
    BY <2>2, <2>3
  <2> QED
    BY <1>0, <1>1, <1>2, <2>1, <2>4
<1> QED
  BY <1>1, <1>2

(***************************************************************************)
(* What justifies an answer: the pattern stands there and nowhere before,  *)
(* or it cannot stand anywhere.                                            *)
(***************************************************************************)
LEMMA FoundIsAnswer ==
  ASSUME IInv, pc \in Searching, NEW r \in Nat, r <= cchTextLen - m_cchPatternLen,
         OccursAt(text, m_Pattern, m_cchPatternLen, r), NoneBefore(r)
  PROVE  r = BasicOffset(text, cchTextLen, m_Pattern, m_cchPatternLen)
<1>1. /\ m_cchPatternLen \in Nat /\ cchTextLen \in Nat /\ m_cchPatternLen >= 1
  BY SearchFacts
<1> QED
  BY <1>1, BasicOffsetIs DEF NoneBefore

LEMMA NotFoundIsAnswer ==
  ASSUME IInv, pc \in Searching,
         NEW k \in Int, k > cchTextLen - m_cchPatternLen, NoneBefore(k)
  PROVE  -1 = BasicOffset(text, cchTextLen, m_Pattern, m_cchPatternLen)
<1>1. /\ m_cchPatternLen \in Nat /\ cchTextLen \in Nat /\ m_cchPatternLen >= 1
  BY SearchFacts
<1>2. \A s \in 0 .. cchTextLen - m_cchPatternLen :
         ~OccursAt(text, m_Pattern, m_cchPatternLen, s)
  BY <1>1 DEF NoneBefore
<1> QED
  BY <1>1, <1>2, BasicOffsetNone

LEMMA ReturnIInv ==
  ASSUME IInv, pc \in Searching, EngineFrame, NEW r \in Int, Return(r),
         uI' \in Nat, lane' \in Nat, uK' \in Nat, uJ' \in Nat,
         r = BasicOffset(text, cchTextLen, m_Pattern, m_cchPatternLen)
  PROVE  IInv'
<1> USE DEF EngineFrame, object, memory, call, Return
<1>0. /\ TypeOK /\ XStateBalanced /\ PhaseInv /\ SkipInv
      /\ pc' = IF saved THEN "restore" ELSE "done"
      /\ pc # "populate" /\ result' = r
  BY DEF IInv, Searching
<1>1. TypeOK'
  BY <1>0 DEF TypeOK, PCs
<1>2. XStateBalanced'
  BY <1>0 DEF XStateBalanced
<1>3. PhaseInv'
  BY <1>0 DEF PhaseInv, Searching
<1>4. SkipInv'
  BY <1>0 DEF SkipInv, Skip, uLastIdx
<1>5. CursorInv' /\ NothingSkipped' /\ AnswerInv'
  BY <1>0 DEF CursorInv, NothingSkipped, AnswerInv
<1> QED
  BY <1>1, <1>2, <1>3, <1>4, <1>5 DEF IInv

(***************************************************************************)
(* The casts of FindScalar's return and of the tail change no offset.      *)
(***************************************************************************)
LEMMA ScalarReturnIInv ==
  ASSUME IInv, pc \in Searching, EngineFrame, NEW r \in Int, ScalarReturn(r),
         uI' \in Nat, lane' \in Nat, uK' \in Nat, uJ' \in Nat,
         \/ /\ r = -1
            /\ NoneBefore(cchTextLen - m_cchPatternLen + 1)
         \/ /\ r >= 0 /\ uI + r <= cchTextLen - m_cchPatternLen
            /\ OccursAt(text, m_Pattern, m_cchPatternLen, uI + r)
            /\ NoneBefore(uI + r)
  PROVE  IInv'
<1>0. /\ m_cchPatternLen \in Nat /\ cchTextLen \in Nat /\ uI \in Nat /\ IntMax \in Nat
      /\ m_cchPatternLen >= 1 /\ cchTextLen <= IntMax
  BY SearchFacts
<1>1. CASE r = -1 /\ NoneBefore(cchTextLen - m_cchPatternLen + 1)
  <2>1. ToInt(r, IntMax) = -1
    BY <1>0, <1>1, ToIntInRange
  <2>2. Return(-1)
    BY <2>1 DEF ScalarReturn
  <2>3. -1 = BasicOffset(text, cchTextLen, m_Pattern, m_cchPatternLen)
    BY <1>0, <1>1, NotFoundIsAnswer
  <2> QED
    BY <2>2, <2>3, ReturnIInv
<1>2. CASE /\ r >= 0 /\ uI + r <= cchTextLen - m_cchPatternLen
           /\ OccursAt(text, m_Pattern, m_cchPatternLen, uI + r)
           /\ NoneBefore(uI + r)
  <2>1. r \in -1 .. IntMax /\ uI + r \in -1 .. IntMax /\ r # -1 /\ uI + r \in Nat
    BY <1>0, <1>2
  <2>2. ToInt(r, IntMax) = r /\ ToInt(uI + r, IntMax) = uI + r
    BY <1>0, <2>1, ToIntInRange
  <2>3. Return(uI + r)
    BY <2>1, <2>2 DEF ScalarReturn
  <2>4. uI + r = BasicOffset(text, cchTextLen, m_Pattern, m_cchPatternLen)
    BY <1>2, <2>1, FoundIsAnswer
  <2>5. uI + r \in Int
    BY <2>1
  <2> QED
    BY <2>3, <2>4, <2>5, ReturnIInv
<1> QED
  BY <1>1, <1>2

LEMMA MemChrFromIsFirst ==
  ASSUME IInv, pc \in Searching, NEW ch, NEW k \in Nat
  PROVE  \/ /\ MemChrFrom(ch, k) = -1
            /\ \A i \in uI + k .. cchTextLen - 1 : text[i] # ch
         \/ /\ MemChrFrom(ch, k) \in Nat /\ MemChrFrom(ch, k) >= k
            /\ uI + MemChrFrom(ch, k) < cchTextLen
            /\ text[uI + MemChrFrom(ch, k)] = ch
            /\ \A i \in uI + k .. uI + MemChrFrom(ch, k) - 1 : text[i] # ch
<1> DEFINE q == MemChr(text, ch, uI + k, cchTextLen)
<1>0. uI \in Nat /\ cchTextLen \in Nat /\ uI + k \in Nat
  BY SearchFacts
<1>1. CASE q = -1 /\ \A i \in uI + k .. cchTextLen - 1 : text[i] # ch
  BY <1>1 DEF MemChrFrom
<1>2. CASE /\ q \in uI + k .. cchTextLen - 1 /\ text[q] = ch
           /\ \A i \in uI + k .. q - 1 : text[i] # ch
  <2>1. q # -1 /\ q - uI \in Nat /\ q - uI >= k /\ uI + (q - uI) = q
    BY <1>0, <1>2
  <2>2. MemChrFrom(ch, k) = q - uI
    BY <2>1 DEF MemChrFrom
  <2> HIDE DEF q
  <2> QED
    BY <1>0, <1>2, <2>1, <2>2
<1>3. \/ q = -1 /\ \A i \in uI + k .. cchTextLen - 1 : text[i] # ch
      \/ /\ q \in uI + k .. cchTextLen - 1 /\ text[q] = ch
         /\ \A i \in uI + k .. q - 1 : text[i] # ch
  <2>1. IsFirstChr(text, ch, uI + k, cchTextLen, q)
    BY <1>0, MemChrIsFirst
  <2> QED
    BY <2>1 DEF IsFirstChr
<1> QED
  BY <1>1, <1>2, <1>3

(***************************************************************************)
(* Entering or continuing FindScalar's loop.                               *)
(***************************************************************************)
LEMMA ToScanIInv ==
  ASSUME IInv, pc \in Searching, EngineFrame, UNCHANGED <<uI, lane, result>>,
         pc' = "scan", m_cchPatternLen >= 2,
         uK' \in Nat, uK' >= uLastIdx, uJ' \in Nat,
         NoneBefore((uI + uK') - uLastIdx)
  PROVE  IInv'
<1> USE DEF EngineFrame, object, memory, call
<1>0. /\ TypeOK /\ XStateBalanced /\ PhaseInv /\ SkipInv /\ pc # "populate"
      /\ uLastIdx' = uLastIdx
  BY DEF IInv, Searching, uLastIdx
<1>1. TypeOK'
  BY <1>0 DEF TypeOK, PCs
<1>2. XStateBalanced'
  BY <1>0 DEF XStateBalanced
<1>3. PhaseInv'
  BY <1>0 DEF PhaseInv, Searching
<1>4. SkipInv'
  BY <1>0 DEF SkipInv, Skip, uLastIdx
<1>5. CursorInv' /\ NothingSkipped' /\ AnswerInv'
  BY <1>0 DEF CursorInv, NothingSkipped, NoneBefore, AnswerInv
<1> QED
  BY <1>1, <1>2, <1>3, <1>4, <1>5 DEF IInv

LEMMA ScalarEntryIInv == ASSUME IInv, ScalarEntry PROVE IInv'
<1>0. /\ pc = "scalar" /\ pc \in Searching /\ EngineFrame /\ UNCHANGED <<uI, lane, uJ>>
      /\ uI \in Nat /\ lane \in Nat /\ uK \in Nat /\ uJ \in Nat
      /\ m_cchPatternLen \in Nat /\ cchTextLen \in Nat /\ m_cchPatternLen >= 1
      /\ m_cchPatternLen <= cchTextLen /\ uLastIdx = m_cchPatternLen - 1
      /\ NoneBefore(uI) /\ (m_cchPatternLen < 2 => uI = 0)
  <2>1. pc = "scalar" /\ pc \in Searching /\ EngineFrame /\ UNCHANGED <<uI, lane, uJ>>
    BY DEF ScalarEntry, EngineFrame, Searching
  <2>2. NoneBefore(uI) /\ (m_cchPatternLen < 2 => uI = 0)
    BY <2>1 DEF IInv, NothingSkipped, PhaseInv
  <2> QED
    BY <2>1, <2>2, SearchFacts
<1>1. CASE m_cchPatternLen = 1
  <2> DEFINE r == MemChrFrom(m_Pattern[0], 0)
  <2>0. uI = 0 /\ ScalarReturn(r) /\ uK' = uK
    BY <1>0, <1>1 DEF ScalarEntry
  <2>1. \/ /\ r = -1
           /\ \A i \in 0 .. cchTextLen - 1 : text[i] # m_Pattern[0]
        \/ /\ r \in Nat /\ r < cchTextLen /\ text[r] = m_Pattern[0]
           /\ \A i \in 0 .. r - 1 : text[i] # m_Pattern[0]
    BY <1>0, <2>0, MemChrFromIsFirst
  <2> HIDE DEF r
  <2>2. \A s \in Int : OccursAt(text, m_Pattern, m_cchPatternLen, s) <=> text[s] = m_Pattern[0]
    BY <1>1 DEF OccursAt
  <2>3. \/ r = -1 /\ NoneBefore(cchTextLen - m_cchPatternLen + 1)
        \/ /\ r >= 0 /\ uI + r <= cchTextLen - m_cchPatternLen
           /\ OccursAt(text, m_Pattern, m_cchPatternLen, uI + r)
           /\ NoneBefore(uI + r)
    BY <1>0, <1>1, <2>0, <2>1, <2>2 DEF NoneBefore
  <2>4. r \in Int
    BY <2>1
  <2> QED
    BY <1>0, <2>0, <2>3, <2>4, ScalarReturnIInv
<1>2. CASE m_cchPatternLen # 1
  <2>1. uK' = uLastIdx /\ pc' = "scan" /\ UNCHANGED result
    BY <1>2 DEF ScalarEntry
  <2>2. (uI + uK') - uLastIdx = uI
    BY <1>0, <2>1
  <2> QED
    BY <1>0, <1>2, <2>1, <2>2, ToScanIInv
<1> QED
  BY <1>1, <1>2

LEMMA ScanEndsIInv == ASSUME IInv, ScanEnds PROVE IInv'
<1>0. /\ pc = "scan" /\ pc \in Searching /\ EngineFrame /\ UNCHANGED <<uI, lane, uK, uJ>>
      /\ uI \in Nat /\ lane \in Nat /\ uK \in Nat /\ uJ \in Nat
      /\ m_cchPatternLen \in Nat /\ cchTextLen \in Nat
      /\ uLastIdx = m_cchPatternLen - 1
      /\ NoneBefore((uI + uK) - uLastIdx) /\ uK >= cchTextLen - uI
      /\ ScalarReturn(-1)
  BY SearchFacts DEF ScanEnds, EngineFrame, Searching, IInv, NothingSkipped, cursor
<1>1. NoneBefore(cchTextLen - m_cchPatternLen + 1)
  BY <1>0 DEF NoneBefore
<1> QED
  BY <1>0, <1>1, ScalarReturnIInv

(***************************************************************************)
(* After a window that does not match, the skip of its last character      *)
(* passes over no occurrence.                                              *)
(***************************************************************************)
LEMMA SkipPassesNone ==
  ASSUME IInv, pc \in Searching, NEW e \in 0 .. cchTextLen - 1, uLastIdx <= e,
         NoneBefore(e - uLastIdx),
         ~OccursAt(text, m_Pattern, m_cchPatternLen, e - uLastIdx)
  PROVE  NoneBefore((e + Skip(text[e])) - uLastIdx)
<1>0. m_cchPatternLen \in Nat /\ cchTextLen \in Nat /\ uLastIdx \in Nat
  BY SearchFacts
<1>1. /\ Skip(text[e]) \in 1 .. m_cchPatternLen
      /\ \A s \in 0 .. cchTextLen - m_cchPatternLen :
           e < s + uLastIdx /\ s + uLastIdx < e + Skip(text[e]) =>
             ~OccursAt(text, m_Pattern, m_cchPatternLen, s)
  BY SkipIsSafe
<1>2. ASSUME NEW s \in 0 .. cchTextLen - m_cchPatternLen, s < (e + Skip(text[e])) - uLastIdx
      PROVE  ~OccursAt(text, m_Pattern, m_cchPatternLen, s)
  <2>1. CASE s < e - uLastIdx
    BY <2>1 DEF NoneBefore
  <2>2. CASE s = e - uLastIdx
    BY <2>2
  <2>3. CASE s > e - uLastIdx
    BY <1>0, <1>1, <1>2, <2>3
  <2> QED
    BY <1>0, <2>1, <2>2, <2>3
<1> QED
  BY <1>2 DEF NoneBefore

LEMMA ScanSkipsIInv == ASSUME IInv, ScanSkips PROVE IInv'
<1> DEFINE e == uI + uK
           d == Skip(text[e])
           match == MemChrFrom(lastChar, uK + 1)
<1>0. pc = "scan" /\ pc \in Searching /\ EngineFrame /\ UNCHANGED <<uI, lane, uJ>>
  BY DEF ScanSkips, EngineFrame, Searching
<1>1. /\ NoneBefore(e - uLastIdx) /\ uK >= uLastIdx /\ m_cchPatternLen >= 2
  <2>1. NothingSkipped /\ CursorInv /\ PhaseInv
    BY DEF IInv
  <2>2. NoneBefore((uI + uK) - uLastIdx)
    BY <1>0, <2>1 DEF NothingSkipped
  <2>3. uK >= uLastIdx /\ m_cchPatternLen >= 2
    BY <1>0, <2>1 DEF CursorInv, PhaseInv
  <2> QED
    BY <2>2, <2>3
<1>2. /\ uK < cchTextLen - uI /\ text[e] # lastChar
      /\ \/ d <= 2 /\ match = -1 /\ ScalarReturn(-1) /\ uK' = uK
         \/ d <= 2 /\ match # -1 /\ uK' = match /\ UNCHANGED <<pc, result>>
         \/ d > 2 /\ uK' = uK + d /\ UNCHANGED <<pc, result>>
  BY DEF ScanSkips
<1>3. /\ uI \in Nat /\ lane \in Nat /\ uK \in Nat /\ uJ \in Nat
      /\ m_cchPatternLen \in Nat /\ cchTextLen \in Nat
      /\ uLastIdx = m_cchPatternLen - 1 /\ uLastIdx \in Nat
  BY <1>0, SearchFacts
<1>4. e \in 0 .. cchTextLen - 1 /\ uLastIdx <= e
  BY <1>1, <1>2, <1>3
<1>5. \A s \in 0 .. cchTextLen - m_cchPatternLen :
        text[s + uLastIdx] # lastChar => ~OccursAt(text, m_Pattern, m_cchPatternLen, s)
  BY <1>3 DEF OccursAt, lastChar
<1>6. ~OccursAt(text, m_Pattern, m_cchPatternLen, e - uLastIdx)
  <2>1. OccursAt(text, m_Pattern, m_cchPatternLen, e - uLastIdx)
          => text[e - uLastIdx + uLastIdx] = m_Pattern[uLastIdx]
    BY <1>3 DEF OccursAt
  <2>2. e - uLastIdx + uLastIdx = e
    BY <1>3
  <2> QED
    BY <1>2, <2>1, <2>2 DEF lastChar
<1>7. \/ /\ match = -1
         /\ \A i \in e + 1 .. cchTextLen - 1 : text[i] # lastChar
      \/ /\ match \in Nat /\ match >= uK + 1 /\ uI + match < cchTextLen
         /\ \A i \in e + 1 .. uI + match - 1 : text[i] # lastChar
  <2>1. uK + 1 \in Nat /\ uI + (uK + 1) = e + 1
    BY <1>3
  <2> QED
    BY <1>0, <2>1, MemChrFromIsFirst
<1> HIDE DEF match
<1>8. CASE match = -1 /\ ScalarReturn(-1) /\ uK' = uK
  <2>1. NoneBefore(cchTextLen - m_cchPatternLen + 1)
    <3> SUFFICES ASSUME NEW s \in 0 .. cchTextLen - m_cchPatternLen
                 PROVE  ~OccursAt(text, m_Pattern, m_cchPatternLen, s)
      BY DEF NoneBefore
    <3>1. CASE s < e - uLastIdx
      BY <1>1, <3>1 DEF NoneBefore
    <3>2. CASE s = e - uLastIdx
      BY <1>6, <3>2
    <3>3. CASE s > e - uLastIdx
      <4>1. s + uLastIdx \in e + 1 .. cchTextLen - 1
        BY <1>3, <1>4, <3>3
      <4> QED
        BY <1>5, <1>7, <1>8, <4>1
    <3> QED
      BY <1>3, <1>4, <3>1, <3>2, <3>3
  <2> QED
    BY <1>0, <1>3, <1>8, <2>1, ScalarReturnIInv
<1>9. CASE match # -1 /\ uK' = match /\ UNCHANGED <<pc, result>>
  <2>1. NoneBefore((uI + match) - uLastIdx)
    <3> SUFFICES ASSUME NEW s \in 0 .. cchTextLen - m_cchPatternLen,
                        s < (uI + match) - uLastIdx
                 PROVE  ~OccursAt(text, m_Pattern, m_cchPatternLen, s)
      BY DEF NoneBefore
    <3>1. CASE s < e - uLastIdx
      BY <1>1, <3>1 DEF NoneBefore
    <3>2. CASE s = e - uLastIdx
      BY <1>6, <3>2
    <3>3. CASE s > e - uLastIdx
      <4>1. s + uLastIdx \in e + 1 .. uI + match - 1
        BY <1>3, <1>4, <1>7, <1>9, <3>3
      <4> QED
        BY <1>5, <1>7, <1>9, <4>1
    <3> QED
      BY <1>3, <1>4, <3>1, <3>2, <3>3
  <2>2. match \in Nat /\ match >= uLastIdx
    BY <1>1, <1>3, <1>7, <1>9
  <2> QED
    BY <1>0, <1>1, <1>3, <1>9, <2>1, <2>2, ToScanIInv
<1>10. CASE d > 2 /\ uK' = uK + d /\ UNCHANGED <<pc, result>>
  <2>1. d \in 1 .. m_cchPatternLen /\ NoneBefore((e + d) - uLastIdx)
    BY <1>0, <1>1, <1>4, <1>6, SkipIsSafe, SkipPassesNone
  <2> HIDE DEF d
  <2>2. /\ uK' \in Nat /\ uK' >= uLastIdx
        /\ (uI + uK') - uLastIdx = (e + d) - uLastIdx
    BY <1>1, <1>3, <1>10, <2>1
  <2> QED
    BY <1>0, <1>1, <1>3, <1>10, <2>1, <2>2, ToScanIInv
<1> QED
  BY <1>2, <1>8, <1>9, <1>10

LEMMA ScanVerifiesIInv == ASSUME IInv, ScanVerifies PROVE IInv'
<1> USE DEF ScanVerifies, object, memory, call
<1>0. /\ TypeOK /\ XStateBalanced /\ PhaseInv /\ SkipInv /\ CursorInv /\ NothingSkipped
      /\ pc = "scan" /\ pc' = "verify" /\ uLastIdx' = uLastIdx
  BY DEF IInv, uLastIdx
<1>1. /\ m_cchPatternLen \in Nat /\ m_cchPatternLen >= 2 /\ uLastIdx = m_cchPatternLen - 1
      /\ cchTextLen \in Nat /\ uI \in Nat /\ uK \in Nat /\ uK >= uLastIdx
      /\ uJ' = uLastIdx - 1 /\ uJ' \in 0 .. m_cchPatternLen - 2
  BY <1>0 DEF TypeOK, PhaseInv, CursorInv, uLastIdx
<1>2. TypeOK'
  BY <1>0, <1>1 DEF TypeOK, PCs
<1>3. XStateBalanced' /\ PhaseInv'
  BY <1>0 DEF XStateBalanced, PhaseInv
<1>4. SkipInv'
  BY <1>0 DEF SkipInv, Skip
<1>5. CursorInv'
  <2>1. (uI + uK) - uLastIdx + uLastIdx = uI + uK /\ uI + uK < cchTextLen
    BY <1>1
  <2>2. \A j \in uJ' + 1 .. uLastIdx : text[(uI + uK) - uLastIdx + j] = m_Pattern[j]
    BY <1>1, <2>1 DEF lastChar
  <2> QED
    BY <1>0, <1>1, <2>1, <2>2 DEF CursorInv
<1>6. NothingSkipped' /\ AnswerInv'
  BY <1>0 DEF NothingSkipped, NoneBefore, AnswerInv
<1> QED
  BY <1>2, <1>3, <1>4, <1>5, <1>6 DEF IInv

LEMMA VerifyIInv == ASSUME IInv, Verify PROVE IInv'
<1> DEFINE e == uI + uK
           start == e - uLastIdx
<1>0. pc = "verify" /\ pc \in Searching /\ EngineFrame /\ UNCHANGED <<uI, lane>>
  BY DEF Verify, EngineFrame, Searching
<1>1. /\ NoneBefore(start) /\ uK >= uLastIdx /\ e < cchTextLen /\ m_cchPatternLen >= 2
      /\ uJ \in 0 .. m_cchPatternLen - 2
      /\ \A j \in uJ + 1 .. uLastIdx : text[start + j] = m_Pattern[j]
  <2>1. NothingSkipped /\ CursorInv /\ PhaseInv
    BY DEF IInv
  <2>2. NoneBefore((uI + uK) - uLastIdx)
    BY <1>0, <2>1 DEF NothingSkipped
  <2>3. /\ uK >= uLastIdx /\ uI + uK < cchTextLen /\ m_cchPatternLen >= 2
        /\ uJ \in 0 .. m_cchPatternLen - 2
        /\ \A j \in uJ + 1 .. uLastIdx : text[(uI + uK) - uLastIdx + j] = m_Pattern[j]
    BY <1>0, <2>1 DEF CursorInv, PhaseInv
  <2> QED
    BY <2>2, <2>3
<1>2. /\ uI \in Nat /\ lane \in Nat /\ uK \in Nat /\ uJ \in Nat
      /\ m_cchPatternLen \in Nat /\ cchTextLen \in Nat
      /\ uLastIdx = m_cchPatternLen - 1 /\ uLastIdx \in Nat
  BY <1>0, SearchFacts
<1>3. e \in 0 .. cchTextLen - 1 /\ uLastIdx <= e /\ uI + VerifyIdx = start + uJ
      /\ VerifyIdx = uK - (uLastIdx - uJ)
  BY <1>1, <1>2 DEF VerifyIdx
<1>4. CASE text[uI + VerifyIdx] = m_Pattern[uJ] /\ uJ = 0 /\ ScalarReturn(VerifyIdx)
           /\ UNCHANGED <<uK, uJ>>
  <2>1. \A j \in 0 .. uLastIdx : text[start + j] = m_Pattern[j]
    BY <1>1, <1>2, <1>3, <1>4
  <2>2. OccursAt(text, m_Pattern, m_cchPatternLen, start)
    BY <1>2, <2>1 DEF OccursAt
  <2>3. /\ VerifyIdx \in Int /\ VerifyIdx >= 0 /\ uI + VerifyIdx = start
        /\ start <= cchTextLen - m_cchPatternLen
    BY <1>1, <1>2, <1>3, <1>4
  <2> QED
    BY <1>0, <1>1, <1>2, <1>4, <2>2, <2>3, ScalarReturnIInv
<1>5. CASE text[uI + VerifyIdx] = m_Pattern[uJ] /\ uJ # 0 /\ uJ' = uJ - 1
           /\ UNCHANGED <<pc, result, uK>>
  <2> USE DEF EngineFrame, object, memory, call
  <2>0. /\ TypeOK /\ XStateBalanced /\ PhaseInv /\ SkipInv /\ NothingSkipped
        /\ uLastIdx' = uLastIdx
    BY <1>0 DEF IInv, uLastIdx
  <2>1. TypeOK'
    BY <1>0, <1>2, <1>5, <2>0 DEF TypeOK
  <2>2. XStateBalanced' /\ PhaseInv'
    BY <1>0, <1>5, <2>0 DEF XStateBalanced, PhaseInv
  <2>3. SkipInv'
    BY <1>0, <1>5, <2>0 DEF SkipInv, Skip
  <2>4. CursorInv'
    <3>1. uJ' \in 0 .. m_cchPatternLen - 2 /\ uJ' + 1 = uJ
      BY <1>1, <1>2, <1>5
    <3>2. ASSUME NEW j \in uJ .. uLastIdx
          PROVE  text[start + j] = m_Pattern[j]
      <4>1. CASE j = uJ
        BY <1>3, <1>5, <4>1
      <4>2. CASE j # uJ
        BY <1>1, <1>2, <4>2
      <4> QED
        BY <4>1, <4>2
    <3>3. UNCHANGED <<uI, uK, text, m_Pattern, m_cchPatternLen, cchTextLen, pc>>
      BY <1>0, <1>5
    <3> QED
      BY <1>0, <1>1, <2>0, <3>1, <3>2, <3>3 DEF CursorInv
  <2>5. NothingSkipped' /\ AnswerInv'
    BY <1>0, <1>5, <2>0 DEF NothingSkipped, NoneBefore, AnswerInv
  <2> QED
    BY <2>1, <2>2, <2>3, <2>4, <2>5 DEF IInv
<1>6. CASE text[uI + VerifyIdx] # m_Pattern[uJ] /\ uK' = uK + Skip(lastChar) /\ uJ' = 0
           /\ pc' = "scan" /\ UNCHANGED result
  <2>1. ~OccursAt(text, m_Pattern, m_cchPatternLen, start)
    <3>1. uJ \in 0 .. m_cchPatternLen - 1
      BY <1>1, <1>2
    <3> QED
      BY <1>3, <1>6, <3>1 DEF OccursAt
  <2>2. lastChar = text[e]
    <3>1. uLastIdx \in uJ + 1 .. uLastIdx /\ start + uLastIdx = e
      BY <1>1, <1>2
    <3> QED
      BY <1>1, <3>1 DEF lastChar
  <2> DEFINE d == Skip(text[e])
  <2>3. d \in 1 .. m_cchPatternLen /\ NoneBefore((e + d) - uLastIdx)
    BY <1>0, <1>1, <1>3, <2>1, SkipIsSafe, SkipPassesNone
  <2>4. uK' = uK + d
    BY <1>6, <2>2
  <2> HIDE DEF d
  <2>5. /\ uK' \in Nat /\ uK' >= uLastIdx
        /\ (uI + uK') - uLastIdx = (e + d) - uLastIdx
    BY <1>1, <1>2, <2>3, <2>4
  <2> QED
    BY <1>0, <1>1, <1>6, <2>3, <2>5, ToScanIInv
<1> QED
  BY <1>4, <1>5, <1>6 DEF Verify

-----------------------------------------------------------------------------
(***************************************************************************)
(* The vector engine.                                                      *)
(***************************************************************************)
LEMMA MaskPositions ==
  /\ \A b \in 0 .. MaskBits * LaneLen - 1 :
       b \in Nat /\ b \div MaskBits \in 0 .. LaneLen - 1
  /\ \A k \in 0 .. LaneLen - 1 :
       /\ MaskBits * k \in 0 .. MaskBits * LaneLen - 1
       /\ (MaskBits * k) % MaskBits = 0
       /\ (MaskBits * k) \div MaskBits = k
  /\ \A b, d \in Nat : b <= d => b \div MaskBits <= d \div MaskBits
<1>1. CASE MaskBits = 1
  BY <1>1, BuildAssumption
<1>2. CASE MaskBits = 2
  BY <1>2, BuildAssumption
<1> QED
  BY <1>1, <1>2, BuildAssumption

LEMMA StridePositive ==
  /\ Lanes \in Nat \ {0} /\ LaneLen \in Nat \ {0}
  /\ Stride \in Nat /\ Stride >= 1
<1>1. Lanes \in Nat \ {0} /\ LaneLen \in Nat \ {0}
  BY BuildAssumption DEF Lanes
<1> QED
  BY <1>1, ProductPositive DEF Stride

LEMMA LaneWithinStride ==
  ASSUME lane \in Nat, lane < Lanes
  PROVE  /\ lane * LaneLen \in Nat
         /\ (lane + 1) * LaneLen = lane * LaneLen + LaneLen
         /\ lane * LaneLen + LaneLen <= Stride
         /\ lane + 1 >= Lanes => lane * LaneLen + LaneLen = Stride
<1>1. Lanes \in Nat /\ LaneLen \in Nat
  BY StridePositive
<1>2. /\ lane * LaneLen \in Nat
      /\ (lane + 1) * LaneLen = lane * LaneLen + LaneLen
      /\ lane * LaneLen + LaneLen <= Lanes * LaneLen
  BY <1>1, ProductStep
<1>3. lane + 1 >= Lanes => lane + 1 = Lanes
  BY <1>1
<1> QED
  BY <1>2, <1>3 DEF Stride

(***************************************************************************)
(* The tests of CheckMask are a complete comparison.                       *)
(***************************************************************************)
LEMMA TestsAreComplete ==
  ASSUME m_cchPatternLen \in Nat, m_cchPatternLen >= 2, NEW s \in Int
  PROVE  /\ text[s + uLastIdx] = lastChar
         /\ text[s] = m_Pattern[0]
         /\ VerifyMiddleMatch(text, s, m_Pattern, m_cchPatternLen)
         <=> OccursAt(text, m_Pattern, m_cchPatternLen, s)
BY VerifiedOccurs DEF uLastIdx, lastChar

(***************************************************************************)
(* One lane: its mask finds the first occurrence that starts in it.        *)
(***************************************************************************)
IsFirstInLane(r, from) ==
  \/ /\ r = -1
     /\ \A s \in from .. from + (LaneLen - 1) :
          ~OccursAt(text, m_Pattern, m_cchPatternLen, s)
  \/ /\ r \in from .. from + (LaneLen - 1)
     /\ OccursAt(text, m_Pattern, m_cchPatternLen, r)
     /\ \A s \in from .. r - 1 : ~OccursAt(text, m_Pattern, m_cchPatternLen, s)

LEMMA CheckMaskIsFirst ==
  ASSUME m_cchPatternLen \in Nat, m_cchPatternLen >= 2, IntMax \in Nat,
         NEW from \in Nat, from + LaneLen <= IntMax
  PROVE  IsFirstInLane(CheckMask(from + uLastIdx), from)
<1> DEFINE o == from + uLastIdx
           start(b) == o + b \div MaskBits - uLastIdx
           Hit(s) == OccursAt(text, m_Pattern, m_cchPatternLen, s)
           bits == 0 .. MaskBits * LaneLen - 1
           hits == { b \in MoveMask(o) :
                       /\ text[start(b)] = m_Pattern[0]
                       /\ VerifyMiddleMatch(text, start(b), m_Pattern, m_cchPatternLen) }
<1>0. /\ LaneLen \in Nat /\ LaneLen >= 1 /\ uLastIdx \in Nat
      /\ uLastIdx = m_cchPatternLen - 1
  BY BuildAssumption DEF uLastIdx
<1>1. ASSUME NEW b \in bits
      PROVE  /\ b \in Nat /\ b \div MaskBits \in 0 .. LaneLen - 1
             /\ start(b) = from + b \div MaskBits
             /\ o + b \div MaskBits = start(b) + uLastIdx
             /\ start(b) \in from .. from + (LaneLen - 1)
  <2>1. b \in Nat /\ b \div MaskBits \in 0 .. LaneLen - 1
    BY MaskPositions
  <2> QED
    BY <1>0, <2>1
<1>2. hits \in SUBSET Nat
  BY <1>1 DEF MoveMask
<1>3. \A b \in hits : Hit(start(b)) /\ b \in bits
  <2> SUFFICES ASSUME NEW b \in hits PROVE Hit(start(b)) /\ b \in bits
    OBVIOUS
  <2>1. b \in bits /\ text[o + b \div MaskBits] = lastChar
    BY DEF MoveMask
  <2>2. /\ text[start(b)] = m_Pattern[0]
        /\ VerifyMiddleMatch(text, start(b), m_Pattern, m_cchPatternLen)
    OBVIOUS
  <2>3. text[start(b) + uLastIdx] = lastChar /\ start(b) \in Int
    BY <1>0, <1>1, <2>1
  <2> QED
    BY <2>1, <2>2, <2>3, TestsAreComplete
<1>4. ASSUME NEW s \in from .. from + (LaneLen - 1), Hit(s)
      PROVE  MaskBits * (s - from) \in hits /\ start(MaskBits * (s - from)) = s
  <2> DEFINE k == s - from
             b == MaskBits * k
  <2>1. k \in 0 .. LaneLen - 1
    BY <1>0
  <2>2. b \in bits /\ b % MaskBits = 0 /\ b \div MaskBits = k
    BY <2>1, MaskPositions
  <2>3. start(b) = s
    BY <1>0, <1>1, <2>1, <2>2
  <2>4. o + b \div MaskBits = s + uLastIdx /\ s \in Int
    BY <1>0, <2>1, <2>2
  <2>5. /\ text[s + uLastIdx] = lastChar /\ text[s] = m_Pattern[0]
        /\ VerifyMiddleMatch(text, s, m_Pattern, m_cchPatternLen)
    BY <1>4, <2>4, TestsAreComplete
  <2>6. b \in MoveMask(o)
    BY <2>2, <2>4, <2>5 DEF MoveMask
  <2> QED
    BY <2>3, <2>5, <2>6
<1>5. CheckMask(o) = IF hits = {} THEN -1 ELSE ToInt(start(Min(hits)), IntMax)
  BY DEF CheckMask
<1>6. CASE hits = {}
  <2>1. CheckMask(o) = -1
    BY <1>5, <1>6
  <2>2. \A s \in from .. from + (LaneLen - 1) : ~Hit(s)
    BY <1>4, <1>6
  <2> QED
    BY <2>1, <2>2 DEF IsFirstInLane
<1>7. CASE hits # {}
  <2> DEFINE b == Min(hits)
             r == start(b)
  <2>1. b \in hits /\ \A d \in hits : b <= d
    BY <1>2, <1>7, MinOfNat
  <2>2. Hit(r) /\ r \in from .. from + (LaneLen - 1) /\ r = from + b \div MaskBits
    BY <1>1, <1>3, <2>1
  <2>3. r \in -1 .. IntMax
    BY <1>0, <2>2
  <2>4. CheckMask(o) = r
    <3>1. CheckMask(o) = ToInt(r, IntMax)
      BY <1>5, <1>7
    <3> QED
      BY <2>3, <3>1, ToIntInRange
  <2>5. ASSUME NEW s \in from .. r - 1, Hit(s) PROVE FALSE
    <3> DEFINE d == MaskBits * (s - from)
    <3>1. s \in from .. from + (LaneLen - 1) /\ s < r
      BY <1>0, <2>2
    <3>2. d \in hits /\ start(d) = s
      BY <1>4, <2>5, <3>1
    <3>3. b <= d /\ b \in Nat /\ d \in Nat
      BY <1>2, <2>1, <3>2
    <3>4. b \div MaskBits <= d \div MaskBits
      BY <3>3, MaskPositions
    <3>5. b \in bits /\ d \in bits
      BY <1>3, <2>1, <3>2
    <3>6. start(d) = from + d \div MaskBits /\ d \div MaskBits \in Nat
      <4> HIDE DEF d
      <4> QED
        BY <1>1, <3>5
    <3>7. s = from + d \div MaskBits
      BY <3>2, <3>6
    <3>8. b \div MaskBits \in Nat
      <4> HIDE DEF b
      <4> QED
        BY <1>1, <3>5
    <3> QED
      BY <1>0, <2>2, <3>1, <3>4, <3>6, <3>7, <3>8
  <2> QED
    BY <2>2, <2>4, <2>5 DEF IsFirstInLane
<1> QED
  BY <1>6, <1>7

(***************************************************************************)
(* Moving on to the next block: all that starts in this one was examined,  *)
(* and a long pattern's jump is the skip of the block's last character.    *)
(***************************************************************************)
LEMMA NextBlockIInv ==
  ASSUME IInv, pc \in {"block", "lane"}, EngineFrame, UNCHANGED <<uK, uJ>>,
         BlockFits, NextBlock, NoneBefore(uI + Stride)
  PROVE  IInv'
<1> DEFINE e == uI + (Stride - 1) + uLastIdx
           d == Skip(text[e])
<1>0. /\ pc \in Searching
      /\ TypeOK /\ XStateBalanced /\ PhaseInv /\ SkipInv
      /\ pc' = "block" /\ lane' = 0 /\ UNCHANGED result
      /\ uLastIdx' = uLastIdx
  BY DEF Searching, IInv, NextBlock, EngineFrame, object, uLastIdx
<1>1. /\ uI \in Nat /\ m_cchPatternLen \in Nat /\ cchTextLen \in Nat
      /\ m_cchPatternLen >= 2 /\ uLastIdx = m_cchPatternLen - 1 /\ uLastIdx \in Nat
      /\ Stride \in Nat /\ Stride >= 1
  BY <1>0, SearchFacts, StridePositive DEF PhaseInv
<1>2. e \in 0 .. cchTextLen - 1 /\ uLastIdx <= e /\ e - uLastIdx = uI + (Stride - 1)
  BY <1>1 DEF BlockFits
<1>3. /\ uI' \in Nat /\ uI' <= cchTextLen /\ NoneBefore(uI')
  <2>1. CASE IsLong
    <3>1. NoneBefore(e - uLastIdx)
      BY <1>1, <1>2 DEF NoneBefore
    <3>2. ~OccursAt(text, m_Pattern, m_cchPatternLen, e - uLastIdx)
      <4>1. e - uLastIdx \in 0 .. cchTextLen - m_cchPatternLen /\ e - uLastIdx < uI + Stride
        BY <1>1, <1>2
      <4> QED
        BY <4>1 DEF NoneBefore
    <3>3. d \in 1 .. m_cchPatternLen /\ NoneBefore((e + d) - uLastIdx)
      BY <1>0, <1>2, <3>1, <3>2, SkipIsSafe, SkipPassesNone
    <3>4. uI' = uI + (Stride - 1) + d
      BY <2>1 DEF NextBlock
    <3> HIDE DEF d
    <3>5. (e + d) - uLastIdx = uI'
      BY <1>1, <3>3, <3>4
    <3>6. uI' \in Nat /\ uI' <= cchTextLen
      BY <1>1, <1>2, <3>3, <3>4
    <3> QED
      BY <3>3, <3>5, <3>6
  <2>2. CASE ~IsLong
    BY <1>1, <2>2 DEF NextBlock, BlockFits
  <2> QED
    BY <2>1, <2>2
<1> USE DEF EngineFrame, object, memory, call
<1>4. TypeOK'
  BY <1>0, <1>3 DEF TypeOK, PCs
<1>5. XStateBalanced'
  BY <1>0 DEF XStateBalanced
<1>6. PhaseInv'
  BY <1>0, <1>1 DEF PhaseInv
<1>7. SkipInv'
  BY <1>0 DEF SkipInv, Skip
<1>8. CursorInv' /\ AnswerInv'
  BY <1>0, <1>3 DEF CursorInv, AnswerInv
<1>9. NothingSkipped'
  BY <1>0, <1>3 DEF NothingSkipped, NoneBefore
<1> QED
  BY <1>4, <1>5, <1>6, <1>7, <1>8, <1>9 DEF IInv

LEMMA BlockIInv == ASSUME IInv, Block PROVE IInv'
<1>0. /\ pc = "block" /\ pc \in Searching /\ EngineFrame /\ UNCHANGED <<uK, uJ>>
      /\ BlockFits
      /\ TypeOK /\ XStateBalanced /\ PhaseInv /\ SkipInv /\ NothingSkipped
  BY DEF Block, EngineFrame, Searching, IInv
<1>1. /\ uI \in Nat /\ m_cchPatternLen \in Nat /\ cchTextLen \in Nat
      /\ m_cchPatternLen >= 2 /\ uLastIdx = m_cchPatternLen - 1 /\ uLastIdx \in Nat
      /\ Stride \in Nat /\ Lanes \in Nat \ {0} /\ LaneLen \in Nat
      /\ NoneBefore(uI)
  BY <1>0, SearchFacts, StridePositive DEF PhaseInv, NothingSkipped
<1>2. CASE pc' = "lane" /\ lane' = 0 /\ UNCHANGED <<uI, result>>
  <2> USE DEF EngineFrame, object, memory, call
  <2>1. uLastIdx' = uLastIdx /\ lane' = 0 /\ lane' * LaneLen = 0 /\ uI + 0 = uI
        /\ BlockFits' /\ Lanes' = Lanes
    BY <1>0, <1>1, <1>2 DEF uLastIdx, BlockFits, Stride, Lanes, IsLong
  <2>2. TypeOK'
    BY <1>0, <1>2 DEF TypeOK, PCs
  <2>3. XStateBalanced'
    BY <1>0, <1>2 DEF XStateBalanced
  <2>4. PhaseInv'
    BY <1>0, <1>2 DEF PhaseInv
  <2>5. SkipInv'
    BY <1>0, <1>2, <2>1 DEF SkipInv, Skip
  <2>6. CursorInv' /\ AnswerInv'
    BY <1>1, <1>2, <2>1 DEF CursorInv, AnswerInv
  <2>7. NothingSkipped'
    <3>1. uI' + lane' * LaneLen = uI
      BY <1>1, <1>2, <2>1
    <3>2. NoneBefore(uI)'
      BY <1>0, <1>1, <1>2 DEF NoneBefore
    <3> QED
      BY <1>2, <3>1, <3>2 DEF NothingSkipped, NoneBefore
  <2> QED
    BY <2>2, <2>3, <2>4, <2>5, <2>6, <2>7 DEF IInv
<1>3. CASE NextBlock /\ \A o \in 0 .. Stride - 1 : text[uI + uLastIdx + o] # lastChar
  <2>1. NoneBefore(uI + Stride)
    <3> SUFFICES ASSUME NEW s \in 0 .. cchTextLen - m_cchPatternLen, s < uI + Stride
                 PROVE  ~OccursAt(text, m_Pattern, m_cchPatternLen, s)
      BY DEF NoneBefore
    <3>1. CASE s < uI
      BY <1>1, <3>1 DEF NoneBefore
    <3>2. CASE s >= uI
      <4>1. s - uI \in 0 .. Stride - 1 /\ uI + uLastIdx + (s - uI) = s + uLastIdx /\ s \in Int
        BY <1>1, <3>2
      <4>2. text[s + uLastIdx] # lastChar
        BY <1>3, <4>1
      <4> QED
        BY <1>1, <4>1, <4>2, TestsAreComplete
    <3> QED
      BY <1>1, <3>1, <3>2
  <2> QED
    BY <1>0, <1>3, <2>1, NextBlockIInv
<1> QED
  BY <1>2, <1>3 DEF Block

LEMMA LaneIInv == ASSUME IInv, Lane PROVE IInv'
<1> DEFINE from == uI + lane * LaneLen
           r == CheckMask(from + uLastIdx)
<1>0. /\ pc = "lane" /\ pc \in Searching /\ EngineFrame /\ UNCHANGED <<uK, uJ>>
      /\ TypeOK /\ XStateBalanced /\ PhaseInv /\ SkipInv /\ NothingSkipped /\ CursorInv
  BY DEF Lane, EngineFrame, Searching, IInv
<1>1. /\ uI \in Nat /\ lane \in Nat /\ m_cchPatternLen \in Nat /\ cchTextLen \in Nat
      /\ uK \in Nat /\ uJ \in Nat
      /\ m_cchPatternLen >= 2 /\ uLastIdx = m_cchPatternLen - 1 /\ uLastIdx \in Nat
      /\ cchTextLen <= IntMax /\ IntMax \in Nat
      /\ BlockFits /\ lane < Lanes
  BY <1>0, SearchFacts DEF PhaseInv, CursorInv
<1>2. NoneBefore(from)
  BY <1>0 DEF NothingSkipped
<1>3. /\ Stride \in Nat /\ LaneLen \in Nat /\ LaneLen >= 1
      /\ lane * LaneLen \in Nat
      /\ (lane + 1) * LaneLen = lane * LaneLen + LaneLen
      /\ lane * LaneLen + LaneLen <= Stride
      /\ lane + 1 >= Lanes => lane * LaneLen + LaneLen = Stride
  BY <1>1, StridePositive, LaneWithinStride
<1>4. /\ from \in Nat /\ from + LaneLen <= IntMax
      /\ from + (LaneLen - 1) <= cchTextLen - m_cchPatternLen
  BY <1>1, <1>3 DEF BlockFits
<1>5. IsFirstInLane(r, from)
  BY <1>1, <1>4, CheckMaskIsFirst
<1>6. \/ r # -1 /\ Return(r) /\ UNCHANGED <<uI, lane>>
      \/ r = -1 /\ lane + 1 < Lanes /\ lane' = lane + 1 /\ UNCHANGED <<uI, pc, result>>
      \/ r = -1 /\ lane + 1 >= Lanes /\ NextBlock
  BY DEF Lane
<1> HIDE DEF r
<1>7. ASSUME r = -1 PROVE NoneBefore(from + LaneLen)
  <2> SUFFICES ASSUME NEW s \in 0 .. cchTextLen - m_cchPatternLen, s < from + LaneLen
               PROVE  ~OccursAt(text, m_Pattern, m_cchPatternLen, s)
    BY DEF NoneBefore
  <2>1. CASE s < from
    BY <1>2, <2>1 DEF NoneBefore
  <2>2. CASE s >= from
    <3>1. s \in from .. from + (LaneLen - 1) /\ r \notin from .. from + (LaneLen - 1)
      BY <1>3, <1>4, <1>7, <2>2
    <3> QED
      BY <1>5, <3>1 DEF IsFirstInLane
  <2> QED
    BY <1>4, <2>1, <2>2
<1>8. CASE r # -1 /\ Return(r) /\ UNCHANGED <<uI, lane>>
  <2>1. /\ r \in from .. from + (LaneLen - 1)
        /\ OccursAt(text, m_Pattern, m_cchPatternLen, r)
        /\ \A s \in from .. r - 1 : ~OccursAt(text, m_Pattern, m_cchPatternLen, s)
    BY <1>5, <1>8 DEF IsFirstInLane
  <2>2. r \in Nat /\ r \in Int /\ r <= cchTextLen - m_cchPatternLen
    BY <1>1, <1>3, <1>4, <2>1
  <2>3. NoneBefore(r)
    <3> SUFFICES ASSUME NEW s \in 0 .. cchTextLen - m_cchPatternLen, s < r
                 PROVE  ~OccursAt(text, m_Pattern, m_cchPatternLen, s)
      BY DEF NoneBefore
    <3>1. CASE s < from
      BY <1>2, <3>1 DEF NoneBefore
    <3>2. CASE s >= from
      <4>1. s \in from .. r - 1
        BY <1>4, <2>2, <3>2
      <4> QED
        BY <2>1, <4>1
    <3> QED
      BY <1>4, <3>1, <3>2
  <2>4. r = BasicOffset(text, cchTextLen, m_Pattern, m_cchPatternLen)
    BY <1>0, <2>1, <2>2, <2>3, FoundIsAnswer
  <2> QED
    BY <1>0, <1>1, <1>8, <2>2, <2>4, ReturnIInv
<1>9. CASE r = -1 /\ lane + 1 < Lanes /\ lane' = lane + 1 /\ UNCHANGED <<uI, pc, result>>
  <2> USE DEF EngineFrame, object, memory, call
  <2>1. uLastIdx' = uLastIdx /\ BlockFits' /\ Lanes' = Lanes
    BY <1>0, <1>1, <1>9 DEF uLastIdx, BlockFits, Stride, Lanes, IsLong
  <2>2. TypeOK'
    BY <1>0, <1>1, <1>9 DEF TypeOK
  <2>3. XStateBalanced' /\ PhaseInv'
    BY <1>0, <1>9 DEF XStateBalanced, PhaseInv
  <2>4. SkipInv'
    BY <1>0, <1>9, <2>1 DEF SkipInv, Skip
  <2>5. CursorInv' /\ AnswerInv'
    BY <1>0, <1>9, <2>1 DEF CursorInv, AnswerInv
  <2>6. NothingSkipped'
    <3>1. uI' + lane' * LaneLen = from + LaneLen
      BY <1>1, <1>3, <1>9
    <3>2. NoneBefore(from + LaneLen)
      BY <1>7, <1>9
    <3> QED
      BY <1>0, <1>9, <3>1, <3>2 DEF NothingSkipped, NoneBefore
  <2> QED
    BY <2>2, <2>3, <2>4, <2>5, <2>6 DEF IInv
<1>10. CASE r = -1 /\ lane + 1 >= Lanes /\ NextBlock
  <2>1. from + LaneLen = uI + Stride
    BY <1>1, <1>3, <1>10
  <2>2. NoneBefore(uI + Stride)
    BY <1>7, <1>10, <2>1
  <2> QED
    BY <1>0, <1>1, <1>10, <2>2, NextBlockIInv
<1> QED
  BY <1>6, <1>8, <1>9, <1>10

LEMMA TailIInv == ASSUME IInv, Tail PROVE IInv'
<1>0. /\ pc = "block" /\ pc \in Searching /\ EngineFrame /\ UNCHANGED cursor
      /\ ~BlockFits
      /\ TypeOK /\ XStateBalanced /\ PhaseInv /\ SkipInv /\ NothingSkipped /\ CursorInv
  BY DEF Tail, EngineFrame, Searching, IInv
<1>1. /\ uI \in Nat /\ m_cchPatternLen \in Nat /\ cchTextLen \in Nat
      /\ lane \in Nat /\ uK \in Nat /\ uJ \in Nat
      /\ m_cchPatternLen >= 2 /\ uI <= cchTextLen /\ NoneBefore(uI)
  BY <1>0, SearchFacts DEF PhaseInv, CursorInv, NothingSkipped
<1>2. CASE uI < cchTextLen /\ pc' = "scalar" /\ UNCHANGED result
  <2> USE DEF EngineFrame, object, memory, call, cursor
  <2>1. uLastIdx' = uLastIdx
    BY <1>0 DEF uLastIdx
  <2>2. TypeOK'
    BY <1>0, <1>2 DEF TypeOK, PCs
  <2>3. XStateBalanced' /\ PhaseInv'
    BY <1>0, <1>1, <1>2 DEF XStateBalanced, PhaseInv
  <2>4. SkipInv'
    BY <1>0, <1>2, <2>1 DEF SkipInv, Skip
  <2>5. CursorInv' /\ NothingSkipped' /\ AnswerInv'
    BY <1>0, <1>1, <1>2 DEF CursorInv, NothingSkipped, NoneBefore, AnswerInv
  <2> QED
    BY <2>2, <2>3, <2>4, <2>5 DEF IInv
<1>3. CASE ~(uI < cchTextLen) /\ Return(-1)
  <2>1. uI > cchTextLen - m_cchPatternLen
    BY <1>1, <1>3
  <2>2. -1 = BasicOffset(text, cchTextLen, m_Pattern, m_cchPatternLen)
    BY <1>0, <1>1, <2>1, NotFoundIsAnswer
  <2>3. UNCHANGED <<uI, lane, uK, uJ>>
    BY <1>0 DEF cursor
  <2> QED
    BY <1>0, <1>1, <1>3, <2>2, <2>3, ReturnIInv
<1> QED
  BY <1>2, <1>3 DEF Tail

-----------------------------------------------------------------------------
(***************************************************************************)
(* IInv is inductive.                                                      *)
(***************************************************************************)
LEMMA StutterIInv == ASSUME IInv, UNCHANGED vars PROVE IInv'
<1> USE DEF vars, object, memory, call, cursor
<1>0. TypeOK /\ XStateBalanced /\ PhaseInv /\ SkipInv /\ CursorInv /\ NothingSkipped /\ AnswerInv
  BY DEF IInv
<1>1. TypeOK' /\ XStateBalanced'
  BY <1>0 DEF TypeOK, XStateBalanced
<1>2. PhaseInv'
  BY <1>0 DEF PhaseInv, Usable, uLastIdx
<1>3. SkipInv'
  BY <1>0 DEF SkipInv, Skip, uLastIdx
<1>4. CursorInv'
  BY <1>0 DEF CursorInv, BlockFits, Stride, Lanes, IsLong, uLastIdx
<1>5. NothingSkipped'
  BY <1>0 DEF NothingSkipped, NoneBefore, uLastIdx
<1>6. AnswerInv'
  BY <1>0 DEF AnswerInv
<1> QED
  BY <1>1, <1>2, <1>3, <1>4, <1>5, <1>6 DEF IInv

LEMMA NextIInv == ASSUME TextsFitInt, IInv, [Next]_vars PROVE IInv'
<1>1. CASE \E p \in Patterns : Initialize(p[1], p[2])
  BY <1>1, InitializeRejectsIInv, InitializeAllocatesIInv, InitializeOutOfMemoryIInv
  DEF Initialize
<1>2. CASE InitializeRejects(Null, 1)
  BY <1>2, InitializeRejectsIInv
<1>3. CASE \E t \in Texts, e \in SearchEngine : Call(t[1], t[2], e)
  BY <1>3, CallIInv
<1>4. CASE FindScalar
  BY <1>4, ScalarEntryIInv, ScanEndsIInv, ScanSkipsIInv, ScanVerifiesIInv, VerifyIInv
  DEF FindScalar
<1>5. CASE FindVector
  BY <1>5, BlockIInv, LaneIInv, TailIInv DEF FindVector
<1>6. CASE Populate \/ Find \/ SaveState \/ SaveStateFails \/ RestoreState
  BY <1>6, PopulateIInv, FindIInv, SaveStateIInv, RestoreStateIInv
<1>7. CASE TakeResult \/ Destroy
  BY <1>7, TakeResultIInv, DestroyIInv
<1>8. CASE UNCHANGED vars
  BY <1>8, StutterIInv
<1> QED
  BY <1>1, <1>2, <1>3, <1>4, <1>5, <1>6, <1>7, <1>8 DEF Next, Step, Terminated

THEOREM Invariance == TextsFitInt => (Safety => []IInv)
<1> SUFFICES ASSUME TextsFitInt PROVE Safety => []IInv
  OBVIOUS
<1>1. Init => IInv
  BY InitIInv
<1>2. IInv /\ [Next]_vars => IInv'
  BY NextIInv
<1> QED
  BY <1>1, <1>2, PTL DEF Safety

-----------------------------------------------------------------------------
(***************************************************************************)
(* The theorems.                                                           *)
(***************************************************************************)

(***************************************************************************)
(* Every variable keeps its type; in particular the unsigned cursors never *)
(* wrap below 0.                                                           *)
(***************************************************************************)
THEOREM TypeCorrect == TextsFitInt => (Safety => []TypeOK)
<1>1. IInv => TypeOK
  BY DEF IInv
<1> QED
  BY <1>1, Invariance, PTL

(***************************************************************************)
(* Find returns the offset of the first match, or -1, on every path: any   *)
(* engine asked for, any fallback, any lane size and unrolling, any hash,  *)
(* provided that the text's length fits an int.                            *)
(***************************************************************************)
THEOREM Correct == TextsFitInt => (Safety => []FindIsFirstMatch)
<1>1. IInv => FindIsFirstMatch
  BY DEF IInv, AnswerInv, FindIsFirstMatch
<1> QED
  BY <1>1, Invariance, PTL

(***************************************************************************)
(* No jump, of a window, a block or by MemChr, passes over an occurrence.  *)
(***************************************************************************)
THEOREM JumpsAreSafe == TextsFitInt => (Safety => []NothingSkipped)
<1>1. IInv => NothingSkipped
  BY DEF IInv
<1> QED
  BY <1>1, Invariance, PTL

(***************************************************************************)
(* No step reads outside the text or the pattern.                          *)
(***************************************************************************)
LEMMA IInvReadsInBounds == IInv => ReadsInBounds
<1> SUFFICES ASSUME IInv PROVE ReadsInBounds
  OBVIOUS
<1>1. CursorInv /\ TypeOK /\ PhaseInv
  BY DEF IInv
<1>2. pc = "scan" => uI + uK >= uLastIdx
  BY <1>1 DEF CursorInv, TypeOK, uLastIdx
<1>3. pc = "verify" => /\ uJ \in 0 .. m_cchPatternLen - 2
                       /\ VerifyIdx >= 0 /\ uI + uK < cchTextLen
  BY <1>1 DEF CursorInv, TypeOK, uLastIdx, VerifyIdx
<1>4. pc = "lane" => lane < Lanes /\ uI + (Stride - 1) + uLastIdx < cchTextLen
  BY <1>1 DEF CursorInv, BlockFits
<1>5. pc \in {"block", "scalar"} => uI <= cchTextLen
  BY <1>1 DEF CursorInv
<1> QED
  BY <1>2, <1>3, <1>4, <1>5 DEF ReadsInBounds

THEOREM MemorySafe == TextsFitInt => (Safety => []ReadsInBounds)
BY IInvReadsInBounds, Invariance, PTL

(***************************************************************************)
(* The extended state is saved while vector code runs and is back when     *)
(* Find returns.                                                           *)
(***************************************************************************)
THEOREM StateRestored == TextsFitInt => (Safety => []XStateBalanced)
<1>1. IInv => XStateBalanced
  BY DEF IInv
<1> QED
  BY <1>1, Invariance, PTL

(***************************************************************************)
(* The skip table is exact: collisions keep the smallest jump.             *)
(***************************************************************************)
LEMMA IInvSkipTableExact == IInv => SkipTableExact
<1> SUFFICES ASSUME IInv, m_SkipTable # Null, pc # "populate", NEW h \in Slot
             PROVE  LET seen == { j \in 0 .. m_cchPatternLen - 2 : HashChar[m_Pattern[j]] = h }
                    IN  m_SkipTable[h] = IF seen = {} THEN m_cchPatternLen
                                         ELSE m_cchPatternLen - 1 - Max(seen)
  BY DEF SkipTableExact
<1> DEFINE seen == { j \in 0 .. m_cchPatternLen - 2 : HashChar[m_Pattern[j]] = h }
<1>1. /\ m_cchPatternLen \in Nat /\ m_cchPatternLen >= 1 /\ uLastIdx = m_cchPatternLen - 1
      /\ m_SkipTable[h] \in 1 .. m_cchPatternLen
      /\ \/ m_SkipTable[h] = m_cchPatternLen
         \/ \E j \in 0 .. uLastIdx - 1 :
              HashChar[m_Pattern[j]] = h /\ m_SkipTable[h] = uLastIdx - j
      /\ \A j \in 0 .. uLastIdx - 1 : m_SkipTable[HashChar[m_Pattern[j]]] <= uLastIdx - j
  BY DEF IInv, TypeOK, SkipInv, Skip, uLastIdx
<1>2. \A j \in seen : j \in 0 .. uLastIdx - 1 /\ m_SkipTable[h] <= uLastIdx - j
  BY <1>1
<1>3. CASE m_SkipTable[h] = m_cchPatternLen
  <2>1. seen = {}
    BY <1>1, <1>2, <1>3
  <2> QED
    BY <1>3, <2>1
<1>4. CASE \E j \in 0 .. uLastIdx - 1 :
             HashChar[m_Pattern[j]] = h /\ m_SkipTable[h] = uLastIdx - j
  <2>1. PICK j \in 0 .. uLastIdx - 1 :
          HashChar[m_Pattern[j]] = h /\ m_SkipTable[h] = uLastIdx - j
    BY <1>4
  <2>2. j \in seen /\ \A i \in seen : j >= i
    BY <1>1, <1>2, <2>1
  <2>3. seen \in SUBSET Int
    OBVIOUS
  <2>4. Max(seen) = j
    BY <2>2, <2>3, MaxIs
  <2>5. seen # {}
    BY <2>2
  <2> HIDE DEF seen
  <2>6. m_SkipTable[h] = m_cchPatternLen - 1 - Max(seen)
    BY <1>1, <2>1, <2>4
  <2> QED
    BY <2>5, <2>6 DEF seen
<1> QED
  BY <1>1, <1>3, <1>4

THEOREM CollisionsKeepSmallestJump == TextsFitInt => (Safety => []SkipTableExact)
BY IInvSkipTableExact, Invariance, PTL

-----------------------------------------------------------------------------
(***************************************************************************)
(* The searcher implements StringFinder.                                   *)
(***************************************************************************)
InSearch == {"find", "save", "block", "lane", "scalar", "scan", "verify", "restore"}

\* The abstract specification has operators of its own, with the same bodies.
LEMMA FinderOffset ==
  ASSUME NEW t, NEW n, NEW p, NEW m
  PROVE  Finder!BasicOffset(t, n, p, m) = BasicOffset(t, n, p, m)
<1>1. Finder!Occurrences(t, n, p, m) = Occurrences(t, n, p, m)
  BY DEF Occurrences, OccursAt, Finder!Occurrences, Finder!OccursAt
<1>2. ASSUME NEW S PROVE Finder!First(S) = First(S)
  BY DEF First, Min, Finder!First, Finder!Min
<1> QED
  BY <1>1, <1>2 DEF BasicOffset, Finder!BasicOffset

LEMMA SearchStepIsReplyOrStutter ==
  ASSUME IInv', pc \in InSearch, pc' \in InSearch \cup {"done"},
         UNCHANGED <<object, call>>
  PROVE  [Finder!Next]_(Finder!vars)
<1> USE DEF object, call, InSearch
<1>1. FinderPhase = "searching" /\ (pc = "done") = FALSE
  BY DEF FinderPhase
<1>2. CASE pc' = "done"
  <2>1. FinderPhase' = "answered"
    BY <1>2 DEF FinderPhase
  <2>2. result' = BasicOffset(text', cchTextLen', m_Pattern', m_cchPatternLen')
    BY <1>2 DEF IInv, AnswerInv
  <2>3. (IF pc' = "done" THEN result' ELSE -1)
          = Finder!BasicOffset(text, cchTextLen, m_Pattern, m_cchPatternLen)
    BY <1>2, <2>2, FinderOffset
  <2>4. UNCHANGED <<m_Pattern, m_cchPatternLen, text, cchTextLen>>
    OBVIOUS
  <2>5. Finder!Reply
    BY <1>1, <2>1, <2>3, <2>4 DEF Finder!Reply
  <2> QED
    BY <2>5 DEF Finder!Next
<1>3. CASE pc' # "done"
  <2>1. FinderPhase' = "searching"
    BY <1>3 DEF FinderPhase
  <2>2. UNCHANGED Finder!vars
    BY <1>1, <1>3, <2>1 DEF Finder!vars
  <2> QED
    BY <2>2
<1> QED
  BY <1>2, <1>3

LEMMA StepRefines ==
  ASSUME IInv, IInv', Step
  PROVE  [Finder!Next]_(Finder!vars)
<1>1. CASE Populate
  <2>1. /\ pc = "populate" /\ pc' \in {"populate", "idle"}
        /\ UNCHANGED <<m_Pattern, m_cchPatternLen, text, cchTextLen, result>>
    BY <1>1 DEF Populate, call
  <2>2. FinderPhase = "idle" /\ FinderPhase' = "idle"
    BY <2>1 DEF FinderPhase
  <2>3. UNCHANGED Finder!vars
    BY <2>1, <2>2 DEF Finder!vars
  <2> QED
    BY <2>3
<1>2. CASE Find \/ SaveState \/ SaveStateFails \/ RestoreState
  <2>1. /\ pc \in InSearch /\ pc' \in InSearch \cup {"done"}
        /\ UNCHANGED <<object, call>>
    BY <1>2 DEF Find, SaveState, SaveStateFails, RestoreState, InSearch
  <2> QED
    BY <2>1, SearchStepIsReplyOrStutter
<1>3. CASE FindScalar
  <2>1. /\ pc \in InSearch /\ pc' \in InSearch \cup {"done"}
        /\ UNCHANGED <<object, call>>
    BY <1>3 DEF FindScalar, ScalarEntry, ScanEnds, ScanSkips, ScanVerifies, Verify,
                ScalarReturn, Return, InSearch
  <2> QED
    BY <2>1, SearchStepIsReplyOrStutter
<1>4. CASE FindVector
  <2>1. /\ pc \in InSearch /\ pc' \in InSearch \cup {"done"}
        /\ UNCHANGED <<object, call>>
    BY <1>4 DEF FindVector, Block, Lane, Tail, NextBlock, Return, InSearch
  <2> QED
    BY <2>1, SearchStepIsReplyOrStutter
<1> QED
  BY <1>1, <1>2, <1>3, <1>4 DEF Step

LEMMA InitializeRefines ==
  ASSUME NEW p \in Patterns, Initialize(p[1], p[2])
  PROVE  [Finder!Next]_(Finder!vars)
<1>1. CASE InitializeRejects(p[1], p[2])
  <2>1. UNCHANGED <<pc, m_Pattern, m_cchPatternLen, text, cchTextLen, result>>
    BY <1>1 DEF InitializeRejects, object, call
  <2>2. UNCHANGED Finder!vars
    BY <2>1 DEF Finder!vars, FinderPhase
  <2> QED
    BY <2>2
<1>2. CASE InitializeAllocates(p[1], p[2]) \/ InitializeOutOfMemory(p[1], p[2])
  <2>1. /\ pc = "idle" /\ pc' \in {"idle", "populate"}
        /\ m_Pattern' = p[1] /\ m_cchPatternLen' = p[2]
        /\ UNCHANGED <<text, cchTextLen, result>>
    BY <1>2 DEF InitializeAllocates, InitializeOutOfMemory, BindPattern, call
  <2>2. FinderPhase = "idle" /\ FinderPhase' = "idle"
    BY <2>1 DEF FinderPhase
  <2>3. Finder!SetPattern
    BY <2>1, <2>2 DEF Finder!SetPattern
  <2> QED
    BY <2>3 DEF Finder!Next
<1> QED
  BY <1>1, <1>2 DEF Initialize

LEMMA CallerRefines ==
  ASSUME IInv, (\E t \in Texts, e \in SearchEngine : Call(t[1], t[2], e)) \/ TakeResult \/ Destroy
  PROVE  [Finder!Next]_(Finder!vars)
<1>1. ASSUME NEW t \in Texts, NEW e \in SearchEngine, Call(t[1], t[2], e)
      PROVE  [Finder!Next]_(Finder!vars)
  <2>1. /\ pc = "idle" /\ pc' = "find" /\ text' = t[1] /\ cchTextLen' = t[2]
        /\ UNCHANGED <<m_Pattern, m_cchPatternLen, result>>
    BY <1>1 DEF Call, object
  <2>2. FinderPhase = "idle" /\ FinderPhase' = "searching"
    BY <2>1 DEF FinderPhase
  <2>3. Finder!Ask
    BY <2>1, <2>2 DEF Finder!Ask
  <2> QED
    BY <2>3 DEF Finder!Next
<1>2. CASE TakeResult
  <2>1. /\ pc = "done" /\ pc' = "idle" /\ text' = Empty /\ cchTextLen' = 0
        /\ UNCHANGED <<m_Pattern, m_cchPatternLen>>
    BY <1>2 DEF TakeResult, object
  <2>2. FinderPhase = "answered" /\ FinderPhase' = "idle"
    BY <2>1 DEF FinderPhase
  <2>3. Finder!Take
    BY <2>1, <2>2 DEF Finder!Take
  <2> QED
    BY <2>3 DEF Finder!Next
<1>3. CASE Destroy
  <2>1. /\ pc = "idle" /\ pc' = "destroyed"
        /\ UNCHANGED <<m_Pattern, m_cchPatternLen, text, cchTextLen, result>>
    BY <1>3 DEF Destroy, object, call
  <2>2. FinderPhase = "idle" /\ FinderPhase' = "destroyed"
    BY <2>1 DEF FinderPhase
  <2>3. Finder!Destroy
    BY <2>1, <2>2 DEF Finder!Destroy
  <2> QED
    BY <2>3 DEF Finder!Next
<1> QED
  BY <1>1, <1>2, <1>3

LEMMA NextRefines ==
  ASSUME IInv, IInv', [Next]_vars
  PROVE  [Finder!Next]_(Finder!vars)
<1>1. CASE InitializeRejects(Null, 1) \/ UNCHANGED vars
  <2>1. UNCHANGED <<pc, m_Pattern, m_cchPatternLen, text, cchTextLen, result>>
    BY <1>1 DEF InitializeRejects, object, call, vars
  <2>2. UNCHANGED Finder!vars
    BY <2>1 DEF Finder!vars, FinderPhase
  <2> QED
    BY <2>2
<1> QED
  BY <1>1, InitializeRefines, StepRefines, CallerRefines DEF Next, Terminated

LEMMA InitRefines == Init => Finder!Init
<1> SUFFICES ASSUME Init PROVE Finder!Init
  OBVIOUS
<1>1. /\ pc = "idle" /\ m_Pattern = Empty /\ m_cchPatternLen = 0
      /\ text = Empty /\ cchTextLen = 0
  BY DEF Init
<1>2. FinderPhase = "idle"
  BY <1>1 DEF FinderPhase
<1> QED
  BY <1>1, <1>2 DEF Finder!Init

(***************************************************************************)
(* Every behaviour of the searcher is one of StringFinder's, as far as     *)
(* safety goes: however many steps, engines and fallbacks a call takes,    *)
(* its caller sees one reply, the naive matcher's.                         *)
(***************************************************************************)
THEOREM Refinement == TextsFitInt => (Safety => Finder!Safety)
<1> SUFFICES ASSUME TextsFitInt PROVE Safety => Finder!Safety
  OBVIOUS
<1>1. Init => Finder!Init
  BY InitRefines
<1>2. IInv /\ IInv' /\ [Next]_vars => [Finder!Next]_(Finder!vars)
  BY NextRefines
<1>3. Safety => []IInv
  BY Invariance
<1> QED
  BY <1>1, <1>2, <1>3, PTL DEF Safety, Finder!Safety

-----------------------------------------------------------------------------
(***************************************************************************)
(* Every call comes to an end: its steps descend.  A return leaves the     *)
(* phase; a jump leaves less of the text, because no skip and no stride is *)
(* 0; a comparison and a lane leave less of their loop.                    *)
(***************************************************************************)
LEMMA FurtherLeavesLess ==
  ASSUME NEW end \in Nat, NEW here \in Nat, NEW there \in Nat, there > here
  PROVE  /\ end - there < end - here
         /\ \A base \in Nat : end - (base + there) < end - (base + here)
  OBVIOUS

LEMMA PhaseType == CallPhase \in Nat
  BY DEF CallPhase

LEMMA LeaveEngine ==
  ASSUME pc \in Searching, NEW r, Return(r)
  PROVE  CallPhase' < CallPhase
  BY DEF Searching, Return, CallPhase

LEMMA PopulateDescends ==
  ASSUME IInv, Populate
  PROVE  TextLeft \in Nat /\ LoopLeft \in Nat /\ Descends
<1>1. /\ pc = "populate" /\ uLastIdx \in Nat /\ uI \in 0 .. uLastIdx
      /\ uLastIdx' = uLastIdx
  BY DEF Populate, IInv, TypeOK, PhaseInv, uLastIdx
<1>2. TextLeft = uLastIdx - uI /\ LoopLeft = 0 /\ CallPhase = 1
  BY <1>1 DEF TextLeft, LoopLeft, CallPhase
<1>3. CASE uI' = uI + 1 /\ pc' = pc
  <2>1. TextLeft' = uLastIdx - (uI + 1) /\ CallPhase' = 1
    BY <1>1, <1>3 DEF TextLeft, CallPhase
  <2> QED BY <1>1, <1>2, <2>1 DEF Descends
<1>4. CASE pc' = "idle"
  <2>1. CallPhase' = 0
    BY <1>4 DEF CallPhase
  <2> QED BY <1>1, <1>2, <2>1 DEF Descends
<1> QED BY <1>3, <1>4 DEF Populate

\* The steps that only pass from one phase to a later one.
LEMMA PhasesDescend ==
  ASSUME IInv, Find \/ SaveState \/ SaveStateFails \/ RestoreState
  PROVE  TextLeft \in Nat /\ LoopLeft \in Nat /\ Descends
<1>1. pc \in {"find", "save", "restore"} /\ CallPhase' < CallPhase
  BY DEF Find, SaveState, SaveStateFails, RestoreState, CallPhase
<1>2. TextLeft = 0 /\ LoopLeft = 0
  BY <1>1 DEF TextLeft, LoopLeft
<1> QED BY <1>1, <1>2 DEF Descends

LEMMA TextLeftNat ==
  ASSUME IInv, pc \in Searching
  PROVE  TextLeft \in Nat /\ LoopLeft \in Nat
<1>1. /\ uI \in Nat /\ uK \in Nat /\ uJ \in Nat /\ lane \in Nat
      /\ m_cchPatternLen \in Nat /\ cchTextLen \in Nat /\ uLastIdx \in Nat
      /\ Lanes \in Nat /\ Stride \in Nat /\ Stride >= 1
  BY SearchFacts, StridePositive
<1>2. pc \in {"block", "lane"} => uI <= cchTextLen
  BY <1>1 DEF IInv, CursorInv, BlockFits
<1>3. pc = "lane" => lane < Lanes
  BY DEF IInv, CursorInv
<1>4. TextLeft \in Nat
  BY <1>1, <1>2 DEF TextLeft, Searching
<1>5. LoopLeft \in Nat
  BY <1>1, <1>3 DEF LoopLeft, Searching
<1> QED BY <1>4, <1>5

\* The window moves on.
LEMMA WindowDescends ==
  ASSUME IInv, pc \in {"scan", "verify"}, uI + uK < cchTextLen,
         EngineFrame, UNCHANGED uI, pc' = "scan", uK' \in Nat, uK' > uK
  PROVE  Descends
<1>1. uI \in Nat /\ uK \in Nat /\ cchTextLen \in Nat /\ cchTextLen' = cchTextLen
  BY SearchFacts DEF Searching, EngineFrame, call
<1>2. TextLeft = cchTextLen - (uI + uK)
  BY DEF TextLeft
<1>3. TextLeft' = IF uI + uK' < cchTextLen THEN cchTextLen - (uI + uK') ELSE 0
  BY <1>1 DEF TextLeft
<1>4. TextLeft' < TextLeft
  <2>1. CASE uI + uK' < cchTextLen
    <3>1. TextLeft' = cchTextLen - (uI + uK')
      BY <1>3, <2>1
    <3>2. cchTextLen - (uI + uK') < cchTextLen - (uI + uK)
      BY <1>1, FurtherLeavesLess
    <3> QED BY <1>2, <3>1, <3>2, Zenon
  <2>2. CASE ~(uI + uK' < cchTextLen)
    BY <1>1, <1>2, <1>3, <2>2
  <2> QED BY <2>1, <2>2
<1>5. CallPhase' = CallPhase
  BY DEF CallPhase
<1> QED BY <1>4, <1>5 DEF Descends

LEMMA ScanSkipsDescends == ASSUME IInv, ScanSkips PROVE Descends
<1> DEFINE e == uI + uK
           d == Skip(text[e])
           match == MemChrFrom(lastChar, uK + 1)
<1>1. /\ pc = "scan" /\ pc \in Searching /\ EngineFrame /\ UNCHANGED <<uI, lane, uJ>>
      /\ uK < cchTextLen - uI
      /\ \/ d <= 2 /\ match = -1 /\ ScalarReturn(-1) /\ uK' = uK
         \/ d <= 2 /\ match # -1 /\ uK' = match /\ UNCHANGED <<pc, result>>
         \/ d > 2 /\ uK' = uK + d /\ UNCHANGED <<pc, result>>
  BY DEF ScanSkips, EngineFrame, Searching
<1>2. /\ uI \in Nat /\ uK \in Nat /\ cchTextLen \in Nat /\ uK + 1 \in Nat
      /\ uI + uK < cchTextLen /\ uLastIdx \in Nat
  BY <1>1, SearchFacts
<1>3. uK >= uLastIdx
  BY <1>1 DEF IInv, CursorInv
<1>4. d \in 1 .. m_cchPatternLen
  <2>1. e \in 0 .. cchTextLen - 1
    BY <1>2
  <2>2. uLastIdx <= e
    BY <1>2, <1>3
  <2> QED BY <1>1, <2>1, <2>2, SkipIsSafe
<1>5. match = -1 \/ (match \in Nat /\ match >= uK + 1)
  BY <1>1, <1>2, MemChrFromIsFirst
<1> HIDE DEF match, d
<1>6. CASE ScalarReturn(-1)
  <2>1. CallPhase' < CallPhase
    BY <1>1, <1>6, LeaveEngine DEF ScalarReturn
  <2> QED BY <2>1 DEF Descends
<1>7. CASE uK' = match /\ match # -1 /\ UNCHANGED pc
  <2>1. uK' \in Nat /\ uK' > uK
    BY <1>2, <1>5, <1>7
  <2> QED BY <1>1, <1>2, <1>7, <2>1, WindowDescends
<1>8. CASE d > 2 /\ uK' = uK + d /\ UNCHANGED pc
  <2>1. uK' \in Nat /\ uK' > uK
    BY <1>2, <1>4, <1>8
  <2> QED BY <1>1, <1>2, <1>8, <2>1, WindowDescends
<1> QED BY <1>1, <1>6, <1>7, <1>8

LEMMA VerifyDescends == ASSUME IInv, Verify PROVE Descends
<1>1. /\ pc = "verify" /\ pc \in Searching /\ EngineFrame /\ UNCHANGED <<uI, lane>>
  BY DEF Verify, EngineFrame, Searching
<1>2. /\ uI \in Nat /\ uK \in Nat /\ uJ \in Nat /\ cchTextLen \in Nat
      /\ m_cchPatternLen \in Nat /\ uLastIdx \in Nat /\ uLastIdx = m_cchPatternLen - 1
  BY <1>1, SearchFacts
<1>3. /\ uI + uK < cchTextLen /\ uK >= uLastIdx /\ uJ \in 0 .. m_cchPatternLen - 2
      /\ \A j \in uJ + 1 .. uLastIdx : text[(uI + uK) - uLastIdx + j] = m_Pattern[j]
  BY <1>1 DEF IInv, CursorInv
<1>4. CASE ScalarReturn(VerifyIdx)
  <2>1. CallPhase' < CallPhase
    BY <1>1, <1>4, LeaveEngine DEF ScalarReturn
  <2> QED BY <2>1 DEF Descends
<1>5. CASE uJ # 0 /\ uJ' = uJ - 1 /\ UNCHANGED <<pc, result, uK>>
  <2>1. LoopLeft = uJ /\ LoopLeft' = uJ - 1
    BY <1>1, <1>5 DEF LoopLeft
  <2>2. TextLeft' = TextLeft /\ CallPhase' = CallPhase
    BY <1>1, <1>5 DEF TextLeft, CallPhase, EngineFrame, call
  <2> QED BY <1>2, <2>1, <2>2 DEF Descends
<1>6. CASE uK' = uK + Skip(lastChar) /\ pc' = "scan"
  <2>1. lastChar = text[uI + uK]
    <3>1. uLastIdx \in uJ + 1 .. uLastIdx /\ (uI + uK) - uLastIdx + uLastIdx = uI + uK
      BY <1>2, <1>3
    <3> QED BY <1>3, <3>1 DEF lastChar
  <2>2. uI + uK \in 0 .. cchTextLen - 1 /\ uLastIdx <= uI + uK
    BY <1>2, <1>3
  <2>3. Skip(lastChar) \in 1 .. m_cchPatternLen
    BY <1>1, <2>1, <2>2, SkipIsSafe
  <2>4. uK' \in Nat /\ uK' > uK
    BY <1>2, <1>6, <2>3
  <2> QED BY <1>1, <1>3, <1>6, <2>4, WindowDescends
<1> QED BY <1>4, <1>5, <1>6 DEF Verify

LEMMA ScalarDescends ==
  ASSUME IInv, FindScalar
  PROVE  TextLeft \in Nat /\ LoopLeft \in Nat /\ Descends
<1>0. pc \in Searching
  BY DEF FindScalar, ScalarEntry, ScanEnds, ScanSkips, ScanVerifies, Verify, Searching
<1>1. TextLeft \in Nat /\ LoopLeft \in Nat
  BY <1>0, TextLeftNat
<1>2. CASE ScalarEntry
  <2>1. CallPhase' < CallPhase
    <3>1. CASE pc' = "scan"
      BY <1>2, <3>1 DEF ScalarEntry, CallPhase
    <3>2. CASE ScalarReturn(MemChrFrom(m_Pattern[0], 0))
      BY <1>0, <3>2, LeaveEngine DEF ScalarReturn
    <3> QED BY <1>2, <3>1, <3>2 DEF ScalarEntry
  <2> QED BY <1>1, <2>1 DEF Descends
<1>3. CASE ScanEnds
  <2>1. CallPhase' < CallPhase
    BY <1>0, <1>3, LeaveEngine DEF ScanEnds, ScalarReturn
  <2> QED BY <1>1, <2>1 DEF Descends
<1>4. CASE ScanSkips
  BY <1>1, <1>4, ScanSkipsDescends
<1>5. CASE ScanVerifies
  <2>1. /\ uI \in Nat /\ uK \in Nat /\ cchTextLen \in Nat /\ m_cchPatternLen \in Nat
        /\ uLastIdx = m_cchPatternLen - 1
    BY <1>0, SearchFacts
  <2>2. LoopLeft = m_cchPatternLen /\ LoopLeft' = uLastIdx - 1
    BY <1>5 DEF ScanVerifies, LoopLeft
  <2>3. TextLeft' = TextLeft /\ CallPhase' = CallPhase
    BY <1>5 DEF ScanVerifies, TextLeft, CallPhase, call
  <2>4. LoopLeft' < LoopLeft
    BY <2>1, <2>2
  <2> QED BY <1>1, <2>3, <2>4 DEF Descends
<1>6. CASE Verify
  BY <1>1, <1>6, VerifyDescends
<1> QED BY <1>2, <1>3, <1>4, <1>5, <1>6 DEF FindScalar

\* The block moves on.
LEMMA NextBlockDescends ==
  ASSUME IInv, pc \in {"block", "lane"}, BlockFits, EngineFrame, NextBlock
  PROVE  Descends
<1>1. pc \in Searching
  BY DEF Searching
<1>2. /\ uI \in Nat /\ m_cchPatternLen \in Nat /\ cchTextLen \in Nat
      /\ uLastIdx \in Nat /\ Stride \in Nat /\ Stride >= 1
      /\ cchTextLen' = cchTextLen
  BY <1>1, SearchFacts, StridePositive DEF EngineFrame, call
<1>3. Skip(text[uI + (Stride - 1) + uLastIdx]) \in 1 .. m_cchPatternLen
  <2>1. /\ uI + (Stride - 1) + uLastIdx \in 0 .. cchTextLen - 1
        /\ uLastIdx <= uI + (Stride - 1) + uLastIdx
    BY <1>2 DEF BlockFits
  <2> QED BY <1>1, <2>1, SkipIsSafe
<1>4. uI' \in Nat /\ uI' > uI
  <2>1. uI' = IF IsLong THEN uI + (Stride - 1) + Skip(text[uI + (Stride - 1) + uLastIdx])
              ELSE uI + Stride
    BY DEF NextBlock
  <2> QED BY <1>2, <1>3, <2>1
<1>5. pc' = "block"
  BY DEF NextBlock
<1>6. TextLeft = cchTextLen - uI /\ TextLeft' = cchTextLen - uI'
  BY <1>2, <1>5 DEF TextLeft
<1>7. CallPhase' = CallPhase
  BY <1>5 DEF CallPhase
<1>8. TextLeft' < TextLeft
  <2>1. cchTextLen - uI' < cchTextLen - uI
    BY <1>2, <1>4, FurtherLeavesLess
  <2> QED BY <1>6, <2>1, Zenon
<1> QED BY <1>7, <1>8 DEF Descends

LEMMA VectorDescends ==
  ASSUME IInv, FindVector
  PROVE  TextLeft \in Nat /\ LoopLeft \in Nat /\ Descends
<1>0. pc \in {"block", "lane"} /\ pc \in Searching /\ EngineFrame
  BY DEF FindVector, Block, Lane, Tail, Searching, EngineFrame, cursor
<1>1. TextLeft \in Nat /\ LoopLeft \in Nat
  BY <1>0, TextLeftNat
<1>2. Lanes \in Nat \ {0} /\ lane \in Nat /\ Lanes' = Lanes /\ cchTextLen' = cchTextLen
  BY <1>0, SearchFacts, StridePositive DEF Lanes, IsLong, EngineFrame, object, call
<1>3. CASE Block
  <2>1. CASE pc' = "lane" /\ lane' = 0 /\ UNCHANGED <<uI, result>>
    <3>1. TextLeft' = TextLeft /\ CallPhase' = CallPhase
      BY <1>2, <1>3, <2>1 DEF Block, TextLeft, CallPhase
    <3>2. LoopLeft = Lanes /\ LoopLeft' = Lanes - 1 - 0
      BY <1>2, <1>3, <2>1 DEF Block, LoopLeft
    <3>3. LoopLeft' < LoopLeft
      BY <1>2, <3>2
    <3> QED BY <1>1, <3>1, <3>3 DEF Descends
  <2>2. CASE NextBlock
    BY <1>0, <1>1, <1>3, <2>2, NextBlockDescends DEF Block
  <2> QED BY <1>3, <2>1, <2>2 DEF Block
<1>4. CASE Lane
  <2> DEFINE r == CheckMask(uI + lane * LaneLen + uLastIdx)
  <2>1. CASE Return(r)
    <3>1. CallPhase' < CallPhase
      BY <1>0, <2>1, LeaveEngine
    <3> QED BY <1>1, <3>1 DEF Descends
  <2>2. CASE lane' = lane + 1 /\ UNCHANGED <<uI, pc, result>>
    <3>1. TextLeft' = TextLeft /\ CallPhase' = CallPhase
      BY <1>2, <1>4, <2>2 DEF Lane, TextLeft, CallPhase
    <3>2. LoopLeft = Lanes - 1 - lane /\ LoopLeft' = Lanes - 1 - (lane + 1)
      BY <1>2, <1>4, <2>2 DEF Lane, LoopLeft
    <3>3. LoopLeft' < LoopLeft
      BY <1>2, <3>2
    <3> QED BY <1>1, <3>1, <3>3 DEF Descends
  <2>3. CASE NextBlock
    <3>1. BlockFits
      BY <1>4 DEF Lane, IInv, CursorInv
    <3> QED BY <1>0, <1>1, <2>3, <3>1, NextBlockDescends
  <2> QED BY <1>4, <2>1, <2>2, <2>3 DEF Lane
<1>5. CASE Tail
  <2>1. CallPhase' < CallPhase
    <3>1. CASE pc' = "scalar"
      BY <1>0, <3>1 DEF CallPhase
    <3>2. CASE Return(-1)
      BY <1>0, <3>2, LeaveEngine
    <3> QED BY <1>5, <3>1, <3>2 DEF Tail
  <2> QED BY <1>1, <2>1 DEF Descends
<1> QED BY <1>3, <1>4, <1>5 DEF FindVector

\* Whatever the step, if it is one of a call.
LEMMA CallStepDescends == ASSUME TextsFitInt, IInv PROVE StepDescends
<1>1. ASSUME Step
      PROVE  CallPhase \in Nat /\ TextLeft \in Nat /\ LoopLeft \in Nat /\ Descends
  BY <1>1, PhaseType, PopulateDescends, PhasesDescend, ScalarDescends,
     VectorDescends DEF Step
<1> QED BY <1>1 DEF StepDescends

(***************************************************************************)
(* No call runs forever: every step of Initialize and of Find descends in  *)
(* a well-founded order, for every hash, pattern and text, every register  *)
(* width and every threshold.                                              *)
(***************************************************************************)
THEOREM CallsDescend == TextsFitInt => (Safety => StepsDescend)
<1> SUFFICES ASSUME TextsFitInt PROVE Safety => StepsDescend
  OBVIOUS
<1>1. IInv => [StepDescends]_vars
  BY CallStepDescends
<1>2. Safety => []IInv
  BY Invariance
<1> QED BY <1>1, <1>2, PTL DEF StepsDescend
=============================================================================
