-------------------------- MODULE KmBndmSearchProofs --------------------------
(***************************************************************************)
(* IInv of KmBndmSearch is inductive, for every alphabet, hash, pattern,   *)
(* text, word and register size; with it, Find returns the first match,    *)
(* the searcher implements StringFinder, and every call comes to an end.   *)
(***************************************************************************)
EXTENDS KmBndmSearch, MatchingLemmas

TextsFitInt == \A t \in Texts : t[2] <= IntMax

LEMMA EmptyIsString == \A k : k = 0 => Empty \in [0 .. k-1 -> Char]
BY DEF Empty

LEMMA InitIInv == Init => IInv
<1> SUFFICES ASSUME Init PROVE IInv
  OBVIOUS
<1>1. TypeOK
  <2>1. m_Pattern \in [0 .. m-1 -> Char]
    <3>1. m_Pattern = Empty /\ m = 0
      BY DEF Init, m
    <3> QED
      BY <3>1, EmptyIsString, Zenon
  <2>2. text \in [0 .. cchTextLen-1 -> Char]
    <3>1. text = Empty /\ cchTextLen = 0
      BY DEF Init
    <3> QED
      BY <3>1, EmptyIsString, Zenon
  <2>3. /\ m_cchPatternLen \in Nat /\ cchTextLen \in Nat
        /\ poolTables \in Nat /\ inits \in 0 .. MaxInits
        /\ uI \in Nat /\ lane \in Nat /\ uPos \in Nat /\ uJ \in Nat /\ uLast \in Nat
        /\ result \in Int /\ uD \in Word
    BY BuildAssumption DEF Init, Word
  <2>4. /\ m_MaskTable = Null
        /\ m_bHasAVX2 \in BOOLEAN /\ cpuHasAVX2 \in BOOLEAN /\ saved \in BOOLEAN
        /\ pc \in PCs /\ engine \in SearchEngine
    BY DEF Init, PCs, SearchEngine
  <2> QED
    BY <2>1, <2>2, <2>3, <2>4 DEF TypeOK
<1>2. XStateBalanced
  BY DEF Init, XStateBalanced
<1>3. PhaseInv
  BY BuildAssumption DEF Init, PhaseInv
<1>4. MaskInv /\ CursorInv /\ AutomatonExact /\ NothingSkipped /\ AnswerInv
  BY DEF Init, MaskInv, CursorInv, AutomatonExact, NothingSkipped, AnswerInv
<1> QED
  BY <1>1, <1>2, <1>3, <1>4 DEF IInv

(***************************************************************************)
(* The object: MaskInv speaks of nothing else, as long as the table is     *)
(* complete or pc stays.                                                   *)
(***************************************************************************)
LEMMA MaskFrame ==
  ASSUME MaskInv, UNCHANGED object,
         UNCHANGED <<pc, uJ>> \/ (pc # "populate" /\ pc' # "populate")
  PROVE  MaskInv'
BY DEF MaskInv, object, m, uLastIdx

\* Outside of a search, the parts about its cursors say nothing.
LEMMA IdleParts ==
  ASSUME pc' \in {"idle", "populate", "find", "save", "destroyed"}
  PROVE  CursorInv' /\ AutomatonExact' /\ NothingSkipped' /\ AnswerInv'
BY DEF CursorInv, AutomatonExact, NothingSkipped, AnswerInv

LEMMA InitializeRejectsIInv ==
  ASSUME IInv, NEW p, NEW len, InitializeRejects(p, len)
  PROVE  IInv'
<1> USE DEF InitializeRejects, object, call, auto
<1>0. TypeOK /\ XStateBalanced /\ PhaseInv /\ MaskInv /\ pc = "idle" /\ pc' = "idle"
  BY DEF IInv
<1>1. TypeOK'
  BY <1>0, BuildAssumption DEF TypeOK, m
<1>2. XStateBalanced' /\ PhaseInv'
  BY <1>0 DEF XStateBalanced, PhaseInv, m
<1>3. MaskInv'
  BY <1>0, MaskFrame
<1> QED
  BY <1>0, <1>1, <1>2, <1>3, IdleParts DEF IInv

LEMMA InitializeWithoutTableIInv ==
  ASSUME IInv, NEW s \in Patterns, InitializeWithoutTable(s[1], s[2])
  PROVE  IInv'
<1> USE DEF InitializeWithoutTable, BindPattern, call, auto
<1>0. /\ s[2] \in Nat /\ s[1] \in [0 .. s[2]-1 -> Char] /\ s[2] # 0
      /\ pc = "idle" /\ pc' = "idle" /\ TypeOK /\ XStateBalanced /\ PhaseInv
  BY DataAssumption DEF IInv, IsString, Rejected
<1>1. TypeOK'
  BY <1>0, BuildAssumption DEF TypeOK, m
<1>2. XStateBalanced' /\ PhaseInv'
  BY <1>0 DEF XStateBalanced, PhaseInv
<1>3. MaskInv'
  BY DEF MaskInv
<1> QED
  BY <1>0, <1>1, <1>2, <1>3, IdleParts DEF IInv

LEMMA InitializeAllocatesIInv ==
  ASSUME IInv, NEW s \in Patterns, InitializeAllocates(s[1], s[2])
  PROVE  IInv'
<1> USE DEF InitializeAllocates, BindPattern, call, auto
<1>0. /\ s[2] \in Nat /\ s[1] \in [0 .. s[2]-1 -> Char] /\ s[2] # 0 /\ s[2] <= WordBits
      /\ pc = "idle" /\ pc' = "populate" /\ TypeOK /\ XStateBalanced /\ PhaseInv
      /\ WordBits \in Nat
  BY DataAssumption, BuildAssumption DEF IInv, IsString, Rejected, MAX_BNDM_PATTERN_LEN
<1>1. TypeOK'
  <2>1. m_MaskTable' \in [Slot -> Word] /\ inits' \in 0 .. MaxInits /\ poolTables' \in Nat
    BY <1>0, BuildAssumption DEF TypeOK, Word
  <2> QED
    BY <1>0, <2>1 DEF TypeOK, PCs, m
<1>2. XStateBalanced'
  BY <1>0 DEF XStateBalanced
<1>3. PhaseInv'
  <2>1. m_MaskTable' \in [Slot -> Word]
    BY DEF Word
  <2>2. m_MaskTable' # Null
    BY <2>1, NullAssumption
  <2>3. poolTables' >= 1 /\ uJ' = 0 /\ m' = s[2]
    BY <1>0 DEF TypeOK, PhaseInv, m
  <2> QED
    BY <1>0, <2>2, <2>3 DEF PhaseInv, m
<1>4. MaskInv'
  <2>1. uJ' = 0 /\ m_MaskTable' = [h \in Slot |-> {}]
    BY <1>0 DEF PhaseInv
  <2> QED
    BY <1>0, <2>1 DEF MaskInv
<1> QED
  BY <1>0, <1>1, <1>2, <1>3, <1>4, IdleParts DEF IInv

LEMMA PopulateIInv == ASSUME IInv, Populate PROVE IInv'
<1> USE DEF Populate, memory, call
<1>0. /\ TypeOK /\ XStateBalanced /\ PhaseInv /\ MaskInv /\ pc = "populate"
      /\ m_MaskTable # Null /\ m_MaskTable \in [Slot -> Word]
      /\ m \in Nat /\ m >= 1 /\ m <= WordBits /\ WordBits \in Nat
      /\ uJ \in Nat /\ uJ <= m /\ uLastIdx = m - 1
      /\ m_Pattern \in [0 .. m-1 -> Char]
      /\ \A h \in Slot :
           m_MaskTable[h] = { j \in 0 .. uJ - 1 : HashChar[m_Pattern[uLastIdx - j]] = h }
  <2>1. TypeOK /\ XStateBalanced /\ PhaseInv /\ MaskInv /\ pc = "populate"
    BY DEF IInv
  <2> QED
    BY <2>1, BuildAssumption DEF TypeOK, PhaseInv, MaskInv, m, uLastIdx
<1>1. CASE uJ < m
  <2> DEFINE h0 == HashChar[m_Pattern[uLastIdx - uJ]]
  <2>1. /\ m_MaskTable' = [m_MaskTable EXCEPT ![h0] = @ \cup Bit(uJ)]
        /\ uJ' = uJ + 1 /\ pc' = "populate"
        /\ uLastIdx - uJ \in 0 .. m - 1
    BY <1>0, <1>1
  <2>2. h0 \in Slot /\ Bit(uJ) = {uJ} /\ {uJ} \in Word
    BY <1>0, <1>1, <2>1, DataAssumption DEF Bit, Word
  <2>3. m_MaskTable' \in [Slot -> Word]
    BY <1>0, <2>1, <2>2 DEF Word
  <2>4. TypeOK'
    BY <1>0, <2>1, <2>3 DEF TypeOK, m
  <2>5. XStateBalanced' /\ PhaseInv'
    <3>1. m_MaskTable' # Null
      BY <2>3, NullAssumption
    <3>2. uJ' <= m
      BY <1>0, <1>1, <2>1
    <3> QED
      BY <1>0, <2>1, <3>1, <3>2 DEF XStateBalanced, PhaseInv, m
  <2>6. MaskInv'
    <3>1. uLastIdx' = uLastIdx /\ m_Pattern' = m_Pattern /\ uJ' - 1 = uJ
      BY <1>0, <2>1 DEF uLastIdx, m
    <3>2. ASSUME NEW h \in Slot
          PROVE  m_MaskTable'[h]
                   = { j \in 0 .. uJ : HashChar[m_Pattern[uLastIdx - j]] = h }
      <4>1. CASE h = h0
        <5>1. m_MaskTable'[h] = m_MaskTable[h] \cup {uJ}
          BY <1>0, <2>1, <2>2, <4>1
        <5>2. m_MaskTable[h] = { j \in 0 .. uJ - 1 : HashChar[m_Pattern[uLastIdx - j]] = h }
          BY <1>0
        <5>3. \A j : j \in 0 .. uJ <=> j \in 0 .. uJ - 1 \/ j = uJ
          BY <1>0
        <5>4. HashChar[m_Pattern[uLastIdx - uJ]] = h
          BY <4>1
        <5> HIDE DEF h0
        <5> QED
          BY <5>1, <5>2, <5>3, <5>4
      <4>2. CASE h # h0
        <5>1. m_MaskTable'[h] = m_MaskTable[h]
          BY <1>0, <2>1, <4>2
        <5>2. m_MaskTable[h] = { j \in 0 .. uJ - 1 : HashChar[m_Pattern[uLastIdx - j]] = h }
          BY <1>0
        <5>3. \A j : j \in 0 .. uJ <=> j \in 0 .. uJ - 1 \/ j = uJ
          BY <1>0
        <5> QED
          BY <4>2, <5>1, <5>2, <5>3
      <4> QED
        BY <4>1, <4>2
    <3> QED
      BY <2>1, <3>1, <3>2 DEF MaskInv
  <2> QED
    BY <2>1, <2>4, <2>5, <2>6, IdleParts DEF IInv
<1>2. CASE uJ >= m
  <2>1. uJ = m /\ uJ' = 0 /\ pc' = "idle" /\ m_MaskTable' = m_MaskTable
    BY <1>0, <1>2
  <2>2. TypeOK'
    BY <1>0, <2>1 DEF TypeOK, PCs, m
  <2>3. XStateBalanced' /\ PhaseInv'
    BY <1>0, <2>1 DEF XStateBalanced, PhaseInv, m
  <2>4. MaskInv'
    BY <1>0, <2>1 DEF MaskInv, uLastIdx, m
  <2> QED
    BY <2>1, <2>2, <2>3, <2>4, IdleParts DEF IInv
<1> QED
  BY <1>0, <1>1, <1>2

LEMMA DestroyIInv == ASSUME IInv, Destroy PROVE IInv'
<1> USE DEF Destroy, object, call, auto
<1>0. /\ TypeOK /\ XStateBalanced /\ PhaseInv /\ MaskInv /\ pc = "idle" /\ pc' = "destroyed"
  BY DEF IInv
<1>1. TypeOK'
  BY <1>0 DEF TypeOK, PhaseInv, PCs, m
<1>2. XStateBalanced' /\ PhaseInv'
  BY <1>0 DEF XStateBalanced, PhaseInv, m
<1>3. MaskInv'
  BY <1>0, MaskFrame
<1> QED
  BY <1>0, <1>1, <1>2, <1>3, IdleParts DEF IInv

LEMMA CallIInv ==
  ASSUME TextsFitInt, IInv, NEW t \in Texts, NEW e \in SearchEngine, Call(t[1], t[2], e)
  PROVE  IInv'
<1> USE DEF Call, object, memory, auto
<1>0. /\ TypeOK /\ XStateBalanced /\ PhaseInv /\ MaskInv /\ pc = "idle" /\ pc' = "find"
      /\ t[2] \in Nat /\ t[1] \in [0 .. t[2]-1 -> Char] /\ t[2] <= IntMax
  BY DataAssumption DEF IInv, IsString, TextsFitInt
<1>1. TypeOK'
  BY <1>0 DEF TypeOK, PCs, m
<1>2. XStateBalanced' /\ PhaseInv'
  BY <1>0 DEF XStateBalanced, PhaseInv, m
<1>3. MaskInv'
  BY <1>0, MaskFrame
<1> QED
  BY <1>0, <1>1, <1>2, <1>3, IdleParts DEF IInv

LEMMA FindIInv == ASSUME IInv, Find PROVE IInv'
<1> USE DEF Find, object, memory, call, auto
<1>0. /\ TypeOK /\ XStateBalanced /\ PhaseInv /\ MaskInv /\ pc = "find"
      /\ pc' \in {"done", "save", "scalar"}
  BY DEF IInv
<1>1. TypeOK'
  BY <1>0 DEF TypeOK, PCs, SearchEngine, m
<1>2. XStateBalanced'
  BY <1>0 DEF XStateBalanced
<1>3. PhaseInv'
  BY <1>0 DEF PhaseInv, TypeOK, m
<1>4. MaskInv'
  BY <1>0, MaskFrame
<1>5. CursorInv' /\ AutomatonExact' /\ NothingSkipped'
  BY <1>0 DEF CursorInv, AutomatonExact, NothingSkipped, NoneBefore, PhaseInv, TypeOK, m
<1>6. AnswerInv'
  BY <1>0 DEF AnswerInv, PhaseInv, BasicOffset, m
<1> QED
  BY <1>1, <1>2, <1>3, <1>4, <1>5, <1>6 DEF IInv

LEMMA SaveStateIInv == ASSUME IInv, SaveState \/ SaveStateFails PROVE IInv'
<1> USE DEF SaveState, SaveStateFails, object, memory, call, auto
<1>0. /\ TypeOK /\ XStateBalanced /\ PhaseInv /\ MaskInv /\ pc = "save"
      /\ pc' \in {"scalar", "block"}
      /\ pc' = "block" => saved' = TRUE /\ m >= 2
      /\ saved' \in BOOLEAN
  <2>1. TypeOK /\ XStateBalanced /\ PhaseInv /\ MaskInv /\ pc = "save"
        /\ m \in Nat /\ saved \in BOOLEAN
    BY DEF IInv, TypeOK, m
  <2>2. CASE SaveState
    BY <2>1, <2>2
  <2>3. CASE SaveStateFails
    BY <2>1, <2>3
  <2> QED
    BY <2>1, <2>2, <2>3
<1>1. TypeOK'
  BY <1>0 DEF TypeOK, PCs, m
<1>2. XStateBalanced'
  BY <1>0 DEF XStateBalanced
<1>3. PhaseInv'
  BY <1>0 DEF PhaseInv, m
<1>4. MaskInv'
  BY <1>0, MaskFrame
<1>5. CursorInv' /\ AutomatonExact' /\ NothingSkipped' /\ AnswerInv'
  BY <1>0 DEF CursorInv, AutomatonExact, NothingSkipped, NoneBefore, PhaseInv, TypeOK, AnswerInv
<1> QED
  BY <1>1, <1>2, <1>3, <1>4, <1>5 DEF IInv

LEMMA RestoreStateIInv == ASSUME IInv, RestoreState PROVE IInv'
<1> USE DEF RestoreState, object, memory, call, auto
<1>0. /\ TypeOK /\ XStateBalanced /\ PhaseInv /\ MaskInv /\ AnswerInv
      /\ pc = "restore" /\ pc' = "done"
  BY DEF IInv
<1>1. TypeOK'
  BY <1>0 DEF TypeOK, PCs, m
<1>2. XStateBalanced' /\ PhaseInv'
  BY <1>0 DEF XStateBalanced, PhaseInv, m
<1>3. MaskInv'
  BY <1>0, MaskFrame
<1>4. CursorInv' /\ AutomatonExact' /\ NothingSkipped' /\ AnswerInv'
  BY <1>0 DEF CursorInv, AutomatonExact, NothingSkipped, AnswerInv, m
<1> QED
  BY <1>1, <1>2, <1>3, <1>4 DEF IInv

LEMMA TakeResultIInv == ASSUME IInv, TakeResult PROVE IInv'
<1> USE DEF TakeResult, object, memory
<1>0. TypeOK /\ XStateBalanced /\ PhaseInv /\ MaskInv /\ pc = "done" /\ pc' = "idle"
  BY DEF IInv
<1>1. TypeOK'
  <2>1. text' \in [0 .. cchTextLen'-1 -> Char]
    <3>1. text' = Empty /\ cchTextLen' = 0
      OBVIOUS
    <3> QED
      BY <3>1, EmptyIsString, Zenon
  <2>2. uD' \in Word
    BY DEF Word
  <2> QED
    BY <1>0, <2>1, <2>2 DEF TypeOK, PCs, m
<1>2. XStateBalanced' /\ PhaseInv'
  BY <1>0, BuildAssumption DEF XStateBalanced, PhaseInv, m
<1>3. MaskInv'
  BY <1>0, MaskFrame
<1> QED
  BY <1>0, <1>1, <1>2, <1>3, IdleParts DEF IInv

-----------------------------------------------------------------------------
(***************************************************************************)
(* The automaton, for any text t, window w of it and pattern p of length   *)
(* len.  One more character read is one more agreement at the front.       *)
(***************************************************************************)
LEMMA FactorStep ==
  ASSUME NEW t, NEW w \in Int, NEW p, NEW len \in Nat, NEW k \in Nat, NEW b \in Int
  PROVE  Factor(t, w, p, len, k + 1, b)
           <=> /\ HashChar[t[w + (len - k - 1)]] = HashChar[p[len - 1 - b]]
               /\ Factor(t, w, p, len, k, b - 1)
<1> DEFINE Same(i) == HashChar[t[w + (len - (k + 1)) + i]] = HashChar[p[(len - 1 - b) + i]]
<1>1. Same(0) <=> HashChar[t[w + (len - k - 1)]] = HashChar[p[len - 1 - b]]
  <2>1. w + (len - (k + 1)) + 0 = w + (len - k - 1) /\ (len - 1 - b) + 0 = len - 1 - b
    OBVIOUS
  <2> QED
    BY <2>1
<1>2. ASSUME NEW i \in 0 .. k - 1
      PROVE  Same(i + 1) <=>
               HashChar[t[w + (len - k) + i]] = HashChar[p[(len - 1 - (b - 1)) + i]]
  <2>1. /\ w + (len - (k + 1)) + (i + 1) = w + (len - k) + i
        /\ (len - 1 - b) + (i + 1) = (len - 1 - (b - 1)) + i
    OBVIOUS
  <2> QED
    BY <2>1
<1>3. Factor(t, w, p, len, k + 1, b) <=> \A i \in 0 .. k : Same(i)
  BY DEF Factor
<1>4. (\A i \in 0 .. k : Same(i)) <=> Same(0) /\ \A i \in 0 .. k - 1 : Same(i + 1)
  <2>1. \A i \in 0 .. k : i = 0 \/ (i - 1 \in 0 .. k - 1 /\ i = (i - 1) + 1)
    OBVIOUS
  <2>2. 0 \in 0 .. k /\ \A i \in 0 .. k - 1 : i + 1 \in 0 .. k
    OBVIOUS
  <2> HIDE DEF Same
  <2> QED
    BY <2>1, <2>2
<1>5. Factor(t, w, p, len, k, b - 1) <=> \A i \in 0 .. k - 1 : Same(i + 1)
  BY <1>2 DEF Factor
<1> QED
  BY <1>1, <1>3, <1>4, <1>5

(***************************************************************************)
(* The word before its shift: where what has been read stands in the       *)
(* pattern.  The word is full before the first character.                  *)
(***************************************************************************)
Standing(t, w, p, len, k) == { x \in k-1 .. len-1 : Factor(t, w, p, len, k, x) }

\* The word after k characters.
IsWord(D, t, w, p, len, k) ==
  IF k = 0 THEN D = AllOnes ELSE D = WordAfter(t, w, p, len, k)

\* The mask of the character c: its places in p, counted from the end.
IsMask(M, c, p, len) ==
  /\ M \subseteq 0 .. len - 1
  /\ \A j \in 0 .. len - 1 : j \in M <=> HashChar[c] = HashChar[p[len - 1 - j]]

\* What a character's mask leaves of the word.
Kept(D, M) == D \cap M

LEMMA WordStep ==
  ASSUME NEW t, NEW w \in Int, NEW p, NEW len \in Nat, len <= WordBits,
         NEW k \in Nat, k < len, NEW D, NEW M,
         IsWord(D, t, w, p, len, k),
         IsMask(M, t[w + (len - k - 1)], p, len)
  PROVE  /\ Kept(D, M) = Standing(t, w, p, len, k + 1)
         /\ ShiftLeft(Kept(D, M)) = WordAfter(t, w, p, len, k + 1)
<1>0. WordBits \in Nat
  BY BuildAssumption
<1>1. ASSUME NEW x \in Int
      PROVE  x \in M <=> /\ x \in 0 .. len - 1
                         /\ HashChar[t[w + (len - k - 1)]] = HashChar[p[len - 1 - x]]
  BY DEF IsMask
<1>2. ASSUME NEW x \in Int
      PROVE  x \in Standing(t, w, p, len, k + 1)
               <=> /\ x \in k .. len - 1
                   /\ HashChar[t[w + (len - k - 1)]] = HashChar[p[len - 1 - x]]
                   /\ Factor(t, w, p, len, k, x - 1)
  <2>1. x \in Standing(t, w, p, len, k + 1)
          <=> x \in k .. len - 1 /\ Factor(t, w, p, len, k + 1, x)
    <3>1. (k + 1) - 1 = k
      OBVIOUS
    <3> QED
      BY <3>1 DEF Standing
  <2>2. Factor(t, w, p, len, k + 1, x)
          <=> /\ HashChar[t[w + (len - k - 1)]] = HashChar[p[len - 1 - x]]
              /\ Factor(t, w, p, len, k, x - 1)
    BY FactorStep
  <2> QED
    BY <2>1, <2>2
<1>3. ASSUME NEW x \in 0 .. len - 1
      PROVE  x \in D <=> x >= k /\ Factor(t, w, p, len, k, x - 1)
  <2>1. CASE k = 0
    <3>1. Factor(t, w, p, len, k, x - 1)
      BY <2>1 DEF Factor
    <3> QED
      BY <1>0, <2>1, <3>1 DEF AllOnes, IsWord
  <2>2. CASE k > 0
    <3>1. x \in D <=> \E b \in k - 1 .. len - 1 : Factor(t, w, p, len, k, b) /\ x = b + 1
      BY <1>0, <2>2 DEF WordAfter, IsWord
    <3>2. \A b \in k - 1 .. len - 1 : x = b + 1 <=> b = x - 1
      OBVIOUS
    <3>3. x - 1 \in k - 1 .. len - 1 <=> x >= k
      OBVIOUS
    <3> QED
      BY <3>1, <3>2, <3>3
  <2> QED
    BY <2>1, <2>2
<1>4. D \cap M = Standing(t, w, p, len, k + 1)
  <2>1. M \subseteq Int /\ Standing(t, w, p, len, k + 1) \subseteq Int
    BY DEF Standing, IsMask
  <2>2. ASSUME NEW x \in Int
        PROVE  x \in D \cap M <=> x \in Standing(t, w, p, len, k + 1)
    <3>1. CASE x \in 0 .. len - 1
      BY <1>1, <1>2, <1>3, <3>1
    <3>2. CASE x \notin 0 .. len - 1
      BY <1>1, <1>2, <3>2
    <3> QED
      BY <3>1, <3>2
  <2> QED
    BY <2>1, <2>2
<1>5. ShiftLeft(Standing(t, w, p, len, k + 1)) = WordAfter(t, w, p, len, k + 1)
  BY DEF ShiftLeft, WordAfter, Standing
<1> QED
  BY <1>4, <1>5 DEF Kept

(***************************************************************************)
(* The shift: the least one at which a prefix of the pattern was read.     *)
(***************************************************************************)
PrefixShifts(t, w, p, len, k) ==
  { j \in 1 .. len-1 : len - k <= j /\ Factor(t, w, p, len, len - j, len - 1) }

LEMMA ShiftBounds ==
  ASSUME NEW t, NEW w \in Int, NEW p, NEW len \in Nat, len >= 1, NEW k \in 0 .. len
  PROVE  /\ ShiftAfter(t, w, p, len, k) \in 1 .. len
         /\ \A j \in PrefixShifts(t, w, p, len, k) : ShiftAfter(t, w, p, len, k) <= j
<1> DEFINE S == PrefixShifts(t, w, p, len, k)
<1>1. ShiftAfter(t, w, p, len, k) = IF S = {} THEN len ELSE Min(S)
  BY DEF ShiftAfter, PrefixShifts
<1>2. S \in SUBSET Nat /\ S \subseteq 1 .. len - 1
  BY DEF PrefixShifts
<1>3. CASE S = {}
  BY <1>1, <1>3
<1>4. CASE S # {}
  <2>1. Min(S) \in S /\ \A y \in S : Min(S) <= y
    BY <1>2, <1>4, MinOfNat
  <2>2. Min(S) \in 1 .. len
    <3>1. Min(S) \in 1 .. len - 1
      BY <1>2, <2>1, Zenon
    <3>2. \A x \in 1 .. len - 1 : x \in 1 .. len
      OBVIOUS
    <3> QED
      BY <3>1, <3>2, Zenon
  <2> HIDE DEF S
  <2> QED
    BY <1>1, <1>4, <2>1, <2>2 DEF S
<1> QED
  BY <1>3, <1>4

LEMMA ShiftStep ==
  ASSUME NEW t, NEW w \in Int, NEW p, NEW len \in Nat, len >= 1,
         NEW k \in Nat, k < len
  PROVE  ShiftAfter(t, w, p, len, k + 1)
           = IF Factor(t, w, p, len, k + 1, len - 1) /\ len - k - 1 # 0
             THEN len - k - 1 ELSE ShiftAfter(t, w, p, len, k)
<1> DEFINE S == PrefixShifts(t, w, p, len, k)
           T == PrefixShifts(t, w, p, len, k + 1)
           j == len - k - 1
           hit == Factor(t, w, p, len, k + 1, len - 1)
<1>0. j \in 0 .. len - 1 /\ len - j = k + 1 /\ len - (k + 1) = j
  OBVIOUS
<1>1. /\ ShiftAfter(t, w, p, len, k) = IF S = {} THEN len ELSE Min(S)
      /\ ShiftAfter(t, w, p, len, k + 1) = IF T = {} THEN len ELSE Min(T)
  BY DEF ShiftAfter, PrefixShifts
<1>2. S \subseteq Int /\ T \subseteq Int
  BY DEF PrefixShifts
<1>3. ASSUME NEW q \in Int
      PROVE  q \in T <=> q \in S \/ (q = j /\ j # 0 /\ hit)
  <2>1. q \in T <=> /\ q \in 1 .. len - 1 /\ j <= q
                    /\ Factor(t, w, p, len, len - q, len - 1)
    BY <1>0 DEF PrefixShifts
  <2>2. q \in S <=> /\ q \in 1 .. len - 1 /\ j + 1 <= q
                    /\ Factor(t, w, p, len, len - q, len - 1)
    BY DEF PrefixShifts
  <2>3. CASE q = j
    BY <1>0, <2>1, <2>2, <2>3
  <2>4. CASE q # j
    BY <1>0, <2>1, <2>2, <2>4
  <2> QED
    BY <2>3, <2>4
<1>4. CASE hit /\ j # 0
  <2>1. j \in T
    BY <1>0, <1>3, <1>4
  <2>2. \A q \in T : j <= q
    BY <1>0 DEF PrefixShifts
  <2>3. Min(T) = j
    <3> HIDE DEF j, T
    <3> QED
      BY <1>2, <2>1, <2>2, MinIs
  <2> QED
    BY <1>1, <1>4, <2>1, <2>3
<1>5. CASE ~(hit /\ j # 0)
  <2>1. T = S
    <3> HIDE DEF T, S, hit, j
    <3> QED
      BY <1>2, <1>3, <1>5
  <2> QED
    BY <1>1, <1>5, <2>1
<1> QED
  BY <1>4, <1>5

(***************************************************************************)
(* An occurrence inside the window leaves a trace: what was read of it     *)
(* stands in the pattern, and if all of its start was read, that is a      *)
(* prefix.                                                                 *)
(***************************************************************************)
LEMMA OccurrenceIsPrefix ==
  ASSUME NEW t, NEW w \in Int, NEW p, NEW len \in Nat, len >= 1, NEW k \in 0 .. len,
         NEW j \in 1 .. len - 1, j >= len - k, OccursAt(t, p, len, w + j)
  PROVE  ShiftAfter(t, w, p, len, k) <= j
<1>1. Factor(t, w, p, len, len - j, len - 1)
  <2> SUFFICES ASSUME NEW i \in 0 .. len - j - 1
               PROVE  HashChar[t[w + (len - (len - j)) + i]]
                        = HashChar[p[(len - 1 - (len - 1)) + i]]
    BY DEF Factor
  <2>1. /\ i \in 0 .. len - 1 /\ w + (len - (len - j)) + i = w + j + i
        /\ (len - 1 - (len - 1)) + i = i
    OBVIOUS
  <2> QED
    BY <2>1 DEF OccursAt
<1>2. j \in PrefixShifts(t, w, p, len, k)
  BY <1>1 DEF PrefixShifts
<1> QED
  BY <1>2, ShiftBounds

LEMMA OccurrenceIsFactor ==
  ASSUME NEW t, NEW w \in Int, NEW p, NEW len \in Nat, len >= 1, NEW k \in 0 .. len,
         NEW j \in 0 .. len - 1, j <= len - k, OccursAt(t, p, len, w + j)
  PROVE  Factor(t, w, p, len, k, k + j - 1)
<1> SUFFICES ASSUME NEW i \in 0 .. k - 1
             PROVE  HashChar[t[w + (len - k) + i]]
                      = HashChar[p[(len - 1 - (k + j - 1)) + i]]
  BY DEF Factor
<1> DEFINE q == len - k - j + i
<1>1. /\ q \in 0 .. len - 1 /\ w + (len - k) + i = w + j + q
      /\ (len - 1 - (k + j - 1)) + i = q
  OBVIOUS
<1> QED
  BY <1>1 DEF OccursAt

(***************************************************************************)
(* When the word is empty, or the window is refuted at its start, the      *)
(* shift passes over no occurrence.                                        *)
(***************************************************************************)
LEMMA EmptyWordRefutes ==
  ASSUME NEW t, NEW w \in Int, NEW p, NEW len \in Nat, len >= 1, len <= WordBits,
         NEW k \in 1 .. len, WordAfter(t, w, p, len, k) = {},
         NEW j \in 0 .. len - 1, j < len - k
  PROVE  ~OccursAt(t, p, len, w + j)
<1> SUFFICES ASSUME OccursAt(t, p, len, w + j) PROVE FALSE
  OBVIOUS
<1>0. WordBits \in Nat
  BY BuildAssumption
<1>1. Factor(t, w, p, len, k, k + j - 1)
  <2>1. k \in 0 .. len /\ j <= len - k
    OBVIOUS
  <2> QED
    BY <2>1, OccurrenceIsFactor
<1>2. k + j - 1 \in k - 1 .. len - 1 /\ (k + j - 1) + 1 \in 0 .. WordBits - 1
  BY <1>0
<1>3. (k + j - 1) + 1 \in WordAfter(t, w, p, len, k)
  BY <1>1, <1>2 DEF WordAfter
<1> QED
  BY <1>3

LEMMA ShiftPassesNone ==
  ASSUME NEW t, NEW w \in Int, NEW p, NEW len \in Nat, len >= 1, len <= WordBits,
         NEW k \in 1 .. len,
         \/ WordAfter(t, w, p, len, k) = {} \/ k >= len - 1,
         ~OccursAt(t, p, len, w),
         NEW j \in 0 .. len - 1, j < ShiftAfter(t, w, p, len, k)
  PROVE  ~OccursAt(t, p, len, w + j)
<1>0. ShiftAfter(t, w, p, len, k) \in 1 .. len
  BY ShiftBounds
<1>1. CASE j = 0
  <2>1. w + j = w
    BY <1>1
  <2> QED
    BY <2>1
<1>2. CASE j # 0 /\ j >= len - k
  <2>1. j \in 1 .. len - 1 /\ k \in 0 .. len
    BY <1>2
  <2>2. ~(ShiftAfter(t, w, p, len, k) <= j)
    BY <1>0
  <2> QED
    BY <1>2, <2>1, <2>2, OccurrenceIsPrefix
<1>3. CASE j # 0 /\ j < len - k
  <2>1. WordAfter(t, w, p, len, k) = {}
    BY <1>3
  <2> QED
    BY <1>3, <2>1, EmptyWordRefutes
<1> QED
  BY <1>1, <1>2, <1>3

(***************************************************************************)
(* A match of the whole window is an occurrence where no characters        *)
(* collide.                                                                *)
(***************************************************************************)
LEMMA WholeWindow ==
  ASSUME NEW len \in Nat, len >= 1, NEW w \in Nat, NEW size \in Nat, w + len <= size,
         NEW t \in [0 .. size-1 -> Char], NEW p \in [0 .. len-1 -> Char]
  PROVE  /\ OccursAt(t, p, len, w) => Factor(t, w, p, len, len, len - 1)
         /\ ~FullVerify /\ Factor(t, w, p, len, len, len - 1) => OccursAt(t, p, len, w)
<1>1. ASSUME NEW i \in 0 .. len - 1
      PROVE  /\ w + (len - len) + i = w + i /\ (len - 1 - (len - 1)) + i = i
             /\ t[w + i] \in Char /\ p[i] \in Char
  <2>1. w + i \in 0 .. size - 1
    OBVIOUS
  <2> QED
    BY <2>1
<1>2. Factor(t, w, p, len, len, len - 1)
        <=> \A i \in 0 .. len - 1 : HashChar[t[w + i]] = HashChar[p[i]]
  BY <1>1 DEF Factor
<1> QED
  BY <1>1, <1>2, DataAssumption DEF OccursAt

-----------------------------------------------------------------------------
(***************************************************************************)
(* The engines.                                                            *)
(***************************************************************************)
Searching == {"save", "block", "lane", "scalar", "slide", "window", "automaton"}

\* What no step of an engine touches.
EngineFrame == UNCHANGED <<object, cpuHasAVX2, memory, saved, call, engine>>

LEMMA SearchFacts ==
  ASSUME IInv, pc \in Searching
  PROVE  /\ m \in Nat /\ cchTextLen \in Nat /\ IntMax \in Nat
         /\ m >= 1 /\ m <= cchTextLen /\ cchTextLen <= IntMax
         /\ uLastIdx \in Nat /\ uLastIdx = m - 1 /\ n = cchTextLen - uI
         /\ m_Pattern \in [0 .. m-1 -> Char]
         /\ text \in [0 .. cchTextLen-1 -> Char]
         /\ uI \in Nat /\ lane \in Nat /\ uPos \in Nat /\ uJ \in Nat /\ uLast \in Nat
         /\ uD \in Word /\ result \in Int
BY BuildAssumption DEF IInv, TypeOK, PhaseInv, Searching, uLastIdx, m, n

LEMMA FoundIsAnswer ==
  ASSUME IInv, pc \in Searching, NEW r \in Nat, r <= cchTextLen - m,
         OccursAt(text, m_Pattern, m, r), NoneBefore(r)
  PROVE  r = BasicOffset(text, cchTextLen, m_Pattern, m)
<1>1. m \in Nat /\ cchTextLen \in Nat /\ m >= 1
  BY SearchFacts
<1> QED
  BY <1>1, BasicOffsetIs DEF NoneBefore

LEMMA NotFoundIsAnswer ==
  ASSUME IInv, pc \in Searching, NEW k \in Int, k > cchTextLen - m, NoneBefore(k)
  PROVE  -1 = BasicOffset(text, cchTextLen, m_Pattern, m)
<1>1. m \in Nat /\ cchTextLen \in Nat /\ m >= 1
  BY SearchFacts
<1>2. \A s \in 0 .. cchTextLen - m : ~OccursAt(text, m_Pattern, m, s)
  BY <1>1 DEF NoneBefore
<1> QED
  BY <1>1, <1>2, BasicOffsetNone

\* The cursors after a step, in their types.
CursorTypes == /\ uI \in Nat /\ lane \in Nat /\ uPos \in Nat
               /\ uJ \in Nat /\ uLast \in Nat /\ uD \in Word

LEMMA ReturnIInv ==
  ASSUME IInv, pc \in Searching, EngineFrame, NEW r \in Int, Return(r), CursorTypes',
         r = BasicOffset(text, cchTextLen, m_Pattern, m)
  PROVE  IInv'
<1> USE DEF EngineFrame, object, memory, call, Return
<1>0. /\ TypeOK /\ XStateBalanced /\ PhaseInv /\ MaskInv
      /\ pc' = IF saved THEN "restore" ELSE "done"
      /\ pc # "populate" /\ result' = r
  BY DEF IInv, Searching
<1>1. TypeOK'
  BY <1>0 DEF TypeOK, PCs, m, CursorTypes
<1>2. XStateBalanced'
  BY <1>0 DEF XStateBalanced
<1>3. PhaseInv'
  BY <1>0 DEF PhaseInv, Searching, m
<1>4. MaskInv'
  BY <1>0, MaskFrame
<1>5. CursorInv' /\ AutomatonExact' /\ NothingSkipped' /\ AnswerInv'
  BY <1>0 DEF CursorInv, AutomatonExact, NothingSkipped, AnswerInv, m
<1> QED
  BY <1>1, <1>2, <1>3, <1>4, <1>5 DEF IInv

(***************************************************************************)
(* The casts of FindScalar's return and of the tail change no offset.      *)
(***************************************************************************)
LEMMA ScalarReturnIInv ==
  ASSUME IInv, pc \in Searching, EngineFrame, NEW r \in Int, ScalarReturn(r), CursorTypes',
         \/ /\ r = -1
            /\ NoneBefore(cchTextLen - m + 1)
         \/ /\ r >= 0 /\ uI + r <= cchTextLen - m
            /\ OccursAt(text, m_Pattern, m, uI + r)
            /\ NoneBefore(uI + r)
  PROVE  IInv'
<1>0. /\ m \in Nat /\ cchTextLen \in Nat /\ uI \in Nat /\ IntMax \in Nat
      /\ m >= 1 /\ cchTextLen <= IntMax
  BY SearchFacts
<1>1. CASE r = -1 /\ NoneBefore(cchTextLen - m + 1)
  <2>1. ToInt(r, IntMax) = -1
    BY <1>0, <1>1, ToIntInRange
  <2>2. Return(-1)
    BY <2>1 DEF ScalarReturn
  <2>3. -1 = BasicOffset(text, cchTextLen, m_Pattern, m)
    BY <1>0, <1>1, NotFoundIsAnswer
  <2> QED
    BY <2>2, <2>3, ReturnIInv
<1>2. CASE /\ r >= 0 /\ uI + r <= cchTextLen - m
           /\ OccursAt(text, m_Pattern, m, uI + r)
           /\ NoneBefore(uI + r)
  <2>1. r \in -1 .. IntMax /\ uI + r \in -1 .. IntMax /\ r # -1 /\ uI + r \in Nat
    BY <1>0, <1>2
  <2>2. ToInt(r, IntMax) = r /\ ToInt(uI + r, IntMax) = uI + r
    BY <1>0, <2>1, ToIntInRange
  <2>3. Return(uI + r)
    BY <2>1, <2>2 DEF ScalarReturn
  <2>4. uI + r = BasicOffset(text, cchTextLen, m_Pattern, m)
    BY <1>2, <2>1, FoundIsAnswer
  <2>5. uI + r \in Int
    BY <2>1
  <2> QED
    BY <2>3, <2>4, <2>5, ReturnIInv
<1> QED
  BY <1>1, <1>2

LEMMA MemChrFromIsFirst ==
  ASSUME IInv, pc \in Searching, NEW ch, NEW k \in Nat
  PROVE  \/ /\ MemChrFrom(ch, k) = -1
            /\ \A i \in uI + k .. cchTextLen - 1 : text[i] # ch
         \/ /\ MemChrFrom(ch, k) \in Nat /\ MemChrFrom(ch, k) >= k
            /\ uI + MemChrFrom(ch, k) < cchTextLen
            /\ text[uI + MemChrFrom(ch, k)] = ch
            /\ \A i \in uI + k .. uI + MemChrFrom(ch, k) - 1 : text[i] # ch
<1> DEFINE q == MemChr(text, ch, uI + k, cchTextLen)
<1>0. uI \in Nat /\ cchTextLen \in Nat /\ uI + k \in Nat
  BY SearchFacts
<1>1. CASE q = -1 /\ \A i \in uI + k .. cchTextLen - 1 : text[i] # ch
  BY <1>1 DEF MemChrFrom
<1>2. CASE /\ q \in uI + k .. cchTextLen - 1 /\ text[q] = ch
           /\ \A i \in uI + k .. q - 1 : text[i] # ch
  <2>1. q # -1 /\ q - uI \in Nat /\ q - uI >= k /\ uI + (q - uI) = q
    BY <1>0, <1>2
  <2>2. MemChrFrom(ch, k) = q - uI
    BY <2>1 DEF MemChrFrom
  <2> HIDE DEF q
  <2> QED
    BY <1>0, <1>2, <2>1, <2>2
<1>3. \/ q = -1 /\ \A i \in uI + k .. cchTextLen - 1 : text[i] # ch
      \/ /\ q \in uI + k .. cchTextLen - 1 /\ text[q] = ch
         /\ \A i \in uI + k .. q - 1 : text[i] # ch
  <2>1. IsFirstChr(text, ch, uI + k, cchTextLen, q)
    BY <1>0, MemChrIsFirst
  <2> QED
    BY <2>1 DEF IsFirstChr
<1> QED
  BY <1>1, <1>2, <1>3

(***************************************************************************)
(* Entering or continuing one of FindScalar's loops between two windows.   *)
(***************************************************************************)
LEMMA ToWindowIInv ==
  ASSUME IInv, pc \in Searching, EngineFrame, UNCHANGED <<uI, lane, result>>,
         pc' \in {"slide", "window"}, m >= 2, CursorTypes',
         pc' = "window" => m_MaskTable # Null,
         NoneBefore(uI + uPos')
  PROVE  IInv'
<1> USE DEF EngineFrame, object, memory, call
<1>0. /\ TypeOK /\ XStateBalanced /\ PhaseInv /\ MaskInv /\ pc # "populate"
      /\ pc' # "populate"
  BY DEF IInv, Searching
<1>1. TypeOK'
  BY <1>0 DEF TypeOK, PCs, m, CursorTypes
<1>2. XStateBalanced'
  BY <1>0 DEF XStateBalanced
<1>3. PhaseInv'
  BY <1>0 DEF PhaseInv, Searching, m
<1>4. MaskInv'
  BY <1>0, MaskFrame
<1>5. CursorInv' /\ AutomatonExact' /\ AnswerInv'
  BY <1>0 DEF CursorInv, AutomatonExact, AnswerInv
<1>6. NothingSkipped'
  BY <1>0 DEF NothingSkipped, NoneBefore, m
<1> QED
  BY <1>1, <1>2, <1>3, <1>4, <1>5, <1>6 DEF IInv

LEMMA ScalarEntryIInv == ASSUME IInv, ScalarEntry PROVE IInv'
<1>0. /\ pc = "scalar" /\ pc \in Searching /\ EngineFrame
      /\ UNCHANGED <<uI, lane, uPos, uJ, uLast, uD>>
      /\ uI \in Nat /\ m \in Nat /\ cchTextLen \in Nat /\ m >= 1 /\ m <= cchTextLen
      /\ n = cchTextLen - uI /\ uI <= cchTextLen
      /\ NoneBefore(uI) /\ (m < 2 => uI = 0) /\ uPos = 0
      /\ CursorTypes'
  <2>1. /\ pc = "scalar" /\ pc \in Searching /\ EngineFrame
        /\ UNCHANGED <<uI, lane, uPos, uJ, uLast, uD>>
    BY DEF ScalarEntry, EngineFrame, Searching, auto
  <2>2. NoneBefore(uI) /\ (m < 2 => uI = 0) /\ uPos = 0 /\ uI <= cchTextLen
    BY <2>1 DEF IInv, NothingSkipped, PhaseInv, CursorInv
  <2>3. CursorTypes'
    BY <2>1, SearchFacts DEF CursorTypes
  <2> QED
    BY <2>1, <2>2, <2>3, SearchFacts
<1>1. CASE n < m /\ ScalarReturn(-1)
  <2>1. NoneBefore(cchTextLen - m + 1)
    BY <1>0, <1>1 DEF NoneBefore
  <2> QED
    BY <1>0, <1>1, <2>1, ScalarReturnIInv
<1>2. CASE n >= m /\ m = 1 /\ ScalarReturn(MemChrFrom(m_Pattern[0], 0))
  <2> DEFINE r == MemChrFrom(m_Pattern[0], 0)
  <2>0. uI = 0 /\ ScalarReturn(r)
    BY <1>0, <1>2
  <2>1. \/ /\ r = -1
           /\ \A i \in 0 .. cchTextLen - 1 : text[i] # m_Pattern[0]
        \/ /\ r \in Nat /\ r < cchTextLen /\ text[r] = m_Pattern[0]
           /\ \A i \in 0 .. r - 1 : text[i] # m_Pattern[0]
    BY <1>0, <2>0, MemChrFromIsFirst
  <2> HIDE DEF r
  <2>2. \A s \in Int : OccursAt(text, m_Pattern, m, s) <=> text[s] = m_Pattern[0]
    BY <1>2 DEF OccursAt
  <2>3. \/ r = -1 /\ NoneBefore(cchTextLen - m + 1)
        \/ /\ r >= 0 /\ uI + r <= cchTextLen - m
           /\ OccursAt(text, m_Pattern, m, uI + r)
           /\ NoneBefore(uI + r)
    BY <1>0, <1>2, <2>0, <2>1, <2>2 DEF NoneBefore
  <2>4. r \in Int
    BY <2>1
  <2> QED
    BY <1>0, <2>0, <2>3, <2>4, ScalarReturnIInv
<1>3. CASE /\ n >= m /\ m # 1 /\ UNCHANGED result
           /\ pc' = IF m > MAX_BNDM_PATTERN_LEN \/ m_MaskTable = Null
                    THEN "slide" ELSE "window"
  <2>1. /\ pc' \in {"slide", "window"} /\ m >= 2
        /\ pc' = "window" => m_MaskTable # Null
    BY <1>0, <1>3
  <2>2. uI + uPos' = uI
    BY <1>0
  <2> QED
    BY <1>0, <1>3, <2>1, <2>2, ToWindowIInv
<1> QED
  BY <1>1, <1>2, <1>3 DEF ScalarEntry

(***************************************************************************)
(* From one last character of the pattern to the next: no occurrence ends  *)
(* in between.                                                             *)
(***************************************************************************)
LEMMA NextLastChar ==
  ASSUME IInv, pc \in {"slide", "window"}, NEW r,
         r = IF uI + uPos + uLastIdx < cchTextLen
             THEN MemChrFrom(lastChar, uPos + uLastIdx) ELSE -1
  PROVE  \/ r = -1 /\ NoneBefore(cchTextLen - m + 1)
         \/ /\ r \in Nat /\ r - uLastIdx \in Nat /\ uI + r < cchTextLen
            /\ text[uI + r] = lastChar
            /\ NoneBefore(uI + (r - uLastIdx))
<1>0. /\ pc \in Searching
      /\ uI \in Nat /\ uPos \in Nat /\ m \in Nat /\ cchTextLen \in Nat /\ m >= 1
      /\ uLastIdx = m - 1 /\ NoneBefore(uI + uPos)
      /\ uPos + uLastIdx \in Nat /\ uI + (uPos + uLastIdx) = uI + uPos + uLastIdx
  <2>1. pc \in Searching
    BY DEF Searching
  <2>2. NoneBefore(uI + uPos)
    BY DEF IInv, NothingSkipped
  <2>3. uI \in Nat /\ uPos \in Nat /\ m \in Nat /\ cchTextLen \in Nat /\ m >= 1
        /\ uLastIdx = m - 1
    BY <2>1, SearchFacts
  <2> QED
    BY <2>1, <2>2, <2>3
<1>1. \A s \in 0 .. cchTextLen - m :
        text[s + uLastIdx] # lastChar => ~OccursAt(text, m_Pattern, m, s)
  BY <1>0 DEF OccursAt, lastChar
<1>2. CASE uI + uPos + uLastIdx >= cchTextLen
  <2>1. r = -1
    BY <1>0, <1>2
  <2>2. NoneBefore(cchTextLen - m + 1)
    BY <1>0, <1>2 DEF NoneBefore
  <2> QED
    BY <2>1, <2>2
<1>3. CASE uI + uPos + uLastIdx < cchTextLen
  <2>1. r = MemChrFrom(lastChar, uPos + uLastIdx)
    BY <1>3
  <2>2. \/ /\ r = -1
           /\ \A i \in uI + uPos + uLastIdx .. cchTextLen - 1 : text[i] # lastChar
        \/ /\ r \in Nat /\ r >= uPos + uLastIdx /\ uI + r < cchTextLen
           /\ text[uI + r] = lastChar
           /\ \A i \in uI + uPos + uLastIdx .. uI + r - 1 : text[i] # lastChar
    BY <1>0, <2>1, MemChrFromIsFirst
  <2>3. CASE r = -1 /\ \A i \in uI + uPos + uLastIdx .. cchTextLen - 1 : text[i] # lastChar
    <3>1. ASSUME NEW s \in 0 .. cchTextLen - m
          PROVE  ~OccursAt(text, m_Pattern, m, s)
      <4>1. CASE s < uI + uPos
        BY <1>0, <4>1 DEF NoneBefore
      <4>2. CASE s >= uI + uPos
        <5>1. s + uLastIdx \in uI + uPos + uLastIdx .. cchTextLen - 1
          BY <1>0, <4>2
        <5> QED
          BY <1>1, <2>3, <5>1
      <4> QED
        BY <1>0, <4>1, <4>2
    <3> QED
      BY <2>3, <3>1 DEF NoneBefore
  <2>4. CASE /\ r \in Nat /\ r >= uPos + uLastIdx /\ uI + r < cchTextLen
             /\ text[uI + r] = lastChar
             /\ \A i \in uI + uPos + uLastIdx .. uI + r - 1 : text[i] # lastChar
    <3>1. ASSUME NEW s \in 0 .. cchTextLen - m, s < uI + (r - uLastIdx)
          PROVE  ~OccursAt(text, m_Pattern, m, s)
      <4>1. CASE s < uI + uPos
        BY <1>0, <4>1 DEF NoneBefore
      <4>2. CASE s >= uI + uPos
        <5>1. s + uLastIdx \in uI + uPos + uLastIdx .. uI + r - 1
          BY <1>0, <2>4, <3>1, <4>2
        <5> QED
          BY <1>1, <2>4, <5>1
      <4> QED
        BY <1>0, <4>1, <4>2
    <3>2. r - uLastIdx \in Nat
      BY <1>0, <2>4
    <3> QED
      BY <2>4, <3>1, <3>2 DEF NoneBefore
  <2> QED
    BY <2>2, <2>3, <2>4
<1> QED
  BY <1>0, <1>2, <1>3

\* A refuted window is passed by one.
LEMMA RefutedWindow ==
  ASSUME IInv, NEW s \in Nat, NoneBefore(s), ~OccursAt(text, m_Pattern, m, s)
  PROVE  NoneBefore(s + 1)
<1> SUFFICES ASSUME NEW q \in 0 .. cchTextLen - m, q < s + 1
             PROVE  ~OccursAt(text, m_Pattern, m, q)
  BY DEF NoneBefore
<1>1. q < s \/ q = s
  OBVIOUS
<1> QED
  BY <1>1 DEF NoneBefore

LEMMA SlideIInv == ASSUME IInv, Slide PROVE IInv'
<1> DEFINE pMatch == IF uPos + uLastIdx < n
                     THEN MemChrFrom(lastChar, uPos + uLastIdx) ELSE -1
           start   == pMatch - uLastIdx
           matches == /\ At(start) = m_Pattern[0]
                      /\ VerifyMiddleMatch(text, uI + start, m_Pattern, m)
<1>0. /\ pc = "slide" /\ pc \in Searching /\ EngineFrame
      /\ UNCHANGED <<uI, lane, uJ, uLast, uD>>
      /\ uI \in Nat /\ uPos \in Nat /\ m \in Nat /\ cchTextLen \in Nat /\ m >= 2
      /\ uLastIdx = m - 1 /\ n = cchTextLen - uI
  <2>1. /\ pc = "slide" /\ pc \in Searching /\ EngineFrame
        /\ UNCHANGED <<uI, lane, uJ, uLast, uD>>
    BY DEF Slide, EngineFrame, Searching
  <2> QED
    BY <2>1, SearchFacts DEF IInv, PhaseInv
<1>1. ASSUME uPos' \in Nat PROVE CursorTypes'
  BY <1>0, <1>1, SearchFacts DEF CursorTypes
<1>2. \/ pMatch = -1 /\ NoneBefore(cchTextLen - m + 1)
      \/ /\ pMatch \in Nat /\ start \in Nat /\ uI + pMatch < cchTextLen
         /\ text[uI + pMatch] = lastChar
         /\ NoneBefore(uI + start)
  <2>1. uI + uPos + uLastIdx < cchTextLen <=> uPos + uLastIdx < n
    BY <1>0
  <2>2. pMatch = IF uI + uPos + uLastIdx < cchTextLen
                 THEN MemChrFrom(lastChar, uPos + uLastIdx) ELSE -1
    BY <2>1
  <2> HIDE DEF pMatch
  <2> QED
    BY <1>0, <2>2, NextLastChar
<1>3. \/ pMatch = -1 /\ ScalarReturn(-1) /\ UNCHANGED uPos
      \/ pMatch # -1 /\ matches /\ ScalarReturn(start) /\ UNCHANGED uPos
      \/ /\ pMatch # -1 /\ ~matches
         /\ uPos' = start + 1
         /\ UNCHANGED <<pc, result>>
  BY DEF Slide
<1>4. ASSUME pMatch # -1
      PROVE  matches <=> OccursAt(text, m_Pattern, m, uI + start)
  <2>1. uI + start \in Int /\ uI + start + (m - 1) = uI + pMatch
    <3> HIDE DEF pMatch
    <3> QED
      BY <1>0, <1>2, <1>4
  <2>2. text[uI + start + (m - 1)] = m_Pattern[m - 1]
    BY <1>0, <1>2, <1>4, <2>1 DEF lastChar
  <2>3. matches <=> /\ text[uI + start] = m_Pattern[0]
                    /\ VerifyMiddleMatch(text, uI + start, m_Pattern, m)
    BY DEF At
  <2> HIDE DEF start, matches
  <2>4. m \in Nat /\ m >= 2
    BY <1>0
  <2> QED
    BY <2>1, <2>2, <2>3, <2>4, VerifiedOccurs
<1> HIDE DEF pMatch, matches
<1>5. CASE pMatch = -1 /\ ScalarReturn(-1) /\ UNCHANGED uPos
  <2>1. pMatch \notin Nat
    BY <1>5
  <2> QED
    BY <1>0, <1>1, <1>2, <1>5, <2>1, ScalarReturnIInv
<1>6. CASE pMatch # -1 /\ matches /\ ScalarReturn(start) /\ UNCHANGED uPos
  <2>1. start \in Int /\ start >= 0 /\ uI + start <= cchTextLen - m
    BY <1>0, <1>2, <1>6
  <2>2. OccursAt(text, m_Pattern, m, uI + start) /\ NoneBefore(uI + start)
    BY <1>2, <1>4, <1>6
  <2> HIDE DEF start
  <2> QED
    BY <1>0, <1>1, <1>6, <2>1, <2>2, ScalarReturnIInv
<1>7. CASE /\ pMatch # -1 /\ ~matches /\ uPos' = start + 1
           /\ UNCHANGED <<pc, result>>
  <2>1. start \in Nat /\ NoneBefore(uI + start) /\ ~OccursAt(text, m_Pattern, m, uI + start)
    BY <1>2, <1>4, <1>7
  <2> HIDE DEF start
  <2>2. uI + start \in Nat /\ uPos' \in Nat /\ uI + uPos' = uI + start + 1
    BY <1>0, <1>7, <2>1
  <2>3. NoneBefore(uI + uPos')
    BY <2>1, <2>2, RefutedWindow
  <2>4. pc' = "slide" /\ CursorTypes'
    BY <1>0, <1>1, <1>7, <2>2
  <2> QED
    BY <1>0, <1>7, <2>3, <2>4, ToWindowIInv
<1> QED
  BY <1>3, <1>5, <1>6, <1>7

LEMMA WindowIInv == ASSUME IInv, Window PROVE IInv'
<1> DEFINE pMatch == IF uPos <= n - m
                     THEN MemChrFrom(lastChar, uPos + uLastIdx) ELSE -1
<1>0. /\ pc = "window" /\ pc \in Searching /\ EngineFrame /\ UNCHANGED <<uI, lane>>
      /\ uI \in Nat /\ uPos \in Nat /\ m \in Nat /\ cchTextLen \in Nat /\ m >= 2
      /\ uLastIdx = m - 1 /\ n = cchTextLen - uI /\ lane \in Nat
      /\ m_MaskTable # Null
  <2>1. pc = "window" /\ pc \in Searching /\ EngineFrame /\ UNCHANGED <<uI, lane>>
    BY DEF Window, EngineFrame, Searching
  <2> QED
    BY <2>1, SearchFacts DEF IInv, PhaseInv
<1>2. \/ pMatch = -1 /\ NoneBefore(cchTextLen - m + 1)
      \/ /\ pMatch \in Nat /\ pMatch - uLastIdx \in Nat /\ uI + pMatch < cchTextLen
         /\ text[uI + pMatch] = lastChar
         /\ NoneBefore(uI + (pMatch - uLastIdx))
  <2>1. uI + uPos + uLastIdx < cchTextLen <=> uPos <= n - m
    BY <1>0
  <2>2. pMatch = IF uI + uPos + uLastIdx < cchTextLen
                 THEN MemChrFrom(lastChar, uPos + uLastIdx) ELSE -1
    BY <2>1
  <2> HIDE DEF pMatch
  <2> QED
    BY <1>0, <2>2, NextLastChar
<1>3. \/ pMatch = -1 /\ ScalarReturn(-1) /\ UNCHANGED auto
      \/ /\ pMatch # -1
         /\ uPos' = pMatch - uLastIdx
         /\ uJ' = m /\ uLast' = m /\ uD' = AllOnes
         /\ pc' = "automaton" /\ UNCHANGED result
  BY DEF Window
<1> HIDE DEF pMatch
<1>4. CASE pMatch = -1 /\ ScalarReturn(-1) /\ UNCHANGED auto
  <2>1. pMatch \notin Nat
    BY <1>4
  <2>2. CursorTypes'
    BY <1>0, <1>4, SearchFacts DEF CursorTypes, auto
  <2> QED
    BY <1>0, <1>2, <1>4, <2>1, <2>2, ScalarReturnIInv
<1>5. CASE /\ pMatch # -1
           /\ uPos' = pMatch - uLastIdx
           /\ uJ' = m /\ uLast' = m /\ uD' = AllOnes
           /\ pc' = "automaton" /\ UNCHANGED result
  <2> USE DEF EngineFrame, object, memory, call
  <2>0. /\ TypeOK /\ XStateBalanced /\ PhaseInv /\ MaskInv /\ m' = m
    BY <1>0 DEF IInv, m
  <2>1. /\ uPos' \in Nat /\ uI + uPos' + m <= cchTextLen /\ NoneBefore(uI + uPos')
        /\ uI + uPos' \in Nat
    BY <1>0, <1>2, <1>5
  <2>2. TypeOK'
    <3>1. uD' \in Word
      BY <1>5 DEF Word, AllOnes
    <3> QED
      BY <1>0, <1>5, <2>0, <2>1, <3>1 DEF TypeOK, PCs, m
  <2>3. XStateBalanced' /\ PhaseInv'
    BY <1>0, <1>5, <2>0 DEF XStateBalanced, PhaseInv, m
  <2>4. MaskInv'
    BY <1>0, <1>5, <2>0, MaskFrame
  <2>5. CursorInv'
    BY <1>0, <1>5, <2>0, <2>1 DEF CursorInv, AllOnes
  <2>6. AutomatonExact'
    <3>1. ShiftAfter(text, uI + uPos', m_Pattern, m, 0) = m
      <4>1. PrefixShifts(text, uI + uPos', m_Pattern, m, 0) = {}
        BY <1>0 DEF PrefixShifts
      <4> QED
        BY <4>1 DEF ShiftAfter, PrefixShifts
    <3>2. m' - uJ' = 0
      BY <1>0, <1>5, <2>0
    <3> QED
      BY <1>0, <1>5, <2>0, <3>1, <3>2 DEF AutomatonExact
  <2>7. NothingSkipped' /\ AnswerInv'
    BY <1>0, <1>5, <2>0, <2>1 DEF NothingSkipped, NoneBefore, AnswerInv
  <2> QED
    BY <2>2, <2>3, <2>4, <2>5, <2>6, <2>7 DEF IInv
<1> QED
  BY <1>3, <1>4, <1>5

LEMMA AutomatonFacts ==
  ASSUME IInv, pc = "automaton"
  PROVE  /\ pc \in Searching /\ m >= 2 /\ m <= WordBits /\ WordBits \in Nat
         /\ uI + uPos \in Nat /\ uI + uPos + m <= cchTextLen /\ uJ <= m
         /\ m - uJ \in 0 .. m
         /\ uLast = ShiftAfter(text, uI + uPos, m_Pattern, m, m - uJ)
         /\ uLast \in 1 .. m
         /\ m - uJ > 0 => uD = WordAfter(text, uI + uPos, m_Pattern, m, m - uJ)
         /\ m - uJ = 0 => uD = AllOnes
         /\ uJ = 0 => ~Factor(text, uI + uPos, m_Pattern, m, m, m - 1)
         /\ NoneBefore(uI + uPos)
         /\ \A h \in Slot :
              m_MaskTable[h] = { b \in 0 .. m - 1 : HashChar[m_Pattern[m - 1 - b]] = h }
<1>1. /\ pc \in Searching /\ m >= 2 /\ m <= WordBits /\ WordBits \in Nat
      /\ uI + uPos + m <= cchTextLen /\ uJ <= m
      /\ uJ = m => uD = AllOnes
      /\ uJ = 0 => ~Factor(text, uI + uPos, m_Pattern, m, m, m - 1)
      /\ NoneBefore(uI + uPos)
  BY BuildAssumption DEF IInv, Searching, PhaseInv, CursorInv, NothingSkipped, uLastIdx
<1>2. m \in Nat /\ uJ \in Nat /\ uI + uPos \in Nat
  BY <1>1, SearchFacts
<1>3. m - uJ \in 0 .. m /\ (m - uJ = 0 => uJ = m)
  BY <1>1, <1>2
<1>4. /\ uLast = ShiftAfter(text, uI + uPos, m_Pattern, m, m - uJ)
      /\ m - uJ > 0 => uD = WordAfter(text, uI + uPos, m_Pattern, m, m - uJ)
  BY DEF IInv, AutomatonExact
<1>5. uLast \in 1 .. m
  <2>1. m >= 1 /\ uI + uPos \in Int
    BY <1>1, <1>2
  <2> QED
    BY <1>2, <1>3, <1>4, <2>1, ShiftBounds
<1>6. \A h \in Slot :
        m_MaskTable[h] = { b \in 0 .. m - 1 : HashChar[m_Pattern[m - 1 - b]] = h }
  BY DEF IInv, MaskInv, PhaseInv, uLastIdx
<1> QED
  BY <1>1, <1>2, <1>3, <1>4, <1>5, <1>6

(***************************************************************************)
(* On to the next window: at least one character was read, the window was  *)
(* refuted, and either the word is empty or all but its first character    *)
(* was read.                                                               *)
(***************************************************************************)
LEMMA NextWindowIInv ==
  ASSUME IInv, pc = "automaton", EngineFrame, UNCHANGED <<uI, lane, result>>,
         NextWindow, uJ' \in Nat, uLast' \in Nat,
         m - uJ > 0, uD = {} \/ m - uJ >= m - 1,
         ~OccursAt(text, m_Pattern, m, uI + uPos)
  PROVE  IInv'
<1> DEFINE w == uI + uPos
<1>0. /\ pc \in Searching /\ m \in Nat /\ m >= 1 /\ m <= WordBits /\ cchTextLen \in Nat
      /\ w \in Nat /\ w \in Int /\ m - uJ \in 1 .. m
      /\ uLast = ShiftAfter(text, w, m_Pattern, m, m - uJ) /\ uLast \in 1 .. m
      /\ WordAfter(text, w, m_Pattern, m, m - uJ) = {} \/ m - uJ >= m - 1
      /\ NoneBefore(w) /\ m >= 2
      /\ uI \in Nat /\ uPos \in Nat /\ lane \in Nat
  <2>1. pc \in Searching
    BY DEF Searching
  <2>2. /\ m \in Nat /\ m >= 1 /\ cchTextLen \in Nat
        /\ uI \in Nat /\ uPos \in Nat /\ lane \in Nat
    BY <2>1, SearchFacts
  <2>3. /\ m <= WordBits /\ m >= 2 /\ w \in Nat /\ m - uJ \in 0 .. m
        /\ uLast = ShiftAfter(text, w, m_Pattern, m, m - uJ) /\ uLast \in 1 .. m
        /\ uD = WordAfter(text, w, m_Pattern, m, m - uJ)
        /\ NoneBefore(w)
    BY AutomatonFacts
  <2>4. w \in Int /\ m - uJ \in 1 .. m
    BY <2>2, <2>3
  <2> QED
    BY <2>1, <2>2, <2>3, <2>4
<1>1. NoneBefore(w + uLast)
  <2> SUFFICES ASSUME NEW s \in 0 .. cchTextLen - m, s < w + uLast,
                      OccursAt(text, m_Pattern, m, s)
               PROVE  FALSE
    BY DEF NoneBefore
  <2>1. s >= w
    BY <1>0 DEF NoneBefore
  <2> DEFINE j == s - w
  <2>2. j \in 0 .. m - 1 /\ j < uLast /\ w + j = s
    BY <1>0, <2>1
  <2>3. j < ShiftAfter(text, w, m_Pattern, m, m - uJ)
    BY <1>0, <2>2
  <2>4. OccursAt(text, m_Pattern, m, w + j)
    BY <2>2
  <2> HIDE DEF w, j
  <2>5. ~OccursAt(text, m_Pattern, m, w)
    BY DEF w
  <2> QED
    BY <1>0, <2>2, <2>3, <2>4, <2>5, ShiftPassesNone
<1>2. uPos' \in Nat /\ uI + uPos' = w + uLast /\ uD' = {} /\ pc' = "window"
  BY <1>0 DEF NextWindow
<1>3. NoneBefore(uI + uPos')
  BY <1>1, <1>2
<1>4. CursorTypes'
  BY <1>0, <1>2 DEF CursorTypes, Word
<1>5. m_MaskTable # Null
  BY DEF IInv, PhaseInv
<1> QED
  BY <1>0, <1>2, <1>3, <1>4, <1>5, ToWindowIInv

LEMMA AutomatonEmptyIInv ==
  ASSUME IInv, pc = "automaton", EngineFrame, UNCHANGED <<uI, lane>>,
         uD = {}, NextWindow, UNCHANGED <<uJ, uLast, result>>
  PROVE  IInv'
<1> DEFINE w == uI + uPos
           k == m - uJ
<1>0. /\ pc \in Searching /\ m \in Nat /\ m >= 1 /\ m <= WordBits /\ WordBits \in Nat \ {0}
      /\ w \in Nat /\ k \in 0 .. m /\ w + m <= cchTextLen /\ cchTextLen \in Nat
      /\ k > 0 => WordAfter(text, w, m_Pattern, m, k) = {}
      /\ k = 0 => uD = AllOnes
      /\ uJ = 0 => ~Factor(text, w, m_Pattern, m, m, m - 1)
      /\ m_Pattern \in [0 .. m-1 -> Char] /\ text \in [0 .. cchTextLen-1 -> Char]
      /\ uJ \in Nat /\ uLast \in Nat
  <2>1. pc \in Searching
    BY DEF Searching
  <2> QED
    BY <2>1, AutomatonFacts, SearchFacts, BuildAssumption
<1>1. k > 0
  <2>1. AllOnes # {}
    <3>1. 0 \in AllOnes
      BY <1>0 DEF AllOnes
    <3> QED
      BY <3>1
  <2> QED
    BY <1>0, <2>1
<1>2. ~OccursAt(text, m_Pattern, m, w)
  <2>1. CASE uJ = 0
    <3> HIDE DEF w
    <3> QED
      BY <1>0, <2>1, WholeWindow
  <2>2. CASE uJ # 0
    <3>1. /\ k \in 1 .. m /\ 0 \in 0 .. m - 1 /\ 0 < m - k /\ w + 0 = w /\ w \in Int
          /\ WordAfter(text, w, m_Pattern, m, k) = {}
      BY <1>0, <1>1, <2>2
    <3> HIDE DEF w, k
    <3>2. ~OccursAt(text, m_Pattern, m, w + 0)
      BY <1>0, <3>1, EmptyWordRefutes
    <3> QED
      BY <3>1, <3>2
  <2> QED
    BY <2>1, <2>2
<1> QED
  BY <1>0, <1>1, <1>2, NextWindowIInv

(***************************************************************************)
(* One more character: the word and the shift follow, and the window's     *)
(* first character decides.                                                *)
(***************************************************************************)
LEMMA ReadNextFacts ==
  ASSUME IInv, pc = "automaton", uD # {}, NEW d,
         d = uD \cap m_MaskTable[HashChar[At(uPos + (uJ - 1))]]
  PROVE  /\ uJ \in 1 .. m
         /\ ShiftLeft(d) = WordAfter(text, uI + uPos, m_Pattern, m, m - uJ + 1)
         /\ uLastIdx \in d
              <=> Factor(text, uI + uPos, m_Pattern, m, m - uJ + 1, m - 1)
<1> DEFINE w == uI + uPos
           k == m - uJ
           h == HashChar[text[w + (m - k - 1)]]
<1>0. /\ pc \in Searching /\ m \in Nat /\ m >= 2 /\ m <= WordBits
      /\ w \in Nat /\ k \in 0 .. m /\ w + m <= cchTextLen /\ cchTextLen \in Nat
      /\ k > 0 => uD = WordAfter(text, w, m_Pattern, m, k)
      /\ k = 0 => uD = AllOnes
      /\ uJ = 0 => ~Factor(text, w, m_Pattern, m, m, m - 1)
      /\ text \in [0 .. cchTextLen-1 -> Char]
      /\ uJ \in Nat /\ uI \in Nat /\ uPos \in Nat /\ uLastIdx = m - 1
      /\ \A s \in Slot :
           m_MaskTable[s] = { b \in 0 .. m - 1 : HashChar[m_Pattern[m - 1 - b]] = s }
  <2>1. pc \in Searching
    BY DEF Searching
  <2> QED
    BY <2>1, AutomatonFacts, SearchFacts
<1>1. uJ # 0
  <2> SUFFICES ASSUME uJ = 0 PROVE FALSE
    OBVIOUS
  <2>1. k = m /\ k > 0 /\ uD = WordAfter(text, w, m_Pattern, m, m)
    BY <1>0
  <2>2. \A x \in m - 1 .. m - 1 : ~Factor(text, w, m_Pattern, m, m, x)
    <3>1. \A x \in m - 1 .. m - 1 : x = m - 1
      BY <1>0
    <3> QED
      BY <1>0, <3>1
  <2>3. WordAfter(text, w, m_Pattern, m, m) = {}
    <3> HIDE DEF w
    <3> QED
      BY <2>2 DEF WordAfter
  <2> QED
    BY <2>1, <2>3
<1>2. /\ uJ \in 1 .. m /\ k \in Nat /\ k < m /\ m \in Nat /\ m - k - 1 = uJ - 1
      /\ w + (m - k - 1) \in 0 .. cchTextLen - 1
      /\ uI + (uPos + (uJ - 1)) = w + (m - k - 1)
  BY <1>0, <1>1
<1>3. h \in Slot /\ m_MaskTable[HashChar[At(uPos + (uJ - 1))]] = m_MaskTable[h]
  BY <1>0, <1>2, DataAssumption DEF At
<1> DEFINE M == m_MaskTable[h]
<1>4. IsMask(M, text[w + (m - k - 1)], m_Pattern, m)
  BY <1>0, <1>3 DEF IsMask
<1>5. d = Kept(uD, M)
  BY <1>3 DEF Kept
<1>6. /\ d = Standing(text, w, m_Pattern, m, k + 1)
      /\ ShiftLeft(d) = WordAfter(text, w, m_Pattern, m, k + 1)
  <2> HIDE DEF w, k, h, M
  <2>1. w \in Int /\ m <= WordBits /\ IsWord(uD, text, w, m_Pattern, m, k)
    BY <1>0, <1>2 DEF IsWord
  <2>2. /\ Kept(uD, M) = Standing(text, w, m_Pattern, m, k + 1)
        /\ ShiftLeft(Kept(uD, M)) = WordAfter(text, w, m_Pattern, m, k + 1)
    BY <1>2, <1>4, <2>1, WordStep
  <2> QED
    BY <1>5, <2>2
<1>7. m - 1 \in d <=> Factor(text, w, m_Pattern, m, k + 1, m - 1)
  <2> HIDE DEF w, k, h, M
  <2>1. m - 1 \in (k + 1) - 1 .. m - 1
    BY <1>2
  <2>2. m - 1 \in Standing(text, w, m_Pattern, m, k + 1)
          <=> Factor(text, w, m_Pattern, m, k + 1, m - 1)
    BY <2>1 DEF Standing
  <2> QED
    BY <1>6, <2>2
<1> QED
  BY <1>0, <1>2, <1>6, <1>7

LEMMA ReadNextIInv ==
  ASSUME IInv, pc = "automaton", EngineFrame, UNCHANGED <<uI, lane>>,
         uD # {}, ReadNext
  PROVE  IInv'
<1> DEFINE w == uI + uPos
           k == m - uJ
           d == uD \cap m_MaskTable[HashChar[At(uPos + (uJ - 1))]]
           hit == uLastIdx \in d
<1>0. /\ pc \in Searching /\ m \in Nat /\ m >= 2 /\ m <= WordBits
      /\ w \in Nat /\ w + m <= cchTextLen /\ cchTextLen \in Nat
      /\ uLast = ShiftAfter(text, w, m_Pattern, m, k) /\ uLast \in 1 .. m
      /\ NoneBefore(w) /\ uI \in Nat /\ uPos \in Nat /\ lane \in Nat /\ uD \in Word
      /\ uJ \in 1 .. m /\ k \in Nat /\ k < m /\ m - k - 1 = uJ - 1
      /\ m_Pattern \in [0 .. m-1 -> Char] /\ text \in [0 .. cchTextLen-1 -> Char]
  <2>1. pc \in Searching
    BY DEF Searching
  <2>2. uJ \in 1 .. m
    BY ReadNextFacts
  <2>3. /\ m \in Nat /\ cchTextLen \in Nat
        /\ uI \in Nat /\ uPos \in Nat /\ lane \in Nat /\ uD \in Word
        /\ m_Pattern \in [0 .. m-1 -> Char] /\ text \in [0 .. cchTextLen-1 -> Char]
    BY <2>1, SearchFacts
  <2>4. k \in Nat /\ k < m /\ m - k - 1 = uJ - 1
    BY <2>2, <2>3
  <2> QED
    BY <2>1, <2>2, <2>3, <2>4, AutomatonFacts
<1>1. /\ ShiftLeft(d) = WordAfter(text, w, m_Pattern, m, k + 1)
      /\ hit <=> Factor(text, w, m_Pattern, m, k + 1, m - 1)
  <2> HIDE DEF d
  <2> QED
    BY ReadNextFacts DEF d
<1>2. /\ uJ' = uJ - 1
      /\ uLast' = IF hit /\ uJ - 1 # 0 THEN uJ - 1 ELSE uLast
      /\ \/ /\ hit /\ uJ - 1 = 0
            /\ IF FullVerify => OccursAt(text, m_Pattern, m, w)
               THEN ScalarReturn(uPos) /\ UNCHANGED <<uPos, uD>>
               ELSE NextWindow /\ UNCHANGED result
         \/ /\ ~(hit /\ uJ - 1 = 0)
            /\ uD' = ShiftLeft(d) /\ UNCHANGED <<uPos, pc, result>>
  BY DEF ReadNext
<1> HIDE DEF d, hit
<1>3. uJ' \in Nat /\ uLast' \in Nat /\ uLast' = ShiftAfter(text, w, m_Pattern, m, k + 1)
  <2>1. uJ' \in Nat /\ uLast' \in Nat
    BY <1>0, <1>2
  <2>2. ShiftAfter(text, w, m_Pattern, m, k + 1)
          = IF Factor(text, w, m_Pattern, m, k + 1, m - 1) /\ m - k - 1 # 0
            THEN m - k - 1 ELSE ShiftAfter(text, w, m_Pattern, m, k)
    <3> HIDE DEF w, k
    <3>1. w \in Int /\ m \in Nat /\ m >= 1 /\ k \in Nat /\ k < m
      BY <1>0
    <3> QED
      BY <3>1, ShiftStep
  <2> HIDE DEF w, k
  <2> QED
    BY <1>0, <1>1, <1>2, <2>1, <2>2
<1>4. CASE /\ hit /\ uJ - 1 = 0
           /\ FullVerify => OccursAt(text, m_Pattern, m, w)
           /\ ScalarReturn(uPos) /\ UNCHANGED <<uPos, uD>>
  <2>1. OccursAt(text, m_Pattern, m, w)
    <3>1. CASE FullVerify
      BY <1>4, <3>1
    <3>2. CASE ~FullVerify
      <4>1. k + 1 = m /\ m >= 1
        BY <1>0, <1>4
      <4>2. Factor(text, w, m_Pattern, m, m, m - 1)
        BY <1>1, <1>4, <4>1
      <4> HIDE DEF w
      <4> QED
        BY <1>0, <3>2, <4>1, <4>2, WholeWindow
    <3> QED
      BY <3>1, <3>2
  <2>2. CursorTypes'
    BY <1>0, <1>3, <1>4 DEF CursorTypes
  <2>3. uPos \in Int /\ uPos >= 0 /\ uI + uPos <= cchTextLen - m
    BY <1>0
  <2> QED
    BY <1>0, <1>4, <2>1, <2>2, <2>3, ScalarReturnIInv
<1>5. CASE /\ hit /\ uJ - 1 = 0
           /\ ~(FullVerify => OccursAt(text, m_Pattern, m, w))
           /\ NextWindow /\ UNCHANGED result
  <2>1. ~OccursAt(text, m_Pattern, m, uI + uPos)
    BY <1>5
  <2>2. m - uJ > 0 /\ m - uJ >= m - 1
    BY <1>0, <1>5
  <2> QED
    BY <1>3, <1>5, <2>1, <2>2, NextWindowIInv
<1>6. CASE /\ ~(hit /\ uJ - 1 = 0)
           /\ uD' = ShiftLeft(d) /\ UNCHANGED <<uPos, pc, result>>
  <2> USE DEF EngineFrame, object, memory, call
  <2>0. /\ TypeOK /\ XStateBalanced /\ PhaseInv /\ MaskInv /\ m' = m /\ uLastIdx' = uLastIdx
        /\ uLastIdx = m - 1
    BY DEF IInv, m, uLastIdx
  <2>1. uD' = WordAfter(text, w, m_Pattern, m, k + 1) /\ uD' \in Word
    BY <1>1, <1>6 DEF ShiftLeft, Word
  <2>2. TypeOK'
    BY <1>0, <1>3, <1>6, <2>0, <2>1 DEF TypeOK, m
  <2>3. XStateBalanced' /\ PhaseInv'
    BY <1>6, <2>0 DEF XStateBalanced, PhaseInv, m
  <2>4. MaskInv'
    BY <1>6, <2>0, MaskFrame
  <2>5. CursorInv'
    <3>1. uJ' <= m /\ uJ' # m
      BY <1>0, <1>2
    <3>2. uJ' = 0 => ~Factor(text, w, m_Pattern, m, m, m - 1)
      <4> SUFFICES ASSUME uJ' = 0 PROVE ~Factor(text, w, m_Pattern, m, m, m - 1)
        OBVIOUS
      <4>1. k + 1 = m /\ uJ - 1 = 0
        BY <1>0, <1>2
      <4> QED
        BY <1>1, <1>6, <4>1
    <3> QED
      BY <1>0, <1>6, <2>0, <3>1, <3>2 DEF CursorInv
  <2>6. AutomatonExact'
    <3>1. m' - uJ' = k + 1
      BY <1>0, <1>2, <2>0
    <3> QED
      BY <1>3, <1>6, <2>0, <2>1, <3>1 DEF AutomatonExact
  <2>7. NothingSkipped' /\ AnswerInv'
    BY <1>0, <1>6, <2>0 DEF NothingSkipped, NoneBefore, AnswerInv
  <2> QED
    BY <2>2, <2>3, <2>4, <2>5, <2>6, <2>7 DEF IInv
<1> QED
  BY <1>2, <1>4, <1>5, <1>6

LEMMA AutomatonIInv == ASSUME IInv, Automaton PROVE IInv'
<1>0. pc = "automaton" /\ EngineFrame /\ UNCHANGED <<uI, lane>>
  BY DEF Automaton, EngineFrame
<1>1. CASE uD = {}
  BY <1>0, <1>1, AutomatonEmptyIInv DEF Automaton
<1>2. CASE uD # {}
  BY <1>0, <1>2, ReadNextIInv DEF Automaton
<1> QED
  BY <1>1, <1>2

-----------------------------------------------------------------------------
(***************************************************************************)
(* The vector engine.                                                      *)
(***************************************************************************)
LEMMA StridePositive ==
  /\ Lanes \in Nat \ {0} /\ LaneLen \in Nat \ {0}
  /\ Stride \in Nat /\ Stride >= 1
BY BuildAssumption, ProductPositive DEF Stride

LEMMA LaneWithinStride ==
  ASSUME lane \in Nat, lane < Lanes
  PROVE  /\ lane * LaneLen \in Nat
         /\ (lane + 1) * LaneLen = lane * LaneLen + LaneLen
         /\ lane * LaneLen + LaneLen <= Stride
         /\ lane + 1 >= Lanes => lane * LaneLen + LaneLen = Stride
<1>1. Lanes \in Nat /\ LaneLen \in Nat
  BY StridePositive
<1>2. /\ lane * LaneLen \in Nat
      /\ (lane + 1) * LaneLen = lane * LaneLen + LaneLen
      /\ lane * LaneLen + LaneLen <= Lanes * LaneLen
  BY <1>1, ProductStep
<1>3. lane + 1 >= Lanes => lane + 1 = Lanes
  BY <1>1
<1> QED
  BY <1>2, <1>3 DEF Stride

(***************************************************************************)
(* One lane: its mask finds the first occurrence that starts in it.        *)
(***************************************************************************)
IsFirstInLane(r, from) ==
  \/ /\ r = -1
     /\ \A s \in from .. from + (LaneLen - 1) : ~OccursAt(text, m_Pattern, m, s)
  \/ /\ r \in from .. from + (LaneLen - 1)
     /\ OccursAt(text, m_Pattern, m, r)
     /\ \A s \in from .. r - 1 : ~OccursAt(text, m_Pattern, m, s)

LEMMA CheckMaskIsFirst ==
  ASSUME m \in Nat, m >= 2, IntMax \in Nat,
         NEW from \in Nat, from + LaneLen <= IntMax
  PROVE  IsFirstInLane(CheckMask(from + uLastIdx), from)
<1> DEFINE o == from + uLastIdx
           lanes == from .. from + (LaneLen - 1)
           hits == { s \in o - uLastIdx .. o - uLastIdx + LaneLen - 1 :
                       /\ text[s + uLastIdx] = lastChar /\ text[s] = m_Pattern[0]
                       /\ VerifyMiddleMatch(text, s, m_Pattern, m) }
<1>0. /\ LaneLen \in Nat /\ LaneLen >= 1 /\ uLastIdx \in Nat /\ uLastIdx = m - 1
      /\ o - uLastIdx .. o - uLastIdx + LaneLen - 1 = lanes
  <2>1. LaneLen \in Nat /\ LaneLen >= 1 /\ uLastIdx \in Nat /\ uLastIdx = m - 1
    BY BuildAssumption DEF uLastIdx
  <2>2. o - uLastIdx = from /\ o - uLastIdx + LaneLen - 1 = from + (LaneLen - 1)
    BY <2>1
  <2> QED
    BY <2>1, <2>2
<1>1. \A s \in lanes : s \in hits <=> OccursAt(text, m_Pattern, m, s)
  <2> SUFFICES ASSUME NEW s \in lanes
               PROVE  s \in hits <=> OccursAt(text, m_Pattern, m, s)
    OBVIOUS
  <2>1. s \in Int
    BY <1>0
  <2>2. s \in hits <=> /\ text[s + (m - 1)] = m_Pattern[m - 1] /\ text[s] = m_Pattern[0]
                       /\ VerifyMiddleMatch(text, s, m_Pattern, m)
    BY <1>0 DEF lastChar
  <2>3. /\ text[s + (m - 1)] = m_Pattern[m - 1] /\ text[s] = m_Pattern[0]
        /\ VerifyMiddleMatch(text, s, m_Pattern, m)
        <=> OccursAt(text, m_Pattern, m, s)
    BY <2>1, VerifiedOccurs
  <2> QED
    BY <2>2, <2>3, Zenon
<1>2. hits \in SUBSET Nat /\ hits \subseteq lanes
  BY <1>0
<1>3. CheckMask(o) = ToInt(First(hits), IntMax)
  BY DEF CheckMask
<1>4. CASE hits = {}
  <2>1. First(hits) = -1
    BY <1>4 DEF First
  <2>2. CheckMask(o) = -1
    BY <1>3, <2>1, ToIntInRange
  <2> QED
    BY <1>1, <1>4, <2>2 DEF IsFirstInLane
<1>5. CASE hits # {}
  <2> DEFINE r == First(hits)
  <2>1. r \in hits /\ \A s \in hits : r <= s
    BY <1>2, <1>5, MinOfNat DEF First
  <2>2. r \in lanes /\ OccursAt(text, m_Pattern, m, r)
    BY <1>1, <1>2, <2>1
  <2> HIDE DEF r, hits
  <2>3. r \in -1 .. IntMax
    BY <1>0, <2>2
  <2>4. CheckMask(o) = r
    BY <1>3, <2>3, ToIntInRange DEF r
  <2>5. \A s \in from .. r - 1 : s \in lanes /\ ~(r <= s)
    BY <1>0, <2>2
  <2> QED
    BY <1>1, <2>1, <2>2, <2>4, <2>5 DEF IsFirstInLane
<1> QED
  BY <1>4, <1>5

LEMMA NextBlockIInv ==
  ASSUME IInv, pc \in {"block", "lane"}, EngineFrame, UNCHANGED auto,
         BlockFits, NextBlock, NoneBefore(uI + Stride)
  PROVE  IInv'
<1>0. /\ pc \in Searching
      /\ TypeOK /\ XStateBalanced /\ PhaseInv /\ MaskInv
      /\ pc' = "block" /\ lane' = 0 /\ uI' = uI + Stride /\ UNCHANGED result
  BY DEF Searching, IInv, NextBlock
<1>1. /\ uI \in Nat /\ cchTextLen \in Nat /\ m \in Nat /\ m >= 2 /\ uLastIdx = m - 1
      /\ Stride \in Nat /\ Stride >= 1
  BY <1>0, SearchFacts, StridePositive DEF PhaseInv
<1>2. uI' \in Nat /\ uI' <= cchTextLen /\ NoneBefore(uI')
  BY <1>0, <1>1 DEF BlockFits
<1> USE DEF EngineFrame, object, memory, call, auto
<1>3. TypeOK'
  BY <1>0, <1>2 DEF TypeOK, PCs, m
<1>4. XStateBalanced' /\ PhaseInv'
  BY <1>0, <1>1 DEF XStateBalanced, PhaseInv, m
<1>5. MaskInv'
  BY <1>0, MaskFrame
<1>6. CursorInv' /\ AutomatonExact' /\ AnswerInv'
  BY <1>0, <1>2 DEF CursorInv, AutomatonExact, AnswerInv
<1>7. NothingSkipped'
  BY <1>0, <1>2 DEF NothingSkipped, NoneBefore, m
<1> QED
  BY <1>3, <1>4, <1>5, <1>6, <1>7 DEF IInv

LEMMA BlockIInv == ASSUME IInv, Block PROVE IInv'
<1>0. /\ pc = "block" /\ pc \in Searching /\ EngineFrame /\ UNCHANGED auto
      /\ BlockFits
      /\ TypeOK /\ XStateBalanced /\ PhaseInv /\ MaskInv /\ NothingSkipped
  BY DEF Block, EngineFrame, Searching, IInv
<1>1. /\ uI \in Nat /\ m \in Nat /\ cchTextLen \in Nat
      /\ m >= 2 /\ uLastIdx = m - 1 /\ uLastIdx \in Nat
      /\ Stride \in Nat /\ Lanes \in Nat \ {0} /\ LaneLen \in Nat
      /\ NoneBefore(uI)
  BY <1>0, SearchFacts, StridePositive DEF PhaseInv, NothingSkipped
<1>2. CASE pc' = "lane" /\ lane' = 0 /\ UNCHANGED <<uI, result>>
  <2> USE DEF EngineFrame, object, memory, call, auto
  <2>1. lane' = 0 /\ lane' * LaneLen = 0 /\ uI + 0 = uI /\ BlockFits'
    BY <1>0, <1>1, <1>2 DEF uLastIdx, BlockFits, m
  <2>2. TypeOK'
    BY <1>0, <1>2 DEF TypeOK, PCs, m
  <2>3. XStateBalanced' /\ PhaseInv'
    BY <1>0, <1>2 DEF XStateBalanced, PhaseInv, m
  <2>4. MaskInv'
    BY <1>0, <1>2, MaskFrame
  <2>5. CursorInv' /\ AutomatonExact' /\ AnswerInv'
    BY <1>1, <1>2, <2>1 DEF CursorInv, AutomatonExact, AnswerInv
  <2>6. NothingSkipped'
    <3>1. uI' + lane' * LaneLen = uI
      BY <1>1, <1>2, <2>1
    <3>2. NoneBefore(uI)'
      BY <1>0, <1>1, <1>2 DEF NoneBefore, m
    <3> QED
      BY <1>2, <3>1, <3>2 DEF NothingSkipped, NoneBefore
  <2> QED
    BY <2>2, <2>3, <2>4, <2>5, <2>6 DEF IInv
<1>3. CASE NextBlock /\ \A o \in 0 .. Stride - 1 : text[uI + uLastIdx + o] # lastChar
  <2>1. NoneBefore(uI + Stride)
    <3> SUFFICES ASSUME NEW s \in 0 .. cchTextLen - m, s < uI + Stride
                 PROVE  ~OccursAt(text, m_Pattern, m, s)
      BY DEF NoneBefore
    <3>1. CASE s < uI
      BY <1>1, <3>1 DEF NoneBefore
    <3>2. CASE s >= uI
      <4>1. s - uI \in 0 .. Stride - 1 /\ uI + uLastIdx + (s - uI) = s + uLastIdx
        BY <1>1, <3>2
      <4>2. text[s + uLastIdx] # lastChar
        BY <1>3, <4>1
      <4>3. uLastIdx \in 0 .. m - 1
        BY <1>1
      <4> QED
        BY <4>2, <4>3 DEF OccursAt, lastChar
    <3> QED
      BY <1>1, <3>1, <3>2
  <2> QED
    BY <1>0, <1>3, <2>1, NextBlockIInv
<1> QED
  BY <1>2, <1>3 DEF Block

LEMMA LaneIInv == ASSUME IInv, Lane PROVE IInv'
<1> DEFINE from == uI + lane * LaneLen
           r == CheckMask(from + uLastIdx)
<1>0. /\ pc = "lane" /\ pc \in Searching /\ EngineFrame /\ UNCHANGED auto
      /\ TypeOK /\ XStateBalanced /\ PhaseInv /\ MaskInv /\ NothingSkipped /\ CursorInv
  BY DEF Lane, EngineFrame, Searching, IInv
<1>1. /\ uI \in Nat /\ lane \in Nat /\ m \in Nat /\ cchTextLen \in Nat
      /\ m >= 2 /\ uLastIdx = m - 1 /\ uLastIdx \in Nat
      /\ cchTextLen <= IntMax /\ IntMax \in Nat
      /\ BlockFits /\ lane < Lanes
  BY <1>0, SearchFacts DEF PhaseInv, CursorInv
<1>2. NoneBefore(from)
  BY <1>0 DEF NothingSkipped
<1>3. /\ Stride \in Nat /\ LaneLen \in Nat /\ LaneLen >= 1
      /\ lane * LaneLen \in Nat
      /\ (lane + 1) * LaneLen = lane * LaneLen + LaneLen
      /\ lane * LaneLen + LaneLen <= Stride
      /\ lane + 1 >= Lanes => lane * LaneLen + LaneLen = Stride
  BY <1>1, StridePositive, LaneWithinStride
<1>4. /\ from \in Nat /\ from + LaneLen <= IntMax
      /\ from + (LaneLen - 1) <= cchTextLen - m
  BY <1>1, <1>3 DEF BlockFits
<1>5. IsFirstInLane(r, from)
  BY <1>1, <1>4, CheckMaskIsFirst
<1>6. \/ r # -1 /\ Return(r) /\ UNCHANGED <<uI, lane>>
      \/ r = -1 /\ lane + 1 < Lanes /\ lane' = lane + 1 /\ UNCHANGED <<uI, pc, result>>
      \/ r = -1 /\ lane + 1 >= Lanes /\ NextBlock
  BY DEF Lane
<1> HIDE DEF r
<1>7. ASSUME r = -1 PROVE NoneBefore(from + LaneLen)
  <2> SUFFICES ASSUME NEW s \in 0 .. cchTextLen - m, s < from + LaneLen
               PROVE  ~OccursAt(text, m_Pattern, m, s)
    BY DEF NoneBefore
  <2>1. CASE s < from
    BY <1>2, <2>1 DEF NoneBefore
  <2>2. CASE s >= from
    <3>1. s \in from .. from + (LaneLen - 1) /\ r \notin from .. from + (LaneLen - 1)
      BY <1>3, <1>4, <1>7, <2>2
    <3> QED
      BY <1>5, <3>1 DEF IsFirstInLane
  <2> QED
    BY <1>4, <2>1, <2>2
<1>8. CASE r # -1 /\ Return(r) /\ UNCHANGED <<uI, lane>>
  <2>1. /\ r \in from .. from + (LaneLen - 1)
        /\ OccursAt(text, m_Pattern, m, r)
        /\ \A s \in from .. r - 1 : ~OccursAt(text, m_Pattern, m, s)
    BY <1>5, <1>8 DEF IsFirstInLane
  <2>2. r \in Nat /\ r \in Int /\ r <= cchTextLen - m
    BY <1>1, <1>3, <1>4, <2>1
  <2>3. NoneBefore(r)
    <3> SUFFICES ASSUME NEW s \in 0 .. cchTextLen - m, s < r
                 PROVE  ~OccursAt(text, m_Pattern, m, s)
      BY DEF NoneBefore
    <3>1. CASE s < from
      BY <1>2, <3>1 DEF NoneBefore
    <3>2. CASE s >= from
      <4>1. s \in from .. r - 1
        BY <1>4, <2>2, <3>2
      <4> QED
        BY <2>1, <4>1
    <3> QED
      BY <1>4, <3>1, <3>2
  <2>4. r = BasicOffset(text, cchTextLen, m_Pattern, m)
    BY <1>0, <2>1, <2>2, <2>3, FoundIsAnswer
  <2>5. CursorTypes'
    BY <1>0, <1>8, SearchFacts DEF CursorTypes, auto
  <2> QED
    BY <1>0, <1>8, <2>2, <2>4, <2>5, ReturnIInv
<1>9. CASE r = -1 /\ lane + 1 < Lanes /\ lane' = lane + 1 /\ UNCHANGED <<uI, pc, result>>
  <2> USE DEF EngineFrame, object, memory, call, auto
  <2>1. BlockFits'
    BY <1>0, <1>1, <1>9 DEF uLastIdx, BlockFits, m
  <2>2. TypeOK'
    BY <1>0, <1>1, <1>9 DEF TypeOK, m
  <2>3. XStateBalanced' /\ PhaseInv'
    BY <1>0, <1>9 DEF XStateBalanced, PhaseInv, m
  <2>4. MaskInv'
    BY <1>0, <1>9, MaskFrame
  <2>5. CursorInv' /\ AutomatonExact' /\ AnswerInv'
    BY <1>0, <1>9, <2>1 DEF CursorInv, AutomatonExact, AnswerInv
  <2>6. NothingSkipped'
    <3>1. uI' + lane' * LaneLen = from + LaneLen
      BY <1>1, <1>3, <1>9
    <3>2. NoneBefore(from + LaneLen)
      BY <1>7, <1>9
    <3> QED
      BY <1>0, <1>9, <3>1, <3>2 DEF NothingSkipped, NoneBefore, m
  <2> QED
    BY <2>2, <2>3, <2>4, <2>5, <2>6 DEF IInv
<1>10. CASE r = -1 /\ lane + 1 >= Lanes /\ NextBlock
  <2>1. from + LaneLen = uI + Stride
    BY <1>1, <1>3, <1>10
  <2>2. NoneBefore(uI + Stride)
    BY <1>7, <1>10, <2>1
  <2> QED
    BY <1>0, <1>1, <1>10, <2>2, NextBlockIInv
<1> QED
  BY <1>6, <1>8, <1>9, <1>10

LEMMA TailIInv == ASSUME IInv, Tail PROVE IInv'
<1>0. /\ pc = "block" /\ pc \in Searching /\ EngineFrame /\ UNCHANGED <<uI, lane, auto>>
      /\ ~BlockFits
      /\ TypeOK /\ XStateBalanced /\ PhaseInv /\ MaskInv /\ NothingSkipped /\ CursorInv
  BY DEF Tail, EngineFrame, Searching, IInv
<1>1. /\ uI \in Nat /\ m \in Nat /\ cchTextLen \in Nat
      /\ m >= 2 /\ uI <= cchTextLen /\ NoneBefore(uI)
  BY <1>0, SearchFacts DEF PhaseInv, CursorInv, NothingSkipped
<1>2. CASE uI < cchTextLen /\ pc' = "scalar" /\ UNCHANGED result
  <2> USE DEF EngineFrame, object, memory, call, auto
  <2>1. TypeOK'
    BY <1>0, <1>2 DEF TypeOK, PCs, m
  <2>2. XStateBalanced' /\ PhaseInv'
    BY <1>0, <1>1, <1>2 DEF XStateBalanced, PhaseInv, m
  <2>3. MaskInv'
    BY <1>0, <1>2, MaskFrame
  <2>4. CursorInv' /\ AutomatonExact' /\ NothingSkipped' /\ AnswerInv'
    BY <1>0, <1>1, <1>2 DEF CursorInv, AutomatonExact, NothingSkipped, NoneBefore,
                            AnswerInv, m
  <2> QED
    BY <2>1, <2>2, <2>3, <2>4 DEF IInv
<1>3. CASE ~(uI < cchTextLen) /\ Return(-1)
  <2>1. uI > cchTextLen - m
    BY <1>1, <1>3
  <2>2. -1 = BasicOffset(text, cchTextLen, m_Pattern, m)
    BY <1>0, <1>1, <2>1, NotFoundIsAnswer
  <2>3. CursorTypes'
    BY <1>0, SearchFacts DEF CursorTypes, auto
  <2> QED
    BY <1>0, <1>3, <2>2, <2>3, ReturnIInv
<1> QED
  BY <1>2, <1>3 DEF Tail

-----------------------------------------------------------------------------
(***************************************************************************)
(* IInv is inductive.                                                      *)
(***************************************************************************)
LEMMA StutterIInv == ASSUME IInv, UNCHANGED vars PROVE IInv'
<1> USE DEF vars, object, memory, call, auto
<1>0. /\ TypeOK /\ XStateBalanced /\ PhaseInv /\ MaskInv /\ CursorInv
      /\ AutomatonExact /\ NothingSkipped /\ AnswerInv
  BY DEF IInv
<1>1. TypeOK' /\ XStateBalanced' /\ PhaseInv'
  BY <1>0 DEF TypeOK, XStateBalanced, PhaseInv, m
<1>2. MaskInv'
  BY <1>0, MaskFrame
<1>3. CursorInv'
  BY <1>0 DEF CursorInv, BlockFits, uLastIdx, m
<1>4. AutomatonExact' /\ NothingSkipped' /\ AnswerInv'
  BY <1>0 DEF AutomatonExact, NothingSkipped, NoneBefore, AnswerInv, m
<1> QED
  BY <1>1, <1>2, <1>3, <1>4 DEF IInv

LEMMA NextIInv == ASSUME TextsFitInt, IInv, [Next]_vars PROVE IInv'
<1>1. CASE \E p \in Patterns : Initialize(p[1], p[2])
  BY <1>1, InitializeRejectsIInv, InitializeWithoutTableIInv, InitializeAllocatesIInv
  DEF Initialize
<1>2. CASE InitializeRejects(Null, 1)
  BY <1>2, InitializeRejectsIInv
<1>3. CASE \E t \in Texts, e \in SearchEngine : Call(t[1], t[2], e)
  BY <1>3, CallIInv
<1>4. CASE FindScalar
  BY <1>4, ScalarEntryIInv, SlideIInv, WindowIInv, AutomatonIInv DEF FindScalar
<1>5. CASE FindVector
  BY <1>5, BlockIInv, LaneIInv, TailIInv DEF FindVector
<1>6. CASE Populate \/ Find \/ SaveState \/ SaveStateFails \/ RestoreState
  BY <1>6, PopulateIInv, FindIInv, SaveStateIInv, RestoreStateIInv
<1>7. CASE TakeResult \/ Destroy
  BY <1>7, TakeResultIInv, DestroyIInv
<1>8. CASE UNCHANGED vars
  BY <1>8, StutterIInv
<1> QED
  BY <1>1, <1>2, <1>3, <1>4, <1>5, <1>6, <1>7, <1>8 DEF Next, Step, Terminated

(***************************************************************************)
(* IInv holds in every state of the BNDM searcher, if no text is longer    *)
(* than INT_MAX.                                                           *)
(***************************************************************************)
THEOREM Invariance == TextsFitInt => (Safety => []IInv)
<1> SUFFICES ASSUME TextsFitInt PROVE Safety => []IInv
  OBVIOUS
<1>1. Init => IInv
  BY InitIInv
<1>2. IInv /\ [Next]_vars => IInv'
  BY NextIInv
<1> QED
  BY <1>1, <1>2, PTL DEF Safety

-----------------------------------------------------------------------------
(***************************************************************************)
(* The theorems.                                                           *)
(***************************************************************************)

(***************************************************************************)
(* Every variable keeps its type; in particular the unsigned cursors never *)
(* wrap below 0.                                                           *)
(***************************************************************************)
THEOREM TypeCorrect == TextsFitInt => (Safety => []TypeOK)
<1>1. IInv => TypeOK
  BY DEF IInv
<1> QED
  BY <1>1, Invariance, PTL

(***************************************************************************)
(* Find returns the offset of the first match, or -1, on every path: any   *)
(* engine asked for, any fallback, the automaton or the slide, any word    *)
(* size and any hash.                                                      *)
(***************************************************************************)
THEOREM Correct == TextsFitInt => (Safety => []FindIsFirstMatch)
<1>1. IInv => FindIsFirstMatch
  BY DEF IInv, AnswerInv, FindIsFirstMatch
<1> QED
  BY <1>1, Invariance, PTL

(***************************************************************************)
(* No window, jump or block passes over an occurrence.                     *)
(***************************************************************************)
THEOREM JumpsAreSafe == TextsFitInt => (Safety => []NothingSkipped)
<1>1. IInv => NothingSkipped
  BY DEF IInv
<1> QED
  BY <1>1, Invariance, PTL

(***************************************************************************)
(* The bit-parallel automaton computes the set of the pattern's factors    *)
(* that it is meant to, and its shift is the least safe one.               *)
(***************************************************************************)
THEOREM AutomatonComputes == TextsFitInt => (Safety => []AutomatonExact)
<1>1. IInv => AutomatonExact
  BY DEF IInv
<1> QED
  BY <1>1, Invariance, PTL

(***************************************************************************)
(* No step reads outside the text or the pattern.                          *)
(***************************************************************************)
LEMMA IInvReadsInBounds == IInv => ReadsInBounds
<1> SUFFICES ASSUME IInv PROVE ReadsInBounds
  OBVIOUS
<1>1. CursorInv
  BY DEF IInv
<1>2. ASSUME pc = "automaton", uD # {} PROVE uJ >= 1
  <2>1. uJ \in 1 .. m
    BY <1>2, ReadNextFacts
  <2>2. m \in Nat
    BY <1>2, SearchFacts DEF Searching
  <2> QED
    BY <2>1, <2>2
<1> QED
  BY <1>1, <1>2 DEF CursorInv, BlockFits, ReadsInBounds

THEOREM MemorySafe == TextsFitInt => (Safety => []ReadsInBounds)
BY IInvReadsInBounds, Invariance, PTL

(***************************************************************************)
(* The extended state is saved while vector code runs and is back when     *)
(* Find returns.                                                           *)
(***************************************************************************)
THEOREM StateRestored == TextsFitInt => (Safety => []XStateBalanced)
<1>1. IInv => XStateBalanced
  BY DEF IInv
<1> QED
  BY <1>1, Invariance, PTL

-----------------------------------------------------------------------------
(***************************************************************************)
(* The searcher implements StringFinder.                                   *)
(***************************************************************************)
InSearch == {"find", "save", "block", "lane", "scalar", "slide", "window", "automaton",
             "restore"}

\* The abstract specification has operators of its own, with the same bodies.
LEMMA FinderOffset ==
  ASSUME NEW t, NEW size, NEW p, NEW len
  PROVE  Finder!BasicOffset(t, size, p, len) = BasicOffset(t, size, p, len)
<1>1. Finder!Occurrences(t, size, p, len) = Occurrences(t, size, p, len)
  BY DEF Occurrences, OccursAt, Finder!Occurrences, Finder!OccursAt
<1>2. ASSUME NEW S PROVE Finder!First(S) = First(S)
  BY DEF First, Min, Finder!First, Finder!Min
<1> QED
  BY <1>1, <1>2 DEF BasicOffset, Finder!BasicOffset

LEMMA SearchStepIsReplyOrStutter ==
  ASSUME IInv', pc \in InSearch, pc' \in InSearch \cup {"done"},
         UNCHANGED <<object, call>>
  PROVE  [Finder!Next]_(Finder!vars)
<1> USE DEF object, call, InSearch
<1>1. FinderPhase = "searching" /\ (pc = "done") = FALSE
  BY DEF FinderPhase
<1>2. CASE pc' = "done"
  <2>1. FinderPhase' = "answered"
    BY <1>2 DEF FinderPhase
  <2>2. result' = BasicOffset(text', cchTextLen', m_Pattern', m_cchPatternLen')
    BY <1>2 DEF IInv, AnswerInv, m
  <2>3. (IF pc' = "done" THEN result' ELSE -1)
          = Finder!BasicOffset(text, cchTextLen, m_Pattern, m_cchPatternLen)
    BY <1>2, <2>2, FinderOffset
  <2>4. UNCHANGED <<m_Pattern, m_cchPatternLen, text, cchTextLen>>
    OBVIOUS
  <2>5. Finder!Reply
    BY <1>1, <2>1, <2>3, <2>4 DEF Finder!Reply
  <2> QED
    BY <2>5 DEF Finder!Next
<1>3. CASE pc' # "done"
  <2>1. FinderPhase' = "searching"
    BY <1>3 DEF FinderPhase
  <2>2. UNCHANGED Finder!vars
    BY <1>1, <1>3, <2>1 DEF Finder!vars
  <2> QED
    BY <2>2
<1> QED
  BY <1>2, <1>3

LEMMA StepRefines ==
  ASSUME IInv, IInv', Step
  PROVE  [Finder!Next]_(Finder!vars)
<1>1. CASE Populate
  <2>1. /\ pc = "populate" /\ pc' \in {"populate", "idle"}
        /\ UNCHANGED <<m_Pattern, m_cchPatternLen, text, cchTextLen, result>>
    BY <1>1 DEF Populate, call
  <2>2. FinderPhase = "idle" /\ FinderPhase' = "idle"
    BY <2>1 DEF FinderPhase
  <2>3. UNCHANGED Finder!vars
    BY <2>1, <2>2 DEF Finder!vars
  <2> QED
    BY <2>3
<1>2. CASE Find \/ SaveState \/ SaveStateFails \/ RestoreState
  <2>1. /\ pc \in InSearch /\ pc' \in InSearch \cup {"done"}
        /\ UNCHANGED <<object, call>>
    BY <1>2 DEF Find, SaveState, SaveStateFails, RestoreState, InSearch
  <2> QED
    BY <2>1, SearchStepIsReplyOrStutter
<1>3. CASE FindScalar
  <2>1. /\ pc \in InSearch /\ pc' \in InSearch \cup {"done"}
        /\ UNCHANGED <<object, call>>
    BY <1>3 DEF FindScalar, ScalarEntry, Slide, Window, Automaton, ReadNext,
                NextWindow, ScalarReturn, Return, InSearch
  <2> QED
    BY <2>1, SearchStepIsReplyOrStutter
<1>4. CASE FindVector
  <2>1. /\ pc \in InSearch /\ pc' \in InSearch \cup {"done"}
        /\ UNCHANGED <<object, call>>
    BY <1>4 DEF FindVector, Block, Lane, Tail, NextBlock, Return, InSearch
  <2> QED
    BY <2>1, SearchStepIsReplyOrStutter
<1> QED
  BY <1>1, <1>2, <1>3, <1>4 DEF Step

LEMMA InitializeRefines ==
  ASSUME NEW p \in Patterns, Initialize(p[1], p[2])
  PROVE  [Finder!Next]_(Finder!vars)
<1>1. CASE InitializeRejects(p[1], p[2])
  <2>1. UNCHANGED <<pc, m_Pattern, m_cchPatternLen, text, cchTextLen, result>>
    BY <1>1 DEF InitializeRejects, object, call
  <2>2. UNCHANGED Finder!vars
    BY <2>1 DEF Finder!vars, FinderPhase
  <2> QED
    BY <2>2
<1>2. CASE InitializeWithoutTable(p[1], p[2]) \/ InitializeAllocates(p[1], p[2])
  <2>1. /\ pc = "idle" /\ pc' \in {"idle", "populate"}
        /\ m_Pattern' = p[1] /\ m_cchPatternLen' = p[2]
        /\ UNCHANGED <<text, cchTextLen, result>>
    BY <1>2 DEF InitializeWithoutTable, InitializeAllocates, BindPattern, call
  <2>2. FinderPhase = "idle" /\ FinderPhase' = "idle"
    BY <2>1 DEF FinderPhase
  <2>3. Finder!SetPattern
    BY <2>1, <2>2 DEF Finder!SetPattern
  <2> QED
    BY <2>3 DEF Finder!Next
<1> QED
  BY <1>1, <1>2 DEF Initialize

LEMMA CallerRefines ==
  ASSUME IInv, (\E t \in Texts, e \in SearchEngine : Call(t[1], t[2], e)) \/ TakeResult \/ Destroy
  PROVE  [Finder!Next]_(Finder!vars)
<1>1. ASSUME NEW t \in Texts, NEW e \in SearchEngine, Call(t[1], t[2], e)
      PROVE  [Finder!Next]_(Finder!vars)
  <2>1. /\ pc = "idle" /\ pc' = "find" /\ text' = t[1] /\ cchTextLen' = t[2]
        /\ UNCHANGED <<m_Pattern, m_cchPatternLen, result>>
    BY <1>1 DEF Call, object
  <2>2. FinderPhase = "idle" /\ FinderPhase' = "searching"
    BY <2>1 DEF FinderPhase
  <2>3. Finder!Ask
    BY <2>1, <2>2 DEF Finder!Ask
  <2> QED
    BY <2>3 DEF Finder!Next
<1>2. CASE TakeResult
  <2>1. /\ pc = "done" /\ pc' = "idle" /\ text' = Empty /\ cchTextLen' = 0
        /\ UNCHANGED <<m_Pattern, m_cchPatternLen>>
    BY <1>2 DEF TakeResult, object
  <2>2. FinderPhase = "answered" /\ FinderPhase' = "idle"
    BY <2>1 DEF FinderPhase
  <2>3. Finder!Take
    BY <2>1, <2>2 DEF Finder!Take
  <2> QED
    BY <2>3 DEF Finder!Next
<1>3. CASE Destroy
  <2>1. /\ pc = "idle" /\ pc' = "destroyed"
        /\ UNCHANGED <<m_Pattern, m_cchPatternLen, text, cchTextLen, result>>
    BY <1>3 DEF Destroy, object, call
  <2>2. FinderPhase = "idle" /\ FinderPhase' = "destroyed"
    BY <2>1 DEF FinderPhase
  <2>3. Finder!Destroy
    BY <2>1, <2>2 DEF Finder!Destroy
  <2> QED
    BY <2>3 DEF Finder!Next
<1> QED
  BY <1>1, <1>2, <1>3

LEMMA NextRefines ==
  ASSUME IInv, IInv', [Next]_vars
  PROVE  [Finder!Next]_(Finder!vars)
<1>1. CASE InitializeRejects(Null, 1) \/ UNCHANGED vars
  <2>1. UNCHANGED <<pc, m_Pattern, m_cchPatternLen, text, cchTextLen, result>>
    BY <1>1 DEF InitializeRejects, object, call, vars
  <2>2. UNCHANGED Finder!vars
    BY <2>1 DEF Finder!vars, FinderPhase
  <2> QED
    BY <2>2
<1> QED
  BY <1>1, InitializeRefines, StepRefines, CallerRefines DEF Next, Terminated

LEMMA InitRefines == Init => Finder!Init
<1> SUFFICES ASSUME Init PROVE Finder!Init
  OBVIOUS
<1>1. /\ pc = "idle" /\ m_Pattern = Empty /\ m_cchPatternLen = 0
      /\ text = Empty /\ cchTextLen = 0
  BY DEF Init
<1>2. FinderPhase = "idle"
  BY <1>1 DEF FinderPhase
<1> QED
  BY <1>1, <1>2 DEF Finder!Init

(***************************************************************************)
(* Every behaviour of the searcher is one of StringFinder's, as far as     *)
(* safety goes: however many steps, engines and fallbacks a call takes,    *)
(* its caller sees one reply, the naive matcher's.                         *)
(***************************************************************************)
THEOREM Refinement == TextsFitInt => (Safety => Finder!Safety)
<1> SUFFICES ASSUME TextsFitInt PROVE Safety => Finder!Safety
  OBVIOUS
<1>1. Init => Finder!Init
  BY InitRefines
<1>2. IInv /\ IInv' /\ [Next]_vars => [Finder!Next]_(Finder!vars)
  BY NextRefines
<1>3. Safety => []IInv
  BY Invariance
<1> QED
  BY <1>1, <1>2, <1>3, PTL DEF Safety, Finder!Safety

-----------------------------------------------------------------------------
(***************************************************************************)
(* Every call comes to an end: its steps descend.  A return leaves the     *)
(* phase; a shift leaves less of the text, because the automaton's shift   *)
(* is never 0 and the slide goes past the match it refuted; a character    *)
(* read and a lane leave less of their loop.                               *)
(***************************************************************************)
LEMMA FurtherLeavesLess ==
  ASSUME NEW end \in Nat, NEW here \in Nat, NEW there \in Nat, there > here
  PROVE  end - there < end - here
  OBVIOUS

LEMMA PhaseType == CallPhase \in Nat
  BY DEF CallPhase

LEMMA LeaveEngine ==
  ASSUME pc \in Searching, NEW r, Return(r)
  PROVE  CallPhase' < CallPhase
  BY DEF Searching, Return, CallPhase

LEMMA PopulateDescends ==
  ASSUME IInv, Populate
  PROVE  TextLeft \in Nat /\ LoopLeft \in Nat /\ Descends
<1>1. pc = "populate" /\ m \in Nat /\ uJ \in 0 .. m /\ m' = m
  BY DEF Populate, IInv, TypeOK, PhaseInv, m
<1>2. TextLeft = m - uJ /\ LoopLeft = 0 /\ CallPhase = 1
  BY <1>1 DEF TextLeft, LoopLeft, CallPhase
<1>3. CASE uJ < m /\ uJ' = uJ + 1 /\ pc' = pc
  <2>1. TextLeft' = m - (uJ + 1) /\ CallPhase' = 1
    BY <1>1, <1>3 DEF TextLeft, CallPhase
  <2> QED BY <1>1, <1>2, <2>1 DEF Descends
<1>4. CASE pc' = "idle"
  <2>1. CallPhase' = 0
    BY <1>4 DEF CallPhase
  <2> QED BY <1>1, <1>2, <2>1 DEF Descends
<1> QED BY <1>3, <1>4 DEF Populate

\* The steps that only pass from one phase to a later one.
LEMMA PhasesDescend ==
  ASSUME IInv, Find \/ SaveState \/ SaveStateFails \/ RestoreState
  PROVE  TextLeft \in Nat /\ LoopLeft \in Nat /\ Descends
<1>1. pc \in {"find", "save", "restore"} /\ CallPhase' < CallPhase
  BY DEF Find, SaveState, SaveStateFails, RestoreState, CallPhase
<1>2. TextLeft = 0 /\ LoopLeft = 0
  BY <1>1 DEF TextLeft, LoopLeft
<1> QED BY <1>1, <1>2 DEF Descends

LEMMA TextLeftNat ==
  ASSUME IInv, pc \in Searching
  PROVE  TextLeft \in Nat /\ LoopLeft \in Nat
<1>1. /\ uI \in Nat /\ uPos \in Nat /\ uJ \in Nat /\ lane \in Nat
      /\ m \in Nat /\ cchTextLen \in Nat /\ uLastIdx \in Nat /\ n = cchTextLen - uI
      /\ Lanes \in Nat /\ Stride \in Nat /\ Stride >= 1
  BY SearchFacts, StridePositive
<1>2. pc \in {"block", "lane"} => uI <= cchTextLen
  BY <1>1 DEF IInv, CursorInv, BlockFits
<1>3. pc = "lane" => lane < Lanes
  BY DEF IInv, CursorInv
<1>4. TextLeft \in Nat
  BY <1>1, <1>2 DEF TextLeft, Searching
<1>5. LoopLeft \in Nat
  BY <1>1, <1>3 DEF LoopLeft, Searching
<1> QED BY <1>4, <1>5

InText == {"slide", "window", "automaton"}

\* The window moves on.
LEMMA WindowDescends ==
  ASSUME IInv, pc \in InText, pc' \in InText, uPos < n,
         EngineFrame, UNCHANGED uI, uPos' \in Nat, uPos' > uPos
  PROVE  Descends
<1>1. /\ uPos \in Nat /\ uI \in Nat /\ cchTextLen \in Nat
      /\ n = cchTextLen - uI /\ n' = n /\ n \in Nat
  BY SearchFacts DEF Searching, InText, EngineFrame, call, n
<1>2. TextLeft = n - uPos
  BY DEF TextLeft, InText
<1>3. TextLeft' = IF uPos' < n THEN n - uPos' ELSE 0
  BY <1>1 DEF TextLeft, InText
<1>4. TextLeft' < TextLeft
  <2>1. CASE uPos' < n
    <3>1. TextLeft' = n - uPos'
      BY <1>3, <2>1
    <3>2. n - uPos' < n - uPos
      BY <1>1, FurtherLeavesLess
    <3> QED BY <1>2, <3>1, <3>2, Zenon
  <2>2. CASE ~(uPos' < n)
    BY <1>1, <1>2, <1>3, <2>2
  <2> QED BY <2>1, <2>2
<1>5. CallPhase' = CallPhase
  BY DEF CallPhase, InText
<1> QED BY <1>4, <1>5 DEF Descends

\* The window stays, and its loop goes on.
LEMMA LoopDescends ==
  ASSUME pc \in InText, pc' \in InText, EngineFrame, UNCHANGED <<uI, uPos>>,
         LoopLeft' < LoopLeft
  PROVE  Descends
<1>1. n' = n /\ TextLeft' = TextLeft /\ CallPhase' = CallPhase
  BY DEF n, TextLeft, CallPhase, InText, EngineFrame, call
<1> QED BY <1>1 DEF Descends

LEMMA SlideDescends == ASSUME IInv, Slide PROVE Descends
<1> DEFINE pMatch == IF uPos + uLastIdx < n
                     THEN MemChrFrom(lastChar, uPos + uLastIdx) ELSE -1
<1>1. /\ pc = "slide" /\ pc \in Searching /\ pc \in InText
      /\ EngineFrame /\ UNCHANGED uI
      /\ \/ \E r : ScalarReturn(r)
         \/ pMatch # -1 /\ uPos' = pMatch - uLastIdx + 1 /\ UNCHANGED pc
  BY DEF Slide, EngineFrame, Searching, InText
<1>2. /\ uI \in Nat /\ uPos \in Nat /\ m \in Nat /\ cchTextLen \in Nat
      /\ uLastIdx \in Nat /\ n = cchTextLen - uI /\ uPos + uLastIdx \in Nat
  BY <1>1, SearchFacts
<1>3. CASE \E r : ScalarReturn(r)
  <2>1. CallPhase' < CallPhase
    BY <1>1, <1>3, LeaveEngine DEF ScalarReturn
  <2> QED BY <2>1 DEF Descends
<1>4. CASE pMatch # -1 /\ uPos' = pMatch - uLastIdx + 1 /\ UNCHANGED pc
  <2>1. uPos + uLastIdx < n /\ pMatch = MemChrFrom(lastChar, uPos + uLastIdx)
    BY <1>4
  <2>2. pMatch \in Nat /\ pMatch >= uPos + uLastIdx
    BY <1>1, <1>2, <1>4, <2>1, MemChrFromIsFirst
  <2> HIDE DEF pMatch
  <2>3. uPos' \in Nat /\ uPos' > uPos /\ uPos < n
    BY <1>2, <1>4, <2>1, <2>2
  <2> QED BY <1>1, <1>4, <2>3, WindowDescends
<1> QED BY <1>1, <1>3, <1>4

LEMMA NextLastCharDescends == ASSUME IInv, Window PROVE Descends
<1> DEFINE pMatch == IF uPos <= n - m
                     THEN MemChrFrom(lastChar, uPos + uLastIdx) ELSE -1
<1>1. /\ pc = "window" /\ pc \in Searching /\ pc \in InText
      /\ EngineFrame /\ UNCHANGED uI
      /\ \/ ScalarReturn(-1)
         \/ pMatch # -1 /\ uPos' = pMatch - uLastIdx /\ uJ' = m /\ pc' = "automaton"
  BY DEF Window, EngineFrame, Searching, InText
<1>2. /\ uI \in Nat /\ uPos \in Nat /\ m \in Nat /\ m >= 1 /\ cchTextLen \in Nat
      /\ uLastIdx = m - 1 /\ n = cchTextLen - uI /\ uPos + uLastIdx \in Nat
  BY <1>1, SearchFacts
<1>3. CASE ScalarReturn(-1)
  <2>1. CallPhase' < CallPhase
    BY <1>1, <1>3, LeaveEngine DEF ScalarReturn
  <2> QED BY <2>1 DEF Descends
<1>4. CASE pMatch # -1 /\ uPos' = pMatch - uLastIdx /\ uJ' = m /\ pc' = "automaton"
  <2>1. uPos <= n - m /\ pMatch = MemChrFrom(lastChar, uPos + uLastIdx)
    BY <1>4
  <2>2. pMatch \in Nat /\ pMatch >= uPos + uLastIdx
    BY <1>1, <1>2, <1>4, <2>1, MemChrFromIsFirst
  <2> HIDE DEF pMatch
  <2>3. uPos' \in Nat /\ uPos' >= uPos /\ uPos < n
    BY <1>2, <1>4, <2>1, <2>2
  <2>4. CASE uPos' > uPos
    <3>1. pc' \in InText
      BY <1>4 DEF InText
    <3> QED BY <1>1, <2>3, <2>4, <3>1, WindowDescends
  <2>5. CASE uPos' = uPos
    <3>1. pc' \in InText /\ LoopLeft = m + 1 /\ LoopLeft' = m
      BY <1>1, <1>4 DEF InText, LoopLeft
    <3>2. LoopLeft' < LoopLeft
      BY <1>2, <3>1
    <3> QED BY <1>1, <2>5, <3>1, <3>2, LoopDescends
  <2>6. uPos' > uPos \/ uPos' = uPos
    BY <1>2, <2>3
  <2> QED BY <2>4, <2>5, <2>6
<1> QED BY <1>1, <1>3, <1>4

LEMMA AutomatonDescends == ASSUME IInv, Automaton PROVE Descends
<1>1. /\ pc = "automaton" /\ pc \in Searching /\ pc \in InText
      /\ EngineFrame /\ UNCHANGED uI
      /\ \/ uD = {} /\ NextWindow /\ UNCHANGED uLast
         \/ uD # {} /\ ReadNext
  BY DEF Automaton, EngineFrame, Searching, InText
<1>2. /\ uI \in Nat /\ uPos \in Nat /\ m \in Nat /\ cchTextLen \in Nat
      /\ n = cchTextLen - uI /\ uJ \in Nat
  BY <1>1, SearchFacts
<1>3. uLast \in 1 .. m /\ uPos < n
  <2>1. uI + uPos + m <= cchTextLen /\ m >= 2 /\ uLast \in 1 .. m
    BY <1>1, AutomatonFacts
  <2> QED BY <1>2, <2>1
\* A shift is by uLast as it was before the step.
<1>4. ASSUME NextWindow PROVE Descends
  <2>1. uPos' = uPos + uLast /\ pc' \in InText
    BY <1>4 DEF NextWindow, InText
  <2>2. uPos' \in Nat /\ uPos' > uPos
    BY <1>2, <1>3, <2>1
  <2> QED BY <1>1, <1>3, <2>1, <2>2, WindowDescends
<1>5. CASE uD # {} /\ ReadNext
  <2>1. \/ \E r : ScalarReturn(r)
        \/ NextWindow
        \/ uJ' = uJ - 1 /\ UNCHANGED <<uPos, pc>>
    BY <1>5 DEF ReadNext
  <2>2. CASE \E r : ScalarReturn(r)
    <3>1. CallPhase' < CallPhase
      BY <1>1, <2>2, LeaveEngine DEF ScalarReturn
    <3> QED BY <3>1 DEF Descends
  <2>3. CASE uJ' = uJ - 1 /\ UNCHANGED <<uPos, pc>>
    <3>1. LoopLeft = uJ /\ LoopLeft' = uJ - 1
      BY <1>1, <2>3 DEF LoopLeft
    <3>2. LoopLeft' < LoopLeft
      BY <1>2, <3>1
    <3> QED BY <1>1, <2>3, <3>2, LoopDescends
  <2> QED BY <1>4, <2>1, <2>2, <2>3
<1> QED BY <1>1, <1>4, <1>5

LEMMA ScalarDescends ==
  ASSUME IInv, FindScalar
  PROVE  TextLeft \in Nat /\ LoopLeft \in Nat /\ Descends
<1>0. pc \in Searching
  BY DEF FindScalar, ScalarEntry, Slide, Window, Automaton, Searching
<1>1. TextLeft \in Nat /\ LoopLeft \in Nat
  BY <1>0, TextLeftNat
<1>2. CASE ScalarEntry
  <2>1. CallPhase' < CallPhase
    <3>1. CASE pc' \in {"slide", "window"}
      BY <1>2, <3>1 DEF ScalarEntry, CallPhase
    <3>2. CASE \E r : ScalarReturn(r)
      BY <1>0, <3>2, LeaveEngine DEF ScalarReturn
    <3> QED BY <1>2, <3>1, <3>2 DEF ScalarEntry
  <2> QED BY <1>1, <2>1 DEF Descends
<1> QED
  BY <1>1, <1>2, SlideDescends, NextLastCharDescends, AutomatonDescends DEF FindScalar

\* The block moves on.
LEMMA NextBlockDescends ==
  ASSUME IInv, pc \in {"block", "lane"}, EngineFrame, NextBlock
  PROVE  Descends
<1>1. pc \in Searching
  BY DEF Searching
<1>2. /\ uI \in Nat /\ cchTextLen \in Nat /\ Stride \in Nat /\ Stride >= 1
      /\ cchTextLen' = cchTextLen
  BY <1>1, SearchFacts, StridePositive DEF EngineFrame, call
<1>3. uI' = uI + Stride /\ pc' = "block"
  BY DEF NextBlock
<1>4. TextLeft = cchTextLen - uI /\ TextLeft' = cchTextLen - uI'
  BY <1>2, <1>3 DEF TextLeft
<1>5. CallPhase' = CallPhase
  BY <1>3 DEF CallPhase
<1>6. TextLeft' < TextLeft
  <2>1. uI' \in Nat /\ uI' > uI
    BY <1>2, <1>3
  <2>2. cchTextLen - uI' < cchTextLen - uI
    BY <1>2, <2>1, FurtherLeavesLess
  <2> QED BY <1>4, <2>2, Zenon
<1> QED BY <1>5, <1>6 DEF Descends

LEMMA VectorDescends ==
  ASSUME IInv, FindVector
  PROVE  TextLeft \in Nat /\ LoopLeft \in Nat /\ Descends
<1>0. pc \in {"block", "lane"} /\ pc \in Searching /\ EngineFrame
  BY DEF FindVector, Block, Lane, Tail, Searching, EngineFrame
<1>1. TextLeft \in Nat /\ LoopLeft \in Nat
  BY <1>0, TextLeftNat
<1>2. Lanes \in Nat \ {0} /\ lane \in Nat /\ cchTextLen' = cchTextLen
  BY <1>0, SearchFacts, StridePositive DEF EngineFrame, call
<1>3. CASE Block
  <2>1. CASE pc' = "lane" /\ lane' = 0 /\ UNCHANGED <<uI, result>>
    <3>1. TextLeft' = TextLeft /\ CallPhase' = CallPhase
      BY <1>2, <1>3, <2>1 DEF Block, TextLeft, CallPhase
    <3>2. LoopLeft = Lanes /\ LoopLeft' = Lanes - 1 - 0
      BY <1>2, <1>3, <2>1 DEF Block, LoopLeft
    <3>3. LoopLeft' < LoopLeft
      BY <1>2, <3>2
    <3> QED BY <1>1, <3>1, <3>3 DEF Descends
  <2> QED BY <1>0, <1>1, <1>3, <2>1, NextBlockDescends DEF Block
<1>4. CASE Lane
  <2> DEFINE r == CheckMask(uI + lane * LaneLen + uLastIdx)
  <2>1. CASE Return(r)
    <3>1. CallPhase' < CallPhase
      BY <1>0, <2>1, LeaveEngine
    <3> QED BY <1>1, <3>1 DEF Descends
  <2>2. CASE lane' = lane + 1 /\ UNCHANGED <<uI, pc, result>>
    <3>1. TextLeft' = TextLeft /\ CallPhase' = CallPhase
      BY <1>2, <1>4, <2>2 DEF Lane, TextLeft, CallPhase
    <3>2. LoopLeft = Lanes - 1 - lane /\ LoopLeft' = Lanes - 1 - (lane + 1)
      BY <1>2, <1>4, <2>2 DEF Lane, LoopLeft
    <3>3. LoopLeft' < LoopLeft
      BY <1>2, <3>2
    <3> QED BY <1>1, <3>1, <3>3 DEF Descends
  <2> QED BY <1>0, <1>1, <1>4, <2>1, <2>2, NextBlockDescends DEF Lane
<1>5. CASE Tail
  <2>1. CallPhase' < CallPhase
    <3>1. CASE pc' = "scalar"
      BY <1>0, <3>1 DEF CallPhase
    <3>2. CASE Return(-1)
      BY <1>0, <3>2, LeaveEngine
    <3> QED BY <1>5, <3>1, <3>2 DEF Tail
  <2> QED BY <1>1, <2>1 DEF Descends
<1> QED BY <1>3, <1>4, <1>5 DEF FindVector

\* Whatever the step, if it is one of a call.
LEMMA CallStepDescends == ASSUME TextsFitInt, IInv PROVE StepDescends
<1>1. ASSUME Step
      PROVE  CallPhase \in Nat /\ TextLeft \in Nat /\ LoopLeft \in Nat /\ Descends
  BY <1>1, PhaseType, PopulateDescends, PhasesDescend, ScalarDescends,
     VectorDescends DEF Step
<1> QED BY <1>1 DEF StepDescends

(***************************************************************************)
(* No call runs forever: every step of Initialize and of Find descends in  *)
(* a well-founded order, for every word size, hash, pattern and text.      *)
(***************************************************************************)
THEOREM CallsDescend == TextsFitInt => (Safety => StepsDescend)
<1> SUFFICES ASSUME TextsFitInt PROVE Safety => StepsDescend
  OBVIOUS
<1>1. IInv => [StepDescends]_vars
  BY CallStepDescends
<1>2. Safety => []IInv
  BY Invariance
<1> QED BY <1>1, <1>2, PTL DEF StepsDescend
=============================================================================
