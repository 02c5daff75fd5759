---------------------------- MODULE KmBndmSearch ----------------------------
(***************************************************************************)
(* The experimental searchers CKmBndmSearch8 and CKmBndmSearch16: one      *)
(* object, used by one thread at a time.  Dispatch and the vector engines  *)
(* are those of KmStrSearch without its jumps; FindScalar is backward      *)
(* nondeterministic DAWG matching, a bit-parallel automaton in one machine *)
(* word, and a plain slide for patterns longer than the word.  The classes *)
(* differ in constants: the hash of characters and whether a match of the  *)
(* automaton is verified (16 bit, where characters may collide).           *)
(* Source lines in comments are those of Experimental/KmBndmSearch8.cpp.   *)
(*                                                                         *)
(* A word is the set of its bits that are 1.  A step is one iteration of   *)
(* one loop of the code.                                                   *)
(***************************************************************************)
EXTENDS Matching

CONSTANTS
  Char,             \* characters
  Slot,             \* indices of the mask table
  HashChar,         \* [Char -> Slot]
  FullVerify,       \* the class verifies what the automaton finds
  Patterns,         \* what callers pass to Initialize: <<string, length>>
  Texts,            \* what callers pass to Find, likewise
  IntMax,           \* INT_MAX
  Arch,             \* "x64" or "arm64"
  KernelThreshold,  \* KERNEL_THRESHOLD_CHARS
  MinVectorText,    \* shorter texts leave the vector engine at once
  LaneLen, Lanes,   \* characters in a vector register, registers per block
  WordBits,         \* bits of the automaton's word: 64
  Null,
  MaxInits          \* bound: calls of Initialize on the object

IsString(s) == s[2] \in Nat /\ s[1] \in [0 .. s[2]-1 -> Char]

ASSUME DataAssumption ==
  /\ HashChar \in [Char -> Slot]
  /\ FullVerify \/ \A x, y \in Char : HashChar[x] = HashChar[y] => x = y
  /\ \A p \in Patterns : IsString(p)
  /\ \A t \in Texts : IsString(t)

ASSUME BuildAssumption ==
  /\ Arch \in {"x64", "arm64"}
  /\ IntMax \in Nat /\ KernelThreshold \in Nat /\ MinVectorText \in Nat
  /\ LaneLen \in Nat \ {0} /\ Lanes \in Nat \ {0} /\ WordBits \in Nat \ {0}
  /\ MaxInits \in Nat

SearchEngine == {"Auto", "Scalar", "AVX2", "NEON"}
MAX_BNDM_PATTERN_LEN == WordBits
Word == SUBSET (0 .. WordBits - 1)

ASSUME NullAssumption == Null \notin [Slot -> Word]

Empty == [i \in 0 .. -1 |-> Null]

VARIABLES
  m_Pattern, m_cchPatternLen, m_MaskTable, m_bHasAVX2,
  cpuHasAVX2,       \* what ExIsProcessorFeaturePresent reports; fixed
  poolTables,       \* mask tables allocated from the pool and not freed
  inits,            \* calls of Initialize so far, for the bound MaxInits
  saved,            \* the thread's extended processor state is saved
  pc,
  text, cchTextLen, engine,
  uI,               \* what the vector engine adds to the text FindScalar gets
  lane,             \* register of the current vector iteration
  uPos,             \* FindScalar: start of the window (of the slide: uI)
  uJ, uLast, uD,    \* the automaton; uJ is also Initialize's loop
  result

object == <<m_Pattern, m_cchPatternLen, m_MaskTable, m_bHasAVX2>>
memory == <<poolTables, inits>>
call   == <<text, cchTextLen>>
auto   == <<uPos, uJ, uLast, uD>>

vars == <<object, cpuHasAVX2, memory, saved, pc, call, engine, uI, lane, auto,
          result>>

m        == m_cchPatternLen
uLastIdx == m - 1
lastChar == m_Pattern[uLastIdx]

\* 1ULL << k, w << 1, and ~0ULL.
Bit(k)       == {k} \cap 0 .. WordBits - 1
\* (Mutant: the bit that is shifted out of the word is kept.)
ShiftLeftWide(w) == { b + 1 : b \in w }
ShiftLeft(w) == { b + 1 : b \in w } \cap 0 .. WordBits - 1
AllOnes      == 0 .. WordBits - 1

-----------------------------------------------------------------------------
(***************************************************************************)
(* Construction, Initialize, destruction.                                  *)
(***************************************************************************)
Init ==
  /\ m_Pattern = Empty /\ m_cchPatternLen = 0
  /\ m_MaskTable = Null /\ m_bHasAVX2 = FALSE
  /\ cpuHasAVX2 \in BOOLEAN
  /\ poolTables = 0 /\ inits = 0
  /\ saved = FALSE
  /\ pc = "idle"
  /\ text = Empty /\ cchTextLen = 0 /\ engine = "Auto"
  /\ uI = 0 /\ lane = 0 /\ uPos = 0 /\ uJ = 0 /\ uLast = 0 /\ uD = {}
  /\ result = -1

Rejected(p, len) == p = Null \/ len = 0 \/ len > IntMax

InitializeRejects(p, len) ==
  /\ pc = "idle" /\ inits < MaxInits
  /\ Rejected(p, len)
  /\ inits' = inits + 1
  /\ UNCHANGED <<object, cpuHasAVX2, poolTables, saved, pc, call, engine, uI,
                 lane, auto, result>>

BindPattern(p, len) ==
  /\ pc = "idle" /\ inits < MaxInits
  /\ ~Rejected(p, len)
  /\ inits' = inits + 1
  /\ m_bHasAVX2' = (Arch = "x64" /\ cpuHasAVX2)
  /\ m_Pattern' = p /\ m_cchPatternLen' = len
  /\ UNCHANGED <<cpuHasAVX2, saved, call, engine, uI, lane, auto, result>>

\* A pattern longer than the word needs no table, and without memory there is
\* none; FindScalar slides in both cases.
InitializeWithoutTable(p, len) ==
  /\ BindPattern(p, len)
  /\ m_MaskTable' = Null
  /\ UNCHANGED <<poolTables, pc>>

InitializeAllocates(p, len) ==
  /\ len <= MAX_BNDM_PATTERN_LEN
  /\ BindPattern(p, len)
  /\ m_MaskTable' = [h \in Slot |-> {}]
  /\ poolTables' = poolTables + 1
  /\ pc' = "populate"

\* Mutant: the places are counted from the pattern's beginning.
PopulateForward ==
  /\ pc = "populate"
  /\ \/ /\ uJ < m
        /\ m_MaskTable' = [m_MaskTable EXCEPT
                             ![HashChar[m_Pattern[uJ]]] = @ \cup Bit(uJ)]
        /\ uJ' = uJ + 1 /\ pc' = pc
     \/ /\ uJ >= m
        /\ uJ' = 0 /\ pc' = "idle"
        /\ UNCHANGED m_MaskTable
  /\ UNCHANGED <<m_Pattern, m_cchPatternLen, m_bHasAVX2, cpuHasAVX2, memory,
                 saved, call, engine, uI, lane, uPos, uLast, uD, result>>

\* Bit j of a character's mask: it stands j places before the pattern's end.
\* Masks of characters that collide are merged.
Populate ==
  /\ pc = "populate"
  /\ \/ /\ uJ < m
        /\ m_MaskTable' = [m_MaskTable EXCEPT
                             ![HashChar[m_Pattern[uLastIdx - uJ]]] = @ \cup Bit(uJ)]
        /\ uJ' = uJ + 1 /\ pc' = pc
     \/ /\ uJ >= m
        /\ uJ' = 0 /\ pc' = "idle"
        /\ UNCHANGED m_MaskTable
  /\ UNCHANGED <<m_Pattern, m_cchPatternLen, m_bHasAVX2, cpuHasAVX2, memory,
                 saved, call, engine, uI, lane, uPos, uLast, uD, result>>

Destroy ==
  /\ pc = "idle"
  /\ pc' = "destroyed"
  /\ poolTables' = IF m_MaskTable = Null THEN poolTables ELSE poolTables - 1
  /\ UNCHANGED <<object, cpuHasAVX2, inits, saved, call, engine, uI, lane, auto,
                 result>>

-----------------------------------------------------------------------------
(***************************************************************************)
(* Find: the call, the choice of an engine, and the return.                *)
(***************************************************************************)
Call(t, len, e) ==
  /\ pc = "idle"
  /\ pc' = "find"
  /\ text' = t /\ cchTextLen' = len /\ engine' = e
  /\ UNCHANGED <<object, cpuHasAVX2, memory, saved, uI, lane, auto, result>>

FindKernelUsesVector ==
  /\ cchTextLen > KernelThreshold
  /\ Arch = "x64" => m_bHasAVX2

RunEngineUsesVector ==
  IF Arch = "x64" THEN engine = "AVX2" => m_bHasAVX2 ELSE engine = "NEON"

\* A null text leaves at the same return statement as the empty one.
Find ==
  /\ pc = "find"
  /\ engine' = "Auto"                   \* not looked at again in this call
  /\ \/ /\ m = 0 \/ cchTextLen < m
        /\ pc' = "done"
     \/ /\ ~(m = 0 \/ cchTextLen < m)
        /\ pc' = IF \/ engine = "Auto" /\ FindKernelUsesVector
                    \/ engine \in {"AVX2", "NEON"} /\ RunEngineUsesVector
                 THEN "save" ELSE "scalar"
  /\ UNCHANGED <<object, cpuHasAVX2, memory, saved, call, uI, lane, auto, result>>

SaveState ==
  /\ pc = "save"
  /\ saved' = TRUE
  /\ pc' = IF cchTextLen < MinVectorText \/ m < 2 THEN "scalar" ELSE "block"
  /\ UNCHANGED <<object, cpuHasAVX2, memory, call, engine, uI, lane, auto, result>>

SaveStateFails ==
  /\ pc = "save"
  /\ pc' = "scalar"
  /\ UNCHANGED <<object, cpuHasAVX2, memory, saved, call, engine, uI, lane, auto,
                 result>>

\* A return statement of an engine.
Return(r) ==
  /\ result' = r
  /\ pc' = IF saved THEN "restore" ELSE "done"

RestoreState ==
  /\ pc = "restore"
  /\ saved' = FALSE
  /\ pc' = "done"
  /\ UNCHANGED <<object, cpuHasAVX2, memory, call, engine, uI, lane, auto, result>>

\* The caller has its answer; the locals of the call are gone.
TakeResult ==
  /\ pc = "done"
  /\ pc' = "idle"
  /\ text' = Empty /\ cchTextLen' = 0
  /\ uI' = 0 /\ lane' = 0 /\ uPos' = 0 /\ uJ' = 0 /\ uLast' = 0 /\ uD' = {}
  /\ result' = -1
  /\ UNCHANGED <<object, cpuHasAVX2, memory, saved, engine>>

-----------------------------------------------------------------------------
(***************************************************************************)
(* FindScalar(Text + uI, cchTextLen - uI).                                 *)
(***************************************************************************)
n     == cchTextLen - uI
At(k) == text[uI + k]

ScalarReturn(r) ==
  LET iTailRes == ToInt(r, IntMax)
  IN  Return(IF iTailRes = -1 THEN -1 ELSE ToInt(uI + iTailRes, IntMax))

\* MemChrScalar on the text from offset k of FindScalar's text.
MemChrFrom(c, k) ==
  LET p == MemChr(text, c, uI + k, cchTextLen)
  IN  IF p = -1 THEN -1 ELSE p - uI

ScalarEntry ==
  /\ pc = "scalar"
  /\ \/ n < m /\ ScalarReturn(-1)
     \/ n >= m /\ m = 1 /\ ScalarReturn(MemChrFrom(m_Pattern[0], 0))
     \/ /\ n >= m /\ m # 1
        /\ pc' = IF m > MAX_BNDM_PATTERN_LEN \/ m_MaskTable = Null
                 THEN "slide" ELSE "window"
        /\ UNCHANGED result
  /\ UNCHANGED <<object, cpuHasAVX2, memory, saved, call, engine, uI, lane, auto>>

\* The slide: from one last character of the pattern to the next.
Slide ==
  /\ pc = "slide"
  /\ LET pMatch      == IF uPos + uLastIdx < n
                        THEN MemChrFrom(lastChar, uPos + uLastIdx) ELSE -1
         startOffset == pMatch - uLastIdx
         matches     == /\ At(startOffset) = m_Pattern[0]
                        /\ VerifyMiddleMatch(text, uI + startOffset, m_Pattern, m)
     IN  \/ pMatch = -1 /\ ScalarReturn(-1) /\ UNCHANGED uPos
         \/ pMatch # -1 /\ matches /\ ScalarReturn(startOffset) /\ UNCHANGED uPos
         \/ /\ pMatch # -1 /\ ~matches
            /\ uPos' = startOffset + 1
            /\ UNCHANGED <<pc, result>>
  /\ UNCHANGED <<object, cpuHasAVX2, memory, saved, call, engine, uI, lane, uJ,
                 uLast, uD>>

\* The next window ends at the next last character of the pattern, or there
\* is none.
Window ==
  /\ pc = "window"
  /\ LET pMatch == IF uPos <= n - m
                   THEN MemChrFrom(lastChar, uPos + uLastIdx) ELSE -1
     IN  IF pMatch = -1
         THEN ScalarReturn(-1) /\ UNCHANGED auto
         ELSE /\ uPos' = pMatch - uLastIdx
              /\ uJ' = m /\ uLast' = m /\ uD' = AllOnes
              /\ pc' = "automaton"
              /\ UNCHANGED result
  /\ UNCHANGED <<object, cpuHasAVX2, memory, saved, call, engine, uI, lane>>

\* Mutant: the window stays where it is.
NextWindowStays == uPos' = uPos /\ uD' = {} /\ pc' = "window"

\* The automaton is empty or a match was refuted: on to the next window.
NextWindow == uPos' = uPos + uLast /\ uD' = {} /\ pc' = "window"

\* Mutant: the jump goes one past the prefix that was found.
ReadNextFar ==
  LET j   == uJ - 1
      d   == uD \cap m_MaskTable[HashChar[At(uPos + j)]]
      hit == uLastIdx \in d
  IN  /\ uJ' = j
      /\ uLast' = IF hit THEN j + 1 ELSE uLast
      /\ \/ /\ hit /\ j = 0
            /\ IF FullVerify => OccursAt(text, m_Pattern, m, uI + uPos)
               THEN ScalarReturn(uPos) /\ UNCHANGED <<uPos, uD>>
               ELSE NextWindow /\ UNCHANGED result
         \/ /\ ~(hit /\ j = 0)
            /\ uD' = ShiftLeft(d)
            /\ UNCHANGED <<uPos, pc, result>>

\* The window's next character, from the right.  A set prefix bit says that
\* what has been read begins the pattern: all of it, or a place to jump to.
ReadNext ==
  LET j   == uJ - 1
      d   == uD \cap m_MaskTable[HashChar[At(uPos + j)]]
      hit == uLastIdx \in d
  IN  /\ uJ' = j
      /\ uLast' = IF hit /\ j # 0 THEN j ELSE uLast
      /\ \/ /\ hit /\ j = 0
            /\ IF FullVerify => OccursAt(text, m_Pattern, m, uI + uPos)
               THEN ScalarReturn(uPos) /\ UNCHANGED <<uPos, uD>>
               ELSE NextWindow /\ UNCHANGED result
         \/ /\ ~(hit /\ j = 0)
            /\ uD' = ShiftLeft(d)
            /\ UNCHANGED <<uPos, pc, result>>

Automaton ==
  /\ pc = "automaton"
  /\ IF uD = {}
     THEN NextWindow /\ UNCHANGED <<uJ, uLast, result>>
     ELSE ReadNext
  /\ UNCHANGED <<object, cpuHasAVX2, memory, saved, call, engine, uI, lane>>

-----------------------------------------------------------------------------
(***************************************************************************)
(* FindAVX2 and FindNEON: blocks of lanes, without jumps.                  *)
(***************************************************************************)
Stride == Lanes * LaneLen

\* Mutant: the lane's last match is returned instead of its first.
CheckMaskLast(o) ==
  LET hits == { s \in o - uLastIdx .. o - uLastIdx + LaneLen - 1 :
                  /\ text[s + uLastIdx] = lastChar /\ text[s] = m_Pattern[0]
                  /\ VerifyMiddleMatch(text, s, m_Pattern, m) }
  IN  IF hits = {} THEN -1 ELSE ToInt(Max(hits), IntMax)

\* The first set bit of the mask of the register loaded at offset o at which
\* the whole pattern ends.
CheckMask(o) ==
  ToInt(First({ s \in o - uLastIdx .. o - uLastIdx + LaneLen - 1 :
                  /\ text[s + uLastIdx] = lastChar /\ text[s] = m_Pattern[0]
                  /\ VerifyMiddleMatch(text, s, m_Pattern, m) }), IntMax)

BlockFits == uI + (Stride - 1) + uLastIdx < cchTextLen

NextBlock ==
  /\ uI' = uI + Stride
  /\ lane' = 0
  /\ pc' = "block"
  /\ UNCHANGED result

Block ==
  /\ pc = "block"
  /\ BlockFits
  /\ IF \E o \in 0 .. Stride - 1 : text[uI + uLastIdx + o] = lastChar
     THEN pc' = "lane" /\ lane' = 0 /\ UNCHANGED <<uI, result>>
     ELSE NextBlock
  /\ UNCHANGED <<object, cpuHasAVX2, memory, saved, call, engine, auto>>

\* Mutant: one register more than the block has.
LaneTooMany ==
  /\ pc = "lane"
  /\ LET iResult == CheckMask(uI + lane * LaneLen + uLastIdx)
     IN  \/ iResult # -1 /\ Return(iResult) /\ UNCHANGED <<uI, lane>>
         \/ /\ iResult = -1 /\ lane + 1 <= Lanes
            /\ lane' = lane + 1
            /\ UNCHANGED <<uI, pc, result>>
         \/ iResult = -1 /\ lane + 1 > Lanes /\ NextBlock
  /\ UNCHANGED <<object, cpuHasAVX2, memory, saved, call, engine, auto>>

Lane ==
  /\ pc = "lane"
  /\ LET iResult == CheckMask(uI + lane * LaneLen + uLastIdx)
     IN  \/ iResult # -1 /\ Return(iResult) /\ UNCHANGED <<uI, lane>>
         \/ /\ iResult = -1 /\ lane + 1 < Lanes
            /\ lane' = lane + 1
            /\ UNCHANGED <<uI, pc, result>>
         \/ iResult = -1 /\ lane + 1 >= Lanes /\ NextBlock
  /\ UNCHANGED <<object, cpuHasAVX2, memory, saved, call, engine, auto>>

Tail ==
  /\ pc = "block"
  /\ ~BlockFits
  /\ IF uI < cchTextLen
     THEN pc' = "scalar" /\ UNCHANGED result
     ELSE Return(-1)
  /\ UNCHANGED <<object, cpuHasAVX2, memory, saved, call, engine, uI, lane, auto>>

-----------------------------------------------------------------------------
Initialize(p, len) == \/ InitializeRejects(p, len)
                      \/ InitializeWithoutTable(p, len)
                      \/ InitializeAllocates(p, len)

FindScalar == ScalarEntry \/ Slide \/ Window \/ Automaton
FindVector == Block \/ Lane \/ Tail

Step == \/ Populate \/ Find \/ SaveState \/ SaveStateFails
        \/ FindScalar \/ FindVector \/ RestoreState

Terminated == pc = "destroyed" /\ UNCHANGED vars

Next ==
  \/ \E p \in Patterns : Initialize(p[1], p[2])
  \/ InitializeRejects(Null, 1)
  \/ \E t \in Texts, e \in SearchEngine : Call(t[1], t[2], e)
  \/ Step
  \/ TakeResult
  \/ Destroy
  \/ Terminated

Safety == Init /\ [][Next]_vars
Spec == Safety /\ WF_vars(Step)

-----------------------------------------------------------------------------
(***************************************************************************)
(* What is claimed of the experimental searchers.                          *)
(***************************************************************************)
PCs == {"idle", "populate", "find", "save", "block", "lane", "scalar", "slide",
        "window", "automaton", "restore", "done", "destroyed"}

(***************************************************************************)
(* Every variable stays in its type; uJ never wraps below 0.               *)
(***************************************************************************)
TypeOK ==
  /\ m_cchPatternLen \in Nat /\ m_Pattern \in [0 .. m-1 -> Char]
  /\ m_MaskTable \in [Slot -> Word] \cup {Null}
  /\ m_bHasAVX2 \in BOOLEAN /\ cpuHasAVX2 \in BOOLEAN
  /\ poolTables \in Nat /\ inits \in 0 .. MaxInits
  /\ saved \in BOOLEAN
  /\ pc \in PCs
  /\ cchTextLen \in Nat /\ text \in [0 .. cchTextLen-1 -> Char]
  /\ engine \in SearchEngine
  /\ uI \in Nat /\ lane \in Nat /\ uPos \in Nat
  /\ uJ \in Nat /\ uLast \in Nat /\ uD \in Word
  /\ result \in Int

(***************************************************************************)
(* Whatever engine was asked for and whichever the code fell back to, also *)
(* after an Initialize that got no table, Find returns what the naive      *)
(* matcher returns.                                                        *)
(***************************************************************************)
FindIsFirstMatch ==
  pc = "done" => result = BasicOffset(text, cchTextLen, m_Pattern, m)

(***************************************************************************)
(* No window, jump or block passes over an occurrence.                     *)
(***************************************************************************)
NoneBefore(k) == \A s \in 0 .. cchTextLen - m : s < k => ~OccursAt(text, m_Pattern, m, s)

NothingSkipped ==
  /\ pc \in {"block", "scalar"} => NoneBefore(uI)
  /\ pc = "lane" => NoneBefore(uI + lane * LaneLen)
  /\ pc \in {"slide", "window", "automaton"} => NoneBefore(uI + uPos)

(***************************************************************************)
(* The automaton computes what it is for: after the window's last k        *)
(* characters have been read, bit b + 1 is set exactly if what was read    *)
(* occurs in the pattern (up to colliding characters) from the character b *)
(* places before the end on; and uLast is the shortest shift after which   *)
(* the pattern could begin inside the window.                              *)
(***************************************************************************)
\* The last k characters of the window of t at w are, up to collisions, the k
\* characters of p that begin b places before its end.
Factor(t, w, p, len, k, b) ==
  \A i \in 0 .. k-1 :
    HashChar[t[w + (len - k) + i]] = HashChar[p[(len - 1 - b) + i]]

\* The word when k characters of the window have been read, and the least shift
\* of the window that a prefix of p among them allows.
WordAfter(t, w, p, len, k) ==
  { b + 1 : b \in { x \in k-1 .. len-1 : Factor(t, w, p, len, k, x) } }
    \cap 0 .. WordBits - 1
ShiftAfter(t, w, p, len, k) ==
  LET prefixes == { j \in 1 .. len-1 :
                      len - k <= j /\ Factor(t, w, p, len, len - j, len - 1) }
  IN  IF prefixes = {} THEN len ELSE Min(prefixes)

AutomatonExact ==
  pc = "automaton" =>
    LET k == m - uJ
    IN  /\ uLast = ShiftAfter(text, uI + uPos, m_Pattern, m, k)
        /\ k > 0 => uD = WordAfter(text, uI + uPos, m_Pattern, m, k)

(***************************************************************************)
(* What the next step reads is inside its buffer: the automaton stops      *)
(* before uJ wraps below 0, and no vector load crosses the text's end.     *)
(***************************************************************************)
ReadsInBounds ==
  /\ pc = "automaton" => uI + uPos + m <= cchTextLen /\ (uD # {} => uJ >= 1)
  /\ pc = "lane" => lane < Lanes /\ uI + (Stride - 1) + uLastIdx < cchTextLen
  /\ pc \in {"block", "scalar"} => uI <= cchTextLen

(***************************************************************************)
(* Every step of a call is one towards its end: the phases of a call       *)
(* follow each other; inside one, what is left of the text shrinks, or     *)
(* what is left of the inner loop while the text's rest stays.  The hazard *)
(* is a shift of 0, and an automaton that does not stop.                   *)
(***************************************************************************)
CallPhase ==
  CASE pc = "find" -> 6
    [] pc = "save" -> 5
    [] pc \in {"block", "lane"} -> 4
    [] pc = "scalar" -> 3
    [] pc \in {"slide", "window", "automaton"} -> 2
    [] pc \in {"populate", "restore"} -> 1
    [] OTHER -> 0

TextLeft ==
  CASE pc = "populate" -> m - uJ
    [] pc \in {"block", "lane"} -> cchTextLen - uI
    [] pc \in {"slide", "window", "automaton"} /\ uPos < n -> n - uPos
    [] OTHER -> 0

LoopLeft ==
  CASE pc = "block" -> Lanes
    [] pc = "lane" -> Lanes - 1 - lane
    [] pc = "window" -> m + 1
    [] pc = "automaton" -> uJ
    [] OTHER -> 0

Descends ==
  \/ CallPhase' < CallPhase
  \/ CallPhase' = CallPhase /\ TextLeft' < TextLeft
  \/ CallPhase' = CallPhase /\ TextLeft' = TextLeft /\ LoopLeft' < LoopLeft

StepDescends ==
  Step => CallPhase \in Nat /\ TextLeft \in Nat /\ LoopLeft \in Nat /\ Descends

StepsDescend == [][StepDescends]_vars

(***************************************************************************)
(* The searcher implements StringFinder, like the stable one.              *)
(***************************************************************************)
FinderPhase ==
  CASE pc \in {"idle", "populate"} -> "idle"
    [] pc = "done" -> "answered"
    [] pc = "destroyed" -> "destroyed"
    [] OTHER -> "searching"

Finder == INSTANCE StringFinder WITH
  NoString   <- Empty,
  phase      <- FinderPhase,
  pattern    <- m_Pattern,
  patternLen <- m_cchPatternLen,
  textLen    <- cchTextLen,
  answer     <- IF pc = "done" THEN result ELSE -1

ImplementsFinder == Finder!Spec

-----------------------------------------------------------------------------
(***************************************************************************)
(* The inductive invariant behind FindIsFirstMatch.  TypeOK,               *)
(* NothingSkipped and AutomatonExact say where the search is; the parts    *)
(* below say why its next move is safe.                                    *)
(***************************************************************************)

\* The extended state is saved while vector code, or the scalar code that it
\* falls back to, is running.
XStateBalanced ==
  /\ pc \in {"block", "lane", "restore"} => saved
  /\ saved => pc \in {"block", "lane", "scalar", "slide", "window", "automaton",
                     "restore"}

\* What the object and the locals look like between and during calls.
PhaseInv ==
  /\ cchTextLen <= IntMax
  /\ pc \in {"idle", "populate", "destroyed"} => text = Empty /\ cchTextLen = 0
  /\ pc \in {"idle", "populate", "find", "save", "destroyed"} => result = -1 /\ uI = 0
  /\ pc \in {"idle", "populate", "find", "save", "block", "lane", "scalar"} => uPos = 0
  /\ pc = "idle" => uJ = 0
  /\ pc = "populate" => m_MaskTable # Null /\ uJ <= m
  /\ m_MaskTable # Null => m \in 1 .. WordBits /\ (pc # "destroyed" => poolTables >= 1)
  /\ pc \in {"save", "block", "lane", "scalar", "slide", "window", "automaton"} =>
       m \in 1 .. cchTextLen
  /\ pc \in {"block", "lane", "slide", "window", "automaton"} => m >= 2
  /\ pc = "scalar" /\ m < 2 => uI = 0
  /\ pc \in {"window", "automaton"} => m_MaskTable # Null

\* A slot's mask has one bit for each place, counted from the pattern's end, of
\* a character of this slot among the `seen` last.
MaskInv ==
  m_MaskTable # Null =>
    LET seen == IF pc = "populate" THEN uJ ELSE m
    IN  \A h \in Slot :
          m_MaskTable[h] = { j \in 0 .. seen - 1 : HashChar[m_Pattern[uLastIdx - j]] = h }

\* Where the cursors may be, and what AutomatonExact does not say: the word is
\* full before the first character, and a window read to its start without an
\* answer is not the pattern.
CursorInv ==
  /\ pc \in {"block", "scalar"} => uI <= cchTextLen
  /\ pc = "lane" => BlockFits /\ lane < Lanes
  /\ pc = "automaton" =>
       /\ uI + uPos + m <= cchTextLen /\ uJ <= m
       /\ uJ = m => uD = AllOnes
       /\ uJ = 0 => ~Factor(text, uI + uPos, m_Pattern, m, m, uLastIdx)

\* The answer is the first match from the return statement on.
AnswerInv ==
  pc \in {"restore", "done"} =>
    result = BasicOffset(text, cchTextLen, m_Pattern, m)

IInv == /\ TypeOK /\ XStateBalanced /\ PhaseInv /\ MaskInv /\ CursorInv
        /\ AutomatonExact /\ NothingSkipped /\ AnswerInv
=============================================================================
