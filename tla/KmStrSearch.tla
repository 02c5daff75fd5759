---------------------------- MODULE KmStrSearch ----------------------------
(***************************************************************************)
(* The Boyer-Moore-Horspool searchers CKmStrSearch8 and CKmStrSearch16:    *)
(* one object, used by one thread at a time, from construction to          *)
(* destruction.  The two classes run the same algorithm; what differs is a *)
(* constant here: the character type, the hash that indexes the skip       *)
(* table, the size of a vector register in characters, and how many bits   *)
(* of a move mask stand for one character.  The same holds for FindAVX2    *)
(* and FindNEON, which differ in the number and the size of their lanes.   *)
(* Source lines in comments are those of StrSearch/KmStrSearch8.cpp.       *)
(*                                                                         *)
(* A step is one iteration of one loop of the code.  A call that only      *)
(* reads a stretch of memory (MemChrScalar, VerifyMiddleMatch, the scan of *)
(* one lane's mask) is part of the step that makes it.                     *)
(***************************************************************************)
EXTENDS Matching

CONSTANTS
  Char,             \* characters
  Slot,             \* indices of the skip table: TABLE_SIZE, HASH_TABLE_SIZE
  HashChar,         \* [Char -> Slot]: the cast to unsigned char, or HashChar
  Patterns,         \* what callers pass to Initialize: <<string, length>>
  Texts,            \* what callers pass to Find, likewise
  IntMax,           \* INT_MAX
  Arch,             \* the architecture of the build: "x64" or "arm64"
  KernelThreshold,  \* KERNEL_THRESHOLD_CHARS
  MinVectorText,    \* shorter texts leave the vector engine at once (459)
  LongPattern,      \* from this length on the vector engine jumps (502)
  LaneLen,          \* characters in a vector register
  ShortLanes,       \* registers per iteration of the short-pattern loop
  LongLanes,        \* registers per iteration of the long-pattern loop
  MaskBits,         \* bits of the move mask per character
  Null,             \* the null pointer
  MaxInits          \* bound: calls of Initialize on the object

IsString(s) == s[2] \in Nat /\ s[1] \in [0 .. s[2]-1 -> Char]

ASSUME DataAssumption ==
  /\ HashChar \in [Char -> Slot]
  /\ \A p \in Patterns : IsString(p)
  /\ \A t \in Texts : IsString(t)

ASSUME BuildAssumption ==
  /\ Arch \in {"x64", "arm64"}
  /\ IntMax \in Nat /\ KernelThreshold \in Nat
  /\ MinVectorText \in Nat /\ LongPattern \in Nat
  /\ LaneLen \in Nat \ {0} /\ ShortLanes \in Nat \ {0} /\ LongLanes \in Nat \ {0}
  /\ MaskBits \in {1, 2}
  /\ MaxInits \in Nat

ASSUME NullAssumption == Null \notin [Slot -> Nat]

SearchEngine == {"Auto", "Scalar", "AVX2", "NEON"}

Empty == [i \in 0 .. -1 |-> Null]

VARIABLES
  \* The object.
  m_Pattern, m_cchPatternLen, m_SkipTable, m_bHasAVX2,
  \* Its surroundings.
  cpuHasAVX2,       \* what ExIsProcessorFeaturePresent reports; fixed
  poolTables,       \* skip tables allocated from the paged pool and not freed
  inits,            \* calls of Initialize so far, for the bound MaxInits
  saved,            \* the thread's extended processor state is saved
  \* The call in progress.
  pc,
  text, cchTextLen, engine,
  uI,               \* Initialize: its loop; Find: offset of the vector loop, and
                    \* what FindVector adds to the text it gives FindScalar
  lane,             \* register of the current vector iteration
  uK, uJ,           \* FindScalar's window end and pattern index
  result            \* what the call returns

object == <<m_Pattern, m_cchPatternLen, m_SkipTable, m_bHasAVX2>>
memory == <<poolTables, inits>>
call   == <<text, cchTextLen>>
cursor == <<uI, lane, uK, uJ>>

vars == <<object, cpuHasAVX2, memory, saved, pc, call, engine, cursor, result>>

uLastIdx == m_cchPatternLen - 1
lastChar == m_Pattern[uLastIdx]

Skip(c) == m_SkipTable[HashChar[c]]

-----------------------------------------------------------------------------
(***************************************************************************)
(* Construction, Initialize, destruction.                                  *)
(***************************************************************************)
Init ==
  /\ m_Pattern = Empty /\ m_cchPatternLen = 0
  /\ m_SkipTable = Null /\ m_bHasAVX2 = FALSE
  /\ cpuHasAVX2 \in BOOLEAN
  /\ poolTables = 0 /\ inits = 0
  /\ saved = FALSE
  /\ pc = "idle"
  /\ text = Empty /\ cchTextLen = 0 /\ engine = "Auto"
  /\ uI = 0 /\ lane = 0 /\ uK = 0 /\ uJ = 0
  /\ result = -1

\* A null pattern, an empty one, and one too long for the int skips.
Rejected(p, m) == p = Null \/ m = 0 \/ m > IntMax

InitializeRejects(p, m) ==
  /\ pc = "idle" /\ inits < MaxInits
  /\ Rejected(p, m)
  /\ inits' = inits + 1
  /\ UNCHANGED <<object, cpuHasAVX2, poolTables, saved, pc, call, engine,
                 cursor, result>>

\* The members are assigned before the pool is asked for the table.
BindPattern(p, m) ==
  /\ pc = "idle" /\ inits < MaxInits
  /\ ~Rejected(p, m)
  /\ inits' = inits + 1
  /\ m_bHasAVX2' = (Arch = "x64" /\ cpuHasAVX2)
  /\ m_Pattern' = p /\ m_cchPatternLen' = m
  /\ UNCHANGED <<cpuHasAVX2, saved, call, engine, cursor, result>>

InitializeAllocates(p, m) ==
  /\ BindPattern(p, m)
  /\ m_SkipTable' = [h \in Slot |-> m]
  /\ poolTables' = poolTables + 1
  /\ pc' = "populate"

InitializeOutOfMemory(p, m) ==
  /\ BindPattern(p, m)
  /\ m_SkipTable' = Null
  /\ UNCHANGED <<poolTables, pc>>

\* Mutant: the loop runs over the last character too.
PopulateLast ==
  /\ pc = "populate"
  /\ \/ /\ uI <= uLastIdx
        /\ m_SkipTable' = [m_SkipTable EXCEPT
                              ![HashChar[m_Pattern[uI]]] = uLastIdx - uI]
        /\ uI' = uI + 1
        /\ pc' = pc
     \/ /\ uI > uLastIdx
        /\ uI' = 0
        /\ pc' = "idle"
        /\ UNCHANGED m_SkipTable
  /\ UNCHANGED <<m_Pattern, m_cchPatternLen, m_bHasAVX2, cpuHasAVX2, memory,
                 saved, call, engine, lane, uK, uJ, result>>

\* Rightmost takes precedence: later characters overwrite earlier ones, and
\* the last one is left out.
Populate ==
  /\ pc = "populate"
  /\ \/ /\ uI < uLastIdx
        /\ m_SkipTable' = [m_SkipTable EXCEPT
                              ![HashChar[m_Pattern[uI]]] = uLastIdx - uI]
        /\ uI' = uI + 1
        /\ pc' = pc
     \/ /\ uI >= uLastIdx
        /\ uI' = 0
        /\ pc' = "idle"
        /\ UNCHANGED m_SkipTable
  /\ UNCHANGED <<m_Pattern, m_cchPatternLen, m_bHasAVX2, cpuHasAVX2, memory,
                 saved, call, engine, lane, uK, uJ, result>>

\* Mutant: a destructor that leaves the table to the pool.
DestroyKeepsTable ==
  /\ pc = "idle"
  /\ pc' = "destroyed"
  /\ UNCHANGED <<object, cpuHasAVX2, memory, saved, call, engine, cursor, result>>

Destroy ==
  /\ pc = "idle"
  /\ pc' = "destroyed"
  /\ poolTables' = IF m_SkipTable = Null THEN poolTables ELSE poolTables - 1
  /\ UNCHANGED <<object, cpuHasAVX2, inits, saved, call, engine, cursor, result>>

-----------------------------------------------------------------------------
(***************************************************************************)
(* Find: the call, and the choice of an engine.                            *)
(***************************************************************************)

\* A caller may ask unless the last Initialize ran out of memory: an object
\* without a pattern answers -1, one with a pattern needs its table.
Usable == m_cchPatternLen = 0 \/ m_SkipTable # Null

Call(t, n, e) ==
  /\ pc = "idle" /\ Usable
  /\ pc' = "find"
  /\ text' = t /\ cchTextLen' = n /\ engine' = e
  /\ UNCHANGED <<object, cpuHasAVX2, memory, saved, cursor, result>>

\* FindKernel's choice for Auto: RunEngineWithSafety gets the text.
FindKernelUsesVector ==
  /\ cchTextLen > KernelThreshold
  /\ Arch = "x64" => m_bHasAVX2

\* RunEngineWithSafety's test before it saves the extended state.  On x64 it
\* is made for AVX2 only: a request for NEON is not AVX2 and passes.
RunEngineUsesVector ==
  IF Arch = "x64" THEN engine = "AVX2" => m_bHasAVX2 ELSE engine = "NEON"

\* A null text leaves at the same return statement as the empty one.
Find ==
  /\ pc = "find"
  /\ engine' = "Auto"                   \* not looked at again in this call
  /\ \/ /\ m_cchPatternLen = 0 \/ cchTextLen < m_cchPatternLen
        /\ pc' = "done"
     \/ /\ ~(m_cchPatternLen = 0 \/ cchTextLen < m_cchPatternLen)
        /\ pc' = IF \/ engine = "Auto" /\ FindKernelUsesVector
                    \/ engine \in {"AVX2", "NEON"} /\ RunEngineUsesVector
                 THEN "save" ELSE "scalar"
  /\ UNCHANGED <<object, cpuHasAVX2, memory, saved, call, cursor, result>>

\* The extended state is saved and the vector engine entered, which leaves
\* short texts and single characters to FindScalar; or the kernel refuses.
SaveState ==
  /\ pc = "save"
  /\ saved' = TRUE
  /\ pc' = IF cchTextLen < MinVectorText \/ m_cchPatternLen < 2
           THEN "scalar" ELSE "block"
  /\ UNCHANGED <<object, cpuHasAVX2, memory, call, engine, cursor, result>>

SaveStateFails ==
  /\ pc = "save"
  /\ pc' = "scalar"
  /\ UNCHANGED <<object, cpuHasAVX2, memory, saved, call, engine, cursor, result>>

\* Mutant: an engine's return that forgets the restore.
ReturnUnrestored(r) == result' = r /\ pc' = "done"

\* A return statement of an engine: through the restore of the extended
\* state if it was saved.
Return(r) ==
  /\ result' = r
  /\ pc' = IF saved THEN "restore" ELSE "done"

RestoreState ==
  /\ pc = "restore"
  /\ saved' = FALSE
  /\ pc' = "done"
  /\ UNCHANGED <<object, cpuHasAVX2, memory, call, engine, cursor, result>>

\* The caller has its answer; the locals of the call are gone.
TakeResult ==
  /\ pc = "done"
  /\ pc' = "idle"
  /\ text' = Empty /\ cchTextLen' = 0
  /\ uI' = 0 /\ lane' = 0 /\ uK' = 0 /\ uJ' = 0
  /\ result' = -1
  /\ UNCHANGED <<object, cpuHasAVX2, memory, saved, engine>>

-----------------------------------------------------------------------------
(***************************************************************************)
(* FindScalar(Text + uI, cchTextLen - uI).  It returns an int offset into  *)
(* what it was given; the vector engine adds uI to it and casts once more. *)
(* Without the vector engine uI is 0 and the second cast changes nothing.  *)
(***************************************************************************)
ScalarReturn(r) ==
  LET iTailRes == ToInt(r, IntMax)
  IN  Return(IF iTailRes = -1 THEN -1 ELSE ToInt(uI + iTailRes, IntMax))

\* MemChrScalar on the text from offset k of FindScalar's text.
MemChrFrom(c, k) ==
  LET p == MemChr(text, c, uI + k, cchTextLen)
  IN  IF p = -1 THEN -1 ELSE p - uI

ScalarEntry ==
  /\ pc = "scalar"
  /\ IF m_cchPatternLen = 1
     THEN /\ ScalarReturn(MemChrFrom(m_Pattern[0], 0))
          /\ uK' = uK
     ELSE /\ uK' = uLastIdx
          /\ pc' = "scan"
          /\ UNCHANGED result
  /\ UNCHANGED <<object, cpuHasAVX2, memory, saved, call, engine, uI, lane, uJ>>

\* The window moved past the end of the text.
ScanEnds ==
  /\ pc = "scan"
  /\ uK >= cchTextLen - uI
  /\ ScalarReturn(-1)
  /\ UNCHANGED <<object, cpuHasAVX2, memory, saved, call, engine, cursor>>

\* The window's last character differs.  A poor skip is replaced by a search
\* for the pattern's last character.
ScanSkips ==
  /\ pc = "scan"
  /\ uK < cchTextLen - uI
  /\ text[uI + uK] # lastChar
  /\ LET skip  == Skip(text[uI + uK])
         match == MemChrFrom(lastChar, uK + 1)
     IN  \/ skip <= 2 /\ match = -1 /\ ScalarReturn(-1) /\ uK' = uK
         \/ skip <= 2 /\ match # -1 /\ uK' = match /\ UNCHANGED <<pc, result>>
         \/ skip > 2 /\ uK' = uK + skip /\ UNCHANGED <<pc, result>>
  /\ UNCHANGED <<object, cpuHasAVX2, memory, saved, call, engine, uI, lane, uJ>>

\* Mutant: the comparison starts one character too far left.
ScanVerifiesLate ==
  /\ pc = "scan"
  /\ uK < cchTextLen - uI
  /\ text[uI + uK] = lastChar
  /\ uJ' = uLastIdx - 2
  /\ pc' = "verify"
  /\ UNCHANGED <<object, cpuHasAVX2, memory, saved, call, engine, uI, lane, uK,
                 result>>

\* The window's last character agrees: compare backwards from the one before.
ScanVerifies ==
  /\ pc = "scan"
  /\ uK < cchTextLen - uI
  /\ text[uI + uK] = lastChar
  /\ uJ' = uLastIdx - 1
  /\ pc' = "verify"
  /\ UNCHANGED <<object, cpuHasAVX2, memory, saved, call, engine, uI, lane, uK,
                 result>>

\* The text index of the comparison (the code's second uI) falls with uJ.
VerifyIdx == uK - (uLastIdx - uJ)

Verify ==
  /\ pc = "verify"
  /\ \/ /\ text[uI + VerifyIdx] = m_Pattern[uJ]
        /\ uJ = 0
        /\ ScalarReturn(VerifyIdx)
        /\ UNCHANGED <<uK, uJ>>
     \/ /\ text[uI + VerifyIdx] = m_Pattern[uJ]
        /\ uJ # 0
        /\ uJ' = uJ - 1
        /\ UNCHANGED <<pc, result, uK>>
     \/ /\ text[uI + VerifyIdx] # m_Pattern[uJ]
        /\ uK' = uK + Skip(lastChar)
        /\ uJ' = 0
        /\ pc' = "scan"
        /\ UNCHANGED result
  /\ UNCHANGED <<object, cpuHasAVX2, memory, saved, call, engine, uI, lane>>

-----------------------------------------------------------------------------
(***************************************************************************)
(* FindAVX2 and FindNEON: blocks of lanes, each lane a register loaded at  *)
(* an offset shifted by uLastIdx and compared with the last character.     *)
(***************************************************************************)
IsLong == m_cchPatternLen >= LongPattern
Lanes  == IF IsLong THEN LongLanes ELSE ShortLanes
Stride == Lanes * LaneLen

\* The move mask of a register loaded at offset o: the bits that survive.
MoveMask(o) ==
  { b \in 0 .. MaskBits * LaneLen - 1 :
      /\ b % MaskBits = 0
      /\ text[o + b \div MaskBits] = lastChar }

\* Mutant: the highest set bit first.
CheckMaskBackwards(o) ==
  LET start(b) == o + b \div MaskBits - uLastIdx
      hits == { b \in MoveMask(o) :
                  /\ text[start(b)] = m_Pattern[0]
                  /\ VerifyMiddleMatch(text, start(b), m_Pattern, m_cchPatternLen) }
  IN  IF hits = {} THEN -1 ELSE ToInt(start(Max(hits)), IntMax)

\* The first set bit of a lane's mask at which the whole pattern stands.
CheckMask(o) ==
  LET start(b) == o + b \div MaskBits - uLastIdx
      hits == { b \in MoveMask(o) :
                  /\ text[start(b)] = m_Pattern[0]
                  /\ VerifyMiddleMatch(text, start(b), m_Pattern, m_cchPatternLen) }
  IN  IF hits = {} THEN -1 ELSE ToInt(start(Min(hits)), IntMax)

\* Mutant: a jump counted from after the block, not from its last character.
NextBlockFar ==
  /\ uI' = IF IsLong
           THEN uI + Stride + Skip(text[uI + (Stride - 1) + uLastIdx])
           ELSE uI + Stride
  /\ lane' = 0
  /\ pc' = "block"
  /\ UNCHANGED result

\* The block's last character decides how far a long pattern jumps.
NextBlock ==
  /\ uI' = IF IsLong
           THEN uI + (Stride - 1) + Skip(text[uI + (Stride - 1) + uLastIdx])
           ELSE uI + Stride
  /\ lane' = 0
  /\ pc' = "block"
  /\ UNCHANGED result

BlockFits == uI + (Stride - 1) + uLastIdx < cchTextLen

\* All lanes at once: without the last character in any, the block is done.
Block ==
  /\ pc = "block"
  /\ BlockFits
  /\ IF \E o \in 0 .. Stride - 1 : text[uI + uLastIdx + o] = lastChar
     THEN pc' = "lane" /\ lane' = 0 /\ UNCHANGED <<uI, result>>
     ELSE NextBlock
  /\ UNCHANGED <<object, cpuHasAVX2, memory, saved, call, engine, uK, uJ>>

\* Mutant: one register more than the block has.
LaneTooMany ==
  /\ pc = "lane"
  /\ LET iResult == CheckMask(uI + lane * LaneLen + uLastIdx)
     IN  \/ iResult # -1 /\ Return(iResult) /\ UNCHANGED <<uI, lane>>
         \/ /\ iResult = -1 /\ lane + 1 <= Lanes
            /\ lane' = lane + 1
            /\ UNCHANGED <<uI, pc, result>>
         \/ iResult = -1 /\ lane + 1 > Lanes /\ NextBlock
  /\ UNCHANGED <<object, cpuHasAVX2, memory, saved, call, engine, uK, uJ>>

Lane ==
  /\ pc = "lane"
  /\ LET iResult == CheckMask(uI + lane * LaneLen + uLastIdx)
     IN  \/ iResult # -1 /\ Return(iResult) /\ UNCHANGED <<uI, lane>>
         \/ /\ iResult = -1 /\ lane + 1 < Lanes
            /\ lane' = lane + 1
            /\ UNCHANGED <<uI, pc, result>>
         \/ iResult = -1 /\ lane + 1 >= Lanes /\ NextBlock
  /\ UNCHANGED <<object, cpuHasAVX2, memory, saved, call, engine, uK, uJ>>

\* What is left of the text goes to FindScalar.
Tail ==
  /\ pc = "block"
  /\ ~BlockFits
  /\ IF uI < cchTextLen
     THEN pc' = "scalar" /\ UNCHANGED result
     ELSE Return(-1)
  /\ UNCHANGED <<object, cpuHasAVX2, memory, saved, call, engine, cursor>>

-----------------------------------------------------------------------------
Initialize(p, m) == \/ InitializeRejects(p, m)
                    \/ InitializeAllocates(p, m)
                    \/ InitializeOutOfMemory(p, m)

FindScalar == ScalarEntry \/ ScanEnds \/ ScanSkips \/ ScanVerifies \/ Verify
FindVector == Block \/ Lane \/ Tail

\* What the code does on its own once a call is made.
Step == \/ Populate \/ Find \/ SaveState \/ SaveStateFails
        \/ FindScalar \/ FindVector \/ RestoreState

\* Nothing happens to an object that is gone.
Terminated == pc = "destroyed" /\ UNCHANGED vars

Next ==
  \/ \E p \in Patterns : Initialize(p[1], p[2])
  \/ InitializeRejects(Null, 1)
  \/ \E t \in Texts, e \in SearchEngine : Call(t[1], t[2], e)
  \/ Step
  \/ TakeResult
  \/ Destroy
  \/ Terminated

Safety == Init /\ [][Next]_vars
Spec == Safety /\ WF_vars(Step)

-----------------------------------------------------------------------------
(***************************************************************************)
(* What is claimed of the searchers.                                       *)
(***************************************************************************)
PCs == {"idle", "populate", "find", "save", "block", "lane", "scalar", "scan",
        "verify", "restore", "done", "destroyed"}

(***************************************************************************)
(* Every variable stays in its type; the strings agree with their lengths. *)
(***************************************************************************)
TypeOK ==
  /\ m_cchPatternLen \in Nat /\ m_Pattern \in [0 .. m_cchPatternLen-1 -> Char]
  /\ m_SkipTable \in [Slot -> Nat] \cup {Null}
  /\ m_bHasAVX2 \in BOOLEAN /\ cpuHasAVX2 \in BOOLEAN
  /\ poolTables \in Nat /\ inits \in 0 .. MaxInits
  /\ saved \in BOOLEAN
  /\ pc \in PCs
  /\ cchTextLen \in Nat /\ text \in [0 .. cchTextLen-1 -> Char]
  /\ engine \in SearchEngine
  /\ uI \in Nat /\ lane \in Nat /\ uK \in Nat /\ uJ \in Nat
  /\ result \in Int

(***************************************************************************)
(* Whatever engine was asked for and whichever the code fell back to, Find *)
(* returns what the naive matcher returns (8.cpp:263-265: "the zero-based  *)
(* index of the first character of the matched pattern, or -1").           *)
(***************************************************************************)
FindIsFirstMatch ==
  pc = "done" => result = BasicOffset(text, cchTextLen, m_Pattern, m_cchPatternLen)

(***************************************************************************)
(* No window, block or jump passes over an occurrence: while an engine is  *)
(* searching, no occurrence starts before the place it has reached.        *)
(***************************************************************************)
NoneBefore(k) ==
  \A s \in 0 .. cchTextLen - m_cchPatternLen :
    s < k => ~OccursAt(text, m_Pattern, m_cchPatternLen, s)

NothingSkipped ==
  /\ pc \in {"block", "scalar"} => NoneBefore(uI)
  /\ pc = "lane" => NoneBefore(uI + lane * LaneLen)
  /\ pc \in {"scan", "verify"} => NoneBefore((uI + uK) - uLastIdx)

(***************************************************************************)
(* Once Initialize has returned, a slot of the skip table holds the        *)
(* distance from the pattern's end of the rightmost character, the last    *)
(* excepted, that is hashed to it: characters that collide share the       *)
(* smallest of their jumps, no jump is 0, and none exceeds the length.     *)
(***************************************************************************)
SkipTableExact ==
  m_SkipTable # Null /\ pc # "populate" =>
    \A h \in Slot :
      LET seen == { j \in 0 .. m_cchPatternLen - 2 : HashChar[m_Pattern[j]] = h }
      IN  m_SkipTable[h] = IF seen = {} THEN m_cchPatternLen
                           ELSE m_cchPatternLen - 1 - Max(seen)

(***************************************************************************)
(* Every text and pattern index the next step reads is inside its buffer:  *)
(* the unsigned cursors never wrap below 0, and no vector load crosses the *)
(* end of the text.                                                        *)
(***************************************************************************)
ReadsInBounds ==
  /\ pc = "scan" => uI + uK >= uLastIdx
  /\ pc = "verify" => /\ uJ \in 0 .. m_cchPatternLen - 2
                      /\ VerifyIdx >= 0 /\ uI + uK < cchTextLen
  /\ pc = "lane" => /\ lane < Lanes
                    /\ uI + (Stride - 1) + uLastIdx < cchTextLen
  /\ pc \in {"block", "scalar"} => uI <= cchTextLen

(***************************************************************************)
(* The extended processor state is saved exactly while a vector engine, or *)
(* what it called, is running: it is saved before the first vector         *)
(* instruction and restored before Find returns, on every path.            *)
(***************************************************************************)
XStateBalanced ==
  /\ pc \in {"block", "lane", "restore"} => saved
  /\ pc \in {"idle", "populate", "find", "save", "done", "destroyed"} => ~saved

(***************************************************************************)
(* No AVX2 instruction is reached on a machine that has none (8.h:19-20:   *)
(* "Will fallback to Scalar if CPU/Arch unsupported").                     *)
(***************************************************************************)
VectorNeedsAVX2 ==
  Arch = "x64" /\ pc \in {"block", "lane"} => cpuHasAVX2

(***************************************************************************)
(* Every step of a call is one towards its end.  The phases of a call      *)
(* follow each other; inside one, what is left of the text shrinks, or     *)
(* what is left of the inner loop while the text's rest stays.  The hazard *)
(* is a skip of 0, after which FindScalar would compare the same window    *)
(* forever, and a block that is followed by itself.                        *)
(***************************************************************************)
CallPhase ==
  CASE pc = "find" -> 6
    [] pc = "save" -> 5
    [] pc \in {"block", "lane"} -> 4
    [] pc = "scalar" -> 3
    [] pc \in {"scan", "verify"} -> 2
    [] pc \in {"populate", "restore"} -> 1
    [] OTHER -> 0

TextLeft ==
  CASE pc = "populate" -> uLastIdx - uI
    [] pc \in {"block", "lane"} -> cchTextLen - uI
    [] pc \in {"scan", "verify"} /\ uI + uK < cchTextLen -> cchTextLen - (uI + uK)
    [] OTHER -> 0

LoopLeft ==
  CASE pc = "block" -> Lanes
    [] pc = "lane" -> Lanes - 1 - lane
    [] pc = "scan" -> m_cchPatternLen
    [] pc = "verify" -> uJ
    [] OTHER -> 0

Descends ==
  \/ CallPhase' < CallPhase
  \/ CallPhase' = CallPhase /\ TextLeft' < TextLeft
  \/ CallPhase' = CallPhase /\ TextLeft' = TextLeft /\ LoopLeft' < LoopLeft

StepDescends ==
  Step => CallPhase \in Nat /\ TextLeft \in Nat /\ LoopLeft \in Nat /\ Descends

StepsDescend == [][StepDescends]_vars

(***************************************************************************)
(* A call that was made returns.                                           *)
(***************************************************************************)
CallReturns == pc \notin {"idle", "done", "destroyed"} ~> pc \in {"idle", "done"}

(***************************************************************************)
(* The searcher implements StringFinder: a call is a question, the whole   *)
(* search is one Reply, and Initialize only changes the pattern.           *)
(***************************************************************************)
FinderPhase ==
  CASE pc \in {"idle", "populate"} -> "idle"
    [] pc = "done" -> "answered"
    [] pc = "destroyed" -> "destroyed"
    [] OTHER -> "searching"

Finder == INSTANCE StringFinder WITH
  NoString   <- Empty,
  phase      <- FinderPhase,
  pattern    <- m_Pattern,
  patternLen <- m_cchPatternLen,
  textLen    <- cchTextLen,
  answer     <- IF pc = "done" THEN result ELSE -1

ImplementsFinder == Finder!Spec

-----------------------------------------------------------------------------
(***************************************************************************)
(* The inductive invariant behind FindIsFirstMatch.  TypeOK and            *)
(* NothingSkipped say where the search is; the parts below say what makes  *)
(* the next move safe.                                                     *)
(***************************************************************************)

\* What the object and the locals look like between and during calls.
PhaseInv ==
  /\ cchTextLen <= IntMax
  /\ pc \in {"idle", "populate", "destroyed"} => text = Empty /\ cchTextLen = 0
  /\ pc \in {"idle", "populate", "find", "save", "destroyed"} => result = -1
  /\ pc \in {"idle", "find", "save", "destroyed"} => uI = 0
  /\ pc = "populate" => m_SkipTable # Null /\ m_cchPatternLen >= 1 /\ uI <= uLastIdx
  /\ m_SkipTable # Null /\ pc # "destroyed" => poolTables >= 1
  /\ pc = "find" => Usable
  /\ pc \in {"save", "block", "lane", "scalar", "scan", "verify"} =>
       m_SkipTable # Null /\ m_cchPatternLen \in 1 .. cchTextLen
  /\ pc \in {"block", "lane", "scan", "verify"} => m_cchPatternLen >= 2
  /\ pc = "scalar" /\ m_cchPatternLen < 2 => uI = 0

\* A table never promises more than the characters seen so far allow.
SkipInv ==
  m_SkipTable # Null =>
    LET seen == IF pc = "populate" THEN uI ELSE uLastIdx
    IN  /\ m_cchPatternLen >= 1
        /\ \A h \in Slot :
             /\ m_SkipTable[h] \in 1 .. m_cchPatternLen
             /\ \/ m_SkipTable[h] = m_cchPatternLen
                \/ \E j \in 0 .. seen - 1 :
                     HashChar[m_Pattern[j]] = h /\ m_SkipTable[h] = uLastIdx - j
        /\ \A j \in 0 .. seen - 1 : Skip(m_Pattern[j]) <= uLastIdx - j

\* Where the cursors may be, and what a verification has established.
CursorInv ==
  /\ pc \in {"block", "scalar"} => uI <= cchTextLen
  /\ pc = "lane" => BlockFits /\ lane < Lanes
  /\ pc = "scan" => uK >= uLastIdx
  /\ pc = "verify" =>
       /\ uK >= uLastIdx /\ uI + uK < cchTextLen
       /\ uJ \in 0 .. m_cchPatternLen - 2
       /\ \A j \in uJ + 1 .. uLastIdx : text[(uI + uK) - uLastIdx + j] = m_Pattern[j]

\* The answer is the first match from the return statement on.
AnswerInv ==
  pc \in {"restore", "done"} =>
    result = BasicOffset(text, cchTextLen, m_Pattern, m_cchPatternLen)

IInv == /\ TypeOK /\ XStateBalanced /\ PhaseInv /\ SkipInv /\ CursorInv
        /\ NothingSkipped /\ AnswerInv
=============================================================================
