-------------------------- MODULE KmStrSearch8 --------------------------
(***************************************************************************)
(* CKmStrSearch8: the searcher KmStrSearch with the constants of this      *)
(* class, on either architecture.  The functions of the class are the      *)
(* actions of KmStrSearch under the names and with the sizes they have in  *)
(* StrSearch/KmStrSearch8.cpp, whose lines the comments name.              *)
(***************************************************************************)
EXTENDS Matching

CONSTANTS
  Char,             \* the bytes that occur in the instance
  Patterns, Texts,
  IntMax, Arch, Null, MaxInits

VARIABLES
  m_Pattern, m_cchPatternLen, m_SkipTable, m_bHasAVX2, cpuHasAVX2, poolTables,
  inits, saved, pc, text, cchTextLen, engine, uI, lane, uK, uJ, result

\* KERNEL_THRESHOLD_BYTES / sizeof(char)
KERNEL_THRESHOLD_CHARS == IF Arch = "arm64" THEN 1024 ELSE 6144

\* An AVX2 register has 32 bytes, a NEON register has 16; their masks have one
\* bit for each.
LaneLen   == IF Arch = "x64" THEN 32 ELSE 16
LongLanes == IF Arch = "x64" THEN 2 ELSE 4
MinVectorText == 128

\* Slots to which no character of the instance is hashed are never looked at.
Searcher == INSTANCE KmStrSearch WITH
  HashChar        <- [c \in Char |-> c],
  Slot            <- Char,
  KernelThreshold <- KERNEL_THRESHOLD_CHARS,
  LongPattern     <- 128,
  ShortLanes      <- 4,
  MaskBits        <- 1

Construct == Searcher!Init

Initialize(Pattern, cchLength) == Searcher!Initialize(Pattern, cchLength)

\* What Initialize has returned: on a new object the table tells.
Initialized == m_SkipTable # Null

Populate == Searcher!Populate

Destruct == Searcher!Destroy

Find == Searcher!Find

RunEngineWithSafety ==
  Searcher!SaveState \/ Searcher!SaveStateFails \/ Searcher!RestoreState

FindScalar == Searcher!FindScalar

\* The build has one of the two.
FindAVX2 == Arch = "x64" /\ Searcher!FindVector
FindNEON == Arch = "arm64" /\ Searcher!FindVector

\* The functions of the class, once one is called.
Runs == \/ Populate \/ Find \/ RunEngineWithSafety
        \/ FindScalar \/ FindAVX2 \/ FindNEON

Call(Text, cchLen, Engine) == Searcher!Call(Text, cchLen, Engine)

TakeResult == Searcher!TakeResult

Next ==
  \/ \E p \in Patterns \cup {<<Null, 1>>} : Initialize(p[1], p[2])
  \/ \E t \in Texts, e \in Searcher!SearchEngine : Call(t[1], t[2], e)
  \/ Runs \/ TakeResult \/ Destruct
  \/ Searcher!Terminated

Safety == Construct /\ [][Next]_(Searcher!vars)

-----------------------------------------------------------------------------
(***************************************************************************)
(* At the sizes of the code, Find answers as the naive matcher does ...    *)
(***************************************************************************)
FindIsFirstMatch == Searcher!FindIsFirstMatch

(***************************************************************************)
(* ... because nothing is skipped, and without leaving the buffers: the    *)
(* blocks, their jumps and the tail meet at the code's own boundaries.     *)
(***************************************************************************)
NothingSkipped == Searcher!NothingSkipped

ReadsInBounds == Searcher!ReadsInBounds
=============================================================================
