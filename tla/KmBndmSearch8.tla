-------------------------- MODULE KmBndmSearch8 --------------------------
(***************************************************************************)
(* CKmBndmSearch8: the experimental searcher KmBndmSearch with the         *)
(* constants of this class, on either architecture.  The functions of the  *)
(* class are the actions of KmBndmSearch under the names they have in      *)
(* Experimental/KmBndmSearch8.cpp.                                         *)
(***************************************************************************)
EXTENDS Matching

CONSTANTS
  Char,             \* the bytes that occur in the instance
  Patterns, Texts,
  IntMax, Arch, Null, MaxInits

VARIABLES
  m_Pattern, m_cchPatternLen, m_MaskTable, m_bHasAVX2, cpuHasAVX2, poolTables,
  inits, saved, pc, text, cchTextLen, engine, uI, lane, uPos, uJ, uLast, uD,
  result

\* KERNEL_THRESHOLD_BYTES / sizeof(char)
KERNEL_THRESHOLD_CHARS == IF Arch = "arm64" THEN 1024 ELSE 6144

\* The bits of ULONGLONG.
MAX_BNDM_PATTERN_LEN == 64

\* An AVX2 register has 32 bytes, a NEON register has 16.
LaneLen == IF Arch = "x64" THEN 32 ELSE 16
MinVectorText == 128

\* Slots to which no character of the instance is hashed are never looked at.
Searcher == INSTANCE KmBndmSearch WITH
  HashChar        <- [c \in Char |-> c],
  Slot            <- Char,
  FullVerify      <- FALSE,
  KernelThreshold <- KERNEL_THRESHOLD_CHARS,
  Lanes           <- 4,
  WordBits        <- MAX_BNDM_PATTERN_LEN

Construct == Searcher!Init

Initialize(Pattern, cchLength) == Searcher!Initialize(Pattern, cchLength)

\* What Initialize has returned: a pattern longer than the word has no table.
Initialized == m_MaskTable # Null \/ m_cchPatternLen > MAX_BNDM_PATTERN_LEN

Populate == Searcher!Populate

Destruct == Searcher!Destroy

Find == Searcher!Find

RunEngineWithSafety ==
  Searcher!SaveState \/ Searcher!SaveStateFails \/ Searcher!RestoreState

FindScalar == Searcher!FindScalar

\* The build has one of the two.
FindAVX2 == Arch = "x64" /\ Searcher!FindVector
FindNEON == Arch = "arm64" /\ Searcher!FindVector

\* The functions of the class, once one is called.
Runs == \/ Populate \/ Find \/ RunEngineWithSafety
        \/ FindScalar \/ FindAVX2 \/ FindNEON

Call(Text, cchLen, Engine) == Searcher!Call(Text, cchLen, Engine)

TakeResult == Searcher!TakeResult

Next ==
  \/ \E p \in Patterns \cup {<<Null, 1>>} : Initialize(p[1], p[2])
  \/ \E t \in Texts, e \in Searcher!SearchEngine : Call(t[1], t[2], e)
  \/ Runs \/ TakeResult \/ Destruct
  \/ Searcher!Terminated

Safety == Construct /\ [][Next]_(Searcher!vars)

-----------------------------------------------------------------------------
(***************************************************************************)
(* With a word of 64 bits, for patterns below, at and above its width,     *)
(* Find answers as the naive matcher does.                                 *)
(***************************************************************************)
FindIsFirstMatch == Searcher!FindIsFirstMatch

(***************************************************************************)
(* No window or jump passes over an occurrence and nothing is read outside *)
(* the buffers, also when the pattern fills the word and the shift loses   *)
(* the word's highest bit.                                                 *)
(***************************************************************************)
NothingSkipped == Searcher!NothingSkipped

ReadsInBounds == Searcher!ReadsInBounds
=============================================================================
