-------------------------- MODULE CorrectnessTests --------------------------
(***************************************************************************)
(* RunCorrectnessTestEx of Shared/KmStrSearchShared.h, whose lines the     *)
(* comments name: one test of one search class, with the object it makes.  *)
(* The object is that of the four class modules, at the sizes of the code. *)
(* Beside the test there is a caller who does whatever the header allows,  *)
(* for the requests the tests never make.                                  *)
(***************************************************************************)
EXTENDS Matching, Sequences

Classes == {"CKmStrSearch8", "CKmStrSearch16", "CKmBndmSearch8", "CKmBndmSearch16"}
Archs   == {"x64", "arm64"}

CONSTANTS
  Char,             \* [Classes -> sets of characters]
  Patterns, Texts,  \* [Classes -> sets of strings <<string, length>>]
  IntMax, Null

VARIABLES
  SearchClass,      \* the template's parameter; fixed
  Arch,             \* the build; fixed
  \* The object, in the variables of both families.
  m_Pattern, m_cchPatternLen, m_SkipTable, m_MaskTable, m_bHasAVX2, cpuHasAVX2,
  poolTables, inits, saved, pc, text, cchTextLen, engine, uI, lane, uK, uPos,
  uJ, uLast, uD, result,
  \* The test.
  stage,            \* where the test is; "none" with any other caller
  szPattern, szText,
  indices,          \* scalarIdx, autoIdx and avx2Idx, as far as they are known
  passed            \* what the test returns

horspool == <<m_SkipTable, uK>>
bndm     == <<m_MaskTable, uPos, uLast, uD>>
common   == <<m_Pattern, m_cchPatternLen, m_bHasAVX2, cpuHasAVX2, poolTables,
              inits, saved, pc, text, cchTextLen, engine, uI, lane, uJ, result>>
object   == <<horspool, bndm, common>>
test     == <<szPattern, szText, indices, passed>>
vars     == <<SearchClass, Arch, object, stage, test>>

Str8(a) == INSTANCE KmStrSearch8 WITH
  Arch <- a, Char <- Char["CKmStrSearch8"], MaxInits <- 1,
  Patterns <- Patterns["CKmStrSearch8"], Texts <- Texts["CKmStrSearch8"]
Str16(a) == INSTANCE KmStrSearch16 WITH
  Arch <- a, Char <- Char["CKmStrSearch16"], MaxInits <- 1,
  Patterns <- Patterns["CKmStrSearch16"], Texts <- Texts["CKmStrSearch16"]
Bndm8(a) == INSTANCE KmBndmSearch8 WITH
  Arch <- a, Char <- Char["CKmBndmSearch8"], MaxInits <- 1,
  Patterns <- Patterns["CKmBndmSearch8"], Texts <- Texts["CKmBndmSearch8"]
Bndm16(a) == INSTANCE KmBndmSearch16 WITH
  Arch <- a, Char <- Char["CKmBndmSearch16"], MaxInits <- 1,
  Patterns <- Patterns["CKmBndmSearch16"], Texts <- Texts["CKmBndmSearch16"]

\* The characters that index the table of a class.
Slots(c) == IF c \in {"CKmStrSearch8", "CKmBndmSearch8"} THEN Char[c]
            ELSE { Str16("x64")!HashCharOf(ch) : ch \in Char[c] }

\* What the searchers assume of their constants, for each of the classes, and
\* that the texts' lengths are ints.
ClassesAssumption ==
  /\ IntMax \in Nat
  /\ \A c \in Classes :
       /\ \A s \in Patterns[c] \cup Texts[c] :
            s[2] \in Nat /\ s[1] \in [0 .. s[2]-1 -> Char[c]]
       /\ \A t \in Texts[c] : t[2] <= IntMax
       /\ Null \notin [Slots(c) -> Nat] \cup [Slots(c) -> SUBSET (0 .. 63)]

-----------------------------------------------------------------------------
(***************************************************************************)
(* The object, of whichever class: what each class does, the variables of  *)
(* the other family aside.                                                 *)
(***************************************************************************)
OfClass(str8, str16, bndm8, bndm16) ==
  \/ SearchClass = "CKmStrSearch8"   /\ str8   /\ UNCHANGED bndm
  \/ SearchClass = "CKmStrSearch16"  /\ str16  /\ UNCHANGED bndm
  \/ SearchClass = "CKmBndmSearch8"  /\ bndm8  /\ UNCHANGED horspool
  \/ SearchClass = "CKmBndmSearch16" /\ bndm16 /\ UNCHANGED horspool

\* (No ARM processor reports AVX2.)
Construct ==
  /\ SearchClass \in Classes /\ Arch \in Archs
  /\ m_SkipTable = Null /\ uK = 0
  /\ m_MaskTable = Null /\ uPos = 0 /\ uLast = 0 /\ uD = {}
  /\ cpuHasAVX2 \in BOOLEAN /\ (cpuHasAVX2 => Arch = "x64")
  /\ \E a \in Archs :
       /\ Arch = a
       /\ \/ SearchClass = "CKmStrSearch8"   /\ Str8(a)!Construct
          \/ SearchClass = "CKmStrSearch16"  /\ Str16(a)!Construct
          \/ SearchClass = "CKmBndmSearch8"  /\ Bndm8(a)!Construct
          \/ SearchClass = "CKmBndmSearch16" /\ Bndm16(a)!Construct

Initialize(p, m) ==
  \E a \in Archs : Arch = a /\
    OfClass(Str8(a)!Initialize(p, m), Str16(a)!Initialize(p, m),
            Bndm8(a)!Initialize(p, m), Bndm16(a)!Initialize(p, m))

Initialized ==
  \E a \in Archs : Arch = a /\
    CASE SearchClass = "CKmStrSearch8"   -> Str8(a)!Initialized
      [] SearchClass = "CKmStrSearch16"  -> Str16(a)!Initialized
      [] SearchClass = "CKmBndmSearch8"  -> Bndm8(a)!Initialized
      [] SearchClass = "CKmBndmSearch16" -> Bndm16(a)!Initialized

Call(t, n, e) ==
  \E a \in Archs : Arch = a /\
    OfClass(Str8(a)!Call(t, n, e), Str16(a)!Call(t, n, e),
            Bndm8(a)!Call(t, n, e), Bndm16(a)!Call(t, n, e))

Runs ==
  \E a \in Archs : Arch = a /\
    OfClass(Str8(a)!Runs, Str16(a)!Runs, Bndm8(a)!Runs, Bndm16(a)!Runs)

TakeResult ==
  \E a \in Archs : Arch = a /\
    OfClass(Str8(a)!TakeResult, Str16(a)!TakeResult,
            Bndm8(a)!TakeResult, Bndm16(a)!TakeResult)

Destruct ==
  \E a \in Archs : Arch = a /\
    OfClass(Str8(a)!Destruct, Str16(a)!Destruct, Bndm8(a)!Destruct, Bndm16(a)!Destruct)

AnyUse ==
  \E a \in Archs : Arch = a /\
    OfClass(Str8(a)!Next, Str16(a)!Next, Bndm8(a)!Next, Bndm16(a)!Next)

-----------------------------------------------------------------------------
(***************************************************************************)
(* The test.                                                               *)
(***************************************************************************)
g_HasAVX2 == cpuHasAVX2
Engines   == <<"Scalar", "Auto">> \o IF g_HasAVX2 THEN <<"AVX2">> ELSE << >>

expectedIndex == BasicOffset(szText[1], szText[2], szPattern[1], szPattern[2])

NoString == <<[i \in 0 .. -1 |-> Null], 0>>

Init ==
  /\ Construct
  /\ stage \in {"start", "none"}
  /\ szPattern = NoString /\ szText = NoString
  /\ indices = << >> /\ passed = FALSE

\* An abort was requested: no object, no line of log.
Aborted ==
  /\ stage = "start"
  /\ stage' = "returned" /\ passed' = FALSE
  /\ UNCHANGED <<object, szPattern, szText, indices>>

InitializeSearch ==
  /\ stage = "start"
  /\ szPattern' \in Patterns[SearchClass] /\ szText' \in Texts[SearchClass]
  /\ Initialize(szPattern'[1], szPattern'[2])
  /\ stage' = "initialize"
  /\ UNCHANGED <<indices, passed>>

\* The failure is expected of an empty pattern only.
InitFailed ==
  /\ stage = "initialize" /\ pc = "idle"
  /\ ~Initialized
  /\ stage' = "leave" /\ passed' = (szPattern[2] = 0)
  /\ UNCHANGED <<object, szPattern, szText, indices>>

Find ==
  /\ stage = "initialize" /\ pc = "idle"
  /\ Initialized
  /\ Len(indices) < Len(Engines)
  /\ Call(szText[1], szText[2], Engines[Len(indices) + 1])
  /\ UNCHANGED <<stage, test>>

Found ==
  /\ stage = "initialize" /\ pc = "done"
  /\ TakeResult
  /\ indices' = Append(indices, result)
  /\ UNCHANGED <<stage, szPattern, szText, passed>>

Compare ==
  /\ stage = "initialize" /\ pc = "idle"
  /\ Initialized
  /\ Len(indices) = Len(Engines)
  /\ stage' = "leave"
  /\ passed' = \A k \in 1 .. Len(indices) : indices[k] = expectedIndex
  /\ UNCHANGED <<object, szPattern, szText, indices>>

\* The return statement destroys the object.
LeaveScope ==
  /\ stage = "leave"
  /\ Destruct
  /\ stage' = "returned"
  /\ UNCHANGED test

RunCorrectnessTestEx ==
  \/ Aborted \/ InitializeSearch \/ InitFailed \/ Find \/ Found \/ Compare
  \/ LeaveScope
  \/ stage = "initialize" /\ Runs /\ UNCHANGED <<stage, test>>
  \/ stage = "returned" /\ UNCHANGED <<object, stage, test>>

OtherCaller == stage = "none" /\ AnyUse /\ UNCHANGED <<stage, test>>

Next ==
  /\ RunCorrectnessTestEx \/ OtherCaller
  /\ UNCHANGED <<SearchClass, Arch>>

Safety == Init /\ [][Next]_vars

-----------------------------------------------------------------------------
(***************************************************************************)
(* The properties of the classes, at the sizes of the code.                *)
(***************************************************************************)

(***************************************************************************)
(* With registers, strides, thresholds and words of the code's own sizes,  *)
(* Find answers as the naive matcher does, on every build.                 *)
(***************************************************************************)
FindIsFirstMatch ==
  \A a \in Archs : Arch = a =>
    CASE SearchClass = "CKmStrSearch8"   -> Str8(a)!FindIsFirstMatch
      [] SearchClass = "CKmStrSearch16"  -> Str16(a)!FindIsFirstMatch
      [] SearchClass = "CKmBndmSearch8"  -> Bndm8(a)!FindIsFirstMatch
      [] SearchClass = "CKmBndmSearch16" -> Bndm16(a)!FindIsFirstMatch

(***************************************************************************)
(* Blocks, jumps, windows and tail meet at the code's own boundaries       *)
(* without passing over an occurrence.                                     *)
(***************************************************************************)
NothingSkipped ==
  \A a \in Archs : Arch = a =>
    CASE SearchClass = "CKmStrSearch8"   -> Str8(a)!NothingSkipped
      [] SearchClass = "CKmStrSearch16"  -> Str16(a)!NothingSkipped
      [] SearchClass = "CKmBndmSearch8"  -> Bndm8(a)!NothingSkipped
      [] SearchClass = "CKmBndmSearch16" -> Bndm16(a)!NothingSkipped

(***************************************************************************)
(* No load and no index leaves its buffer.                                 *)
(***************************************************************************)
ReadsInBounds ==
  \A a \in Archs : Arch = a =>
    CASE SearchClass = "CKmStrSearch8"   -> Str8(a)!ReadsInBounds
      [] SearchClass = "CKmStrSearch16"  -> Str16(a)!ReadsInBounds
      [] SearchClass = "CKmBndmSearch8"  -> Bndm8(a)!ReadsInBounds
      [] SearchClass = "CKmBndmSearch16" -> Bndm16(a)!ReadsInBounds

(***************************************************************************)
(* A test that compared passed: what Scalar, Auto and AVX2 returned agrees *)
(* with BasicOffset whatever they fell back to, so that a test fails only  *)
(* for an abort or for want of memory; and whatever way it left, it gave   *)
(* its table back to the pool.                                             *)
(***************************************************************************)
TestTellsTheTruth ==
  stage = "returned" =>
    /\ poolTables = 0
    /\ indices # << >> => passed
    /\ passed /\ indices = << >> => szPattern[2] = 0

-----------------------------------------------------------------------------
(***************************************************************************)
(* The inductive invariant behind TestTellsTheTruth, beside those of the   *)
(* searchers: what the test knows of its object.                           *)
(***************************************************************************)

\* The table of the object's class.
Table == IF SearchClass \in {"CKmStrSearch8", "CKmStrSearch16"}
         THEN m_SkipTable ELSE m_MaskTable

\* What a search engine sees while it runs is what the test passed.
CallInv ==
  stage = "initialize" =>
    /\ szPattern \in Patterns[SearchClass] /\ szText \in Texts[SearchClass]
    /\ Initialized => m_Pattern = szPattern[1] /\ m_cchPatternLen = szPattern[2]
    /\ pc = "populate" \/ indices # << >> => Initialized
    /\ pc \notin {"idle", "populate"} =>
         Initialized /\ text = szText[1] /\ cchTextLen = szText[2]

\* The object is made when the test begins and destroyed when it returns; it
\* has one table or none.
ObjectInv ==
  /\ stage \in {"start", "initialize", "leave", "returned"}
  /\ stage \in {"start", "leave"} => pc = "idle"
  /\ stage = "start" => Table = Null /\ indices = << >> /\ m_cchPatternLen = 0
  /\ stage = "returned" => Table = Null \/ pc = "destroyed"
  /\ stage # "returned" => pc # "destroyed"
  /\ poolTables = IF Table = Null \/ pc = "destroyed" THEN 0 ELSE 1

\* The indices are compared with what they all are.
VerdictInv ==
  /\ indices \in Seq({expectedIndex})
  /\ stage \in {"leave", "returned"} =>
       /\ indices # << >> => passed
       /\ passed /\ indices = << >> => szPattern[2] = 0

TestInv == stage # "none" => CallInv /\ ObjectInv /\ VerdictInv
=============================================================================
