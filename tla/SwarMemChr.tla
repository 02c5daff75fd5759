----------------------------- MODULE SwarMemChr -----------------------------
(***************************************************************************)
(* MemChrScalar and WMemChrScalar as they run: a loop that looks at a word *)
(* of several characters at a time, and a loop that pinpoints the match or *)
(* handles the rest.  The two functions differ in the size of a character: *)
(* a word of 64 bits has eight lanes of 8 bits, or four of 16 (WordLanes). *)
(* Source lines in comments are those of StrSearch/KmStrSearch8.cpp.       *)
(***************************************************************************)
EXTENDS Matching, WordLanes

CONSTANTS
  CharBits,     \* bits of a character: 8, 16
  WordChars,    \* characters in a word: 8, 4
  MaxLen        \* bound: length of the text

ASSUME WordAssumption ==
  CharBits \in Nat \ {0} /\ WordChars \in Nat \ {0} /\ MaxLen \in Nat

Char == SUBSET (0 .. CharBits - 1)

\* ptr points at text[ptr], pEnd at text[cchNum].
VARIABLES text, cchNum, val, ptr, pc, result

vars == <<text, cchNum, val, ptr, pc, result>>

Lanes == 0 .. WordChars - 1

\* val in every lane.
Broadcast == Pack([k \in Lanes |-> val], WordChars, CharBits)

Init ==
  /\ cchNum \in 0 .. MaxLen
  /\ text \in [0 .. cchNum - 1 -> Char]
  /\ val \in Char
  /\ ptr = 0
  /\ pc = "words"
  /\ result = -1

\* The word at ptr.
Chunk == Pack([k \in Lanes |-> text[ptr + k]], WordChars, CharBits)

Alarm == HasZeroLane(Xor(Chunk, Broadcast), WordChars, CharBits)

\* Mutant: the last word may begin one character too late.
ScanWordsFar ==
  /\ pc = "words"
  /\ IF ptr + WordChars <= cchNum /\ ~Alarm
     THEN ptr' = ptr + WordChars + 1 /\ pc' = pc
     ELSE pc' = "chars" /\ UNCHANGED ptr
  /\ UNCHANGED <<text, cchNum, val, result>>

\* One word: passed if val is not in it.
ScanWords ==
  /\ pc = "words"
  /\ IF ptr + WordChars <= cchNum /\ ~Alarm
     THEN ptr' = ptr + WordChars /\ pc' = pc
     ELSE pc' = "chars" /\ UNCHANGED ptr
  /\ UNCHANGED <<text, cchNum, val, result>>

\* One character.
ScanChars ==
  /\ pc = "chars"
  /\ \/ ptr < cchNum /\ text[ptr] = val /\ result' = ptr /\ pc' = "done" /\ UNCHANGED ptr
     \/ ptr < cchNum /\ text[ptr] # val /\ ptr' = ptr + 1 /\ UNCHANGED <<pc, result>>
     \/ ptr >= cchNum /\ result' = -1 /\ pc' = "done" /\ UNCHANGED ptr
  /\ UNCHANGED <<text, cchNum, val>>

Terminated == pc = "done" /\ UNCHANGED vars

Next == ScanWords \/ ScanChars \/ Terminated

Safety == Init /\ [][Next]_vars

-----------------------------------------------------------------------------
(***************************************************************************)
(* The function returns what MemChr, which the searchers' models use in    *)
(* its place, says: word by word it stops at, and only at, the word that   *)
(* has the character, although the subtraction borrows across lanes.       *)
(***************************************************************************)
IsMemChr == pc = "done" => result = MemChr(text, val, 0, cchNum)

(***************************************************************************)
(* The word loop gives up only at a word that has the character or where   *)
(* no whole word is left: a false alarm would make the rest of the scan go *)
(* character by character.                                                 *)
(***************************************************************************)
NoFalseAlarm ==
  [][pc = "words" /\ pc' = "chars" =>
       \/ ptr + WordChars > cchNum
       \/ \E k \in Lanes : text[ptr + k] = val]_vars

-----------------------------------------------------------------------------
(***************************************************************************)
(* The inductive invariant behind both: what the loops have passed holds   *)
(* no val, and they pass no more than the text.                            *)
(***************************************************************************)
ScanInv ==
  /\ cchNum \in 0 .. MaxLen /\ text \in [0 .. cchNum - 1 -> Char] /\ val \in Char
  /\ ptr \in 0 .. cchNum /\ pc \in {"words", "chars", "done"}
  /\ pc # "done" => \A i \in 0 .. ptr - 1 : text[i] # val
  /\ IsMemChr
=============================================================================
