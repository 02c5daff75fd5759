---------------------------- MODULE StringFinder ----------------------------
(***************************************************************************)
(* What a search object promises its caller.  The caller gives it a        *)
(* pattern, asks about a text and is told the offset of the leftmost       *)
(* occurrence, or -1.  How the answer is found, by which engine, over how  *)
(* many steps and with which tables, is not visible here.                  *)
(***************************************************************************)
EXTENDS Matching

CONSTANTS
  Patterns,     \* the patterns a caller may give, as pairs <<string, length>>
  Texts,        \* the texts a caller may ask about, likewise
  NoString      \* the string of length 0 that stands for "none"

VARIABLES
  phase,        \* "idle", "searching", "answered" or "destroyed"
  pattern, patternLen,
  text, textLen,
  answer

vars == <<phase, pattern, patternLen, text, textLen, answer>>

Init ==
  /\ phase = "idle"
  /\ pattern = NoString /\ patternLen = 0
  /\ text = NoString    /\ textLen = 0
  /\ answer = -1

SetPattern ==
  /\ phase = "idle"
  /\ \E p \in Patterns : pattern' = p[1] /\ patternLen' = p[2]
  /\ UNCHANGED <<phase, text, textLen, answer>>

Ask ==
  /\ phase = "idle"
  /\ phase' = "searching"
  /\ \E t \in Texts : text' = t[1] /\ textLen' = t[2]
  /\ UNCHANGED <<pattern, patternLen, answer>>

Reply ==
  /\ phase = "searching"
  /\ phase' = "answered"
  /\ answer' = BasicOffset(text, textLen, pattern, patternLen)
  /\ UNCHANGED <<pattern, patternLen, text, textLen>>

Take ==
  /\ phase = "answered"
  /\ phase' = "idle"
  /\ text' = NoString /\ textLen' = 0
  /\ answer' = -1
  /\ UNCHANGED <<pattern, patternLen>>

Destroy ==
  /\ phase = "idle"
  /\ phase' = "destroyed"
  /\ UNCHANGED <<pattern, patternLen, text, textLen, answer>>

Next == SetPattern \/ Ask \/ Reply \/ Take \/ Destroy

(***************************************************************************)
(* A question is always answered; the caller owes nothing.                 *)
(***************************************************************************)
Safety == Init /\ [][Next]_vars
Spec == Safety /\ WF_vars(Reply)
=============================================================================
