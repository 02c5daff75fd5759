------------------------------ MODULE Matching ------------------------------
(***************************************************************************)
(* Strings as the C++ code sees them: an array that is read through        *)
(* indices 0 .. n-1, always passed together with its length.  A string is  *)
(* a function whose domain contains 0 .. n-1, and its length is a separate *)
(* parameter, as `Text, cchTextLen` and `Pattern, cchPatternLen` are.      *)
(***************************************************************************)
EXTENDS Integers, FiniteSetsExt

(***************************************************************************)
(* The least element of a set of offsets, or -1: what the index-returning  *)
(* functions of the code return for the offsets at which they would stop.  *)
(***************************************************************************)
First(S) == IF S = {} THEN -1 ELSE Min(S)

(***************************************************************************)
(* The m characters of pat stand in text from offset s on.                 *)
(***************************************************************************)
OccursAt(text, pat, m, s) == \A j \in 0 .. m-1 : text[s + j] = pat[j]

Occurrences(text, n, pat, m) ==
  { s \in 0 .. n-m : OccursAt(text, pat, m, s) }

(***************************************************************************)
(* The naive matcher of the test harness, the reference every engine is    *)
(* compared with there.                                                    *)
(***************************************************************************)
BasicOffset(text, n, pat, m) ==
  IF m = 0 \/ n < m THEN -1 ELSE First(Occurrences(text, n, pat, m))

(***************************************************************************)
(* The offset of c in text[from .. n-1], or -1: MemChrScalar and           *)
(* WMemChrScalar, whose word-at-a-time loop is modelled in SwarMemChr.     *)
(***************************************************************************)
MemChr(text, c, from, n) == First({ i \in from .. n-1 : text[i] = c })

\* Mutant: the loop stops one character early.
VerifyMiddleShort(text, s, pat, m) == \A j \in 1 .. m-3 : text[s + j] = pat[j]

(***************************************************************************)
(* The characters strictly between the first and the last agree.           *)
(***************************************************************************)
VerifyMiddleMatch(text, s, pat, m) ==
  \A j \in 1 .. m-2 : text[s + j] = pat[j]

(***************************************************************************)
(* static_cast<int>(x) for the two's complement int whose largest value is *)
(* intMax: values out of its range wrap.                                   *)
(***************************************************************************)
ToInt(x, intMax) ==
  IF x \in -(intMax + 1) .. intMax
  THEN x
  ELSE ((x + intMax + 1) % (2 * (intMax + 1))) - (intMax + 1)
=============================================================================
