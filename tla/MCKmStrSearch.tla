--------------------------- MODULE MCKmStrSearch ---------------------------
(***************************************************************************)
(* Small instances of KmStrSearch: all patterns and all texts over an      *)
(* alphabet, up to a length.  Registers of two characters and thresholds   *)
(* of a few characters put every boundary of the vector engines within     *)
(* reach of such texts.                                                    *)
(***************************************************************************)
EXTENDS KmStrSearch

CONSTANTS a, b, c

Strings(chars, lengths) ==
  UNION { { <<s, n>> : s \in [0 .. n-1 -> chars] } : n \in lengths }

\* Strings of length n whose first k characters agree.
Uniform(chars, k, n) ==
  { << [i \in 0 .. n-1 |-> IF i < k THEN x ELSE s[i]], n >> :
      x \in chars, s \in [k .. n-1 -> chars] }

\* 16 bit: a and b have slots of their own, c collides with a.  The colliding
\* two are exchangeable, so a pattern of three need not begin with c.
Char16     == {a, b, c}
Slot16     == {0, 1}
Hash16     == [x \in Char16 |-> IF x = b THEN 1 ELSE 0]
Patterns16 ==
  Strings({a, b}, 0 .. 2) \cup { s \in Strings(Char16, {3}) : s[1][0] # c }
\* The texts of length 9 give the vector loops a second block.
Texts16 ==
  Strings({a, b}, {0, 3}) \cup Uniform(Char16, 2, 5) \cup
  Uniform({a, c}, 3, 7) \cup Uniform({a, b}, 5, 9)

\* 8 bit: every character has a slot of its own.
Char8       == {a, b}
Hash8       == [x \in Char8 |-> x]
\* Smaller sets for a run about the requested engine.
PatternsFew == Strings(Char8, 0 .. 3)
TextsFew    == Strings(Char8, 2 .. 6)
=============================================================================
