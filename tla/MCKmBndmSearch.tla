--------------------------- MODULE MCKmBndmSearch ---------------------------
(***************************************************************************)
(* Small instances of KmBndmSearch: a word of three bits, so that patterns *)
(* are shorter than it, fill it and exceed it, and registers of two        *)
(* characters.                                                             *)
(***************************************************************************)
EXTENDS KmBndmSearch

CONSTANTS a, b

Strings(chars, lengths) ==
  UNION { { <<s, len>> : s \in [0 .. len-1 -> chars] } : len \in lengths }

\* 8 bit: every character has a slot of its own.  The two are exchangeable, so
\* a pattern need not begin with b.
Char8     == {a, b}
Hash8     == [x \in Char8 |-> x]
Patterns8 == { s \in Strings(Char8, 0 .. 4) : s[2] = 0 \/ s[1][0] = a }
Texts8    ==
  Strings(Char8, {0, 3, 5}) \cup
  { s \in Strings(Char8, {9}) : \A i \in 0 .. 3 : s[1][i] = s[1][0] }
=============================================================================
