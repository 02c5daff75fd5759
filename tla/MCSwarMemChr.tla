---------------------------- MODULE MCSwarMemChr ----------------------------
(***************************************************************************)
(* SwarMemChr on a small word, and a check that WordLanes calculates as    *)
(* numbers do: Minus, place by place, is subtraction modulo the word.      *)
(***************************************************************************)
EXTENDS SwarMemChr

\* The number whose binary digits are the word's bits.
Number(w, lanes, bits) == MapThenSumSet(LAMBDA p : 2^(p[1] * bits + p[2]), w)

SubtractsLikeNumbers(lanes, bits) ==
  LET places == Places(lanes, bits)
  IN  \A x, y \in SUBSET places :
        Number(Minus(x, y, places), lanes, bits)
          = (Number(x, lanes, bits) - Number(y, lanes, bits)) % 2^(lanes * bits)

ASSUME MinusAssumption == SubtractsLikeNumbers(3, 2) /\ SubtractsLikeNumbers(2, 3)
=============================================================================
