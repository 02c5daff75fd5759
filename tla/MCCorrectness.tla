-------------------------- MODULE MCCorrectness --------------------------
(***************************************************************************)
(* The four search classes on both architectures: texts and patterns that  *)
(* put matches on either side of the boundaries of lanes, blocks, words    *)
(* and tail.                                                               *)
(***************************************************************************)
EXTENDS CorrectnessTests

\* Background, body, and last character; as code units, the first two share a
\* slot of the hash.
x   == 120
y8  == 121
y16 == 1717
z   == 122

EmptyString == << [i \in 0 .. -1 |-> Null], 0 >>

\* A pattern of length len: z at its end and in its middle, y elsewhere.
Planned(y, len) ==
  << [i \in 0 .. len-1 |-> IF i \in {len-1, len \div 2} THEN z ELSE y], len >>

\* size characters of background with such a pattern planted at offset s; a
\* copy of its last character stands near the beginning.
Planted(y, len, size, s) ==
  << [i \in 0 .. size-1 |-> IF i \in s .. s + len - 1 THEN Planned(y, len)[1][i - s]
                            ELSE IF i = 3 THEN z ELSE x], size >>

\* Two short patterns side by side.
Twice(y, size, s) ==
  << [i \in 0 .. size-1 |-> IF i \in s .. s+1 THEN Planned(y, 2)[1][i - s]
                            ELSE Planted(y, 2, size, s + 5)[1][i]], size >>

\* Strings of period 3, and one run of them that a background character ends at
\* offset s, so that windows overlap what begins a match.
Periodic(y, len) == << [i \in 0 .. len-1 |-> IF i % 3 = 2 THEN z ELSE y], len >>
Interrupted(y, size, s) ==
  << [i \in 0 .. size-1 |-> IF i = s THEN x ELSE IF i % 3 = 2 THEN z ELSE y], size >>

\* 8 bit: lanes of 32 and 16, blocks of 64 and 128, texts from 128 on.
StrPatterns8 == { Planned(y8, len) : len \in {2, 40, 128} } \cup {EmptyString}
StrTexts8 ==
  { Planted(y8, 2, size, s) : size \in {127, 128, 129, 270}, s \in {0, 63, 64, 125} } \cup
  { Twice(y8, 135, 60), Planned(y8, 128) } \cup
  { Planted(y8, 40, 270, s) : s \in {0, 31, 127, 128, 230} } \cup
  { Planted(y8, 128, 300, s) : s \in {0, 63, 64, 128, 172} }

\* 16 bit: lanes of 16 and 8, blocks of 32 and 64, texts from 64 on.
StrPatterns16 == { Planned(y16, len) : len \in {2, 20, 127, 128} } \cup {EmptyString}
StrTexts16 ==
  { Planted(y16, 2, size, s) : size \in {63, 64, 65, 140}, s \in {0, 16, 31, 61} } \cup
  { Twice(y16, 80, 20), Planned(y16, 128) } \cup
  { Planted(y16, 20, 140, s) : s \in {0, 15, 63, 64, 120} } \cup
  { Planted(y16, len, 240, s) : len \in {127, 128}, s \in {0, 31, 32, 64, 110} }

\* The automaton's word has 64 bits.
BndmPatterns(y) == { Periodic(y, len) : len \in {2, 21, 63, 64, 65} } \cup {EmptyString}
BndmTexts8      == { Interrupted(y8, 135, s) : s \in {20, 63, 64} } \cup
                   { Interrupted(y8, 64, s) : s \in {0, 40} }
BndmTexts16     == { Interrupted(y16, 71, s) : s \in {6, 20} } \cup
                   { Interrupted(y16, 135, s) : s \in {63, 70} }

MCChar     == [CKmStrSearch8  |-> {x, y8, z}, CKmStrSearch16  |-> {x, y16, z},
               CKmBndmSearch8 |-> {x, y8, z}, CKmBndmSearch16 |-> {x, y16, z}]
MCPatterns == [CKmStrSearch8  |-> StrPatterns8,     CKmStrSearch16  |-> StrPatterns16,
               CKmBndmSearch8 |-> BndmPatterns(y8), CKmBndmSearch16 |-> BndmPatterns(y16)]
MCTexts    == [CKmStrSearch8  |-> StrTexts8,  CKmStrSearch16  |-> StrTexts16,
               CKmBndmSearch8 |-> BndmTexts8, CKmBndmSearch16 |-> BndmTexts16]

\* What the proofs about the classes assume.
ASSUME InstanceAssumption == ClassesAssumption
=============================================================================
