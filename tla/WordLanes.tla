----------------------------- MODULE WordLanes ------------------------------
(***************************************************************************)
(* Machine words whose bits are grouped in lanes, one per character, and   *)
(* the test for a lane of zeros that MemChrScalar and WMemChrScalar make.  *)
(* A word is the set of the places of its bits that are 1; a place is a    *)
(* lane and a bit of it, and the first character is in lane 0, the lowest. *)
(* A word of 64 bits has 8 lanes of 8 bits, or 4 of 16.                    *)
(***************************************************************************)
EXTENDS Integers

Places(lanes, bits) == (0 .. lanes - 1) \X (0 .. bits - 1)

\* p is a lower place than q.
Precedes(p, q) == p[1] < q[1] \/ (p[1] = q[1] /\ p[2] < q[2])

\* x - y borrows from place p: at some lower place, y has a bit that x has
\* not, and no place in between makes up for it.
Borrows(x, y, p, places) ==
  \E q \in places :
    /\ Precedes(q, p) /\ q \notin x /\ q \in y
    /\ \A r \in places : Precedes(q, r) /\ Precedes(r, p) /\ r \in x => r \in y

\* x - y, modulo the word.
Minus(x, y, places) ==
  { p \in places : ((p \in x) # (p \in y)) # Borrows(x, y, p, places) }

\* x ^ y
Xor(x, y) == (x \ y) \cup (y \ x)

\* 1 in each lane, and the high bit of each lane.
magic1(lanes)       == (0 .. lanes - 1) \X {0}
magic8(lanes, bits) == (0 .. lanes - 1) \X {bits - 1}

\* Mutant: ~v is forgotten.
SubtractOnly(v, lanes, bits) ==
  Minus(v, magic1(lanes), Places(lanes, bits)) \cap magic8(lanes, bits) # {}

\* ((v - magic1) & ~v & magic8) != 0
HasZeroLane(v, lanes, bits) ==
  (Minus(v, magic1(lanes), Places(lanes, bits)) \ v) \cap magic8(lanes, bits) # {}

\* The characters c[0], c[1], ... side by side; a character is the set of its
\* bits that are 1.
Pack(c, lanes, bits) == { p \in Places(lanes, bits) : p[2] \in c[p[1]] }
=============================================================================
