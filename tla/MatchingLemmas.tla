--------------------------- MODULE MatchingLemmas ---------------------------
(***************************************************************************)
(* What the operators of Matching return, for strings of every length, and *)
(* what those of WordLanes return, for words of every width; with both,    *)
(* that the two loops of SwarMemChr find what MemChr finds.                *)
(***************************************************************************)
EXTENDS Matching, WordLanes, TLAPS, WellFoundedInduction

LessThan == { ss \in Nat \X Nat : ss[1] < ss[2] }

(***************************************************************************)
(* A nonempty set of natural numbers has a least element.                  *)
(***************************************************************************)
LEMMA NatHasLeast ==
  ASSUME NEW S \in SUBSET Nat, S # {}
  PROVE  \E x \in S : \A y \in S : x <= y
<1>1. IsWellFoundedOn(LessThan, Nat)
  BY Zenon, NatLessThanWellFounded DEF OpToRel, LessThan
<1>2. PICK x \in S : \A y \in S : <<y, x>> \notin LessThan
  BY <1>1, WFMin
<1>3. \A y \in S : x <= y
  <2>1. TAKE y \in S
  <2>2. x \in Nat /\ y \in Nat
    OBVIOUS
  <2>3. ~(y < x)
    BY <1>2, <2>2 DEF LessThan
  <2> QED
    BY <2>2, <2>3
<1> QED
  BY <1>3

(***************************************************************************)
(* First finds the least element, which is unique, and -1 if there is none.*)
(***************************************************************************)
LEMMA MinIs ==
  ASSUME NEW S \in SUBSET Int, NEW r \in S, \A y \in S : r <= y
  PROVE  Min(S) = r
<1>1. \A x \in S : (\A y \in S : x =< y) => x = r
  <2> SUFFICES ASSUME NEW x \in S, \A y \in S : x =< y
               PROVE  x = r
    OBVIOUS
  <2>1. x =< r /\ r <= x /\ x \in Int /\ r \in Int
    OBVIOUS
  <2> QED
    BY <2>1
<1>2. \E x \in S : \A y \in S : x =< y
  OBVIOUS
<1> QED
  BY <1>1, <1>2 DEF Min

LEMMA MaxIs ==
  ASSUME NEW S \in SUBSET Int, NEW r \in S, \A y \in S : r >= y
  PROVE  Max(S) = r
<1>1. \A x \in S : (\A y \in S : x >= y) => x = r
  <2> SUFFICES ASSUME NEW x \in S, \A y \in S : x >= y
               PROVE  x = r
    OBVIOUS
  <2>1. x >= r /\ r >= x /\ x \in Int /\ r \in Int
    OBVIOUS
  <2> QED
    BY <2>1
<1>2. \E x \in S : \A y \in S : x >= y
  OBVIOUS
<1> QED
  BY <1>1, <1>2 DEF Max

LEMMA MinOfNat ==
  ASSUME NEW S \in SUBSET Nat, S # {}
  PROVE  Min(S) \in S /\ \A y \in S : Min(S) <= y
<1>1. PICK r \in S : \A y \in S : r <= y
  BY NatHasLeast
<1>2. S \in SUBSET Int
  OBVIOUS
<1>3. Min(S) = r
  BY <1>1, <1>2, MinIs
<1> QED
  BY <1>1, <1>3

LEMMA FirstIs ==
  ASSUME NEW S \in SUBSET Nat, NEW r \in S, \A y \in S : r <= y
  PROVE  First(S) = r
<1>1. S \in SUBSET Int /\ S # {}
  OBVIOUS
<1>2. Min(S) = r
  BY <1>1, MinIs
<1> QED
  BY <1>1, <1>2 DEF First

(***************************************************************************)
(* An int holds every value of its range unchanged.                        *)
(***************************************************************************)
LEMMA ToIntInRange ==
  ASSUME NEW intMax \in Nat, NEW x \in -1 .. intMax
  PROVE  ToInt(x, intMax) = x
BY DEF ToInt

(***************************************************************************)
(* MemChr misses no earlier occurrence of the character, and -1 means that *)
(* there is none.                                                          *)
(***************************************************************************)
IsFirstChr(text, ch, from, n, r) ==
  \/ /\ r = -1
     /\ \A i \in from .. n-1 : text[i] # ch
  \/ /\ r \in from .. n-1 /\ text[r] = ch
     /\ \A i \in from .. r-1 : text[i] # ch

LEMMA MemChrIsFirst ==
  ASSUME NEW text, NEW ch, NEW from \in Nat, NEW n \in Nat
  PROVE  IsFirstChr(text, ch, from, n, MemChr(text, ch, from, n))
<1> DEFINE S == { i \in from .. n-1 : text[i] = ch }
<1>0. MemChr(text, ch, from, n) = First(S)
  BY DEF MemChr
<1>1. CASE S = {}
  BY <1>0, <1>1 DEF First, IsFirstChr
<1>2. CASE S # {}
  <2>1. S \in SUBSET Nat
    OBVIOUS
  <2>2. First(S) \in S /\ \A y \in S : First(S) <= y
    BY <1>2, <2>1, MinOfNat DEF First
  <2>3. \A i \in from .. First(S) - 1 : i \in from .. n-1 /\ ~(First(S) <= i)
    BY <2>1, <2>2
  <2> QED
    BY <1>0, <2>2, <2>3 DEF IsFirstChr
<1> QED
  BY <1>1, <1>2

(***************************************************************************)
(* The naive matcher returns r exactly if the pattern stands at r and      *)
(* nowhere before, and -1 if it stands nowhere.                            *)
(***************************************************************************)
LEMMA BasicOffsetIs ==
  ASSUME NEW text, NEW pat, NEW n \in Nat, NEW m \in Nat, m >= 1,
         NEW r \in Nat, r <= n - m,
         OccursAt(text, pat, m, r),
         \A s \in 0 .. n-m : s < r => ~OccursAt(text, pat, m, s)
  PROVE  BasicOffset(text, n, pat, m) = r
<1> DEFINE S == Occurrences(text, n, pat, m)
<1>1. S \in SUBSET Nat /\ r \in S
  BY DEF Occurrences
<1>2. \A y \in S : r <= y
  BY DEF Occurrences
<1>3. First(S) = r
  BY <1>1, <1>2, FirstIs
<1> QED
  BY <1>3 DEF BasicOffset

LEMMA BasicOffsetNone ==
  ASSUME NEW text, NEW pat, NEW n \in Nat, NEW m \in Nat,
         \A s \in 0 .. n-m : ~OccursAt(text, pat, m, s)
  PROVE  BasicOffset(text, n, pat, m) = -1
<1>1. Occurrences(text, n, pat, m) = {}
  BY DEF Occurrences
<1> QED
  BY <1>1 DEF BasicOffset, First

(***************************************************************************)
(* The engines' three tests of a window, its last character, its first and *)
(* those between, are a complete comparison.                               *)
(***************************************************************************)
LEMMA VerifiedOccurs ==
  ASSUME NEW text, NEW pat, NEW m \in Nat, m >= 2, NEW s \in Int
  PROVE  /\ text[s + (m - 1)] = pat[m - 1]
         /\ text[s] = pat[0]
         /\ VerifyMiddleMatch(text, s, pat, m)
         <=> OccursAt(text, pat, m, s)
<1>1. ASSUME text[s + (m - 1)] = pat[m - 1], text[s] = pat[0],
             VerifyMiddleMatch(text, s, pat, m)
      PROVE  OccursAt(text, pat, m, s)
  <2> SUFFICES ASSUME NEW j \in 0 .. m - 1
               PROVE  text[s + j] = pat[j]
    BY DEF OccursAt
  <2>1. CASE j = 0
    <3>1. s + j = s
      BY <2>1
    <3> QED
      BY <1>1, <2>1, <3>1
  <2>2. CASE j = m - 1
    BY <1>1, <2>2
  <2>3. CASE j # 0 /\ j # m - 1
    <3>1. j \in 1 .. m - 2
      BY <2>3
    <3> QED
      BY <1>1, <3>1 DEF VerifyMiddleMatch
  <2> QED
    BY <2>1, <2>2, <2>3
<1>2. ASSUME OccursAt(text, pat, m, s)
      PROVE  /\ text[s + (m - 1)] = pat[m - 1]
             /\ text[s] = pat[0]
             /\ VerifyMiddleMatch(text, s, pat, m)
  <2>1. /\ 0 \in 0 .. m - 1 /\ m - 1 \in 0 .. m - 1
        /\ \A j \in 1 .. m - 2 : j \in 0 .. m - 1
        /\ s + 0 = s
    OBVIOUS
  <2> QED
    BY <1>2, <2>1 DEF OccursAt, VerifyMiddleMatch
<1> QED
  BY <1>1, <1>2

(***************************************************************************)
(* Products of constants and cursors.                                      *)
(***************************************************************************)
LEMMA ProductPositive ==
  ASSUME NEW a \in Nat \ {0}, NEW b \in Nat \ {0}
  PROVE  a * b \in Nat /\ a * b >= 1
<1>1. PICK k \in Nat : a = k + 1
  <2>1. a - 1 \in Nat /\ a = (a - 1) + 1
    OBVIOUS
  <2> QED
    BY <2>1
<1>2. k * b \in Nat
  OBVIOUS
<1>3. a * b = k * b + b
  BY <1>1
<1> QED
  BY <1>2, <1>3

LEMMA ProductStep ==
  ASSUME NEW a \in Nat, NEW b \in Nat, NEW c \in Nat, a < b
  PROVE  /\ a * c \in Nat
         /\ (a + 1) * c = a * c + c
         /\ a * c + c <= b * c
<1>1. PICK k \in Nat : b = a + 1 + k
  <2>1. b - a - 1 \in Nat /\ b = a + 1 + (b - a - 1)
    OBVIOUS
  <2> QED
    BY <2>1
<1>2. a * c \in Nat /\ k * c \in Nat
  OBVIOUS
<1>3. b * c = a * c + c + k * c
  BY <1>1
<1>4. (a + 1) * c = a * c + c
  OBVIOUS
<1> QED
  BY <1>2, <1>3, <1>4

-----------------------------------------------------------------------------
(***************************************************************************)
(* The test for a lane of zeros, for any number of lanes and bits.  The    *)
(* high bit of a lane that had none is set by the subtraction only if the  *)
(* lane borrows: its own 1 finds nothing to be taken from, or that of a    *)
(* lower lane does not and everything in between is passed on.             *)
(***************************************************************************)
\* Lane k of v has no bit.
IsZeroLane(v, k, bits) == \A b \in 0 .. bits - 1 : <<k, b>> \notin v

\* Whatever borrows into a lane's high bit starts in a lane of zeros.
LEMMA BorrowComesFromZeroLane ==
  ASSUME NEW lanes \in Nat, NEW bits \in Nat \ {0}, NEW v, NEW k \in 0 .. lanes - 1,
         <<k, bits - 1>> \notin v,
         Borrows(v, magic1(lanes), <<k, bits - 1>>, Places(lanes, bits))
  PROVE  \E j \in 0 .. lanes - 1 : IsZeroLane(v, j, bits)
<1> DEFINE high == <<k, bits - 1>>
<1>1. PICK q \in Places(lanes, bits) :
        /\ Precedes(q, high) /\ q \notin v /\ q \in magic1(lanes)
        /\ \A r \in Places(lanes, bits) :
             Precedes(q, r) /\ Precedes(r, high) /\ r \in v => r \in magic1(lanes)
  BY DEF Borrows
<1>2. PICK j \in 0 .. lanes - 1 : q = <<j, 0>>
  BY <1>1 DEF magic1
<1>3. j \in Nat /\ k \in Nat /\ bits >= 1 /\ j <= k
  BY <1>1, <1>2 DEF Precedes
<1>4. ASSUME NEW b \in 0 .. bits - 1 PROVE <<j, b>> \notin v
  <2>1. CASE b = 0
    BY <1>1, <1>2, <2>1
  <2>2. CASE b # 0 /\ ~(j = k /\ b = bits - 1)
    <3>1. <<j, b>> \in Places(lanes, bits)
      BY DEF Places
    <3>2. Precedes(q, <<j, b>>) /\ Precedes(<<j, b>>, high)
      BY <1>2, <1>3, <2>2 DEF Precedes
    <3>3. <<j, b>> \notin magic1(lanes)
      BY <2>2 DEF magic1
    <3> QED BY <1>1, <3>1, <3>2, <3>3
  <2>3. CASE j = k /\ b = bits - 1
    BY <2>3
  <2> QED BY <2>1, <2>2, <2>3
<1> QED BY <1>4 DEF IsZeroLane

\* A lane of zeros borrows into its own high bit.
LEMMA ZeroLaneBorrows ==
  ASSUME NEW lanes \in Nat, NEW bits \in Nat, bits > 1, NEW v, NEW k \in 0 .. lanes - 1,
         IsZeroLane(v, k, bits)
  PROVE  Borrows(v, magic1(lanes), <<k, bits - 1>>, Places(lanes, bits))
<1> DEFINE q == <<k, 0>>
           high == <<k, bits - 1>>
<1>1. q \in Places(lanes, bits) /\ q \in magic1(lanes) /\ Precedes(q, high) /\ q \notin v
  BY DEF Places, magic1, Precedes, IsZeroLane
<1>2. ASSUME NEW r \in Places(lanes, bits), Precedes(q, r), Precedes(r, high)
      PROVE  r \notin v
  <2>1. r = <<r[1], r[2]>> /\ r[1] \in Nat /\ r[2] \in 0 .. bits - 1
    BY DEF Places
  <2>2. r[1] = k
    BY <1>2, <2>1 DEF Precedes
  <2> QED BY <2>1, <2>2 DEF IsZeroLane
<1> QED BY <1>1, <1>2 DEF Borrows

\* The lowest lane of zeros, of one bit each, has nothing to borrow for.
LEMMA NoBorrowBelow ==
  ASSUME NEW lanes \in Nat, NEW v, NEW k \in 0 .. lanes - 1,
         \A j \in 0 .. lanes - 1 : IsZeroLane(v, j, 1) => k <= j
  PROVE  ~Borrows(v, magic1(lanes), <<k, 0>>, Places(lanes, 1))
<1> SUFFICES ASSUME NEW q \in Places(lanes, 1), Precedes(q, <<k, 0>>), q \notin v
             PROVE  FALSE
  BY DEF Borrows
<1>1. q = <<q[1], 0>> /\ q[1] \in 0 .. lanes - 1
  BY DEF Places
<1>2. IsZeroLane(v, q[1], 1)
  BY <1>1 DEF IsZeroLane
<1>3. q[1] < k
  BY <1>1 DEF Precedes
<1> QED BY <1>1, <1>2, <1>3

LEMMA AlarmIsHighBit ==
  ASSUME NEW lanes \in Nat, NEW bits \in Nat \ {0}, NEW v
  PROVE  HasZeroLane(v, lanes, bits) <=>
           \E k \in 0 .. lanes - 1 :
             /\ <<k, bits - 1>> \notin v
             /\ (bits = 1) # Borrows(v, magic1(lanes), <<k, bits - 1>>, Places(lanes, bits))
<1> DEFINE W == Places(lanes, bits)
           M(p) == Borrows(v, magic1(lanes), p, W)
<1>1. ASSUME NEW k \in 0 .. lanes - 1
      PROVE  /\ <<k, bits - 1>> \in W /\ <<k, bits - 1>> \in magic8(lanes, bits)
             /\ <<k, bits - 1>> \in magic1(lanes) <=> bits = 1
  BY DEF Places, magic8, magic1
<1>2. ASSUME NEW p \in magic8(lanes, bits)
      PROVE  \E k \in 0 .. lanes - 1 : p = <<k, bits - 1>>
  BY DEF magic8
<1>3. ASSUME NEW k \in 0 .. lanes - 1, <<k, bits - 1>> \notin v
      PROVE  <<k, bits - 1>> \in Minus(v, magic1(lanes), W)
               <=> ((bits = 1) # M(<<k, bits - 1>>))
  <2> DEFINE p == <<k, bits - 1>>
  <2>1. p \in Minus(v, magic1(lanes), W) <=> ((p \in v) # (p \in magic1(lanes))) # M(p)
    BY <1>1 DEF Minus
  <2>2. (p \in v) = FALSE /\ (p \in magic1(lanes)) = (bits = 1)
    BY <1>1, <1>3
  <2> HIDE DEF p, M, W
  <2>3. p \in Minus(v, magic1(lanes), W) <=> ((bits = 1) # M(p))
    BY <2>1, <2>2
  <2> QED BY <2>3 DEF p
<1> HIDE DEF W, M
<1> QED BY <1>1, <1>2, <1>3 DEF HasZeroLane, W, M

(***************************************************************************)
(* MemChrScalar's word test is exact, though the subtraction borrows       *)
(* across lanes: it is true if and only if a lane is zero.                 *)
(***************************************************************************)
THEOREM ZeroLaneIsFound ==
  ASSUME NEW lanes \in Nat, NEW bits \in Nat \ {0}, NEW v
  PROVE  HasZeroLane(v, lanes, bits)
           <=> \E k \in 0 .. lanes - 1 : IsZeroLane(v, k, bits)
<1> DEFINE Z == { j \in 0 .. lanes - 1 : IsZeroLane(v, j, bits) }
<1>1. ASSUME NEW k \in 0 .. lanes - 1, <<k, bits - 1>> \notin v,
             (bits = 1) # Borrows(v, magic1(lanes), <<k, bits - 1>>, Places(lanes, bits))
      PROVE  Z # {}
  <2>1. CASE bits = 1
    BY <1>1, <2>1 DEF IsZeroLane
  <2>2. CASE bits # 1
    <3>1. Borrows(v, magic1(lanes), <<k, bits - 1>>, Places(lanes, bits))
      BY <1>1, <2>2 DEF Borrows
    <3> QED BY <1>1, <3>1, BorrowComesFromZeroLane
  <2> QED BY <2>1, <2>2
<1>2. ASSUME Z # {}
      PROVE  \E k \in 0 .. lanes - 1 :
               /\ <<k, bits - 1>> \notin v
               /\ (bits = 1) # Borrows(v, magic1(lanes), <<k, bits - 1>>, Places(lanes, bits))
  <2>1. PICK k \in Z : \A j \in Z : k <= j
    <3>1. Z \in SUBSET Nat
      OBVIOUS
    <3> HIDE DEF Z
    <3> QED BY <1>2, <3>1, NatHasLeast
  <2>2. k \in 0 .. lanes - 1 /\ IsZeroLane(v, k, bits) /\ <<k, bits - 1>> \notin v
    BY <2>1 DEF IsZeroLane
  <2>3. CASE bits = 1
    <3>1. ~Borrows(v, magic1(lanes), <<k, 0>>, Places(lanes, 1))
      BY <2>1, <2>2, <2>3, NoBorrowBelow
    <3>2. bits - 1 = 0
      BY <2>3
    <3> QED BY <2>2, <2>3, <3>1, <3>2
  <2>4. CASE bits # 1
    <3>1. Borrows(v, magic1(lanes), <<k, bits - 1>>, Places(lanes, bits))
      BY <2>2, <2>4, ZeroLaneBorrows
    <3> QED BY <2>2, <2>4, <3>1
  <2> QED BY <2>3, <2>4
<1> QED BY <1>1, <1>2, AlarmIsHighBit

(***************************************************************************)
(* So the word loop leaves a word exactly if one of its characters is the  *)
(* one that is searched: no match is passed, and no alarm is false.        *)
(***************************************************************************)
THEOREM AlarmMeansMatch ==
  ASSUME NEW lanes \in Nat, NEW bits \in Nat \ {0}, NEW ch \in SUBSET (0 .. bits - 1),
         NEW c \in [0 .. lanes - 1 -> SUBSET (0 .. bits - 1)]
  PROVE  HasZeroLane(Xor(Pack(c, lanes, bits), Pack([k \in 0 .. lanes - 1 |-> ch], lanes, bits)),
                     lanes, bits)
           <=> \E k \in 0 .. lanes - 1 : c[k] = ch
<1> DEFINE same == [k \in 0 .. lanes - 1 |-> ch]
           v == Xor(Pack(c, lanes, bits), Pack(same, lanes, bits))
<1>1. ASSUME NEW k \in 0 .. lanes - 1 PROVE IsZeroLane(v, k, bits) <=> c[k] = ch
  <2>1. ASSUME NEW b \in 0 .. bits - 1
        PROVE  <<k, b>> \in v <=> ~(b \in c[k] <=> b \in ch)
    <3>1. <<k, b>> \in Places(lanes, bits)
      BY DEF Places
    <3>2. <<k, b>> \in Pack(c, lanes, bits) <=> b \in c[k]
      BY <3>1 DEF Pack
    <3>3. <<k, b>> \in Pack(same, lanes, bits) <=> b \in ch
      BY <3>1 DEF Pack
    <3> QED BY <3>2, <3>3 DEF Xor
  <2>2. c[k] \subseteq 0 .. bits - 1 /\ ch \subseteq 0 .. bits - 1
    OBVIOUS
  <2> HIDE DEF v
  <2> QED BY <2>1, <2>2 DEF IsZeroLane
<1>2. HasZeroLane(v, lanes, bits) <=> \E k \in 0 .. lanes - 1 : IsZeroLane(v, k, bits)
  BY ZeroLaneIsFound
<1> HIDE DEF v
<1>3. HasZeroLane(v, lanes, bits) <=> \E k \in 0 .. lanes - 1 : c[k] = ch
  BY <1>1, <1>2
<1> QED BY <1>3 DEF v

-----------------------------------------------------------------------------
(***************************************************************************)
(* The two loops of SwarMemChr, for texts of every length, characters of   *)
(* every size and words of every number of them.                           *)
(***************************************************************************)
Swar(text, cchNum, val, ptr, pc, result, bits, lanes, maxLen) ==
  INSTANCE SwarMemChr WITH CharBits <- bits, WordChars <- lanes, MaxLen <- maxLen

\* The first match, and none.
LEMMA MemChrIs ==
  ASSUME NEW text, NEW ch, NEW n \in Nat, NEW r \in 0 .. n-1,
         text[r] = ch, \A i \in 0 .. r-1 : text[i] # ch
  PROVE  MemChr(text, ch, 0, n) = r
<1> DEFINE S == { i \in 0 .. n-1 : text[i] = ch }
<1>1. S \in SUBSET Int /\ r \in S
  OBVIOUS
<1>2. \A i \in S : r <= i
  <2> SUFFICES ASSUME NEW i \in S, ~(r <= i) PROVE FALSE
    OBVIOUS
  <2>1. i \in 0 .. r-1
    OBVIOUS
  <2> QED BY <2>1
<1> HIDE DEF S
<1>3. Min(S) = r
  BY <1>1, <1>2, MinIs
<1>4. First(S) = r
  BY <1>1, <1>3 DEF First
<1> QED BY <1>4 DEF MemChr, S

LEMMA MemChrIsNone ==
  ASSUME NEW text, NEW ch, NEW n \in Nat, \A i \in 0 .. n-1 : text[i] # ch
  PROVE  MemChr(text, ch, 0, n) = -1
<1>1. { i \in 0 .. n-1 : text[i] = ch } = {}
  OBVIOUS
<1> QED BY <1>1 DEF MemChr, First

\* The instance's MemChr is Matching's.
LEMMA SwarMemChrIs ==
  ASSUME NEW text, NEW cchNum, NEW val, NEW ptr, NEW pc, NEW result,
         NEW bits, NEW lanes, NEW maxLen
  PROVE  Swar(text, cchNum, val, ptr, pc, result, bits, lanes, maxLen)!MemChr(text, val, 0, cchNum)
           = MemChr(text, val, 0, cchNum)
BY DEF MemChr, First, Min, Swar!MemChr, Swar!First, Swar!Min

(***************************************************************************)
(* The test of the word at ptr says whether val is in it.                  *)
(***************************************************************************)
LEMMA AlarmIsMatch ==
  ASSUME NEW text, NEW cchNum, NEW val, NEW ptr, NEW pc, NEW result,
         NEW bits \in Nat \ {0}, NEW lanes \in Nat \ {0}, NEW maxLen \in Nat,
         Swar(text, cchNum, val, ptr, pc, result, bits, lanes, maxLen)!ScanInv,
         ptr + lanes <= cchNum
  PROVE  Swar(text, cchNum, val, ptr, pc, result, bits, lanes, maxLen)!Alarm
           <=> \E k \in 0 .. lanes - 1 : text[ptr + k] = val
<1> DEFINE c == [k \in 0 .. lanes - 1 |-> text[ptr + k]]
<1>1. val \in SUBSET (0 .. bits - 1) /\ text \in [0 .. cchNum - 1 -> SUBSET (0 .. bits - 1)]
      /\ ptr \in Nat /\ cchNum \in Nat
  BY DEF Swar!ScanInv, Swar!Char
<1>2. \A k \in 0 .. lanes - 1 : ptr + k \in 0 .. cchNum - 1
  BY <1>1
<1>3. c \in [0 .. lanes - 1 -> SUBSET (0 .. bits - 1)]
  BY <1>1, <1>2
<1>4. \A k \in 0 .. lanes - 1 : c[k] = text[ptr + k]
  OBVIOUS
<1> HIDE DEF c
<1>5. HasZeroLane(Xor(Pack(c, lanes, bits), Pack([k \in 0 .. lanes - 1 |-> val], lanes, bits)),
                  lanes, bits)
        <=> \E k \in 0 .. lanes - 1 : c[k] = val
  <2>1. lanes \in Nat /\ bits \in Nat \ {0}
    OBVIOUS
  <2>2. \A ch \in SUBSET (0 .. bits - 1) : \A x \in [0 .. lanes - 1 -> SUBSET (0 .. bits - 1)] :
          HasZeroLane(Xor(Pack(x, lanes, bits), Pack([k \in 0 .. lanes - 1 |-> ch], lanes, bits)),
                      lanes, bits)
            <=> \E k \in 0 .. lanes - 1 : x[k] = ch
    BY Zenon, <2>1, AlarmMeansMatch
  <2> QED BY Zenon, <1>1, <1>3, <2>2
<1>6. Swar(text, cchNum, val, ptr, pc, result, bits, lanes, maxLen)!Alarm
        = HasZeroLane(Xor(Pack(c, lanes, bits), Pack([k \in 0 .. lanes - 1 |-> val], lanes, bits)),
                      lanes, bits)
  BY DEF Swar!Alarm, Swar!Chunk, Swar!Broadcast, Swar!Lanes, c, HasZeroLane, Xor, Pack,
         Minus, Borrows, Precedes, Places, magic1, magic8,
         Swar!HasZeroLane, Swar!Xor, Swar!Pack, Swar!Minus, Swar!Borrows,
         Swar!Precedes, Swar!Places, Swar!magic1, Swar!magic8
<1> QED BY <1>4, <1>5, <1>6

(***************************************************************************)
(* What the loops have passed holds no val: ScanInv is inductive.          *)
(***************************************************************************)
LEMMA ScanInvariance ==
  ASSUME NEW VARIABLE text, NEW VARIABLE cchNum, NEW VARIABLE val,
         NEW VARIABLE ptr, NEW VARIABLE pc, NEW VARIABLE result,
         NEW CONSTANT bits \in Nat \ {0}, NEW CONSTANT lanes \in Nat \ {0},
         NEW CONSTANT maxLen \in Nat
  PROVE  Swar(text, cchNum, val, ptr, pc, result, bits, lanes, maxLen)!Safety
           => []Swar(text, cchNum, val, ptr, pc, result, bits, lanes, maxLen)!ScanInv
<1> DEFINE
      Init == Swar(text, cchNum, val, ptr, pc, result, bits, lanes, maxLen)!Init
      Next == Swar(text, cchNum, val, ptr, pc, result, bits, lanes, maxLen)!Next
      vars == Swar(text, cchNum, val, ptr, pc, result, bits, lanes, maxLen)!vars
      Inv  == Swar(text, cchNum, val, ptr, pc, result, bits, lanes, maxLen)!ScanInv
      Alarm == Swar(text, cchNum, val, ptr, pc, result, bits, lanes, maxLen)!Alarm
<1>1. Init => Inv
  BY DEF Swar!Init, Swar!ScanInv, Swar!IsMemChr
<1>2. Inv /\ [Next]_vars => Inv'
  <2> SUFFICES ASSUME Inv, [Next]_vars PROVE Inv'
    OBVIOUS
  <2>t. cchNum \in Nat /\ ptr \in 0 .. cchNum
    BY DEF Swar!ScanInv
  <2>1. CASE Swar(text, cchNum, val, ptr, pc, result, bits, lanes, maxLen)!ScanWords
    <3>1. CASE ptr + lanes <= cchNum /\ ~Alarm
      <4>1. \A k \in 0 .. lanes - 1 : text[ptr + k] # val
        BY <3>1, AlarmIsMatch
      <4>2. ASSUME NEW i \in 0 .. ptr + lanes - 1 PROVE text[i] # val
        <5>1. CASE i < ptr
          BY <2>1, <2>t, <5>1 DEF Swar!ScanWords, Swar!ScanInv
        <5>2. CASE ~(i < ptr)
          <6>1. i - ptr \in 0 .. lanes - 1 /\ ptr + (i - ptr) = i
            BY <2>t, <5>2
          <6> QED BY <4>1, <6>1
        <5> QED BY <5>1, <5>2
      <4>3. ptr' = ptr + lanes /\ pc' = pc /\ pc = "words"
            /\ UNCHANGED <<text, cchNum, val, result>>
        BY <2>1, <3>1 DEF Swar!ScanWords
      <4>4. ptr' \in 0 .. cchNum
        BY <2>t, <3>1, <4>3
      <4> QED BY <4>2, <4>3, <4>4 DEF Swar!ScanInv, Swar!IsMemChr, Swar!Char
    <3>2. CASE ~(ptr + lanes <= cchNum /\ ~Alarm)
      BY <2>1, <3>2 DEF Swar!ScanWords, Swar!ScanInv, Swar!IsMemChr, Swar!Char
    <3> QED BY <3>1, <3>2
  <2>2. CASE Swar(text, cchNum, val, ptr, pc, result, bits, lanes, maxLen)!ScanChars
    <3>0. pc = "chars" /\ UNCHANGED <<text, cchNum, val>> /\ \A i \in 0 .. ptr - 1 : text[i] # val
      BY <2>2 DEF Swar!ScanChars, Swar!ScanInv
    <3>1. CASE ptr < cchNum /\ text[ptr] = val /\ result' = ptr /\ pc' = "done" /\ UNCHANGED ptr
      <4>1. MemChr(text, val, 0, cchNum) = ptr
        BY <2>t, <3>0, <3>1, MemChrIs
      <4> QED BY <3>0, <3>1, <4>1, SwarMemChrIs DEF Swar!ScanInv, Swar!IsMemChr, Swar!Char
    <3>2. CASE ptr < cchNum /\ text[ptr] # val /\ ptr' = ptr + 1 /\ UNCHANGED <<pc, result>>
      <4>1. \A i \in 0 .. ptr' - 1 : text[i] # val
        BY <2>t, <3>0, <3>2
      <4>2. ptr' \in 0 .. cchNum
        BY <2>t, <3>2
      <4> QED BY <3>0, <3>2, <4>1, <4>2 DEF Swar!ScanInv, Swar!IsMemChr, Swar!Char
    <3>3. CASE ptr >= cchNum /\ result' = -1 /\ pc' = "done" /\ UNCHANGED ptr
      <4>1. ptr = cchNum
        BY <2>t, <3>3
      <4>2. MemChr(text, val, 0, cchNum) = -1
        BY <2>t, <3>0, <4>1, MemChrIsNone
      <4> QED BY <3>0, <3>3, <4>2, SwarMemChrIs DEF Swar!ScanInv, Swar!IsMemChr, Swar!Char
    <3> QED BY <2>2, <3>1, <3>2, <3>3 DEF Swar!ScanChars
  <2>3. CASE UNCHANGED vars
    BY <2>3 DEF Swar!vars, Swar!ScanInv, Swar!IsMemChr, Swar!Char
  <2> QED BY <2>1, <2>2, <2>3 DEF Swar!Next, Swar!Terminated
<1> HIDE DEF Init, Next, vars, Inv
<1>3. Init /\ [][Next]_vars => []Inv
  BY <1>1, <1>2, PTL
<1> QED BY <1>3 DEF Swar!Safety, Init, Next, vars, Inv

(***************************************************************************)
(* MemChrScalar and WMemChrScalar return the offset of the first match, or *)
(* -1 if there is none: SwarMemChr's IsMemChr.  So the searchers' models   *)
(* may use MemChr for them.                                                *)
(***************************************************************************)
THEOREM WordScanIsMemChr ==
  ASSUME NEW VARIABLE text, NEW VARIABLE cchNum, NEW VARIABLE val,
         NEW VARIABLE ptr, NEW VARIABLE pc, NEW VARIABLE result,
         NEW CONSTANT bits \in Nat \ {0}, NEW CONSTANT lanes \in Nat \ {0},
         NEW CONSTANT maxLen \in Nat
  PROVE  Swar(text, cchNum, val, ptr, pc, result, bits, lanes, maxLen)!Safety
           => []Swar(text, cchNum, val, ptr, pc, result, bits, lanes, maxLen)!IsMemChr
<1>1. Swar(text, cchNum, val, ptr, pc, result, bits, lanes, maxLen)!ScanInv
        => Swar(text, cchNum, val, ptr, pc, result, bits, lanes, maxLen)!IsMemChr
  BY DEF Swar!ScanInv
<1> QED BY <1>1, ScanInvariance, PTL

(***************************************************************************)
(* The word loop is left for the character loop only at a word that has    *)
(* the character, or where no whole word is left: SwarMemChr's             *)
(* NoFalseAlarm.                                                           *)
(***************************************************************************)
THEOREM WordLoopStopsOnlyAtMatch ==
  ASSUME NEW VARIABLE text, NEW VARIABLE cchNum, NEW VARIABLE val,
         NEW VARIABLE ptr, NEW VARIABLE pc, NEW VARIABLE result,
         NEW CONSTANT bits \in Nat \ {0}, NEW CONSTANT lanes \in Nat \ {0},
         NEW CONSTANT maxLen \in Nat
  PROVE  Swar(text, cchNum, val, ptr, pc, result, bits, lanes, maxLen)!Safety
           => Swar(text, cchNum, val, ptr, pc, result, bits, lanes, maxLen)!NoFalseAlarm
<1> DEFINE
      Next == Swar(text, cchNum, val, ptr, pc, result, bits, lanes, maxLen)!Next
      vars == Swar(text, cchNum, val, ptr, pc, result, bits, lanes, maxLen)!vars
      Inv  == Swar(text, cchNum, val, ptr, pc, result, bits, lanes, maxLen)!ScanInv
      Exact == pc = "words" /\ pc' = "chars" =>
                 \/ ptr + lanes > cchNum
                 \/ \E k \in 0 .. lanes - 1 : text[ptr + k] = val
<1>1. Inv /\ [Next]_vars => [Exact]_vars
  <2> SUFFICES ASSUME Inv, Next, pc = "words", pc' = "chars" PROVE
                 \/ ptr + lanes > cchNum
                 \/ \E k \in 0 .. lanes - 1 : text[ptr + k] = val
    OBVIOUS
  <2>1. Swar(text, cchNum, val, ptr, pc, result, bits, lanes, maxLen)!ScanWords
    BY DEF Swar!Next, Swar!ScanChars, Swar!Terminated, Swar!vars
  <2>2. ~(ptr + lanes <= cchNum /\ ~Swar(text, cchNum, val, ptr, pc, result, bits, lanes, maxLen)!Alarm)
    BY <2>1 DEF Swar!ScanWords
  <2>3. cchNum \in Nat /\ ptr \in Nat
    BY DEF Swar!ScanInv
  <2>4. CASE ptr + lanes <= cchNum
    <3>1. Swar(text, cchNum, val, ptr, pc, result, bits, lanes, maxLen)!Alarm
      BY Zenon, <2>2, <2>4
    <3>2. Swar(text, cchNum, val, ptr, pc, result, bits, lanes, maxLen)!Alarm
            <=> \E k \in 0 .. lanes - 1 : text[ptr + k] = val
      BY <2>4, AlarmIsMatch
    <3> QED BY Zenon, <3>1, <3>2
  <2> QED BY <2>3, <2>4
<1>2. Swar(text, cchNum, val, ptr, pc, result, bits, lanes, maxLen)!Safety
       => [][Exact]_vars
  BY <1>1, ScanInvariance, PTL DEF Swar!Safety
<1> QED BY <1>2 DEF Swar!NoFalseAlarm, Swar!Lanes
=============================================================================
