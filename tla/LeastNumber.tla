----------------------------- MODULE LeastNumber -----------------------------
(***************************************************************************)
(* The least number of a set, and induction over the natural numbers.  The *)
(* induction theorems of the library speak of an operator; what follows is *)
(* stated of a set, from the library's theorem that < is well founded, and *)
(* is enough for the descriptors (the lowest free one is taken), for the   *)
(* bytes of a pipe and for the errors of a check.                          *)
(***************************************************************************)
EXTENDS Integers, FiniteSetsExt, WellFoundedInduction, TLAPS

(* A set of natural numbers has a least one. *)
LEMMA Least ==
  ASSUME NEW S \in SUBSET Nat, S # {}
  PROVE  \E x \in S : \A y \in S : x <= y
<1> DEFINE R == OpToRel(<, Nat)
<1>1. IsWellFoundedOn(R, Nat)
  BY NatLessThanWellFounded
<1>2. R = {ss \in Nat \X Nat : ss[1] < ss[2]}
  BY DEF OpToRel
<1>3. \A x, y \in Nat : y < x => <<y, x>> \in R
  BY <1>2
<1> HIDE DEF R
<1>4. PICK x \in S : \A y \in S : <<y, x>> \notin R
  BY <1>1, WFMin
<1>5. \A y \in S : x \in Nat /\ y \in Nat /\ ~(y < x)
  BY <1>3, <1>4
<1>6. \A y \in S : x <= y
  BY <1>5
<1> QED BY <1>6

(* Min(S) is that number. *)
LEMMA MinInSet ==
  ASSUME NEW S \in SUBSET Nat, S # {}
  PROVE  Min(S) \in S /\ \A y \in S : Min(S) <= y
BY Least DEF Min

(* Max(S) is the greatest number of a set that has a bound. *)
LEMMA MaxInSet ==
  ASSUME NEW n \in Nat, NEW S \in SUBSET (1..n), S # {}
  PROVE  Max(S) \in S /\ \A y \in S : y <= Max(S)
<1>1. PICK U : U = {u \in Nat : \A y \in S : y <= u}
  OBVIOUS
<1>2. n \in U /\ U \in SUBSET Nat
  BY <1>1
<1>3. PICK x \in U : \A u \in U : x <= u
  BY <1>2, Least
<1>4. x \in Nat /\ \A y \in S : y \in Nat /\ 1 <= y /\ y <= x
  BY <1>1, <1>3
<1>5. x \in S
  <2> SUFFICES ASSUME x \notin S PROVE FALSE
    OBVIOUS
  <2>1. ASSUME NEW y \in S PROVE x - 1 \in Nat /\ y <= x - 1
    <3>1. y \in Nat /\ 1 <= y /\ y <= x /\ y # x
      BY <1>4
    <3> QED BY <1>4, <3>1
  <2>2. x - 1 \in U
    BY <1>1, <2>1
  <2> QED BY <1>3, <1>4, <2>2
<1>6. \A y \in S : x >= y
  BY <1>4
<1>7. PICK m \in S : (\A y \in S : m >= y) /\ m = Max(S)
  BY <1>5, <1>6 DEF Max
<1>8. m \in Nat /\ \A y \in S : y <= m
  BY <1>4, <1>7
<1> QED BY <1>7, <1>8

(* A set with 0, and with every number's successor, has every number.      *)
LEMMA SetInduction ==
  ASSUME NEW S, 0 \in S, \A n \in Nat : n \in S => n + 1 \in S
  PROVE  \A n \in Nat : n \in S
<1> SUFFICES ASSUME NEW m \in Nat, m \notin S PROVE FALSE
  OBVIOUS
<1>1. PICK T : T = {n \in Nat : n \notin S}
  OBVIOUS
<1>2. T \in SUBSET Nat /\ T # {}
  BY <1>1
<1>3. PICK x \in T : \A y \in T : x <= y
  BY <1>2, Least
<1>4. x \in Nat /\ x \notin S /\ x # 0
  BY <1>1, <1>3
<1>5. x - 1 \in Nat /\ x - 1 \notin T
  BY <1>2, <1>3, <1>4
<1>6. x - 1 \in S /\ (x - 1) + 1 = x
  BY <1>1, <1>4, <1>5
<1> QED BY <1>4, <1>5, <1>6
===============================================================================
