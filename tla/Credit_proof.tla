---------------------------- MODULE Credit_proof ----------------------------
(***************************************************************************)
(* Who is entitled to the gift, for ints of every width and every bound.   *)
(***************************************************************************)
EXTENDS Credit, TLAPS

(* An unsigned int that was a negative int is in the upper half. *)
LEMMA NegativesAreLarge ==
  ASSUME NEW i \in Ints
  PROVE  is_entitled_for_promotional_gift(i) <=> i >= Bound \/ i < 0
BY CreditAssumption DEF is_entitled_for_promotional_gift, get_credit, Ints, Unsigned

(* The corrected function says yes to the credits from the bound on.       *)
LEMMA TheFixIsExact ==
  ASSUME NEW i \in Ints
  PROVE  is_entitled_for_promotional_gift_fixed(i) <=> i >= Bound
BY CreditAssumption DEF is_entitled_for_promotional_gift_fixed, get_credit, Ints, Unsigned

(* The fixed function gives the gift to those who have a credit of at      *)
(* least the bound; the other one to those with a negative credit, too.    *)
THEOREM GiftsAreEarnedInvariant == CreditSpec => []GiftsAreEarned
<1>1. CreditInit => GiftsAreEarned
  BY DEF CreditInit, GiftsAreEarned
<1>2. GiftsAreEarned /\ [CreditNext]_creditVars => GiftsAreEarned'
  <2>1. ASSUME NEW i \in Ints, Ask(i)
        PROVE  GiftsAreEarned'
    <3>1. ID' = i
      BY <2>1 DEF Ask
    <3>2. fixed' <=> ID' >= Bound
      BY <2>1, <3>1, TheFixIsExact, Zenon DEF Ask
    <3>3. gift' <=> ID' >= Bound \/ ID' < 0
      BY <2>1, <3>1, NegativesAreLarge, Zenon DEF Ask
    <3> QED BY <3>2, <3>3, Zenon DEF GiftsAreEarned
  <2>2. CASE UNCHANGED creditVars
    BY <2>2, Zenon DEF creditVars, GiftsAreEarned, NoID
  <2>3. ASSUME GiftsAreEarned, [CreditNext]_creditVars
        PROVE  GiftsAreEarned'
    BY <2>1, <2>2, <2>3, Zenon DEF CreditNext
  <2> QED BY <2>3
<1> QED BY <1>1, <1>2, PTL DEF CreditSpec
=============================================================================
