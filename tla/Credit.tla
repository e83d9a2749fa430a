------------------------------- MODULE Credit -------------------------------
(***************************************************************************)
(* Maman12/Question1: is a customer entitled to a promotional gift?  The   *)
(* credit is an int and the bound an unsigned int, which C++ compares as   *)
(* unsigned.                                                               *)
(***************************************************************************)
EXTENDS Integers

CONSTANTS
  Half,  \* an int is in -Half .. Half - 1, an unsigned int below 2 * Half
  Bound  \* 750

ASSUME CreditAssumption == Half \in Nat \ {0} /\ Bound \in 0 .. Half

VARIABLES
  ID,     \* the argument of both functions, or NoID
  gift,   \* the answer of is_entitled_for_promotional_gift
  fixed   \* the answer of is_entitled_for_promotional_gift_fixed

creditVars == <<ID, gift, fixed>>

Ints == -Half .. Half - 1
NoID == Half

CreditInit == ID = NoID /\ gift = FALSE /\ fixed = FALSE

(* The conversion of an int to an unsigned int. *)
Unsigned(i) == IF i < 0 THEN i + 2 * Half ELSE i

get_credit(i) == i

is_entitled_for_promotional_gift(i) == Unsigned(get_credit(i)) >= Bound

(* Variant: negative credits are not told apart. *)
EntitledUnchecked(i) == Unsigned(get_credit(i)) >= Bound

is_entitled_for_promotional_gift_fixed(i) ==
  ~ get_credit(i) < 0 /\ Unsigned(get_credit(i)) >= Bound

Ask(i) ==
  /\ ID' = i
  /\ gift' = is_entitled_for_promotional_gift(i)
  /\ fixed' = is_entitled_for_promotional_gift_fixed(i)

CreditNext == ID = NoID /\ \E i \in Ints : Ask(i)

CreditSpec == CreditInit /\ [][CreditNext]_creditVars

-----------------------------------------------------------------------------
(* Who has a credit of at least the bound gets the gift, and nobody else;  *)
(* before the fix, those with a negative credit got it too.                *)
GiftsAreEarned ==
  ID # NoID => /\ fixed <=> ID >= Bound
               /\ gift <=> ID >= Bound \/ ID < 0
=============================================================================
