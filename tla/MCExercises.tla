---------------------------- MODULE MCExercises ----------------------------
(***************************************************************************)
(* The programs of Maman12/Question1 and Maman13/Question3 for TLC, one of *)
(* them in a behaviour.                                                    *)
(***************************************************************************)
EXTENDS Integers, Credit, Pros, Meta

CONSTANT MaxNames

(* Up to MaxNames names of classes with one base each. *)
AllFiles ==
  [names : UNION {[1 .. k -> Classes] : k \in 0 .. MaxNames},
   base : {b \in [Classes -> Classes \cup {object}] : \A c \in Classes : b[c] < c},
   own : [Classes -> SUBSET Methods],
   parameterless : {{}, Methods}]

vars == <<creditVars, prosVars, metaVars>>

Init == CreditInit /\ ProsInit /\ MetaInit

Next ==
  \/ ProsInit /\ MetaInit /\ CreditNext /\ UNCHANGED <<prosVars, metaVars>>
  \/ CreditInit /\ MetaInit /\ ProsNext /\ UNCHANGED <<creditVars, metaVars>>
  \/ CreditInit /\ ProsInit /\ MetaNext /\ UNCHANGED <<creditVars, prosVars>>

Spec == Init /\ [][Next]_vars
=============================================================================
