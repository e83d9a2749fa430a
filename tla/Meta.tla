-------------------------------- MODULE Meta --------------------------------
(***************************************************************************)
(* Maman13/Question3/meta.py: code is added in front of every method of    *)
(* the classes of a file, class after class in the order of their names,   *)
(* and the methods of a class are called before the next class is wrapped. *)
(* What is hard is inheritance: the methods of a class are those it        *)
(* inherits too, and those may have been wrapped already, or may be later. *)
(*                                                                         *)
(* A function is the method it was written as and how often it has been    *)
(* wrapped.  What the code and the methods do is left out, but for their   *)
(* raising; so is multiple inheritance.                                    *)
(***************************************************************************)
EXTENDS Naturals, Sequences, FiniteSetsExt

CONSTANTS
  Classes,  \* numbers: a class has a higher one than its base
  Methods,  \* numbers, in the order of the names of the methods
  Files     \* the files that are entered

object == 0

(* names: the classes that the names of the module stand for, in order; a  *)
(* class may be imported, have two names or, if it is a base, none.        *)
(* parameterless: the static methods without parameters.                   *)
FileOf == [names : Seq(Classes), base : [Classes -> Classes \cup {object}],
           own : [Classes -> SUBSET Methods], parameterless : SUBSET Methods]

ASSUME MetaAssumption ==
  /\ Classes \cup Methods \subseteq Nat \ {object}
  /\ Files \subseteq FileOf
  /\ \A f \in Files, c \in Classes : f.base[c] < c

VARIABLES
  file,    \* the module, or NoFile
  attrs,   \* [c][m]: the function that class c has itself under name m
  visited, \* how many of the names have been wrapped
  todo,    \* the methods of the last of them that are still to be called, a set
  called,  \* the last call: [code, original] executions, or NotCalled
  ended    \* "no", "invalid", "done" or "raised"

metaVars == <<file, attrs, visited, todo, called, ended>>

NoFile    == [names |-> <<>>]
NotCalled == [code |-> 0, original |-> FALSE]

MetaInit ==
  /\ file = NoFile /\ attrs = <<>> /\ visited = 0 /\ todo = {}
  /\ called = NotCalled /\ ended = "no"

Class == file.names[visited]

(* With each class its base, up to object *)
HasBases(S) == \A d \in S : file.base[d] \in S \cup {object}

(* c and the classes it inherits from: no set with c and its bases is smaller *)
Line(c) == {d \in Classes : \A S \in SUBSET Classes : c \in S /\ HasBases(S) => d \in S}

(* The classes that table has m in, for c; a class comes before its base   *)
(* and has a higher number, so the one that is found is the highest.       *)
Holders(table, c, m) == {d \in Line(c) : m \in table[d]}
Holder(table, c, m) == Max(Holders(table, c, m))

OwnNames == [d \in Classes |-> DOMAIN attrs[d]]

HasMethod(c, m) == Holders(OwnNames, c, m) # {}

Function(c, m) == attrs[Holder(OwnNames, c, m)][m]

(* inspect.getmembers: a set, taken in the order of the names. *)
get_methods(c) == {m \in Methods : HasMethod(c, m)}

-----------------------------------------------------------------------------
(* The file exists and the code parses; it is imported. *)
Open(f) ==
  /\ file' = f
  /\ attrs' = [c \in Classes |-> [m \in f.own[c] |-> [of |-> <<c, m>>, code |-> 0]]]
  /\ UNCHANGED <<visited, todo, called, ended>>

(* The file or the code is not valid, or the import raises. *)
FailToOpen ==
  /\ ended' \in {"invalid", "raised"}
  /\ UNCHANGED <<file, attrs, visited, todo, called>>

method_wrapper(function) == [function EXCEPT !.code = @ + 1]

(* Variant: the functions call the method of the last turn of the loop. *)
WrapMethodsLate(c, methods) ==
  [attrs EXCEPT ![c] =
     [m \in DOMAIN @ \cup methods |->
        IF m \in methods THEN method_wrapper(Function(c, Max(methods))) ELSE @[m]]]

(* Variant: inherited methods are wrapped where they are inherited from. *)
WrapMethodsOwn(c, methods) ==
  [attrs EXCEPT ![c] = [m \in DOMAIN @ |-> method_wrapper(@[m])]]

(* setattr of the class, for its inherited methods too *)
wrap_methods(c, methods) ==
  [attrs EXCEPT ![c] =
     [m \in DOMAIN @ \cup methods |->
        IF m \in methods THEN method_wrapper(Function(c, m)) ELSE @[m]]]

Visit ==
  /\ file # NoFile /\ ended = "no"
  /\ todo = {} /\ visited < Len(file.names)
  /\ LET c == file.names[visited + 1] IN
       /\ attrs' = wrap_methods(c, get_methods(c))
       /\ todo' = get_methods(c)
  /\ visited' = visited + 1
  /\ UNCHANGED <<file, called, ended>>

(* Variant: the function is called that the class had before. *)
WrappersUnderneath(m) == Function(Class, m).code - 1

(* getattr finds what setattr has stored. *)
Wrappers(m) == Function(Class, m).code

Turn == Min(todo)

(* A wrapper needs an argument for self. *)
Takes(m) == m \notin file.parameterless

(* Each wrapper runs the code, and the innermost calls the method. *)
Call ==
  /\ todo # {} /\ ended = "no" /\ Takes(Turn)
  /\ todo' = todo \ {Turn}
  /\ called' = [code |-> Wrappers(Turn), original |-> TRUE]
  /\ UNCHANGED <<file, attrs, visited, ended>>

(* The code or the method raises, or there is no argument for the wrapper. *)
CallRaises ==
  /\ todo # {} /\ ended = "no"
  /\ LET most == Wrappers(Turn) IN
       called' \in IF Takes(Turn)
                     THEN [code : 1 .. most, original : {FALSE}] \cup
                          {[code |-> most, original |-> TRUE]}
                     ELSE {NotCalled}
  /\ ended' = "raised"
  /\ UNCHANGED <<file, attrs, visited, todo>>

Finish ==
  /\ file # NoFile /\ ended = "no" /\ todo = {} /\ visited = Len(file.names)
  /\ ended' = "done"
  /\ UNCHANGED <<file, attrs, visited, todo, called>>

MetaNext ==
  \/ file = NoFile /\ ended = "no" /\ (FailToOpen \/ \E f \in Files : Open(f))
  \/ Visit \/ Call \/ CallRaises \/ Finish

MetaSpec == MetaInit /\ [][MetaNext]_metaVars

-----------------------------------------------------------------------------
(* A method goes on calling the method that was written for it: the class  *)
(* that its class inherits it from is the same as in the file.             *)
OriginalsAreKept ==
  file # NoFile =>
    \A c \in Classes, m \in Methods :
      /\ HasMethod(c, m) <=> Holders(file.own, c, m) # {}
      /\ HasMethod(c, m) => Function(c, m).of = <<Holder(file.own, c, m), m>>

(* The names that have been visited whose class is c or in between c and   *)
(* the class it inherits m from. *)
VisitsTo(c, m) ==
  {k \in 1 .. visited : /\ file.names[k] \in Line(c)
                        /\ file.names[k] >= Holder(file.own, c, m)}

(* A method has code in front of it once its class, or one in between it   *)
(* and the class that the method is inherited from, has been visited, and  *)
(* at most once for each of these visits.                                  *)
CodeReachesEveryMethod ==
  file # NoFile =>
    \A c \in Classes, m \in Methods : HasMethod(c, m) =>
      LET visits == Cardinality(VisitsTo(c, m))
      IN  (visits > 0 => Function(c, m).code > 0) /\ Function(c, m).code <= visits

(* No method is called without the code before it. *)
CodeRunsFirst == called.original => called.code > 0
=============================================================================
