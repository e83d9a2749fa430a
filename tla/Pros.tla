-------------------------------- MODULE Pros --------------------------------
(***************************************************************************)
(* get_new_class of Maman13/Question3/pros.py: a class made from four      *)
(* names that the user enters.  The checks come in an order, each a        *)
(* getattr of the module that raises AttributeError for a name it lacks.   *)
(***************************************************************************)

CONSTANTS
  Names,      \* the names the user may enter
  Blank,      \* the empty string
  ClassNames, \* the names of classes in the module
  OtherNames  \* its other names: functions and imported modules

ASSUME ProsAssumption ==
  /\ Blank \in Names \ (ClassNames \cup OtherNames)
  /\ ClassNames \cap OtherNames = {}

VARIABLES
  defs,   \* CustomClassDefs, or NoDefs
  made    \* what get_new_class returns, or the exception it raises

prosVars == <<defs, made>>

NoDefs == [name |-> Blank]
CustomClassDefs == [name : Names, base_cls : Names, method : Names, attribute : Names]

HasAttr(n) == n \in ClassNames \cup OtherNames

Raises(exception) == [exception |-> exception]

(* type(name, bases, dict): a dict has a key once, with its last value. *)
NewClass(d) ==
  [exception |-> "none",
   name  |-> d.name,
   bases |-> IF d.base_cls = Blank THEN {} ELSE {d.base_cls},
   dict  |-> [a \in {d.method, d.attribute} |-> IF a = d.method THEN "method" ELSE "None"]]

ProsInit == defs = NoDefs /\ made = Raises("none")

(* Variant: names the module has already are taken again. *)
NewOrTaken(d) ==
  IF d.base_cls # Blank /\ ~HasAttr(d.base_cls) THEN Raises("BaseClassNotFound")
  ELSE IF d.base_cls \in OtherNames THEN Raises("WantedBaseClassIsNotAClass")
  ELSE IF Blank \in {d.name, d.attribute, d.method} THEN Raises("InvalidName")
  ELSE NewClass(d)

get_new_class(d) ==
  IF d.base_cls # Blank /\ ~HasAttr(d.base_cls) THEN Raises("BaseClassNotFound")
  ELSE IF d.base_cls \in OtherNames THEN Raises("WantedBaseClassIsNotAClass")
  ELSE IF HasAttr(d.name) THEN Raises("ClassAlreadyExists")
  ELSE IF Blank \in {d.name, d.attribute, d.method} THEN Raises("InvalidName")
  ELSE NewClass(d)

Make(d) == defs' = d /\ made' = get_new_class(d)

ProsNext == defs = NoDefs /\ \E d \in CustomClassDefs : Make(d)

ProsSpec == ProsInit /\ [][ProsNext]_prosVars

-----------------------------------------------------------------------------
(* What the comment in get_new_class argues: a class is never made that is *)
(* its own base, though nothing compares the two names.  And it is new,    *)
(* its base is a class, and it has the method.                             *)
NewClassesAreSound ==
  "name" \in DOMAIN made =>
    /\ made.name \notin made.bases \cup ClassNames
    /\ made.bases \subseteq ClassNames
    /\ made.dict[defs.method] = "method"
=============================================================================
