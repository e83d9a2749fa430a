--------------------------- MODULE Exercises_proof ---------------------------
(***************************************************************************)
(* The two programs of Maman13/Question3: the classes that pros.py makes   *)
(* from any four names, and the methods that meta.py wraps in files with   *)
(* any number of classes, whatever the order of their names.               *)
(***************************************************************************)
EXTENDS Pros, Meta, FiniteSetTheorems, WellFoundedInduction, TLAPS

-----------------------------------------------------------------------------
(* pros.py *)

(* At most one class is asked for, and made is what get_new_class answers. *)
ProsInv ==
  \/ defs = NoDefs /\ made = Raises("none")
  \/ defs \in CustomClassDefs /\ made = get_new_class(defs)

(* A class that get_new_class makes is new, is not its own base, has a     *)
(* class of the module for a base or none, and has the method.             *)
THEOREM NewClassesStaySound == ProsSpec => []NewClassesAreSound
<1>1. ProsInit => ProsInv
  BY DEF ProsInit, ProsInv
<1>2. ProsInv /\ [ProsNext]_prosVars => ProsInv'
  <2>1. ProsInv /\ ProsNext => ProsInv'
    BY DEF ProsInv, ProsNext, Make
  <2>2. ProsInv /\ UNCHANGED prosVars => ProsInv'
    BY DEF ProsInv, prosVars
  <2> QED BY <2>1, <2>2
<1>3. ProsInv => NewClassesAreSound
  <2> SUFFICES ASSUME ProsInv, "name" \in DOMAIN made
               PROVE  /\ made.name \notin made.bases \cup ClassNames
                      /\ made.bases \subseteq ClassNames
                      /\ made.dict[defs.method] = "method"
    BY DEF NewClassesAreSound
  <2>1. \A e : "name" \notin DOMAIN Raises(e)
    BY DEF Raises
  <2>2. made = get_new_class(defs)
    BY <2>1 DEF ProsInv
  <2>3. /\ defs.base_cls = Blank \/ HasAttr(defs.base_cls)
        /\ defs.base_cls \notin OtherNames /\ ~HasAttr(defs.name)
        /\ made = NewClass(defs)
    BY <2>1, <2>2 DEF get_new_class
  <2>4. made.bases = (IF defs.base_cls = Blank THEN {} ELSE {defs.base_cls})
    BY <2>3 DEF NewClass
  <2>5. made.bases \subseteq ClassNames
    BY <2>3, <2>4 DEF HasAttr
  <2>6. made.name = defs.name /\ made.name \notin ClassNames
    BY <2>3 DEF NewClass, HasAttr
  <2>7. made.dict[defs.method] = "method"
    BY <2>3 DEF NewClass
  <2> QED BY <2>5, <2>6, <2>7
<1> QED BY <1>1, <1>2, <1>3, PTL DEF ProsSpec

-----------------------------------------------------------------------------
(* The numbers of classes and methods *)

(* A set of natural numbers has a least one. *)
LEMMA MinIsLeast ==
  ASSUME NEW S \in SUBSET Nat, S # {}
  PROVE  Min(S) \in S /\ \A x \in S : Min(S) <= x
<1>1. PICK x \in S : \A y \in S : ~(<<y, x>> \in OpToRel(<, Nat))
  BY NatLessThanWellFounded, WFMin
<1>2. ASSUME NEW y \in S
      PROVE  x <= y
  <2>1. <<y, x>> \in Nat \X Nat
    OBVIOUS
  <2>2. OpToRel(<, Nat) = {pair \in Nat \X Nat : pair[1] < pair[2]}
    BY DEF OpToRel
  <2>3. ~(y < x)
    BY <1>1, <2>1, <2>2
  <2> QED BY <2>3
<1> QED BY <1>2 DEF Min

(* A set of natural numbers with a bound has a greatest one. *)
LEMMA MaxIsGreatest ==
  ASSUME NEW S \in SUBSET Nat, S # {}, NEW n \in Nat, \A x \in S : x <= n
  PROVE  Max(S) \in S /\ \A x \in S : x <= Max(S)
<1> DEFINE T == {k \in Nat : n - k \in S}
<1>1. T \in SUBSET Nat /\ T # {}
  <2>1. PICK x \in S : TRUE
    OBVIOUS
  <2>2. n - x \in Nat /\ n - (n - x) = x
    BY <2>1
  <2> QED BY <2>1, <2>2
<1>2. PICK k \in T : \A l \in T : k <= l
  BY <1>1, MinIsLeast
<1>3. n - k \in S
  BY <1>2
<1>4. ASSUME NEW x \in S
      PROVE  x <= n - k
  <2>1. n - x \in Nat /\ n - (n - x) = x
    OBVIOUS
  <2>2. n - x \in T
    BY <2>1
  <2>3. k <= n - x
    BY <1>2, <2>2
  <2> QED BY <1>2, <2>1, <2>3
<1>5. \E x \in S : \A y \in S : x >= y
  BY <1>3, <1>4
<1> QED BY <1>5 DEF Max

-----------------------------------------------------------------------------
(* Classes and those they inherit from *)

(* A file has classes whose bases have lower numbers. *)
LEMMA BasesAreLower ==
  ASSUME file \in Files
  PROVE  /\ Classes \in SUBSET Nat /\ object \notin Classes
         /\ \A d \in Classes : file.base[d] \in Classes \cup {object} /\ file.base[d] < d
         /\ file.names \in Seq(Classes)
         /\ \A d \in Classes : file.own[d] \in SUBSET Methods
         /\ Methods \in SUBSET Nat
<1>1. /\ Classes \cup Methods \subseteq Nat \ {object}
      /\ file \in FileOf
      /\ \A c \in Classes : file.base[c] < c
  BY MetaAssumption
<1> QED BY <1>1 DEF FileOf

(* No file is entered that is the absence of one. *)
LEMMA NoFileIsNone == NoFile \notin Files
<1> SUFFICES ASSUME NoFile \in Files
             PROVE  FALSE
  OBVIOUS
<1>1. NoFile \in FileOf
  BY MetaAssumption
<1>2. DOMAIN NoFile = {"names"}
  BY DEF NoFile
<1>3. "base" \in DOMAIN NoFile
  BY <1>1 DEF FileOf
<1> QED BY <1>2, <1>3

(* The line of a class has the class, and with each class its base. *)
LEMMA LineIsClosed ==
  ASSUME file \in Files, NEW c \in Classes
  PROVE  c \in Line(c) /\ Line(c) \in SUBSET Classes /\ HasBases(Line(c))
<1>1. c \in Line(c) /\ Line(c) \in SUBSET Classes
  BY DEF Line
<1>2. ASSUME NEW d \in Line(c), file.base[d] # object
      PROVE  file.base[d] \in Line(c)
  <2>1. file.base[d] \in Classes
    BY <1>1, <1>2, BasesAreLower
  <2>2. ASSUME NEW S \in SUBSET Classes, c \in S, HasBases(S)
        PROVE  file.base[d] \in S
    <3>1. d \in S
      BY <2>2 DEF Line
    <3> QED BY <1>2, <2>2, <3>1 DEF HasBases
  <2> QED BY <2>1, <2>2 DEF Line
<1>3. HasBases(Line(c))
  BY <1>2 DEF HasBases
<1> QED BY <1>1, <1>3

(* No smaller set has them. *)
LEMMA LineIsLeast ==
  ASSUME NEW c, NEW S \in SUBSET Classes, c \in S, HasBases(S)
  PROVE  Line(c) \subseteq S
BY DEF Line

(* A line goes down. *)
LEMMA LineDescends ==
  ASSUME file \in Files, NEW c \in Classes, NEW d \in Line(c)
  PROVE  d <= c
<1> DEFINE S == {x \in Classes : x <= c}
<1>1. c \in S /\ S \in SUBSET Classes
  BY BasesAreLower
<1>2. HasBases(S)
  BY BasesAreLower DEF HasBases
<1> HIDE DEF S
<1>3. d \in S
  BY <1>1, <1>2, LineIsLeast
<1> QED BY <1>3 DEF S

(* The line of a class in a line is a part of it. *)
LEMMA LineIsTransitive ==
  ASSUME file \in Files, NEW c \in Classes, NEW d \in Line(c)
  PROVE  d \in Classes /\ Line(d) \subseteq Line(c)
BY LineIsClosed, LineIsLeast

(* After the class come its base and the line of its base. *)
LEMMA LineOfBase ==
  ASSUME file \in Files, NEW c \in Classes, NEW d \in Line(c), d # c
  PROVE  file.base[c] \in Classes /\ d \in Line(file.base[c])
<1> DEFINE b == file.base[c]
           rest == IF b \in Classes THEN Line(b) ELSE {}
           S == {c} \cup rest
<1>1. b \in Classes \cup {object}
  BY BasesAreLower
<1>2. rest \in SUBSET Classes /\ HasBases(rest) /\ (b \in Classes => b \in rest)
  BY LineIsClosed DEF HasBases
<1> HIDE DEF rest
<1>3. HasBases(S)
  BY <1>1, <1>2 DEF HasBases
<1>4. d \in S
  <2>1. c \in S /\ S \in SUBSET Classes
    BY <1>2
  <2> HIDE DEF S
  <2> QED BY <1>3, <2>1, LineIsLeast
<1>5. d \in rest
  BY <1>4
<1> QED BY <1>5 DEF rest

(* Of two classes in a line the lower one is in the line of the higher. *)
LEMMA LineIsChain ==
  ASSUME file \in Files, NEW c \in Classes, NEW d \in Line(c), NEW e \in Line(c), d <= e
  PROVE  d \in Line(e)
<1>1. d \in Classes /\ e \in Classes /\ Classes \in SUBSET Nat
  BY LineIsClosed, BasesAreLower
<1> DEFINE S == {x \in Classes : e \in Line(x) \/ x \in Line(e)}
<1>2. c \in S /\ S \in SUBSET Classes
  OBVIOUS
<1>3. ASSUME NEW x \in S, file.base[x] # object
      PROVE  file.base[x] \in S
  <2>1. file.base[x] \in Classes
    BY <1>3, BasesAreLower
  <2>2. CASE x \in Line(e)
    <3>1. file.base[x] \in Line(e)
      BY <1>1, <1>3, <2>2, LineIsClosed DEF HasBases
    <3> QED BY <2>1, <3>1
  <2>3. CASE e \in Line(x) /\ e # x
    <3>1. e \in Line(file.base[x])
      BY <2>3, LineOfBase
    <3> QED BY <2>1, <3>1
  <2>4. CASE e = x
    BY <1>1, <2>2, <2>4, LineIsClosed
  <2> QED BY <2>2, <2>3, <2>4
<1>4. HasBases(S)
  BY <1>3 DEF HasBases
<1> HIDE DEF S
<1>5. d \in S
  BY <1>2, <1>4, LineIsLeast
<1>6. e \in Line(d) \/ d \in Line(e)
  BY <1>5 DEF S
<1>7. CASE e \in Line(d)
  <2>1. e <= d
    BY <1>1, <1>7, LineDescends
  <2>2. d = e
    BY <1>1, <2>1
  <2> QED BY <1>7, <2>2
<1> QED BY <1>6, <1>7

(* The class that has a method for a class, if there is one, is the        *)
(* highest of those in its line that have it.                              *)
LEMMA HolderIsFirst ==
  ASSUME file \in Files, NEW table, NEW c \in Classes, NEW m, Holders(table, c, m) # {}
  PROVE  /\ Holder(table, c, m) \in Holders(table, c, m)
         /\ Holder(table, c, m) \in Line(c) /\ Holder(table, c, m) \in Classes
         /\ \A d \in Holders(table, c, m) : d <= Holder(table, c, m)
<1>1. Holders(table, c, m) \subseteq Line(c) /\ Line(c) \subseteq Classes
  BY LineIsClosed DEF Holders
<1>2. Classes \in SUBSET Nat
  BY BasesAreLower
<1>3. Holders(table, c, m) \in SUBSET Nat /\ c \in Nat
  BY <1>1, <1>2
<1>4. \A d \in Holders(table, c, m) : d <= c
  BY <1>1, LineDescends
<1> QED BY <1>1, <1>3, <1>4, MaxIsGreatest DEF Holder

(* It is the only one of them that is not lower than another. *)
LEMMA HolderIs ==
  ASSUME file \in Files, NEW table, NEW c \in Classes, NEW m, NEW d \in Holders(table, c, m),
         \A e \in Holders(table, c, m) : e <= d
  PROVE  Holder(table, c, m) = d
<1> DEFINE h == Holder(table, c, m)
<1>1. h \in Holders(table, c, m) /\ d <= h
  BY HolderIsFirst
<1>2. h <= d
  BY <1>1
<1>3. h \in Nat /\ d \in Nat
  BY <1>1, LineIsClosed, BasesAreLower DEF Holders
<1> QED BY <1>1, <1>2, <1>3

(* A class that inherits a method from another through a third has it from *)
(* the third as well, and from the same one.                               *)
LEMMA HolderInBetween ==
  ASSUME file \in Files, NEW table, NEW c \in Classes, NEW m, Holders(table, c, m) # {},
         NEW d \in Line(c), Holder(table, c, m) <= d
  PROVE  Holders(table, d, m) # {} /\ Holder(table, d, m) = Holder(table, c, m)
<1> DEFINE h == Holder(table, c, m)
<1>1. /\ h \in Holders(table, c, m) /\ h \in Line(c) /\ h \in Classes
      /\ \A e \in Holders(table, c, m) : e <= h
  BY HolderIsFirst
<1>2. h \in Line(d)
  BY <1>1, LineIsChain
<1>3. d \in Classes /\ Line(d) \subseteq Line(c)
  BY LineIsTransitive
<1>4. h \in Holders(table, d, m) /\ Holders(table, d, m) \subseteq Holders(table, c, m)
  BY <1>1, <1>2, <1>3 DEF Holders
<1> QED BY <1>1, <1>3, <1>4, HolderIs

-----------------------------------------------------------------------------
(* meta.py: the inductive invariant *)

(* Every class has the methods written for it, and only functions. *)
AttrsTyped ==
  /\ DOMAIN attrs = Classes
  /\ \A c \in Classes :
       /\ file.own[c] \subseteq DOMAIN attrs[c] /\ DOMAIN attrs[c] \subseteq Methods
       /\ \A m \in DOMAIN attrs[c] : attrs[c][m] \in [of : Classes \X Methods, code : Nat]

(* A function of a class is the method that the file has for it. *)
OriginsAreInherited ==
  \A c \in Classes : \A m \in DOMAIN attrs[c] :
    Holders(file.own, c, m) # {} /\ attrs[c][m].of = <<Holder(file.own, c, m), m>>

(* A class that got a function it inherits has been visited. *)
CopiesAreVisited ==
  \A c \in Classes : \A m \in DOMAIN attrs[c] \ file.own[c] :
    \E k \in 1 .. visited : file.names[k] = c

(* The methods still to be called are those of the class visited last. *)
TodoIsOfClass == todo # {} => visited > 0 /\ todo \subseteq get_methods(Class)

Attrs == AttrsTyped /\ OriginsAreInherited /\ CopiesAreVisited

MetaInv ==
  /\ called \in [code : Nat, original : BOOLEAN] /\ CodeRunsFirst
  /\ \/ file = NoFile /\ visited = 0 /\ todo = {}
     \/ /\ file \in Files /\ visited \in 0 .. Len(file.names)
        /\ Attrs /\ CodeReachesEveryMethod /\ TodoIsOfClass

(* What Attrs says of the function that a class finds under a name. *)
LEMMA FunctionsAre ==
  ASSUME file \in Files, Attrs, NEW c \in Classes, NEW m \in Methods
  PROVE  /\ HasMethod(c, m) <=> Holders(file.own, c, m) # {}
         /\ HasMethod(c, m) =>
              LET h == Holder(OwnNames, c, m) IN
              /\ h \in Line(c) /\ h \in Classes /\ m \in DOMAIN attrs[h]
              /\ \A e \in Line(c) : m \in DOMAIN attrs[e] => e <= h
              /\ Function(c, m) = attrs[h][m]
              /\ Function(c, m) \in [of : Classes \X Methods, code : Nat]
              /\ Holder(file.own, c, m) <= h
              /\ Function(c, m).of = <<Holder(file.own, c, m), m>>
<1>1. \A e \in Line(c) : e \in Classes /\ Line(e) \subseteq Line(c)
  BY LineIsTransitive
<1>2. /\ \A e \in Classes : OwnNames[e] = DOMAIN attrs[e]
      /\ \A e \in Classes : file.own[e] \subseteq DOMAIN attrs[e]
  BY DEF OwnNames, Attrs, AttrsTyped
<1>3. ASSUME Holders(file.own, c, m) # {}
      PROVE  HasMethod(c, m)
  BY <1>1, <1>2, <1>3 DEF Holders, HasMethod
<1>4. ASSUME HasMethod(c, m)
      PROVE  Holders(file.own, c, m) # {}
  <2>1. PICK e \in Line(c) : m \in DOMAIN attrs[e]
    BY <1>1, <1>2, <1>4 DEF Holders, HasMethod
  <2>2. Holders(file.own, e, m) # {}
    BY <1>1, <2>1 DEF Attrs, OriginsAreInherited
  <2> QED BY <1>1, <2>1, <2>2 DEF Holders
<1> DEFINE h == Holder(OwnNames, c, m)
           o == Holder(file.own, c, m)
<1>5. ASSUME HasMethod(c, m)
      PROVE  /\ h \in Line(c) /\ h \in Classes /\ m \in DOMAIN attrs[h]
             /\ \A e \in Line(c) : m \in DOMAIN attrs[e] => e <= h
             /\ Function(c, m) = attrs[h][m]
             /\ Function(c, m) \in [of : Classes \X Methods, code : Nat]
             /\ o <= h
             /\ Function(c, m).of = <<o, m>>
  <2>1. /\ h \in Holders(OwnNames, c, m) /\ h \in Line(c) /\ h \in Classes
        /\ \A e \in Holders(OwnNames, c, m) : e <= h
    BY <1>5, HolderIsFirst DEF HasMethod
  <2>2. m \in DOMAIN attrs[h] /\ \A e \in Line(c) : m \in DOMAIN attrs[e] => e <= h
    BY <1>1, <1>2, <2>1 DEF Holders
  <2>3. Function(c, m) = attrs[h][m]
    BY DEF Function
  <2>4. attrs[h][m] \in [of : Classes \X Methods, code : Nat]
    BY <2>1, <2>2 DEF Attrs, AttrsTyped
  <2>5. o \in Holders(file.own, c, m) /\ o \in Line(c)
    BY <1>4, <1>5, HolderIsFirst
  <2>6. o <= h
    BY <1>1, <1>2, <2>2, <2>5 DEF Holders
  <2>7. Holder(file.own, h, m) = o
    BY <1>4, <1>5, <2>1, <2>6, HolderInBetween
  <2>8. attrs[h][m].of = <<o, m>>
    BY <2>1, <2>2, <2>7 DEF Attrs, OriginsAreInherited
  <2> QED BY <2>1, <2>2, <2>3, <2>4, <2>6, <2>8
<1> QED BY <1>3, <1>4, <1>5

-----------------------------------------------------------------------------
(* The visit of a class *)

(* All the methods of d are wrapped, and nothing else. *)
Wrapped(d) ==
  /\ DOMAIN attrs' = Classes
  /\ \A e \in Classes \ {d} : attrs'[e] = attrs[e]
  /\ DOMAIN attrs'[d] = get_methods(d)
  /\ \A m \in get_methods(d) : attrs'[d][m] = method_wrapper(Function(d, m))

(* The methods of a class itself are among those it has. *)
LEMMA VisitWraps ==
  ASSUME file \in Files, Attrs, NEW d \in Classes,
         attrs' = wrap_methods(d, get_methods(d))
  PROVE  Wrapped(d)
<1>1. DOMAIN attrs = Classes /\ DOMAIN attrs[d] \subseteq Methods
  BY DEF Attrs, AttrsTyped
<1>2. DOMAIN attrs[d] \subseteq get_methods(d)
  <2> SUFFICES ASSUME NEW m \in DOMAIN attrs[d]
               PROVE  m \in get_methods(d)
    OBVIOUS
  <2>1. d \in Holders(OwnNames, d, m)
    BY LineIsClosed DEF Holders, OwnNames
  <2> QED BY <1>1, <2>1 DEF get_methods, HasMethod
<1>3. DOMAIN attrs[d] \cup get_methods(d) = get_methods(d)
  BY <1>2
<1> QED BY <1>1, <1>3 DEF wrap_methods, Wrapped

(* What a class finds under a name afterwards: the same function, and with *)
(* code in front if d is between the class and the one that it had it from.*)
LEMMA FunctionsAfterVisit ==
  ASSUME file \in Files, file' = file, Attrs, NEW d \in Classes, Wrapped(d),
         NEW c \in Classes, NEW m \in Methods
  PROVE  /\ HasMethod(c, m)' <=> HasMethod(c, m)
         /\ HasMethod(c, m) =>
              Function(c, m)' = IF d \in Line(c) /\ Holder(OwnNames, c, m) <= d
                                  THEN method_wrapper(Function(c, m)) ELSE Function(c, m)
<1> DEFINE T == [e \in Classes |-> DOMAIN attrs'[e]]
           h == Holder(OwnNames, c, m)
<1>1. \A e \in Line(c) : e \in Classes /\ Line(e) \subseteq Line(c)
  BY LineIsTransitive
<1>2. Holders(OwnNames, c, m)' = Holders(T, c, m)
  BY DEF Holders, OwnNames, Line, HasBases
<1>3. Function(c, m)' = attrs'[Holder(T, c, m)][m]
  BY <1>2 DEF Function, Holder
<1>4. \A e \in Line(c) : e \in Holders(T, c, m) <=> m \in DOMAIN attrs'[e]
  BY <1>1 DEF Holders
<1>5. \A e \in Line(c) : e \in Holders(OwnNames, c, m) <=> m \in DOMAIN attrs[e]
  BY <1>1 DEF Holders, OwnNames
<1>6. Holders(T, c, m) \subseteq Line(c) /\ Holders(OwnNames, c, m) \subseteq Line(c)
  BY DEF Holders
<1> HIDE DEF T
<1>7. \A e \in Classes \ {d} : attrs'[e] = attrs[e]
  BY DEF Wrapped
<1>8. m \in DOMAIN attrs'[d] <=> HasMethod(d, m)
  BY DEF Wrapped, get_methods
<1>9. d \in Line(c) /\ HasMethod(d, m) => HasMethod(c, m)
  BY <1>1 DEF HasMethod, Holders
<1>10. d \in Holders(OwnNames, c, m) => HasMethod(d, m)
  BY LineIsClosed DEF HasMethod, Holders
<1>11. HasMethod(c, m)' <=> HasMethod(c, m)
  <2>1. HasMethod(c, m)' <=> Holders(T, c, m) # {}
    BY <1>2 DEF HasMethod
  <2>2. ASSUME NEW e \in Holders(T, c, m)
        PROVE  HasMethod(c, m)
    BY <1>1, <1>4, <1>5, <1>6, <1>7, <1>8, <1>9 DEF HasMethod
  <2>3. ASSUME NEW e \in Holders(OwnNames, c, m)
        PROVE  Holders(T, c, m) # {}
    BY <1>1, <1>4, <1>5, <1>6, <1>7, <1>8, <1>10
  <2> QED BY <2>1, <2>2, <2>3 DEF HasMethod
<1>12. ASSUME HasMethod(c, m)
       PROVE  Function(c, m)' = IF d \in Line(c) /\ h <= d
                                  THEN method_wrapper(Function(c, m)) ELSE Function(c, m)
  <2>1. /\ h \in Line(c) /\ h \in Classes /\ m \in DOMAIN attrs[h]
        /\ \A e \in Line(c) : m \in DOMAIN attrs[e] => e <= h
        /\ Function(c, m) = attrs[h][m]
    BY <1>12, FunctionsAre
  <2>2. h \in Nat /\ d \in Nat
    BY <2>1, BasesAreLower
  <2> HIDE DEF h
  <2>3. CASE d \in Line(c) /\ h <= d
    <3>1. Holders(OwnNames, d, m) # {} /\ Holder(OwnNames, d, m) = h
      BY <1>12, <2>3, HolderInBetween DEF HasMethod, h
    <3>2. HasMethod(d, m) /\ Function(d, m) = Function(c, m)
      BY <2>1, <3>1 DEF HasMethod, Function
    <3>3. d \in Holders(T, c, m)
      BY <1>4, <1>8, <2>3, <3>2
    <3>4. ASSUME NEW e \in Holders(T, c, m)
          PROVE  e <= d
      <4>1. e \in Line(c) /\ e \in Classes /\ e \in Nat
        BY <1>1, <1>6, BasesAreLower
      <4>2. CASE e # d
        <5>1. m \in DOMAIN attrs[e]
          BY <1>4, <1>7, <4>1, <4>2
        <5>2. e <= h
          BY <2>1, <4>1, <5>1
        <5> QED BY <2>2, <2>3, <4>1, <5>2
      <4>3. CASE e = d
        BY <4>3, <2>2
      <4> QED BY <4>2, <4>3
    <3>5. Holder(T, c, m) = d
      BY <3>3, <3>4, HolderIs
    <3>6. attrs'[d][m] = method_wrapper(Function(d, m))
      BY <3>2 DEF Wrapped, get_methods
    <3> QED BY <1>3, <2>3, <3>2, <3>5, <3>6
  <2>4. CASE ~(d \in Line(c) /\ h <= d)
    <3>1. h # d
      BY <2>1, <2>2, <2>4
    <3>2. h \in Holders(T, c, m)
      BY <1>4, <1>7, <2>1, <3>1
    <3>3. ASSUME NEW e \in Holders(T, c, m)
          PROVE  e <= h
      <4>1. e \in Line(c) /\ e \in Classes
        BY <1>1, <1>6
      <4>2. CASE e # d
        <5>1. m \in DOMAIN attrs[e]
          BY <1>4, <1>7, <4>1, <4>2
        <5> QED BY <2>1, <4>1, <5>1
      <4>3. CASE e = d
        BY <2>2, <2>4, <4>1, <4>3
      <4> QED BY <4>2, <4>3
    <3>4. Holder(T, c, m) = h
      BY <3>2, <3>3, HolderIs
    <3> QED BY <1>3, <1>7, <2>1, <2>4, <3>1, <3>4
  <2> QED BY <2>3, <2>4
<1> QED BY <1>11, <1>12

(* The visit keeps what Attrs says. *)
LEMMA VisitKeepsAttrs ==
  ASSUME file \in Files, file' = file, Attrs, visited \in Nat, visited < Len(file.names),
         visited' = visited + 1, NEW d \in Classes, d = file.names[visited + 1], Wrapped(d)
  PROVE  Attrs'
<1>1. /\ \A e \in Classes \ {d} : attrs'[e] = attrs[e]
      /\ DOMAIN attrs'[d] = get_methods(d) /\ DOMAIN attrs' = Classes
      /\ \A m \in get_methods(d) : attrs'[d][m] = method_wrapper(Function(d, m))
  BY DEF Wrapped
<1>2. /\ \A c \in Classes : /\ file.own[c] \subseteq DOMAIN attrs[c]
                            /\ DOMAIN attrs[c] \subseteq Methods
      /\ \A c \in Classes : \A m \in DOMAIN attrs[c] :
           attrs[c][m] \in [of : Classes \X Methods, code : Nat]
  BY DEF Attrs, AttrsTyped
<1>3. ASSUME NEW m \in get_methods(d)
      PROVE  /\ m \in Methods /\ Holders(file.own, d, m) # {}
             /\ Function(d, m) \in [of : Classes \X Methods, code : Nat]
             /\ Function(d, m).of = <<Holder(file.own, d, m), m>>
  BY FunctionsAre DEF get_methods
<1>4. ASSUME NEW m \in get_methods(d)
      PROVE  /\ attrs'[d][m] \in [of : Classes \X Methods, code : Nat]
             /\ attrs'[d][m].of = <<Holder(file.own, d, m), m>>
  <2> DEFINE f == Function(d, m)
             values == Classes \X Methods
  <2>1. f \in [of : values, code : Nat] /\ f.of = <<Holder(file.own, d, m), m>>
    BY <1>3
  <2>2. attrs'[d][m] = method_wrapper(f)
    BY <1>1
  <2> HIDE DEF f, values
  <2>3. method_wrapper(f) \in [of : values, code : Nat] /\ method_wrapper(f).of = f.of
    BY <2>1 DEF method_wrapper
  <2> QED BY <2>1, <2>2, <2>3 DEF values
<1>5. \A c, m : Holders(file.own, c, m)' = Holders(file.own, c, m)
  BY DEF Holders, Line, HasBases
<1>6. \A c, m : Holder(file.own, c, m)' = Holder(file.own, c, m)
  BY <1>5 DEF Holder
<1>7. DOMAIN attrs[d] \subseteq get_methods(d)
  <2> SUFFICES ASSUME NEW m \in DOMAIN attrs[d]
               PROVE  m \in get_methods(d)
    OBVIOUS
  <2>1. d \in Holders(OwnNames, d, m)
    BY LineIsClosed DEF Holders, OwnNames
  <2> QED BY <1>2, <2>1 DEF get_methods, HasMethod
<1>8. AttrsTyped'
  <2>1. \A c \in Classes : /\ file.own[c] \subseteq DOMAIN attrs'[c]
                           /\ DOMAIN attrs'[c] \subseteq Methods
    BY <1>1, <1>2, <1>3, <1>7
  <2>2. \A c \in Classes : \A m \in DOMAIN attrs'[c] :
          attrs'[c][m] \in [of : Classes \X Methods, code : Nat]
    BY <1>1, <1>2, <1>4
  <2> QED BY <1>1, <2>1, <2>2 DEF AttrsTyped
<1>9. OriginsAreInherited'
  <2>1. \A c \in Classes : \A m \in DOMAIN attrs'[c] :
          Holders(file.own, c, m) # {} /\ attrs'[c][m].of = <<Holder(file.own, c, m), m>>
    BY <1>1, <1>3, <1>4 DEF Attrs, OriginsAreInherited
  <2> QED BY <1>5, <1>6, <2>1 DEF OriginsAreInherited
<1>10. CopiesAreVisited'
  <2> SUFFICES ASSUME NEW c \in Classes, NEW m \in DOMAIN attrs'[c], m \notin file.own[c]
               PROVE  \E k \in 1 .. visited + 1 : file.names[k] = c
    BY DEF CopiesAreVisited
  <2>1. CASE c = d
    <3>1. visited + 1 \in 1 .. visited + 1
      OBVIOUS
    <3> QED BY <2>1, <3>1
  <2>2. CASE c # d
    <3>1. PICK k \in 1 .. visited : file.names[k] = c
      BY <1>1, <2>2 DEF Attrs, CopiesAreVisited
    <3> QED BY <3>1
  <2> QED BY <2>1, <2>2
<1> QED BY <1>8, <1>9, <1>10 DEF Attrs

(* The names that have been visited are finitely many. *)
LEMMA VisitsAreFinite ==
  ASSUME visited \in Nat, NEW c, NEW m
  PROVE  /\ IsFiniteSet(VisitsTo(c, m)) /\ Cardinality(VisitsTo(c, m)) \in Nat
         /\ Cardinality(VisitsTo(c, m)) > 0 <=> VisitsTo(c, m) # {}
<1>1. IsFiniteSet(1 .. visited)
  BY FS_Interval
<1>2. VisitsTo(c, m) \in SUBSET (1 .. visited)
  BY DEF VisitsTo
<1>3. IsFiniteSet(VisitsTo(c, m))
  BY <1>1, <1>2, FS_Subset
<1>4. Cardinality(VisitsTo(c, m)) \in Nat
  BY <1>3, FS_CardinalityType
<1>5. Cardinality(VisitsTo(c, m)) = 0 <=> VisitsTo(c, m) = {}
  BY <1>3, FS_EmptySet
<1> QED BY <1>3, <1>4, <1>5

(* The visit brings code to the methods of the class and of those that     *)
(* inherit from it, once.                                                  *)
LEMMA VisitKeepsCode ==
  ASSUME file \in Files, file' = file, Attrs, CodeReachesEveryMethod,
         visited \in Nat, visited < Len(file.names),
         visited' = visited + 1, NEW d \in Classes, d = file.names[visited + 1], Wrapped(d)
  PROVE  CodeReachesEveryMethod'
<1> SUFFICES ASSUME NEW c \in Classes, NEW m \in Methods, HasMethod(c, m)'
             PROVE  /\ Cardinality(VisitsTo(c, m)') > 0 => Function(c, m)'.code > 0
                    /\ Function(c, m)'.code <= Cardinality(VisitsTo(c, m)')
  BY DEF CodeReachesEveryMethod
<1> DEFINE h == Holder(OwnNames, c, m)
           o == Holder(file.own, c, m)
           before == VisitsTo(c, m)
           after == VisitsTo(c, m)'
           f == Function(c, m)
<1>1. HasMethod(c, m)
  BY FunctionsAfterVisit
<1>2. f' = IF d \in Line(c) /\ h <= d THEN method_wrapper(f) ELSE f
  BY <1>1, FunctionsAfterVisit
<1>3. /\ h \in Line(c) /\ h \in Classes /\ m \in DOMAIN attrs[h] /\ o <= h
      /\ f \in [of : Classes \X Methods, code : Nat] /\ Holders(file.own, c, m) # {}
  BY <1>1, FunctionsAre
<1>4. o \in Classes /\ \A e \in Holders(file.own, c, m) : e <= o
  BY <1>3, HolderIsFirst
<1>5. h \in Nat /\ o \in Nat /\ d \in Nat
  BY <1>3, <1>4, BasesAreLower
<1>6. NoFile \notin Files
  BY NoFileIsNone
<1>7. (Cardinality(before) > 0 => f.code > 0) /\ f.code <= Cardinality(before)
  BY <1>1, <1>6 DEF CodeReachesEveryMethod
<1>8. /\ before = {k \in 1 .. visited : file.names[k] \in Line(c) /\ file.names[k] >= o}
      /\ after = {k \in 1 .. visited + 1 : file.names[k] \in Line(c) /\ file.names[k] >= o}
  BY DEF VisitsTo, Holder, Holders, Line, HasBases
<1>9. /\ IsFiniteSet(before) /\ Cardinality(before) \in Nat
      /\ Cardinality(before) > 0 <=> before # {}
  BY VisitsAreFinite
<1>10. after = IF d \in Line(c) /\ d >= o THEN before \cup {visited + 1} ELSE before
  BY <1>8
<1>11. visited + 1 \notin before
  BY <1>8
<1>12. Cardinality(before \cup {visited + 1}) = Cardinality(before) + 1
  BY <1>9, <1>11, FS_AddElement
<1> HIDE DEF h, o, before, after, f
<1>13. CASE d \in Line(c) /\ h <= d
  <2>1. after = before \cup {visited + 1}
    BY <1>3, <1>5, <1>10, <1>13
  <2>2. f'.code = f.code + 1
    BY <1>2, <1>3, <1>13 DEF method_wrapper
  <2>3. f'.code > 0 /\ f'.code <= Cardinality(after)
    BY <1>3, <1>7, <1>9, <1>12, <2>1, <2>2
  <2> QED BY <2>3 DEF f, after
<1>14. CASE ~(d \in Line(c) /\ h <= d)
  <2>1. f' = f
    BY <1>2, <1>14
  <2>2. f.code <= Cardinality(after)
    BY <1>3, <1>7, <1>9, <1>10, <1>12
  <2>3. ASSUME d \in Line(c) /\ d >= o
        PROVE  before # {}
    <3>1. d < h /\ o < h
      BY <1>5, <1>14, <2>3
    <3>2. m \notin file.own[h]
      <4>1. m \in file.own[h] => h \in Holders(file.own, c, m)
        BY <1>3 DEF Holders
      <4> QED BY <1>4, <1>5, <3>1, <4>1
    <3>3. PICK k \in 1 .. visited : file.names[k] = h
      BY <1>3, <3>2 DEF Attrs, CopiesAreVisited
    <3>4. k \in before
      BY <1>3, <1>5, <1>8, <3>1, <3>3
    <3> QED BY <3>4
  <2>4. f.code > 0 \/ after = {}
    <3>1. CASE before # {}
      BY <1>7, <1>9, <3>1
    <3>2. CASE before = {}
      BY <1>10, <2>3, <3>2
    <3> QED BY <3>1, <3>2
  <2>5. after = {} => Cardinality(after) = 0
    BY FS_EmptySet
  <2> QED BY <2>1, <2>2, <2>4, <2>5 DEF f, after
<1> QED BY <1>13, <1>14

-----------------------------------------------------------------------------
(* meta.py: all steps *)

(* The operators say the same of the same file, attributes and visits. *)
LEMMA SameFunctions ==
  ASSUME UNCHANGED <<file, attrs, visited>>
  PROVE  /\ Attrs' = Attrs /\ CodeReachesEveryMethod' = CodeReachesEveryMethod
         /\ \A c, m : Function(c, m)' = Function(c, m)
         /\ \A c : get_methods(c)' = get_methods(c)
<1>1. \A c : Line(c)' = Line(c)
  BY DEF Line, HasBases
<1>2. OwnNames' = OwnNames
  BY DEF OwnNames
<1>3. \A c, m : /\ Holders(OwnNames, c, m)' = Holders(OwnNames, c, m)
                /\ Holders(file.own, c, m)' = Holders(file.own, c, m)
  BY <1>1, <1>2 DEF Holders
<1>4. \A c, m : /\ Holder(OwnNames, c, m)' = Holder(OwnNames, c, m)
                /\ Holder(file.own, c, m)' = Holder(file.own, c, m)
                /\ HasMethod(c, m)' = HasMethod(c, m)
  BY <1>3 DEF Holder, HasMethod
<1>5. \A c, m : Function(c, m)' = Function(c, m)
  BY <1>4 DEF Function
<1>6. \A c, m : VisitsTo(c, m)' = VisitsTo(c, m)
  BY <1>1, <1>4 DEF VisitsTo
<1>7. \A c : get_methods(c)' = get_methods(c)
  BY <1>4 DEF get_methods
<1>8. Attrs' = Attrs
  BY <1>3, <1>4 DEF Attrs, AttrsTyped, OriginsAreInherited, CopiesAreVisited
<1>9. CodeReachesEveryMethod' = CodeReachesEveryMethod
  BY <1>4, <1>5, <1>6 DEF CodeReachesEveryMethod
<1> QED BY <1>5, <1>7, <1>8, <1>9

(* The method that is called next is one of those still to be called, and  *)
(* has code in front of it.                                                *)
LEMMA TurnHasCode ==
  ASSUME MetaInv, todo # {}
  PROVE  Turn \in todo /\ Wrappers(Turn) \in Nat /\ Wrappers(Turn) > 0
<1>1. /\ file \in Files /\ visited \in 1 .. Len(file.names)
      /\ Attrs /\ CodeReachesEveryMethod /\ todo \subseteq get_methods(Class)
  <2>1. visited \in Nat /\ visited > 0 => visited \in 1 .. visited
    OBVIOUS
  <2>2. /\ file \in Files /\ visited \in 0 .. Len(file.names) /\ visited > 0
        /\ Attrs /\ CodeReachesEveryMethod /\ todo \subseteq get_methods(Class)
    BY DEF MetaInv, TodoIsOfClass
  <2>3. file.names \in Seq(Classes)
    BY <2>2, BasesAreLower
  <2>4. Len(file.names) \in Nat
    BY <2>3
  <2> QED BY <2>2, <2>4
<1>2. todo \in SUBSET Nat
  BY <1>1, BasesAreLower DEF get_methods
<1>3. Turn \in todo
  BY <1>2, MinIsLeast DEF Turn
<1>4. Class \in Classes
  BY <1>1, BasesAreLower DEF Class
<1> DEFINE m == Turn
           o == Holder(file.own, Class, m)
<1>5. m \in Methods /\ HasMethod(Class, m)
  BY <1>1, <1>3 DEF get_methods
<1>6. /\ Function(Class, m) \in [of : Classes \X Methods, code : Nat]
      /\ Holders(file.own, Class, m) # {}
  BY <1>1, <1>4, <1>5, FunctionsAre
<1>7. o \in Line(Class) /\ o \in Classes
  BY <1>1, <1>4, <1>6, HolderIsFirst
<1>8. o <= Class /\ Class \in Line(Class)
  BY <1>1, <1>4, <1>7, LineDescends, LineIsClosed
<1>9. visited \in VisitsTo(Class, m)
  <2>1. visited \in 1 .. visited /\ file.names[visited] = Class
    BY <1>1 DEF Class
  <2>2. Class >= o
    BY <1>1, <1>4, <1>7, <1>8, BasesAreLower
  <2> HIDE DEF o
  <2> QED BY <1>8, <2>1, <2>2 DEF VisitsTo, o
<1>10. Cardinality(VisitsTo(Class, m)) > 0
  <2>1. visited \in Nat
    BY <1>1
  <2> QED BY <1>9, <2>1, VisitsAreFinite
<1>11. Function(Class, m).code > 0
  <2>1. file # NoFile
    BY <1>1, NoFileIsNone
  <2> QED BY <1>1, <1>4, <1>5, <1>10, <2>1 DEF CodeReachesEveryMethod
<1> QED BY <1>3, <1>6, <1>11 DEF Wrappers

(* A file that has just been opened. *)
Opened ==
  /\ file \in Files /\ visited = 0
  /\ attrs = [c \in Classes |-> [m \in file.own[c] |-> [of |-> <<c, m>>, code |-> 0]]]

(* No method has code in front, and every function is the method that the  *)
(* class was written with.                                                 *)
LEMMA OpenedIsFresh == Opened => Attrs /\ CodeReachesEveryMethod
<1> SUFFICES ASSUME Opened
             PROVE  Attrs /\ CodeReachesEveryMethod
  OBVIOUS
<1>1. file \in Files /\ visited = 0 /\ DOMAIN attrs = Classes
  BY DEF Opened
<1>2. \A c \in Classes : file.own[c] \in SUBSET Methods
  BY <1>1, BasesAreLower
<1>3. ASSUME NEW c \in Classes
      PROVE  /\ DOMAIN attrs[c] = file.own[c]
             /\ \A m \in DOMAIN attrs[c] :
                  /\ attrs[c][m] \in [of : Classes \X Methods, code : Nat]
                  /\ attrs[c][m].of = <<c, m>> /\ attrs[c][m].code = 0
  <2>1. /\ DOMAIN attrs[c] = file.own[c]
        /\ \A m \in file.own[c] : attrs[c][m] = [of |-> <<c, m>>, code |-> 0]
    BY DEF Opened
  <2>2. ASSUME NEW m \in Methods
        PROVE  [of |-> <<c, m>>, code |-> 0] \in [of : Classes \X Methods, code : Nat]
    OBVIOUS
  <2>3. ASSUME NEW m \in file.own[c]
        PROVE  /\ attrs[c][m] \in [of : Classes \X Methods, code : Nat]
               /\ attrs[c][m].of = <<c, m>> /\ attrs[c][m].code = 0
    <3>1. m \in Methods /\ attrs[c][m] = [of |-> <<c, m>>, code |-> 0]
      BY <1>2, <2>1
    <3> QED BY <2>2, <3>1
  <2> QED BY <2>1, <2>3
<1>4. AttrsTyped
  BY <1>1, <1>2, <1>3 DEF AttrsTyped
<1>5. CopiesAreVisited
  BY <1>1, <1>3 DEF CopiesAreVisited
<1>6. OriginsAreInherited
  <2> SUFFICES ASSUME NEW c \in Classes, NEW m \in DOMAIN attrs[c]
               PROVE  /\ Holders(file.own, c, m) # {}
                      /\ attrs[c][m].of = <<Holder(file.own, c, m), m>>
    BY DEF OriginsAreInherited
  <2>1. c \in Holders(file.own, c, m)
    BY <1>1, <1>3, LineIsClosed DEF Holders
  <2>2. \A e \in Holders(file.own, c, m) : e <= c
    BY <1>1, LineDescends DEF Holders
  <2>3. Holder(file.own, c, m) = c
    BY <1>1, <2>1, <2>2, HolderIs
  <2> QED BY <1>3, <2>1, <2>3
<1>7. Attrs
  BY <1>4, <1>5, <1>6 DEF Attrs
<1>8. CodeReachesEveryMethod
  <2> SUFFICES ASSUME NEW c \in Classes, NEW m \in Methods, HasMethod(c, m)
               PROVE  /\ Cardinality(VisitsTo(c, m)) > 0 => Function(c, m).code > 0
                      /\ Function(c, m).code <= Cardinality(VisitsTo(c, m))
    BY DEF CodeReachesEveryMethod
  <2>1. VisitsTo(c, m) = {}
    BY <1>1 DEF VisitsTo
  <2>2. Cardinality(VisitsTo(c, m)) = 0
    BY <2>1, FS_EmptySet
  <2> DEFINE h == Holder(OwnNames, c, m)
  <2>3. h \in Classes /\ m \in DOMAIN attrs[h] /\ Function(c, m) = attrs[h][m]
    BY <1>1, <1>7, FunctionsAre
  <2> HIDE DEF h
  <2>4. Function(c, m).code = 0
    BY <1>3, <2>3
  <2> QED BY <2>2, <2>4
<1> QED BY <1>7, <1>8

(* No step of the program leads out of the invariant. *)
LEMMA MetaInvariance == MetaSpec => []MetaInv
<1>1. MetaInit => MetaInv
  BY DEF MetaInit, MetaInv, NotCalled, CodeRunsFirst
<1>2. (Opened => Attrs /\ CodeReachesEveryMethod)'
  BY OpenedIsFresh, PTL
<1>3. ASSUME MetaInv, [MetaNext]_metaVars
      PROVE  MetaInv'
  <2>1. ASSUME file = NoFile, NEW f \in Files, Open(f)
        PROVE  MetaInv'
    <3>1. visited = 0 /\ todo = {}
      BY <1>3, <2>1, NoFileIsNone DEF MetaInv
    <3>2. /\ file' = f /\ visited' = 0 /\ todo' = {} /\ called' = called
          /\ attrs' = [c \in Classes |-> [m \in f.own[c] |-> [of |-> <<c, m>>, code |-> 0]]]
      BY <2>1, <3>1 DEF Open
    <3>3. Opened'
      BY <3>2 DEF Opened
    <3>4. f.names \in Seq(Classes)
      BY MetaAssumption DEF FileOf
    <3>5. visited' \in 0 .. Len(file'.names)
      BY <3>2, <3>4
    <3>6. TodoIsOfClass' /\ CodeRunsFirst'
      BY <1>3, <3>2 DEF TodoIsOfClass, MetaInv, CodeRunsFirst
    <3> QED BY <1>2, <1>3, <3>2, <3>3, <3>5, <3>6 DEF MetaInv
  <2>2. ASSUME UNCHANGED <<file, attrs, visited>>, todo' \in SUBSET todo,
               called' \in [code : Nat, original : BOOLEAN], CodeRunsFirst'
        PROVE  MetaInv'
    <3>1. /\ Attrs' = Attrs /\ CodeReachesEveryMethod' = CodeReachesEveryMethod
          /\ \A c : get_methods(c)' = get_methods(c)
      BY <2>2, SameFunctions
    <3>2. Class' = Class
      BY <2>2 DEF Class
    <3>3. TodoIsOfClass => TodoIsOfClass'
      BY <2>2, <3>1, <3>2 DEF TodoIsOfClass
    <3> QED BY <1>3, <2>2, <3>1, <3>3 DEF MetaInv
  <2>3. CASE FailToOpen \/ Finish \/ UNCHANGED metaVars
    BY <1>3, <2>2, <2>3 DEF FailToOpen, Finish, metaVars, MetaInv, CodeRunsFirst
  <2>4. CASE Visit
    <3>1. /\ file # NoFile /\ visited < Len(file.names) /\ visited' = visited + 1
          /\ UNCHANGED <<file, called>>
      BY <2>4 DEF Visit
    <3>2. /\ file \in Files /\ visited \in 0 .. Len(file.names)
          /\ Attrs /\ CodeReachesEveryMethod
      BY <1>3, <3>1 DEF MetaInv
    <3>3. file.names \in Seq(Classes)
      BY <3>2, BasesAreLower
    <3>4. /\ visited \in Nat /\ visited' > 0 /\ visited' \in 0 .. Len(file.names)
          /\ file.names[visited + 1] \in Classes
      BY <3>1, <3>2, <3>3
    <3>5. PICK d \in Classes : d = file.names[visited + 1]
      BY <3>4
    <3>6. attrs' = wrap_methods(d, get_methods(d)) /\ todo' = get_methods(d) /\ Class' = d
      BY <2>4, <3>1, <3>5 DEF Visit, Class
    <3>7. Wrapped(d)
      BY <3>1, <3>2, <3>6, VisitWraps
    <3>8. Attrs' /\ CodeReachesEveryMethod'
      BY <3>1, <3>2, <3>4, <3>5, <3>7, VisitKeepsAttrs, VisitKeepsCode
    <3>9. TodoIsOfClass'
      <4>1. ASSUME NEW m \in Methods
            PROVE  HasMethod(d, m)' <=> HasMethod(d, m)
        BY <3>1, <3>2, <3>7, FunctionsAfterVisit
      <4>2. get_methods(d)' = get_methods(d)
        BY <4>1 DEF get_methods
      <4> HIDE DEF MetaInv
      <4>3. todo' \subseteq get_methods(Class)'
        <5>1. get_methods(Class)' = get_methods(d)'
          BY <3>6 DEF get_methods, HasMethod, Holders, Line
        <5> QED BY <3>6, <4>2, <5>1
      <4> QED BY <3>4, <4>3 DEF TodoIsOfClass
    <3>10. called' \in [code : Nat, original : BOOLEAN] /\ CodeRunsFirst'
      BY <1>3, <3>1 DEF MetaInv, CodeRunsFirst
    <3> QED BY <3>1, <3>2, <3>4, <3>8, <3>9, <3>10 DEF MetaInv
  <2>5. CASE Call
    <3>1. Turn \in todo /\ Wrappers(Turn) \in Nat /\ Wrappers(Turn) > 0
      BY <1>3, <2>5, TurnHasCode DEF Call
    <3>2. /\ called' = [code |-> Wrappers(Turn), original |-> TRUE]
          /\ todo' \in SUBSET todo /\ UNCHANGED <<file, attrs, visited>>
      BY <2>5 DEF Call
    <3> HIDE DEF MetaInv
    <3>3. called' \in [code : Nat, original : BOOLEAN] /\ CodeRunsFirst'
      BY <3>1, <3>2 DEF CodeRunsFirst
    <3> QED BY <2>2, <3>2, <3>3
  <2>6. CASE CallRaises
    <3>1. Wrappers(Turn) \in Nat /\ Wrappers(Turn) > 0
      BY <1>3, <2>6, TurnHasCode DEF CallRaises
    <3>2. /\ called' \in [code : 1 .. Wrappers(Turn), original : {FALSE}] \cup
                           {[code |-> Wrappers(Turn), original |-> TRUE], NotCalled}
          /\ todo' \in SUBSET todo /\ UNCHANGED <<file, attrs, visited>>
      BY <2>6 DEF CallRaises
    <3>3. CASE called' \in [code : 1 .. Wrappers(Turn), original : {FALSE}]
      <4>1. called' \in [code : Nat, original : BOOLEAN] /\ called'.original = FALSE
        <5>1. PICK k \in 1 .. Wrappers(Turn) : called' = [code |-> k, original |-> FALSE]
          BY <3>3
        <5>2. k \in Nat
          BY <3>1
        <5> QED BY <5>1, <5>2
      <4>2. CodeRunsFirst'
        BY <4>1 DEF CodeRunsFirst
      <4> QED BY <2>2, <3>2, <4>1, <4>2
    <3>4. CASE called' = [code |-> Wrappers(Turn), original |-> TRUE]
      <4>1. called' \in [code : Nat, original : BOOLEAN] /\ CodeRunsFirst'
        BY <3>1, <3>4 DEF CodeRunsFirst
      <4> QED BY <2>2, <3>2, <4>1
    <3>5. CASE called' = NotCalled
      <4>1. called' \in [code : Nat, original : BOOLEAN] /\ CodeRunsFirst'
        BY <3>5 DEF CodeRunsFirst, NotCalled
      <4> QED BY <2>2, <3>2, <4>1
    <3> QED BY <3>2, <3>3, <3>4, <3>5
  <2> QED BY <1>3, <2>1, <2>3, <2>4, <2>5, <2>6 DEF MetaNext
<1> QED BY <1>1, <1>3, PTL DEF MetaSpec

-----------------------------------------------------------------------------
(* meta.py: the theorems *)

(* A method that has been wrapped, in its own class or in one that         *)
(* inherits it, still calls what was written for it.                       *)
THEOREM OriginalsStay == MetaSpec => []OriginalsAreKept
<1>1. MetaInv => OriginalsAreKept
  BY FunctionsAre DEF MetaInv, OriginalsAreKept
<1> QED BY <1>1, MetaInvariance, PTL

(* A method has the code in front of it once its class or one on the way   *)
(* to its owner has been visited, and at most once for each visit.         *)
THEOREM CodeReaches == MetaSpec => []CodeReachesEveryMethod
<1>1. MetaInv => CodeReachesEveryMethod
  BY NoFileIsNone DEF MetaInv, CodeReachesEveryMethod
<1> QED BY <1>1, MetaInvariance, PTL

(* No method is called without the code before it. *)
THEOREM CodeComesFirst == MetaSpec => []CodeRunsFirst
<1>1. MetaInv => CodeRunsFirst
  BY DEF MetaInv
<1> QED BY <1>1, MetaInvariance, PTL
=============================================================================
