---------------------------- MODULE USocial_proof ----------------------------
(***************************************************************************)
(* Who owns what in the social network, for any number of networks, users  *)
(* and objects and any width of the counter of ids.                        *)
(***************************************************************************)
EXTENDS USocial, FiniteSetTheorems, TLAPS

-----------------------------------------------------------------------------
(* The inductive invariant *)

(* Every entry of a map is a live user, with the key as its id. *)
EntriesAreLive ==
  \A n \in DOMAIN networks : \A i \in DOMAIN networks[n] :
    networks[n][i] \in DOMAIN users /\ users[networks[n][i]].id_ = i

(* No two networks share a user. *)
NetworksAreApart ==
  \A n, m \in DOMAIN networks :
    n # m => Range(networks[n]) \cap Range(networks[m]) = {}

(* A user that was registered has an entry somewhere. *)
UsersHaveEntries ==
  \A u \in DOMAIN users :
    users[u].id_ # 0 =>
      \E n \in DOMAIN networks : /\ users[u].id_ \in DOMAIN networks[n]
                                 /\ networks[n][users[u].id_] = u

(* As long as there are ids left, the next one has never been used. *)
IdsAreUsedUp ==
  \/ userID = 0
  \/ /\ \A i \in IdsInUse : i < userID
     /\ \A u \in DOMAIN users : \A i \in ToSet(users[u].friends) : i < userID

Inv ==
  /\ TypeOK
  /\ EntriesAreLive /\ NetworksAreApart /\ UsersHaveEntries /\ IdsAreUsedUp
  /\ ObjectsAreOwnedOnce /\ FriendsAreUnique /\ BusinessUsersAreAtHome

-----------------------------------------------------------------------------
(* Lists *)

(* An element at the end of a list that did not have it. *)
LEMMA Appended ==
  ASSUME NEW S, NEW s \in Seq(S), NEW x \in S
  PROVE  /\ Append(s, x) \in Seq(S)
         /\ ToSet(Append(s, x)) = ToSet(s) \cup {x}
         /\ IsInjective(s) /\ x \notin ToSet(s) => IsInjective(Append(s, x))
<1>1. /\ Append(s, x) \in Seq(S)
      /\ Len(Append(s, x)) = Len(s) + 1 /\ Len(s) \in Nat
      /\ DOMAIN s = 1 .. Len(s) /\ DOMAIN Append(s, x) = 1 .. Len(s) + 1
      /\ \A i \in 1 .. Len(s) : Append(s, x)[i] = s[i]
      /\ Append(s, x)[Len(s) + 1] = x
  OBVIOUS
<1>2. ToSet(Append(s, x)) = ToSet(s) \cup {x}
  BY <1>1 DEF ToSet
<1>3. ASSUME IsInjective(s), x \notin ToSet(s)
      PROVE  IsInjective(Append(s, x))
  BY <1>1, <1>3 DEF ToSet, IsInjective
<1> QED BY <1>1, <1>2, <1>3

(* A list without an element: a list of its other elements, none twice     *)
(* unless it was there twice.                                              *)
LEMMA WithoutKeepsOrder ==
  ASSUME NEW S, NEW s \in Seq(S), NEW x
  PROVE  /\ Without(s, x) \in Seq(S)
         /\ ToSet(Without(s, x)) = ToSet(s) \ {x}
         /\ IsInjective(s) => IsInjective(Without(s, x))
<1> DEFINE kept == {k \in DOMAIN s : s[k] # x}
           upTo(k) == {j \in kept : j <= k}
           place == [k \in kept |-> Cardinality(upTo(k))]
           at(i) == CHOOSE k \in kept : Cardinality(upTo(k)) = i
<1>1. DOMAIN s = 1 .. Len(s) /\ Len(s) \in Nat /\ kept \subseteq 1 .. Len(s)
  OBVIOUS
<1>2. IsFiniteSet(kept) /\ Cardinality(kept) \in Nat
  <2>1. IsFiniteSet(1 .. Len(s))
    BY <1>1, FS_Interval
  <2> HIDE DEF kept
  <2>2. IsFiniteSet(kept)
    BY <1>1, <2>1, FS_Subset, Zenon
  <2> QED BY <2>2, FS_CardinalityType, Zenon
<1>3. ASSUME NEW k \in kept
      PROVE  /\ IsFiniteSet(upTo(k)) /\ Cardinality(upTo(k)) \in Nat
             /\ Cardinality(upTo(k)) <= Cardinality(kept)
             /\ Cardinality(upTo(k)) # 0
  <2> HIDE DEF kept
  <2>1. upTo(k) \in SUBSET kept
    OBVIOUS
  <2>2. k \in upTo(k)
    BY <1>1, k \in Nat
  <2> HIDE DEF upTo
  <2>3. IsFiniteSet(upTo(k)) /\ Cardinality(upTo(k)) <= Cardinality(kept)
    BY <1>2, <2>1, FS_Subset, Zenon
  <2>4. Cardinality(upTo(k)) \in Nat
    BY <2>3, FS_CardinalityType, Zenon
  <2>5. Cardinality(upTo(k)) # 0
    BY <2>2, <2>3, FS_EmptySet, Zenon
  <2> QED BY <2>3, <2>4, <2>5
<1>4. ASSUME NEW k \in kept, NEW l \in kept, k < l
      PROVE  Cardinality(upTo(k)) # Cardinality(upTo(l))
  <2>0. k \in Nat /\ l \in Nat /\ \A j \in kept : j \in Nat
    BY <1>1
  <2> HIDE DEF kept
  <2>1. \A j \in kept : j <= k => j <= l
    BY <2>0, <1>4
  <2>3. upTo(k) \in SUBSET upTo(l)
    BY <2>1, Zenon
  <2>2. l \in upTo(l) /\ l \notin upTo(k)
    BY <2>0, <1>4
  <2> HIDE DEF upTo
  <2> QED BY <1>3, <2>3, <2>2, FS_Subset, Zenon
<1>5. place \in Injection(kept, 1 .. Cardinality(kept))
  <2>1. ASSUME NEW k \in kept
        PROVE  place[k] \in 1 .. Cardinality(kept)
    <3>1. /\ Cardinality(upTo(k)) \in Nat /\ Cardinality(upTo(k)) # 0
          /\ Cardinality(upTo(k)) <= Cardinality(kept)
      BY <1>3
    <3> HIDE DEF upTo, kept
    <3> QED BY <1>2, <3>1
  <2>2. ASSUME NEW k \in kept, NEW l \in kept, place[k] = place[l]
        PROVE  k = l
    <3>1. k \in Nat /\ l \in Nat
      BY <1>1
    <3>2. Cardinality(upTo(k)) = Cardinality(upTo(l))
      BY <2>2
    <3> HIDE DEF upTo, kept
    <3> QED BY <1>4, <3>1, <3>2
  <2> HIDE DEF upTo, kept
  <2>3. place \in [kept -> 1 .. Cardinality(kept)]
    BY <2>1
  <2>4. IsInjective(place)
    BY <2>2, <2>3 DEF IsInjective
  <2> HIDE DEF place
  <2> QED BY <2>3, <2>4 DEF Injection
<1>6. place \in Surjection(kept, 1 .. Cardinality(kept))
  <2>1. /\ IsFiniteSet(1 .. Cardinality(kept))
        /\ Cardinality(1 .. Cardinality(kept)) = Cardinality(kept)
    <3> HIDE DEF kept
    <3>1. /\ IsFiniteSet(1 .. Cardinality(kept))
          /\ Cardinality(1 .. Cardinality(kept)) =
               IF 1 > Cardinality(kept) THEN 0 ELSE Cardinality(kept) - 1 + 1
      <4>1. 1 \in Int /\ Cardinality(kept) \in Int
        BY <1>2
      <4> QED BY <4>1, FS_Interval, Zenon
    <3> QED BY <1>2, <3>1
  <2> HIDE DEF kept, place
  <2> QED BY <1>5, <2>1, FS_Injection, Zenon
<1>7. \A i \in 1 .. Cardinality(kept) :
        at(i) \in kept /\ Cardinality(upTo(at(i))) = i
  <2>1. \A i \in 1 .. Cardinality(kept) : \E k \in kept : place[k] = i
    <3> HIDE DEF kept, place
    <3> QED BY <1>6, Zenon DEF Surjection
  <2>2. \A k \in kept : place[k] = Cardinality(upTo(k))
    <3> HIDE DEF kept, upTo
    <3> QED OBVIOUS
  <2> HIDE DEF kept, upTo, place
  <2> QED BY <2>1, <2>2, ZenonT(40)
<1>8. \A k \in kept : /\ Cardinality(upTo(k)) \in 1 .. Cardinality(kept)
                      /\ at(Cardinality(upTo(k))) = k
  <2>1. ASSUME NEW k \in kept
        PROVE  /\ Cardinality(upTo(k)) \in 1 .. Cardinality(kept)
               /\ at(Cardinality(upTo(k))) = k
    <3>1. Cardinality(upTo(k)) \in 1 .. Cardinality(kept)
      <4>1. /\ Cardinality(upTo(k)) \in Nat /\ Cardinality(upTo(k)) # 0
            /\ Cardinality(upTo(k)) <= Cardinality(kept)
        BY <1>3
      <4> HIDE DEF upTo, kept
      <4> QED BY <1>2, <4>1
    <3>2. /\ at(Cardinality(upTo(k))) \in kept
          /\ Cardinality(upTo(at(Cardinality(upTo(k))))) = Cardinality(upTo(k))
      <4> HIDE DEF kept, upTo, at
      <4> QED BY <1>7, <3>1, Zenon
    <3>3. k \in Nat /\ \A l \in kept : l \in Nat
      BY <1>1
    <3>4. \A l, m \in kept : l < m => Cardinality(upTo(l)) # Cardinality(upTo(m))
      BY <1>4
    <3> HIDE DEF kept, upTo
    <3> DEFINE l == at(Cardinality(upTo(k)))
    <3>5. l \in kept /\ Cardinality(upTo(l)) = Cardinality(upTo(k))
      BY <3>2, Zenon
    <3> HIDE DEF l
    <3>6. l = k
      BY <3>3, <3>4, <3>5
    <3> QED BY <3>1, <3>6, Zenon DEF l
  <2> QED BY <2>1
<1>9. Without(s, x) = [i \in 1 .. Cardinality(kept) |-> s[at(i)]]
  BY Zenon DEF Without
<1>10. \A k \in kept : k \in DOMAIN s /\ s[k] \in S /\ s[k] # x
  OBVIOUS
<1>11. Without(s, x) \in Seq(S)
  <2> HIDE DEF kept, at, upTo
  <2> QED BY <1>2, <1>7, <1>9, <1>10
<1>12. ToSet(Without(s, x)) = ToSet(s) \ {x}
  <2>1. \A k \in DOMAIN s : s[k] # x => k \in kept
    OBVIOUS
  <2>2. DOMAIN Without(s, x) = 1 .. Cardinality(kept)
    <3> HIDE DEF kept, at
    <3> QED BY <1>9
  <2>3. \A i \in 1 .. Cardinality(kept) : Without(s, x)[i] = s[at(i)]
    <3> HIDE DEF kept, at
    <3> QED BY <1>9
  <2> HIDE DEF kept, at, upTo
  <2>4. ASSUME NEW y \in ToSet(Without(s, x))
        PROVE  y \in ToSet(s) /\ y # x
    BY <1>7, <1>10, <2>2, <2>3, <2>4 DEF ToSet
  <2>5. ASSUME NEW y \in ToSet(s), y # x
        PROVE  y \in ToSet(Without(s, x))
    <3>1. PICK k \in kept : s[k] = y
      BY <2>1, <2>5 DEF ToSet
    <3>2. Without(s, x)[Cardinality(upTo(k))] = y
      BY <1>8, <2>3, <3>1
    <3> QED BY <1>8, <2>2, <3>1, <3>2 DEF ToSet
  <2> QED BY <2>4, <2>5
<1>13. ASSUME IsInjective(s)
       PROVE  IsInjective(Without(s, x))
  <2>1. \A i, j \in 1 .. Cardinality(kept) : s[at(i)] = s[at(j)] => at(i) = at(j)
    <3> HIDE DEF kept, at, upTo
    <3> QED BY <1>7, <1>10, <1>13, Zenon DEF IsInjective
  <2>2. \A i, j \in 1 .. Cardinality(kept) : at(i) = at(j) => i = j
    <3> HIDE DEF kept, at, upTo
    <3> QED BY <1>7, Zenon
  <2> HIDE DEF kept, at, upTo
  <2> QED BY <1>9, <2>1, <2>2 DEF IsInjective
<1> QED BY <1>11, <1>12, <1>13

(* Two lists end to end. *)
LEMMA ConcatIsInjective ==
  ASSUME NEW S, NEW s \in Seq(S), NEW t \in Seq(S)
  PROVE  IsInjective(s \o t) <=> /\ IsInjective(s) /\ IsInjective(t)
                                 /\ ToSet(s) \cap ToSet(t) = {}
<1> DEFINE st == s \o t
<1>1. /\ Len(s) \in Nat /\ Len(t) \in Nat
      /\ DOMAIN s = 1 .. Len(s) /\ DOMAIN t = 1 .. Len(t)
      /\ DOMAIN st = 1 .. Len(s) + Len(t)
      /\ \A i \in 1 .. Len(s) : st[i] = s[i]
      /\ \A i \in 1 .. Len(t) : st[Len(s) + i] = t[i]
  OBVIOUS
<1>2. \A i \in DOMAIN st : i \in DOMAIN s \/ i - Len(s) \in DOMAIN t
  BY <1>1
<1>3. \A i \in DOMAIN t : Len(s) + i \in DOMAIN st
  BY <1>1
<1>4. \A i \in DOMAIN s : i \in DOMAIN st
  BY <1>1
<1>5. \A i \in DOMAIN st : i - Len(s) \in DOMAIN t => st[i] = t[i - Len(s)]
  <2> SUFFICES ASSUME NEW i \in DOMAIN st, i - Len(s) \in DOMAIN t
               PROVE  st[i] = t[i - Len(s)]
    OBVIOUS
  <2>1. st[Len(s) + (i - Len(s))] = t[i - Len(s)]
    BY <1>1
  <2>2. Len(s) + (i - Len(s)) = i
    BY <1>1
  <2> QED BY <2>1, <2>2
<1> HIDE DEF st
<1>6. ASSUME IsInjective(st)
      PROVE  /\ IsInjective(s) /\ IsInjective(t)
             /\ ToSet(s) \cap ToSet(t) = {}
  <2>1. IsInjective(s)
    BY <1>1, <1>4, <1>6 DEF IsInjective
  <2>2. ASSUME NEW i \in DOMAIN t, NEW j \in DOMAIN t, t[i] = t[j]
        PROVE  i = j
    <3>1. st[Len(s) + i] = st[Len(s) + j]
      BY <1>1, <2>2
    <3>2. Len(s) + i = Len(s) + j
      BY <1>3, <1>6, <3>1, Zenon DEF IsInjective
    <3> QED BY <1>1, <3>2
  <2>3. ASSUME NEW i \in DOMAIN s, NEW j \in DOMAIN t, s[i] = t[j]
        PROVE  FALSE
    <3>1. st[i] = st[Len(s) + j]
      BY <1>1, <2>3
    <3>2. i = Len(s) + j
      BY <1>3, <1>4, <1>6, <3>1, Zenon DEF IsInjective
    <3> QED BY <1>1, <3>2
  <2> QED BY <2>1, <2>2, <2>3 DEF IsInjective, ToSet
<1>7. ASSUME IsInjective(s), IsInjective(t), ToSet(s) \cap ToSet(t) = {}
      PROVE  IsInjective(st)
  <2> SUFFICES ASSUME NEW i \in DOMAIN st, NEW j \in DOMAIN st, st[i] = st[j]
               PROVE  i = j
    BY DEF IsInjective
  <2>1. CASE i \in DOMAIN s /\ j \in DOMAIN s
    BY <1>1, <1>7, <2>1 DEF IsInjective
  <2>2. CASE i - Len(s) \in DOMAIN t /\ j - Len(s) \in DOMAIN t
    <3>1. t[i - Len(s)] = t[j - Len(s)]
      BY <1>5, <2>2
    <3>2. i - Len(s) = j - Len(s)
      BY <1>7, <2>2, <3>1, Zenon DEF IsInjective
    <3> QED BY <1>1, <3>2
  <2>3. CASE i \in DOMAIN s /\ j - Len(s) \in DOMAIN t
    <3>1. s[i] = t[j - Len(s)]
      BY <1>1, <1>5, <2>3
    <3> QED BY <1>7, <2>3, <3>1 DEF ToSet
  <2>4. CASE i - Len(s) \in DOMAIN t /\ j \in DOMAIN s
    <3>1. s[j] = t[i - Len(s)]
      BY <1>1, <1>5, <2>4
    <3> QED BY <1>7, <2>4, <3>1 DEF ToSet
  <2> QED BY <1>2, <2>1, <2>2, <2>3, <2>4
<1> QED BY <1>6, <1>7 DEF st

(* A list whose elements are replaced by their images. *)
Image(f, s) == [i \in DOMAIN s |-> f[s[i]]]

(* The images are in the same order, and none twice unless it was before. *)
LEMMA ImageOfList ==
  ASSUME NEW S, NEW s \in Seq(S), NEW T, NEW D, ToSet(s) \subseteq D,
         NEW f \in Injection(D, T)
  PROVE  /\ Image(f, s) \in Seq(T)
         /\ ToSet(Image(f, s)) = {f[x] : x \in ToSet(s)}
         /\ IsInjective(s) => IsInjective(Image(f, s))
<1> DEFINE t == [i \in DOMAIN s |-> f[s[i]]]
<1>1. DOMAIN s = 1 .. Len(s) /\ Len(s) \in Nat
  OBVIOUS
<1>2. \A i \in DOMAIN s : s[i] \in D
  BY DEF ToSet
<1>3. f \in [D -> T] /\ IsInjective(f)
  BY DEF Injection
<1>4. t \in Seq(T)
  BY <1>1, <1>2, <1>3
<1>5. ToSet(t) = {f[x] : x \in ToSet(s)}
  BY DEF ToSet
<1>6. ASSUME IsInjective(s)
      PROVE  IsInjective(t)
  BY <1>2, <1>3, <1>6 DEF IsInjective
<1> QED BY <1>4, <1>5, <1>6 DEF Image

-----------------------------------------------------------------------------
(* Calls of users *)

(* A user that a caller can hold is live. *)
LEMMA CallableAreLive ==
  ASSUME Inv, NEW u \in Callable
  PROVE  u \in DOMAIN users /\ users[u].id_ \in Ids /\ users[u].id_ \in IdsInUse
<1>1. u \in DOMAIN users
  BY DEF Callable
<1>2. PICK n \in DOMAIN networks : u \in Range(networks[n])
  BY DEF Callable, Reachable
<1>3. PICK i \in DOMAIN networks[n] : networks[n][i] = u
  BY <1>2 DEF Range
<1>4. users[u].id_ = i
  BY <1>3 DEF Inv, EntriesAreLive
<1> QED BY <1>1, <1>3, <1>4 DEF Inv, TypeOK, IdsInUse

(* A step that leaves the networks alone, and of the users all but their   *)
(* lists, leaves alone what the networks have.                             *)
LEMMA ListsDoNotMatter ==
  ASSUME Inv, UNCHANGED <<networks, userID>>,
         (DOMAIN users)' = DOMAIN users,
         \A v \in DOMAIN users : /\ users'[v].id_ = users[v].id_
                                 /\ users'[v].us_ = users[v].us_
                                 /\ users'[v].business = users[v].business
  PROVE  /\ EntriesAreLive' /\ NetworksAreApart' /\ UsersHaveEntries'
         /\ BusinessUsersAreAtHome'
<1>1. EntriesAreLive'
  BY DEF Inv, EntriesAreLive
<1>2. NetworksAreApart'
  BY DEF Inv, NetworksAreApart
<1>3. UsersHaveEntries'
  BY DEF Inv, UsersHaveEntries
<1>4. BusinessUsersAreAtHome'
  BY DEF Inv, BusinessUsersAreAtHome, EntriesAreLive
<1> QED BY <1>1, <1>2, <1>3, <1>4

(* What a friends list may be replaced by. *)
LEMMA FriendsChange ==
  ASSUME Inv, NEW u \in DOMAIN users, NEW s \in Seq(Ids), IsInjective(s),
         userID = 0 \/ \A i \in ToSet(s) : i < userID,
         users' = [users EXCEPT ![u].friends = s],
         UNCHANGED <<networks, objects, userID>>
  PROVE  Inv'
<1>1. /\ (DOMAIN users)' = DOMAIN users
      /\ \A v \in DOMAIN users \ {u} : users'[v] = users[v]
      /\ users'[u] = [users[u] EXCEPT !.friends = s]
  OBVIOUS
<1>2. \A v \in DOMAIN users :
        users[v] \in [us_ : Networks \cup {NoNetwork}, id_ : 0 .. IdModulus - 1,
                      business : BOOLEAN, friends : Seq(Ids),
                      posts_ : Seq(Objects), receivedMsgs_ : Seq(Objects)]
  BY DEF Inv, TypeOK
<1>3. /\ users'[u].friends = s
      /\ users'[u].us_ = users[u].us_ /\ users'[u].id_ = users[u].id_
      /\ users'[u].business = users[u].business
      /\ users'[u].posts_ = users[u].posts_
      /\ users'[u].receivedMsgs_ = users[u].receivedMsgs_
  BY <1>1, <1>2
<1>4. TypeOK'
  <2>1. users'[u] \in [us_ : Networks \cup {NoNetwork}, id_ : 0 .. IdModulus - 1,
                       business : BOOLEAN, friends : Seq(Ids),
                       posts_ : Seq(Objects), receivedMsgs_ : Seq(Objects)]
    BY <1>1, <1>2
  <2> QED BY <1>1, <1>2, <2>1 DEF Inv, TypeOK
<1>5. /\ EntriesAreLive' /\ NetworksAreApart' /\ UsersHaveEntries'
      /\ BusinessUsersAreAtHome'
  <2>1. \A v \in DOMAIN users : /\ users'[v].id_ = users[v].id_
                                /\ users'[v].us_ = users[v].us_
                                /\ users'[v].business = users[v].business
    BY <1>1, <1>3
  <2> QED BY <1>1, <2>1, ListsDoNotMatter
<1>6. IdsAreUsedUp'
  BY <1>1, <1>3 DEF Inv, IdsAreUsedUp, IdsInUse
<1>7. ObjectsAreOwnedOnce'
  <2>1. \A v \in DOMAIN users : /\ users'[v].posts_ = users[v].posts_
                                /\ users'[v].receivedMsgs_ = users[v].receivedMsgs_
    BY <1>1, <1>3
  <2>2. \A v \in DOMAIN users : OwnedBy(v)' = OwnedBy(v)
    BY <2>1 DEF OwnedBy
  <2> QED BY <1>1, <2>1, <2>2 DEF Inv, ObjectsAreOwnedOnce
<1>8. FriendsAreUnique'
  BY <1>1, <1>3 DEF Inv, FriendsAreUnique
<1> QED BY <1>4, <1>5, <1>6, <1>7, <1>8 DEF Inv

(* A friend has an id that is in use and not yet in the list. *)
LEMMA AddFriendKeepsInv ==
  ASSUME Inv, NEW u \in Callable, NEW v \in Callable, AddFriend(u, v)
  PROVE  Inv'
<1>1. /\ u \in DOMAIN users /\ users[v].id_ \in Ids /\ users[v].id_ \in IdsInUse
      /\ users[u].friends \in Seq(Ids) /\ IsInjective(users[u].friends)
  BY CallableAreLive DEF Inv, TypeOK, FriendsAreUnique
<1> DEFINE s == Append(users[u].friends, users[v].id_)
<1>2. users' = [users EXCEPT ![u].friends = s]
  BY DEF AddFriend, Append1
<1>3. /\ s \in Seq(Ids) /\ IsInjective(s)
      /\ ToSet(s) = ToSet(users[u].friends) \cup {users[v].id_}
  BY <1>1, Appended DEF AddFriend, CanAdd
<1>4. userID = 0 \/ \A i \in ToSet(s) : i < userID
  BY <1>1, <1>3 DEF Inv, IdsAreUsedUp
<1> HIDE DEF s
<1> QED BY <1>1, <1>2, <1>3, <1>4, FriendsChange DEF AddFriend

(* A list without a friend has nobody new. *)
LEMMA RemoveFriendKeepsInv ==
  ASSUME Inv, NEW u \in Callable, NEW v \in Callable, RemoveFriend(u, v)
  PROVE  Inv'
<1>1. /\ u \in DOMAIN users
      /\ users[u].friends \in Seq(Ids) /\ IsInjective(users[u].friends)
  BY CallableAreLive DEF Inv, TypeOK, FriendsAreUnique
<1> DEFINE s == Without(users[u].friends, users[v].id_)
<1>2. users' = [users EXCEPT ![u].friends = s]
  BY DEF RemoveFriend
<1>3. /\ s \in Seq(Ids) /\ IsInjective(s)
      /\ ToSet(s) \subseteq ToSet(users[u].friends)
  BY <1>1, WithoutKeepsOrder
<1>4. userID = 0 \/ \A i \in ToSet(s) : i < userID
  BY <1>1, <1>3 DEF Inv, IdsAreUsedUp
<1> HIDE DEF s
<1> QED BY <1>1, <1>2, <1>3, <1>4, FriendsChange DEF RemoveFriend

(* A new object that is appended to one of the two lists of one user. *)
LEMMA ObjectArrives ==
  ASSUME Inv, NEW u \in DOMAIN users, NEW o \in FreshObjects,
         NEW field \in {"posts_", "receivedMsgs_"},
         NEW x \in {Message, PostWith(NoMedia)} \cup {PostWith(MediaFor(o, c)) : c \in Media},
         Append1(u, field, o), objects' = Inserted(objects, o, x),
         UNCHANGED <<networks, userID>>
  PROVE  Inv'
<1> USE DEF FreshObjects
<1>1. /\ (DOMAIN users)' = DOMAIN users
      /\ \A v \in DOMAIN users \ {u} : users'[v] = users[v]
      /\ users'[u] = [users[u] EXCEPT ![field] = Append(@, o)]
  BY DEF Append1
<1>2. \A v \in DOMAIN users :
        users[v] \in [us_ : Networks \cup {NoNetwork}, id_ : 0 .. IdModulus - 1,
                      business : BOOLEAN, friends : Seq(Ids),
                      posts_ : Seq(Objects), receivedMsgs_ : Seq(Objects)]
  BY DEF Inv, TypeOK
<1>3. /\ users'[u].friends = users[u].friends
      /\ users'[u].us_ = users[u].us_ /\ users'[u].id_ = users[u].id_
      /\ users'[u].business = users[u].business
      /\ \/ /\ users'[u].posts_ = Append(users[u].posts_, o)
            /\ users'[u].receivedMsgs_ = users[u].receivedMsgs_
         \/ /\ users'[u].posts_ = users[u].posts_
            /\ users'[u].receivedMsgs_ = Append(users[u].receivedMsgs_, o)
  BY <1>1, <1>2
<1>4. /\ (DOMAIN objects)' = DOMAIN objects \cup {o}
      /\ \A p \in DOMAIN objects : objects'[p] = objects[p]
      /\ objects'[o] = x
  BY DEF Inserted
<1>5. TypeOK'
  <2>1. users'[u] \in [us_ : Networks \cup {NoNetwork}, id_ : 0 .. IdModulus - 1,
                       business : BOOLEAN, friends : Seq(Ids),
                       posts_ : Seq(Objects), receivedMsgs_ : Seq(Objects)]
    <3>1. users[u].posts_ \in Seq(Objects) /\ users[u].receivedMsgs_ \in Seq(Objects)
      BY <1>2
    <3>2. /\ Append(users[u].posts_, o) \in Seq(Objects)
          /\ Append(users[u].receivedMsgs_, o) \in Seq(Objects)
      BY <3>1, Appended
    <3>3. \/ users'[u] = [users[u] EXCEPT !.posts_ = Append(users[u].posts_, o)]
          \/ users'[u] = [users[u] EXCEPT !.receivedMsgs_ = Append(users[u].receivedMsgs_, o)]
      BY <1>1, <1>2
    <3> QED BY <1>2, <3>2, <3>3
  <2>2. \A v \in (DOMAIN users)' :
          users'[v] \in [us_ : Networks \cup {NoNetwork}, id_ : 0 .. IdModulus - 1,
                         business : BOOLEAN, friends : Seq(Ids),
                         posts_ : Seq(Objects), receivedMsgs_ : Seq(Objects)]
    BY <1>1, <1>2, <2>1
  <2>3. Range(objects') \subseteq Range(objects) \cup {x}
    BY <1>4 DEF Range
  <2>4. x \in {Message, PostWith(NoMedia)} \cup {PostWith(MediaFor(p, c)) : p \in Objects, c \in Media}
    OBVIOUS
  <2>5. Range(objects') \subseteq
          {Message, PostWith(NoMedia)} \cup {PostWith(MediaFor(p, c)) : p \in Objects, c \in Media}
    BY <2>3, <2>4 DEF Inv, TypeOK
  <2> QED BY <1>1, <1>4, <2>2, <2>5 DEF Inv, TypeOK
<1>6. /\ EntriesAreLive' /\ NetworksAreApart' /\ UsersHaveEntries'
      /\ BusinessUsersAreAtHome'
  <2>1. \A v \in DOMAIN users : /\ users'[v].id_ = users[v].id_
                                /\ users'[v].us_ = users[v].us_
                                /\ users'[v].business = users[v].business
    BY <1>1, <1>3
  <2> QED BY <1>1, <2>1, ListsDoNotMatter
<1>7. IdsAreUsedUp'
  BY <1>1, <1>3 DEF Inv, IdsAreUsedUp, IdsInUse
<1>8. ObjectsAreOwnedOnce'
  <2>1. \A v \in DOMAIN users \ {u} : OwnedBy(v)' = OwnedBy(v)
    BY <1>1 DEF OwnedBy
  <2>2. /\ users[u].posts_ \in Seq(Objects) /\ users[u].receivedMsgs_ \in Seq(Objects)
        /\ users'[u].posts_ \in Seq(Objects) /\ users'[u].receivedMsgs_ \in Seq(Objects)
    BY <1>1, <1>2, <1>5 DEF TypeOK
  <2>3. /\ ToSet(Append(users[u].posts_, o)) = ToSet(users[u].posts_) \cup {o}
        /\ ToSet(Append(users[u].receivedMsgs_, o)) = ToSet(users[u].receivedMsgs_) \cup {o}
        /\ /\ IsInjective(users[u].posts_)
           /\ o \notin ToSet(users[u].posts_)
           => IsInjective(Append(users[u].posts_, o))
        /\ /\ IsInjective(users[u].receivedMsgs_)
           /\ o \notin ToSet(users[u].receivedMsgs_)
           => IsInjective(Append(users[u].receivedMsgs_, o))
    BY <2>2, Appended
  <2>4. OwnedBy(u)' = OwnedBy(u) \cup {o}
    BY <1>3, <2>3 DEF OwnedBy
  <2>5. DOMAIN objects = UNION {OwnedBy(v) : v \in DOMAIN users}
    BY DEF Inv, ObjectsAreOwnedOnce
  <2>6. \A v \in DOMAIN users : o \notin OwnedBy(v)
    BY <2>5
  <2>7. (DOMAIN objects)' = UNION {OwnedBy(v)' : v \in DOMAIN users}
    BY <1>4, <2>1, <2>4, <2>5
  <2>8. IsInjective(users'[u].posts_ \o users'[u].receivedMsgs_)
    <3>1. /\ IsInjective(users[u].posts_) /\ IsInjective(users[u].receivedMsgs_)
          /\ ToSet(users[u].posts_) \cap ToSet(users[u].receivedMsgs_) = {}
      BY <2>2, ConcatIsInjective DEF Inv, ObjectsAreOwnedOnce
    <3>2. o \notin ToSet(users[u].posts_) /\ o \notin ToSet(users[u].receivedMsgs_)
      BY <2>6 DEF OwnedBy
    <3>3. /\ IsInjective(users'[u].posts_) /\ IsInjective(users'[u].receivedMsgs_)
          /\ ToSet(users'[u].posts_) \cap ToSet(users'[u].receivedMsgs_) = {}
      BY <1>3, <2>3, <3>1, <3>2
    <3> QED BY <2>2, <3>3, ConcatIsInjective
  <2>9. \A v \in DOMAIN users : IsInjective(users'[v].posts_ \o users'[v].receivedMsgs_)
    BY <1>1, <2>8 DEF Inv, ObjectsAreOwnedOnce
  <2>10. \A v, w \in DOMAIN users : v # w => OwnedBy(v)' \cap OwnedBy(w)' = {}
    BY <2>1, <2>4, <2>6 DEF Inv, ObjectsAreOwnedOnce
  <2>11. x.class = "Post" => x.media_.at \in {o, NoObject}
    BY DEF Message, PostWith, NoMedia, MediaFor
  <2>12. \A p \in (DOMAIN objects)' :
           objects'[p].class = "Post" => objects'[p].media_.at \in {p, NoObject}
    BY <1>4, <2>11 DEF Inv, ObjectsAreOwnedOnce
  <2> QED BY <1>1, <2>7, <2>9, <2>10, <2>12 DEF ObjectsAreOwnedOnce
<1>9. FriendsAreUnique'
  BY <1>1, <1>3 DEF Inv, FriendsAreUnique
<1> QED BY <1>5, <1>6, <1>7, <1>8, <1>9 DEF Inv

(* The address of a new object is free. *)
LEMMA NewObjectIsFresh ==
  ASSUME FreshObjects # {}
  PROVE  NewObjectAddress \in FreshObjects
BY DEF NewObjectAddress

(* A step that changes nothing. *)
LEMMA StutterKeepsInv ==
  ASSUME Inv, UNCHANGED vars
  PROVE  Inv'
<1> USE DEF vars
<1>1. TypeOK'
  BY DEF Inv, TypeOK
<1>2. /\ EntriesAreLive' /\ NetworksAreApart' /\ UsersHaveEntries'
      /\ BusinessUsersAreAtHome'
  BY ListsDoNotMatter
<1>3. IdsAreUsedUp'
  BY DEF Inv, IdsAreUsedUp, IdsInUse
<1>4. ObjectsAreOwnedOnce'
  <2>1. \A u \in DOMAIN users : OwnedBy(u)' = OwnedBy(u)
    BY DEF OwnedBy
  <2> QED BY <2>1 DEF Inv, ObjectsAreOwnedOnce
<1>5. FriendsAreUnique'
  BY DEF Inv, FriendsAreUnique
<1> QED BY <1>1, <1>2, <1>3, <1>4, <1>5 DEF Inv

(* All that a user does keeps the invariant. *)
LEMMA MemberCallsKeepInv ==
  ASSUME Inv, MemberCalls
  PROVE  Inv'
<1>2. PICK u \in Callable :
        \/ RefuseFriend(u) \/ RejectMessage(u)
        \/ \E v \in Callable : AddFriend(u, v) \/ RemoveFriend(u, v)
        \/ /\ FreshObjects # {}
           /\ \/ ReceiveMessage(u, NewObjectAddress)
              \/ \E v \in Callable : SendMessage(u, v, NewObjectAddress)
        \/ /\ FreshObjects # {}
           /\ \E media \in {NoMedia} \cup {MediaFor(NewObjectAddress, c) : c \in Media} :
                Post(u, NewObjectAddress, media)
  BY DEF MemberCalls
<1>3. CASE RefuseFriend(u) \/ RejectMessage(u)
  BY <1>3, StutterKeepsInv DEF RefuseFriend, RejectMessage, vars
<1>4. CASE \E v \in Callable : AddFriend(u, v) \/ RemoveFriend(u, v)
  BY <1>4, AddFriendKeepsInv, RemoveFriendKeepsInv
<1>5. ASSUME FreshObjects # {}, NEW v \in Callable, Receive(v, NewObjectAddress),
             UNCHANGED <<networks, userID>>
      PROVE  Inv'
  <2>1. v \in DOMAIN users /\ NewObjectAddress \in FreshObjects
    BY <1>5, CallableAreLive, NewObjectIsFresh
  <2> QED BY <1>5, <2>1, ObjectArrives DEF Receive
<1>6. CASE /\ FreshObjects # {}
           /\ \/ ReceiveMessage(u, NewObjectAddress)
              \/ \E v \in Callable : SendMessage(u, v, NewObjectAddress)
  BY <1>5, <1>6 DEF ReceiveMessage, SendMessage
<1>7. ASSUME FreshObjects # {},
             NEW media \in {NoMedia} \cup {MediaFor(NewObjectAddress, c) : c \in Media},
             Post(u, NewObjectAddress, media)
      PROVE  Inv'
  <2>1. u \in DOMAIN users /\ NewObjectAddress \in FreshObjects
    BY <1>7, CallableAreLive, NewObjectIsFresh
  <2>2. PostWith(media) \in {Message, PostWith(NoMedia)} \cup
                            {PostWith(MediaFor(NewObjectAddress, c)) : c \in Media}
    BY <1>7
  <2> QED BY <1>7, <2>1, <2>2, ObjectArrives DEF Post
<1> QED BY <1>2, <1>3, <1>4, <1>6, <1>7

-----------------------------------------------------------------------------
(* New networks and new users *)

(* A new network has nobody. *)
LEMMA CreateKeepsInv ==
  ASSUME Inv, NEW n \in Networks, Create(n)
  PROVE  Inv'
<1>1. /\ n \notin DOMAIN networks
      /\ (DOMAIN networks)' = DOMAIN networks \cup {n}
      /\ \A m \in DOMAIN networks : networks'[m] = networks[m]
      /\ DOMAIN networks'[n] = {}
  BY DEF Create, Inserted
<1>2. UNCHANGED <<users, objects, userID>>
  BY DEF Create
<1>3. TypeOK'
  <2>1. \A m \in (DOMAIN networks)' :
          DOMAIN networks'[m] \subseteq Ids /\ Range(networks'[m]) \subseteq Users
    BY <1>1 DEF Inv, TypeOK, Range
  <2> QED BY <1>1, <1>2, <2>1 DEF Inv, TypeOK
<1>4. EntriesAreLive'
  BY <1>1, <1>2 DEF Inv, EntriesAreLive
<1>5. NetworksAreApart'
  BY <1>1 DEF Inv, NetworksAreApart, Range
<1>6. UsersHaveEntries'
  BY <1>1, <1>2 DEF Inv, UsersHaveEntries
<1>7. IdsAreUsedUp'
  <2>1. IdsInUse' = IdsInUse
    BY <1>1 DEF IdsInUse
  <2> QED BY <1>2, <2>1 DEF Inv, IdsAreUsedUp
<1>8. ObjectsAreOwnedOnce'
  <2>1. \A u \in DOMAIN users : OwnedBy(u)' = OwnedBy(u)
    BY <1>2 DEF OwnedBy
  <2> QED BY <1>2, <2>1 DEF Inv, ObjectsAreOwnedOnce
<1>9. FriendsAreUnique'
  BY <1>2 DEF Inv, FriendsAreUnique
<1>10. BusinessUsersAreAtHome'
  BY <1>1, <1>2 DEF Inv, BusinessUsersAreAtHome
<1> QED BY <1>3, <1>4, <1>5, <1>6, <1>7, <1>8, <1>9, <1>10 DEF Inv

(* What a user that has just been allocated has: nothing. *)
LEMMA UserArrives ==
  ASSUME Inv, NEW u \in FreshUsers, NEW n \in Networks \cup {NoNetwork},
         NEW id \in 0 .. IdModulus - 1, NEW isBusinessUser \in BOOLEAN,
         users' = Inserted(users, u, NewUser(n, id, isBusinessUser)), UNCHANGED objects
  PROVE  /\ u \in Users /\ u \notin DOMAIN users
         /\ (DOMAIN users)' = DOMAIN users \cup {u}
         /\ \A v \in DOMAIN users : users'[v] = users[v]
         /\ users'[u] = NewUser(n, id, isBusinessUser)
         /\ users'[u] \in [us_ : Networks \cup {NoNetwork}, id_ : 0 .. IdModulus - 1,
                           business : BOOLEAN, friends : Seq(Ids),
                           posts_ : Seq(Objects), receivedMsgs_ : Seq(Objects)]
         /\ ToSet(users'[u].friends) = {}
         /\ ObjectsAreOwnedOnce' /\ FriendsAreUnique'
<1>1. /\ u \in Users /\ u \notin DOMAIN users
      /\ (DOMAIN users)' = DOMAIN users \cup {u}
      /\ \A v \in DOMAIN users : users'[v] = users[v]
      /\ users'[u] = NewUser(n, id, isBusinessUser)
  BY DEF FreshUsers, Inserted
<1>2. /\ users'[u].friends = <<>> /\ users'[u].posts_ = <<>>
      /\ users'[u].receivedMsgs_ = <<>>
  BY <1>1 DEF NewUser
<1>3. users'[u] \in [us_ : Networks \cup {NoNetwork}, id_ : 0 .. IdModulus - 1,
                     business : BOOLEAN, friends : Seq(Ids),
                     posts_ : Seq(Objects), receivedMsgs_ : Seq(Objects)]
  <2> DEFINE anyId == 0 .. IdModulus - 1
             friendLists == Seq(Ids)
             objectLists == Seq(Objects)
  <2>1. <<>> \in friendLists /\ <<>> \in objectLists /\ id \in anyId
    OBVIOUS
  <2> HIDE DEF anyId, friendLists, objectLists
  <2>2. NewUser(n, id, isBusinessUser) \in
          [us_ : Networks \cup {NoNetwork}, id_ : anyId, business : BOOLEAN,
           friends : friendLists, posts_ : objectLists, receivedMsgs_ : objectLists]
    BY <2>1 DEF NewUser
  <2> QED BY <1>1, <2>2, Zenon DEF anyId, friendLists, objectLists
<1>4. \A v \in DOMAIN users : OwnedBy(v)' = OwnedBy(v)
  BY <1>1 DEF OwnedBy
<1>5. OwnedBy(u)' = {}
  BY <1>2 DEF OwnedBy, ToSet
<1>6. ObjectsAreOwnedOnce'
  <2>1. (DOMAIN objects)' = UNION {OwnedBy(v)' : v \in (DOMAIN users)'}
    BY <1>1, <1>4, <1>5 DEF Inv, ObjectsAreOwnedOnce
  <2>2. IsInjective(users'[u].posts_ \o users'[u].receivedMsgs_)
    <3>1. DOMAIN (users'[u].posts_ \o users'[u].receivedMsgs_) = {}
      BY <1>2
    <3> QED BY <3>1 DEF IsInjective
  <2>3. \A v \in (DOMAIN users)' : IsInjective(users'[v].posts_ \o users'[v].receivedMsgs_)
    BY <1>1, <2>2 DEF Inv, ObjectsAreOwnedOnce
  <2>4. \A v, w \in (DOMAIN users)' : v # w => OwnedBy(v)' \cap OwnedBy(w)' = {}
    BY <1>1, <1>4, <1>5 DEF Inv, ObjectsAreOwnedOnce
  <2> QED BY <2>1, <2>3, <2>4 DEF Inv, ObjectsAreOwnedOnce
<1>7. FriendsAreUnique'
  BY <1>1, <1>2 DEF Inv, FriendsAreUnique, IsInjective
<1>8. ToSet(users'[u].friends) = {}
  BY <1>2 DEF ToSet
<1> QED BY <1>1, <1>3, <1>6, <1>7, <1>8

(* The counter either counts or has used up the ids. *)
LEMMA NextId ==
  ASSUME NEW i \in 0 .. IdModulus - 1
  PROVE  (i + 1) % IdModulus = IF i = IdModulus - 1 THEN 0 ELSE i + 1
<1> IdModulus \in Nat /\ IdModulus > 1
  BY USocialAssumption
<1>1. CASE i = IdModulus - 1
  BY <1>1
<1>2. CASE i # IdModulus - 1
  BY <1>2
<1> QED BY <1>1, <1>2

(* The id of a new user is in no map and in no list. *)
LEMMA RegisterUserKeepsInv ==
  ASSUME Inv, NEW n \in DOMAIN networks, NEW u \in FreshUsers,
         NEW isBusinessUser \in Kinds, RegisterUser(n, u, isBusinessUser)
  PROVE  Inv'
<1>1. userID \in Ids /\ n \in Networks /\ isBusinessUser \in BOOLEAN
  BY USocialAssumption DEF Inv, TypeOK, RegisterUser, Ids
<1>2. userID' = (IF userID = IdModulus - 1 THEN 0 ELSE userID + 1)
  BY NextId DEF Inv, TypeOK, RegisterUser, Insert
<1>3. /\ \A i \in IdsInUse : i < userID
      /\ \A v \in DOMAIN users : \A i \in ToSet(users[v].friends) : i < userID
  BY DEF Inv, IdsAreUsedUp, RegisterUser
<1>4. userID \notin IdsInUse
  BY <1>1, <1>3 DEF Ids
<1>5. /\ u \in Users /\ u \notin DOMAIN users
      /\ (DOMAIN users)' = DOMAIN users \cup {u}
      /\ \A v \in DOMAIN users : users'[v] = users[v]
      /\ users'[u] = NewUser(n, userID, isBusinessUser)
      /\ users'[u] \in [us_ : Networks \cup {NoNetwork}, id_ : 0 .. IdModulus - 1,
                        business : BOOLEAN, friends : Seq(Ids),
                        posts_ : Seq(Objects), receivedMsgs_ : Seq(Objects)]
      /\ ToSet(users'[u].friends) = {}
      /\ ObjectsAreOwnedOnce' /\ FriendsAreUnique'
  <2>1. n \in Networks \cup {NoNetwork} /\ userID \in 0 .. IdModulus - 1
    BY <1>1 DEF Inv, TypeOK
  <2>2. /\ users' = Inserted(users, u, NewUser(n, userID, isBusinessUser))
        /\ UNCHANGED objects
    BY DEF RegisterUser, Insert
  <2> QED BY <1>1, <2>1, <2>2, UserArrives
<1>6. /\ (DOMAIN networks)' = DOMAIN networks
      /\ \A m \in DOMAIN networks \ {n} : networks'[m] = networks[m]
      /\ networks'[n] = Inserted(networks[n], userID, u)
  BY DEF RegisterUser, Insert
<1>7. /\ userID \notin DOMAIN networks[n]
      /\ DOMAIN networks'[n] = DOMAIN networks[n] \cup {userID}
      /\ \A i \in DOMAIN networks[n] : networks'[n][i] = networks[n][i]
      /\ networks'[n][userID] = u
  BY <1>4, <1>6 DEF Inserted, IdsInUse
<1>8. users'[u].id_ = userID /\ users'[u].us_ = n
  BY <1>5 DEF NewUser
<1>9. TypeOK'
  <2>1. \A m \in (DOMAIN networks)' :
          DOMAIN networks'[m] \subseteq Ids /\ Range(networks'[m]) \subseteq Users
    <3>1. DOMAIN networks'[n] \subseteq Ids
      BY <1>1, <1>7 DEF Inv, TypeOK
    <3>2. Range(networks'[n]) = Range(networks[n]) \cup {u}
      BY <1>7 DEF Range
    <3> QED BY <1>5, <1>6, <3>1, <3>2 DEF Inv, TypeOK
  <2>2. userID' \in 0 .. IdModulus - 1
    BY <1>1, <1>2, USocialAssumption DEF Ids
  <2>3. UNCHANGED objects
    BY DEF RegisterUser, Insert
  <2>4. \A v \in (DOMAIN users)' :
          users'[v] \in [us_ : Networks \cup {NoNetwork}, id_ : 0 .. IdModulus - 1,
                         business : BOOLEAN, friends : Seq(Ids),
                         posts_ : Seq(Objects), receivedMsgs_ : Seq(Objects)]
    BY <1>5 DEF Inv, TypeOK
  <2> QED BY <1>5, <1>6, <2>1, <2>2, <2>3, <2>4 DEF Inv, TypeOK
<1>10. EntriesAreLive'
  <2>1. ASSUME NEW m \in DOMAIN networks, NEW i \in DOMAIN networks'[m]
        PROVE  networks'[m][i] \in (DOMAIN users)' /\ users'[networks'[m][i]].id_ = i
    <3>1. CASE m = n /\ i = userID
      BY <1>5, <1>7, <1>8, <3>1
    <3>2. CASE ~(m = n /\ i = userID)
      <4>1. i \in DOMAIN networks[m] /\ networks'[m][i] = networks[m][i]
        BY <1>6, <1>7, <3>2
      <4> QED BY <1>5, <4>1 DEF Inv, EntriesAreLive
    <3> QED BY <3>1, <3>2
  <2> QED BY <1>6, <2>1 DEF EntriesAreLive
<1>11. NetworksAreApart'
  <2>1. \A m \in DOMAIN networks : u \notin Range(networks[m])
    BY <1>5 DEF Inv, EntriesAreLive, Range
  <2>2. Range(networks'[n]) = Range(networks[n]) \cup {u}
    BY <1>7 DEF Range
  <2> QED BY <1>6, <2>1, <2>2 DEF Inv, NetworksAreApart
<1>12. UsersHaveEntries'
  <2>1. ASSUME NEW v \in DOMAIN users, users'[v].id_ # 0
        PROVE  \E m \in DOMAIN networks : /\ users'[v].id_ \in DOMAIN networks'[m]
                                          /\ networks'[m][users'[v].id_] = v
    <3>1. PICK m \in DOMAIN networks : /\ users[v].id_ \in DOMAIN networks[m]
                                       /\ networks[m][users[v].id_] = v
      BY <1>5, <2>1 DEF Inv, UsersHaveEntries
    <3>2. users[v].id_ \in DOMAIN networks'[m] /\ networks'[m][users[v].id_] = v
      BY <1>6, <1>7, <3>1
    <3> QED BY <1>5, <3>2
  <2> QED BY <1>5, <1>6, <1>7, <1>8, <2>1 DEF UsersHaveEntries
<1>13. IdsAreUsedUp'
  <2>1. CASE userID = IdModulus - 1
    BY <1>2, <2>1 DEF IdsAreUsedUp
  <2>2. CASE userID # IdModulus - 1
    <3>1. userID' = userID + 1
      BY <1>2, <2>2
    <3>2. \A i \in IdsInUse' : i \in IdsInUse \/ i = userID
      BY <1>6, <1>7 DEF IdsInUse
    <3>3. \A i \in IdsInUse : i \in Ids
      BY DEF Inv, TypeOK, IdsInUse
    <3>4. \A i \in IdsInUse' : i < userID'
      BY <1>1, <1>3, <3>1, <3>2, <3>3 DEF Ids
    <3>5. \A v \in DOMAIN users : ToSet(users[v].friends) \subseteq Ids
      BY DEF Inv, TypeOK, ToSet
    <3>6. \A v \in (DOMAIN users)' : \A i \in ToSet(users'[v].friends) : i < userID'
      <4>1. ASSUME NEW v \in (DOMAIN users)', NEW i \in ToSet(users'[v].friends)
            PROVE  v \in DOMAIN users /\ i \in ToSet(users[v].friends)
        BY <1>5, <4>1
      <4>2. ASSUME NEW v \in DOMAIN users, NEW i \in ToSet(users[v].friends)
            PROVE  i < userID + 1
        <5>1. i \in Int /\ userID \in Int /\ i < userID
          BY <1>1, <1>3, <3>5 DEF Ids
        <5> QED BY <5>1
      <4> QED BY <3>1, <4>1, <4>2
    <3> QED BY <3>4, <3>6 DEF IdsAreUsedUp
  <2> QED BY <2>1, <2>2
<1>14. BusinessUsersAreAtHome'
  <2>1. ASSUME NEW m \in DOMAIN networks, NEW i \in DOMAIN networks'[m],
               users'[networks'[m][i]].business
        PROVE  users'[networks'[m][i]].us_ = m
    <3>1. CASE m = n /\ i = userID
      BY <1>7, <1>8, <3>1
    <3>2. CASE ~(m = n /\ i = userID)
      <4>1. i \in DOMAIN networks[m] /\ networks'[m][i] = networks[m][i]
        BY <1>6, <1>7, <3>2
      <4> QED BY <1>5, <2>1, <4>1 DEF Inv, EntriesAreLive, BusinessUsersAreAtHome
    <3> QED BY <3>1, <3>2
  <2> QED BY <1>6, <2>1 DEF BusinessUsersAreAtHome
<1> QED BY <1>5, <1>9, <1>10, <1>11, <1>12, <1>13, <1>14 DEF Inv

(* The user that could not be registered has no entry and no id. *)
LEMMA OverflowKeepsInv ==
  ASSUME Inv, NEW u \in FreshUsers, NEW isBusinessUser \in Kinds,
         RegisterUserOverflows(u, isBusinessUser)
  PROVE  Inv'
<1>1. 0 \in 0 .. IdModulus - 1 /\ isBusinessUser \in BOOLEAN
  BY USocialAssumption
<1>2. UNCHANGED <<networks, objects, userID>> /\ userID = 0
  BY DEF RegisterUserOverflows
<1>3. /\ u \in Users /\ u \notin DOMAIN users
      /\ (DOMAIN users)' = DOMAIN users \cup {u}
      /\ \A v \in DOMAIN users : users'[v] = users[v]
      /\ users'[u] = NewUser(NoNetwork, 0, isBusinessUser)
      /\ users'[u] \in [us_ : Networks \cup {NoNetwork}, id_ : 0 .. IdModulus - 1,
                        business : BOOLEAN, friends : Seq(Ids),
                        posts_ : Seq(Objects), receivedMsgs_ : Seq(Objects)]
      /\ ToSet(users'[u].friends) = {}
      /\ ObjectsAreOwnedOnce' /\ FriendsAreUnique'
  BY <1>1, UserArrives DEF RegisterUserOverflows
<1>4. users'[u].id_ = 0
  BY <1>3 DEF NewUser
<1>5. TypeOK'
  <2>1. \A v \in (DOMAIN users)' :
          users'[v] \in [us_ : Networks \cup {NoNetwork}, id_ : 0 .. IdModulus - 1,
                         business : BOOLEAN, friends : Seq(Ids),
                         posts_ : Seq(Objects), receivedMsgs_ : Seq(Objects)]
    BY <1>3 DEF Inv, TypeOK
  <2> QED BY <1>2, <1>3, <2>1 DEF Inv, TypeOK
<1>6. EntriesAreLive'
  BY <1>2, <1>3 DEF Inv, EntriesAreLive
<1>7. NetworksAreApart'
  BY <1>2 DEF Inv, NetworksAreApart
<1>8. UsersHaveEntries'
  BY <1>2, <1>3, <1>4 DEF Inv, UsersHaveEntries
<1>9. IdsAreUsedUp'
  BY <1>2 DEF IdsAreUsedUp
<1>10. BusinessUsersAreAtHome'
  BY <1>2, <1>3 DEF Inv, EntriesAreLive, BusinessUsersAreAtHome
<1> QED BY <1>3, <1>5, <1>6, <1>7, <1>8, <1>9, <1>10 DEF Inv

-----------------------------------------------------------------------------
(* Users that are deleted *)

(* A step in which the users dead are deleted, with what they own and      *)
(* their entries and nothing else.                                         *)
Bury(dead) ==
  /\ users' = Restrict(users, DOMAIN users \ dead)
  /\ objects' = Deleted(UNION {OwnedBy(u) : u \in dead})
  /\ userID' = userID
  /\ \A m \in DOMAIN networks' :
       /\ m \in DOMAIN networks
       /\ \A i \in DOMAIN networks'[m] :
            /\ i \in DOMAIN networks[m]
            /\ networks'[m][i] = networks[m][i]
            /\ networks[m][i] \notin dead
  /\ \A m \in DOMAIN networks : \A i \in DOMAIN networks[m] :
       networks[m][i] \notin dead => m \in DOMAIN networks' /\ i \in DOMAIN networks'[m]

(* What stays is as sound as before. *)
LEMMA UsersLeave ==
  ASSUME Inv, NEW dead \in SUBSET DOMAIN users, Bury(dead)
  PROVE  Inv'
<1>a. /\ (DOMAIN networks)' \subseteq DOMAIN networks
      /\ \A m \in (DOMAIN networks)' :
           /\ m \in DOMAIN networks
           /\ DOMAIN networks'[m] \subseteq DOMAIN networks[m]
           /\ \A i \in DOMAIN networks'[m] :
                networks'[m][i] = networks[m][i] /\ networks[m][i] \notin dead
  BY DEF Bury
<1>b. \A m \in DOMAIN networks : \A i \in DOMAIN networks[m] :
        networks[m][i] \notin dead => m \in (DOMAIN networks)' /\ i \in DOMAIN networks'[m]
  BY DEF Bury
<1>c. userID' = userID
  BY DEF Bury
<1>1. /\ (DOMAIN users)' = DOMAIN users \ dead
      /\ \A v \in (DOMAIN users)' : users'[v] = users[v]
  BY DEF Bury, Restrict
<1>2. /\ (DOMAIN objects)' = DOMAIN objects \ UNION {OwnedBy(u) : u \in dead}
      /\ \A o \in (DOMAIN objects)' : objects'[o] = objects[o]
  BY DEF Bury, Deleted, Restrict
<1>3. TypeOK'
  <2>1. \A m \in (DOMAIN networks)' :
          DOMAIN networks'[m] \subseteq Ids /\ Range(networks'[m]) \subseteq Users
    <3>1. \A m \in (DOMAIN networks)' : Range(networks'[m]) \subseteq Range(networks[m])
      BY <1>a DEF Range
    <3> QED BY <1>a, <3>1 DEF Inv, TypeOK
  <2>2. Range(objects') \subseteq Range(objects)
    BY <1>2 DEF Range
  <2>3. Range(objects') \subseteq
          {Message, PostWith(NoMedia)} \cup {PostWith(MediaFor(o, c)) : o \in Objects, c \in Media}
    BY <2>2 DEF Inv, TypeOK
  <2>4. \A v \in (DOMAIN users)' :
          users'[v] \in [us_ : Networks \cup {NoNetwork}, id_ : 0 .. IdModulus - 1,
                         business : BOOLEAN, friends : Seq(Ids),
                         posts_ : Seq(Objects), receivedMsgs_ : Seq(Objects)]
    BY <1>1 DEF Inv, TypeOK
  <2> QED BY <1>a, <1>c, <1>1, <1>2, <2>1, <2>3, <2>4 DEF Inv, TypeOK
<1>4. EntriesAreLive'
  BY <1>a, <1>1 DEF Inv, EntriesAreLive
<1>5. NetworksAreApart'
  <2>1. \A m \in (DOMAIN networks)' : Range(networks'[m]) \subseteq Range(networks[m])
    BY <1>a DEF Range
  <2> QED BY <1>a, <2>1 DEF Inv, NetworksAreApart
<1>6. UsersHaveEntries'
  <2> SUFFICES ASSUME NEW v \in (DOMAIN users)', users'[v].id_ # 0
               PROVE  \E m \in (DOMAIN networks)' : /\ users'[v].id_ \in DOMAIN networks'[m]
                                                    /\ networks'[m][users'[v].id_] = v
    BY DEF UsersHaveEntries
  <2>1. PICK m \in DOMAIN networks : /\ users[v].id_ \in DOMAIN networks[m]
                                     /\ networks[m][users[v].id_] = v
    BY <1>1 DEF Inv, UsersHaveEntries
  <2>2. m \in (DOMAIN networks)' /\ users[v].id_ \in DOMAIN networks'[m]
    BY <1>b, <1>1, <2>1
  <2> QED BY <1>a, <1>1, <2>1, <2>2
<1>7. IdsAreUsedUp'
  <2>1. IdsInUse' \subseteq IdsInUse
    BY <1>a DEF IdsInUse
  <2> QED BY <1>c, <1>1, <2>1 DEF Inv, IdsAreUsedUp
<1>8. ObjectsAreOwnedOnce'
  <2>1. \A v \in (DOMAIN users)' : OwnedBy(v)' = OwnedBy(v)
    BY <1>1 DEF OwnedBy
  <2>2. \A v \in (DOMAIN users)' : \A u \in dead : OwnedBy(v) \cap OwnedBy(u) = {}
    BY <1>1 DEF Inv, ObjectsAreOwnedOnce
  <2>3. DOMAIN objects = UNION {OwnedBy(v) : v \in DOMAIN users}
    BY DEF Inv, ObjectsAreOwnedOnce
  <2>4. (DOMAIN objects)' = UNION {OwnedBy(v)' : v \in (DOMAIN users)'}
    BY <1>1, <1>2, <2>1, <2>2, <2>3
  <2>5. \A v \in (DOMAIN users)' : IsInjective(users'[v].posts_ \o users'[v].receivedMsgs_)
    BY <1>1 DEF Inv, ObjectsAreOwnedOnce
  <2>6. \A v, w \in (DOMAIN users)' : v # w => OwnedBy(v)' \cap OwnedBy(w)' = {}
    BY <1>1, <2>1 DEF Inv, ObjectsAreOwnedOnce
  <2>7. \A o \in (DOMAIN objects)' :
          objects'[o].class = "Post" => objects'[o].media_.at \in {o, NoObject}
    BY <1>2 DEF Inv, ObjectsAreOwnedOnce
  <2> QED BY <2>4, <2>5, <2>6, <2>7 DEF ObjectsAreOwnedOnce
<1>9. FriendsAreUnique'
  BY <1>1 DEF Inv, FriendsAreUnique
<1>10. BusinessUsersAreAtHome'
  <2>1. \A m \in (DOMAIN networks)' : \A i \in DOMAIN networks'[m] :
          users'[networks'[m][i]] = users[networks[m][i]]
    BY <1>a, <1>1, <1>4 DEF EntriesAreLive
  <2> QED BY <1>a, <2>1 DEF Inv, BusinessUsersAreAtHome
<1> QED BY <1>3, <1>4, <1>5, <1>6, <1>7, <1>8, <1>9, <1>10 DEF Inv

(* A network takes all its users with it. *)
LEMMA DestroyBuries ==
  ASSUME Inv, NEW n \in DOMAIN networks, Destroy(n)
  PROVE  Range(networks[n]) \in SUBSET DOMAIN users /\ Bury(Range(networks[n]))
<1> DEFINE dead == Range(networks[n])
<1>1. dead \in SUBSET DOMAIN users
  BY DEF Inv, EntriesAreLive, Range
<1>2. /\ users' = Restrict(users, DOMAIN users \ dead)
      /\ objects' = Deleted(UNION {OwnedBy(u) : u \in dead})
      /\ userID' = userID
  BY DEF Destroy
<1>3. /\ (DOMAIN networks)' = DOMAIN networks \ {n}
      /\ \A m \in (DOMAIN networks)' : networks'[m] = networks[m]
  BY DEF Destroy, Restrict
<1>4. ASSUME NEW m \in DOMAIN networks, NEW i \in DOMAIN networks[m]
      PROVE  networks[m][i] \notin dead <=> m \in (DOMAIN networks)' /\ i \in DOMAIN networks'[m]
  <2>1. CASE m = n
    BY <1>3, <2>1 DEF Range
  <2>2. CASE m # n
    <3>1. networks[m][i] \notin dead
      BY <2>2 DEF Inv, NetworksAreApart, Range
    <3> QED BY <1>3, <2>2, <3>1
  <2> QED BY <2>1, <2>2
<1> HIDE DEF dead
<1>5. Bury(dead)
  BY <1>2, <1>3, <1>4 DEF Bury
<1> QED BY <1>1, <1>5 DEF dead

(* The user that is deleted is the one whose entry is erased. *)
LEMMA RemoveUserBuries ==
  ASSUME Inv, NEW n \in DOMAIN networks, NEW u \in Callable, MayPass(n, u), RemoveUser(n, u)
  PROVE  UNCHANGED vars \/ ({u} \in SUBSET DOMAIN users /\ Bury({u}))
<1> DEFINE i == users[u].id_
<1>1. CASE i \notin DOMAIN networks[n]
  BY <1>1 DEF RemoveUser, vars
<1>2. CASE i \in DOMAIN networks[n]
  <2>1. u \in DOMAIN users /\ networks[n][i] = u
    BY <1>2, CallableAreLive DEF MayPass
  <2>2. /\ users' = Restrict(users, DOMAIN users \ {u})
        /\ objects' = Deleted(OwnedBy(u))
        /\ networks' = [networks EXCEPT ![n] = Restrict(@, DOMAIN @ \ {i})]
        /\ userID' = userID
    BY <1>2 DEF RemoveUser
  <2>3. objects' = Deleted(UNION {OwnedBy(v) : v \in {u}})
    <3>1. UNION {OwnedBy(v) : v \in {u}} = OwnedBy(u)
      OBVIOUS
    <3> QED BY <2>2, <3>1
  <2>4. /\ (DOMAIN networks)' = DOMAIN networks
        /\ \A m \in DOMAIN networks \ {n} : networks'[m] = networks[m]
        /\ DOMAIN networks'[n] = DOMAIN networks[n] \ {i}
        /\ \A j \in DOMAIN networks'[n] : networks'[n][j] = networks[n][j]
    BY <2>2 DEF Restrict
  <2>5. ASSUME NEW m \in DOMAIN networks, NEW j \in DOMAIN networks[m]
        PROVE  networks[m][j] \notin {u} <=>
                 m \in (DOMAIN networks)' /\ j \in DOMAIN networks'[m]
    <3>1. CASE m = n /\ j = i
      BY <2>1, <2>4, <3>1
    <3>2. CASE m = n /\ j # i
      <4>1. networks[m][j] # u
        BY <3>2 DEF Inv, EntriesAreLive
      <4> QED BY <2>4, <3>2, <4>1
    <3>3. CASE m # n
      <4>1. networks[m][j] # u
        BY <1>2, <2>1, <3>3 DEF Inv, NetworksAreApart, Range
      <4> QED BY <2>4, <3>3, <4>1
    <3> QED BY <3>1, <3>2, <3>3
  <2>6. ASSUME NEW m \in (DOMAIN networks)', NEW j \in DOMAIN networks'[m]
        PROVE  /\ j \in DOMAIN networks[m] /\ networks'[m][j] = networks[m][j]
               /\ networks[m][j] \notin {u}
    <3>1. m \in DOMAIN networks
      BY <2>4
    <3>2. j \in DOMAIN networks[m] /\ networks'[m][j] = networks[m][j]
      BY <2>4, <3>1
    <3> QED BY <2>5, <3>1, <3>2
  <2>7. {u} \in SUBSET DOMAIN users
    BY <2>1
  <2>8. Bury({u})
    <3>1. \A m \in DOMAIN networks' :
            /\ m \in DOMAIN networks
            /\ \A j \in DOMAIN networks'[m] :
                 /\ j \in DOMAIN networks[m]
                 /\ networks'[m][j] = networks[m][j]
                 /\ networks[m][j] \notin {u}
      BY <2>4, <2>6
    <3>2. \A m \in DOMAIN networks : \A j \in DOMAIN networks[m] :
            networks[m][j] \notin {u} => m \in DOMAIN networks' /\ j \in DOMAIN networks'[m]
      BY <2>5
    <3> QED BY <2>2, <2>3, <3>1, <3>2, Zenon DEF Bury
  <2> QED BY <2>7, <2>8
<1> QED BY <1>1, <1>2

-----------------------------------------------------------------------------
(* Copies *)

(* The users of m are copied by user, their objects by object, to places   *)
(* that are free once the users dead are gone; n has the copies.           *)
IsCopy(n, m, dead, user, object) ==
  LET kept   == DOMAIN users \ dead
      intact == DOMAIN objects \ UNION {OwnedBy(u) : u \in dead}
      source == Range(networks[m])
      owned  == UNION {OwnedBy(u) : u \in source}
  IN  /\ user \in Injection(source, Users \ kept)
      /\ object \in Injection(owned, Objects \ intact)
      /\ DOMAIN users' = kept \cup Range(user)
      /\ \A v \in kept : users'[v] = users[v]
      /\ \A u \in source : users'[user[u]] = CopyUser(u, object)
      /\ DOMAIN objects' = intact \cup Range(object)
      /\ \A o \in intact : objects'[o] = objects[o]
      /\ \A o \in owned : objects'[object[o]] = CopyObject(o, object[o])
      /\ DOMAIN networks' = DOMAIN networks \cup {n}
      /\ \A k \in DOMAIN networks \ {n} : networks'[k] = networks[k]
      /\ networks'[n] = [i \in DOMAIN networks[m] |-> user[networks[m][i]]]

(* What has been copied to a place is what the injection has there. *)
LEMMA OriginOfCopy ==
  ASSUME NEW S, NEW T, NEW f \in Injection(S, T), NEW x \in S
  PROVE  (CHOOSE o \in DOMAIN f : f[o] = f[x]) = x
<1>1. DOMAIN f = S /\ \A o \in S : f[o] = f[x] => o = x
  BY DEF Injection, IsInjective
<1>2. \E o \in DOMAIN f : f[o] = f[x]
  BY <1>1
<1> DEFINE y == CHOOSE o \in DOMAIN f : f[o] = f[x]
<1>3. y \in DOMAIN f /\ f[y] = f[x]
  BY <1>2, Zenon
<1> HIDE DEF y
<1>4. y = x
  BY <1>1, <1>3
<1> QED BY <1>4 DEF y

(* copyUsers makes such copies. *)
LEMMA CopyUsersCopies ==
  ASSUME NEW n, NEW m, NEW dead, CopyUsers(n, m, dead)
  PROVE  \E user, object : IsCopy(n, m, dead, user, object)
<1> DEFINE kept   == DOMAIN users \ dead
           intact == DOMAIN objects \ UNION {OwnedBy(u) : u \in dead}
           source == Range(networks[m])
           owned  == UNION {OwnedBy(u) : u \in source}
           user   == Allocated(source, Users \ kept)
           object == Allocated(owned, Objects \ intact)
           origin(f, a) == CHOOSE o \in DOMAIN f : f[o] = a
<1>1. /\ Injection(source, Users \ kept) # {}
      /\ Injection(owned, Objects \ intact) # {}
      /\ users' = [v \in kept \cup Range(user) |->
                     IF v \in kept THEN users[v] ELSE CopyUser(origin(user, v), object)]
      /\ objects' = [o \in intact \cup Range(object) |->
                     IF o \in intact THEN objects[o] ELSE CopyObject(origin(object, o), o)]
      /\ networks' = [k \in DOMAIN networks \cup {n} |->
                        IF k = n THEN [i \in DOMAIN networks[m] |-> user[networks[m][i]]]
                                 ELSE networks[k]]
  BY Zenon DEF CopyUsers
<1>2. /\ user \in Injection(source, Users \ kept)
      /\ object \in Injection(owned, Objects \ intact)
  <2> HIDE DEF source, kept, owned, intact
  <2> QED BY <1>1, Zenon DEF Allocated
<1> HIDE DEF source, kept, owned, intact, user, object
<1>3. /\ DOMAIN user = source /\ \A u \in source : user[u] \in Range(user) /\ user[u] \notin kept
      /\ DOMAIN object = owned
      /\ \A o \in owned : object[o] \in Range(object) /\ object[o] \notin intact
  BY <1>2 DEF Injection, Range
<1>4. \A u \in source : users'[user[u]] = CopyUser(u, object)
  <2> SUFFICES ASSUME NEW u \in source
               PROVE  users'[user[u]] = CopyUser(u, object)
    OBVIOUS
  <2>1. users'[user[u]] = CopyUser(origin(user, user[u]), object)
    <3> HIDE DEF origin
    <3> QED BY <1>1, <1>3
  <2>2. origin(user, user[u]) = u
    BY <1>2, OriginOfCopy
  <2> QED BY <2>1, <2>2
<1>5. \A o \in owned : objects'[object[o]] = CopyObject(o, object[o])
  <2> SUFFICES ASSUME NEW o \in owned
               PROVE  objects'[object[o]] = CopyObject(o, object[o])
    OBVIOUS
  <2>1. objects'[object[o]] = CopyObject(origin(object, object[o]), object[o])
    <3> HIDE DEF origin
    <3> QED BY <1>1, <1>3
  <2>2. origin(object, object[o]) = o
    BY <1>2, OriginOfCopy
  <2> QED BY <2>1, <2>2
<1>6. /\ DOMAIN users' = kept \cup Range(user)
      /\ \A v \in kept : users'[v] = users[v]
      /\ DOMAIN objects' = intact \cup Range(object)
      /\ \A o \in intact : objects'[o] = objects[o]
  <2> HIDE DEF origin
  <2> QED BY <1>1
<1>7. /\ DOMAIN networks' = DOMAIN networks \cup {n}
      /\ \A k \in DOMAIN networks \ {n} : networks'[k] = networks[k]
      /\ networks'[n] = [i \in DOMAIN networks[m] |-> user[networks[m][i]]]
  BY <1>1
<1>8. IsCopy(n, m, dead, user, object)
  BY <1>2, <1>4, <1>5, <1>6, <1>7, Zenon DEF IsCopy, source, kept, owned, intact
<1> QED BY <1>8

(* The users that make way for the copies are those n has, if any. *)
MakesWay(n, m, dead) ==
  /\ n \in Networks /\ m \in DOMAIN networks /\ n # m
  /\ dead = IF n \in DOMAIN networks THEN Range(networks[n]) ELSE {}

(* What is where before the copies are made: the originals and what they   *)
(* own are not among what goes.                                            *)
LEMMA OriginalsStay ==
  ASSUME Inv, NEW n, NEW m, NEW dead, MakesWay(n, m, dead)
  PROVE  /\ dead \subseteq DOMAIN users
         /\ Range(networks[m]) \subseteq DOMAIN users \ dead
         /\ \A k \in DOMAIN networks \ {n} : Range(networks[k]) \subseteq DOMAIN users \ dead
         /\ \A v \in DOMAIN users \ dead :
              OwnedBy(v) \subseteq DOMAIN objects \ UNION {OwnedBy(u) : u \in dead}
         /\ DOMAIN objects \ UNION {OwnedBy(u) : u \in dead} =
              UNION {OwnedBy(v) : v \in DOMAIN users \ dead}
<1>1. \A k \in DOMAIN networks : Range(networks[k]) \subseteq DOMAIN users
  BY DEF Inv, EntriesAreLive, Range
<1>2. \A k \in DOMAIN networks \ {n} : Range(networks[k]) \cap dead = {}
  BY DEF Inv, NetworksAreApart, MakesWay
<1>3. dead \subseteq DOMAIN users
  BY <1>1 DEF MakesWay
<1>4. \A k \in DOMAIN networks \ {n} : Range(networks[k]) \subseteq DOMAIN users \ dead
  BY <1>1, <1>2
<1>5. DOMAIN objects = UNION {OwnedBy(v) : v \in DOMAIN users}
  BY DEF Inv, ObjectsAreOwnedOnce
<1>6. \A v \in DOMAIN users \ dead : \A u \in dead : OwnedBy(v) \cap OwnedBy(u) = {}
  BY <1>3 DEF Inv, ObjectsAreOwnedOnce
<1>7. \A v \in DOMAIN users \ dead :
        OwnedBy(v) \subseteq DOMAIN objects \ UNION {OwnedBy(u) : u \in dead}
  BY <1>5, <1>6
<1>8. DOMAIN objects \ UNION {OwnedBy(u) : u \in dead} =
        UNION {OwnedBy(v) : v \in DOMAIN users \ dead}
  BY <1>5, <1>7
<1> QED BY <1>3, <1>4, <1>7, <1>8 DEF MakesWay

(* c is as the copy of u whose objects are copied by object must be. *)
FitsCopy(c, u, object) ==
  /\ c \in [us_ : Networks \cup {NoNetwork}, id_ : 0 .. IdModulus - 1,
             business : BOOLEAN, friends : Seq(Ids),
             posts_ : Seq(Objects), receivedMsgs_ : Seq(Objects)]
  /\ c.id_ = users[u].id_ /\ c.friends = users[u].friends
  /\ c.business = FALSE
  /\ c.posts_ = Image(object, users[u].posts_)
  /\ ToSet(c.posts_) \cup ToSet(c.receivedMsgs_) = {object[o] : o \in OwnedBy(u)}
  /\ IsInjective(c.posts_ \o c.receivedMsgs_)

(* The fields of a copy. *)
LEMMA CopyOfUser ==
  ASSUME Inv, NEW u \in DOMAIN users, NEW D, NEW T, T \subseteq Objects,
         OwnedBy(u) \subseteq D, NEW object \in Injection(D, T)
  PROVE  FitsCopy(CopyUser(u, object), u, object)
<1> DEFINE c == CopyUser(u, object)
           posts == Image(object, users[u].posts_)
           messages == Image(object, users[u].receivedMsgs_)
<1>1. users[u] \in [us_ : Networks \cup {NoNetwork}, id_ : 0 .. IdModulus - 1,
                    business : BOOLEAN, friends : Seq(Ids),
                    posts_ : Seq(Objects), receivedMsgs_ : Seq(Objects)]
  BY DEF Inv, TypeOK
<1>2. users[u].posts_ \in Seq(Objects) /\ users[u].receivedMsgs_ \in Seq(Objects)
  BY <1>1
<1>3. /\ IsInjective(users[u].posts_) /\ IsInjective(users[u].receivedMsgs_)
      /\ ToSet(users[u].posts_) \cap ToSet(users[u].receivedMsgs_) = {}
  BY <1>2, ConcatIsInjective DEF Inv, ObjectsAreOwnedOnce
<1>4. ToSet(users[u].posts_) \subseteq D /\ ToSet(users[u].receivedMsgs_) \subseteq D
  BY DEF OwnedBy
<1>5. /\ posts \in Seq(T) /\ ToSet(posts) = {object[o] : o \in ToSet(users[u].posts_)}
      /\ IsInjective(posts)
  BY <1>2, <1>3, <1>4, ImageOfList
<1>6. /\ messages \in Seq(T)
      /\ ToSet(messages) = {object[o] : o \in ToSet(users[u].receivedMsgs_)}
      /\ IsInjective(messages)
  BY <1>2, <1>3, <1>4, ImageOfList
<1>7. posts \in Seq(Objects) /\ messages \in Seq(Objects)
  <2> HIDE DEF posts, messages
  <2> QED BY <1>5, <1>6
<1>8. c = [users[u] EXCEPT !.business = FALSE, !.posts_ = posts, !.receivedMsgs_ = messages]
  BY DEF CopyUser, Image
<1> HIDE DEF c, posts, messages
<1>9. /\ c \in [us_ : Networks \cup {NoNetwork}, id_ : 0 .. IdModulus - 1,
                business : BOOLEAN, friends : Seq(Ids),
                posts_ : Seq(Objects), receivedMsgs_ : Seq(Objects)]
      /\ c.id_ = users[u].id_ /\ c.friends = users[u].friends /\ c.business = FALSE
      /\ c.posts_ = posts /\ c.receivedMsgs_ = messages
  BY <1>1, <1>7, <1>8
<1>10. ToSet(c.posts_) \cup ToSet(c.receivedMsgs_) = {object[o] : o \in OwnedBy(u)}
  BY <1>5, <1>6, <1>9 DEF OwnedBy
<1>11. ToSet(posts) \cap ToSet(messages) = {}
  <2>1. \A o, p \in D : object[o] = object[p] => o = p
    BY DEF Injection, IsInjective
  <2> QED BY <1>3, <1>4, <1>5, <1>6, <2>1
<1>12. IsInjective(c.posts_ \o c.receivedMsgs_)
  BY <1>5, <1>6, <1>7, <1>9, <1>11, ConcatIsInjective
<1> QED BY <1>9, <1>10, <1>12 DEF FitsCopy, c, posts

(* The copy of an object has media of its own, of the same class. *)
LEMMA CopyOfObject ==
  ASSUME Inv, NEW o \in DOMAIN objects, NEW a \in Objects
  PROVE  LET c == CopyObject(o, a)
         IN  /\ c \in {Message, PostWith(NoMedia)} \cup
                        {PostWith(MediaFor(p, k)) : p \in Objects, k \in Media}
             /\ c.class = "Post" => c.media_.at \in {a, NoObject}
             /\ PrintPost(o) = c.media_.class
<1>1. objects[o] \in {Message, PostWith(NoMedia)} \cup
                       {PostWith(MediaFor(p, k)) : p \in Objects, k \in Media}
  BY DEF Inv, TypeOK, Range
<1>2. CASE objects[o] = Message
  BY <1>2 DEF CopyObject, Message, PrintPost
<1>3. CASE objects[o] = PostWith(NoMedia)
  BY <1>3 DEF CopyObject, PostWith, NoMedia, PrintPost
<1>4. ASSUME NEW p \in Objects, NEW k \in Media, objects[o] = PostWith(MediaFor(p, k)),
             objects[o] # PostWith(NoMedia)
      PROVE  LET c == CopyObject(o, a)
             IN  /\ c \in {PostWith(MediaFor(q, l)) : q \in Objects, l \in Media}
                 /\ c.class = "Post" => c.media_.at \in {a, NoObject}
                 /\ PrintPost(o) = c.media_.class
  <2>1. /\ objects[o].class = "Post" /\ objects[o].media_ = MediaFor(p, k)
        /\ MediaFor(p, k) # NoMedia
    BY <1>4 DEF PostWith
  <2>2. MediaFor(p, k).class = k
    BY DEF MediaFor
  <2>3. CopyObject(o, a) = PostWith(MediaFor(a, k))
    BY <2>1, <2>2 DEF CopyObject
  <2>4. PostWith(MediaFor(a, k)).media_ = MediaFor(a, k)
    BY DEF PostWith
  <2>5. MediaFor(a, k).at = a /\ MediaFor(a, k).class = k
    BY DEF MediaFor
  <2> QED BY <2>1, <2>2, <2>3, <2>4, <2>5 DEF PrintPost
<1> QED BY <1>1, <1>2, <1>3, <1>4

(* The users that stay, each as it was, and one copy of each user of m,    *)
(* all of them in n.                                                       *)
Separated(n, m, dead, user, object) ==
  LET kept   == DOMAIN users \ dead
      source == Range(networks[m])
  IN  /\ source \subseteq kept
      /\ (DOMAIN users)' = kept \cup {user[u] : u \in source}
      /\ \A v \in kept : users'[v] = users[v] /\ OwnedBy(v)' = OwnedBy(v)
      /\ \A u \in source : /\ user[u] \in Users \ kept
                           /\ users'[user[u]] = CopyUser(u, object)
                           /\ OwnedBy(user[u])' = {object[o] : o \in OwnedBy(u)}
      /\ \A u, w \in source : user[u] = user[w] => u = w
      /\ \A k \in DOMAIN networks \ {n} :
           networks'[k] = networks[k] /\ Range(networks[k]) \subseteq kept
      /\ (DOMAIN networks)' = DOMAIN networks \cup {n}
      /\ DOMAIN networks'[n] = DOMAIN networks[m]
      /\ \A i \in DOMAIN networks[m] : /\ networks[m][i] \in source
                                       /\ networks'[n][i] = user[networks[m][i]]

(* That is what a copy leaves. *)
LEMMA CopiesAreSeparate ==
  ASSUME Inv, NEW n, NEW m, NEW dead, NEW user, NEW object,
         MakesWay(n, m, dead), IsCopy(n, m, dead, user, object)
  PROVE  Separated(n, m, dead, user, object)
<1> DEFINE kept   == DOMAIN users \ dead
           source == Range(networks[m])
           intact == DOMAIN objects \ UNION {OwnedBy(u) : u \in dead}
           owned  == UNION {OwnedBy(u) : u \in source}
<1>1. /\ user \in Injection(source, Users \ kept)
      /\ object \in Injection(owned, Objects \ intact)
      /\ DOMAIN users' = kept \cup Range(user)
      /\ \A v \in kept : users'[v] = users[v]
      /\ \A u \in source : users'[user[u]] = CopyUser(u, object)
      /\ DOMAIN networks' = DOMAIN networks \cup {n}
      /\ \A k \in DOMAIN networks \ {n} : networks'[k] = networks[k]
      /\ networks'[n] = [i \in DOMAIN networks[m] |-> user[networks[m][i]]]
  BY Zenon DEF IsCopy
<1>2. /\ source \subseteq kept
      /\ \A k \in DOMAIN networks \ {n} : Range(networks[k]) \subseteq kept
  BY OriginalsStay, Zenon
<1>3. /\ DOMAIN user = source /\ \A u \in source : user[u] \in Users \ kept
      /\ \A u, w \in source : user[u] = user[w] => u = w
  <2> HIDE DEF source, kept, owned, intact
  <2> QED BY <1>1 DEF Injection, IsInjective
<1>4. Range(user) = {user[u] : u \in source}
  <2> HIDE DEF source
  <2> QED BY <1>3 DEF Range
<1>5. \A v \in kept : OwnedBy(v)' = OwnedBy(v)
  <2> HIDE DEF kept
  <2> QED BY <1>1 DEF OwnedBy
<1>6. ASSUME NEW u \in source
      PROVE  OwnedBy(user[u])' = {object[o] : o \in OwnedBy(u)}
  <2>1. u \in DOMAIN users /\ OwnedBy(u) \subseteq owned
    BY <1>2
  <2>2. Objects \ intact \subseteq Objects
    OBVIOUS
  <2> HIDE DEF owned, intact
  <2>3. FitsCopy(CopyUser(u, object), u, object)
    BY <1>1, <2>1, <2>2, CopyOfUser
  <2> QED BY <1>1, <2>3 DEF FitsCopy, OwnedBy
<1>7. \A i \in DOMAIN networks[m] : /\ networks[m][i] \in source
                                    /\ networks'[n][i] = user[networks[m][i]]
  BY <1>1 DEF Range
<1>8. DOMAIN networks'[n] = DOMAIN networks[m]
  BY <1>1
<1> HIDE DEF kept, source, intact, owned
<1>9. /\ source \subseteq kept
      /\ (DOMAIN users)' = kept \cup {user[u] : u \in source}
      /\ \A v \in kept : users'[v] = users[v] /\ OwnedBy(v)' = OwnedBy(v)
      /\ \A u \in source : /\ user[u] \in Users \ kept
                           /\ users'[user[u]] = CopyUser(u, object)
                           /\ OwnedBy(user[u])' = {object[o] : o \in OwnedBy(u)}
      /\ \A u, w \in source : user[u] = user[w] => u = w
      /\ \A k \in DOMAIN networks \ {n} :
           networks'[k] = networks[k] /\ Range(networks[k]) \subseteq kept
      /\ (DOMAIN networks)' = DOMAIN networks \cup {n}
  BY <1>1, <1>2, <1>3, <1>4, <1>5, <1>6
<1> QED BY <1>7, <1>8, <1>9, Zenon DEF Separated, kept, source

(* The copies own the copies of the objects, each of them its own. *)
LEMMA CopiesOwnCopies ==
  ASSUME Inv, NEW n, NEW m, NEW dead, NEW user, NEW object,
         MakesWay(n, m, dead), IsCopy(n, m, dead, user, object)
  PROVE  /\ ObjectsAreOwnedOnce'
         /\ (DOMAIN objects)' \subseteq Objects
         /\ Range(objects)' \subseteq
              {Message, PostWith(NoMedia)} \cup
                {PostWith(MediaFor(o, c)) : o \in Objects, c \in Media}
<1> DEFINE kept   == DOMAIN users \ dead
           source == Range(networks[m])
           intact == DOMAIN objects \ UNION {OwnedBy(u) : u \in dead}
           owned  == UNION {OwnedBy(u) : u \in source}
<1>1. /\ object \in Injection(owned, Objects \ intact)
      /\ DOMAIN objects' = intact \cup Range(object)
      /\ \A o \in intact : objects'[o] = objects[o]
      /\ \A o \in owned : objects'[object[o]] = CopyObject(o, object[o])
  BY Zenon DEF IsCopy
<1>2. /\ source \subseteq kept
      /\ (DOMAIN users)' = kept \cup {user[u] : u \in source}
      /\ \A v \in kept : users'[v] = users[v] /\ OwnedBy(v)' = OwnedBy(v)
      /\ \A u \in source : /\ user[u] \in Users \ kept
                           /\ users'[user[u]] = CopyUser(u, object)
                           /\ OwnedBy(user[u])' = {object[o] : o \in OwnedBy(u)}
      /\ \A u, w \in source : user[u] = user[w] => u = w
  <2>1. Separated(n, m, dead, user, object)
    BY CopiesAreSeparate
  <2> QED BY <2>1 DEF Separated
<1>3. /\ \A v \in kept : OwnedBy(v) \subseteq intact
      /\ intact = UNION {OwnedBy(v) : v \in kept}
  BY OriginalsStay, Zenon
<1>4. /\ owned \subseteq DOMAIN objects /\ intact \subseteq DOMAIN objects
      /\ DOMAIN objects \subseteq Objects
      /\ \A u \in source : OwnedBy(u) \subseteq owned
      /\ kept \subseteq DOMAIN users
  BY <1>2, <1>3 DEF Inv, TypeOK
<1>5. \A u \in source : \A o \in OwnedBy(u) : o \in owned
  OBVIOUS
<1>6. \A o \in owned : \E u \in source : o \in OwnedBy(u)
  OBVIOUS
<1> HIDE DEF kept, source, intact, owned
<1>7. /\ DOMAIN object = owned
      /\ \A o \in owned : object[o] \in Objects /\ object[o] \notin intact
      /\ \A o, p \in owned : object[o] = object[p] => o = p
      /\ Range(object) = {object[o] : o \in owned}
  BY <1>1 DEF Injection, IsInjective, Range
<1>8. (DOMAIN objects)' = UNION {OwnedBy(v)' : v \in (DOMAIN users)'}
  <2>1. ASSUME NEW a \in (DOMAIN objects)'
        PROVE  \E v \in (DOMAIN users)' : a \in OwnedBy(v)'
    <3>1. CASE a \in intact
      <4>1. PICK v \in kept : a \in OwnedBy(v)
        BY <1>3, <3>1
      <4> QED BY <1>2, <4>1
    <3>2. CASE a \notin intact
      <4>1. PICK o \in owned : a = object[o]
        BY <1>1, <1>7, <3>2
      <4>2. PICK u \in source : o \in OwnedBy(u)
        BY <1>6, <4>1
      <4>3. a \in OwnedBy(user[u])'
        BY <1>2, <4>1, <4>2
      <4> QED BY <1>2, <4>2, <4>3
    <3> QED BY <3>1, <3>2
  <2>2. ASSUME NEW v \in (DOMAIN users)', NEW a \in OwnedBy(v)'
        PROVE  a \in (DOMAIN objects)'
    <3>1. CASE v \in kept
      BY <1>1, <1>2, <1>3, <2>2, <3>1
    <3>2. CASE v \notin kept
      <4>1. PICK u \in source : v = user[u]
        BY <1>2, <3>2
      <4>2. PICK o \in OwnedBy(u) : a = object[o]
        BY <1>2, <2>2, <4>1
      <4> QED BY <1>1, <1>5, <1>7, <4>1, <4>2
    <3> QED BY <3>1, <3>2
  <2> QED BY <2>1, <2>2
<1>9. \A v \in (DOMAIN users)' : IsInjective(users'[v].posts_ \o users'[v].receivedMsgs_)
  <2>1. \A v \in kept : IsInjective(users'[v].posts_ \o users'[v].receivedMsgs_)
    BY <1>2, <1>4 DEF Inv, ObjectsAreOwnedOnce
  <2>2. ASSUME NEW u \in source
        PROVE  IsInjective(users'[user[u]].posts_ \o users'[user[u]].receivedMsgs_)
    <3>1. u \in DOMAIN users /\ OwnedBy(u) \subseteq owned
      BY <1>2, <1>4
    <3>2. Objects \ intact \subseteq Objects
      OBVIOUS
    <3>3. FitsCopy(CopyUser(u, object), u, object)
      BY <1>1, <3>1, <3>2, CopyOfUser
    <3>4. users'[user[u]] = CopyUser(u, object)
      BY <1>2
    <3> QED BY <3>3, <3>4 DEF FitsCopy
  <2> QED BY <1>2, <2>1, <2>2
<1>10. \A v, w \in (DOMAIN users)' : v # w => OwnedBy(v)' \cap OwnedBy(w)' = {}
  <2>1. \A v, w \in kept : v # w => OwnedBy(v)' \cap OwnedBy(w)' = {}
    BY <1>2, <1>4 DEF Inv, ObjectsAreOwnedOnce
  <2>2. \A v \in kept : \A u \in source : OwnedBy(v)' \cap OwnedBy(user[u])' = {}
    BY <1>2, <1>3, <1>5, <1>7
  <2>3. ASSUME NEW u \in source, NEW w \in source, u # w
        PROVE  OwnedBy(user[u])' \cap OwnedBy(user[w])' = {}
    <3>1. OwnedBy(u) \cap OwnedBy(w) = {}
      BY <1>2, <1>4, <2>3 DEF Inv, ObjectsAreOwnedOnce
    <3> QED BY <1>2, <1>5, <1>7, <3>1
  <2> QED BY <1>2, <2>1, <2>2, <2>3
<1>11. \A o \in owned : /\ objects'[object[o]] \in {Message, PostWith(NoMedia)} \cup
                             {PostWith(MediaFor(p, c)) : p \in Objects, c \in Media}
                        /\ objects'[object[o]].class = "Post" =>
                             objects'[object[o]].media_.at \in {object[o], NoObject}
  BY <1>1, <1>4, <1>7, CopyOfObject
<1>12. \A o \in (DOMAIN objects)' : o \in intact \/ \E p \in owned : o = object[p]
  BY <1>1, <1>7
<1>13. \A o \in (DOMAIN objects)' :
         objects'[o].class = "Post" => objects'[o].media_.at \in {o, NoObject}
  <2>1. \A o \in intact :
          objects'[o].class = "Post" => objects'[o].media_.at \in {o, NoObject}
    BY <1>1, <1>4 DEF Inv, ObjectsAreOwnedOnce
  <2> QED BY <1>11, <1>12, <2>1
<1>14. (DOMAIN objects)' \subseteq Objects
  BY <1>4, <1>7, <1>12
<1>15. Range(objects)' \subseteq
         {Message, PostWith(NoMedia)} \cup
           {PostWith(MediaFor(o, c)) : o \in Objects, c \in Media}
  <2>1. \A o \in intact : objects'[o] \in Range(objects)
    BY <1>1, <1>4 DEF Range
  <2>2. \A o \in (DOMAIN objects)' :
          objects'[o] \in {Message, PostWith(NoMedia)} \cup
                            {PostWith(MediaFor(p, c)) : p \in Objects, c \in Media}
    BY <1>11, <1>12, <2>1 DEF Inv, TypeOK
  <2> QED BY <2>2 DEF Range
<1> QED BY <1>8, <1>9, <1>10, <1>13, <1>14, <1>15 DEF ObjectsAreOwnedOnce

(* Copies in place of what the network had keep the invariant. *)
LEMMA CopiesKeepInv ==
  ASSUME Inv, NEW n, NEW m, NEW dead, NEW user, NEW object,
         MakesWay(n, m, dead), IsCopy(n, m, dead, user, object), userID' = userID
  PROVE  Inv'
<1> DEFINE kept   == DOMAIN users \ dead
           source == Range(networks[m])
           owned  == UNION {OwnedBy(u) : u \in source}
           intact == DOMAIN objects \ UNION {OwnedBy(u) : u \in dead}
<1>1. Separated(n, m, dead, user, object)
  BY CopiesAreSeparate
<1>2. /\ source \subseteq kept
      /\ (DOMAIN users)' = kept \cup {user[u] : u \in source}
      /\ \A v \in kept : users'[v] = users[v]
      /\ \A u \in source : /\ user[u] \in Users \ kept
                           /\ users'[user[u]] = CopyUser(u, object)
      /\ \A u, w \in source : user[u] = user[w] => u = w
      /\ \A k \in DOMAIN networks \ {n} :
           networks'[k] = networks[k] /\ Range(networks[k]) \subseteq kept
      /\ (DOMAIN networks)' = DOMAIN networks \cup {n}
      /\ DOMAIN networks'[n] = DOMAIN networks[m]
      /\ \A i \in DOMAIN networks[m] : /\ networks[m][i] \in source
                                       /\ networks'[n][i] = user[networks[m][i]]
  BY <1>1 DEF Separated
<1>3. n \in Networks /\ m \in DOMAIN networks /\ n # m /\ kept \subseteq DOMAIN users
  BY DEF MakesWay
<1>4. n \in DOMAIN networks => dead = Range(networks[n])
  BY DEF MakesWay
<1>5. \A u \in source : FitsCopy(CopyUser(u, object), u, object)
  <2>1. object \in Injection(owned, Objects \ intact)
    BY Zenon DEF IsCopy
  <2>2. \A u \in source : u \in DOMAIN users /\ OwnedBy(u) \subseteq owned
    BY <1>2, <1>3
  <2>3. Objects \ intact \subseteq Objects
    OBVIOUS
  <2> HIDE DEF source, owned, intact
  <2> QED BY <2>1, <2>2, <2>3, CopyOfUser
<1> HIDE DEF source, owned, intact
<1>6. \A u \in source : FitsCopy(users'[user[u]], u, object)
  BY <1>2, <1>5
<1>7. \A u \in source : /\ user[u] \in (DOMAIN users)'
                        /\ users'[user[u]].id_ = users[u].id_
                        /\ users'[user[u]].friends = users[u].friends
                        /\ users'[user[u]].business = FALSE
  BY <1>2, <1>6 DEF FitsCopy
<1>8. \A u \in source : u \in kept /\ \E i \in DOMAIN networks[m] : networks[m][i] = u
  BY <1>2 DEF source, Range
<1>9. TypeOK'
  <2>1. ASSUME NEW v \in (DOMAIN users)'
        PROVE  /\ v \in Users
               /\ users'[v] \in [us_ : Networks \cup {NoNetwork}, id_ : 0 .. IdModulus - 1,
                                 business : BOOLEAN, friends : Seq(Ids),
                                 posts_ : Seq(Objects), receivedMsgs_ : Seq(Objects)]
    <3>1. CASE v \in kept
      BY <1>2, <1>3, <3>1 DEF Inv, TypeOK
    <3>2. CASE v \notin kept
      <4>1. PICK u \in source : v = user[u]
        BY <1>2, <3>2
      <4> QED BY <1>2, <1>6, <4>1 DEF FitsCopy
    <3> QED BY <3>1, <3>2
  <2>2. \A k \in (DOMAIN networks)' :
          DOMAIN networks'[k] \subseteq Ids /\ Range(networks'[k]) \subseteq Users
    <3>1. DOMAIN networks'[n] \subseteq Ids
      BY <1>2, <1>3 DEF Inv, TypeOK
    <3>2. Range(networks'[n]) \subseteq Users
      BY <1>2 DEF Range
    <3> QED BY <1>2, <3>1, <3>2 DEF Inv, TypeOK
  <2>3. (DOMAIN networks)' \subseteq Networks
    BY <1>2, <1>3 DEF Inv, TypeOK
  <2>4. /\ (DOMAIN objects)' \subseteq Objects
        /\ Range(objects)' \subseteq
             {Message, PostWith(NoMedia)} \cup
               {PostWith(MediaFor(o, c)) : o \in Objects, c \in Media}
    BY CopiesOwnCopies
  <2>5. (DOMAIN users)' \subseteq Users
    BY <2>1
  <2>6. userID' \in 0 .. IdModulus - 1
    BY DEF Inv, TypeOK
  <2> QED BY <2>1, <2>2, <2>3, <2>4, <2>5, <2>6 DEF TypeOK
<1>10. EntriesAreLive'
  <2>1. ASSUME NEW k \in DOMAIN networks \ {n}, NEW i \in DOMAIN networks[k]
        PROVE  networks[k][i] \in (DOMAIN users)' /\ users'[networks[k][i]].id_ = i
    <3>1. networks[k][i] \in kept
      BY <1>2 DEF Range
    <3> QED BY <1>2, <3>1 DEF Inv, EntriesAreLive
  <2>2. ASSUME NEW i \in DOMAIN networks[m]
        PROVE  networks'[n][i] \in (DOMAIN users)' /\ users'[networks'[n][i]].id_ = i
    BY <1>2, <1>3, <1>7 DEF Inv, EntriesAreLive
  <2> QED BY <1>2, <2>1, <2>2 DEF EntriesAreLive
<1>11. NetworksAreApart'
  <2>1. Range(networks'[n]) \subseteq {user[u] : u \in source}
    BY <1>2 DEF Range
  <2>2. \A k \in DOMAIN networks \ {n} : Range(networks'[k]) \cap Range(networks'[n]) = {}
    BY <1>2, <2>1
  <2>3. \A k, l \in DOMAIN networks \ {n} :
          k # l => Range(networks'[k]) \cap Range(networks'[l]) = {}
    BY <1>2 DEF Inv, NetworksAreApart
  <2> QED BY <1>2, <2>2, <2>3 DEF NetworksAreApart
<1>12. UsersHaveEntries'
  <2> SUFFICES ASSUME NEW v \in (DOMAIN users)', users'[v].id_ # 0
               PROVE  \E k \in (DOMAIN networks)' : /\ users'[v].id_ \in DOMAIN networks'[k]
                                                    /\ networks'[k][users'[v].id_] = v
    BY DEF UsersHaveEntries
  <2>1. CASE v \in kept
    <3>1. PICK k \in DOMAIN networks : /\ users[v].id_ \in DOMAIN networks[k]
                                       /\ networks[k][users[v].id_] = v
      BY <1>2, <1>3, <2>1 DEF Inv, UsersHaveEntries
    <3>2. k # n
      <4>1. v \notin dead
        BY <2>1
      <4>2. v \in Range(networks[k])
        BY <3>1 DEF Range
      <4> QED BY <1>4, <3>1, <4>1, <4>2
    <3> QED BY <1>2, <2>1, <3>1, <3>2
  <2>2. CASE v \notin kept
    <3>1. PICK u \in source : v = user[u]
      BY <1>2, <2>2
    <3>2. PICK i \in DOMAIN networks[m] : networks[m][i] = u
      BY <1>8
    <3>3. users'[v].id_ = i
      BY <1>3, <1>7, <3>1, <3>2 DEF Inv, EntriesAreLive
    <3> QED BY <1>2, <3>1, <3>2, <3>3
  <2> QED BY <2>1, <2>2
<1>13. IdsAreUsedUp'
  <2>1. IdsInUse' \subseteq IdsInUse
    BY <1>2, <1>3 DEF IdsInUse
  <2>2. \A v \in (DOMAIN users)' : \E u \in DOMAIN users : users'[v].friends = users[u].friends
    BY <1>2, <1>3, <1>7, <1>8
  <2> QED BY <2>1, <2>2 DEF Inv, IdsAreUsedUp
<1>14. ObjectsAreOwnedOnce'
  BY CopiesOwnCopies
<1>15. FriendsAreUnique'
  <2>1. \A v \in (DOMAIN users)' : \E u \in DOMAIN users : users'[v].friends = users[u].friends
    BY <1>2, <1>3, <1>7, <1>8
  <2> QED BY <2>1 DEF Inv, FriendsAreUnique
<1>16. BusinessUsersAreAtHome'
  <2>1. ASSUME NEW k \in DOMAIN networks \ {n}, NEW i \in DOMAIN networks[k]
        PROVE  users'[networks[k][i]] = users[networks[k][i]]
    <3>1. networks[k][i] \in kept
      BY <1>2 DEF Range
    <3> QED BY <1>2, <3>1
  <2>2. \A i \in DOMAIN networks[m] : ~users'[networks'[n][i]].business
    BY <1>2, <1>7
  <2> QED BY <1>2, <2>1, <2>2 DEF Inv, BusinessUsersAreAtHome
<1> QED BY <1>9, <1>10, <1>11, <1>12, <1>13, <1>14, <1>15, <1>16 DEF Inv

(* The copy constructor fills a new network. *)
LEMMA CopyMakesCopies ==
  ASSUME Inv, NEW n \in Networks, NEW m \in DOMAIN networks, Copy(n, m)
  PROVE  /\ userID' = userID /\ n \notin DOMAIN networks
         /\ MakesWay(n, m, {}) /\ \E user, object : IsCopy(n, m, {}, user, object)
<1>1. n \notin DOMAIN networks /\ CopyUsers(n, m, {}) /\ userID' = userID
  BY DEF Copy
<1>2. MakesWay(n, m, {})
  BY <1>1 DEF MakesWay
<1> QED BY <1>1, <1>2, CopyUsersCopies

(* The assignment clears the network before it fills it. *)
LEMMA AssignMakesCopies ==
  ASSUME Inv, NEW n \in DOMAIN networks, NEW m \in DOMAIN networks, Assign(n, m)
  PROVE  /\ userID' = userID
         /\ MakesWay(n, m, Range(networks[n]))
         /\ \E user, object : IsCopy(n, m, Range(networks[n]), user, object)
<1>1. n # m /\ CopyUsers(n, m, Range(networks[n])) /\ userID' = userID
  BY DEF Assign
<1>2. MakesWay(n, m, Range(networks[n]))
  BY <1>1 DEF MakesWay, Inv, TypeOK
<1> QED BY <1>1, <1>2, CopyUsersCopies

-----------------------------------------------------------------------------
(* All steps *)

(* What a step of the networks does. *)
LEMMA NetworkCallsAre ==
  ASSUME NetworkCalls
  PROVE  \/ \E n \in FreshNetworks : Create(n)
         \/ \E n \in FreshNetworks, m \in DOMAIN networks : Copy(n, m)
         \/ \E n, m \in DOMAIN networks : Assign(n, m)
         \/ \E n \in DOMAIN networks : Destroy(n)
<1>1. FreshNetworks # {} => NewNetworkAddress \in FreshNetworks
  BY DEF NewNetworkAddress
<1> QED BY <1>1, Zenon DEF NetworkCalls

(* What a step that makes or removes a user does. *)
LEMMA UserCallsAre ==
  ASSUME UserCalls
  PROVE  \/ \E n \in DOMAIN networks, u \in FreshUsers, isBusinessUser \in Kinds :
              RegisterUser(n, u, isBusinessUser)
         \/ \E u \in FreshUsers, isBusinessUser \in Kinds :
              RegisterUserOverflows(u, isBusinessUser)
         \/ \E n \in DOMAIN networks : \E u \in Callable : MayPass(n, u) /\ RemoveUser(n, u)
<1>1. FreshUsers # {} => NewUserAddress \in FreshUsers
  BY DEF NewUserAddress
<1> QED BY <1>1, Zenon DEF UserCalls

(* At first there is nothing. *)
LEMMA InitHasInv == Init => Inv
<1> SUFFICES ASSUME Init
             PROVE  Inv
  OBVIOUS
<1>1. /\ DOMAIN networks = {} /\ DOMAIN users = {} /\ DOMAIN objects = {} /\ userID = 1
  BY DEF Init
<1>2. TypeOK
  BY <1>1, USocialAssumption DEF TypeOK, Range
<1>3. EntriesAreLive /\ NetworksAreApart /\ UsersHaveEntries /\ IdsAreUsedUp
  BY <1>1 DEF EntriesAreLive, NetworksAreApart, UsersHaveEntries, IdsAreUsedUp, IdsInUse
<1>4. ObjectsAreOwnedOnce /\ FriendsAreUnique /\ BusinessUsersAreAtHome
  BY <1>1 DEF ObjectsAreOwnedOnce, FriendsAreUnique, BusinessUsersAreAtHome
<1> QED BY <1>2, <1>3, <1>4 DEF Inv

(* Every call keeps the invariant. *)
LEMMA NextKeepsInv ==
  ASSUME Inv, [Next]_vars
  PROVE  Inv'
<1>1. CASE NetworkCalls
  <2>1. \A n \in FreshNetworks : n \in Networks
    BY DEF FreshNetworks
  <2>2. CASE \E n \in FreshNetworks : Create(n)
    BY <2>1, <2>2, CreateKeepsInv
  <2>3. ASSUME NEW n \in FreshNetworks, NEW m \in DOMAIN networks, Copy(n, m)
        PROVE  Inv'
    BY <2>1, <2>3, CopyMakesCopies, CopiesKeepInv
  <2>4. ASSUME NEW n \in DOMAIN networks, NEW m \in DOMAIN networks, Assign(n, m)
        PROVE  Inv'
    BY <2>4, AssignMakesCopies, CopiesKeepInv
  <2>5. CASE \E n \in DOMAIN networks : Destroy(n)
    BY <2>5, DestroyBuries, UsersLeave
  <2> QED BY <1>1, <2>2, <2>3, <2>4, <2>5, NetworkCallsAre, Zenon
<1>2. CASE UserCalls
  <2>1. ASSUME NEW n \in DOMAIN networks, NEW u \in FreshUsers, NEW isBusinessUser \in Kinds,
               RegisterUser(n, u, isBusinessUser)
        PROVE  Inv'
    BY <2>1, RegisterUserKeepsInv
  <2>2. ASSUME NEW u \in FreshUsers, NEW isBusinessUser \in Kinds,
               RegisterUserOverflows(u, isBusinessUser)
        PROVE  Inv'
    BY <2>2, OverflowKeepsInv
  <2>3. ASSUME NEW n \in DOMAIN networks, NEW u \in Callable, MayPass(n, u), RemoveUser(n, u)
        PROVE  Inv'
    BY <2>3, RemoveUserBuries, UsersLeave, StutterKeepsInv
  <2> QED BY <1>2, <2>1, <2>2, <2>3, UserCallsAre, Zenon
<1>3. CASE MemberCalls
  BY <1>3, MemberCallsKeepInv
<1>4. CASE RefuseMessage \/ UNCHANGED vars
  BY <1>4, StutterKeepsInv DEF RefuseMessage
<1> QED BY <1>1, <1>2, <1>3, <1>4 DEF Next

(* The invariant in every state. *)
LEMMA Invariance == Spec => []Inv
<1>1. Init => Inv
  BY InitHasInv
<1>2. Inv /\ [Next]_vars => Inv'
  BY NextKeepsInv
<1> QED BY <1>1, <1>2, PTL DEF Spec

(* The entries of a user: one, under its id, or none if it has no id. *)
LEMMA OneEntryEach == Inv => UsersAreOwnedOnce
<1> SUFFICES ASSUME Inv
             PROVE  UsersAreOwnedOnce
  OBVIOUS
<1>1. \A n \in DOMAIN networks : Range(networks[n]) \subseteq DOMAIN users
  BY DEF Inv, EntriesAreLive, Range
<1>2. ASSUME NEW u \in DOMAIN users, users[u].id_ = 0
      PROVE  Cardinality(EntriesOf(u)) = 0
  <2>1. \A n \in DOMAIN networks : 0 \notin DOMAIN networks[n]
    BY DEF Inv, TypeOK, Ids
  <2>2. EntriesOf(u) = {}
    BY <1>2, <2>1 DEF EntriesOf
  <2> QED BY <2>2, FS_EmptySet, Zenon
<1>3. ASSUME NEW u \in DOMAIN users, users[u].id_ # 0
      PROVE  Cardinality(EntriesOf(u)) = 1
  <2>1. PICK n \in DOMAIN networks : /\ users[u].id_ \in DOMAIN networks[n]
                                     /\ networks[n][users[u].id_] = u
    BY <1>3 DEF Inv, UsersHaveEntries
  <2>2. \A m \in EntriesOf(u) : m \in DOMAIN networks /\ u \in Range(networks[m])
    BY DEF EntriesOf, Range
  <2>3. u \in Range(networks[n])
    BY <2>1 DEF Range
  <2>4. \A m \in EntriesOf(u) : m = n
    BY <2>2, <2>3 DEF Inv, NetworksAreApart
  <2>5. EntriesOf(u) = {n}
    BY <2>1, <2>4 DEF EntriesOf
  <2> QED BY <2>5, FS_Singleton, Zenon
<1> QED BY <1>1, <1>2, <1>3 DEF UsersAreOwnedOnce

-----------------------------------------------------------------------------
(* What steps may do *)

(* Only registerUser brings an id into a network that none had, and then   *)
(* the id is the next one.                                                 *)
LEMMA NewIdsAreNext ==
  ASSUME Inv, [Next]_vars
  PROVE  \A i \in IdsInUse' \ IdsInUse : i = userID /\ userID # 0
<1>1. ASSUME UNCHANGED networks
      PROVE  IdsInUse' = IdsInUse
  BY <1>1 DEF IdsInUse
<1>2. ASSUME NEW n \in Networks, Create(n)
      PROVE  IdsInUse' \subseteq IdsInUse
  <2>1. /\ (DOMAIN networks)' = DOMAIN networks \cup {n}
        /\ \A m \in DOMAIN networks : networks'[m] = networks[m]
        /\ n \notin DOMAIN networks /\ DOMAIN networks'[n] = {}
    BY <1>2 DEF Create, Inserted
  <2> QED BY <2>1 DEF IdsInUse
<1>3. ASSUME NEW n, NEW m, NEW dead, NEW user, NEW object,
             MakesWay(n, m, dead), IsCopy(n, m, dead, user, object)
      PROVE  IdsInUse' \subseteq IdsInUse
  <2>1. /\ \A k \in DOMAIN networks \ {n} : networks'[k] = networks[k]
        /\ (DOMAIN networks)' = DOMAIN networks \cup {n}
        /\ DOMAIN networks'[n] = DOMAIN networks[m]
    <3>1. Separated(n, m, dead, user, object)
      BY <1>3, CopiesAreSeparate
    <3> QED BY <3>1 DEF Separated
  <2>2. m \in DOMAIN networks
    BY <1>3 DEF MakesWay
  <2> QED BY <2>1, <2>2 DEF IdsInUse
<1>4. ASSUME NEW n \in DOMAIN networks, Destroy(n)
      PROVE  IdsInUse' \subseteq IdsInUse
  BY <1>4 DEF Destroy, Restrict, IdsInUse
<1>5. ASSUME NEW n \in DOMAIN networks, NEW u \in FreshUsers, NEW isBusinessUser \in Kinds,
             RegisterUser(n, u, isBusinessUser)
      PROVE  IdsInUse' \subseteq IdsInUse \cup {userID} /\ userID # 0
  <2>1. /\ (DOMAIN networks)' = DOMAIN networks
        /\ \A m \in DOMAIN networks \ {n} : networks'[m] = networks[m]
        /\ DOMAIN networks'[n] = DOMAIN networks[n] \cup {userID}
    BY <1>5 DEF RegisterUser, Insert, Inserted
  <2> QED BY <1>5, <2>1 DEF IdsInUse, RegisterUser
<1>6. ASSUME NEW n \in DOMAIN networks, NEW u, RemoveUser(n, u)
      PROVE  IdsInUse' \subseteq IdsInUse
  <2>1. CASE UNCHANGED networks
    BY <1>1, <2>1
  <2>2. CASE networks' = [networks EXCEPT ![n] = Restrict(@, DOMAIN @ \ {users[u].id_})]
    <3>1. /\ (DOMAIN networks)' = DOMAIN networks
          /\ \A m \in DOMAIN networks : DOMAIN networks'[m] \subseteq DOMAIN networks[m]
      BY <2>2 DEF Restrict
    <3> QED BY <3>1 DEF IdsInUse
  <2> QED BY <1>6, <2>1, <2>2 DEF RemoveUser
<1>7. CASE NetworkCalls
  <2>1. \A n \in FreshNetworks : n \in Networks
    BY DEF FreshNetworks
  <2>2. ASSUME NEW n \in FreshNetworks, Create(n)
        PROVE  IdsInUse' \subseteq IdsInUse
    BY <1>2, <2>1, <2>2
  <2>3. ASSUME NEW n \in FreshNetworks, NEW m \in DOMAIN networks, Copy(n, m)
        PROVE  IdsInUse' \subseteq IdsInUse
    <3>1. MakesWay(n, m, {}) /\ \E user, object : IsCopy(n, m, {}, user, object)
      BY <2>1, <2>3, CopyMakesCopies
    <3> QED BY <1>3, <3>1
  <2>4. ASSUME NEW n \in DOMAIN networks, NEW m \in DOMAIN networks, Assign(n, m)
        PROVE  IdsInUse' \subseteq IdsInUse
    <3>1. /\ MakesWay(n, m, Range(networks[n]))
          /\ \E user, object : IsCopy(n, m, Range(networks[n]), user, object)
      BY <2>4, AssignMakesCopies
    <3>2. PICK user, object : IsCopy(n, m, Range(networks[n]), user, object)
      BY <3>1
    <3> QED BY <1>3, <3>1, <3>2, Zenon
  <2>5. ASSUME NEW n \in DOMAIN networks, Destroy(n)
        PROVE  IdsInUse' \subseteq IdsInUse
    BY <1>4, <2>5
  <2>6. IdsInUse' \subseteq IdsInUse
    BY <1>7, <2>2, <2>3, <2>4, <2>5, NetworkCallsAre, Zenon
  <2> QED BY <2>6
<1>8. CASE UserCalls
  <2>1. ASSUME NEW u \in FreshUsers, NEW isBusinessUser \in Kinds,
               RegisterUserOverflows(u, isBusinessUser)
        PROVE  IdsInUse' \subseteq IdsInUse
    BY <1>1, <2>1 DEF RegisterUserOverflows
  <2>2. \/ IdsInUse' \subseteq IdsInUse
        \/ IdsInUse' \subseteq IdsInUse \cup {userID} /\ userID # 0
    BY <1>5, <1>6, <1>8, <2>1, UserCallsAre, Zenon
  <2> QED BY <2>2
<1>9. CASE MemberCalls
  <2>1. UNCHANGED networks
    BY <1>9 DEF MemberCalls, RefuseFriend, RejectMessage, AddFriend, RemoveFriend,
                ReceiveMessage, SendMessage, Post, vars
  <2> QED BY <1>1, <2>1
<1>10. CASE RefuseMessage \/ UNCHANGED vars
  BY <1>1, <1>10 DEF RefuseMessage, vars
<1> QED BY <1>7, <1>8, <1>9, <1>10 DEF Next

-----------------------------------------------------------------------------
(* What is shown *)

(* A list that begins with another. *)
LEMMA PrefixByElements ==
  ASSUME NEW S, NEW T, NEW s \in Seq(S), NEW t \in Seq(T), Len(s) <= Len(t),
         \A k \in DOMAIN s : s[k] = t[k]
  PROVE  IsPrefix(s, t)
<1>1. DOMAIN s = 1 .. Len(s) /\ Len(s) \in Nat /\ Len(t) \in Nat
  OBVIOUS
<1>2. SubSeq(s, 1, Len(s)) = [k \in 1 .. Len(s) |-> s[k]]
  BY <1>1
<1>3. SubSeq(t, 1, Len(s)) = [k \in 1 .. Len(s) |-> t[k]]
  BY <1>1
<1>4. SubSeq(s, 1, Len(s)) = SubSeq(t, 1, Len(s))
  BY <1>1, <1>2, <1>3
<1> QED BY <1>4 DEF IsPrefix

(* A function on 1 .. n is a list of n elements. *)
LEMMA FunctionIsList ==
  ASSUME NEW S, NEW n \in Nat, NEW f \in [1 .. n -> S]
  PROVE  f \in Seq(S) /\ Len(f) = n /\ DOMAIN f = 1 .. n
<1>1. f \in Seq(S)
  OBVIOUS
<1>2. DOMAIN f = 1 .. n /\ DOMAIN f = 1 .. Len(f) /\ Len(f) \in Nat
  BY <1>1
<1> QED BY <1>1, <1>2

(* A place in a list is one in every list that is not shorter. *)
LEMMA PlacesInBoth ==
  ASSUME NEW S, NEW s \in Seq(S), NEW t \in Seq(S), Len(s) <= Len(t)
  PROVE  /\ DOMAIN s = 1 .. Len(s) /\ Len(s) \in Nat
         /\ DOMAIN t = 1 .. Len(t) /\ Len(t) \in Nat
         /\ DOMAIN s \subseteq DOMAIN t
OBVIOUS

(* Lists of posts that print the same, the second with more of them maybe. *)
LEMMA PrintsPrefix ==
  ASSUME NEW s \in Seq(Objects), NEW t \in Seq(Objects), Len(s) <= Len(t),
         \A k \in DOMAIN s : objects'[t[k]].media_.class = objects[s[k]].media_.class
  PROVE  IsPrefix([k \in DOMAIN s |-> objects[s[k]].media_.class],
                  [k \in DOMAIN t |-> objects'[t[k]].media_.class])
<1> DEFINE before == [k \in DOMAIN s |-> objects[s[k]].media_.class]
           after  == [k \in DOMAIN t |-> objects'[t[k]].media_.class]
           S == {objects[s[k]].media_.class : k \in DOMAIN s}
           T == {objects'[t[k]].media_.class : k \in DOMAIN t}
<1>1. /\ DOMAIN s = 1 .. Len(s) /\ Len(s) \in Nat
      /\ DOMAIN t = 1 .. Len(t) /\ Len(t) \in Nat
      /\ DOMAIN s \subseteq DOMAIN t
  BY PlacesInBoth
<1>2. before \in [1 .. Len(s) -> S] /\ after \in [1 .. Len(t) -> T]
  BY <1>1
<1>3. ASSUME NEW k \in 1 .. Len(s)
      PROVE  before[k] = after[k]
  <2>1. k \in DOMAIN s /\ k \in DOMAIN t
    BY <1>1
  <2>2. objects'[t[k]].media_.class = objects[s[k]].media_.class
    BY <2>1
  <2>3. before[k] = objects[s[k]].media_.class /\ after[k] = objects'[t[k]].media_.class
    BY <2>1
  <2> QED BY <2>2, <2>3
<1> HIDE DEF before, after, S, T
<1>4. /\ before \in Seq(S) /\ Len(before) = Len(s) /\ DOMAIN before = 1 .. Len(s)
      /\ after \in Seq(T) /\ Len(after) = Len(t)
  <2>1. before \in Seq(S) /\ Len(before) = Len(s) /\ DOMAIN before = 1 .. Len(s)
    BY <1>1, <1>2, FunctionIsList, Zenon
  <2>2. after \in Seq(T) /\ Len(after) = Len(t)
    <3> DEFINE l == Len(t)
    <3>1. l \in Nat /\ after \in [1 .. l -> T]
      BY <1>1, <1>2
    <3> HIDE DEF l
    <3>2. after \in Seq(T) /\ Len(after) = l
      BY <3>1, FunctionIsList
    <3> QED BY <3>2 DEF l
  <2> QED BY <2>1, <2>2
<1>5. IsPrefix(before, after)
  BY <1>3, <1>4, PrefixByElements
<1> QED BY <1>5 DEF before, after

(* Posts that print the same, and maybe more of them. *)
LEMMA PostsPrefix ==
  ASSUME NEW n, NEW m, NEW i, NEW s \in Seq(Objects), NEW t \in Seq(Objects),
         s = users[networks[m][i]].posts_, t = users'[networks'[n][i]].posts_,
         Len(s) <= Len(t),
         \A k \in DOMAIN s : objects'[t[k]].media_.class = objects[s[k]].media_.class
  PROVE  IsPrefix(Shown(m, i), Shown(n, i)')
<1>1. /\ Shown(m, i) = [k \in DOMAIN s |-> objects[s[k]].media_.class]
      /\ Shown(n, i)' = [k \in DOMAIN t |-> objects'[t[k]].media_.class]
  BY DEF Shown, PrintPost
<1> QED BY <1>1, PrintsPrefix

(* What the user of n with the id i shows is what some user showed. *)
Keeps(n, i) ==
  \/ i \notin IdsInUse
  \/ \E m \in DOMAIN networks : /\ i \in DOMAIN networks[m]
                                /\ IsPrefix(Shown(m, i), Shown(n, i)')

(* The user that n has under i stays there, with its posts, and gets at    *)
(* most one more.                                                          *)
Stays(n, i) ==
  /\ n \in DOMAIN networks /\ i \in DOMAIN networks[n]
  /\ networks'[n][i] = networks[n][i]
  /\ LET u == networks[n][i]
     IN  /\ \/ users'[u].posts_ = users[u].posts_
            \/ \E o \in Objects : users'[u].posts_ = Append(users[u].posts_, o)
         /\ \A o \in ToSet(users[u].posts_) : objects'[o] = objects[o]

(* Then it shows what it has shown. *)
LEMMA StaysKeeps ==
  ASSUME Inv, NEW n, NEW i, Stays(n, i)
  PROVE  Keeps(n, i)
<1> DEFINE u == networks[n][i]
           s == users[u].posts_
           t == users'[u].posts_
<1>1. /\ n \in DOMAIN networks /\ i \in DOMAIN networks[n] /\ networks'[n][i] = u
      /\ t = s \/ \E o \in Objects : t = Append(s, o)
      /\ \A o \in ToSet(s) : objects'[o] = objects[o]
  BY DEF Stays
<1>2. u \in DOMAIN users
  BY <1>1 DEF Inv, EntriesAreLive
<1>3. s \in Seq(Objects)
  BY <1>2 DEF Inv, TypeOK
<1> HIDE DEF s, t, u
<1>4. /\ t \in Seq(Objects) /\ Len(s) <= Len(t)
      /\ \A k \in DOMAIN s : t[k] = s[k]
  <2>1. CASE t = s
    BY <1>3, <2>1
  <2>2. ASSUME NEW o \in Objects, t = Append(s, o)
        PROVE  /\ t \in Seq(Objects) /\ Len(s) <= Len(t)
               /\ \A k \in DOMAIN s : t[k] = s[k]
    BY <1>3, <2>2
  <2> QED BY <1>1, <2>1, <2>2
<1>5. \A k \in DOMAIN s : objects'[t[k]].media_.class = objects[s[k]].media_.class
  BY <1>1, <1>4 DEF ToSet
<1>6. s = users[networks[n][i]].posts_ /\ t = users'[networks'[n][i]].posts_
  BY <1>1 DEF s, t, u
<1>7. IsPrefix(Shown(n, i), Shown(n, i)')
  BY <1>3, <1>4, <1>5, <1>6, PostsPrefix
<1> QED BY <1>1, <1>7 DEF Keeps

(* Users that are not deleted keep what they show. *)
LEMMA BuryKeeps ==
  ASSUME Inv, NEW dead \in SUBSET DOMAIN users, Bury(dead),
         NEW n \in (DOMAIN networks)', NEW i \in DOMAIN networks'[n]
  PROVE  Keeps(n, i)
<1> DEFINE u == networks[n][i]
<1>1. /\ n \in DOMAIN networks /\ i \in DOMAIN networks[n]
      /\ networks'[n][i] = u /\ u \notin dead
  BY DEF Bury
<1>2. u \in DOMAIN users
  BY <1>1 DEF Inv, EntriesAreLive
<1> HIDE DEF u
<1>3. users'[u] = users[u]
  BY <1>1, <1>2 DEF Bury, Restrict
<1>4. OwnedBy(u) \subseteq DOMAIN objects \ UNION {OwnedBy(v) : v \in dead}
  BY <1>1, <1>2 DEF Inv, ObjectsAreOwnedOnce
<1>5. \A o \in ToSet(users[u].posts_) : objects'[o] = objects[o]
  <2>1. ToSet(users[u].posts_) \subseteq OwnedBy(u)
    BY DEF OwnedBy
  <2> QED BY <1>4, <2>1 DEF Bury, Deleted, Restrict
<1>6. Stays(n, i)
  BY <1>1, <1>3, <1>5 DEF Stays, u
<1> QED BY <1>6, StaysKeeps

(* Users that are not dead keep what they show when copies are made, and   *)
(* the copies show what the originals showed.                              *)
LEMMA CopyKeeps ==
  ASSUME Inv, NEW n, NEW m, NEW dead, NEW user, NEW object,
         MakesWay(n, m, dead), IsCopy(n, m, dead, user, object),
         NEW k \in (DOMAIN networks)', NEW i \in DOMAIN networks'[k]
  PROVE  Keeps(k, i)
<1> DEFINE kept   == DOMAIN users \ dead
           source == Range(networks[m])
           intact == DOMAIN objects \ UNION {OwnedBy(u) : u \in dead}
           owned  == UNION {OwnedBy(u) : u \in source}
<1>1. Separated(n, m, dead, user, object)
  BY CopiesAreSeparate
<1>2. /\ source \subseteq kept
      /\ \A v \in kept : users'[v] = users[v]
      /\ \A u \in source : users'[user[u]] = CopyUser(u, object)
      /\ \A l \in DOMAIN networks \ {n} :
           networks'[l] = networks[l] /\ Range(networks[l]) \subseteq kept
      /\ (DOMAIN networks)' = DOMAIN networks \cup {n}
      /\ DOMAIN networks'[n] = DOMAIN networks[m]
      /\ \A j \in DOMAIN networks[m] : /\ networks[m][j] \in source
                                       /\ networks'[n][j] = user[networks[m][j]]
  BY <1>1 DEF Separated
<1>3. /\ object \in Injection(owned, Objects \ intact)
      /\ \A o \in intact : objects'[o] = objects[o]
      /\ \A o \in owned : objects'[object[o]] = CopyObject(o, object[o])
  BY Zenon DEF IsCopy
<1>4. \A v \in kept : OwnedBy(v) \subseteq intact
  BY OriginalsStay, Zenon
<1>5. m \in DOMAIN networks /\ kept \subseteq DOMAIN users
  BY DEF MakesWay
<1>6. \A u \in source : OwnedBy(u) \subseteq owned
  OBVIOUS
<1>7. intact \subseteq DOMAIN objects /\ Objects \ intact \subseteq Objects
  OBVIOUS
<1>8. owned \subseteq intact
  BY <1>2, <1>4
<1> HIDE DEF kept, source, intact, owned
<1>9. CASE k # n
  <2>1. k \in DOMAIN networks /\ networks'[k] = networks[k] /\ networks[k][i] \in kept
    BY <1>2, <1>9 DEF Range
  <2>2. \A o \in ToSet(users[networks[k][i]].posts_) : objects'[o] = objects[o]
    BY <1>3, <1>4, <2>1 DEF OwnedBy
  <2>3. Stays(k, i)
    BY <1>2, <2>1, <2>2 DEF Stays
  <2> QED BY <2>3, StaysKeeps
<1>10. CASE k = n
  <2> DEFINE u == networks[m][i]
             s == users[u].posts_
             t == users'[networks'[n][i]].posts_
  <2>1. /\ i \in DOMAIN networks[m] /\ u \in source /\ u \in DOMAIN users
        /\ networks'[n][i] = user[u] /\ users'[user[u]] = CopyUser(u, object)
    BY <1>2, <1>5, <1>10
  <2>2. FitsCopy(CopyUser(u, object), u, object)
    <3> HIDE DEF u
    <3> QED BY <1>3, <1>6, <1>7, <2>1, CopyOfUser
  <2>3. t = Image(object, s)
    BY <2>1, <2>2 DEF FitsCopy
  <2>4. s \in Seq(Objects)
    BY <2>1 DEF Inv, TypeOK
  <2>5. t \in Seq(Objects)
    BY <2>1, <2>2 DEF FitsCopy
  <2>6. ToSet(s) \subseteq owned
    BY <1>6, <2>1 DEF OwnedBy
  <2> HIDE DEF u, s, t
  <2>7. /\ DOMAIN t = DOMAIN s /\ DOMAIN s = 1 .. Len(s) /\ Len(t) = Len(s) /\ Len(s) \in Nat
        /\ \A l \in DOMAIN s : t[l] = object[s[l]]
    <3>1. DOMAIN t = DOMAIN s /\ \A l \in DOMAIN s : t[l] = object[s[l]]
      BY <2>3 DEF Image
    <3>2. /\ DOMAIN s = 1 .. Len(s) /\ DOMAIN t = 1 .. Len(t)
          /\ Len(s) \in Nat /\ Len(t) \in Nat
      BY <2>4, <2>5
    <3> QED BY <3>1, <3>2
  <2>8. \A o \in owned : PrintPost(o) = objects'[object[o]].media_.class
    <3>1. \A o \in owned : object[o] \in Objects
      BY <1>3 DEF Injection
    <3> QED BY <1>3, <1>7, <1>8, <3>1, CopyOfObject
  <2>9. \A l \in DOMAIN s : objects'[t[l]].media_.class = objects[s[l]].media_.class
    BY <2>6, <2>7, <2>8 DEF PrintPost, ToSet
  <2>10. IsPrefix(Shown(m, i), Shown(n, i)')
    <3>1. s = users[networks[m][i]].posts_ /\ t = users'[networks'[n][i]].posts_
      BY DEF s, t, u
    <3>2. Len(s) <= Len(t)
      BY <2>7
    <3> QED BY <2>4, <2>5, <2>9, <3>1, <3>2, PostsPrefix
  <2> QED BY <1>5, <1>10, <2>1, <2>10 DEF Keeps
<1> QED BY <1>9, <1>10

(* A new network has nobody who shows anything. *)
LEMMA CreateKeeps ==
  ASSUME Inv, NEW n, Create(n), NEW k \in (DOMAIN networks)', NEW i \in DOMAIN networks'[k]
  PROVE  Keeps(k, i)
<1>1. /\ (DOMAIN networks)' = DOMAIN networks \cup {n}
      /\ \A m \in DOMAIN networks : networks'[m] = networks[m]
      /\ DOMAIN networks'[n] = {}
      /\ UNCHANGED <<users, objects>>
  BY DEF Create, Inserted
<1>2. Stays(k, i)
  BY <1>1 DEF Stays
<1> QED BY <1>2, StaysKeeps

(* Nobody has the id of a new user before, and the others stay. *)
LEMMA RegisterUserKeeps ==
  ASSUME Inv, NEW n \in DOMAIN networks, NEW u \in FreshUsers, NEW isBusinessUser,
         RegisterUser(n, u, isBusinessUser),
         NEW k \in (DOMAIN networks)', NEW i \in DOMAIN networks'[k]
  PROVE  Keeps(k, i)
<1>1. /\ (DOMAIN networks)' = DOMAIN networks
      /\ \A m \in DOMAIN networks \ {n} : networks'[m] = networks[m]
      /\ networks'[n] = Inserted(networks[n], userID, u)
      /\ UNCHANGED objects
  BY DEF RegisterUser, Insert
<1>2. \A v \in DOMAIN users : users'[v] = users[v]
  BY DEF RegisterUser, Insert, Inserted
<1>3. CASE k \in DOMAIN networks /\ i \in DOMAIN networks[k]
  <2>1. networks'[k][i] = networks[k][i]
    BY <1>1, <1>3 DEF Inserted
  <2>2. networks[k][i] \in DOMAIN users
    BY <1>3 DEF Inv, EntriesAreLive
  <2>3. Stays(k, i)
    BY <1>1, <1>2, <1>3, <2>1, <2>2 DEF Stays
  <2> QED BY <2>3, StaysKeeps
<1>4. CASE ~(k \in DOMAIN networks /\ i \in DOMAIN networks[k])
  <2>1. i = userID
    BY <1>1, <1>4 DEF Inserted
  <2>2. \A j \in IdsInUse : j < userID
    BY DEF Inv, IdsAreUsedUp, RegisterUser
  <2>3. userID \in Int
    BY DEF Inv, TypeOK
  <2>4. i \notin IdsInUse
    BY <2>1, <2>2, <2>3
  <2> QED BY <2>4 DEF Keeps
<1> QED BY <1>3, <1>4

(* The users of all networks stay when no map changes, no list of posts    *)
(* but for a new post, and no object that is live.                         *)
LEMMA ListsKeep ==
  ASSUME Inv, UNCHANGED networks,
         \A u \in DOMAIN users : \/ users'[u].posts_ = users[u].posts_
                                 \/ \E o \in Objects :
                                      users'[u].posts_ = Append(users[u].posts_, o),
         \A o \in DOMAIN objects : objects'[o] = objects[o],
         NEW k \in (DOMAIN networks)', NEW i \in DOMAIN networks'[k]
  PROVE  Keeps(k, i)
<1> DEFINE u == networks[k][i]
<1>1. k \in DOMAIN networks /\ i \in DOMAIN networks[k] /\ networks'[k][i] = u
  OBVIOUS
<1>2. u \in DOMAIN users
  BY <1>1 DEF Inv, EntriesAreLive
<1>3. ToSet(users[u].posts_) \subseteq DOMAIN objects
  BY <1>2 DEF Inv, ObjectsAreOwnedOnce, OwnedBy
<1>4. Stays(k, i)
  BY <1>1, <1>2, <1>3 DEF Stays
<1> QED BY <1>4, StaysKeeps

(* What a user does adds posts and takes none away. *)
LEMMA MemberCallsKeep ==
  ASSUME Inv, MemberCalls, NEW k \in (DOMAIN networks)', NEW i \in DOMAIN networks'[k]
  PROVE  Keeps(k, i)
<1> DEFINE PostsGrow ==
      \A v \in DOMAIN users : \/ users'[v].posts_ = users[v].posts_
                              \/ \E o \in Objects :
                                   users'[v].posts_ = Append(users[v].posts_, o)
           ObjectsStay == \A o \in DOMAIN objects : objects'[o] = objects[o]
<1>1. PICK u \in Callable :
        \/ RefuseFriend(u) \/ RejectMessage(u)
        \/ \E v \in Callable : AddFriend(u, v) \/ RemoveFriend(u, v)
        \/ /\ FreshObjects # {}
           /\ \/ ReceiveMessage(u, NewObjectAddress)
              \/ \E v \in Callable : SendMessage(u, v, NewObjectAddress)
        \/ /\ FreshObjects # {}
           /\ \E media \in {NoMedia} \cup {MediaFor(NewObjectAddress, c) : c \in Media} :
                Post(u, NewObjectAddress, media)
  BY DEF MemberCalls
<1>2. \A v \in DOMAIN users :
        users[v] \in [us_ : Networks \cup {NoNetwork}, id_ : 0 .. IdModulus - 1,
                      business : BOOLEAN, friends : Seq(Ids),
                      posts_ : Seq(Objects), receivedMsgs_ : Seq(Objects)]
  BY DEF Inv, TypeOK
<1>3. \A v \in Callable : v \in DOMAIN users
  BY DEF Callable
<1>4. ASSUME RefuseFriend(u) \/ RejectMessage(u)
      PROVE  UNCHANGED networks /\ PostsGrow /\ ObjectsStay
  BY <1>4 DEF RefuseFriend, RejectMessage, vars
<1>5. ASSUME NEW v \in Callable, AddFriend(u, v) \/ RemoveFriend(u, v)
      PROVE  UNCHANGED networks /\ PostsGrow /\ ObjectsStay
  BY <1>2, <1>3, <1>5, ZenonT(40) DEF AddFriend, RemoveFriend, Append1
<1>6. ASSUME NEW v \in Callable, NEW m, Receive(v, m), UNCHANGED networks
      PROVE  UNCHANGED networks /\ PostsGrow /\ ObjectsStay
  BY <1>2, <1>3, <1>6 DEF Receive, Append1, Inserted
<1>7. ASSUME NEW o \in FreshObjects, NEW media, Post(u, o, media)
      PROVE  UNCHANGED networks /\ PostsGrow /\ ObjectsStay
  <2>1. o \in Objects
    BY DEF FreshObjects
  <2> QED BY <1>2, <1>3, <1>7, <2>1 DEF Post, Append1, Inserted
<1>8. UNCHANGED networks /\ PostsGrow /\ ObjectsStay
  <2> HIDE DEF PostsGrow, ObjectsStay
  <2> QED BY <1>1, <1>4, <1>5, <1>6, <1>7, NewObjectIsFresh DEF ReceiveMessage, SendMessage
<1> QED BY <1>8, ListsKeep

(* Every step keeps what is shown. *)
LEMMA NextKeeps ==
  ASSUME Inv, [Next]_vars, NEW k \in (DOMAIN networks)', NEW i \in DOMAIN networks'[k]
  PROVE  Keeps(k, i)
<1>1. ASSUME UNCHANGED vars
      PROVE  Keeps(k, i)
  BY <1>1, ListsKeep DEF vars
<1>2. CASE NetworkCalls
  <2>1. ASSUME NEW n \in FreshNetworks, NEW m \in DOMAIN networks, Copy(n, m)
        PROVE  Keeps(k, i)
    <3>1. n \in Networks
      BY DEF FreshNetworks
    <3> QED BY <2>1, <3>1, CopyMakesCopies, CopyKeeps
  <2>2. ASSUME NEW n \in DOMAIN networks, NEW m \in DOMAIN networks, Assign(n, m)
        PROVE  Keeps(k, i)
    BY <2>2, AssignMakesCopies, CopyKeeps
  <2>3. CASE \E n \in DOMAIN networks : Destroy(n)
    BY <2>3, DestroyBuries, BuryKeeps
  <2>4. CASE \E n \in FreshNetworks : Create(n)
    BY <2>4, CreateKeeps
  <2> QED BY <1>2, <2>1, <2>2, <2>3, <2>4, NetworkCallsAre, Zenon
<1>3. CASE UserCalls
  <2>1. ASSUME NEW n \in DOMAIN networks, NEW u \in FreshUsers, NEW isBusinessUser \in Kinds,
               RegisterUser(n, u, isBusinessUser)
        PROVE  Keeps(k, i)
    BY <2>1, RegisterUserKeeps
  <2>2. ASSUME NEW u \in FreshUsers, NEW isBusinessUser \in Kinds,
               RegisterUserOverflows(u, isBusinessUser)
        PROVE  Keeps(k, i)
    <3>1. \A v \in DOMAIN users : users'[v] = users[v]
      BY <2>2 DEF RegisterUserOverflows, Inserted
    <3> QED BY <2>2, <3>1, ListsKeep DEF RegisterUserOverflows
  <2>3. ASSUME NEW n \in DOMAIN networks, NEW u \in Callable, MayPass(n, u), RemoveUser(n, u)
        PROVE  Keeps(k, i)
    BY <1>1, <2>3, RemoveUserBuries, BuryKeeps
  <2> QED BY <1>3, <2>1, <2>2, <2>3, UserCallsAre, Zenon
<1>4. CASE MemberCalls
  BY <1>4, MemberCallsKeep
<1>5. CASE RefuseMessage
  BY <1>1, <1>5 DEF RefuseMessage
<1> QED BY <1>1, <1>2, <1>3, <1>4, <1>5 DEF Next

-----------------------------------------------------------------------------
(* The theorems *)

(* The live objects have the fields of their classes, for any number of    *)
(* networks, users, objects and ids.                                       *)
THEOREM TypeCorrect == Spec => []TypeOK
<1>1. Inv => TypeOK
  BY DEF Inv
<1> QED BY <1>1, Invariance, PTL

(* After any sequence of calls every registered user is in one network,    *)
(* under its id, and the networks have no other users: ~USocial, operator= *)
(* and removeUser delete each of them once.                                *)
THEOREM UsersHaveOneOwner == Spec => []UsersAreOwnedOnce
BY OneEntryEach, Invariance, PTL

(* A post or a message is live as long as one user has it, in one place,   *)
(* and media belong to their post: nothing is deleted twice or left, after *)
(* copies and assignments too.                                             *)
THEOREM ObjectsHaveOneOwner == Spec => []ObjectsAreOwnedOnce
<1>1. Inv => ObjectsAreOwnedOnce
  BY DEF Inv
<1> QED BY <1>1, Invariance, PTL

(* No friends list gets an id twice, on which the comment in removeFriend  *)
(* relies.                                                                 *)
THEOREM FriendsStayUnique == Spec => []FriendsAreUnique
<1>1. Inv => FriendsAreUnique
  BY DEF Inv
<1> QED BY <1>1, Invariance, PTL

(* A business user looks its friends up in the network it is in.           *)
THEOREM BusinessUsersStayAtHome == Spec => []BusinessUsersAreAtHome
<1>1. Inv => BusinessUsersAreAtHome
  BY DEF Inv
<1> QED BY <1>1, Invariance, PTL

(* The id of a new user is in nobody's friends list: an id is not given    *)
(* again, though the lists keep those of removed users.                    *)
THEOREM NewUsersHaveNoFriends == Spec => NewUsersAreNobodysFriends
<1>1. ASSUME Inv, [Next]_vars
      PROVE  \A i \in IdsInUse' \ IdsInUse : \A u \in DOMAIN users :
               i \notin ToSet(users[u].friends)
  <2>1. ASSUME NEW i \in IdsInUse' \ IdsInUse, NEW u \in DOMAIN users,
               i \in ToSet(users[u].friends)
        PROVE  FALSE
    <3>1. i = userID /\ userID # 0
      BY <1>1, NewIdsAreNext
    <3>2. i < userID
      BY <1>1, <2>1, <3>1 DEF Inv, IdsAreUsedUp
    <3>3. userID \in Int
      BY <1>1 DEF Inv, TypeOK
    <3> QED BY <3>1, <3>2, <3>3
  <2> QED BY <2>1
<1> QED BY <1>1, Invariance, PTL DEF Spec, NewUsersAreNobodysFriends

(* Users go on showing what they have shown, with the media, in the order, *)
(* and then new posts; a copy shows what its original has shown.           *)
THEOREM PostsStayShown == Spec => PostsAreKept
<1>1. Inv /\ [Next]_vars => ShownAsBefore
  BY NextKeeps DEF ShownAsBefore, Keeps
<1> QED BY <1>1, Invariance, PTL DEF Spec, PostsAreKept
=============================================================================
