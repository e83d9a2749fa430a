------------------------------ MODULE USocial ------------------------------
(***************************************************************************)
(* The social network of Maman11/USocial: USocial objects that own User    *)
(* objects, which own their posts and the messages they have received.     *)
(* The program is sequential; what is hard is who frees what, and which    *)
(* ids and pointers go on meaning the same after users are removed and     *)
(* networks are copied, assigned and destroyed.                            *)
(*                                                                         *)
(* The heap is the set of live objects, by address: networks, users and    *)
(* objects (posts and messages).  An address is free for the next          *)
(* allocation as soon as its object is deleted.  Media have addresses of   *)
(* their own, each that of the post it was made for.  Texts are left out.  *)
(***************************************************************************)
EXTENDS Integers, Sequences, FiniteSets, Functions, SequencesExt

CONSTANTS
  Networks,    \* addresses of USocial objects
  NoNetwork,   \* an uninitialized us_
  Users,       \* addresses of User objects
  NoUser,      \* nullptr
  Objects,     \* addresses of Post and Message objects
  NoObject,    \* nullptr
  IdModulus,   \* unsigned long wraps at this value
  Media,       \* the classes of media that are posted
  Kinds,       \* the values of isBusinessUser that callers pass
  MayCopy,     \* TRUE: networks may be copied and assigned
  MayRemove    \* TRUE: users may be removed

ASSUME USocialAssumption ==
  /\ NoNetwork \notin Networks /\ NoUser \notin Users /\ NoObject \notin Objects
  /\ IdModulus \in Nat /\ IdModulus > 1
  /\ Kinds \subseteq BOOLEAN /\ MayCopy \in BOOLEAN /\ MayRemove \in BOOLEAN

VARIABLES
  networks,  \* [n]: users_ of the live network n, a map from id to user
  users,     \* [u]: the fields of the live user u, and its dynamic type
  objects,   \* [o]: the live object o: a message, or a post and its media_
  userID     \* the static counter of registerUser, shared by all networks

vars == <<networks, users, objects, userID>>

Ids == 1 .. IdModulus - 1

FreshNetworks == Networks \ DOMAIN networks
FreshUsers   == Users \ DOMAIN users
FreshObjects == Objects \ DOMAIN objects

(* malloc may return any free address; they are alike. *)
NewNetworkAddress == CHOOSE n \in FreshNetworks : TRUE
NewUserAddress   == CHOOSE u \in FreshUsers : TRUE
NewObjectAddress == CHOOSE o \in FreshObjects : TRUE

(* Addresses out of free for copies of the objects at source. *)
Allocated(source, free) == CHOOSE address \in Injection(source, free) : TRUE

(* std::map::insert leaves an entry alone that is already there. *)
Inserted(f, x, y) == [z \in DOMAIN f \cup {x} |-> IF z \in DOMAIN f THEN f[z] ELSE y]

OwnedBy(u) == ToSet(users[u].posts_) \cup ToSet(users[u].receivedMsgs_)

Message           == [class |-> "Message"]
NoMedia           == [class |-> "none", at |-> NoObject]
MediaFor(o, c)    == [class |-> c, at |-> o]
PostWith(media)   == [class |-> "Post", media_ |-> media]

(* ~User deletes its objects, and ~Post its media with it. *)
Deleted(dead) == Restrict(objects, DOMAIN objects \ dead)

Append1(u, field, x) == users' = [users EXCEPT ![u][field] = Append(@, x)]

Init ==
  /\ networks = <<>> /\ users = <<>> /\ objects = <<>>
  /\ userID = 1

-----------------------------------------------------------------------------
(* Networks *)

Create(n) ==
  /\ n \notin DOMAIN networks
  /\ networks' = Inserted(networks, n, <<>>)
  /\ UNCHANGED <<users, objects, userID>>

(* Variant: the copy is of the class of the original. *)
CopyUserWhole(u, object) ==
  [users[u] EXCEPT !.posts_ = [i \in DOMAIN @ |-> object[@[i]]],
                   !.receivedMsgs_ = [i \in DOMAIN @ |-> object[@[i]]]]

(* new User(u), whose posts and messages are copied to the addresses       *)
(* object[o].  The copy of a BusinessUser is a User, and us_ is that of u. *)
CopyUser(u, object) ==
  [users[u] EXCEPT !.business = FALSE,
                   !.posts_ = [i \in DOMAIN @ |-> object[@[i]]],
                   !.receivedMsgs_ = [i \in DOMAIN @ |-> object[@[i]]]]

(* Variant: the copy of a post has no media. *)
CopyObjectBare(o, a) == IF objects[o].class = "Post" THEN PostWith(NoMedia) ELSE objects[o]

(* Variant: the copy of a post has the pointer of the original. *)
CopyObjectShallow(o, a) == objects[o]

(* The copy at a: that of a post has a clone of the media, of its class. *)
CopyObject(o, a) ==
  IF objects[o].class = "Post" /\ objects[o].media_ # NoMedia
    THEN PostWith(MediaFor(a, objects[o].media_.class)) ELSE objects[o]

(* The users of m are copied to n, in place of the users dead, which       *)
(* clearUsers has deleted.  The addresses are bounds of the model.         *)
CopyUsers(n, m, dead) ==
  LET kept   == DOMAIN users \ dead
      intact == DOMAIN objects \ UNION {OwnedBy(u) : u \in dead}
      source == Range(networks[m])
      owned  == UNION {OwnedBy(u) : u \in source}
      user   == Allocated(source, Users \ kept)
      object == Allocated(owned, Objects \ intact)
      origin(f, a) == CHOOSE o \in DOMAIN f : f[o] = a
  IN  /\ Injection(source, Users \ kept) # {}
      /\ Injection(owned, Objects \ intact) # {}
      /\ users' = [v \in kept \cup Range(user) |->
                     IF v \in kept THEN users[v] ELSE CopyUser(origin(user, v), object)]
      /\ objects' = [o \in intact \cup Range(object) |->
                     IF o \in intact THEN objects[o] ELSE CopyObject(origin(object, o), o)]
      /\ networks' = [k \in DOMAIN networks \cup {n} |->
                        IF k = n THEN [i \in DOMAIN networks[m] |-> user[networks[m][i]]]
                                 ELSE networks[k]]

(* The copy constructor *)
Copy(n, m) ==
  /\ MayCopy /\ n \notin DOMAIN networks
  /\ CopyUsers(n, m, {})
  /\ UNCHANGED <<userID>>

(* operator=, which leaves the network alone when it is assigned to itself *)
Assign(n, m) ==
  /\ MayCopy /\ n # m
  /\ CopyUsers(n, m, Range(networks[n]))
  /\ UNCHANGED <<userID>>

(* clearUsers and ~User *)
Destroy(n) ==
  LET dead == Range(networks[n]) IN
  /\ networks' = Restrict(networks, DOMAIN networks \ {n})
  /\ users' = Restrict(users, DOMAIN users \ dead)
  /\ objects' = Deleted(UNION {OwnedBy(u) : u \in dead})
  /\ UNCHANGED <<userID>>

-----------------------------------------------------------------------------
(* Users *)

NewUser(n, id, isBusinessUser) ==
  [us_ |-> n, id_ |-> id, business |-> isBusinessUser,
   friends |-> <<>>, posts_ |-> <<>>, receivedMsgs_ |-> <<>>]

Insert(n, u, id, isBusinessUser) ==
  /\ userID' = (userID + 1) % IdModulus
  /\ users' = Inserted(users, u, NewUser(n, id, isBusinessUser))
  /\ networks' = [networks EXCEPT ![n] = Inserted(@, id, u)]
  /\ UNCHANGED objects

(* Variant: the overflow of the counter is not noticed. *)
RegisterUserUnchecked(n, u, isBusinessUser) == Insert(n, u, userID, isBusinessUser)

(* Variant: the id of a user is one more than the users there are. *)
RegisterUserBySize(n, u, isBusinessUser) ==
  /\ Cardinality(DOMAIN networks[n]) + 1 \in Ids
  /\ Insert(n, u, Cardinality(DOMAIN networks[n]) + 1, isBusinessUser)

RegisterUser(n, u, isBusinessUser) ==
  /\ userID # 0
  /\ Insert(n, u, userID, isBusinessUser)

(* The ids are used up: the exception leaves behind the user that has      *)
(* already been allocated.                                                 *)
RegisterUserOverflows(u, isBusinessUser) ==
  /\ userID = 0
  /\ users' = Inserted(users, u, NewUser(NoNetwork, 0, isBusinessUser))
  /\ UNCHANGED <<networks, objects, userID>>

(* Variant: the user is deleted before its entry is looked up. *)
RemoveUserKeepsEntry(n, u) ==
  /\ users' = Restrict(users, DOMAIN users \ {u})
  /\ objects' = Deleted(OwnedBy(u))
  /\ UNCHANGED <<networks, userID>>

(* The entry of u's id is erased and, if there was one, u is deleted; a    *)
(* caller passes the user that has the entry or one whose id has none.     *)
(* The friends lists of the others keep the id.                            *)
RemoveUser(n, u) ==
  LET i == users[u].id_ IN
  /\ IF i \in DOMAIN networks[n]
       THEN /\ networks' = [networks EXCEPT ![n] = Restrict(@, DOMAIN @ \ {i})]
            /\ users' = Restrict(users, DOMAIN users \ {u})
            /\ objects' = Deleted(OwnedBy(u))
       ELSE UNCHANGED <<networks, users, objects>>
  /\ UNCHANGED <<userID>>

(* A user that a caller can hold a pointer to. *)
Reachable(u) == \E n \in DOMAIN networks : u \in Range(networks[n])

Callable == {u \in DOMAIN users : Reachable(u)}

MayPass(n, u) == users[u].id_ \in DOMAIN networks[n] => networks[n][users[u].id_] = u

-----------------------------------------------------------------------------
(* Friends, posts and messages *)

(* Variant: friends are not checked for duplicates. *)
AddFriendUnchecked(u, v) ==
  /\ v # NoUser
  /\ Len(users[u].friends) < IdModulus   \* bound
  /\ Append1(u, "friends", users[v].id_)
  /\ UNCHANGED <<networks, objects, userID>>

CanAdd(u, v) == v # NoUser /\ users[v].id_ \notin ToSet(users[u].friends)

AddFriend(u, v) ==
  /\ CanAdd(u, v)
  /\ Append1(u, "friends", users[v].id_)
  /\ UNCHANGED <<networks, objects, userID>>

RefuseFriend(u) ==
  /\ \E v \in Callable \cup {NoUser} : ~CanAdd(u, v)
  /\ UNCHANGED <<networks, users, objects, userID>>

(* list::remove takes out every occurrence of x and keeps the others in    *)
(* their order: the i-th of them has i of them up to it.                   *)
Without(s, x) ==
  LET kept == {k \in DOMAIN s : s[k] # x}
  IN  [i \in 1 .. Cardinality(kept) |->
         s[CHOOSE k \in kept : Cardinality({j \in kept : j <= k}) = i]]

RemoveFriend(u, v) ==
  /\ v # NoUser
  /\ users' = [users EXCEPT ![u].friends = Without(@, users[v].id_)]
  /\ UNCHANGED <<networks, objects, userID>>

(* Post, with media that the caller has allocated and the post comes to    *)
(* own, or without.                                                        *)
Post(u, o, media) ==
  /\ Append1(u, "posts_", o)
  /\ objects' = Inserted(objects, o, PostWith(media))
  /\ UNCHANGED <<networks, userID>>

(* A message m that its receiver v comes to own. *)
Receive(v, m) ==
  /\ Append1(v, "receivedMsgs_", m)
  /\ objects' = Inserted(objects, m, Message)

ReceiveMessage(v, m) ==
  /\ m # NoObject
  /\ Receive(v, m)
  /\ UNCHANGED <<networks, userID>>

(* BusinessUser::sendMessage does not check that the receiver is a friend. *)
MayWriteTo(u, v) == users[u].business \/ users[v].id_ \in ToSet(users[u].friends)

SendMessage(u, v, m) ==
  /\ v \notin {NoUser, u} /\ m # NoObject /\ MayWriteTo(u, v)
  /\ Receive(v, m)
  /\ UNCHANGED <<networks, userID>>

MayReject(u) == \E v \in Callable \ {u} : ~MayWriteTo(u, v)

(* The message that the caller has allocated for the call is deleted, and  *)
(* nothing of the call is left.                                            *)
RejectMessage(u) == MayReject(u) /\ UNCHANGED vars

(* nullptr for the receiver or the message, or the sender as the receiver: *)
(* the message, if any, is deleted.                                        *)
RefuseMessage == Callable # {} /\ UNCHANGED vars

(* What printPost prints: the display string of the media, if there is one. *)
PrintPost(o) == objects[o].media_.class

(* us_->getUserById for each friend, up to the first that throws.  A us_   *)
(* that has been destroyed is undefined behaviour.                         *)
ViewFriendsPosts(u) ==
  LET friends == users[u].friends
      us      == users[u].us_
  IN  IF friends # <<>> /\ us \notin DOMAIN networks THEN [threw |-> "undefined"]
      ELSE IF \E i \in ToSet(friends) : i \notin DOMAIN networks[us] THEN [threw |-> "InvalidUserID"]
      ELSE [prints |-> [k \in DOMAIN friends |-> users[networks[us][friends[k]]].posts_]]

-----------------------------------------------------------------------------
NetworkCalls ==
  \/ /\ FreshNetworks # {}
     /\ \/ Create(NewNetworkAddress)
        \/ \E m \in DOMAIN networks : Copy(NewNetworkAddress, m)
  \/ \E n, m \in DOMAIN networks : Assign(n, m)
  \/ \E n \in DOMAIN networks : Destroy(n)

UserCalls ==
  \/ /\ FreshUsers # {}
     /\ \E n \in DOMAIN networks, isBusinessUser \in Kinds :
          \/ RegisterUser(n, NewUserAddress, isBusinessUser)
          \/ RegisterUserOverflows(NewUserAddress, isBusinessUser)
  \/ /\ MayRemove
     /\ \E n \in DOMAIN networks : \E u \in Callable : MayPass(n, u) /\ RemoveUser(n, u)

MemberCalls ==
  \E u \in Callable :
    \/ RefuseFriend(u) \/ RejectMessage(u)
    \/ \E v \in Callable : AddFriend(u, v) \/ RemoveFriend(u, v)
    \/ /\ FreshObjects # {}
       /\ \/ ReceiveMessage(u, NewObjectAddress)
          \/ \E v \in Callable : SendMessage(u, v, NewObjectAddress)
    \/ /\ FreshObjects # {}
       /\ \E media \in {NoMedia} \cup {MediaFor(NewObjectAddress, c) : c \in Media} :
            Post(u, NewObjectAddress, media)

Next == NetworkCalls \/ UserCalls \/ MemberCalls \/ RefuseMessage

Spec == Init /\ [][Next]_vars

-----------------------------------------------------------------------------
(* Properties *)

(* The live objects have the fields of their classes.  0 is the id of a    *)
(* user that registerUser has allocated and could not register.            *)
TypeOK ==
  /\ DOMAIN networks \subseteq Networks /\ DOMAIN users \subseteq Users
  /\ \A n \in DOMAIN networks :
       DOMAIN networks[n] \subseteq Ids /\ Range(networks[n]) \subseteq Users
  /\ \A u \in DOMAIN users :
       users[u] \in [us_ : Networks \cup {NoNetwork}, id_ : 0 .. IdModulus - 1,
                     business : BOOLEAN, friends : Seq(Ids),
                     posts_ : Seq(Objects), receivedMsgs_ : Seq(Objects)]
  /\ DOMAIN objects \subseteq Objects
  /\ Range(objects) \subseteq
       {Message, PostWith(NoMedia)} \cup {PostWith(MediaFor(o, c)) : o \in Objects, c \in Media}
  /\ userID \in 0 .. IdModulus - 1

EntriesOf(u) ==
  {n \in DOMAIN networks : \E i \in DOMAIN networks[n] :
                             networks[n][i] = u /\ users[u].id_ = i}

(* A user is owned by one network, which has it under its id: the          *)
(* destructors of the networks delete every user once, and none but those  *)
(* that registerUser could not register are leaked.                        *)
UsersAreOwnedOnce ==
  /\ \A n \in DOMAIN networks : Range(networks[n]) \subseteq DOMAIN users
  /\ \A u \in DOMAIN users :
       Cardinality(EntriesOf(u)) = IF users[u].id_ = 0 THEN 0 ELSE 1

(* A post or a message is live as long as exactly one user has it, in one  *)
(* place, and its media are its own: ~User and ~Post delete nothing twice, *)
(* and a message that was not sent has been deleted.                       *)
ObjectsAreOwnedOnce ==
  /\ DOMAIN objects = UNION {OwnedBy(u) : u \in DOMAIN users}
  /\ \A u \in DOMAIN users : IsInjective(users[u].posts_ \o users[u].receivedMsgs_)
  /\ \A u, v \in DOMAIN users : u # v => OwnedBy(u) \cap OwnedBy(v) = {}
  /\ \A o \in DOMAIN objects :
       objects[o].class = "Post" => objects[o].media_.at \in {o, NoObject}

(* removeFriend relies on it: a friends list has no id twice, whatever     *)
(* users and copies of users are added to it.                              *)
FriendsAreUnique == \A u \in DOMAIN users : IsInjective(users[u].friends)

(* A copied user is a User, whatever the original was, and keeps its us_:  *)
(* so a business user is in the network it looks its friends up in.        *)
BusinessUsersAreAtHome ==
  \A n \in DOMAIN networks : \A i \in DOMAIN networks[n] :
    users[networks[n][i]].business => users[networks[n][i]].us_ = n

IdsInUse == UNION {DOMAIN networks[n] : n \in DOMAIN networks}

(* What the posts of the user that n has under id i print. *)
Shown(n, i) ==
  LET posts == users[networks[n][i]].posts_
  IN  [k \in DOMAIN posts |-> PrintPost(posts[k])]

(* What a user shows after a step: what it or the user it was copied from  *)
(* showed, and then maybe more.                                            *)
ShownAsBefore ==
  \A n \in DOMAIN networks' : \A i \in DOMAIN networks'[n] :
    \/ i \notin IdsInUse
    \/ \E m \in DOMAIN networks : /\ i \in DOMAIN networks[m]
                                 /\ IsPrefix(Shown(m, i), Shown(n, i)')

(* A user shows the posts that it or the user it was copied from showed,   *)
(* with their media, in their order, and then new ones.                    *)
PostsAreKept == [][ShownAsBefore]_vars

(* The friends lists keep the ids of removed users, so an id that no       *)
(* network has may only be given to a new user if no list has it.          *)
NewUsersAreNobodysFriends ==
  [][ \A i \in IdsInUse' \ IdsInUse : \A u \in DOMAIN users : i \notin ToSet(users[u].friends) ]_vars

(* viewFriendsPosts prints the posts of the friends in the network of the  *)
(* user, when they are all there.                                          *)
FriendsAreLookedUpAtHome ==
  \A n \in DOMAIN networks : \A i \in DOMAIN networks[n] :
    LET u       == networks[n][i]
        friends == users[u].friends
    IN  ToSet(friends) \subseteq DOMAIN networks[n] =>
          ViewFriendsPosts(u) =
            [prints |-> [k \in DOMAIN friends |-> users[networks[n][friends[k]]].posts_]]
=============================================================================
