\* Two networks of up to two users that are copied and assigned, until the
\* ids are used up.
SPECIFICATION Spec
CONSTANTS
  Networks <- Two
  NoNetwork = 0
  Users <- Three
  NoUser = 0
  Objects <- Two
  NoObject = 0
  Media = {"audio"}
  Kinds = {TRUE, FALSE}
  IdModulus = 3
  MayCopy = TRUE
  MayRemove = TRUE
INVARIANTS TypeOK UsersAreOwnedOnce ObjectsAreOwnedOnce FriendsAreUnique BusinessUsersAreAtHome
PROPERTIES NewUsersAreNobodysFriends PostsAreKept
