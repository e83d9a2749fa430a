\* Copies of a network, without removals.
SPECIFICATION Spec
CONSTANTS
  Networks <- Two
  NoNetwork = 0
  Users <- Four
  NoUser = 0
  Objects <- Two
  NoObject = 0
  Media = {"audio"}
  Kinds = {TRUE, FALSE}
  IdModulus = 3
  MayCopy = TRUE
  MayRemove = FALSE
INVARIANTS FriendsAreLookedUpAtHome
