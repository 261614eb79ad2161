SPECIFICATION Spec
CONSTANTS
  Users = {u1, u2}
  Mailboxes = {x, y}
  Spellings = {lower, mixed}
  LowerCase = lower
  Requests = {q1, q2}
  MaxChanged = 1
  None = None
  People = {u1, u2}
  Updates = {q1, q2}
  Reads = {r1}
  Original = Original
  Nothing = Nothing
  BusinessUsers = {u1, u2}
  OrgRoles = {x, y}
  Changes = {q1, q2}
  MaxIds = 2
  NoRole = NoRole
  MaxRows = 4
  PageSize = 2
  Nowhere = Nowhere
  Members = {u1, u2}
  Day = 2
  Period = 2
  Week = 1
  Points = 2
  Days = 2
  MaxClock = 3
  MaxLogins = 2
SYMMETRY Symmetry
INVARIANTS
  TypeOK
  AddressesApart FoundByOwnAddress ToldToLogIn AcceptedKeepsStaff
  NeverMixed ErrorChangedNothing AnswersWhole
  HolderListed SuccessGivesRole
  NothingMissed RepeatsExplained
  NeverOvercounts CardsWithinTotal
CHECK_DEADLOCK FALSE
