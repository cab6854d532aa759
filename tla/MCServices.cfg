SPECIFICATION ServicesSpec
CONSTANTS
  MaxLines = 5
  MaxTableLines = 6
  CategoryInputs <- MCCategoryInputs
  PostInputs <- MCPostInputs
  ItemInputs <- MCItemInputs
  MaxItems = 3
  CategoryIds = {1, 2, 3}
  PostIds = {1, 2}
  Times = {1, 2}
  StoreRequests = {r1, r2}
  Emails = {e1, e2}
  CodeHashes = {c1, c2}
  TokenHashes = {t1, t2}
  Jtis = {j1, j2}
  UserIds = {u1, u2}
  LinkTTL = 2
  StaleAge = 1
  CountWindow = 2
  CodeMaxAttempts = 2
  SmallIntMax = 3
  MaxClock = 5
  Usernames = {n1, a2}
  Addresses = {a1, a2}
  Passwords = {p1, p2, p3}
  AccountIds = {i1, i2}
  ChangeRequests = {x1, x2}
SYMMETRY SlotSymmetry
INVARIANTS
  TitlesAndDays
  BodiesKeepEveryLine
  TextIsShown
  FirstDataTableIsRead
  SameAnswers
  CategoriesTwoDeep
  ReadsAreWholeOrDeleted
  AuthStoresAgree
  UserStoresAgree
  OverwritesOnlyIfRacing
CHECK_DEADLOCK FALSE
