\* A registration that is rolled back uses its id up: the ids of the model can run out
\* before there is any organization, and then nothing more can happen.
SPECIFICATION Spec
CONSTANTS
  keeper = keeper
  Owners = {keeper}
  SeedOwners <- MCSeedOwners
  MaxOrg = 2
  PetIds = {p1, p2}
  DonationIds = {d1}
  UsageIds = {x1}
  Amounts <- MCAmounts
  Handlers = {h1, h2}
  NoRow = NoRow
SYMMETRY Symmetry
INVARIANT OwnersManage
CHECK_DEADLOCK FALSE
