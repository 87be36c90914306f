SPECIFICATION Spec
CONSTANTS
  Users = {adopter}
  Pets = {p1}
  AppIds = {a1}
  PetOrg <- MCPetOrg
  NoApp = NoApp
  SeedApps <- MCSeedApps
  adopter = adopter
  a1 = a1
  p1 = p1
  ReviewIds = {r1, r2}
  Reports = {NoReport, c1}
  NoReport = NoReport
  NoReview = NoReview
  DayInputs <- MCDayInputs
  DefaultDays = 2
  LastDay = 3
  Handlers = {h1, h2}
SYMMETRY Symmetry
INVARIANTS TypeOK ListingIsCurrent StatusTellsTheTruth
PROPERTIES ReportIsKept ImplementsBook
