SPECIFICATION Spec
CONSTANTS
  adopter = adopter
  keeper = keeper
  a0 = a0
  p1 = p1
  Users = {adopter, keeper}
  Orgs <- MCOrgs
  Pets = {p1}
  AppIds = {a1, a2}
  Handlers = {h1, h2}
  Role <- MCRole
  OrgUser <- MCOrgUser
  PetOrg <- MCPetOrg
  NoOrg = NoOrg
  NoApp = NoApp
  SeedApps <- MCNoSeed
SYMMETRY Symmetry
INVARIANTS TypeOK NoStageSkipped AppliedPetReserved RacingSubmitsBounded DuplicatesOverlap
PROPERTY ApprovalAdoptsPet
