SPECIFICATION IsolatedSpec
CONSTANTS
  adopter = adopter
  keeper = keeper
  a0 = a0
  p1 = p1
  Users = {adopter, keeper}
  Orgs <- MCOrgs
  Pets = {p1, p2}
  AppIds = {a0, a1}
  Handlers = {h1, h2}
  Role <- MCRole
  OrgUser <- MCOrgUser
  PetOrg <- MCPetOrg
  NoOrg = NoOrg
  NoApp = NoApp
  SeedApps <- MCSeedApps
SYMMETRY Symmetry
INVARIANT PetFollowsApplication
PROPERTY ImplementsLifecycle
