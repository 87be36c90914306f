SPECIFICATION Spec
CONSTANTS
  adopter = adopter
  p1 = p1
  Users = {adopter, keeper}
  Posts = {p1, p2}
  SeedPosts <- MCSeedPosts
  SeedComments <- MCSeedComments
  MaxComment = 3
  MaxLikes = 1
  MaxFavorite = 3
  Handlers = {h1, h2}
  NoRow = NoRow
SYMMETRY Symmetry
INVARIANTS TypeOK CountersAddUp DeletedOnce
PROPERTIES OnlyAuthorsDelete RemoveSparesNew
