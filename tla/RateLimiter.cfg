\* Goroutines that may wait for the lock for longer than a window, and as many requests
\* to a bucket as it takes for the worst burst to be as large as its bound.
SPECIFICATION Spec
CONSTANTS
  Clients = {c1}
  Handlers = {h1, h2, h3}
  Reqs = 3
  Window = 1
  MaxAge = 2
INVARIANTS TypeOK BurstBounded
PROPERTIES WindowsDoNotOverlap RefusalsAreDeserved ClientIsServed
