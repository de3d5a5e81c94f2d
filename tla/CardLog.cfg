SPECIFICATION Spec
CONSTANTS
  MaxEdges = 3
  MaxRequests = 2
INVARIANTS
  RequestCovered
  NoPhantomLine
PROPERTY
  RequestServed
