\* What the reservation code says of an attempt it abandons, for an adapter without a durable boundary.
CONSTANTS
  m1 = m1  m2 = m2
  comment = comment  deploy = deploy  branch = branch  ci = ci  local = local
  k1 = k1  p1 = p1  p2 = p2
  Mission = {m1, m2}
  Call = {c1, c2}
  Adapter = {branch}
  Key = {k1}
  Contents = {p1, p2}
  Request <- BranchRequests
  DurableBoundary = {}
  GlobalScope = {}
  Preparing = {}
  ReadOnly = {}
  CiQuery = {}
  Internal = {}
  NoCall = NoCall
  NoScope = NoScope
SPECIFICATION Spec
INVARIANTS AbandonedNeverApplied
