\* Three calls of two missions contend for one global scope: staging deployments,
\* which persist their reconciliation metadata first.
CONSTANTS
  m1 = m1  m2 = m2
  comment = comment  deploy = deploy  branch = branch  ci = ci  local = local
  k1 = k1  p1 = p1  p2 = p2
  Mission = {m1, m2}
  Call = {c1, c2, c3}
  Adapter = {deploy}
  Key = {k1}
  Contents = {p1, p2}
  Request <- ScopedRequests
  DurableBoundary = {deploy}
  GlobalScope = {deploy}
  Preparing = {deploy}
  ReadOnly = {}
  CiQuery = {}
  Internal = {}
  NoCall = NoCall
  NoScope = NoScope
SYMMETRY CallSymmetry
SPECIFICATION Spec
INVARIANTS
  MissionTypeOK
  AtMostOnceEffect
  TombstoneHasNoEffect
  ScopeBindsOneRequest
PROPERTIES
  EffectIsNeverForgotten
  ImplementsOnceOnlyEffect
