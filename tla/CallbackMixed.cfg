\* Staging results and CI results beside the calls of one mission.
CONSTANTS
  m1 = m1
  deploy = deploy  ci = ci  local = local
  k1 = k1  k2 = k2  p1 = p1
  Mission = {m1}
  Adapter = {deploy, ci, local}
  Key = {k1, k2}
  Contents = {p1}
  DurableBoundary = {deploy}
  GlobalScope = {deploy}
  Preparing = {deploy}
  ReadOnly = {ci}
  CiQuery = {ci}
  Internal = {local}
  NoCall = NoCall
  NoScope = NoScope
  Call = {c1, c2}
  Request <- MissionRequests
  Delivery = {d1, d2}
  TestRun = {r1}
SYMMETRY CallbackSymmetry
SPECIFICATION CallbackSpec
INVARIANTS
  VersionCountsHistory
  LedgerAgreesWithPhase
PROPERTIES
  OnlyTheLatestPhaseSettles
