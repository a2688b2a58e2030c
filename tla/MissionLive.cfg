\* Every kind of adapter in one mission: persistence, and progress under fairness.
CONSTANTS
  m1 = m1  m2 = m2
  comment = comment  deploy = deploy  branch = branch  ci = ci  local = local
  k1 = k1  p1 = p1  p2 = p2
  Mission = {m1}
  Call = {c1, c2}
  Adapter = {deploy, comment, branch, ci, local}
  Key = {k1}
  Contents = {p1, p2}
  Request <- LiveRequests
  DurableBoundary = {deploy, comment}
  GlobalScope = {deploy, comment}
  Preparing = {deploy}
  ReadOnly = {ci}
  CiQuery = {ci}
  Internal = {local}
  NoCall = NoCall
  NoScope = NoScope
SPECIFICATION FairSpec
INVARIANTS
  ReservationFencesVersion
  OnePhasePerVersion
  CompletedPhaseIsProven
PROPERTIES
  EveryCallEnds
  MissionIsNeverWedged
