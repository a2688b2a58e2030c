\* A dispatch that is interrupted after another phase of its mission.
CONSTANTS
  m1 = m1
  deploy = deploy  ci = ci  local = local
  k1 = k1  k2 = k2  p1 = p1
  Mission = {m1}
  Adapter = {deploy, ci, local}
  Key = {k1, k2}
  Contents = {p1}
  DurableBoundary = {deploy}
  GlobalScope = {deploy}
  Preparing = {deploy}
  ReadOnly = {ci}
  CiQuery = {ci}
  Internal = {local}
  NoCall = NoCall
  NoScope = NoScope
  Call = {c1, c2}
  Request <- DeployRequests
  Delivery = {d1}
  TestRun = {}
SPECIFICATION FairCallbackSpec
PROPERTIES InterruptedDispatchIsRecovered
