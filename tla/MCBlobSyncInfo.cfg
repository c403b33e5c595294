SPECIFICATION FairSpec
CONSTANTS
  self = self
  child = child
  extra = extra
  solver = solver
  comm = comm
  Layer = {1, 2}
  Part = {10, 11, 20}
  LayerOf <- MCLayerOf
  RemoteId = {self, child, extra}
  Self = self
  Thread = {solver, comm}
  CallsBy <- MCCallsBy
  Registered = {self, child}
  MayLeave = {extra}
  MaxVersion <- MCMaxVersion
INVARIANTS KeysAgree NoAbort
PROPERTIES NetReportComplete ReportComplete NoLostReport
CHECK_DEADLOCK FALSE
