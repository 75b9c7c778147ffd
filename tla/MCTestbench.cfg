SPECIFICATION Spec
CONSTANTS
  W = 1
  Addr = {a1, a2}
  ErrAddr = {a2}
  a1 = a1
  a2 = a2
  SegOf <- Segments
  OneSet = {a1, a2}
  Segment = {a1}
  Tids = {0, 1}
  Kinds = {"random", "unique_set", "read", "write", "from_trace"}
  Ops = {"LOAD", "STORE", "LR", "SC", "AMO_ADD", "CMO_FLUSH_INVAL_ALL"}
  Data = {1}
  Starts = {0}
  InitVal = {0}
  MaxTrans <- Lengths
  Gap = 1
  Bundle = 1
  None = None
  Nullptr = Nullptr
  UcId = UcId
  AmoFifo = 2
  ErrorLimit = 1
  LrscInit = {None, a1}
  RespFifo = 1
  ReqFifo = 1
  ExclInit = {a1}
  DutDepth = 2
  Bugs = {"data", "error", "tid"}
INVARIANTS NoFalseAlarm NoSilentBug IdsAccounted BeatsPaired NoHandshakeLost
PROPERTY Terminates
CHECK_DEADLOCK FALSE
