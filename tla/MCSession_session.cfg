SPECIFICATION Spec
CONSTANTS
  None = None
  Plain = Plain
  json = json
  pickle = pickle
  Serializers = {json, pickle}
  Threads = {t1, t2}
  Default = default
  QueueName = queue
  Names = {default, queue}
  Asked <- MCAsked
  Values = {"object", "null"}
  MaxCalls = 3
  MaxCommands = 2
SYMMETRY ThreadSymmetry
INVARIANTS PoolOfItsKind ReadsBack NamesAgree
CHECK_DEADLOCK FALSE
