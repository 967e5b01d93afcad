SPECIFICATION RegistrySpec
CONSTANTS
  None = None
  base = base
  sub1 = sub1
  sub2 = sub2
  m1 = m1
  m2 = m2
  Classes = {base, sub1, sub2}
  Funcs = {m1, m2}
  Parent <- MCParent
  Programs <- MCPrograms
  Queues = {q1}
  WorkerNames = {w1}
  Threads = {t1, t2}
  Configs = {5}
  Default = 150
  MaxCalls = 3
INVARIANTS SettingsAreOwn QueuesAgree
PROPERTIES CallsReturn
CHECK_DEADLOCK FALSE
