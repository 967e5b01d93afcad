SPECIFICATION Spec
CONSTANTS
    Users = {u1, u2, u3, u4}
    Conns = {c1, c2, c3, c4, c5, c6, c7}
    Kinds = {"threads", "threadsBlocking", "async", "asyncBlocking", "optimized"}
    MaxConnections = 2
    MaxTrouble = 1
    None = None
INVARIANTS OneHolder LeaksNeedFailures PoolIsBounded WaitersAreServed UsersAreConnected
CHECK_DEADLOCK FALSE
SYMMETRY Symmetry
