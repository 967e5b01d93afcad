SPECIFICATION LockSpec
CONSTANTS
    u1 = u1
    u2 = u2
    u3 = u3
    l1 = l1
    l2 = l2
    Users = {u1, u2, u3}
    Loop <- MCLoop
    Flavours = {"thread", "task", "context"}
    None = None
INVARIANTS Exclusive
PROPERTIES NotStolen FreedWhileAlive
CHECK_DEADLOCK FALSE
