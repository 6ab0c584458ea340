SPECIFICATION Spec
CONSTANTS
    Threads = {t1, t2, t3}
    Cores = {c0, c1, c2}
    NoCore = NoCore
    Rounds = 2
    Main = Main
    First = First
    None = None
CHECK_DEADLOCK FALSE
INVARIANTS
    TypeOK PreemptedOnce KillFindsEveryThread OnlyTheLastRuns
PROPERTIES
    GuestCreatesNoThread ThreadReachesCore MainThreadRuns
