SPECIFICATION FairSpec
CONSTANTS
    Clients = {c1, c2}
    Pids = {p1, p2}
    LastPath = 1
    None = None
INVARIANTS
    TypeOK
    AnswerAfterExit
    OutputOwn
    NoForeignKill
PROPERTIES
    TimedOutAnswered
    ExitAnswered
    ZombiesReaped
CHECK_DEADLOCK FALSE
