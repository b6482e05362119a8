SPECIFICATION LifeSpec
CONSTANTS
    Modules = {m1}
    Handles = {h1}
    Threads = {t1}
    Lists = {l1}
    None = None
INVARIANT ListsUsable
CHECK_DEADLOCK FALSE
