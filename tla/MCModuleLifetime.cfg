SPECIFICATION LifeSpec
CONSTANTS
    Modules = {m1, m2}
    Handles = {h1, h2, h3}
    Threads = {t1, t2}
    Lists = {l1}
    None = None
INVARIANTS LifeTypeOK CountsOwners CallsAreSafe CodeOutlivesConstants
PROPERTY FreedInTheEnd
CHECK_DEADLOCK FALSE
