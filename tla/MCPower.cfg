SPECIFICATION FairSpec
CONSTANTS
    Nodes = {n}
    Handlers = {h1, h2}
    Pollers = {p}
    NoMut = NoMut
    Idle = Idle
    Disturbances = 1
INVARIANTS
    TypeOK
PROPERTIES
    PowerConverges
\* The ticker may be stopped for good: the module is then at rest.
CHECK_DEADLOCK FALSE
