SPECIFICATION Spec
CONSTANTS
    a = a
    b = b
    m1 = m1
    m2 = m2
    Instances = {a, b}
    Unknown = Unknown
    MutationsOf <- TwoInstances
    NoEntry = NoEntry
    Files <- AllFiles
INVARIANTS
    TypeOK
    PrintedIsBasis
\* The program runs, or has stopped.
CHECK_DEADLOCK FALSE
