CONSTANTS
    NoObject = NoObject
    Objects = {o1, o2}
    Keys <- MCKeys
    LifetimeMod = 8
    MaxBorrowed = 1
    MaxDestroyed = 1
    Size = 2
    CounterMod = 8
    MaxAllocs = 4
    MaxOpen = 2

SYMMETRY AnyObject
SPECIFICATION Spec

INVARIANTS
    TypeOK
    NoFault
    ResolvesExactlyOpen
    LifetimeIsReferences

PROPERTIES
    DestroyedAtLastRelease
    OnlyNameGoesAtLastRelease
    ImplementsRegistry

\* The owner stops at CloseAll, and the bound on allocations ends the rest.
CHECK_DEADLOCK FALSE
