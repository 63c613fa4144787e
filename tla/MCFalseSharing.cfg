CONSTANTS
    LENGTH = 4
SPECIFICATION Spec
INVARIANTS
    ApartIsExact
    SharedKeepsSome
    RunsDoNotOverlap
PROPERTIES
    Terminates
