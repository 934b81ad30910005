SPECIFICATION Spec
CONSTANTS
    NSlots = 3
    Keys = {k1, k2}
    InitialCap = 1
    KeyfileMax = 3
    MaxIds = 2
    MaxLines = 3
    MaxItems = 2
    MaxWrites = 2
    MaxCalls = 3
SYMMETRY Symmetry
INVARIANTS StreamsComeBack ResultIsOwn MessageIsOwn NoDangling LosesNothing ParseIsAllOrNothing
