SPECIFICATION Spec
CONSTANTS
    Keys = {k1, k2}
    MinCost = 2
    MaxCost = 3
    MaxCostIn = 3
    Costs = {1, 3, 4}
    MaxIds = 2
    MaxLines = 6
    MaxEdits = 1
SYMMETRY Symmetry
INVARIANTS ParsesTheFormat FirstMatchWins ScryptAlone ScryptWork RecipientsDecrypt
