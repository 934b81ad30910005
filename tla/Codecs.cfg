SPECIFICATION Spec
CONSTANTS
    LineLen = 8
    KeyLen = 7
    MaxBytes = 13
    Strides = {0, 1, 37, 255}
    DeepStrides = {37}
    Data <- MCData
    KeyData <- MCKeyData
    DeepKeys <- MCDeepKeys
    MaxChanges = 1
    DeepChanges = 2
    Probes = {0, 1, 16, 63, 64, 65, 66}
    KeyProbes = {49, 65, 81, 97, 112, 113, 200}
    LastDigits = {1, 9, 31}
INVARIANTS Base64Exact KeyTextExact
