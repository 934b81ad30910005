SPECIFICATION Spec
CONSTANTS
    Procs = {a, b, c}
    MayOverwrite = {c}
    KeyWriters = {c}
    Temps = {t1, t2}
    Dst = Dst
    NoFile = NoFile
    Other = Other
    Units = 1
    MaxTries = 1
    LinkMayFail = FALSE
PROPERTIES NoClobber InstallsAtomically
SYMMETRY Symmetry
