SPECIFICATION Spec
CONSTANTS
    Procs = {a, b}
    MayOverwrite = {b}
    KeyWriters = {b}
    Temps = {t1, t2}
    Dst = Dst
    NoFile = NoFile
    Other = Other
    Units = 2
    MaxTries = 2
    LinkMayFail = TRUE
PROPERTY NoClobber
