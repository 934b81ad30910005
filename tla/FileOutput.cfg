SPECIFICATION FairSpec
CONSTANTS
    Procs = {a, b}
    MayOverwrite = {b}
    KeyWriters = {b}
    Temps = {t1, t2}
    Dst = Dst
    NoFile = NoFile
    Other = Other
    Units = 2
    MaxTries = 2
    LinkMayFail = TRUE
INVARIANTS TypeOK NeverPartial PrivateTemps NoLeftovers
PROPERTY Returns
