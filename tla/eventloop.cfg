SPECIFICATION Spec
CONSTANTS
    Socket = {s1, s2}
    ReadKey = {r1}
    WriteKey = {w1, w2}
    TimerId = {t1, t2}
    MaxDelay = 1
    None = none
INVARIANTS
    LoopInv
PROPERTIES
    OnlyTheCalledEntryGoes
    TimersKeepTheirPromise
    NoStarvation
    ExitEnds
