SPECIFICATION Spec
CONSTANTS
    MaxQueue = 3
    MaxInterval = 2
    MaxLines = 2
INVARIANTS
    QInv
    WakeUpPending
PROPERTIES
    AcceptedIsRun
    BurstsArePaced
