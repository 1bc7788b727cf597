SPECIFICATION Spec
CONSTANTS
    TimerId = {t1, t2}
    None = none
    MaxInbox = 1
    MaxBackoff = 1
    MaxWriters = 1
PROPERTY HealthyConnectionKept
