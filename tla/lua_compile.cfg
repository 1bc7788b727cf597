CONSTANTS
    MaxIndexRK = 1
    FieldsPerFlush = 2
    MaxStack = 30
    MaxArgC = 1
    MaxVars = 8
    MaxUpvalues = 3
    MaxLevels = 20
    StackSize = 40
    Programs <- AllPrograms
    Compiler <- Compile
    MeaningOf <- Meaning
SPECIFICATION Spec
INVARIANTS CodeIsSound TopAsAsserted RunsAsWritten
