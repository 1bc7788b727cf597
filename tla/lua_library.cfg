SPECIFICATION LibrarySpec
CONSTANTS
    BufferSize = 3
    Limit = 3
    MaxCaptures = 3
    Calls <- AllCalls
    Orders <- AllOrders
    None = none
    Item <- ItemTable
INVARIANTS
    StringsMean
    StackFits
    SortSound
