SPECIFICATION Spec
CONSTANTS
    bid = bid
    ask = ask
    Lost = Lost
    Level <- MCLevel
    Qty = {0, 1, 2}
    MaxId = 6
    Book <- MCBook
    MaxPending = 2
    MaxWire = 2
    Market = {"Spot", "LinearPerps", "InversePerps"}
INVARIANTS
    TypeOK
    BookFaithful
    PendingIsOrdered
    MirrorIsCurrent
PROPERTIES
    ShownNeverRewinds
    ImplementsBookMirror
CHECK_DEADLOCK FALSE
