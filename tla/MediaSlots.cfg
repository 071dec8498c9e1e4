SPECIFICATION MediaSpec
CONSTANTS
    Assets = {a, b}
    Orders = {o1}
    NoAsset = NoAsset
INVARIANT SlotShown
CHECK_DEADLOCK FALSE
