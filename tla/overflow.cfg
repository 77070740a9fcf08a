SPECIFICATION HoldemSpec
CONSTANTS
    Gamblers = {c1, c2}
    Androids = {}
    Chips = 3
    BaseBets <- MCBaseBets
    BaseEvery = 1
    Deals = 1
    Survivors = 1
    IntMax = 8
INVARIANT NotEnoughIsRefused
CHECK_DEADLOCK FALSE
