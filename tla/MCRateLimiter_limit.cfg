SPECIFICATION LiveSpec
CONSTANTS
    w1 = w1
    w2 = w2
    w3 = w3
    Waiters = {w1, w2, w3}
    rate = 20
    Sizes = {3, 25}
INVARIANTS
    RateBound
    NoLostWakeup
PROPERTIES
    SomeoneIsServed
