\* A wheel of three slots, two timers, delays up to a whole turn, four entries.
SPECIFICATION Spec
CONSTANTS
    WheelSize = 3
    MaxDelay = 3
    MaxTimers = 2
    Pointers = {p1, p2, p3, p4}
    Off = Off
SYMMETRY Addresses
INVARIANTS
    WheelTypeOK
PROPERTIES
    ImplementsTimers
    NotEarly
