SPECIFICATION Spec
CONSTANTS
    t1 = t1
    t2 = t2
    t3 = t3
    None = None
    Timers = {t1, t2, t3}
    TickMod = 8
    Times = {0, 1, 2}
    Preset <- MCPreset
    Managed = {t1}
INVARIANTS
    ListedAreActivated
PROPERTY
    ImplementsCountdown
