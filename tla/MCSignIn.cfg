\* Two devices, two challenges, two requests at a time and three TOTP steps.
SPECIFICATION SignInSpec
SYMMETRY Interchangeable
CONSTANTS
    Devices = {d1, d2}
    Challenges = {c1, c2}
    Handlers = {q1, q2}
    MaxTime = 3
INVARIANTS
    AccountComplete
    FlagTells
    ServesOnce
CHECK_DEADLOCK FALSE
