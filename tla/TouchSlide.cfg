SPECIFICATION TouchSpec
CONSTANTS
    AutoCaps = {"OFF", "WORDS"}
    RecapModes = {"NONE"}
    KeyCodes = {}
    f1 = f1
    f2 = f2
    f3 = f3
    Fingers <- ThreeFingers
    NoKey = NoKey
    Keys = {"SHIFT", "LETTER", "SWITCH_ALPHA_SYMBOL"}
    LongPressKeys = {}
    RepeatKeys = {}
    Events = {"drag"}
SYMMETRY SymmetricFingers
INVARIANTS TouchTypeOK HeldModifierHasFinger NoMomentaryPageAtRest
PROPERTIES SlideReturns LockTurnsUnderShiftOnly
