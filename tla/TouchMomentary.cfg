SPECIFICATION TouchSpec
CONSTANTS
    AutoCaps = {"OFF"}
    RecapModes = {"NONE"}
    KeyCodes = {}
    f1 = f1
    f2 = f2
    f3 = f3
    Fingers <- TwoFingers
    NoKey = NoKey
    Keys = {"SHIFT", "LETTER", "SWITCH_ALPHA_SYMBOL"}
    LongPressKeys = {"LETTER"}
    RepeatKeys = {}
    Events = {"drag"}
SYMMETRY SymmetricFingers
INVARIANT NoMomentaryPageAtRest
