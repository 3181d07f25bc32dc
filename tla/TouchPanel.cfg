SPECIFICATION TouchSpec
CONSTANTS
    AutoCaps = {"OFF"}
    RecapModes = {"NONE"}
    KeyCodes = {}
    f1 = f1
    f2 = f2
    f3 = f3
    Fingers <- TwoFingers
    NoKey = NoKey
    Keys = {"LETTER", "SPACE", "DELETE"}
    LongPressKeys = {"LETTER", "SPACE"}
    RepeatKeys = {"DELETE"}
    Events = {"drag", "outside"}
SYMMETRY SymmetricFingers
INVARIANTS TypedOnce
PROPERTIES OlderFingersTypedFirst
