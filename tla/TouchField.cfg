SPECIFICATION TouchSpec
CONSTANTS
    AutoCaps = {"OFF"}
    RecapModes = {"NONE"}
    KeyCodes = {}
    f1 = f1
    f2 = f2
    f3 = f3
    Fingers <- TwoFingers
    NoKey = NoKey
    Keys = {"SHIFT", "LETTER", "SPACE", "DELETE"}
    LongPressKeys = {"SHIFT", "SPACE"}
    RepeatKeys = {"DELETE"}
    Events = {"drag", "cancel", "newField", "restart"}
SYMMETRY SymmetricFingers
INVARIANTS QueueAndTimersAreLive NoKeyAfterDeletions
PROPERTIES StaleTouchTypesNoKey LetterPressedBeforeTyped
