SPECIFICATION Spec
CONSTANTS
    AutoCaps = {"OFF", "WORDS", "CHARACTERS"}
    RecapModes = {"NONE"}
    KeyCodes <- InstalledCodes
INVARIANTS
    ManualDisplayHonest
PROPERTIES
    CapsLockRemembered
    CapsLockOnlyByShiftKeys
    HeldShiftStays
