SPECIFICATION Spec
CONSTANTS
    AutoCaps = {"OFF", "WORDS"}
    RecapModes = {"NONE", "FIRST_WORD_UPPER", "ALL_UPPER"}
    KeyCodes <- RecapCodes
INVARIANTS
    PagesCoherent
    LockDisplayHonest
