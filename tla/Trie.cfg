SPECIFICATION Spec
CONSTANTS
  Words <- WordSet
  Contexts <- ContextSet
  MaxNodes = 3
INVARIANT TrieTypeOK
INVARIANT WordsRoundTrip
INVARIANT EntriesBelongToWords
INVARIANT CompactionKeepsWords
PROPERTY WordsAreIndependent
PROPERTY PairsComeFromTyping
