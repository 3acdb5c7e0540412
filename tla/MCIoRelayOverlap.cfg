SPECIFICATION Spec
CONSTANTS
  MaxInputs = 1
  ExitPhrases <- NoPhrase
INVARIANT MutualExclusion
