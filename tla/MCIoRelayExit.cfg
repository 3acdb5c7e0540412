SPECIFICATION Spec
CONSTANTS
  MaxInputs = 2
  ExitPhrases <- NoPhrase
INVARIANT ExitKept
