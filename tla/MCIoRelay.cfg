SPECIFICATION FairSpec
CONSTANTS
  MaxInputs = 2
  ExitPhrases <- NoPhrase
INVARIANTS
  OutputKept
  ExitNotDropped
  HandedOnce
  SpokenAnnounced
PROPERTIES
  ExchangeReturns
  SpokenHanded
