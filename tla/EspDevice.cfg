SPECIFICATION FairSpec
CONSTANTS
  MaxRetry = 10
  MaxSockets = 10
INVARIANTS TypeOK GiveUpJustified NeverStranded
PROPERTIES GiveUpIsFinal GiveUpReboots KeepsPosting
