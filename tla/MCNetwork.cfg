CONSTANTS
  home = home
  typo = typo
  NoCred = NoCred
  Cred <- MCCred
  FirstBackoff = 1
  MaxBackoff = 2
  ApAfterFailures = 2
  MaxFailures = 2
  MaxGuests = 1
  Saves = 1
  PowerCuts = 1
SPECIFICATION FairSpec
INVARIANT PhaseIsTrue
INVARIANT GuestsLeftAlone
PROPERTY KeepsTrying
PROPERTY SetupIsReachable
