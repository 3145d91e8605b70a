CONSTANTS
  Reader <- MCReader
  Candidates <- MCCandidates
  Steps <- MCSteps
  Unreadable = Unreadable
  MaxStall = 5
  MaxOwed = 1
  MaxAge = 20
SPECIFICATION FairSpec
INVARIANTS SessionTypeOK ProtocolCloseIsFounded
PROPERTIES TimeoutIsEarned ReadersCatchUp MuteClientIsDropped ClosingEnds
