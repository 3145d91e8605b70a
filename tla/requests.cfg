CONSTANTS
  Letter <- MCLetter
  Profanity <- MCProfanity
  MaxRooms = 2
  Name <- MCName
  Digit <- MCDigit
  MaxPlayerID = 70
  Texts <- MCTexts
SPECIFICATION FairSpec
INVARIANTS RequestTypeOK TextsAreRead InvitesAreUnderstood SearchNarrows
PROPERTIES OpenedCodesAreFit DrawEnds
