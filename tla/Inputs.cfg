SPECIFICATION InputsSpec
CONSTANTS
  Letter <- MCLetter
  Denied <- MCDenied
  LowerCase <- MCLowerCase
  Capabilities <- MCCapabilities
  Spelling <- MCSpelling
  Forbidden <- MCForbidden
  MaxPath = 8
  Second = 2
  DefaultGrantTTL = 6
  DefaultPendingTTL = 4
  DefaultSessionTTL = 4
  Files <- MCFiles
  Tokens <- MCTokens
  Inputs <- AllInputs
  Listings <- MCListings
  Grantings <- Nothing
  MaxItems = 1
  SomePatterns <- MCPatterns
  SomePaths <- MCPaths
CHECK_DEADLOCK FALSE
INVARIANTS
    FilingInv
    PatternsInv
    CredentialsInv
