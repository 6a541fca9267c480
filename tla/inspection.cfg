SPECIFICATION Spec
CONSTANTS
  Shape <- MCShape
  Paths <- MCPaths
  SymbolicModes <- MCModes
  Encoded <- MCEncoded
  Plain <- MCPlain
  Home <- MCHome
  Dashes = {"--", "--now", "--tag=t"}
  Alphabet <- MCAlphabet
  Components <- MCComponents
  Pieces <- MCPieces
  Wrappers <- MCWrappers
  Lookalike <- MCLookalike
  Invisible = {"zero width space"}
  MaxTyped <- MCMaxTyped
  MaxPath = 5
  MaxEffort = 3
INVARIANTS
  LexersAgree
  StatementsKeepTokens
  SpellingsAgree
  HarmIsRefused
  HarmlessIsNotBlocked
  AllowsOneOperation
CHECK_DEADLOCK FALSE
