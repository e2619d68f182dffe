SPECIFICATION Messages
CONSTANTS
  Pieces <- MCPieces
  WideChars <- MCWideChars
  Separators = {10, 46}
  MaxPieces = 4
INVARIANTS Base64IsUndone TextsAgree DigestsSeeThePaddedMessage CipherIsUndone
CHECK_DEADLOCK FALSE
