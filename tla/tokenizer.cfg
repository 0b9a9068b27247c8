SPECIFICATION Spec
CONSTANTS
  Tokens <- MCTokens
  Merges <- MCMerges
  Added <- MCAdded
  Hash <- MCHash
  LetterRanges <- MCLetters
  DigitRanges <- MCDigits
  Texts <- MCTexts
  Systems <- MCSystems
  Users <- MCUsers
  Limits = {2, 100}
  BufSizes = {3, 100}
INVARIANTS PiecesFollowRegex EncodesAsReference DecodesToText
