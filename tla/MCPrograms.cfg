SPECIFICATION FairSpec
CONSTANTS
  Chars <- TwoChars
  Calls <- SomeCalls
  Message <- TheMessage
  Texts <- SomeTexts
  UsersMax = 2
  GroupsMax = 2
  NameSize = 3
  Parses = 2
  Radix = 2
  Files <- SomeFiles
  LengthRange = 16
  Edits = 2
  Width = 5
  Typed <- SomeNumbers
  Invalid = Invalid
  Sums = 1
INVARIANTS
  ReplaceInv
  UsersFollowText
  PrefixKept
  ShownRight
  DivInv
PROPERTIES
  LoopsEnd
CHECK_DEADLOCK FALSE
