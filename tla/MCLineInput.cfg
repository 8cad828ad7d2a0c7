CONSTANTS
  Width = 2
  Height = 2
  Characters <- SmallCharacters
  Keymap <- SmallKeymap
  ShiftKeymap <- SmallShiftKeymap
  NoChar = "none"
  Requests <- Calls
  NoRequest = NoRequest
  Prompts <- SomePrompts
  Title <- TitleText
  YesNoText <- QuestionText
  ErrorText <- WrongAnswer
  MaxCodes = 2
  MaxDown = 2
  MaxMissed = 1
SPECIFICATION FairSpec
INVARIANTS
  LineOnScreen
  BlankBehind
  KeyStatesFollow
PROPERTIES
  ImplementsLineEditor
  EnterEnds
