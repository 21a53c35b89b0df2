SPECIFICATION Spec
CONSTANTS
  MaxHistory = 1
  MaxHeld = 5
  MaxText = 4
  MaxSent = 1
  MaxPastes = 2
  Letters = {"/", "y"}
INVARIANTS
  PromptInv
PROPERTIES
  PastesStayAttached
  AnswersGoToTheQuestionShown
