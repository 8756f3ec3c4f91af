\* One code of each behaviour, one with a long output and one that
\* does not mention the variables.
CONSTANTS
  Codes <- MCCodes
  MentionsData <- MCMentions
  Behaviour <- MCBehaviour
  LongOutput <- MCLongOutput
SPECIFICATION FairSolverSpec
INVARIANTS
  NoChildLeft OutcomeIsTrue
PROPERTIES
  BothEnd
\* The call ends, and so may the child.
CHECK_DEADLOCK FALSE
