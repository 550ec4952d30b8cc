\* Every flow of a few steps, and every combine task, predicate, call and answer
\* of a few parts.
CONSTANTS
  NoName = NoName
  Blank = NoName
  Unset = Unset
  MaxAttributes = 2
  MaxSteps = 3
  MaxPlain = 3
  MaxEvents = 7
  MaxDepth = 3
  MaxNodes = 4
  MaxIn = 2
SPECIFICATION Spec
INVARIANTS RunsAsDeclared NoLooseEnds RefusesInvalid RolesAreRead
  CombineSeesBoth AcceptsWhatServerTakes RequestsMeanWhatIsSaid AnswersReadAsGiven
CHECK_DEADLOCK FALSE
