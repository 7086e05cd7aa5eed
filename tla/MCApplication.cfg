\* Start, a stop, a line of output, one scroll, and the window closed at any time.
SPECIFICATION Spec
CONSTANTS
  ThreadCount = 4
  CanPost <- MCCanPost
  Tasks <- MCTasks
  Greetings <- MCGreetings
  StopLines = {2}
  LineHeight = 5
  ScreenHeight = 4
  FadeTicks = 1
  MaxStops = 1
  MaxOutputs = 1
  MaxInputs = 1
INVARIANTS
  TypeOK
  NoDanglingUse
  SourceShowsLastText
  LinesAreTheText
  PictureCurrent
  PipesHeldByTheirEnds
PROPERTY ShutdownEnds
\* The program ends.
CHECK_DEADLOCK FALSE
