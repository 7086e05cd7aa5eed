\* Every kind of answer and event, torn at every place.
SPECIFICATION Spec
CONSTANTS
  Chars <- AllChars
  Names <- Words
  Numbers <- Digits
  Streams <- AllStreams
  IntAddresses <- Addresses
  IntTexts <- DigitTexts
  Handlers <- MCHandlers
  OutputsIn <- MCOutputsIn
INVARIANTS
  TypeOK
  BytesConserved
  OutputIsWhatGdbWrote
  NothingOverlooked
  ParserStopsOnlyThere
  NotificationsSayWhatGdbSaid
  ChecksFailOnlyOnMissingData
PROPERTY ParseEnds
\* gdb's stream ends, and the program may have stopped.
CHECK_DEADLOCK FALSE
