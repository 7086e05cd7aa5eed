\* One answer with a list of results, torn anywhere.
SPECIFICATION Spec
CONSTANTS
  Chars <- AllChars
  Names <- Words
  Numbers <- Digits
  Streams <- StackStreams
  IntAddresses <- Addresses
  IntTexts <- DigitTexts
  Handlers <- MCHandlers
  OutputsIn <- MCOutputsIn
INVARIANT TornOutputIsKept
CHECK_DEADLOCK FALSE
