CONSTANTS
  StreamByte = {"d", ":", " ", "x", "CR", "LF"}
  Streams <- MCStreams
  MaxEventBytes = 4
  MaxBlock = 2
  Texts <- MCTexts
  MaxBytes = 4
  MaxMarker = 2
  QueueBytes = 8
  MaxPiece = 3
  PlainStrings = {"a", "payload", "id", "name", "ssid", "pass", "go", "off", "i"}
  EscapedStrings = {"u"}
  Numbers = {}
  LooseStrings = {}
  LooseNumbers = {"0"}
  MaxDepth = 2
  Key = "payload"
  Documents <- MCDocuments
  LegalObjects <- MCLegal
  SampleScalars = {"a", "payload", "u"}
  SampleNames = {"a", "payload"}
  Requests <- MCRequests
  Token <- MCBodyTokens
  Body <- RequestText
  Interpret <- Handle
  Known = {"go", "off"}
  Available = {"go"}
  Argument = "a"
  MaxBody = 18
  MaxServed = 2
  Byte = {"{", "}", "[", "]", ",", ":", "q", "k", "0", "1", "-"}
  Capacities = {0, 3, 5, 30}
  Written <- MCWritten
  NestLimit = 2
  MaxLength = 12
SPECIFICATION Spec
INVARIANT SseWhole
INVARIANT SseDelivers
INVARIANT SpeechIntact
INVARIANT ScanIsExact
INVARIANT OnlyWhatWasSent
INVARIANT AnswersItsOwn
INVARIANT WriterWellFormed
CHECK_DEADLOCK FALSE
