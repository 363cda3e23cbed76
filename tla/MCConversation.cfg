CONSTANTS
  http = http
  main = main
  hello = hello
  NoWords = NoWords
  Torn = Torn
  Query = Query
  Server <- MCServer
  Button <- MCButton
  Words <- MCWords
  Polls = 2
  Slices = 2
  Events = 2
SPECIFICATION CancelSpec
INVARIANT OneOwner
INVARIANT WordsIntact
INVARIANT StopsPromptly
INVARIANT CancelledRecordingNotSent
INVARIANT StoppedTurnStaysSilent
PROPERTY OneTurnPerStart
