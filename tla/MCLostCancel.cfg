CONSTANTS
  http = http
  main = main
  hello = hello
  NoWords = NoWords
  Torn = Torn
  Query = Query
  Server <- MCServer
  Button <- MCButton
  Words <- MCWords
  Polls = 1
  Slices = 2
  Events = 1
SPECIFICATION CancelSpec
INVARIANT CancelledTurnNotSent
