CONSTANTS
  http = http
  main = main
  hello = hello
  NoWords = NoWords
  Torn = Torn
  Query = Query
  Server <- MCServer
  Button <- MCButton
  Words <- MCWords
  Polls = 2
  Slices = 1
  Events = 1
SPECIFICATION FairSpec
PROPERTY CancelEndsTurn
PROPERTY WaitIsBounded
