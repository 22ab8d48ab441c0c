SPECIFICATION SpecAll
CONSTANTS
  Commands <- Completed
  MaxInput = 3
  MaxHistory = 2
  Lines <- TypedLines
  Found <- DiskPages
  Primitives <- SomePrimitives
  ParseOf <- TextParsed
  PageOf <- PageWritten
  LineEnd <- NewlineLexeme
  MaxMulti = 2
  MaxProcedures = 2
  MaxBody = 5
  MaxBlock = 3
  MaxData = 7
  Lengths = 4
  None = None
INVARIANTS LineIsSound OpenWantsMore TakenIsRun ReadsBack
CHECK_DEADLOCK FALSE
