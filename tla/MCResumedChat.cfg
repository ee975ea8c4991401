CONSTANTS
  NL = NL
  CR = CR
  MaxLine = 2
  Bytes <- AllBytes
  EventSize <- Sizes
  StderrTexts <- Texts
  MaxStderr = 1
  MaxEvents = 2
  Cuts = {1, 3}
  Transcripts <- SomeTranscripts
  MaxLength = 4
SPECIFICATION Spec
INVARIANTS
  LinesAsWritten
  TranscriptInOrder
  HistoryWhole
  ErrorHasCause
  OneRejectionPerRound
\* The session ends with the stream.
CHECK_DEADLOCK FALSE
