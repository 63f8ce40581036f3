SPECIFICATION Spec
CONSTANTS
  Sizes <- MCSizes
  Streams <- MCStreams
  Kinds = {"realtime", "default"}
  TsStep = 3
  SeqMod = 64
  TsMod = 64
  RingSize = 8
  ProcessedSize = 4
  Near = 8
  Span = 8
  ClockRate = 10
  MaxLatency = 7
  SinglePacket = FALSE
  Reorder = 3
  MaxAgain = 1
INVARIANTS
  TypeOK
  BufferConsistent
  WholeFrames
PROPERTIES
  Refines
CHECK_DEADLOCK FALSE
