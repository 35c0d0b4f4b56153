\* A progress event whose line the client's Scanner has no room for.
SPECIFICATION Spec
CONSTANTS
  request = request
  pipeline = pipeline
  Emitters <- MCEmitters
  Timed <- MCTimed
  MaxEvents = 1
  BufferSize = 2
  WireSize = 1
  LongEvents <- MCLongEvents
  Unencodable = {}
CHECK_DEADLOCK FALSE
INVARIANT
  DecodesEveryEvent
