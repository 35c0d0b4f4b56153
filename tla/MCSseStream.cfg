\* A channel of two, a socket of one, and more events than both can hold.
SPECIFICATION FairSpec
CONSTANTS
  request = request
  pipeline = pipeline
  Emitters <- MCEmitters
  Timed <- MCTimed
  MaxEvents = 3
  BufferSize = 2
  WireSize = 1
  LongEvents <- MCLongEvents
  Unencodable <- MCUnencodable
CHECK_DEADLOCK FALSE
INVARIANTS
  NothingLostWhileConnected
  OneAnswerLast
  ClientDecodesAnswer
PROPERTIES
  SendersReleased
  ClientReturns
