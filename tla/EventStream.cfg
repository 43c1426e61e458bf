CONSTANTS
  Streams <- MCStreams
  Payloads <- MCPayloads
  Names <- MCNames
  MaxPacket = 9
  MAX_EVENT_BYTES = 4
SPECIFICATION Spec
INVARIANTS
  EventsAsSent
  ObservedAsSaid
CHECK_DEADLOCK FALSE
