SPECIFICATION TransportFairSpec
CONSTANTS
  LengthBytes = 2
  MaxPayloadLength = 2
  CompactAt = 2
  Sends = {s1}
  MaxQueuedFrames = 2
  MaxQueuedBytes = 3
  Routes = {"direct", "saprouter", "socks5"}
  Replies <- MCReplies
  Frames <- MCFrames
  MinReply = 8
  MaxReply = 9
  MaxBufferedBytes = 14
INVARIANTS TransportInv BytesAccounted
PROPERTIES ImplementsFrameChannel CallsSettle
CHECK_DEADLOCK FALSE
