SPECIFICATION FairSpec
CONSTANTS
  Chats = {"c1", "none"}
  NoChat = "none"
  MaxRequests = 1
  Window = 1
  MaxTime = 1
  Updates = {"u1"}
  Deliveries = {"d1", "d2"}
  UpdateOf <- MCUpdateOf
  ChatOf <- MCChatOf
  Unread = {"d1"}
  Odd = {"u1"}
  Backends = {TRUE, FALSE}
CHECK_DEADLOCK FALSE
INVARIANTS OneReply PlatformInv LimiterExact
PROPERTIES ImplementsReplies AcceptedIsReplied ShutdownEnds
