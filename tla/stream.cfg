SPECIFICATION FairSpec
CONSTANTS
  Byte = 8
  LenBuffLen = 8
  Names = {"rpc", "chat", "gone"}
  Known = {"rpc", "chat"}
  RpcNames = {"rpc"}
  Spelling <- TwoNames
  Messages <- RpcMessages
  Records <- ShortRecords
  MaxMessages = 2
INVARIANT ReceivedIsSent
PROPERTY AllReceived
CHECK_DEADLOCK FALSE
