SPECIFICATION Spec
CONSTANTS
  Byte = 8
  LenBuffLen = 8
  Names = {"rpc"}
  Known = {"rpc"}
  RpcNames = {"rpc"}
  Spelling <- OneName
  Messages <- PositiveMessages
  Records = {}
  MaxMessages = 1
INVARIANT PositiveTypeKept
CHECK_DEADLOCK FALSE
