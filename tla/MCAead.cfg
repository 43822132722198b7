CONSTANTS
  Byte <- MCByte
  Zero = 0
  Xor <- MCXor
  KeyStream <- MCKeyStream
  Keys = {"k"}
  BadKey = "bad key"
  Nonces = {"n12", "n"}
  BadNonce = "bad nonce"
  Nonces96 = {"n12"}
  Ghash <- MCGhash
  HChaCha <- MCHChaCha
  First <- MCFirst
  Second <- MCSecond
  BlockLen <- MCBlockLen
  CounterSize <- MCCounterSize
  MacLen = 2
  MinTag = 1
  MaxTag = 2
  Messages <- MCMessages
  Associated <- MCAssociated
  MaxCalls = 2
SPECIFICATION Spec
CHECK_DEADLOCK FALSE
INVARIANTS
  BlocksOnce
  FailsEarly
  Authentic
  DecryptInverts
