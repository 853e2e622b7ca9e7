\* One socket, created and used.
SPECIFICATION Spec
CONSTANTS
  Handle = {h1}
  NoHandle = h0
  MaxPosts = 1
  MaxInbox = 1
  MaxMessages = 1
INVARIANT
  RecvNeverBlocks
