\* Two handles, so that one is reused while the other is polled; three requests:
\* two sockets and a message, before, between and after two runs of the thread.
SPECIFICATION FairSpec
CONSTANTS
  Handle = {h1, h2}
  NoHandle = h0
  MaxPosts = 3
  MaxInbox = 1
  MaxMessages = 1
INVARIANTS
  TypeOK
  RegistryMatchesKernel
  StoppedIsClean
PROPERTIES
  HandledInOrder
  
  
  
