CONSTANTS
  Workers = {w1, w2}
  bufferlen = 2
  MaxFd = 5
SPECIFICATION FairSpec
INVARIANTS OneOwner EnoughChildren
PROPERTIES ImplementsQueue 
