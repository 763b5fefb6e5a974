SPECIFICATION Spec
CONSTANTS
  Size <- MCSize
  MaxAttempts = 3
INVARIANTS
  CacheInv
  ImageIsPublished
  FailsOnlyIfDisturbed
PROPERTY
  GoodImageIsKept
