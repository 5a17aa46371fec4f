\* The sizes of the code: words of 32 bits, windows of 32 words cleared by 16,
\* blocks of 64 bytes, a head of 24 bytes, and a region of 1984 bytes.
CONSTANTS
  WordBits = 32
  CacheWords = 32
  InitWords = 16
  BitmapMax = 524288
  MinBlock = 16
  HeadWords = 6
  Regions = {496}
  FoundHeads <- ZeroHead
  LastWord = 496
  MaxAvail = 30
  Patterns <- Both
SPECIFICATION Spec
INVARIANT StorageHoldsMap
