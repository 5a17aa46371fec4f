\* Words of two bits, windows of two words.  Blocks of five words become blocks of
\* eight.  A region of 44 words has five of them behind a map of three words, that is
\* of two windows, of which the second reaches into the first block; 54 words have six
\* blocks, more than a bitmap can have.
CONSTANTS
  WordBits = 2
  CacheWords = 2
  InitWords = 2
  BitmapMax = 5
  MinBlock = 5
  HeadWords = 1
  Regions = {44, 54}
  FoundHeads <- FoundSome
  LastWord = 52
  MaxAvail = 6
  Patterns <- Both
SPECIFICATION Spec
INVARIANTS IndInv MarksAreHolders HeadRight BlockDataKept
