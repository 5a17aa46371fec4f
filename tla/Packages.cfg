\* Two packages of 2 MB; the capacity is 87380 elements, and a DPU's
\* results begin 2 MB behind its package.
CONSTANTS
  Packages = {0, 1}
  MaxPushBuf <- MCMaxPushBuf
  CooResult = 2097152
  Lengths <- MCLengths
  Junk = {0, 255}
SPECIFICATION PackageSpec
INVARIANT SentWhole
