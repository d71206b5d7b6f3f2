SPECIFICATION Spec
CONSTANTS
  SnMod = 8
  U16Mod = 16
  WinSize = 2
  Parts = 2
  Amsdu = {1}
  MsduAge = 2
  RxSns = {7, 0, 1}
  Ssns = {7}
  MaxRef = 1
INVARIANTS DupCheckFindsCopies
