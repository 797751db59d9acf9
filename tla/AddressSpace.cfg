CONSTANTS
  Frame = {1, 2, 3, 4, 5, 6, 7, 8, 9}
  Arch = {"x86_64", "aarch64"}
  Top = {0, 1, 2}
  UserTop = 1
  HighTop = 2
  Page = {0, 1}
  SegmentPage = 0
  StackPage = 1
  Slot = {s1, s2}
SPECIFICATION Spec
INVARIANTS NoUseAfterFree Isolated NothingLost
CONSTRAINT Undamaged
VIEW InUse
