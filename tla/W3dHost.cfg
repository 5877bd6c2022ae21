SPECIFICATION FairSpec
CONSTANTS
  W = 4
  H = 4
  Sub = 4
  ZOne = 8
  ColorOne = 8
  Scale = 1
  Scene <- MCScene
  Image <- MCImage
  None = None
  Blank = Blank
INVARIANTS EdgesExact PictureRight QuadWhole FirmwareWhole
PROPERTIES Boots
CHECK_DEADLOCK FALSE
