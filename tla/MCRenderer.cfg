SPECIFICATION Spec
CONSTANTS
  Devices <- MCDevices
  Cores <- MCCores
  PagePixels = 2764800
INVARIANTS
  PictureFits
  PictureIsCurrent
  CleanPages
PROPERTIES
  DrawsAsAsked
