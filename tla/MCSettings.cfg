SPECIFICATION Spec
CONSTANTS
    Devices = {"rg35xx", "rg35xxplus"}
    VOLUME_MAX = 2
    BRIGHTNESS_MAX = 1
    MaxEvents = 2
    MaxActs = 2
    Crowded = 2
INVARIANTS
  FileIsSound
  MixerFollows
  NothingMissed
CHECK_DEADLOCK FALSE
