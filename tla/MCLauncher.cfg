SPECIFICATION Spec
CONSTANTS
    MAIN_ROW_COUNT = 2
    INT_ARRAY_MAX = 2
    MAX_RECENTS = 1
    None = None
    Recents = "recents"
    Collections = "collections"
    Entry <- CardEntries
    Info <- Card
    Systems <- Consoles
    Tools <- ToolsFolder
    Colls <- Two
    Saved = {"dead.m3u", "r2"}
    Garbage <- AnyInt
INVARIANTS
  Browses
PROPERTIES
  NothingStale
  ComesBack
