SPECIFICATION Spec
CONSTANTS
    MaxKey = 12
    Bucket = {0, 1, 2}
    Hash <- HashOfKey
    RootItems <- Roots
    ListItems <- Lists
    MaxItems = 2
    Sloppy <- SloppyNames
    ArmsLevel = {0, 1}
    Garbage <- Junk
INVARIANTS RegistrySound ChainsEnd EveryItemVisited
PROPERTIES DefinitionsKept
CHECK_DEADLOCK FALSE
