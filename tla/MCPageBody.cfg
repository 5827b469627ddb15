CONSTANTS
    UrlSize = 3
    TextSize = 9
    LineSize = 9
    WordSize = 4
    NOS_WRAP_COLS = 6
    NOS_MAX_LINKS = 1
    MaxChunk = 3
    ConfigFiles <- McConfigFiles
    NoConfig = NoConfig
    DefaultConfig <- McDefaults
    DefaultLines = 3
    BufferSizes = {5, 12, 15}
    Word = 16
    Bodies <- McBodies
SPECIFICATION Spec
CHECK_DEADLOCK FALSE
INVARIANTS BodyTypeOK PageMatchesBody ScreenHasAllWords RowsFit PausesEveryPage
INVARIANTS StopsOnlyForLongLines BufferKeepsBody CutsDoNotMatter
