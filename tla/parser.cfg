SPECIFICATION FairParserSpec
CONSTANTS
    Files <- MCFiles
    Good <- MCGood
    Numbers <- MCNumbers
    Colons <- MCColons
    Memory = {"}", "{", "x"}
    DefaultBlock <- MCDefault
INVARIANTS
    ParserTypeOK
    NothingLost
    PastEndOnlyIfUnclosed
    SettingsFollowText
PROPERTY GoodFilesAccepted
CHECK_DEADLOCK FALSE
