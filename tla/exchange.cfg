SPECIFICATION ExchangeSpec
CHECK_DEADLOCK FALSE
CONSTANTS
    Blocks <- MCBlocks
    Default = "default"
    Servers <- MCServers
    Children <- MCChildren
    Name <- MCName
    Home <- MCHome
    HomePage <- MCHomePage
    Conf <- MCConf
    Listen = 80
    Sessions <- MCSessions
    Disk0 <- MCDisk0
    Locked <- MCLocked
    Unreadable <- MCUnreadable
    Directories <- MCDirectories
    Pages = {"e4"}
    CgiStatus = {0, 301, 500}
    CgiTypes = {"", "text/x"}
INVARIANTS
    ExchangeTypeOK
    AnswerIsOwn
    HeadersFit
    CgiSeesRequest
PROPERTIES
    StoresOwnBody
    ConfigObeyed
    StatusTellsEffect
