SPECIFICATION RoutingSpec
CHECK_DEADLOCK FALSE
CONSTANTS
    Blocks <- MCBlocks
    Default = "default"
    Servers <- MCServers
    Children <- MCChildren
    Name <- MCName
    Parsed <- MCParsed
    Home <- MCHome
    HomePage <- MCHomePage
    Requests <- MCRequests
    Disks <- MCDisks
INVARIANTS
    RoutingTypeOK
    NearestSettingWins
    IndexSettles
    ServerListens
    LocationFitsBest
    ContentLocationLeadsBack
