SPECIFICATION ServersSpec
CONSTANTS
    NumPbob = 3
    MaxRelays = 1
    NumRelays <- MCNumRelays
    Enabled = {0, 1}
    GpsStarts = 2
    MaxFiles = 3
    GpsSessions <- MCGpsSessions
    Clients = {"c1", "c2"}
    MaxClients = 2
    Period = 2
    MaxSpectra = 2
    SpecSessions <- MCSpecSessions
    Askers = {"c1"}
    Channels = {"aquila", "system", "position", "heater", "unknown"}
    MaxStatuses = 2
    TelSessions <- MCTelSessions
    MaxConnections = 2
    Recorders = 2
    RemoteSessions <- MCRemoteSessions
INVARIANTS ServersTypeOK NoSpuriousFlip RecordMatchesRelay ClosedMeansOff AnswersAreWhole
           HandlesLive
PROPERTIES ImplementsPower ServersGoOn
