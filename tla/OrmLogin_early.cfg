\* The same slot, except that a player may leave while his INSERT is under way.
SPECIFICATION LoginSpec
CONSTANTS
    o1 = o1
    o2 = o2
    o3 = o3
    o4 = o4
    userId = userId
    username = username
    kills = kills
    alice = alice
    bob = bob
    None = None
    Orm = {o1, o2, o3}
    Column = {userId, username, kills}
    Numeric = {userId, kills}
    AutoColumn = userId
    NameColumn = username
    KillsColumn = kills
    Unique = {userId, username}
    Text = {alice, bob}
    Callback <- LoginCallback
    MaxNumber = 2
    MaxQueries = 1
    MaxSessions = 3
    LeaveEarly = TRUE
PROPERTIES
    RowsKeepTheirUser
CHECK_DEADLOCK FALSE
