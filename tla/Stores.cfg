SPECIFICATION MCSpec
CONSTANTS
  Controllers = {c1, c2}
  Hours = {1}
  HourOf <- MCHourOf
  Day = Day
  Turns = {t1}
  ConditionalWrites = TRUE
  NoJournal = NoJournal
  Clients = {d1, d2}
  Client = d1
  MaxVersions = 3
  MaxLoads = 1
  Nothing = Nothing
  Users = {u1, u2}
  Admins = {}
  Domain <- MCDomain
  Sources = {f1}
  Bodies = {b1, b2}
  Scopes = {"private", "all"}
  Jobs = {j1, j2}
  MaxPins = 3
  Agents = {a1}
  Topics = {1}
  TopicOf <- MCTopicOf
  MaxScans = 2
  MaxTexts = 2
  MaxPid = 4
  Keys = {"k1", "k2"}
  Connectors = {"a1", "a2", "a3"}
  Terminals = {"t1", "t2"}
  KeyOf <- MCKeyOf
  MaxLogins = 2
  MaxIds = 2
  MaxStarts = 3
  Sessions = {"s1", "s2"}
  NoSession = "none"
  TurnIds = {1, 2}
  MaxRecords = 3
  MaxRestarts = 1
  MaxComments = 1
  MaxRead = 2
  MaxFaults = 2
  MaxTicks = 2
  MaxRequests = 3
  Updaters = {o1}
  MaxUpdates = 2
SYMMETRY MCSymmetry
INVARIANTS
  TypesOK
  DraftsAreSound
  PinsAreSound
  NotificationsAreSound
  InstallationIsSound
PROPERTIES
  ReportsAreKept
CHECK_DEADLOCK FALSE
