SPECIFICATION DeskSpec
CONSTANTS
  demo = demo
  acme = acme
  fire = fire
  Events = {demo, acme, fire}
  MaxSends = 1
  h1 = h1
  h2 = h2
  Handlers = {h1, h2}
  Slugs = {demo, acme}
  admin = admin
  owner = owner
  Emails = {admin, owner}
  Incidents = {fire}
  Nobody = Nobody
  Environments = {{"overlap", "relay"}, {"incidents", "relay"}, {"script", "crash"}, {"overlap", "incidents", "database", "crash"}}
  Demo = demo
  Admin = admin
  MaxShifts = 1
  n1 = n1
  n2 = n2
  Notices = {n1, n2}
  k1 = k1
  Senders = {k1}
  Commands <- SomeCommands
  Jobs = {1, 2}
  None = None
  MAX_STALLED = 1
  Weather = {{"smtp", "consumer"}, {"process", "redis"}, {"database", "consumer"}}
  staff1 = staff1
  plant1 = plant1
  plant2 = plant2
  kiosk1 = kiosk1
  s1 = s1
  s2 = s2
  p1 = p1
  p2 = p2
  Staff = {staff1}
  Home <- StaffHome
  Factories = {plant1, plant2}
  Kiosks = {kiosk1}
  Site <- KioskSite
  Shifts = {s1, s2}
  Instants = {2, 3, 4}
  DayLength = 2
  Planners = {p1, p2}
  Absent = Absent
  HabitSets = {{}, {"moves"}, {"mixes"}, {"times", "moves"}}
  ListedRows = {1, 2, 3}
  FirstRows = {1, 2}
  Moments = {1, 2, 3, 4}
  Limits = {1, 2}
  Unset = Unset
  Bustles = {{"inserts"}, {"updates"}, {"ties"}}
  People = {1, 2}
  Entries = {1}
  Clock = {4, 5, 6, 7, 8}
  DAY = 4
  Zones <- SomeZones
INVARIANT DeskTypeOK
INVARIANT NothingHalfDone
INVARIANT SentIsSent
INVARIANT RosterAgrees
INVARIANT AnswersAgree
PROPERTY Announced
PROPERTY NoticesSettle
CHECK_DEADLOCK FALSE
