SPECIFICATION ApplicationSpec
CONSTANTS
  a = a
  b = b
  t1 = t1
  t2 = t2
  s1 = s1
  n1 = n1
  n2 = n2
  x1 = x1
  q1 = q1
  Apply <- Twice
  Path <- ThreePaths
  PathOrder <- PathOrderIs
  GenOrder <- GenOrderIs
  BaseName <- BaseNameIs
  Offered <- OfferedFiles
  StaffContent <- NineOnly
  MaxEdits = 1
  MaxMishaps = 1
  Transport <- TwoTransports
  Table <- OneTable
  Name <- TwoNames
  TransportRow <- SomeTransports
  UserRow <- SomeUsers
  PeerRow <- SomePeers
  MaxOps = 3
  Request <- Twice
  Rows <- RowsAre
  NamesOf <- NamesAre
  Fold <- FoldIs
  UsersName = "users"
  Extension <- OneExtension
  Text <- Texts
  Stored <- StoredRows
  MaxWrites = 3
  Editor <- Twice
  RoutingTable <- OneTable
  Webhook <- OneWebhook
  User <- OneUser
  Context <- OneContext
  Queue <- OneQueue
  SipTransport <- OneTransport
  Form <- SomeForms
  MaxChanges = 3
  Typed <- AllLines
  MaxLines = 4
  Char <- TextChars
  MaxChars = 4
  Call <- Twice
  NoCall = NoCall
  Parties <- SameParties
  Safe <- SafeParties
  Requested <- SomeRequests
  Rules <- EnableOnly
  MaxTime = 1
  MaxAsks = 2
  MaxPolls = 1
  Uniqueid <- ThreeCalls
  Number <- TwoNumbers
  Norm <- NormOf
  Queues <- QueueNames
  Contact <- OneContact
  LastTime = 1
  HourOf <- LocalHour
  Device <- TwoDevices
  Job <- Twice
  Spelling <- SomeSpellings
  Mac <- MacOf
  Model <- Models
  SipUser <- OneUser
  Secret <- Secrets
  Server <- Servers
  HostName <- HostNames
  Fallback = "sip1"
  DigitMacs <- OnlyDigits
  MaxUpdates = 2
  Vendor <- Vendors
  QueueKey <- TwoQueues
  RuleKey = {"rule"}
  AnnounceKey = {"ann"}
  QueueForm <- QueueForms
  RuleForm <- RuleForms
  AnnounceForm = {"", "ty"}
  MemberForm <- MemberForms
  Lower <- LowerIs
  CalledQueues = {"s"}
  Account = {"u"}
  Local = "local"
  Adder <- Twice
  MaxMembers = 2
  MaxEditions = 2
  Caller = {"n"}
  Destination = {"d"}
  Web <- Twice
  ListName = {"l"}
  LastDay = 1
  MaxListed = 2
  MaxListings = 3
  Leg <- TwoLegs
  First = 1
  RingTime = 1
  Margin = 2
  QuickTime = 2
  LibraryTime = 1
  LastTick = 3
  Listed = {"m", "n"}
  Placed = {"a"}
  Trunk = {"p", "q"}
  MaxAttempts = 3
  Agent = {"m"}
  MaxStaff = 2
  Class = {"m"}
  Folder = {"", "d"}
  Base = {"x", "y"}
  Language = {"", "en"}
  MaxPlaylist = 1
  MaxMedia = 3
  Sign <- EightSigns
  MaxSigns = 4
  Recorded = {"c"}
  CronRun <- Twice
  WavDays = 0
  Mp3Days = 0
  BackupDays = 1
  FinalDay = 2
SYMMETRY Symmetry
INVARIANTS ApplicationTypeOK PjsipConsistent AelConsistent WebhooksInSync  ReportsAgree FilesAreTheDevices QueuesConsistent ListsConsistent RequestsAnswered ScriptsTellTrue FilesAreFound
PROPERTIES AppliesKeepApart VersionsAreALedger GuardsHold RecordingsKept
CHECK_DEADLOCK FALSE
