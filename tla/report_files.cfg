SPECIFICATION Spec
CONSTANTS
  Scans <- InterruptedScans
  DefaultWidth = 2
  LastThreads = 2
  InfoTopics <- MCInfoTopics
  MaxFaults = 1
  Nobody = "nobody"
  Wordlist <- MCWordlist
  Zone <- MCZone
  Hosted = {"cdn"}
  Wildcard = {"w1"}
  Resolvers <- MCResolvers
  Broken = {"bad"}
  MaxAttempts = 3
  CursorSize = 16
  ZoneTransfer = {"vpn"}
  MaxExpiries = 1
  NoName = "-"
  Records <- MCRecords
  IsIPv4 <- MCIsIPv4
  Listening <- MCListening
  PortSpecs <- MCPortSpecs
  Top <- MCTop
  LastPort = 3
  MaxIPs = 2
  CdnPort = {2}
  CdnThreshold = 1
  Dangerous = {2, 3}
  MaxDrops = 2
  Target = "/"
  Site <- MCSite
  Clean <- MCClean
  PageFlags = {0, 2}
  DefaultPages = 5
  AttemptsPerPage = 1
  ExtraAttempts = 2
  MaxMishaps = 1
  WordLists <- MCWordLists
  DefaultPaths <- MCDefaultPaths
  Directories = {"d/", "w/"}
  ExtLists <- MCExtLists
  WithExt <- MCWithExt
  Servers <- MCServers
  AlwaysKeep = {".env", ".git", ".env.php", ".git.php"}
  Classified = {"m"}
  MaxFailures = 1
  Archives <- MCArchives
  ArchivePage = 2
  ArchiveLimits = {0, 3, 9}
  MaxArchivePages = 2
  TargetHosts = {"www", "top", "old"}
  MaxLostPages = 1
  Domain = "top"
  Sources <- MCSources
  Patient = "crt.sh"
  Names <- MCNames
  InScope = {"api", "old", "top"}
  Variants <- MCVariants
  Resolving = {"dev-api"}
  Live <- MCLive
  NoHash = 0
  Unclaimed = {"old"}
  ContentJS <- MCContentJS
  PageJS <- MCPageJS
  Buckets = {"bucket"}
  JSFlags = {0, 1}
  DefaultJS = 2
  Routes <- MCRoutes
  ApiPrefixes = {"/rest/"}
  Sensitive = {"/admin"}
  Under <- MCUnder
  Unguarded = {"/rest/admin"}
  MaxMisses = 1
INVARIANTS FilesAgree
CHECK_DEADLOCK FALSE
