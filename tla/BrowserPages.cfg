\* One behaviour is about one page; a page may stop.
SPECIFICATION Spec
CONSTANTS
  None = None
  Junk = Junk
  Absent = Absent
  Missing = Missing
  Bad = Bad
  Blank = Blank
  Alice = Alice
  Bob = Bob
  TimelineModes <- MCTimelineModes
  TimelineCards <- MCTimelineCards
  TimelineSize <- MCTimelineSize
  TimelineAnchor <- MCTimelineAnchor
  TimelineMovable <- MCTimelineMovable
  TimelineLimit <- MCTimelineLimit
  TimelineEarlier <- MCTimelineEarlier
  TimelineBounds <- MCTimelineBounds
  SessionUsers <- MCSessionUsers
  SessionGames <- MCSessionGames
  SessionBounds <- MCSessionBounds
  WritesUsers <- MCWritesUsers
  WritesGames <- MCWritesGames
  WritesBounds <- MCWritesBounds
  ClassicCategories <- MCClassicCategories
  ClassicDifficulties <- MCClassicDifficulties
  ClassicPool <- MCClassicPool
  ClassicAnswer <- MCClassicAnswer
  ClassicFirst <- MCClassicFirst
  ClassicBounds <- MCClassicBounds
  EmojiDifficulties <- MCEmojiDifficulties
  EmojiEntities <- MCEmojiEntities
  EmojiAnswer <- MCEmojiAnswer
  EmojiBounds <- MCEmojiBounds
  LogoModels <- MCLogoModels
  LogoAnswer <- MCLogoAnswer
  LogoBounds <- MCLogoBounds
  AdminUsers <- MCAdminUsers
  AdminQueries <- MCAdminQueries
  AdminMatching <- MCAdminMatching
  AdminListSize <- MCAdminListSize
  AdminGames <- MCAdminGames
  AdminGamesSize <- MCAdminGamesSize
  AdminRoles <- MCAdminRoles
  AdminBounds <- MCAdminBounds
  AccountUsers <- MCAccountUsers
  AccountMask <- MCAccountMask
  AccountPasswords <- MCAccountPasswords
  FirstPassword <- MCFirstPassword
  AccountBounds <- MCAccountBounds
  ProfileCategories <- MCProfileCategories
  ProfileRecords <- MCProfileRecords
  ProfileNames <- MCProfileNames
  ProfileTaken <- MCProfileTaken
  ProfileUnlocked <- MCProfileUnlocked
  ProfileBounds <- MCProfileBounds
  EngineValues <- MCEngineValues
  EngineNormal <- MCEngineNormal
  EngineServerNormal <- MCEngineServerNormal
  EngineSizes <- MCEngineSizes
  EngineDates <- MCEngineDates
  EngineLists <- MCEngineLists
  EditorGames <- MCEditorGames
  EditorCategories <- MCEditorCategories
  EditorSeed <- MCEditorSeed
  EditorValues <- MCEditorValues
  EditorBounds <- MCEditorBounds
  SeedDrafts <- MCSeedDrafts
  SeedSlug <- MCSeedSlug
  SeedAliasId <- MCSeedAliasId
  SeedMinModels <- MCSeedMinModels
  SeedMinLogos <- MCSeedMinLogos
  SeedImages <- MCSeedImages
  SeedBounds <- MCSeedBounds
  StageAfter <- MCStageAfter
  StageRevision <- MCStageRevision
  StageScopes <- MCStageScopes
  StageBounds <- MCStageBounds
  ApiRacing <- MCApiRacing
  ApiBounds <- MCApiBounds
  DailyModels <- MCDailyModels
  RaceKinds <- MCRaceKinds
  RacePools <- MCRacePools
  RaceFirst <- MCRaceFirst
  RaceShapes <- MCRaceShapes
  RaceHandlers <- MCRaceHandlers
  RaceBounds <- MCRaceBounds
  RestKinds <- MCRestKinds
  RestPools <- MCRestPools
  RestFirst <- MCRestFirst
  RestShapes <- MCRestShapes
  RestHandlers <- MCRestHandlers
  RestBounds <- MCRestBounds
INVARIANTS
  TypeOK
  BoardHoldsACardOnce
  RetryKeepsOrder
  TimelineShowsRecorded
  
  ProgressIsStored
  BoardsAreServers
  PagesShowAsked
  AccountsAreGuarded
  DayHasOneChallenge
  CatalogueIsKept
  EnginesAgree
  DerivedIsOfRecords
PROPERTY NothingIsTakenBack
CHECK_DEADLOCK FALSE
