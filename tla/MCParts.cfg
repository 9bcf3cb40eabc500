SPECIFICATION Spec
INVARIANTS
  TokensIndexed
  FirstIsEarliest
  SearchFindsFlagged
  CausalityLinked
  RemoteEventsTracked
  DrawsReversible
  ChannelsAccounted
  LanesHoldTheCars
  RoutesReach
  MapsAgree
  ExecutesInOrder
PROPERTIES
  CreditsBalance
  OrderKeptUntilUnregister
  ErasesTheVictim
  InsertionKeepsBalance
  MigrationKeepsEvents
  ReverseRestores
CHECK_DEADLOCK FALSE
