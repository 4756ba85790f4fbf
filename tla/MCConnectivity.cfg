SPECIFICATION SupervisedSpec
CONSTANTS
  WIFI_CONNECT_MAXIMUM_RETRY = 2
  MaxLinkFaults = 3
  NumTopics = 2
  MaxBrokerFaults = 2
  MaxReboots = 1
INVARIANTS
  TypeOK
  NoConnectedBitWithoutClient
  ConnectOnlyWhenIdle
  RetriesBounded
  FailMeansOffline
  WifiBitTracksLink
  SessionIsShown
PROPERTIES
  IdleStationRetriesOrFails
  ConnectedBitReconciles
  WifiLossEndsMqtt
  UpdatesFlowUnlessGivenUp
  ImplementsSession
