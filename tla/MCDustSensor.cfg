SPECIFICATION ProgramSpec
CONSTANTS
  WIFI_CONNECT_MAXIMUM_RETRY = 1
  MaxLinkFaults = 1
  NumTopics = 2
  MaxBrokerFaults = 0
  MaxReboots = 1
  MaxReadFailures = 1
  Source <- MCSource
PROPERTY OnlyFailuresUnsettle
 
