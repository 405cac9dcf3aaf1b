SPECIFICATION Spec
CONSTANTS
  Services <- ThreeServices
  MessageLimit = 2
  MaxLength = 5
  MaxAttempts = 2
INVARIANTS
  TypeOK
  ChannelIsFaithful
  RepeatsAreUnavoidable
  FirstErrorIsGenuine
CHECK_DEADLOCK FALSE
