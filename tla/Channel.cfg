\* Channel
SPECIFICATION FairSpec
CONSTANTS
  Drivers = {"bxcan", "mcan"}
INVARIANTS
  ChannelInv
  OffBus
  RestartAtBusOff
  Informed
PROPERTIES
  StaysStopped
  Recovers
  AnswerSettles
  
