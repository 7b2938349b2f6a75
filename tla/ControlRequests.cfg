\* ControlRequests
SPECIFICATION Spec
CONSTANTS
  NumChannels = 1
  Requests = {"data_bittiming", "mode", "set_tdc", "bus_off_recovery", "host_format",
              "get_tdc", "get_state", "set_filter"}
  Timings = {1, 2}
  Compensated = {1}
  MaxPackets = 2
  StartsRunning = FALSE
INVARIANTS
  TypeOK
  HandledOnce
  Answered
  TdcInForce
  TdcoFits
PROPERTIES
  OwnData
