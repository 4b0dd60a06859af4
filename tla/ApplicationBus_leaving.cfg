\* A connection that ends with events in its channel.
CONSTANTS
  gpio = gpio
  log = log
  gate = gate
  api = api
  web = web
  Goroutines = {api, web}
  Calls <- LeavingCalls
  Capacity <- MCCapacity
  None = None
SPECIFICATION FairSpec
PROPERTIES CallsReturn
CHECK_DEADLOCK FALSE
