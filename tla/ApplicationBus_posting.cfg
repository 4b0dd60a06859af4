\* A terminal whose handler posts.
CONSTANTS
  gpio = gpio
  log = log
  gate = gate
  api = api
  web = web
  Goroutines = {gate, web}
  Calls <- PostingCalls
  Capacity <- MCCapacity
  None = None
SPECIFICATION FairSpec
PROPERTIES CallsReturn
CHECK_DEADLOCK FALSE
