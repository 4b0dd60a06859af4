\* Listeners that post, come and go: the bus may stop, see ApplicationBus_posting.cfg.
CONSTANTS
  gpio = gpio
  log = log
  gate = gate
  api = api
  web = web
  Goroutines = {log, gate, web}
  Calls <- BusyCalls
  Capacity <- MCCapacity
  None = None
SPECIFICATION FairSpec
INVARIANTS TypeOK AudienceIsServed
PROPERTIES ImplementsBroadcast CallsReturnToListeners
CHECK_DEADLOCK FALSE
