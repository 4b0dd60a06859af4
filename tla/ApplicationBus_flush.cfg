\* Post, flush, look, as accesshandler_test.go does.
CONSTANTS
  gpio = gpio
  log = log
  gate = gate
  api = api
  web = web
  Goroutines = {log, web}
  Calls <- TestCalls
  Capacity <- MCCapacity
  None = None
SPECIFICATION Spec
PROPERTIES FlushWaits
