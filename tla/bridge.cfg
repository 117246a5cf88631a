SPECIFICATION Spec
INVARIANT BridgeTypeOK
INVARIANT OneWorker
INVARIANT InterruptTakesEffect
INVARIANT QueueIsWorked
PROPERTY InOrder
PROPERTY EveryUpdateHandled
PROPERTY RequestsSettle
CONSTANTS
  MaxTelegram = 2
  MaxWebhooks = 1
  MaxEvents = 2
  MaxFaults = 1
  MaxRestarts = 1
  MaxWorkers = 2
CHECK_DEADLOCK FALSE
