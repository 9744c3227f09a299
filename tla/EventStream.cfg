SPECIFICATION StreamFairSpec
CONSTANTS
  Jobs = {j1, j2}
  NoJob = NoJob
  Clients = {c1}
  ReplayLimit = 1
  StepHeadroom = 1
  SubscriberHeadroom = 1
  MaxSteps = 1
  MaxOthers = 1
INVARIANTS TypeOK ReplayFits StepsReachEveryClient
PROPERTIES ImplementsLifecycle CancelTakesEffect CloseStops EveryJobIsServed JobEndEndsStream
CHECK_DEADLOCK FALSE
