CONSTANT N = 5
SPECIFICATION FairSpec
INVARIANTS TypeOK StepIsABarrier MessagesAreExpected ReducedHalfWay
    FinishedMeansReduced DisplayAnnouncesTraffic AnnouncedTrafficHappens
PROPERTIES StepReturns StopEndsWorkers
