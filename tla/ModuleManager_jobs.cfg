\* Two threads that register modules and send jobs, one of which starts and stops
\* the modules, against the notify thread; two jobs, so that they have an order.
CONSTANTS
    t1 = t1  t2 = t2  o1 = o1  o2 = o2
    Names <- TwoNames
    Objects = {o1, o2}
    NoObject = NoObject
    Threads = {t1, t2}
    Users = {t1}
    WriterPriority = FALSE
    MaxJobs = 2
SPECIFICATION FairSpec
INVARIANT NotifiedInOrder
PROPERTY JobReachesModule
\* UnRegisterModule may leave the registry locked for ever.
CHECK_DEADLOCK FALSE
