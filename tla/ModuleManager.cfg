\* Two threads that may race for a name, or for a module.
CONSTANTS
    t1 = t1  t2 = t2  o1 = o1  o2 = o2
    Names <- TwoNames
    Objects = {o1, o2}
    NoObject = NoObject
    Threads = {t1, t2}
    Users = {t1, t2}
    WriterPriority = FALSE
    MaxJobs = 0
SPECIFICATION Spec
INVARIANTS TypeOK FoundIsInitialised
PROPERTY ImplementsLifecycle
\* UnRegisterModule may leave the registry locked for ever.
CHECK_DEADLOCK FALSE
