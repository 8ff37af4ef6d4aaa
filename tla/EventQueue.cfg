\* Two threads of each kind, up to three items: a consumer can sleep while the
\* other is between its test and wait(), two notifications can be under way, and
\* Stop can fall into every window of DeQueue and EnQueue.
CONSTANTS
    c1 = c1  c2 = c2  p1 = p1  p2 = p2  s1 = s1  s2 = s2  x1 = x1  x2 = x2
    NoThread = NoThread
    Consumers = {c1, c2}
    Producers = {p1, p2}
    Stoppers = {s1, s2}
    Items = {x1, x2}
    MaxEnq = 3
SPECIFICATION FairSpec
INVARIANTS
    TypeOK
    NoLostWakeup
    ItemWakesSomeone
PROPERTIES ImplementsFifo Delivery StopFreesAwake
\* The system stops when all items were enqueued, Stop has run and a consumer
\* sleeps that Stop missed.
CHECK_DEADLOCK FALSE
