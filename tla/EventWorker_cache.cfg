\* One worker and no fault: nothing races, crashes or breaks, and only the
\* cached set's TTL runs out.
CONSTANTS
    Workers = {w1}
    Handlers = {h1, h2}
    Copies = {m1}
    MaxReceives = 2
    BatchSize = 1
    MaxFaults = 0
    None = None
    NoKey = NoKey
SPECIFICATION Spec
PROPERTY RecordedNotRerun
