\* One handler is enough for a message that cannot settle; two copies and two
\* workers keep receipts and leases in each other's way.
CONSTANTS
    Workers = {w1, w2}
    Handlers = {h1}
    Copies = {m1, m2}
    MaxReceives = 2
    BatchSize = 1
    MaxFaults = 1
    None = None
    NoKey = NoKey
SPECIFICATION Spec
PROPERTY Settles
