\* Two of everything: a duplicate or redriven copy, a second worker, a handler
\* that fails while another succeeds, a redelivery, and one fault of any kind.
CONSTANTS
    Workers = {w1, w2}
    Handlers = {h1, h2}
    Copies = {m1, m2}
    MaxReceives = 2
    BatchSize = 2
    MaxFaults = 1
    None = None
    NoKey = NoKey
SPECIFICATION Spec
INVARIANTS
    TypeOK
    NoEventLost
    EffectsOnce
PROPERTY ImplementsDelivery
SYMMETRY Symmetry
