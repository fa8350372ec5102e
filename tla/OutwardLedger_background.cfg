\* A background completion, its reconciliation and a plain send; every row in
\* flight is settled, with a restart and more rows than a batch.
CONSTANTS
    WrapOp = {w1}
    BackgroundOp = {b1}
    AnnounceOp = {}
    Payload = {p1}
    Attempt = {a1, a2}
    MaxStep = 1
    BatchSize = 1
    MaxRestarts = 1
SPECIFICATION FairSpec
INVARIANTS TypeOK ResultTruthful StepsDistinct
PROPERTIES RetryableNeverSent ImplementsOperation InFlightSettles
