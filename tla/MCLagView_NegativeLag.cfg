CONSTANTS
    Topics = {1, 2}
    Partitions = {0, 1}
    Members = {m1}
    Lags <- NegativeLags
    NoMember = NoMember
SPECIFICATION Spec
INVARIANTS
    TopicViewRowsExact
    FilterPreservesTotals
