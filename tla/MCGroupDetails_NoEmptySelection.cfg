CONSTANTS
    Topics = {1, 2}
    Partitions = {0, 1}
    Members = {m1}
    Lags = {0, 1, 2}
    NoMember = NoMember
    Snapshots <- MCSnapshots
    Absent = Absent
    Null = Null
    NoOffset = NoOffset
    MaxInflight = 2
SPECIFICATION Spec
INVARIANT NoEmptySelection
