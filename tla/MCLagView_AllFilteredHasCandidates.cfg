CONSTANTS
    Topics = {1, 2}
    Partitions = {0, 1}
    Members = {m1, m2}
    Lags = {0, 1}
    NoMember = NoMember
SYMMETRY MemberSymmetry
SPECIFICATION Spec
INVARIANT AllFilteredHasCandidates
