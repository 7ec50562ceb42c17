SPECIFICATION Spec
CONSTANTS
    User = {u1, u2}
    Goal = {g1, g2}
    Percent = {40, 60}
    Slot = {s1, s2}
    Configured = {u1}
    Limit = {1, 2}
    NoUser = NoUser
    NoGoal = NoGoal
SYMMETRY Interchangeable
CONSTRAINT FewGoalsWhileConfiguring
INVARIANT TypeOK
INVARIANT CapBrokenOnlyByRaces
PROPERTY DeletedStaysDeleted
PROPERTY ColumnsAreIndependent
