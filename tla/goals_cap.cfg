SPECIFICATION Spec
CONSTANTS
    User = {u1}
    Goal = {g1, g2}
    Percent = {40, 60}
    Slot = {s1, s2}
    Configured = {u1}
    Limit = {1}
    NoUser = NoUser
    NoGoal = NoGoal
INVARIANT AllocationCap
