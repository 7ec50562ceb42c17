SPECIFICATION Spec
CONSTANTS
    User = {u1, u2}
    Goal = {g1}
    Percent = {40}
    Slot = {s1}
    Configured = {u1}
    Limit = {1, 2}
    NoUser = NoUser
    NoGoal = NoGoal
INVARIANT AdviceHelps
