\* One request at a time, and a job that asks about pending plans.
SPECIFICATION JobSpec
CONSTANTS
    Sub = {s1, s2}
    Plan = {free, paid}
    Instant = {free}
    Handler = {h1}
    None = None
    AdminSets = {"SUSPENDED"}
    Lapsing = {s1}
    MaxStored = 6
PROPERTY PaidPlanStarts
CHECK_DEADLOCK FALSE
