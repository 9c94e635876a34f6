CONSTANTS
    Enrolments = {1}
    LastStep = 1
    Beats = {d1, d2}
    MaxMishaps = 0
SPECIFICATION DripSpec
INVARIANTS StepSentOnce
CHECK_DEADLOCK FALSE
