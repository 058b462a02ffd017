SPECIFICATION Spec
CONSTANTS
    HoursPerDay = 3
    MinutesPerHour = 2
INVARIANT
    FollowsArc
