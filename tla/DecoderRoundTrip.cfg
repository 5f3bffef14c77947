\* Does ReloadConfig's decoder give back the three lists the reply carries?
CONSTANTS
    GroupNames <- MCGroupNames
    MaxNames = 2
    Orders <- MCOrders
SPECIFICATION Spec
INVARIANT RoundTrip
\* ReloadConfig returns once the reply is consumed.
CHECK_DEADLOCK FALSE
