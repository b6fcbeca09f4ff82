CONSTANTS
    Models = {"m1"}
    MaxDay = 1
    MaxCost = 1
    MaxPolls = 2
SPECIFICATION Spec
INVARIANT EveryCycleWrites
