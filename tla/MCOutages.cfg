SPECIFICATION Spec
CONSTANTS
    MaxDepth = 6
    MaxListeners = 2
PROPERTIES OutagesLeaveNothing EmptiedByOutage
