SPECIFICATION Spec
CONSTANTS
    Environments <- AnyTwo
    MaxEdits = 1
PROPERTIES SafeToRemove
CHECK_DEADLOCK FALSE
