SPECIFICATION Spec
CONSTANTS
    Environments <- AnyTwo
    MaxEdits = 1
INVARIANTS MirrorsTheGates
PROPERTIES SafeToRemoveButForSweeps
CHECK_DEADLOCK FALSE
