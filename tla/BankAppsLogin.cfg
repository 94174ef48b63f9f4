SPECIFICATION Spec
CONSTANTS
    Devices = {"web", "phone"}
    Matters = {{"consent"}, {"loan"}}
    Total = 1
    Refs = {}
INVARIANT LoginKeepsTheLink
CHECK_DEADLOCK FALSE
