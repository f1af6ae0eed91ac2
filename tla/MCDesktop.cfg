SPECIFICATION Spec
CONSTANTS
    Ops = {o1}
    None = None
    MaxTries = 3
    MaxDesktops = 2
    MaxStops = 1
INVARIANTS DesktopTypeOK OutcomesAreTrue NoReplay
PROPERTIES HeadlessStaysAway HandlersEnd
CHECK_DEADLOCK FALSE
