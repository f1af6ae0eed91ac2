\* All call graphs on four functions, up to renaming (a self call is in the graphs of the Pipeline runs).
SPECIFICATION Spec
CONSTANTS
    Functions = {f1, f2, f3, f4}
    SelfCalls = FALSE
SYMMETRY Symmetry
INVARIANT RanksAreDepths
CHECK_DEADLOCK FALSE
