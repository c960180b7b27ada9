SPECIFICATION Spec
CONSTANTS Widths = {14} Groups <- MCGroups BuffWords = 24 MaxSmpls = 20
INVARIANT SampleNumber
CHECK_DEADLOCK FALSE
