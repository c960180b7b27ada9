SPECIFICATION Spec
CONSTANTS Widths = {12, 14, 16} Groups <- MCGroups BuffWords = 24 MaxSmpls = 38
INVARIANTS PacketIntact NoOverflow SampleNumber12or16
PROPERTIES NeverStalls
CHECK_DEADLOCK FALSE
