SPECIFICATION Spec
CONSTANTS Suites <- MCSuites DataField = 8 Width = 4 Reset <- MCReset Ctrl = 1
  Banks = {0, 1} BrdAddrs = {1} BrdDefault <- MCBrdDefault BrdValues <- MCBrdValues
  Mac = 9 MacValues <- MCMacValues Addrs = {0, 1} Values = {0, 1}
  LmsDefault <- MCLmsDefault AnalogVals = {0, 257} WiperMax = 256
INVARIANTS ReadBack DevicesAsBelieved RefusedChangesNothing OneTcxoDriver
