SPECIFICATION FairSpec
CONSTANTS
  Width = 8 Min = 26 Max = 226 Windows = {1, 2} Tol <- MCTol
  Gains <- MCGains Centres <- MCCentres MaxSwitches = 4 MaxDrifts = 1
INVARIANTS OwnMeasurements
PROPERTIES Contracts Settles
