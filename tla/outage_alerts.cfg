SPECIFICATION Spec
CONSTANTS
  r1 = r1
  Recipients = {r1}
  Lengths = {1, 2, 3}
  MaxKept = 4
  MaxRows = 5
  MaxFanOuts = 3
VIEW MCView
INVARIANTS
  TypeOK
  OneOutage
  OutageIsTold
  RecoveryIsOwed
