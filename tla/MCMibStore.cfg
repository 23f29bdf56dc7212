SPECIFICATION Spec
CONSTANTS
  OltKeys = {a}
  OnuKeys = {u}
  RingKeys = {u}
  AvcKeys = {u}
  Values = {x, y}
  FactoryValue = x
  Absent = Absent
  MaxSync = 3
INVARIANTS TypeOK ZeroMeansFactory Durable NeverDiscarded
PROPERTIES ChangeIsDetectable
