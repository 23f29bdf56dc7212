SPECIFICATION Spec
CONSTANTS
  Sources = {1}
  Groups = {1}
  Clients <- mcTwins
  Configs <- mcSpr
  UniVLAN <- mcVLAN
  Learnable = {1}
  MaxFaults = 0
INVARIANT ClientsIndependent
CHECK_DEADLOCK FALSE
