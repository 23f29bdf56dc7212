SPECIFICATION Spec
CONSTANTS
  Sources = {1}
  Groups = {1}
  Clients <- mcClients
  Configs <- mcConfigs
  UniVLAN <- mcVLAN
  Learnable = {1}
  MaxFaults = 1
INVARIANTS TypeOK PolicyInStep DeliveryMatches UpstreamInStep PendingHasLeft
CHECK_DEADLOCK FALSE
