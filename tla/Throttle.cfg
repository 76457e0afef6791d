SPECIFICATION ThrottleSpec
CONSTANTS
  Client <- LoginClients
  Key <- LoginKeys
  Layers <- LoginLayers
  Identity <- LoginIdentity
  Limit <- LoginLimit
  Window <- LoginWindow
  Block <- LoginBlock
  Threshold = 2
  Req = {r1, r2}
  MaxDelay = 1
  MaxCount = 3
  Width = 4
  Trusted <- Proxies
  Nobody = Nobody
INVARIANTS
  ThrottleTypeOK
  AdmitAtMostLimit
PROPERTY
  BlockEnds
