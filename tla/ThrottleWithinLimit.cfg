SPECIFICATION ThrottleSpec
CONSTANTS
  Client = {1}
  Key <- RefreshKeys
  Layers <- RefreshLayers
  Identity <- RefreshIdentity
  Limit <- RefreshLimit
  Window <- RefreshWindow
  Block <- RefreshBlock
  Threshold <- BLOCK_THRESHOLD
  Req = {r1}
  MaxDelay = 0
  MaxCount <- RefreshCount
  Width = 4
  Trusted <- Proxies
  Nobody = Nobody
INVARIANT
  OnlyExcessIsBlocked
