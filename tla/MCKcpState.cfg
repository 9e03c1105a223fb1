CONSTANTS
  Flushers = {ping}
  PingUpdater = ping
  IdleTimeout = 1
  ReadyTimeout = 1
  TerminatingTimeout = 1
  PeerTerminatingTimeout = 1
  Modulus = 16
  MaxLag = 1
  Forever = 3
SPECIFICATION FairSpec
PROPERTIES
  ReleasedOrPeerClosed
