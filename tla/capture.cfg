CONSTANTS
  t = t
  u = u
  Tcp <- TheTcp
  Udp <- TheUdp
  Reading <- TheReading
  Traffic <- TheTraffic
  MaxActivity = 2
  UdpTtl = 3
  PktTtl = 2
  Steps = {1, 2}
  GenModulus = 2
SPECIFICATION Spec
INVARIANTS Lifetimes MirrorFollows
PROPERTY GenerationCounts
