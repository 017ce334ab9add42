CONSTANTS
  s = s
  t = t
  a = a
  b = b
  tcp = tcp
  udp = udp
  Pid = {p}
  NoPid = none
  Socket = {s, t}
  Table = {tcp, udp}
  TableOf <- TheTableOf
  Addr = {a, b}
  Remote <- TheRemote
  MAX_CONCURRENT = 1
  MAX_CACHE = 1
  MaxProcs = 2
SPECIFICATION Spec
INVARIANTS RowsAreRight LookupsBounded
PROPERTY LookupsEnd
