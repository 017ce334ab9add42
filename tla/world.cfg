SPECIFICATION WorldSpec
CONSTANTS
  lan = lan
  tail = tail
  web = web
  plain = plain
  cdn = cdn
  mapped = mapped
  Socket = {lan, tail, web, plain, cdn, mapped}
  Encrypted = {lan, tail, web, cdn, mapped}
  Peer <- ThePeer
  Ptr <- ThePtr
  Owner <- TheOwner
  TRACKER_KEYWORDS = {"ads", "metrics"}
  CDN_KEYWORDS = {"cdn"}
  extra_trackers = {"corp"}
  CHUNK = 2
  HasKey = TRUE
  Tables <- TheTables
  Policies <- ThePolicies
  AllPolicies <- TheAllPolicies
  Directories <- TheDirectories
INVARIANTS PlanIsRight FirewallIsThePlan LocalStaysHome AnswersAreTrue
