------------------------------- MODULE Flows -------------------------------
(***************************************************************************)
(* A flow, from the row of a connection table to what the world publishes: *)
(* the local-or-remote verdict of the capture layer, the names, the owners *)
(* and the places of the enricher, the category and the security flags.    *)
(*                                                                         *)
(* An address has BITS bits.  Of the IPv4 ones 0 is private (or loopback,  *)
(* or link-local) and 1 carrier-grade NAT, which a tailnet uses; of the    *)
(* IPv6 ones 0 is unique-local (or link-local, or loopback) and 1 is the   *)
(* IPv4-mapped form of a private address, as a dual-stack socket shows it. *)
(* A text is its words: a name is the sequence of its labels, an           *)
(* organisation the set of its words, and a text contains a keyword when   *)
(* the keyword is one of them.  A name that is not resolved is empty: the  *)
(* code shows the address there.                                           *)
(***************************************************************************)
EXTENDS Naturals, Sequences, FiniteSets

CONSTANTS
  Socket, Peer,                \* the sockets and the address each is connected to
  Encrypted,                   \* the sockets whose remote port is a known-encrypted one
  Ptr,                         \* the addresses that have a name, and their names
  Owner,                       \* the addresses the GeoLite2 files know, and their organisations
  TRACKER_KEYWORDS, CDN_KEYWORDS, extra_trackers

BITS == 2
Address == [v6 : BOOLEAN, n : 0 .. 2 ^ BITS - 1]

ASSUME FlowsAssumption ==
  /\ Peer \in [Socket -> Address] /\ Encrypted \subseteq Socket
  /\ DOMAIN Ptr \subseteq Address /\ \A a \in DOMAIN Ptr : Ptr[a] \in Seq(STRING) /\ Ptr[a] # <<>>
  /\ DOMAIN Owner \subseteq Address /\ \A a \in DOMAIN Owner : Owner[a] # {}

(* Arithmetic that the provers do not have: a power of two is positive.    *)
ASSUME PowersAssumption == \A k \in 0 .. BITS : 2 ^ k \in Nat \ {0}

Category == {"Service", "Cdn", "Tracker", "Local", "Unknown"}
SecurityFlag == {"Plaintext", "Tracker", "UnresolvedOrg"}

(* What the capture layer calls local: not the carrier-grade NAT range.    *)
is_local(ip) == ip.n = 0

(* What the warden, the enforcer and the narrator call local.              *)
is_local_scope(ip) == ip.n = 0 \/ (~ip.v6 /\ ip.n = 1)

flow_from_raw(row) ==
  [id |-> row, ip |-> Peer[row], encrypted |-> row \in Encrypted, name |-> <<>>, org |-> {}, placed |-> FALSE,
   category |-> IF is_local(Peer[row]) THEN "Local" ELSE "Unknown", flags |-> {}]

Words(name) == {name[i] : i \in DOMAIN name}

matches_any(flow, keywords) == (flow.org \cup Words(flow.name)) \cap keywords # {}

category_with(flow) ==
  IF flow.category = "Local" THEN "Local"
  ELSE IF matches_any(flow, TRACKER_KEYWORDS \cup extra_trackers) THEN "Tracker"
  ELSE IF matches_any(flow, CDN_KEYWORDS) THEN "Cdn"
  ELSE IF flow.org # {} THEN "Service"
  ELSE "Unknown"

security_flags(flow) ==
  {flag \in SecurityFlag :
     \/ flag = "Plaintext" /\ ~flow.encrypted
     \/ flag = "UnresolvedOrg" /\ flow.org = {} /\ flow.category # "Local"
     \/ flag = "Tracker" /\ flow.category = "Tracker"}

Flagged(flow) == [flow EXCEPT !.flags = security_flags(flow)]

\* A mistake: the flags are taken before the category
FlagsFirst(flow, geo, names) ==
  LET placed == IF geo /\ flow.ip \in DOMAIN Owner THEN [flow EXCEPT !.org = Owner[flow.ip], !.placed = TRUE] ELSE flow
      named == IF flow.ip \in names THEN [placed EXCEPT !.name = Ptr[flow.ip]] ELSE placed
  IN [Flagged(named) EXCEPT !.category = category_with(named)]

(* enrich, with the GeoLite2 files open or not and the names in the cache. *)
enrich(flow, geo, names) ==
  LET placed == IF geo /\ flow.ip \in DOMAIN Owner THEN [flow EXCEPT !.org = Owner[flow.ip], !.placed = TRUE] ELSE flow
      named == IF flow.ip \in names THEN [placed EXCEPT !.name = Ptr[flow.ip]] ELSE placed
  IN IF flow.category = "Local" THEN Flagged(flow)
     ELSE Flagged([named EXCEPT !.category = category_with(named)])
=============================================================================
