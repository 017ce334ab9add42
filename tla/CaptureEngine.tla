--------------------------- MODULE CaptureEngine ---------------------------
(***************************************************************************)
(* CaptureEngine::poll_at: one poll turns the rows of the OS connection    *)
(* table and the packets observed since the last poll into the current     *)
(* world, and diffs it with the previous one.  A flow's lifetime is the    *)
(* interesting part: a TCP flow lives while the table shows it, a UDP flow *)
(* outlives its last row by UdpTtl, and a flow only packets have shown     *)
(* outlives its last packet by PktTtl.                                     *)
(*                                                                         *)
(* The Instants of udp_seen and pkt_seen are kept as ages, capped at the   *)
(* TTL: their comparison with the TTL is all the code computes from them.  *)
(* A flow is reduced to its activity and whether a process is attributed;  *)
(* what enrichment adds differs from poll to poll just as activity does.   *)
(***************************************************************************)
EXTENDS Naturals, Sequences, FiniteSets

CONSTANTS
  Tcp, Udp,        \* flow identities, by protocol
  Reading,         \* what one read of the table can return: sequences of rows
  Traffic,         \* what the observer can drain: bytes by flow, as activity
  MaxActivity,
  UdpTtl, PktTtl,  \* in time units
  Steps,           \* how long after the last poll the next one can come
  GenModulus       \* bound: generation is kept modulo this

Id == Tcp \cup Udp
Row == [id : Id, connected : BOOLEAN, activity : 1..MaxActivity]
Flow == [activity : 1..MaxActivity, attributed : BOOLEAN]

ASSUME CaptureAssumption ==
  /\ Tcp \cap Udp = {}
  /\ Reading \subseteq Seq(Row)
  /\ Traffic \subseteq UNION {[S -> 1..MaxActivity] : S \in SUBSET Id}
  /\ MaxActivity \in Nat
  /\ UdpTtl \in Nat \ {0} /\ PktTtl \in Nat \ {0}
  /\ Steps \subseteq Nat \ {0}
  /\ GenModulus \in Nat \ {0, 1}

VARIABLES
  prev,            \* the last emitted world, a function on the live flows
  udpSeen,         \* age of the last table row of a UDP flow
  pktSeen,         \* age of the last packet of a packet-only flow
  generation,
  mirror,          \* history: the world rebuilt from the published deltas
  sinceTable,      \* history: age of each flow's last row
  sincePacket,     \* history: age of each flow's last drained packet
  polled           \* history: the last poll succeeded

engineVars == <<prev, udpSeen, pktSeen, generation>>
historyVars == <<mirror, sinceTable, sincePacket, polled>>
vars == <<engineVars, historyVars>>

(* Ages are capped where no comparison can tell them apart any more.       *)
LongAgo == UdpTtl + PktTtl

NoFlows == [i \in {} |-> 0]

Init ==
  /\ prev = NoFlows
  /\ udpSeen = NoFlows
  /\ pktSeen = NoFlows
  /\ generation = 0
  /\ mirror = NoFlows
  /\ sinceTable = [i \in Id |-> LongAgo]
  /\ sincePacket = [i \in Id |-> LongAgo]
  /\ polled = FALSE

-----------------------------------------------------------------------------
Older(ages, dt, cap) ==
  [i \in DOMAIN ages |-> IF ages[i] + dt < cap THEN ages[i] + dt ELSE cap]

\* A mistake: an entry lives one unit longer
FreshLeq(i, ages, ttl) == i \in DOMAIN ages /\ ages[i] <= ttl

(* The entry is there and younger than its TTL.                            *)
Fresh(i, ages, ttl) == i \in DOMAIN ages /\ ages[i] < ttl

Without(f, S) == [i \in DOMAIN f \ S |-> f[i]]

Bigger(a, b) == IF a > b THEN a ELSE b

(* The table's flows: rows with no peer are skipped, and of two rows of    *)
(* one flow the first counts.                                              *)
TableFlows(rows) ==
  LET Of(i) == {k \in DOMAIN rows : rows[k].connected /\ rows[k].id = i}
      First(i) == CHOOSE k \in Of(i) : \A l \in Of(i) : k <= l
  IN [i \in {j \in Id : Of(j) # {}} |->
        [activity |-> rows[First(i)].activity, attributed |-> TRUE]]

\* A mistake: TCP rows are remembered as well
SeenAny(table, ages) ==
  [i \in DOMAIN ages \cup DOMAIN table |-> IF i \in DOMAIN table THEN 0 ELSE ages[i]]

(* udp_seen after the rows have been read.                                 *)
SeenInTable(table, ages) ==
  [i \in DOMAIN ages \cup (DOMAIN table \cap Udp) |->
     IF i \in DOMAIN table THEN 0 ELSE ages[i]]

(* The table's flows and the UDP flows still within their TTL.             *)
CarryForward(table, seen) ==
  LET carried == {i \in (DOMAIN prev \cap Udp) \ DOMAIN table :
                    Fresh(i, seen, UdpTtl)}
  IN [i \in DOMAIN table \cup carried |->
        IF i \in DOMAIN table THEN table[i] ELSE prev[i]]

NoGraduation(known, ages) == ages

(* An id the table (or its TTL) shows is no longer packet-only.            *)
Graduate(known, ages) == Without(ages, DOMAIN known)

(* Packets raise the activity of a known flow and make up an unknown one.  *)
MergeTraffic(known, traffic) ==
  [i \in DOMAIN known \cup DOMAIN traffic |->
     IF i \notin DOMAIN known
     THEN [activity |-> traffic[i], attributed |-> FALSE]
     ELSE IF i \notin DOMAIN traffic THEN known[i]
     ELSE [known[i] EXCEPT !.activity = Bigger(@, traffic[i])]]

SeenOnWire(known, traffic, ages) ==
  [i \in DOMAIN ages \cup (DOMAIN traffic \ DOMAIN known) |->
     IF i \in DOMAIN traffic THEN 0 ELSE ages[i]]

(* The merged flows and the packet-only ones still within their TTL.       *)
Linger(merged, seen) ==
  LET lingering == {i \in DOMAIN prev \ DOMAIN merged : Fresh(i, seen, PktTtl)}
  IN [i \in DOMAIN merged \cup lingering |->
        IF i \in DOMAIN merged THEN merged[i] ELSE prev[i]]

\* A mistake: only flows that come and go are reported
DiffById(old, new) ==
  [adds |-> [i \in DOMAIN new \ DOMAIN old |-> new[i]],
   updates |-> [i \in {} |-> 0],
   removes |-> DOMAIN old \ DOMAIN new]

Diff(old, new) ==
  [adds |-> [i \in DOMAIN new \ DOMAIN old |-> new[i]],
   updates |-> [i \in {j \in DOMAIN new \cap DOMAIN old : new[j] # old[j]} |-> new[i]],
   removes |-> DOMAIN old \ DOMAIN new]

IsEmpty(delta) ==
  DOMAIN delta.adds = {} /\ DOMAIN delta.updates = {} /\ delta.removes = {}

(* What a client makes of a published delta (history only).                *)
Replay(m, delta) ==
  [i \in (DOMAIN m \cup DOMAIN delta.adds \cup DOMAIN delta.updates) \ delta.removes |->
     IF i \in DOMAIN delta.adds THEN delta.adds[i]
     ELSE IF i \in DOMAIN delta.updates THEN delta.updates[i] ELSE m[i]]

-----------------------------------------------------------------------------
\* A mistake: entries of removed flows stay
KeepEntries(ages, removed) == ages

(* Entries of a flow that leaves the world are dropped with it.            *)
DropEntries(ages, removed) == Without(ages, removed)

\* A mistake: each poll takes a generation
EveryPoll(delta) == (generation + 1) % GenModulus

(* The generation advances only when something changed.                    *)
NextGeneration(delta) ==
  IF IsEmpty(delta) THEN generation ELSE (generation + 1) % GenModulus

PollAt(dt, rows, traffic) ==
  LET table == TableFlows(rows)
      udp == SeenInTable(table, Older(udpSeen, dt, UdpTtl))
      known == CarryForward(table, udp)
      pkt == SeenOnWire(known, traffic, Graduate(known, Older(pktSeen, dt, PktTtl)))
      current == Linger(MergeTraffic(known, traffic), pkt)
      delta == Diff(prev, current)
  IN /\ prev' = current
     /\ udpSeen' = DropEntries(udp, delta.removes)
     /\ pktSeen' = DropEntries(pkt, delta.removes)
     /\ generation' = NextGeneration(delta)
     /\ mirror' = Replay(mirror, delta)
     /\ sinceTable' = [i \in Id |-> IF i \in DOMAIN table THEN 0
                                    ELSE Older(sinceTable, dt, LongAgo)[i]]
     /\ sincePacket' = [i \in Id |-> IF i \in DOMAIN traffic THEN 0
                                     ELSE Older(sincePacket, dt, LongAgo)[i]]
     /\ polled' = TRUE

(* The source fails: the world is held and only time passes.               *)
PollFails(dt) ==
  /\ udpSeen' = Older(udpSeen, dt, UdpTtl)
  /\ pktSeen' = Older(pktSeen, dt, PktTtl)
  /\ sinceTable' = Older(sinceTable, dt, LongAgo)
  /\ sincePacket' = Older(sincePacket, dt, LongAgo)
  /\ polled' = FALSE
  /\ UNCHANGED <<prev, generation, mirror>>

Next ==
  \E dt \in Steps :
    \/ \E rows \in Reading, traffic \in Traffic : PollAt(dt, rows, traffic)
    \/ PollFails(dt)

Spec == Init /\ [][Next]_vars

-----------------------------------------------------------------------------
(* Properties                                                              *)

World == UNION {[S -> Flow] : S \in SUBSET Id}

(* The engine's state and the history variables have their types.          *)
TypeOK ==
  /\ prev \in World /\ mirror \in World
  /\ udpSeen \in UNION {[S -> 0..UdpTtl] : S \in SUBSET Udp}
  /\ pktSeen \in UNION {[S -> 0..PktTtl] : S \in SUBSET Id}
  /\ generation \in 0..(GenModulus - 1)
  /\ sinceTable \in [Id -> 0..LongAgo]
  /\ sincePacket \in [Id -> 0..LongAgo]
  /\ polled \in BOOLEAN

(* When a flow ought to be shown, told from its sightings alone: TCP flows *)
(* close with their row; a UDP flow outlives its row by the TTL; a packet  *)
(* counts only for a flow that neither of these showed when it was drained. *)
TableGrace(i) == IF i \in Udp THEN UdpTtl ELSE 1

Alive(i) ==
  \/ sinceTable[i] < TableGrace(i)
  \/ sincePacket[i] < PktTtl /\ sincePacket[i] + TableGrace(i) <= sinceTable[i]

(* After every successful poll exactly the flows that ought to be are      *)
(* shown: none lingers beyond its TTL and none is dropped before it, in    *)
(* any order of rows, packets, failed polls, graduations and late polls.   *)
FlowLifetimes == polled => \A i \in Id : i \in DOMAIN prev <=> Alive(i)

(* udp_seen and pkt_seen hold entries of live flows only: a long run does  *)
(* not fill them.                                                          *)
SeenOfLive == DOMAIN udpSeen \cup DOMAIN pktSeen \subseteq DOMAIN prev

(* The two together, with the types: what is shown and what is remembered  *)
(* for it both follow the sightings (poll_at).                             *)
Lifetimes == TypeOK /\ FlowLifetimes /\ SeenOfLive

(* Whoever applies every published delta in order has the engine's world:  *)
(* no change is left out of a delta, however it came about.                *)
MirrorFollows == mirror = prev

(* A generation is consumed exactly when the world a client replays        *)
(* changes: "the sequence of published updates is gap-free".               *)
GenerationCounts == [][generation' # generation <=> mirror' # mirror]_vars
=============================================================================
