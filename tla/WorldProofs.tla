---------------------------- MODULE WorldProofs ----------------------------
(***************************************************************************)
(* Proofs about CaptureEngine, for any flows, readings of the table,       *)
(* traffic, lifetimes and times between polls: a flow is shown exactly     *)
(* while its sightings say so, the published deltas rebuild the engine's   *)
(* world, and a generation is taken exactly when that world changes.       *)
(*                                                                         *)
(* Then about World, which acts on the published flows, for any tables,    *)
(* names, owners, feeds and policies: a plan targets what the rules say,   *)
(* and nothing at home; what leaves the machine tells nothing of home;     *)
(* the answers are true; and the firewall is as far as its file was run.   *)
(***************************************************************************)
EXTENDS CaptureEngine, World, FiniteSetTheorems, SequenceTheorems, TLAPS

(* By a name, because FiniteSetTheorems extends it too.                    *)
W == INSTANCE WellFoundedInduction

-----------------------------------------------------------------------------
(* The inductive invariant                                                 *)

Capped(n, cap) == IF n < cap THEN n ELSE cap

(* udp_seen has the age of the last row of every UDP flow that had one     *)
(* within its TTL, whether or not the flow is still in the table.          *)
UdpAges == \A i \in Udp :
  IF i \in DOMAIN udpSeen THEN udpSeen[i] = Capped(sinceTable[i], UdpTtl)
                          ELSE sinceTable[i] >= UdpTtl

(* Packets alone keep the flow alive.                                      *)
ByPackets(i) ==
  sincePacket[i] < PktTtl /\ sincePacket[i] + TableGrace(i) <= sinceTable[i]

(* pkt_seen has the age of the last packet of every flow that packets      *)
(* alone keep alive, and no young entry of any other flow.                 *)
PktAges == \A i \in Id :
  IF i \in DOMAIN pktSeen
  THEN pktSeen[i] = Capped(sincePacket[i], PktTtl) /\ (sincePacket[i] < PktTtl => ByPackets(i))
  ELSE ~ByPackets(i)

IInv == TypeOK /\ UdpAges /\ PktAges /\ FlowLifetimes /\ SeenOfLive /\ MirrorFollows

-----------------------------------------------------------------------------
(* Partial functions, worlds and deltas                                    *)

(* What membership in a set of partial functions says.                     *)
LEMMA Partial ==
  ASSUME NEW X, NEW V, NEW f
  PROVE  f \in UNION {[S -> V] : S \in SUBSET X}
           <=> /\ f = [i \in DOMAIN f |-> f[i]] /\ DOMAIN f \subseteq X
               /\ \A i \in DOMAIN f : f[i] \in V
<1>1. ASSUME f \in UNION {[S -> V] : S \in SUBSET X}
      PROVE  /\ f = [i \in DOMAIN f |-> f[i]] /\ DOMAIN f \subseteq X
             /\ \A i \in DOMAIN f : f[i] \in V
  <2>1. PICK S \in SUBSET X : f \in [S -> V]
    BY <1>1
  <2> QED BY <2>1
<1>2. ASSUME f = [i \in DOMAIN f |-> f[i]], DOMAIN f \subseteq X,
             \A i \in DOMAIN f : f[i] \in V
      PROVE  f \in UNION {[S -> V] : S \in SUBSET X}
  <2>1. f \in [DOMAIN f -> V]
    BY <1>2
  <2> QED BY <2>1, <1>2
<1> QED BY <1>1, <1>2

(* A function given by its values on a set of flows.                       *)
LEMMA Made ==
  ASSUME NEW X, NEW V, NEW S \in SUBSET X, NEW f \in [S -> V]
  PROVE  f \in UNION {[T -> V] : T \in SUBSET X}
OBVIOUS

(* A nonempty set of numbers has a least one.                              *)
LEMMA LeastOne ==
  ASSUME NEW T, T \subseteq Nat, T # {}
  PROVE  \E k \in T : \A l \in T : k <= l
<1> DEFINE R == W!OpToRel(<, Nat)
<1>1. W!IsWellFoundedOn(R, Nat)
  BY Zenon, W!NatLessThanWellFounded
<1>2. \A m, n \in Nat : m < n => <<m, n>> \in R
  BY Zenon DEF W!OpToRel
<1> HIDE DEF R
<1>3. PICK k \in T : \A l \in T : ~(<<l, k>> \in R)
  BY <1>1, W!WFMin
<1>4. ASSUME NEW l \in T PROVE k <= l
  <2>1. ~(l < k)
    BY <1>2, <1>3
  <2> QED BY <2>1
<1> QED BY <1>4

(* The table yields a world whose flows all have their process.            *)
LEMMA TableIsWorld ==
  ASSUME NEW rows \in Reading
  PROVE  TableFlows(rows) \in World
<1> DEFINE Of(i) == {k \in DOMAIN rows : rows[k].connected /\ rows[k].id = i}
           First(i) == CHOOSE k \in Of(i) : \A l \in Of(i) : k <= l
           S == {j \in Id : Of(j) # {}}
<1>1. rows \in Seq(Row)
  BY CaptureAssumption
<1>2. DOMAIN rows \subseteq Nat /\ \A k \in DOMAIN rows : rows[k] \in Row
  BY <1>1
<1>3. ASSUME NEW i \in S
      PROVE  [activity |-> rows[First(i)].activity, attributed |-> TRUE] \in Flow
  <2>1. Of(i) # {} /\ Of(i) \subseteq Nat
    BY <1>2
  <2>2. \E k \in Of(i) : \A l \in Of(i) : k <= l
    BY <2>1, LeastOne
  <2>3. First(i) \in Of(i)
    BY <2>2
  <2>4. rows[First(i)] \in Row
    BY <2>3, <1>2
  <2> QED BY <2>4 DEF Row, Flow
<1>4. TableFlows(rows) = [i \in S |-> [activity |-> rows[First(i)].activity, attributed |-> TRUE]]
  BY DEF TableFlows
<1>5. TableFlows(rows) \in [S -> Flow]
  BY <1>3, <1>4
<1> QED BY <1>5, Made DEF World

(* Whoever has the old world and applies the delta has the new one.        *)
LEMMA ReplayDiff ==
  ASSUME NEW old \in World, NEW new \in World
  PROVE  Replay(old, Diff(old, new)) = new
<1>1. new = [i \in DOMAIN new |-> new[i]]
  BY Partial DEF World
<1> DEFINE delta == Diff(old, new)
<1>2. /\ delta.adds = [i \in DOMAIN new \ DOMAIN old |-> new[i]]
      /\ delta.updates = [i \in {j \in DOMAIN new \cap DOMAIN old : new[j] # old[j]} |-> new[i]]
      /\ delta.removes = DOMAIN old \ DOMAIN new
  BY DEF Diff
<1>3. DOMAIN delta.adds = DOMAIN new \ DOMAIN old
  BY <1>2
<1>4. DOMAIN delta.updates = {j \in DOMAIN new \cap DOMAIN old : new[j] # old[j]}
  BY <1>2
<1>5. (DOMAIN old \cup DOMAIN delta.adds \cup DOMAIN delta.updates) \ delta.removes = DOMAIN new
  BY <1>2, <1>3, <1>4
<1>6. ASSUME NEW i \in DOMAIN new
      PROVE  (IF i \in DOMAIN delta.adds THEN delta.adds[i]
              ELSE IF i \in DOMAIN delta.updates THEN delta.updates[i] ELSE old[i]) = new[i]
  BY <1>2, <1>3, <1>4
<1> HIDE DEF delta
<1>7. Replay(old, delta) =
        [i \in DOMAIN new |-> IF i \in DOMAIN delta.adds THEN delta.adds[i]
              ELSE IF i \in DOMAIN delta.updates THEN delta.updates[i] ELSE old[i]]
  BY <1>5 DEF Replay
<1>8. Replay(old, delta) = [i \in DOMAIN new |-> new[i]]
  BY <1>6, <1>7
<1> QED BY <1>1, <1>8 DEF delta

(* The delta of two worlds is empty exactly when they are the same.        *)
LEMMA EmptyDiff ==
  ASSUME NEW old \in World, NEW new \in World
  PROVE  IsEmpty(Diff(old, new)) <=> old = new
<1>1. /\ new = [i \in DOMAIN new |-> new[i]] /\ old = [i \in DOMAIN old |-> old[i]]
  BY Partial DEF World
<1>2. IsEmpty(Diff(old, new)) <=>
        /\ DOMAIN new \ DOMAIN old = {} /\ DOMAIN old \ DOMAIN new = {}
        /\ {j \in DOMAIN new \cap DOMAIN old : new[j] # old[j]} = {}
  BY DEF IsEmpty, Diff
<1>3. ASSUME IsEmpty(Diff(old, new)) PROVE old = new
  <2>1. DOMAIN old = DOMAIN new
    BY <1>2, <1>3
  <2>2. \A i \in DOMAIN new : old[i] = new[i]
    BY <1>2, <1>3
  <2> QED BY <1>1, <2>1, <2>2
<1>4. ASSUME old = new PROVE IsEmpty(Diff(old, new))
  BY <1>2, <1>4
<1> QED BY <1>3, <1>4

-----------------------------------------------------------------------------
(* The pieces of a poll                                                    *)

Ages(S, ttl) == UNION {[T -> 0..ttl] : T \in SUBSET S}

(* Ageing keeps the entries and adds the time that has passed.             *)
LEMMA OlderIs ==
  ASSUME NEW ages, NEW dt, NEW cap
  PROVE  /\ DOMAIN Older(ages, dt, cap) = DOMAIN ages
         /\ \A i \in DOMAIN ages : Older(ages, dt, cap)[i] = Capped(ages[i] + dt, cap)
BY DEF Older, Capped

(* An age stays within its cap.                                            *)
LEMMA CappedAge ==
  ASSUME NEW n \in Nat, NEW cap \in Nat
  PROVE  Capped(n, cap) \in 0..cap
BY DEF Capped

LEMMA OlderAges ==
  ASSUME NEW S, NEW ttl \in Nat, NEW ages \in Ages(S, ttl), NEW dt \in Nat
  PROVE  Older(ages, dt, ttl) \in Ages(S, ttl)
<1>1. /\ DOMAIN ages \subseteq S /\ \A i \in DOMAIN ages : ages[i] \in 0..ttl
  BY Partial DEF Ages
<1>2. ASSUME NEW i \in DOMAIN ages
      PROVE  (IF ages[i] + dt < ttl THEN ages[i] + dt ELSE ttl) \in 0..ttl
  BY <1>1
<1>3. Older(ages, dt, ttl) \in [DOMAIN ages -> 0..ttl]
  BY <1>2 DEF Older
<1> QED BY <1>1, <1>3, Made DEF Ages

(* Rows put the age of a UDP flow back to 0.                               *)
LEMMA SeenInTableIs ==
  ASSUME NEW tb, NEW before
  PROVE  /\ DOMAIN SeenInTable(tb, before) = DOMAIN before \cup (DOMAIN tb \cap Udp)
         /\ \A i \in DOMAIN before \cup (DOMAIN tb \cap Udp) :
              /\ i \in DOMAIN tb => SeenInTable(tb, before)[i] = 0
              /\ i \notin DOMAIN tb => SeenInTable(tb, before)[i] = before[i]
BY DEF SeenInTable

LEMMA SeenInTableAges ==
  ASSUME NEW table, NEW ages \in Ages(Udp, UdpTtl)
  PROVE  SeenInTable(table, ages) \in Ages(Udp, UdpTtl)
<1>1. /\ DOMAIN ages \subseteq Udp /\ \A i \in DOMAIN ages : ages[i] \in 0..UdpTtl
  BY Partial DEF Ages
<1> DEFINE S == DOMAIN ages \cup (DOMAIN table \cap Udp)
<1>2. ASSUME NEW i \in S
      PROVE  (IF i \in DOMAIN table THEN 0 ELSE ages[i]) \in 0..UdpTtl
  <2>1. 0 \in 0..UdpTtl
    BY CaptureAssumption
  <2> QED BY <1>1, <2>1
<1>3. SeenInTable(table, ages) \in [S -> 0..UdpTtl]
  BY <1>2 DEF SeenInTable
<1>4. S \in SUBSET Udp
  BY <1>1
<1> QED BY <1>3, <1>4, Made DEF Ages

(* The flows the table and its TTL show.                                   *)
LEMMA CarryForwardIs ==
  ASSUME prev \in World, NEW table \in World, NEW seen
  PROVE  /\ CarryForward(table, seen) \in World
         /\ \A i : i \in DOMAIN CarryForward(table, seen) <=>
              \/ i \in DOMAIN table
              \/ i \in DOMAIN prev /\ i \in Udp /\ i \in DOMAIN seen /\ seen[i] < UdpTtl
<1> DEFINE carried == {i \in (DOMAIN prev \cap Udp) \ DOMAIN table : Fresh(i, seen, UdpTtl)}
           S == DOMAIN table \cup carried
<1>1. CarryForward(table, seen) = [i \in S |-> IF i \in DOMAIN table THEN table[i] ELSE prev[i]]
  BY DEF CarryForward
<1>2. /\ DOMAIN prev \subseteq Id /\ \A i \in DOMAIN prev : prev[i] \in Flow
      /\ DOMAIN table \subseteq Id /\ \A i \in DOMAIN table : table[i] \in Flow
  BY Partial DEF World
<1>3. CarryForward(table, seen) \in [S -> Flow] /\ S \in SUBSET Id
  BY <1>1, <1>2
<1>4. CarryForward(table, seen) \in World
  BY <1>3, Made DEF World
<1>5. ASSUME NEW i
      PROVE  i \in S <=> \/ i \in DOMAIN table
                         \/ i \in DOMAIN prev /\ i \in Udp /\ i \in DOMAIN seen /\ seen[i] < UdpTtl
  BY DEF Fresh
<1> QED BY <1>1, <1>4, <1>5

(* Packet-only entries: those of flows that are not known, young again     *)
(* with a packet.                                                          *)
LEMMA SeenOnWireIs ==
  ASSUME NEW known, NEW traffic, NEW ages
  PROVE  /\ DOMAIN SeenOnWire(known, traffic, Graduate(known, ages))
               = (DOMAIN ages \cup DOMAIN traffic) \ DOMAIN known
         /\ \A i \in (DOMAIN ages \cup DOMAIN traffic) \ DOMAIN known :
              /\ i \in DOMAIN traffic => SeenOnWire(known, traffic, Graduate(known, ages))[i] = 0
              /\ i \notin DOMAIN traffic =>
                   SeenOnWire(known, traffic, Graduate(known, ages))[i] = ages[i]
<1> DEFINE left == Graduate(known, ages)
           S == DOMAIN left \cup (DOMAIN traffic \ DOMAIN known)
<1>1. DOMAIN left = DOMAIN ages \ DOMAIN known /\ \A i \in DOMAIN left : left[i] = ages[i]
  BY DEF Graduate, Without
<1> HIDE DEF left
<1>2. SeenOnWire(known, traffic, left) = [i \in S |-> IF i \in DOMAIN traffic THEN 0 ELSE left[i]]
  BY DEF SeenOnWire
<1>3. S = (DOMAIN ages \cup DOMAIN traffic) \ DOMAIN known
  BY <1>1
<1>4. ASSUME NEW i \in S
      PROVE  /\ i \in DOMAIN traffic => SeenOnWire(known, traffic, left)[i] = 0
             /\ i \notin DOMAIN traffic => SeenOnWire(known, traffic, left)[i] = ages[i]
  BY <1>1, <1>2, <1>4
<1> QED BY <1>2, <1>3, <1>4 DEF left

LEMMA SeenOnWireAges ==
  ASSUME NEW known, NEW traffic, DOMAIN traffic \subseteq Id, NEW ages \in Ages(Id, PktTtl),
         NEW seen, seen = SeenOnWire(known, traffic, Graduate(known, ages))
  PROVE  seen \in Ages(Id, PktTtl)
<1>1. /\ DOMAIN ages \subseteq Id /\ \A i \in DOMAIN ages : ages[i] \in 0..PktTtl
  BY Partial DEF Ages
<1> DEFINE left == Graduate(known, ages)
           S == DOMAIN left \cup (DOMAIN traffic \ DOMAIN known)
<1>2. DOMAIN left \subseteq Id /\ \A i \in DOMAIN left : left[i] \in 0..PktTtl
  BY <1>1 DEF Graduate, Without
<1>3. ASSUME NEW i \in S
      PROVE  (IF i \in DOMAIN traffic THEN 0 ELSE left[i]) \in 0..PktTtl
  <2>1. 0 \in 0..PktTtl
    BY CaptureAssumption
  <2> QED BY <1>2, <2>1
<1>4. seen \in [S -> 0..PktTtl]
  BY <1>3 DEF SeenOnWire
<1>5. S \in SUBSET Id
  BY <1>2
<1> QED BY <1>4, <1>5, Made DEF Ages

(* Packets add flows to the known ones and change no other.                *)
LEMMA MergeTrafficIs ==
  ASSUME NEW known \in World, NEW traffic \in Traffic
  PROVE  /\ MergeTraffic(known, traffic) \in World
         /\ DOMAIN MergeTraffic(known, traffic) = DOMAIN known \cup DOMAIN traffic
<1> DEFINE S == DOMAIN known \cup DOMAIN traffic
           Merged(i) == IF i \notin DOMAIN known
                        THEN [activity |-> traffic[i], attributed |-> FALSE]
                        ELSE IF i \notin DOMAIN traffic THEN known[i]
                        ELSE [known[i] EXCEPT !.activity = Bigger(@, traffic[i])]
<1>1. MergeTraffic(known, traffic) = [i \in S |-> Merged(i)]
  BY DEF MergeTraffic
<1>2. DOMAIN known \subseteq Id /\ \A i \in DOMAIN known : known[i] \in Flow
  BY Partial DEF World
<1>3. traffic \in UNION {[T -> 1..MaxActivity] : T \in SUBSET Id}
  BY CaptureAssumption
<1>4. DOMAIN traffic \subseteq Id /\ \A i \in DOMAIN traffic : traffic[i] \in 1..MaxActivity
  BY <1>3, Partial
<1>5. ASSUME NEW i \in S PROVE Merged(i) \in Flow
  <2>1. CASE i \notin DOMAIN known
    BY <2>1, <1>4 DEF Flow
  <2>2. CASE i \in DOMAIN known /\ i \notin DOMAIN traffic
    BY <2>2, <1>2
  <2>3. CASE i \in DOMAIN known /\ i \in DOMAIN traffic
    <3>1. known[i] \in Flow /\ traffic[i] \in 1..MaxActivity
      BY <2>3, <1>2, <1>4
    <3>2. Bigger(known[i].activity, traffic[i]) \in 1..MaxActivity
      BY <3>1 DEF Bigger, Flow
    <3>3. [known[i] EXCEPT !.activity = Bigger(@, traffic[i])] \in Flow
      BY <3>1, <3>2 DEF Flow
    <3> QED BY <2>3, <3>3
  <2> QED BY <2>1, <2>2, <2>3
<1> HIDE DEF Merged
<1>6. MergeTraffic(known, traffic) \in [S -> Flow]
  BY <1>1, <1>5
<1>7. S \in SUBSET Id
  BY <1>2, <1>4
<1> QED BY <1>1, <1>6, <1>7, Made DEF World

(* The world of a poll: what is known, what packets show now, and what     *)
(* they showed within their TTL.                                           *)
LEMMA LingerIs ==
  ASSUME prev \in World, NEW merged \in World, NEW seen
  PROVE  /\ Linger(merged, seen) \in World
         /\ \A i : i \in DOMAIN Linger(merged, seen) <=>
              \/ i \in DOMAIN merged
              \/ i \in DOMAIN prev /\ i \in DOMAIN seen /\ seen[i] < PktTtl
<1> DEFINE lingering == {i \in DOMAIN prev \ DOMAIN merged : Fresh(i, seen, PktTtl)}
           S == DOMAIN merged \cup lingering
<1>1. Linger(merged, seen) = [i \in S |-> IF i \in DOMAIN merged THEN merged[i] ELSE prev[i]]
  BY DEF Linger
<1>2. /\ DOMAIN prev \subseteq Id /\ \A i \in DOMAIN prev : prev[i] \in Flow
      /\ DOMAIN merged \subseteq Id /\ \A i \in DOMAIN merged : merged[i] \in Flow
  BY Partial DEF World
<1>3. Linger(merged, seen) \in [S -> Flow] /\ S \in SUBSET Id
  BY <1>1, <1>2
<1>4. Linger(merged, seen) \in World
  BY <1>3, Made DEF World
<1>5. ASSUME NEW i
      PROVE  i \in S <=> \/ i \in DOMAIN merged
                         \/ i \in DOMAIN prev /\ i \in DOMAIN seen /\ seen[i] < PktTtl
  BY DEF Fresh
<1> QED BY <1>1, <1>4, <1>5

(* Entries of the flows that leave are dropped, the others stay.           *)
LEMMA DropIs ==
  ASSUME NEW ages, NEW gone
  PROVE  /\ DOMAIN DropEntries(ages, gone) = DOMAIN ages \ gone
         /\ \A i \in DOMAIN ages \ gone : DropEntries(ages, gone)[i] = ages[i]
BY DEF DropEntries, Without

LEMMA DropAges ==
  ASSUME NEW S, NEW ttl, NEW ages \in Ages(S, ttl), NEW gone
  PROVE  DropEntries(ages, gone) \in Ages(S, ttl)
<1>1. DOMAIN ages \subseteq S /\ \A i \in DOMAIN ages : ages[i] \in 0..ttl
  BY Partial DEF Ages
<1>2. DropEntries(ages, gone) = [i \in DOMAIN ages \ gone |-> ages[i]]
  BY DEF DropEntries, Without
<1>3. DropEntries(ages, gone) \in [DOMAIN ages \ gone -> 0..ttl] /\ DOMAIN ages \ gone \in SUBSET S
  BY <1>1, <1>2
<1> QED BY <1>2, <1>3, Made DEF Ages

-----------------------------------------------------------------------------
(* Ages as time passes                                                     *)

(* An age kept up to its TTL is the flow's true age up to that TTL.        *)
LEMMA CappedTwice ==
  ASSUME NEW n \in Nat, NEW dt \in Nat, NEW cap \in Nat, NEW big \in Nat, cap <= big
  PROVE  Capped(Capped(n, cap) + dt, cap) = Capped(Capped(n + dt, big), cap)
BY DEF Capped

(* While the last packet is young, which came last, it or the row, is told *)
(* the same after any time.                                                *)
LEMMA SameOrder ==
  ASSUME NEW packet \in Nat, NEW row \in Nat, NEW dt \in Nat, NEW grace \in 1..UdpTtl,
         Capped(packet + dt, LongAgo) < PktTtl
  PROVE  Capped(packet + dt, LongAgo) + grace <= Capped(row + dt, LongAgo)
           <=> packet + grace <= row
BY CaptureAssumption DEF Capped, LongAgo

LEMMA Constants ==
  /\ UdpTtl \in Nat /\ UdpTtl > 0 /\ PktTtl \in Nat /\ PktTtl > 0
  /\ LongAgo \in Nat /\ UdpTtl <= LongAgo /\ PktTtl <= LongAgo
  /\ \A dt \in Steps : dt \in Nat /\ dt > 0
  /\ \A i : TableGrace(i) \in 1..UdpTtl
BY CaptureAssumption DEF LongAgo, TableGrace

-----------------------------------------------------------------------------
(* A poll                                                                  *)

(* Before the first poll nothing is shown, seen or published.              *)
LEMMA InitInv == Init => IInv
<1> SUFFICES ASSUME Init PROVE IInv
  OBVIOUS
<1> USE Constants DEF Init
<1>1. NoFlows \in World /\ NoFlows \in Ages(Udp, UdpTtl) /\ NoFlows \in Ages(Id, PktTtl)
  <2>1. \A V : NoFlows \in [{} -> V]
    BY DEF NoFlows
  <2>2. {} \in SUBSET Id /\ {} \in SUBSET Udp
    OBVIOUS
  <2> QED BY <2>1, <2>2, Made DEF World, Ages
<1>2. DOMAIN NoFlows = {}
  BY DEF NoFlows
<1>3. generation \in 0..(GenModulus - 1)
  BY CaptureAssumption
<1>4. sinceTable \in [Id -> 0..LongAgo] /\ sincePacket \in [Id -> 0..LongAgo]
  <2>1. LongAgo \in 0..LongAgo
    OBVIOUS
  <2> QED BY <2>1
<1>5. TypeOK
  BY <1>1, <1>3, <1>4 DEF TypeOK, Ages
<1>6. UdpAges
  BY <1>2 DEF UdpAges, Id
<1>7. PktAges
  BY <1>2 DEF PktAges, ByPackets
<1>8. FlowLifetimes /\ SeenOfLive /\ MirrorFollows
  BY <1>2 DEF FlowLifetimes, SeenOfLive, MirrorFollows
<1> QED BY <1>5, <1>6, <1>7, <1>8 DEF IInv

(* The history variables after a step in which dt passes and the flows of  *)
(* S are sighted.                                                          *)
LEMMA SinceIs ==
  ASSUME NEW since \in [Id -> 0..LongAgo], NEW dt \in Steps, NEW S, NEW after,
         after = [i \in Id |-> IF i \in S THEN 0 ELSE Older(since, dt, LongAgo)[i]]
  PROVE  /\ after \in [Id -> 0..LongAgo]
         /\ \A i \in Id : /\ i \in S => after[i] = 0
                          /\ i \notin S => after[i] = Capped(since[i] + dt, LongAgo)
<1> USE Constants
<1>1. \A i \in Id : Older(since, dt, LongAgo)[i] = Capped(since[i] + dt, LongAgo)
  BY OlderIs
<1>2. \A i \in Id : Capped(since[i] + dt, LongAgo) \in 0..LongAgo
  <2>1. \A i \in Id : since[i] + dt \in Nat
    OBVIOUS
  <2> QED BY <2>1, CappedAge
<1>3. 0 \in 0..LongAgo
  OBVIOUS
<1> QED BY <1>1, <1>2, <1>3

UdpAfter(dt, rows) == SeenInTable(TableFlows(rows), Older(udpSeen, dt, UdpTtl))
Known(dt, rows) == CarryForward(TableFlows(rows), UdpAfter(dt, rows))
PktAfter(dt, rows, traffic) ==
  SeenOnWire(Known(dt, rows), traffic, Graduate(Known(dt, rows), Older(pktSeen, dt, PktTtl)))

(* What a poll's world and entries are, flow by flow.                      *)
LEMMA PollIs ==
  ASSUME IInv, NEW dt \in Steps, NEW rows \in Reading, NEW traffic \in Traffic,
         PollAt(dt, rows, traffic)
  PROVE  LET table == TableFlows(rows)
             known == Known(dt, rows)
             udp == UdpAfter(dt, rows)
             pkt == PktAfter(dt, rows, traffic)
             gone == DOMAIN prev \ DOMAIN prev'
         IN
         /\ prev' \in World
         /\ udp \in Ages(Udp, UdpTtl) /\ pkt \in Ages(Id, PktTtl)
         /\ udpSeen' = DropEntries(udp, gone) /\ pktSeen' = DropEntries(pkt, gone)
         /\ generation' = NextGeneration(Diff(prev, prev'))
         /\ mirror' = Replay(mirror, Diff(prev, prev'))
         /\ DOMAIN udp = DOMAIN udpSeen \cup (DOMAIN table \cap Udp)
         /\ \A i \in DOMAIN udp :
              /\ i \in DOMAIN table => udp[i] = 0
              /\ i \notin DOMAIN table => udp[i] = Capped(udpSeen[i] + dt, UdpTtl)
         /\ \A i : i \in DOMAIN known <=>
              \/ i \in DOMAIN table
              \/ i \in DOMAIN prev /\ i \in Udp /\ i \in DOMAIN udp /\ udp[i] < UdpTtl
         /\ DOMAIN pkt = (DOMAIN pktSeen \cup DOMAIN traffic) \ DOMAIN known
         /\ \A i \in DOMAIN pkt :
              /\ i \in DOMAIN traffic => pkt[i] = 0
              /\ i \notin DOMAIN traffic => pkt[i] = Capped(pktSeen[i] + dt, PktTtl)
         /\ \A i : i \in DOMAIN prev' <=>
              \/ i \in DOMAIN known
              \/ i \in DOMAIN traffic
              \/ i \in DOMAIN prev /\ i \in DOMAIN pkt /\ pkt[i] < PktTtl
<1> DEFINE table == TableFlows(rows)
           olderUdp == Older(udpSeen, dt, UdpTtl)
           udp == SeenInTable(table, olderUdp)
           known == CarryForward(table, udp)
           olderPkt == Older(pktSeen, dt, PktTtl)
           pkt == SeenOnWire(known, traffic, Graduate(known, olderPkt))
           merged == MergeTraffic(known, traffic)
           gone == DOMAIN prev \ DOMAIN prev'
<1> USE Constants
<1>0. prev \in World /\ udpSeen \in Ages(Udp, UdpTtl) /\ pktSeen \in Ages(Id, PktTtl)
  BY DEF IInv, TypeOK, Ages
<1>1. prev' = Linger(merged, pkt)
  BY DEF PollAt
<1>2. Diff(prev, prev').removes = gone
  BY DEF Diff
<1>3. /\ udpSeen' = DropEntries(udp, gone) /\ pktSeen' = DropEntries(pkt, gone)
      /\ generation' = NextGeneration(Diff(prev, prev'))
      /\ mirror' = Replay(mirror, Diff(prev, prev'))
  BY <1>1, <1>2 DEF PollAt
<1>4. table \in World
  BY TableIsWorld
<1>5. olderUdp \in Ages(Udp, UdpTtl) /\ olderPkt \in Ages(Id, PktTtl)
  BY <1>0, OlderAges
<1>6. /\ DOMAIN olderUdp = DOMAIN udpSeen
      /\ \A i \in DOMAIN udpSeen : olderUdp[i] = Capped(udpSeen[i] + dt, UdpTtl)
      /\ DOMAIN olderPkt = DOMAIN pktSeen
      /\ \A i \in DOMAIN pktSeen : olderPkt[i] = Capped(pktSeen[i] + dt, PktTtl)
  BY OlderIs
<1>7. DOMAIN traffic \subseteq Id
  BY CaptureAssumption, Partial
<1> HIDE DEF table, olderUdp, olderPkt
<1>8. udp \in Ages(Udp, UdpTtl)
  BY <1>5, SeenInTableAges
<1>9. /\ DOMAIN udp = DOMAIN olderUdp \cup (DOMAIN table \cap Udp)
      /\ \A i \in DOMAIN olderUdp \cup (DOMAIN table \cap Udp) :
           /\ i \in DOMAIN table => udp[i] = 0
           /\ i \notin DOMAIN table => udp[i] = olderUdp[i]
  BY SeenInTableIs
<1> HIDE DEF udp
<1>10. known \in World /\ \A i : i \in DOMAIN known <=>
         \/ i \in DOMAIN table
         \/ i \in DOMAIN prev /\ i \in Udp /\ i \in DOMAIN udp /\ udp[i] < UdpTtl
  BY <1>0, <1>4, CarryForwardIs
<1> HIDE DEF known
<1>11. pkt \in Ages(Id, PktTtl)
  BY <1>5, <1>7, SeenOnWireAges
<1>12. /\ DOMAIN pkt = (DOMAIN olderPkt \cup DOMAIN traffic) \ DOMAIN known
       /\ \A i \in DOMAIN pkt : /\ i \in DOMAIN traffic => pkt[i] = 0
                                /\ i \notin DOMAIN traffic => pkt[i] = olderPkt[i]
  <2>1. /\ DOMAIN pkt = (DOMAIN olderPkt \cup DOMAIN traffic) \ DOMAIN known
        /\ \A i \in (DOMAIN olderPkt \cup DOMAIN traffic) \ DOMAIN known :
             /\ i \in DOMAIN traffic => pkt[i] = 0
             /\ i \notin DOMAIN traffic => pkt[i] = olderPkt[i]
    BY SeenOnWireIs
  <2> HIDE DEF pkt
  <2> QED BY <2>1
<1>13. merged \in World /\ DOMAIN merged = DOMAIN known \cup DOMAIN traffic
  BY <1>10, MergeTrafficIs
<1> HIDE DEF pkt, merged
<1>14. prev' \in World /\ \A i : i \in DOMAIN prev' <=>
         \/ i \in DOMAIN merged
         \/ i \in DOMAIN prev /\ i \in DOMAIN pkt /\ pkt[i] < PktTtl
  <2> DEFINE current == Linger(merged, pkt)
  <2>1. current \in World /\ \A i : i \in DOMAIN current <=>
         \/ i \in DOMAIN merged
         \/ i \in DOMAIN prev /\ i \in DOMAIN pkt /\ pkt[i] < PktTtl
    BY <1>0, <1>13, LingerIs
  <2> HIDE DEF current
  <2>2. prev' = current
    BY <1>1 DEF current
  <2> QED BY <2>1, <2>2
<1>15. \A i \in DOMAIN udp :
         /\ i \in DOMAIN table => udp[i] = 0
         /\ i \notin DOMAIN table => udp[i] = Capped(udpSeen[i] + dt, UdpTtl)
  BY <1>6, <1>9
<1>16. /\ DOMAIN pkt = (DOMAIN pktSeen \cup DOMAIN traffic) \ DOMAIN known
       /\ \A i \in DOMAIN pkt :
            /\ i \in DOMAIN traffic => pkt[i] = 0
            /\ i \notin DOMAIN traffic => pkt[i] = Capped(pktSeen[i] + dt, PktTtl)
  BY <1>6, <1>12
<1>17. ASSUME NEW i
       PROVE  i \in DOMAIN prev' <=>
                \/ i \in DOMAIN known
                \/ i \in DOMAIN traffic
                \/ i \in DOMAIN prev /\ i \in DOMAIN pkt /\ pkt[i] < PktTtl
  BY <1>13, <1>14
<1>18. DOMAIN udp = DOMAIN udpSeen \cup (DOMAIN table \cap Udp)
  BY <1>6, <1>9
<1> HIDE DEF gone
<1>19. /\ table = TableFlows(rows) /\ udp = UdpAfter(dt, rows) /\ known = Known(dt, rows)
       /\ pkt = PktAfter(dt, rows, traffic) /\ gone = DOMAIN prev \ DOMAIN prev'
  BY DEF table, udp, known, pkt, gone, olderUdp, olderPkt, UdpAfter, Known, PktAfter
<1> QED BY <1>3, <1>8, <1>10, <1>11, <1>14, <1>15, <1>16, <1>17, <1>18, <1>19, Zenon

(* A successful poll keeps the invariant.                                  *)
LEMMA PollInv ==
  ASSUME IInv, NEW dt \in Steps, NEW rows \in Reading, NEW traffic \in Traffic,
         PollAt(dt, rows, traffic)
  PROVE  IInv'
<1> DEFINE table == TableFlows(rows)
           known == Known(dt, rows)
           udp == UdpAfter(dt, rows)
           pkt == PktAfter(dt, rows, traffic)
           gone == DOMAIN prev \ DOMAIN prev'
<1>0. /\ prev \in World /\ udpSeen \in Ages(Udp, UdpTtl) /\ pktSeen \in Ages(Id, PktTtl)
      /\ sinceTable \in [Id -> 0..LongAgo] /\ sincePacket \in [Id -> 0..LongAgo]
      /\ generation \in 0..(GenModulus - 1)
      /\ SeenOfLive /\ mirror = prev
  BY DEF IInv, TypeOK, Ages, MirrorFollows
<1>1. /\ prev' \in World
      /\ udp \in Ages(Udp, UdpTtl) /\ pkt \in Ages(Id, PktTtl)
      /\ udpSeen' = DropEntries(udp, gone) /\ pktSeen' = DropEntries(pkt, gone)
      /\ generation' = NextGeneration(Diff(prev, prev'))
      /\ mirror' = Replay(mirror, Diff(prev, prev'))
  <2>1. prev' \in World
    BY PollIs
  <2>2. udp \in Ages(Udp, UdpTtl) /\ pkt \in Ages(Id, PktTtl)
    BY PollIs
  <2>3. udpSeen' = DropEntries(udp, gone) /\ pktSeen' = DropEntries(pkt, gone)
    <3>1. udpSeen' = DropEntries(udp, gone)
      BY PollIs
    <3>2. pktSeen' = DropEntries(pkt, gone)
      <4>1. Diff(prev, prev').removes = gone
        BY DEF Diff
      <4> QED BY <4>1 DEF PollAt, PktAfter, Known, UdpAfter
    <3> QED BY <3>1, <3>2
  <2>4. generation' = NextGeneration(Diff(prev, prev'))
    BY PollIs
  <2>5. mirror' = Replay(mirror, Diff(prev, prev'))
    BY PollIs
  <2> QED BY <2>1, <2>2, <2>3, <2>4, <2>5
<1>11. /\ sinceTable' = [i \in Id |-> IF i \in DOMAIN table THEN 0
                                      ELSE Older(sinceTable, dt, LongAgo)[i]]
       /\ sincePacket' = [i \in Id |-> IF i \in DOMAIN traffic THEN 0
                                       ELSE Older(sincePacket, dt, LongAgo)[i]]
       /\ polled' = TRUE
  BY DEF PollAt
<1>2. /\ DOMAIN udp = DOMAIN udpSeen \cup (DOMAIN table \cap Udp)
      /\ \A i \in DOMAIN udp :
           /\ i \in DOMAIN table => udp[i] = 0
           /\ i \notin DOMAIN table => udp[i] = Capped(udpSeen[i] + dt, UdpTtl)
  BY PollIs
<1>3. \A i : i \in DOMAIN known <=>
        \/ i \in DOMAIN table
        \/ i \in DOMAIN prev /\ i \in Udp /\ i \in DOMAIN udp /\ udp[i] < UdpTtl
  BY PollIs
<1>4. /\ DOMAIN pkt = (DOMAIN pktSeen \cup DOMAIN traffic) \ DOMAIN known
      /\ \A i \in DOMAIN pkt :
           /\ i \in DOMAIN traffic => pkt[i] = 0
           /\ i \notin DOMAIN traffic => pkt[i] = Capped(pktSeen[i] + dt, PktTtl)
  BY PollIs
<1>5. \A i : i \in DOMAIN prev' <=>
        \/ i \in DOMAIN known
        \/ i \in DOMAIN traffic
        \/ i \in DOMAIN prev /\ i \in DOMAIN pkt /\ pkt[i] < PktTtl
  BY PollIs
<1> HIDE DEF table, known, udp, pkt
<1>6. /\ udpSeen' \in Ages(Udp, UdpTtl) /\ DOMAIN udpSeen' = DOMAIN udp \ gone
      /\ \A i \in DOMAIN udp \ gone : udpSeen'[i] = udp[i]
  <2> DEFINE kept == DropEntries(udp, gone)
  <2>1. /\ kept \in Ages(Udp, UdpTtl) /\ DOMAIN kept = DOMAIN udp \ gone
        /\ \A i \in DOMAIN udp \ gone : kept[i] = udp[i]
    BY <1>1, DropIs, DropAges
  <2>2. udpSeen' = kept
    BY <1>1
  <2> HIDE DEF kept
  <2> QED BY <2>1, <2>2
<1>7. /\ pktSeen' \in Ages(Id, PktTtl) /\ DOMAIN pktSeen' = DOMAIN pkt \ gone
      /\ \A i \in DOMAIN pkt \ gone : pktSeen'[i] = pkt[i]
  <2> DEFINE kept == DropEntries(pkt, gone)
  <2>1. /\ kept \in Ages(Id, PktTtl) /\ DOMAIN kept = DOMAIN pkt \ gone
        /\ \A i \in DOMAIN pkt \ gone : kept[i] = pkt[i]
    BY <1>1, DropIs, DropAges
  <2>2. pktSeen' = kept
    BY <1>1
  <2> HIDE DEF kept
  <2> QED BY <2>1, <2>2
<1>8. /\ sinceTable' \in [Id -> 0..LongAgo]
      /\ \A i \in Id : /\ i \in DOMAIN table => sinceTable'[i] = 0
                       /\ i \notin DOMAIN table => sinceTable'[i] = Capped(sinceTable[i] + dt, LongAgo)
  BY <1>0, <1>11, SinceIs
<1>9. /\ sincePacket' \in [Id -> 0..LongAgo]
      /\ \A i \in Id : /\ i \in DOMAIN traffic => sincePacket'[i] = 0
                       /\ i \notin DOMAIN traffic => sincePacket'[i] = Capped(sincePacket[i] + dt, LongAgo)
  BY <1>0, <1>11, SinceIs
<1> HIDE DEF gone
<1>10. \A i : i \in gone <=> i \in DOMAIN prev /\ i \notin DOMAIN prev'
  BY DEF gone
<1> USE Constants
<1>12. ASSUME NEW i \in Id
       PROVE  i \in DOMAIN known <=> sinceTable'[i] < TableGrace(i)
  <2>1. CASE i \in DOMAIN table
    BY <2>1, <1>3, <1>8
  <2>2. CASE i \notin DOMAIN table /\ i \in Udp /\ i \in DOMAIN udpSeen
    <3>1. udpSeen[i] = Capped(sinceTable[i], UdpTtl)
      BY <2>2 DEF IInv, UdpAges
    <3>2. udp[i] = Capped(sinceTable'[i], UdpTtl)
      <4>1. sinceTable[i] \in Nat
        BY <1>0
      <4> QED BY <2>2, <3>1, <4>1, <1>2, <1>8, CappedTwice
    <3>3. i \in DOMAIN prev /\ i \in DOMAIN udp
      BY <2>2, <1>0, <1>2 DEF SeenOfLive
    <3>4. sinceTable'[i] \in Nat
      BY <1>8
    <3> QED BY <2>2, <3>2, <3>3, <3>4, <1>3 DEF Capped, TableGrace
  <2>3. CASE i \notin DOMAIN table /\ i \in Udp /\ i \notin DOMAIN udpSeen
    <3>1. sinceTable[i] >= UdpTtl /\ sinceTable[i] \in Nat
      BY <2>3, <1>0 DEF IInv, UdpAges
    <3>2. sinceTable'[i] >= UdpTtl
      BY <2>3, <3>1, <1>8 DEF Capped
    <3>3. i \notin DOMAIN udp
      BY <2>3, <1>2
    <3>4. sinceTable'[i] \in Nat
      BY <1>8
    <3> QED BY <2>3, <3>2, <3>3, <3>4, <1>3 DEF TableGrace
  <2>4. CASE i \notin DOMAIN table /\ i \notin Udp
    <3>1. sinceTable'[i] >= 1 /\ sinceTable'[i] \in Nat
      BY <2>4, <1>0, <1>8 DEF Capped
    <3> QED BY <2>4, <3>1, <1>3 DEF TableGrace
  <2> QED BY <2>1, <2>2, <2>3, <2>4
<1>13. UdpAges'
  <2> SUFFICES ASSUME NEW i \in Udp
               PROVE  IF i \in DOMAIN udpSeen' THEN udpSeen'[i] = Capped(sinceTable'[i], UdpTtl)
                                                ELSE sinceTable'[i] >= UdpTtl
    BY DEF UdpAges
  <2>0. i \in Id /\ sinceTable'[i] \in Nat /\ sinceTable[i] \in Nat /\ TableGrace(i) = UdpTtl
    BY <1>0, <1>8 DEF Id, TableGrace
  <2>1. CASE i \in DOMAIN udp /\ i \notin gone /\ i \in DOMAIN table
    BY <2>1, <2>0, <1>2, <1>6, <1>8 DEF Capped
  <2>2. CASE i \in DOMAIN udp /\ i \notin gone /\ i \notin DOMAIN table
    <3>1. i \in DOMAIN udpSeen
      BY <2>2, <1>2
    <3>2. udpSeen[i] = Capped(sinceTable[i], UdpTtl)
      BY <3>1 DEF IInv, UdpAges
    <3>3. udp[i] = Capped(sinceTable'[i], UdpTtl)
      <4>1. udp[i] = Capped(Capped(sinceTable[i], UdpTtl) + dt, UdpTtl)
        BY <2>2, <3>2, <1>2
      <4>2. sinceTable'[i] = Capped(sinceTable[i] + dt, LongAgo)
        BY <2>0, <2>2, <1>8
      <4>3. dt \in Nat
        OBVIOUS
      <4>4. Capped(Capped(sinceTable[i], UdpTtl) + dt, UdpTtl)
              = Capped(Capped(sinceTable[i] + dt, LongAgo), UdpTtl)
        BY <2>0, <4>3 DEF Capped
      <4> QED BY <4>1, <4>2, <4>4
    <3> QED BY <2>2, <3>3, <1>6
  <2>3. CASE i \in gone
    <3>1. i \notin DOMAIN known
      BY <2>3, <1>5, <1>10
    <3> QED BY <2>0, <2>3, <3>1, <1>6, <1>12
  <2>4. CASE i \notin DOMAIN udp
    <3>1. i \notin DOMAIN table /\ i \notin DOMAIN udpSeen
      BY <2>4, <1>2
    <3>2. sinceTable[i] >= UdpTtl
      BY <3>1 DEF IInv, UdpAges
    <3> QED BY <2>0, <2>4, <3>1, <3>2, <1>6, <1>8 DEF Capped
  <2> QED BY <2>1, <2>2, <2>3, <2>4
<1>14. ASSUME NEW i \in Id, i \notin DOMAIN known
       PROVE  /\ i \in DOMAIN pkt =>
                   /\ pkt[i] = Capped(sincePacket'[i], PktTtl)
                   /\ sincePacket'[i] < PktTtl => ByPackets(i)'
              /\ i \notin DOMAIN pkt => ~ByPackets(i)'
              /\ i \in DOMAIN pkt => i \in DOMAIN traffic \/ i \in DOMAIN prev
  <2>0. /\ sincePacket[i] \in Nat /\ sincePacket'[i] \in Nat
        /\ sinceTable[i] \in Nat /\ sinceTable'[i] \in Nat /\ TableGrace(i) \in 1..UdpTtl
    BY <1>0, <1>8, <1>9
  <2>1. sinceTable'[i] >= TableGrace(i)
    BY <2>0, <1>12, <1>14
  <2>2. sinceTable'[i] = Capped(sinceTable[i] + dt, LongAgo)
    BY <1>3, <1>8, <1>14
  <2>3. CASE i \in DOMAIN traffic
    <3>1. i \in DOMAIN pkt /\ pkt[i] = 0 /\ sincePacket'[i] = 0
      BY <2>3, <1>4, <1>9, <1>14
    <3> QED BY <2>0, <2>1, <2>3, <3>1 DEF ByPackets, Capped
  <2>4. CASE i \notin DOMAIN traffic
    <3>1. sincePacket'[i] = Capped(sincePacket[i] + dt, LongAgo)
      BY <2>4, <1>9
    <3>2. sincePacket'[i] < PktTtl =>
            (sincePacket'[i] + TableGrace(i) <= sinceTable'[i]
               <=> sincePacket[i] + TableGrace(i) <= sinceTable[i])
      BY <2>0, <2>2, <3>1, SameOrder
    <3>3. sincePacket'[i] < PktTtl => sincePacket[i] < PktTtl
      BY <2>0, <3>1 DEF Capped
    <3>4. sincePacket'[i] < PktTtl => (ByPackets(i)' <=> ByPackets(i))
      BY <3>2, <3>3 DEF ByPackets
    <3>5. i \in DOMAIN pkt <=> i \in DOMAIN pktSeen
      BY <2>4, <1>4, <1>14
    <3>6. CASE i \in DOMAIN pktSeen
      <4>1. pktSeen[i] = Capped(sincePacket[i], PktTtl) /\ (sincePacket[i] < PktTtl => ByPackets(i))
        BY <3>6 DEF IInv, PktAges
      <4>2. pkt[i] = Capped(Capped(sincePacket[i], PktTtl) + dt, PktTtl)
        BY <2>4, <3>5, <3>6, <4>1, <1>4
      <4>3. pkt[i] = Capped(sincePacket'[i], PktTtl)
        <5>1. dt \in Nat
          OBVIOUS
        <5>2. Capped(Capped(sincePacket[i], PktTtl) + dt, PktTtl)
                = Capped(Capped(sincePacket[i] + dt, LongAgo), PktTtl)
          BY <2>0, <5>1 DEF Capped
        <5> QED BY <3>1, <4>2, <5>2
      <4>4. i \in DOMAIN prev
        BY <3>6, <1>0 DEF SeenOfLive
      <4> QED BY <3>3, <3>4, <3>5, <3>6, <4>1, <4>3, <4>4
    <3>7. CASE i \notin DOMAIN pktSeen
      <4>1. ~ByPackets(i)
        BY <3>7 DEF IInv, PktAges
      <4>2. ~ByPackets(i)'
        BY <3>4, <4>1 DEF ByPackets
      <4> QED BY <3>5, <3>7, <4>2
    <3> QED BY <3>6, <3>7
  <2> QED BY <2>3, <2>4
<1>15. PktAges'
  <2> SUFFICES ASSUME NEW i \in Id
               PROVE  IF i \in DOMAIN pktSeen'
                      THEN /\ pktSeen'[i] = Capped(sincePacket'[i], PktTtl)
                           /\ sincePacket'[i] < PktTtl => ByPackets(i)'
                      ELSE ~ByPackets(i)'
    BY DEF PktAges
  <2>0. /\ sincePacket'[i] \in Nat /\ sinceTable'[i] \in Nat /\ TableGrace(i) \in 1..UdpTtl
    BY <1>8, <1>9
  <2>1. CASE i \in DOMAIN known
    <3>1. i \notin DOMAIN pktSeen'
      BY <2>1, <1>4, <1>7
    <3> QED BY <2>0, <2>1, <3>1, <1>12 DEF ByPackets
  <2>2. CASE i \notin DOMAIN known /\ i \in gone
    <3>1. i \notin DOMAIN pktSeen' /\ i \notin DOMAIN prev' /\ i \in DOMAIN prev
      BY <2>2, <1>7, <1>10
    <3>2. i \in DOMAIN pkt => ~(pkt[i] < PktTtl)
      BY <3>1, <1>5
    <3>3. ~ByPackets(i)'
      BY <2>0, <2>2, <3>2, <1>14 DEF ByPackets, Capped
    <3> QED BY <3>1, <3>3
  <2>3. CASE i \notin DOMAIN known /\ i \notin gone
    <3>1. /\ i \in DOMAIN pktSeen' <=> i \in DOMAIN pkt
          /\ i \in DOMAIN pkt => pktSeen'[i] = pkt[i]
      BY <2>3, <1>7
    <3> QED BY <2>3, <3>1, <1>14
  <2> QED BY <2>1, <2>2, <2>3
<1>16. FlowLifetimes'
  <2> SUFFICES ASSUME NEW i \in Id
               PROVE  i \in DOMAIN prev' <=>
                        \/ sinceTable'[i] < TableGrace(i) \/ ByPackets(i)'
    BY DEF FlowLifetimes, Alive, ByPackets
  <2>0. /\ sincePacket'[i] \in Nat /\ sinceTable'[i] \in Nat /\ TableGrace(i) \in 1..UdpTtl
    BY <1>8, <1>9
  <2>1. CASE i \in DOMAIN known
    BY <2>1, <1>5, <1>12
  <2>2. CASE i \notin DOMAIN known /\ i \in DOMAIN traffic
    <3>1. i \in DOMAIN pkt /\ sincePacket'[i] < PktTtl
      BY <2>2, <1>4, <1>9
    <3> QED BY <2>2, <3>1, <1>5, <1>14
  <2>3. CASE i \notin DOMAIN known /\ i \notin DOMAIN traffic
    <3>1. ~(sinceTable'[i] < TableGrace(i))
      BY <2>3, <1>12
    <3>2. CASE i \in DOMAIN pkt
      <4>1. pkt[i] < PktTtl <=> sincePacket'[i] < PktTtl
        BY <2>0, <2>3, <3>2, <1>14 DEF Capped
      <4>2. ByPackets(i)' <=> sincePacket'[i] < PktTtl
        BY <2>3, <3>2, <1>14 DEF ByPackets
      <4> QED BY <2>3, <3>1, <3>2, <4>1, <4>2, <1>5, <1>14
    <3>3. CASE i \notin DOMAIN pkt
      BY <2>3, <3>1, <3>3, <1>5, <1>14
    <3> QED BY <3>2, <3>3
  <2> QED BY <2>1, <2>2, <2>3
<1>17. SeenOfLive'
  <2>1. ASSUME NEW i \in DOMAIN udpSeen' PROVE i \in DOMAIN prev'
    <3>1. i \in DOMAIN udp /\ i \notin gone
      BY <1>6
    <3>2. i \in DOMAIN prev \/ i \in DOMAIN table
      BY <3>1, <1>0, <1>2 DEF SeenOfLive
    <3> QED BY <3>1, <3>2, <1>3, <1>5, <1>10
  <2>2. ASSUME NEW i \in DOMAIN pktSeen' PROVE i \in DOMAIN prev'
    <3>1. i \in DOMAIN pkt /\ i \notin gone
      BY <1>7
    <3>2. i \in DOMAIN prev \/ i \in DOMAIN traffic
      BY <3>1, <1>0, <1>4 DEF SeenOfLive
    <3> QED BY <3>1, <3>2, <1>5, <1>10
  <2> QED BY <2>1, <2>2 DEF SeenOfLive
<1>18. MirrorFollows'
  <2>1. Replay(prev, Diff(prev, prev')) = prev'
    BY <1>0, <1>1, ReplayDiff
  <2>2. mirror' = Replay(prev, Diff(prev, prev'))
    BY <1>0, <1>1
  <2>3. mirror' = prev'
    BY <2>1, <2>2
  <2> QED BY <2>3 DEF MirrorFollows
<1>19. TypeOK'
  <2>1. generation' \in 0..(GenModulus - 1)
    BY <1>0, <1>1, CaptureAssumption DEF NextGeneration
  <2>2. mirror' \in World
    BY <1>1, <1>18 DEF MirrorFollows
  <2> QED BY <2>1, <2>2, <1>1, <1>6, <1>7, <1>8, <1>9, <1>11 DEF TypeOK, Ages
<1> QED BY <1>13, <1>15, <1>16, <1>17, <1>18, <1>19 DEF IInv

(* A poll that fails keeps it too: everything only grows older.            *)
LEMMA FailedInv ==
  ASSUME IInv, NEW dt \in Steps, PollFails(dt)
  PROVE  IInv'
<1> USE Constants
<1>0. /\ prev \in World /\ udpSeen \in Ages(Udp, UdpTtl) /\ pktSeen \in Ages(Id, PktTtl)
      /\ sinceTable \in [Id -> 0..LongAgo] /\ sincePacket \in [Id -> 0..LongAgo]
      /\ SeenOfLive
  BY DEF IInv, TypeOK, Ages
<1>1. udpSeen' \in Ages(Udp, UdpTtl) /\ pktSeen' \in Ages(Id, PktTtl)
  BY <1>0, OlderAges DEF PollFails
<1>2. /\ DOMAIN udpSeen' = DOMAIN udpSeen
      /\ \A i \in DOMAIN udpSeen : udpSeen'[i] = Capped(udpSeen[i] + dt, UdpTtl)
  BY OlderIs DEF PollFails
<1>3. /\ DOMAIN pktSeen' = DOMAIN pktSeen
      /\ \A i \in DOMAIN pktSeen : pktSeen'[i] = Capped(pktSeen[i] + dt, PktTtl)
  BY OlderIs DEF PollFails
<1>4. /\ sinceTable' \in [Id -> 0..LongAgo]
      /\ \A i \in Id : sinceTable'[i] = Capped(sinceTable[i] + dt, LongAgo)
  <2>1. sinceTable' = [i \in Id |-> Capped(sinceTable[i] + dt, LongAgo)]
    BY <1>0 DEF PollFails, Older, Capped
  <2>2. \A i \in Id : sinceTable[i] + dt \in Nat
    BY <1>0
  <2>3. \A i \in Id : Capped(sinceTable[i] + dt, LongAgo) \in 0..LongAgo
    BY <2>2, CappedAge
  <2> QED BY <2>1, <2>3
<1>5. /\ sincePacket' \in [Id -> 0..LongAgo]
      /\ \A i \in Id : sincePacket'[i] = Capped(sincePacket[i] + dt, LongAgo)
  <2>1. sincePacket' = [i \in Id |-> Capped(sincePacket[i] + dt, LongAgo)]
    BY <1>0 DEF PollFails, Older, Capped
  <2>2. \A i \in Id : sincePacket[i] + dt \in Nat
    BY <1>0
  <2>3. \A i \in Id : Capped(sincePacket[i] + dt, LongAgo) \in 0..LongAgo
    BY <2>2, CappedAge
  <2> QED BY <2>1, <2>3
<1>6. polled' = FALSE /\ prev' = prev /\ generation' = generation /\ mirror' = mirror
  BY DEF PollFails
<1>7. TypeOK'
  BY <1>1, <1>4, <1>5, <1>6 DEF IInv, TypeOK, Ages
<1>8. UdpAges'
  <2> SUFFICES ASSUME NEW i \in Udp
               PROVE  IF i \in DOMAIN udpSeen' THEN udpSeen'[i] = Capped(sinceTable'[i], UdpTtl)
                                                ELSE sinceTable'[i] >= UdpTtl
    BY DEF UdpAges
  <2>1. i \in Id /\ sinceTable[i] \in Nat
    BY <1>0 DEF Id
  <2>2. CASE i \in DOMAIN udpSeen
    <3>1. udpSeen[i] = Capped(sinceTable[i], UdpTtl)
      BY <2>2 DEF IInv, UdpAges
    <3>2. udpSeen'[i] = Capped(Capped(sinceTable[i], UdpTtl) + dt, UdpTtl)
      BY <2>2, <3>1, <1>2
    <3>3. dt \in Nat
      OBVIOUS
    <3>4. Capped(Capped(sinceTable[i], UdpTtl) + dt, UdpTtl)
            = Capped(Capped(sinceTable[i] + dt, LongAgo), UdpTtl)
      BY <2>1, <3>3 DEF Capped
    <3> QED BY <2>1, <2>2, <3>2, <3>4, <1>2, <1>4
  <2>3. CASE i \notin DOMAIN udpSeen
    <3>1. sinceTable[i] >= UdpTtl
      BY <2>3 DEF IInv, UdpAges
    <3> QED BY <2>1, <2>3, <3>1, <1>2, <1>4 DEF Capped
  <2> QED BY <2>2, <2>3
<1>9. PktAges'
  <2> SUFFICES ASSUME NEW i \in Id
               PROVE  IF i \in DOMAIN pktSeen'
                      THEN /\ pktSeen'[i] = Capped(sincePacket'[i], PktTtl)
                           /\ sincePacket'[i] < PktTtl => ByPackets(i)'
                      ELSE ~ByPackets(i)'
    BY DEF PktAges
  <2>0. /\ sincePacket[i] \in Nat /\ sincePacket'[i] \in Nat /\ dt \in Nat
        /\ sinceTable[i] \in Nat /\ sinceTable'[i] \in Nat /\ TableGrace(i) \in 1..UdpTtl
    BY <1>0, <1>4, <1>5
  <2>1. /\ sincePacket'[i] = Capped(sincePacket[i] + dt, LongAgo)
        /\ sinceTable'[i] = Capped(sinceTable[i] + dt, LongAgo)
    BY <1>4, <1>5
  <2>2. sincePacket'[i] < PktTtl =>
          (sincePacket'[i] + TableGrace(i) <= sinceTable'[i]
             <=> sincePacket[i] + TableGrace(i) <= sinceTable[i])
    BY <2>0, <2>1, SameOrder
  <2>3. sincePacket'[i] < PktTtl => sincePacket[i] < PktTtl
    BY <2>0, <2>1 DEF Capped
  <2>4. sincePacket'[i] < PktTtl => (ByPackets(i)' <=> ByPackets(i))
    BY <2>2, <2>3 DEF ByPackets
  <2>5. CASE i \in DOMAIN pktSeen
    <3>1. pktSeen[i] = Capped(sincePacket[i], PktTtl) /\ (sincePacket[i] < PktTtl => ByPackets(i))
      BY <2>5 DEF IInv, PktAges
    <3>2. pktSeen'[i] = Capped(Capped(sincePacket[i], PktTtl) + dt, PktTtl)
      BY <2>5, <3>1, <1>3
    <3>3. Capped(Capped(sincePacket[i], PktTtl) + dt, PktTtl)
            = Capped(Capped(sincePacket[i] + dt, LongAgo), PktTtl)
      BY <2>0 DEF Capped
    <3> QED BY <2>1, <2>3, <2>4, <2>5, <3>1, <3>2, <3>3, <1>3
  <2>6. CASE i \notin DOMAIN pktSeen
    <3>1. ~ByPackets(i)
      BY <2>6 DEF IInv, PktAges
    <3>2. ~ByPackets(i)'
      BY <2>4, <3>1 DEF ByPackets
    <3> QED BY <2>6, <3>2, <1>3
  <2> QED BY <2>5, <2>6
<1>10. FlowLifetimes'
  BY <1>6 DEF FlowLifetimes
<1>11. SeenOfLive'
  BY <1>0, <1>2, <1>3, <1>6 DEF SeenOfLive
<1>12. MirrorFollows'
  BY <1>6 DEF IInv, MirrorFollows
<1> QED BY <1>7, <1>8, <1>9, <1>10, <1>11, <1>12 DEF IInv

-----------------------------------------------------------------------------
(* Theorems                                                                *)

(* The inductive invariant holds throughout (poll_at).                     *)
THEOREM Invariance == Spec => []IInv
<1>1. IInv /\ [Next]_vars => IInv'
  <2> SUFFICES ASSUME IInv, [Next]_vars PROVE IInv'
    OBVIOUS
  <2>1. CASE Next
    BY <2>1, PollInv, FailedInv DEF Next
  <2>2. CASE UNCHANGED vars
    BY <2>2 DEF vars, engineVars, historyVars, IInv, TypeOK, UdpAges, PktAges, ByPackets,
                FlowLifetimes, Alive, SeenOfLive, MirrorFollows
  <2> QED BY <2>1, <2>2
<1> QED BY <1>1, InitInv, PTL DEF Spec

(* After every successful poll exactly the flows are shown whose rows and  *)
(* packets say so, and only these have entries in udp_seen and pkt_seen    *)
(* (poll_at).                                                              *)
THEOREM LifetimesHold == Spec => []Lifetimes
<1>1. IInv => Lifetimes
  BY DEF IInv, Lifetimes
<1> QED BY <1>1, Invariance, PTL

(* The published deltas, applied in order, give the engine's world         *)
(* (diff and the clients of its deltas).                                   *)
THEOREM MirrorsFollow == Spec => []MirrorFollows
<1>1. IInv => MirrorFollows
  BY DEF IInv
<1> QED BY <1>1, Invariance, PTL

(* Counting on always gives another generation.                            *)
LEMMA NextIsOther ==
  ASSUME NEW g \in 0..(GenModulus - 1)
  PROVE  (g + 1) % GenModulus # g
<1>1. GenModulus \in Nat /\ GenModulus >= 2
  BY CaptureAssumption
<1>2. CASE g + 1 < GenModulus
  BY <1>1, <1>2
<1>3. CASE g + 1 = GenModulus
  <2>1. GenModulus % GenModulus = 0
    BY <1>1
  <2> QED BY <1>1, <1>3, <2>1
<1> QED BY <1>1, <1>2, <1>3

(* A generation is taken exactly when what the clients replay changes, so  *)
(* that the published updates are numbered without a gap (poll_at).        *)
THEOREM GenerationsCount == Spec => GenerationCounts
<1>1. IInv /\ [Next]_vars => [generation' # generation <=> mirror' # mirror]_vars
  <2> SUFFICES ASSUME IInv, Next
               PROVE  generation' # generation <=> mirror' # mirror
    BY DEF vars, engineVars, historyVars
  <2>1. mirror = prev /\ prev \in World /\ generation \in 0..(GenModulus - 1)
    BY DEF IInv, TypeOK, MirrorFollows
  <2>2. PICK dt \in Steps : \/ \E rows \in Reading, traffic \in Traffic : PollAt(dt, rows, traffic)
                            \/ PollFails(dt)
    BY DEF Next
  <2>3. CASE PollFails(dt)
    BY <2>3 DEF PollFails
  <2>4. ASSUME NEW rows \in Reading, NEW traffic \in Traffic, PollAt(dt, rows, traffic)
        PROVE  generation' # generation <=> mirror' # mirror
    <3>1. IInv'
      BY <2>4, PollInv
    <3>2. mirror' = prev' /\ prev' \in World
      BY <3>1 DEF IInv, TypeOK, MirrorFollows
    <3>3. generation' = NextGeneration(Diff(prev, prev'))
      BY <2>4, PollIs
    <3>4. IsEmpty(Diff(prev, prev')) <=> prev = prev'
      BY <2>1, <3>2, EmptyDiff
    <3> QED BY <2>1, <3>2, <3>3, <3>4, NextIsOther DEF NextGeneration
  <2> QED BY <2>2, <2>3, <2>4
<1> QED BY <1>1, Invariance, PTL DEF Spec, GenerationCounts

-----------------------------------------------------------------------------
(* The world and what is told of it: the inductive invariant               *)

(* A published flow: its address is its socket's, only private addresses   *)
(* are in the local category, and its flags say what its fields say.       *)
Right(f) ==
  /\ f.id \in Socket /\ f.ip = Peer[f.id]
  /\ f.encrypted \in BOOLEAN /\ f.name \in Seq(STRING)
  /\ f.category \in Category /\ (f.category = "Local" => f.ip.n = 0)
  /\ f.flags = security_flags(f)

OneEachSocket == \A f, g \in world : f.id = g.id => f = g

WorldInv ==
  /\ directory \in Directories
  /\ \A f \in world : Right(f)
  /\ OneEachSocket /\ IsFiniteSet(world)
  /\ reply.kind \in {"none", "apply", "clear", "file", "text", "error", "closed", "threats", "menu"}
  /\ backend \in Firewall
  /\ LocalStaysHome /\ SummaryIsTrue

-----------------------------------------------------------------------------
(* Flows                                                                   *)

(* The values of a function on a finite set are finitely many.             *)
LEMMA ImageIsFinite ==
  ASSUME NEW S, IsFiniteSet(S), NEW F
  PROVE  IsFiniteSet({F[x] : x \in S})
<1> DEFINE T == {F[x] : x \in S}
<1>1. PICK seq \in Seq(S) : \A s \in S : \E n \in 1..Len(seq) : seq[n] = s
  BY DEF IsFiniteSet
<1> DEFINE t == [n \in 1..Len(seq) |-> F[seq[n]]]
<1>2. Len(seq) \in Nat /\ \A n \in 1..Len(seq) : seq[n] \in S
  OBVIOUS
<1>3. t \in [1..Len(seq) -> T]
  BY <1>2
<1>4. t \in Seq(T) /\ Len(t) = Len(seq)
  BY <1>2, <1>3
<1>5. \A y \in T : \E n \in 1..Len(t) : t[n] = y
  <2> SUFFICES ASSUME NEW x \in S PROVE \E n \in 1..Len(t) : t[n] = F[x]
    OBVIOUS
  <2>1. PICK n \in 1..Len(seq) : seq[n] = x
    BY <1>1
  <2> QED BY <2>1, <1>4
<1> HIDE DEF T
<1>6. IsFiniteSet(T)
  BY <1>4, <1>5 DEF IsFiniteSet
<1> QED BY <1>6 DEF T

(* A flow with the fields enrich leaves it, before its flags are taken.    *)
Unflagged(row, name, org, placed, category) ==
  [id |-> row, ip |-> Peer[row], encrypted |-> row \in Encrypted, name |-> name, org |-> org,
   placed |-> placed, category |-> category, flags |-> {}]

LEMMA FlaggedIsRight ==
  ASSUME NEW row \in Socket, NEW name \in Seq(STRING), NEW org, NEW placed, NEW category \in Category,
         category = "Local" => Peer[row].n = 0
  PROVE  LET f == Flagged(Unflagged(row, name, org, placed, category))
         IN  Right(f) /\ f.id = row
<1> DEFINE enc == row \in Encrypted
           f == Unflagged(row, name, org, placed, category)
           flags == security_flags(f)
           g == [id |-> row, ip |-> Peer[row], encrypted |-> enc, name |-> name, org |-> org,
                 placed |-> placed, category |-> category, flags |-> flags]
<1>1. enc \in BOOLEAN
  OBVIOUS
<1>2. f = [id |-> row, ip |-> Peer[row], encrypted |-> enc, name |-> name, org |-> org,
           placed |-> placed, category |-> category, flags |-> {}]
  BY DEF Unflagged
<1> HIDE DEF enc, f
<1>3. flags = security_flags(g)
  BY <1>2 DEF security_flags
<1> HIDE DEF flags
<1>4. Flagged(f) = g
  BY <1>2 DEF Flagged, flags
<1>5. /\ g.id = row /\ g.ip = Peer[row] /\ g.encrypted = enc /\ g.name = name
      /\ g.category = category /\ g.flags = flags
  OBVIOUS
<1> HIDE DEF g
<1>6. Right(g)
  BY <1>1, <1>3, <1>5 DEF Right
<1> QED BY <1>4, <1>5, <1>6 DEF f

(* What enrich makes of a row (flow_from_raw, enrich).                     *)
LEMMA EnrichIsRight ==
  ASSUME NEW row \in Socket, NEW geo \in BOOLEAN, NEW names \in SUBSET DOMAIN Ptr
  PROVE  /\ Right(enrich(flow_from_raw(row), geo, names))
         /\ enrich(flow_from_raw(row), geo, names).id = row
<1> DEFINE ip == Peer[row]
           cat == IF is_local(ip) THEN "Local" ELSE "Unknown"
           raw == flow_from_raw(row)
           org == IF geo /\ ip \in DOMAIN Owner THEN Owner[ip] ELSE {}
           pl == geo /\ ip \in DOMAIN Owner
           name == IF ip \in names THEN Ptr[ip] ELSE <<>>
           placed == IF geo /\ raw.ip \in DOMAIN Owner
                     THEN [raw EXCEPT !.org = Owner[raw.ip], !.placed = TRUE] ELSE raw
           named == IF raw.ip \in names THEN [placed EXCEPT !.name = Ptr[raw.ip]] ELSE placed
           sorted == [named EXCEPT !.category = category_with(named)]
<1>1. raw = Unflagged(row, <<>>, {}, FALSE, cat)
  BY DEF flow_from_raw, Unflagged
<1>2. raw.ip = ip /\ raw.category = cat
  BY <1>1 DEF Unflagged
<1>3. cat \in Category /\ (cat = "Local" => ip.n = 0)
  BY DEF is_local, Category
<1>4. name \in Seq(STRING) /\ <<>> \in Seq(STRING)
  <2>1. <<>> \in Seq(STRING)
    OBVIOUS
  <2>2. ip \in names => Ptr[ip] \in Seq(STRING)
    BY FlowsAssumption
  <2> QED BY <2>1, <2>2
<1> HIDE DEF raw, cat
<1>5. CASE cat = "Local"
  <2>1. enrich(raw, geo, names) = Flagged(raw)
    BY <1>2, <1>5 DEF enrich
  <2> DEFINE f == Flagged(Unflagged(row, <<>>, {}, FALSE, cat))
  <2>2. <<>> \in Seq(STRING)
    BY <1>4
  <2>3. Right(f) /\ f.id = row
    BY <2>2, <1>3, FlaggedIsRight
  <2>4. Right(Flagged(raw)) /\ Flagged(raw).id = row
    BY <2>3, <1>1
  <2> QED BY <2>1, <2>4 DEF raw
<1>6. CASE cat # "Local"
  <2>1. enrich(raw, geo, names) = Flagged(sorted)
    BY <1>2, <1>6 DEF enrich
  <2>2. placed = Unflagged(row, <<>>, org, pl, cat)
    <3>1. CASE geo /\ ip \in DOMAIN Owner
      <4>1. placed = [raw EXCEPT !.org = Owner[ip], !.placed = TRUE]
        BY <3>1, <1>2
      <4>2. pl = TRUE /\ org = Owner[ip]
        BY <3>1
      <4> HIDE DEF placed, pl, org
      <4> QED BY <4>1, <4>2, <1>1 DEF Unflagged
    <3>2. CASE ~(geo /\ ip \in DOMAIN Owner)
      <4>1. placed = raw
        BY <3>2, <1>2
      <4>2. pl = FALSE /\ org = {}
        BY <3>2
      <4> QED BY <4>1, <4>2, <1>1
    <3> QED BY <3>1, <3>2
  <2> HIDE DEF placed, org, pl
  <2>3. named = Unflagged(row, name, org, pl, cat)
    <3>1. CASE ip \in names
      BY <3>1, <1>2, <2>2 DEF Unflagged
    <3>2. CASE ip \notin names
      BY <3>2, <1>2, <2>2
    <3> QED BY <3>1, <3>2
  <2> HIDE DEF named, name
  <2>4. named.category # "Local"
    BY <2>3, <1>6 DEF Unflagged
  <2>5. category_with(named) \in Category \ {"Local"}
    BY <2>4 DEF category_with, Category
  <2>6. sorted = Unflagged(row, name, org, pl, category_with(named))
    BY <2>3 DEF Unflagged
  <2> HIDE DEF sorted
  <2>7. Right(Flagged(sorted)) /\ Flagged(sorted).id = row
    BY <2>5, <2>6, <1>4, FlaggedIsRight
  <2> QED BY <2>1, <2>7 DEF raw
<1> QED BY <1>5, <1>6

(* A poll publishes one right flow for each socket of the table.           *)
LEMMA PollIsRight == WorldInv /\ Poll => WorldInv'
<1> SUFFICES ASSUME WorldInv, Poll PROVE WorldInv'
  OBVIOUS
<1>0. PICK rows \in Tables, geo \in BOOLEAN : \E names \in SUBSET Resolvable(rows), late \in SUBSET rows :
       \E names2 \in {names} \cup {names \ {a} : a \in names}, geo2 \in BOOLEAN :
         /\ names2 = names \/ geo2 = geo
         /\ world' = {enrich(flow_from_raw(row), geo, names) : row \in rows \ late}
                     \cup {enrich(flow_from_raw(row), geo2, names2) : row \in late}
  BY DEF Poll
<1>1. PICK names \in SUBSET Resolvable(rows), late \in SUBSET rows :
       \E names2 \in {names} \cup {names \ {a} : a \in names}, geo2 \in BOOLEAN :
         world' = {enrich(flow_from_raw(row), geo, names) : row \in rows \ late}
                  \cup {enrich(flow_from_raw(row), geo2, names2) : row \in late}
  BY <1>0
<1>2. PICK names2 \in {names} \cup {names \ {a} : a \in names}, geo2 \in BOOLEAN :
         world' = {enrich(flow_from_raw(row), geo, names) : row \in rows \ late}
                  \cup {enrich(flow_from_raw(row), geo2, names2) : row \in late}
  BY <1>1
<1> DEFINE E == [row \in Socket |-> IF row \in late THEN enrich(flow_from_raw(row), geo2, names2)
                                    ELSE enrich(flow_from_raw(row), geo, names)]
<1>3. rows \subseteq Socket /\ IsFiniteSet(rows) /\ names \in SUBSET DOMAIN Ptr /\ names2 \in SUBSET DOMAIN Ptr
  BY WorldAssumption DEF Resolvable
<1>4. world' = {E[row] : row \in rows}
  BY <1>2, <1>3
<1>5. \A row \in Socket : Right(E[row]) /\ E[row].id = row
  BY <1>3, EnrichIsRight
<1>6. reply = NoReply /\ UNCHANGED <<directory, reply, backend>>
  BY DEF Poll
<1> HIDE DEF E
<1>7. IsFiniteSet(world')
  BY <1>3, <1>4, ImageIsFinite
<1>8. (\A f \in world : Right(f))' /\ OneEachSocket'
  BY <1>3, <1>4, <1>5 DEF OneEachSocket, Right, security_flags
<1>9. SummaryIsTrue'
  BY <1>6 DEF SummaryIsTrue, NoReply, NoFacts
<1> QED BY <1>6, <1>7, <1>8, <1>9 DEF WorldInv, LocalStaysHome

-----------------------------------------------------------------------------
(* Answers                                                                 *)

(* What a scrubbed flow tells: nothing of one at home (scrub_flow).        *)
KeepsHome(g) == Peer[g.handle] \in Home => g.host = <<>> /\ g.org = {} /\ ~g.placed

LEMMA ScrubKeepsHome ==
  ASSUME NEW f, Right(f)
  PROVE  KeepsHome(scrub_flow(f))
<1> DEFINE remote == scope_of(f) = "Remote"
<1>1. scrub_flow(f).handle = f.id /\ Peer[f.id] = f.ip
  BY DEF scrub_flow, Right
<1>2. ASSUME f.ip \in Home PROVE ~remote
  BY <1>2 DEF Home, scope_of, is_local_scope
<1>3. ASSUME ~remote
      PROVE  scrub_flow(f).host = <<>> /\ scrub_flow(f).org = {} /\ scrub_flow(f).placed = FALSE
  BY <1>3 DEF scrub_flow
<1> QED BY <1>1, <1>2, <1>3 DEF KeepsHome

(* The facts of a summary are true of the flows it counts.                 *)
TrueOf(facts, flows) ==
  /\ facts.flows = facts.remote + facts.local
  /\ facts.quiet /\ facts.flows = Cardinality(flows) =>
       \A f \in flows : f.encrypted /\ f.category # "Tracker"

LEMMA NothingSaidIsTrue ==
  ASSUME NEW flows
  PROVE  TrueOf(NoFacts, flows)
BY DEF TrueOf, NoFacts

(* The summary of a session (scrub_session, totals_of, explain_rules).     *)
LEMMA SessionIsTrue ==
  ASSUME NEW flows, IsFiniteSet(flows), \A f \in flows : Right(f)
  PROVE  TrueOf(explain_rules(scrub_session(flows)), flows)
<1> DEFINE scrub == [f \in flows |-> scrub_flow(f)]
           scrubbed == {scrub_flow(f) : f \in flows}
           R == {f \in scrubbed : f.scope = "Remote"}
           L == {f \in scrubbed : f.scope = "Local"}
           P == {f \in scrubbed : ~f.encrypted}
           T == {f \in scrubbed : IsTracker(f)}
           t == totals_of(scrubbed)
           orgs == {f.org : f \in scrubbed} \ {{}}
           facts == explain_rules(scrub_session(flows))
<1>1. IsFiniteSet(scrubbed)
  <2>1. scrubbed = {scrub[f] : f \in flows}
    OBVIOUS
  <2> HIDE DEF scrubbed, scrub
  <2> QED BY <2>1, ImageIsFinite
<1>2. t.flows = Cardinality(scrubbed) /\ t.remote = Cardinality(R) /\ t.local = Cardinality(L)
      /\ t.plaintext = Cardinality(P) /\ t.trackers = Cardinality(T)
  BY DEF totals_of, Count
<1>3. scrubbed = R \cup L /\ R \cap L = {}
  BY DEF scrub_flow, scope_of
<1>4. \A f \in flows : /\ scrub_flow(f) \in scrubbed
                       /\ scrub_flow(f).encrypted = f.encrypted
                       /\ scrub_flow(f).category = f.category
  BY DEF scrub_flow
<1>5. facts = IF t.flows = 0 THEN NoFacts
              ELSE [NoFacts EXCEPT !.flows = t.flows, !.remote = t.remote, !.local = t.local,
                      !.encrypted = facts.encrypted, !.plaintext = t.plaintext, !.trackers = t.trackers,
                      !.orgs = orgs, !.quiet = t.trackers = 0 /\ t.plaintext = 0 /\ orgs = {}]
  BY DEF explain_rules, scrub_session, NoFacts
<1> HIDE DEF facts, t, orgs
<1>6. IsFiniteSet(R) /\ IsFiniteSet(L) /\ IsFiniteSet(P) /\ IsFiniteSet(T)
  BY <1>1, FS_Subset
<1> HIDE DEF scrubbed
<1>7. Cardinality(scrubbed) = Cardinality(R) + Cardinality(L)
  <2> HIDE DEF R, L
  <2>1. Cardinality(R \cap L) = 0
    BY <1>3, FS_EmptySet
  <2>2. Cardinality(R) \in Nat /\ Cardinality(L) \in Nat
    BY <1>6, FS_CardinalityType
  <2>3. Cardinality(R \cup L) = Cardinality(R) + Cardinality(L) - Cardinality(R \cap L)
    BY <1>6, FS_Union
  <2> QED BY <1>3, <2>1, <2>2, <2>3
<1>8. ASSUME t.flows = 0
      PROVE  TrueOf(facts, flows)
  BY <1>5, <1>8, NothingSaidIsTrue
<1>9. ASSUME t.flows # 0
      PROVE  TrueOf(facts, flows)
  <2>1. facts.flows = t.flows /\ facts.remote = t.remote /\ facts.local = t.local
        /\ (facts.quiet => t.trackers = 0 /\ t.plaintext = 0)
    BY <1>5, <1>9 DEF NoFacts
  <2>2. ASSUME facts.quiet, NEW f \in flows
        PROVE  f.encrypted /\ f.category # "Tracker"
    <3>1. P = {} /\ T = {}
      <4>1. Cardinality(P) = 0 /\ Cardinality(T) = 0
        BY <1>2, <2>1, <2>2
      <4> HIDE DEF P, T
      <4> QED BY <4>1, <1>6, FS_EmptySet
    <3> QED BY <1>4, <3>1 DEF IsTracker
  <2>3. facts.flows = facts.remote + facts.local
    BY <1>2, <1>7, <2>1
  <2> QED BY <2>2, <2>3 DEF TrueOf
<1> QED BY <1>8, <1>9 DEF facts

(* The summary of one flow, when it is all there is (explain_node_rules).  *)
LEMMA NodeIsTrue ==
  ASSUME NEW flows, IsFiniteSet(flows), NEW f \in flows, Right(f)
  PROVE  TrueOf(explain_node_rules(scrub_flow(f)), flows)
<1> DEFINE g == scrub_flow(f)
           facts == explain_node_rules(g)
<1>1. g.encrypted = f.encrypted /\ g.flags = f.flags
  BY DEF scrub_flow
<1>2. f.flags = {} => f.encrypted /\ f.category # "Tracker"
  BY DEF Right, security_flags, SecurityFlag
<1>3. CASE g.scope = "Local"
  <2>1. facts.flows = 1 /\ facts.remote = 0 /\ facts.local = 1 /\ facts.quiet = FALSE
    BY <1>3 DEF explain_node_rules, NoFacts
  <2> QED BY <2>1 DEF TrueOf
<1>4. CASE g.scope # "Local"
  <2>1. facts.flows = 1 /\ facts.remote = 1 /\ facts.local = 0
    BY <1>4 DEF explain_node_rules, NoFacts
  <2>2. facts.quiet => g.flags = {}
    BY <1>4 DEF explain_node_rules, NoFacts
  <2>3. ASSUME Cardinality(flows) = 1 PROVE flows = {f}
    <3>1. PICK x : flows = {x}
      BY <2>3, FS_Singleton
    <3> QED BY <3>1
  <2> HIDE DEF facts, g
  <2>4. ASSUME facts.quiet, facts.flows = Cardinality(flows)
        PROVE  \A h \in flows : h.encrypted /\ h.category # "Tracker"
    BY <2>1, <2>2, <2>3, <2>4, <1>1, <1>2
  <2>5. TrueOf(facts, flows)
    BY <2>1, <2>4 DEF TrueOf
  <2> QED BY <2>5 DEF facts, g
<1> QED BY <1>3, <1>4

(* An answer on screen that is true leaves the invariant as it was.        *)
OnScreen(answer) == reply' = answer /\ UNCHANGED <<directory, world, backend, hostVars>>

LEMMA AnswerKeeps ==
  ASSUME WorldInv, NEW answer, OnScreen(answer),
         answer.kind \in {"apply", "clear", "file", "text", "error", "closed", "threats", "menu"},
         \A g \in answer.gone : KeepsHome(g), TrueOf(answer.facts, world)
  PROVE  WorldInv'
<1>1. reply' = answer /\ UNCHANGED <<directory, world, backend, hostVars>>
  BY DEF OnScreen
<1>2. LocalStaysHome' /\ SummaryIsTrue'
  BY <1>1 DEF LocalStaysHome, KeepsHome, SummaryIsTrue, TrueOf
<1> QED BY <1>1, <1>2 DEF WorldInv, OneEachSocket, Right, security_flags

(* An answer that tells nothing of a flow.                                 *)
LEMMA PlainAnswer ==
  ASSUME WorldInv, NEW answer, OnScreen(answer), answer.gone = {}, answer.facts = NoFacts,
         answer.kind \in {"apply", "clear", "file", "closed", "threats", "menu"}
  PROVE  WorldInv'
BY AnswerKeeps, NothingSaidIsTrue

(* The answer of a provider about the flows it is shown.                   *)
LEMMA ExplainKeeps ==
  ASSUME WorldInv, NEW flows \in SUBSET world, NEW provider \in Provider, NEW http \in Http,
         NEW node \in BOOLEAN, NEW a, a = explain(provider, scrub_session(flows), node, http),
         node => \E f \in world : flows = {f}, ~node => flows = world,
         NEW answer, answer.kind = a.kind, answer.gone = a.gone, answer.facts = a.facts, OnScreen(answer)
  PROVE  WorldInv'
<1> DEFINE session == scrub_session(flows)
<1>1. session.flows = {scrub_flow(f) : f \in flows}
  BY DEF scrub_session
<1>2. a.kind \in {"text", "error"}
  BY DEF explain, Provider, explain_ollama, explain_anthropic
<1>3. \A g \in a.gone : KeepsHome(g)
  <2>1. a.gone \subseteq session.flows
    BY DEF explain
  <2> QED BY <2>1, <1>1, ScrubKeepsHome DEF WorldInv
<1>4. TrueOf(a.facts, world)
  <2>1. CASE provider # "Rules"
    BY <2>1, NothingSaidIsTrue DEF explain
  <2>2. CASE provider = "Rules" /\ ~node
    BY <2>2, SessionIsTrue DEF explain, WorldInv
  <2>3. CASE provider = "Rules" /\ node
    <3>1. PICK f \in world : flows = {f}
      BY <2>3
    <3>2. session.flows = {scrub_flow(f)}
      BY <1>1, <3>1
    <3>3. a.facts = explain_node_rules(CHOOSE g \in session.flows : TRUE)
      BY <2>3 DEF explain
    <3> HIDE DEF session
    <3>4. (CHOOSE g \in session.flows : TRUE) = scrub_flow(f)
      BY <3>2
    <3> QED BY <3>3, <3>4, NodeIsTrue DEF WorldInv
  <2> QED BY <2>1, <2>2, <2>3
<1>5. answer.kind \in {"text", "error"} /\ (\A g \in answer.gone : KeepsHome(g)) /\ TrueOf(answer.facts, world)
  BY <1>2, <1>3, <1>4
<1> QED BY <1>5, AnswerKeeps

-----------------------------------------------------------------------------
(* The invariant is inductive                                              *)

LEMMA WorldBegins == WorldInit => WorldInv
<1> SUFFICES ASSUME WorldInit PROVE WorldInv
  OBVIOUS
<1>1. IsFiniteSet(world) /\ OneEachSocket /\ \A f \in world : Right(f)
  BY FS_EmptySet DEF WorldInit, OneEachSocket
<1>2. reply.kind = "none" /\ LocalStaysHome /\ SummaryIsTrue
  BY DEF WorldInit, NoReply, NoFacts, LocalStaysHome, SummaryIsTrue
<1> QED BY <1>1, <1>2 DEF WorldInit, WorldInv

(* The requests that are answered with addresses, a file or a menu.        *)
LEMMA RequestsKeep ==
  ASSUME WorldInv
  PROVE  \/ \E policy \in Policies : Apply(policy) \/ Generate(policy)
         \/ \E ips \in {{}} \cup {{a} : a \in Dropped(fw)} : Unblock(ips)
         \/ ReportThreats
         \/ \E reachable, models \in BOOLEAN : Menu(reachable, models)
         => WorldInv'
<1>1. NoReply.gone = {} /\ NoReply.facts = NoFacts
  BY DEF NoReply
<1>2. ASSUME NEW policy \in Policies, Apply(policy)
      PROVE  WorldInv'
  <2> DEFINE answer == [NoReply EXCEPT !.kind = "apply", !.add = dry_run_with(policy, world, threats).targets]
  <2>1. answer.kind = "apply" /\ answer.gone = {} /\ answer.facts = NoFacts
    BY DEF NoReply
  <2>2. OnScreen(answer)
    BY <1>2 DEF Apply, Answered, OnScreen
  <2> HIDE DEF answer
  <2> QED BY <2>1, <2>2, PlainAnswer
<1>3. ASSUME NEW policy \in Policies, Generate(policy)
      PROVE  WorldInv'
  <2> DEFINE targets == dry_run_with(policy, world, threats).targets
             answer == [NoReply EXCEPT !.kind = "file", !.add = targets, !.file = generate(backend, targets)]
  <2>1. answer.kind = "file" /\ answer.gone = {} /\ answer.facts = NoFacts
    BY DEF NoReply
  <2>2. OnScreen(answer)
    BY <1>3 DEF Generate, Answered, OnScreen
  <2> HIDE DEF answer
  <2> QED BY <2>1, <2>2, PlainAnswer
<1>4. ASSUME NEW ips, Unblock(ips)
      PROVE  WorldInv'
  <2> DEFINE clear == [NoReply EXCEPT !.kind = "clear"]
             remove == [NoReply EXCEPT !.kind = "apply", !.remove = ips]
  <2>1. clear.kind = "clear" /\ clear.gone = {} /\ clear.facts = NoFacts
    BY DEF NoReply
  <2>2. remove.kind = "apply" /\ remove.gone = {} /\ remove.facts = NoFacts
    BY DEF NoReply
  <2>3. OnScreen(clear) \/ OnScreen(remove)
    <3>1. CASE ips = {}
      BY <3>1, <1>4 DEF Unblock, Answered, OnScreen
    <3>2. CASE ips # {}
      BY <3>2, <1>4 DEF Unblock, Answered, OnScreen
    <3> QED BY <3>1, <3>2
  <2> HIDE DEF clear, remove
  <2> QED BY <2>1, <2>2, <2>3, PlainAnswer
<1>5. ASSUME ReportThreats
      PROVE  WorldInv'
  <2> DEFINE answer == [NoReply EXCEPT !.kind = "threats", !.add = threat_targets(threats, world)]
  <2>1. answer.kind = "threats" /\ answer.gone = {} /\ answer.facts = NoFacts
    BY DEF NoReply
  <2>2. OnScreen(answer)
    BY <1>5 DEF ReportThreats, Answered, OnScreen
  <2> HIDE DEF answer
  <2> QED BY <2>1, <2>2, PlainAnswer
<1>6. ASSUME NEW reachable, NEW models, Menu(reachable, models)
      PROVE  WorldInv'
  <2> DEFINE answer == [NoReply EXCEPT !.kind = "menu", !.menu = provider_statuses(reachable, models)]
  <2>1. answer.kind = "menu" /\ answer.gone = {} /\ answer.facts = NoFacts
    BY DEF NoReply
  <2>2. OnScreen(answer)
    BY <1>6 DEF Menu, Answered, OnScreen
  <2> HIDE DEF answer
  <2> QED BY <2>1, <2>2, PlainAnswer
<1> QED BY <1>2, <1>3, <1>4, <1>5, <1>6

(* A provider is asked about one flow, or about all of them.               *)
LEMMA QuestionsKeep ==
  ASSUME WorldInv, NEW provider \in Provider, NEW http \in Http
  PROVE  ExplainSession(provider, http) \/ (\E id \in Socket : ExplainNode(id, provider, http)) => WorldInv'
<1>1. ASSUME ExplainSession(provider, http)
      PROVE  WorldInv'
  <2> DEFINE a == explain(provider, scrub_session(world), FALSE, http)
  <2> DEFINE answer == [NoReply EXCEPT !.kind = a.kind, !.gone = a.gone, !.facts = a.facts]
  <2>1. OnScreen(answer)
    BY <1>1 DEF ExplainSession, Answered, OnScreen
  <2>2. a = explain(provider, scrub_session(world), FALSE, http)
    OBVIOUS
  <2> HIDE DEF a
  <2>3. answer.kind = a.kind /\ answer.gone = a.gone /\ answer.facts = a.facts
    BY DEF NoReply
  <2> HIDE DEF answer
  <2> QED BY <2>1, <2>2, <2>3, ExplainKeeps
<1>2. ASSUME NEW id \in Socket, ExplainNode(id, provider, http)
      PROVE  WorldInv'
  <2> DEFINE found == {f \in world : f.id = id}
             a == explain(provider, scrub_session(found), TRUE, http)
             answer == [NoReply EXCEPT !.kind = a.kind, !.gone = a.gone, !.facts = a.facts]
             closed == [NoReply EXCEPT !.kind = "closed"]
  <2>1. (found = {} => OnScreen(closed)) /\ (found # {} => OnScreen(answer))
    <3>1. CASE found = {}
      BY <3>1, <1>2 DEF ExplainNode, Answered, OnScreen
    <3>2. CASE found # {}
      BY <3>2, <1>2 DEF ExplainNode, Answered, OnScreen
    <3> QED BY <3>1, <3>2
  <2>2. a = explain(provider, scrub_session(found), TRUE, http) /\ found \in SUBSET world
    OBVIOUS
  <2>3. found # {} => \E f \in world : found = {f}
    BY DEF WorldInv, OneEachSocket
  <2>4. closed.kind = "closed" /\ closed.gone = {} /\ closed.facts = NoFacts
    BY DEF NoReply
  <2> HIDE DEF a
  <2>7. answer.kind = a.kind /\ answer.gone = a.gone /\ answer.facts = a.facts
    BY DEF NoReply
  <2> HIDE DEF found, closed, answer
  <2>5. CASE found = {}
    BY <2>1, <2>4, <2>5, PlainAnswer
  <2>6. CASE found # {}
    <3>1. OnScreen(answer)
      BY <2>1, <2>6
    <3> QED BY <2>2, <2>3, <2>6, <2>7, <3>1, ExplainKeeps
  <2> QED BY <2>5, <2>6
<1> QED BY <1>1, <1>2

(* The feeds, the user and the firewall leave the world and what is told   *)
(* of it alone.                                                            *)
LEMMA OthersKeep ==
  ASSUME WorldInv,
         LoadFeeds \/ Dismiss \/ RunCommand \/ RunStatement \/ Interrupt \/ RemoveRules \/ UNCHANGED worldVars
  PROVE  WorldInv'
<1>1. world' = world /\ backend' = backend
  BY DEF LoadFeeds, Dismiss, RunCommand, RunStatement, Interrupt, RemoveRules, worldVars
<1>2. directory' \in Directories
  BY DEF LoadFeeds, Dismiss, RunCommand, RunStatement, Interrupt, RemoveRules, worldVars, WorldInv
<1>3. reply' = reply \/ reply' = NoReply
  BY DEF LoadFeeds, Dismiss, RunCommand, RunStatement, Interrupt, RemoveRules, worldVars
<1>4. /\ reply'.kind \in {"none", "apply", "clear", "file", "text", "error", "closed", "threats", "menu"}
      /\ LocalStaysHome' /\ SummaryIsTrue'
  BY <1>1, <1>3 DEF WorldInv, LocalStaysHome, SummaryIsTrue, NoReply, NoFacts
<1> QED BY <1>1, <1>2, <1>4 DEF WorldInv, OneEachSocket, Right, security_flags

(* Whatever the table, the feeds, the policies and the answers of a model: *)
(* a published flow is right, and the answer on screen is true of the      *)
(* world it was made from.                                                 *)
THEOREM WorldInvariance == WorldSpec => []WorldInv
<1>1. WorldInit => WorldInv
  BY WorldBegins
<1>2. WorldInv /\ [WorldNext]_worldVars => WorldInv'
  BY PollIsRight, RequestsKeep, QuestionsKeep, OthersKeep DEF WorldNext
<1> QED BY <1>1, <1>2, PTL DEF WorldSpec

(* Nothing that leaves the machine tells the host, the organisation or the *)
(* place of a flow to the host's own network (scrub_flow).                 *)
THEOREM HomeIsKept == WorldSpec => []LocalStaysHome
<1>1. WorldInv => LocalStaysHome
  BY DEF WorldInv
<1> QED BY <1>1, WorldInvariance, PTL

-----------------------------------------------------------------------------
(* The plan                                                                *)

(* The warden's floor is the home of the host.                             *)
LEMMA FloorIsHome ==
  ASSUME NEW f, Right(f)
  PROVE  is_protected(f) <=> f.ip \in Home
<1>1. f.ip \in Address
  BY FlowsAssumption DEF Right
<1>2. f.ip.v6 \in BOOLEAN /\ f.ip = [v6 |-> f.ip.v6, n |-> f.ip.n]
  BY <1>1 DEF Address
<1>3. is_local_scope(f.ip) <=> f.ip \in Home
  BY <1>2 DEF is_local_scope, Home
<1>4. f.category = "Local" => is_local_scope(f.ip)
  BY DEF Right, is_local_scope
<1> QED BY <1>3, <1>4 DEF is_protected

(* To clear the low bits of two numbers is to compare their quotients.     *)
LEMMA SameQuotient ==
  ASSUME NEW n \in Nat, NEW m \in Nat, NEW s \in Nat, s > 0
  PROVE  n - (n % s) = m - (m % s) <=> n \div s = m \div s
<1> DEFINE p == n \div s
           q == m \div s
<1>1. p \in Nat /\ q \in Nat
  OBVIOUS
<1>2. n - (n % s) = s * p /\ m - (m % s) = s * q
  OBVIOUS
<1> HIDE DEF p, q
<1>3. ASSUME NEW a \in Nat, NEW b \in Nat, a < b
      PROVE  s * a < s * b
  <2>1. s * b = s * a + s * (b - a) /\ s * (b - a) >= s
    BY <1>3
  <2>2. s * a \in Nat
    OBVIOUS
  <2> QED BY <2>1, <2>2
<1>4. s * p = s * q <=> p = q
  <2>1. s * p \in Nat /\ s * q \in Nat
    BY <1>1
  <2>2. CASE p < q
    BY <2>1, <2>2, <1>1, <1>3
  <2>3. CASE q < p
    BY <2>1, <2>3, <1>1, <1>3
  <2> QED BY <1>1, <2>2, <2>3
<1> QED BY <1>2, <1>4 DEF p, q

(* A network holds the addresses between its first and its last, with the  *)
(* prefixes of nothing and of the whole address (cidr_contains, v4_mask).  *)
LEMMA NetworkIsInterval ==
  ASSUME NEW net \in Network, NEW ip \in Address
  PROVE  cidr_contains(net, ip) <=> Within(net, ip)
<1> DEFINE size == 2 ^ (BITS - net.prefix)
           all == 2 ^ BITS
<1>1. net.n \in 0 .. all - 1 /\ ip.n \in 0 .. all - 1 /\ net.prefix \in 0 .. BITS + 1
  BY DEF Network, Address
<1>2. all \in Nat \ {0}
  BY PowersAssumption DEF BITS
<1>3. net.prefix <= BITS => size \in Nat \ {0}
  <2>1. net.prefix <= BITS => BITS - net.prefix \in 0 .. BITS
    BY <1>1 DEF BITS
  <2> QED BY <2>1, PowersAssumption
<1>4. net.prefix = 0 => size = all
  BY DEF BITS
<1>5. cidr_contains(net, ip) <=>
        /\ net.v6 = ip.v6 /\ net.prefix <= BITS
        /\ IF net.prefix = 0 THEN TRUE ELSE net.n - (net.n % size) = ip.n - (ip.n % size)
  BY DEF cidr_contains, masked
<1>6. Within(net, ip) <=>
        net.v6 = ip.v6 /\ net.prefix <= BITS /\ ip.n \div size = net.n \div size
  BY DEF Within
<1> HIDE DEF size, all
<1>7. CASE net.prefix = 0
  <2>1. net.n \div all = 0 /\ ip.n \div all = 0
    BY <1>1, <1>2
  <2> QED BY <1>4, <1>5, <1>6, <1>7, <2>1
<1>8. CASE net.prefix > BITS
  BY <1>1, <1>5, <1>6, <1>8 DEF BITS
<1>9. CASE net.prefix # 0 /\ net.prefix <= BITS
  <2>1. net.n \in Nat /\ ip.n \in Nat /\ size \in Nat /\ size > 0
    BY <1>1, <1>2, <1>3, <1>9
  <2>2. net.n - (net.n % size) = ip.n - (ip.n % size) <=> net.n \div size = ip.n \div size
    BY <2>1, SameQuotient
  <2> QED BY <1>5, <1>6, <1>9, <2>2
<1> QED BY <1>1, <1>7, <1>8, <1>9 DEF BITS

(* A domain is found for the hosts that end with its labels (match_host).  *)
LEMMA SuffixIsCompared ==
  ASSUME NEW host \in Seq(STRING), NEW d \in Seq(STRING), Len(d) > 0
  PROVE  (\E i \in 1..Len(host) : SubSeq(host, i, Len(host)) = d)
           <=> /\ Len(d) <= Len(host)
               /\ \A i \in 0 .. Len(d) - 1 : d[Len(d) - i] = host[Len(host) - i]
<1> DEFINE n == Len(host)
           m == Len(d)
<1>1. n \in Nat /\ m \in Nat /\ m > 0
  OBVIOUS
<1>2. \A i \in 1..n : /\ SubSeq(host, i, n) \in Seq(STRING)
                      /\ Len(SubSeq(host, i, n)) = n - i + 1
                      /\ \A j \in 1..(n - i + 1) : SubSeq(host, i, n)[j] = host[i + j - 1]
  <2> SUFFICES ASSUME NEW i \in 1..n
               PROVE  /\ SubSeq(host, i, n) \in Seq(STRING)
                      /\ Len(SubSeq(host, i, n)) = n - i + 1
                      /\ \A j \in 1..(n - i + 1) : SubSeq(host, i, n)[j] = host[i + j - 1]
    OBVIOUS
  <2>1. \A j \in i..n : host[j] \in STRING
    BY <1>1
  <2> QED BY <1>1, <2>1, SubSeqProperties
<1> HIDE DEF n, m
<1>3. ASSUME NEW i \in 1..n, SubSeq(host, i, n) = d
      PROVE  m <= n /\ \A j \in 0 .. m - 1 : d[m - j] = host[n - j]
  <2>1. m = n - i + 1
    BY <1>2, <1>3 DEF m
  <2>2. ASSUME NEW j \in 0 .. m - 1 PROVE d[m - j] = host[n - j]
    <3>1. m - j \in 1..(n - i + 1) /\ i + (m - j) - 1 = n - j
      BY <1>1, <2>1
    <3>2. d[m - j] = host[i + (m - j) - 1]
      BY <1>2, <1>3, <3>1
    <3> QED BY <3>1, <3>2
  <2> QED BY <1>1, <2>1, <2>2
<1>4. ASSUME m <= n, \A j \in 0 .. m - 1 : d[m - j] = host[n - j]
      PROVE  \E i \in 1..n : SubSeq(host, i, n) = d
  <2> DEFINE i == n - m + 1
             s == SubSeq(host, i, n)
  <2>1. i \in 1..n /\ n - i + 1 = m
    BY <1>1, <1>4
  <2>2. s \in Seq(STRING) /\ Len(s) = m /\ \A j \in 1..m : s[j] = host[i + j - 1]
    BY <1>2, <2>1
  <2>3. ASSUME NEW j \in 1..m PROVE s[j] = d[j]
    <3>1. m - j \in 0 .. m - 1 /\ m - (m - j) = j /\ n - (m - j) = i + j - 1
      BY <1>1
    <3>2. d[m - (m - j)] = host[n - (m - j)]
      BY <1>4, <3>1
    <3> QED BY <2>2, <3>1, <3>2
  <2> HIDE DEF s
  <2>4. s = d
    BY <2>2, <2>3, SeqEqual DEF m
  <2> QED BY <2>1, <2>4 DEF s
<1> QED BY <1>3, <1>4 DEF n, m

(* A flow is in the threat database when the usable feeds list it, and all *)
(* of them could be read (load_dir, ThreatDb::matches).                    *)
LEMMA ThreatIsListed ==
  ASSUME directory \in Directories, NEW f, Right(f)
  PROVE  threat_matches(threats, f) <=> Listed(f)
<1> DEFINE usable == {file \in directory : file.kind # "other"}
           named == {file \in usable : file.kind \in {"hosts", "domains"}}
           listed == {file \in usable : file.kind = "ips"}
           n == Len(f.name)
           Ends(d) == /\ Len(d) <= n
                      /\ \A i \in 0 .. Len(d) - 1 : d[Len(d) - i] = f.name[n - i]
           byName == \E file \in usable : file.kind # "ips" /\ \E d \in file.domains : Len(d) > 1 /\ Ends(d)
           byNet == \E file \in usable : file.kind = "ips" /\ \E net \in file.nets : Within(net, f.ip)
<1>1. f.name \in Seq(STRING) /\ f.ip \in Address
  BY FlowsAssumption DEF Right
<1>2. \A file \in usable : /\ file.kind \in {"hosts", "domains", "ips"}
                           /\ file.domains \subseteq Seq(STRING) /\ file.nets \subseteq Network
  <2>1. \A file \in directory : file \in FeedFile
    BY WorldAssumption
  <2> QED BY <2>1 DEF FeedFile
<1>3. Listed(f) <=> (\A file \in usable : file.readable) /\ (byName \/ byNet)
  BY DEF Listed
<1>4. CASE \E file \in usable : ~file.readable
  <2>1. threats.domains = {} /\ threats.nets = {}
    BY <1>4 DEF threats, load_dir
  <2> QED BY <1>3, <1>4, <2>1 DEF threat_matches, match_host, match_ip
<1>5. CASE \A file \in usable : file.readable
  <2>1. /\ threats.domains = {d \in UNION {file.domains : file \in named} : is_plausible_domain(d)}
        /\ threats.nets = {c \in UNION {file.nets : file \in listed} : c.prefix <= BITS}
    BY <1>5 DEF threats, load_dir
  <2>2. match_host(threats, f.name) <=> byName
    <3>1. match_host(threats, f.name) <=>
            \E file \in named : \E d \in file.domains : Len(d) > 1 /\ \E i \in 1..n : SubSeq(f.name, i, n) = d
      <4>1. \A d : d \in threats.domains <=> \E file \in named : d \in file.domains /\ Len(d) > 1
        BY <2>1 DEF is_plausible_domain
      <4>2. match_host(threats, f.name) <=> \E i \in 1..n : SubSeq(f.name, i, n) \in threats.domains
        BY DEF match_host
      <4> HIDE DEF named, n
      <4> QED BY <4>1, <4>2
    <3>2. named = {file \in usable : file.kind # "ips"}
      BY <1>2
    <3>3. ASSUME NEW file \in named, NEW d \in file.domains, Len(d) > 1
          PROVE  (\E i \in 1..n : SubSeq(f.name, i, n) = d) <=> Ends(d)
      <4>1. d \in Seq(STRING) /\ Len(d) > 0
        BY <1>2, <3>3
      <4> QED BY <1>1, <4>1, SuffixIsCompared
    <3> HIDE DEF named, usable, Ends
    <3>4. match_host(threats, f.name) <=> \E file \in named : \E d \in file.domains : Len(d) > 1 /\ Ends(d)
      BY <3>1, <3>3
    <3> QED BY <3>2, <3>4
  <2>3. match_ip(threats, f.ip) <=> byNet
    <3>1. match_ip(threats, f.ip) <=>
            \E file \in listed : \E net \in file.nets : net.prefix <= BITS /\ cidr_contains(net, f.ip)
      BY <2>1 DEF match_ip
    <3>2. \A file \in listed : \A net \in file.nets :
            net.prefix <= BITS /\ cidr_contains(net, f.ip) <=> Within(net, f.ip)
      <4> SUFFICES ASSUME NEW file \in listed, NEW net \in file.nets
                   PROVE  net.prefix <= BITS /\ cidr_contains(net, f.ip) <=> Within(net, f.ip)
        OBVIOUS
      <4>1. net \in Network
        BY <1>2
      <4>2. cidr_contains(net, f.ip) <=> Within(net, f.ip)
        BY <1>1, <4>1, NetworkIsInterval
      <4> QED BY <4>2 DEF Within
    <3> QED BY <3>1, <3>2
  <2> QED BY <1>3, <1>5, <2>2, <2>3 DEF threat_matches
<1> QED BY <1>4, <1>5

(* A flow is blocked when a rule matches it and nothing spares it, whether *)
(* or not its name and owner are known (evaluate_with).                    *)
LEMMA DecisionIsRight ==
  ASSUME directory \in Directories, NEW f, Right(f), NEW policy \in AllPolicies
  PROVE  blocks(policy, f, threats) <=> f.ip \notin Home /\ ~Spared(policy.allow, f) /\ Matched(policy.deny, f)
<1>1. f.name \in Seq(STRING) /\ f.ip \in Address
  BY FlowsAssumption DEF Right
<1>2. policy.allow.nets \subseteq Network /\ policy.deny.nets \subseteq Network
  BY WorldAssumption
<1>3. \A nets \in SUBSET Network :
        (\E c \in nets : cidr_contains(c, f.ip)) <=> \E net \in nets : Within(net, f.ip)
  BY <1>1, NetworkIsInterval
<1>4. allow_matches(policy.allow, f) <=> Spared(policy.allow, f)
  <2>1. Words(f.name) \cap policy.allow.hosts # {} <=> \E i \in 1..Len(f.name) : f.name[i] \in policy.allow.hosts
    BY <1>1 DEF Words
  <2>2. f.org \cap policy.allow.orgs # {} <=> \E w \in policy.allow.orgs : w \in f.org
    OBVIOUS
  <2>3. (\E c \in policy.allow.nets : cidr_contains(c, f.ip)) <=> \E net \in policy.allow.nets : Within(net, f.ip)
    BY <1>2, <1>3
  <2> QED BY <2>1, <2>2, <2>3 DEF allow_matches, Spared
<1>5. rule_matches(policy.deny, f, threats) <=> Matched(policy.deny, f)
  <2>1. f.flags \cap policy.deny.flags # {} <=> \E x \in f.flags : x \in policy.deny.flags
    OBVIOUS
  <2>2. f.org \cap policy.deny.orgs # {} <=> \E w \in policy.deny.orgs : w \in f.org
    OBVIOUS
  <2>3. (\E c \in policy.deny.nets : cidr_contains(c, f.ip)) <=> \E net \in policy.deny.nets : Within(net, f.ip)
    BY <1>2, <1>3
  <2>4. threat_matches(threats, f) <=> Listed(f)
    BY ThreatIsListed
  <2> QED BY <2>1, <2>2, <2>3, <2>4 DEF rule_matches, Matched
<1>6. is_protected(f) <=> f.ip \in Home
  BY FloorIsHome
<1> QED BY <1>4, <1>5, <1>6 DEF blocks

(* Whatever the policies, the feeds and the world: the targets of a plan   *)
(* are the addresses of the flows that a rule matches, outside the home of *)
(* the host and what the allowlist spares (dry_run_with).                  *)
THEOREM PlansAreRight == WorldSpec => []PlanIsRight
<1>1. ASSUME WorldInv PROVE PlanIsRight
  <2> SUFFICES ASSUME NEW policy \in AllPolicies
               PROVE  dry_run_with(policy, world, threats).targets =
                        {f.ip : f \in {f \in world : f.ip \notin Home /\ ~Spared(policy.allow, f)
                                                     /\ Matched(policy.deny, f)}}
    BY DEF PlanIsRight
  <2>1. \A f \in world : blocks(policy, f, threats) <=>
          f.ip \notin Home /\ ~Spared(policy.allow, f) /\ Matched(policy.deny, f)
    BY <1>1, DecisionIsRight DEF WorldInv
  <2>2. {f \in world : blocks(policy, f, threats)} =
          {f \in world : f.ip \notin Home /\ ~Spared(policy.allow, f) /\ Matched(policy.deny, f)}
    BY <2>1
  <2>3. dry_run_with(policy, world, threats).targets = {f.ip : f \in {f \in world : blocks(policy, f, threats)}}
    BY DEF dry_run_with
  <2> QED BY <2>2, <2>3
<1> QED BY <1>1, WorldInvariance, PTL
-----------------------------------------------------------------------------
(* The files of rules                                                      *)

(* The addresses of a plan, in the order the batch file has them, and      *)
(* those of its first j rules.                                             *)
Order(targets) == Ext!SetToSeq({ip \in targets : ~ip.v6}) \o Ext!SetToSeq({ip \in targets : ip.v6})
Covered(all, j) == {all[k] : k \in {k \in DOMAIN all : k <= j * CHUNK}}
Chunks(all) == (Len(all) + CHUNK - 1) \div CHUNK

Rules == [exists : BOOLEAN, rules : SUBSET SUBSET Address, failed : BOOLEAN]

(* What is known of the file on screen while it is run: the firewall of a  *)
(* batch file drops what the rules so far say; that of a transaction is    *)
(* still what the last file has left.                                      *)
HalfRun ==
  done # 0 =>
    /\ reply.kind = "file" /\ done < Len(reply.file)
    /\ backend = "Nftables" /\ done = 1 => staged.exists /\ ~staged.failed
    /\ backend = "Nftables" /\ done = 2 => staged = NoRules
    /\ backend = "Netsh" =>
         /\ Dropped(fw) = Covered(Order(reply.add), done - 1)
         /\ installed = reply.add /\ ~whole

FileInv ==
  /\ fw \in Rules /\ ~fw.failed /\ staged \in Rules
  /\ installed \subseteq Address /\ done \in Nat
  /\ reply.kind = "file" =>
       /\ reply.add \subseteq Address /\ IsFiniteSet(reply.add)
       /\ reply.file = generate(backend, reply.add)
  /\ HalfRun
  /\ FirewallIsThePlan

(* A finite set as a sequence has all of it.                               *)
LEMMA SetToSeqIs ==
  ASSUME NEW S, IsFiniteSet(S)
  PROVE  /\ Ext!SetToSeq(S) \in Seq(S)
         /\ \A x \in S : \E k \in 1..Len(Ext!SetToSeq(S)) : Ext!SetToSeq(S)[k] = x
<1> DEFINE n == Cardinality(S)
           s == Ext!SetToSeq(S)
<1>1. n \in Nat /\ ExistsBijection(1..n, S)
  BY FS_CardinalityType
<1>2. \E f \in [1..n -> S] : Ext!IsInjective(f)
  BY <1>1 DEF ExistsBijection, Bijection, Injection, IsInjective, Ext!IsInjective
<1>3. s \in [1..n -> S] /\ Ext!IsInjective(s)
  <2>1. Ext!Cardinality(S) = n
    BY DEF Cardinality, Ext!Cardinality
  <2> QED BY <1>2, <2>1 DEF Ext!SetToSeq
<1>4. s \in Injection(1..n, S)
  BY <1>3 DEF Injection, IsInjective, Ext!IsInjective
<1>5. Cardinality(1..n) = n
  BY <1>1, FS_Interval
<1>6. s \in Surjection(1..n, S)
  BY <1>4, <1>5, FS_Injection
<1>7. s \in Seq(S) /\ Len(s) = n
  BY <1>1, <1>3
<1> HIDE DEF s
<1> QED BY <1>6, <1>7 DEF s, Surjection

LEMMA OrderIs ==
  ASSUME NEW targets \in SUBSET Address, IsFiniteSet(targets)
  PROVE  /\ Order(targets) \in Seq(targets)
         /\ \A x \in targets : \E k \in 1..Len(Order(targets)) : Order(targets)[k] = x
<1> DEFINE v4 == {ip \in targets : ~ip.v6}
           v6 == {ip \in targets : ip.v6}
           s == Ext!SetToSeq(v4)
           t == Ext!SetToSeq(v6)
           all == Order(targets)
<1>1. IsFiniteSet(v4) /\ IsFiniteSet(v6)
  BY FS_Subset
<1>2. s \in Seq(v4) /\ t \in Seq(v6)
  BY <1>1, SetToSeqIs
<1>3. \A x \in v4 : \E k \in 1..Len(s) : s[k] = x
  BY <1>1, SetToSeqIs
<1>4. \A x \in v6 : \E k \in 1..Len(t) : t[k] = x
  BY <1>1, SetToSeqIs
<1>5. all = s \o t
  BY DEF Order
<1>6. s \in Seq(targets) /\ t \in Seq(targets)
  <2>1. \A k \in 1..Len(s) : s[k] \in targets
    BY <1>2
  <2>2. \A k \in 1..Len(t) : t[k] \in targets
    BY <1>2
  <2> HIDE DEF s, t
  <2> QED BY <1>2, <2>1, <2>2
<1> HIDE DEF s, t, all
<1>7. all \in Seq(targets) /\ Len(all) = Len(s) + Len(t)
  BY <1>5, <1>6
<1>8. \A k \in 1..Len(s) : k \in 1..Len(all) /\ all[k] = s[k]
  BY <1>5, <1>6, <1>7
<1>9. \A k \in 1..Len(t) : Len(s) + k \in 1..Len(all) /\ all[Len(s) + k] = t[k]
  BY <1>5, <1>6, <1>7
<1>10. ASSUME NEW x \in targets PROVE \E k \in 1..Len(all) : all[k] = x
  <2>1. CASE x \in v4
    BY <2>1, <1>3, <1>8
  <2>2. CASE x \in v6
    BY <2>2, <1>4, <1>9
  <2> QED BY <2>1, <2>2
<1> QED BY <1>7, <1>10 DEF all

(* The rules cover the plan chunk by chunk: none of it before the first,   *)
(* one chunk more with each, and all of it with the last.                  *)
LEMMA ChunksCover ==
  ASSUME NEW T, NEW all \in Seq(T)
  PROVE  /\ Chunks(all) \in Nat
         /\ Covered(all, 0) = {}
         /\ \A i \in Nat : Covered(all, i + 1) = Covered(all, i) \cup Chunk(all, i + 1)
         /\ Covered(all, Chunks(all)) = {all[k] : k \in 1..Len(all)}
<1> USE WardenAssumption
<1> DEFINE n == Chunks(all)
<1>1. n \in Nat /\ Len(all) <= n * CHUNK
  <2> DEFINE m == Len(all) + CHUNK - 1
  <2>1. m \in Nat /\ m >= CHUNK - 1
    OBVIOUS
  <2>2. m = CHUNK * (m \div CHUNK) + (m % CHUNK) /\ m % CHUNK \in 0..(CHUNK - 1) /\ m \div CHUNK \in Nat
    BY <2>1
  <2>3. CHUNK * (m \div CHUNK) \in Nat /\ CHUNK * (m \div CHUNK) = (m \div CHUNK) * CHUNK
    BY <2>2
  <2>4. Len(all) <= (m \div CHUNK) * CHUNK
    <3> DEFINE q == (m \div CHUNK) * CHUNK
               r == m % CHUNK
    <3>1. m = q + r /\ q \in Nat /\ r \in 0..(CHUNK - 1)
      BY <2>2, <2>3
    <3> HIDE DEF q, r
    <3>2. Len(all) <= q
      BY <3>1
    <3> QED BY <3>2 DEF q
  <2> QED BY <2>2, <2>4 DEF Chunks
<1>2. Covered(all, 0) = {}
  BY DEF Covered
<1>3. ASSUME NEW i \in Nat
      PROVE  Covered(all, i + 1) = Covered(all, i) \cup Chunk(all, i + 1)
  <2>1. (i + 1) * CHUNK = i * CHUNK + CHUNK /\ i * CHUNK \in Nat /\ (i + 1) - 1 = i
    OBVIOUS
  <2> DEFINE a == i * CHUNK
             b == (i + 1) * CHUNK
  <2>2. a \in Nat /\ b \in Nat /\ a <= b
    BY <2>1
  <2> HIDE DEF a, b
  <2>3. {k \in DOMAIN all : k <= b} = {k \in DOMAIN all : k <= a} \cup {k \in DOMAIN all : a < k /\ k <= b}
    BY <2>2
  <2>4. Covered(all, i + 1) = {all[k] : k \in {k \in DOMAIN all : k <= b}}
    BY DEF Covered, b
  <2>5. Covered(all, i) = {all[k] : k \in {k \in DOMAIN all : k <= a}}
    BY DEF Covered, a
  <2>6. Chunk(all, i + 1) = {all[k] : k \in {k \in DOMAIN all : a < k /\ k <= b}}
    BY <2>1 DEF Chunk, a, b
  <2> QED BY <2>3, <2>4, <2>5, <2>6
<1>4. Covered(all, n) = {all[k] : k \in 1..Len(all)}
  <2> DEFINE a == n * CHUNK
  <2>1. a \in Nat /\ Len(all) <= a
    BY <1>1
  <2> HIDE DEF a
  <2>2. {k \in DOMAIN all : k <= a} = 1..Len(all)
    BY <2>1
  <2> QED BY <2>2 DEF Covered, a
<1> QED BY <1>1, <1>2, <1>3, <1>4

(* What the commands make of a firewall that is well: those that make room *)
LEMMA RoomIsMade ==
  ASSUME NEW f \in Rules, ~f.failed
  PROVE  /\ NoRules \in Rules /\ ~NoRules.failed /\ Dropped(NoRules) = {}
         /\ Execute(f, Cmd("deletegroup", {})) = NoRules
         /\ Execute(f, Cmd("ensure", {})) \in Rules
         /\ ~Execute(f, Cmd("ensure", {})).failed /\ Execute(f, Cmd("ensure", {})).exists
         /\ f.exists => Execute(f, Cmd("delete", {})) = NoRules
<1>1. NoRules \in Rules /\ ~NoRules.failed /\ Dropped(NoRules) = {}
  BY DEF NoRules, Rules, Dropped
<1>2. Execute(f, Cmd("deletegroup", {})) = NoRules
  BY DEF Execute, Cmd
<1>3. Execute(f, Cmd("ensure", {})) = [f EXCEPT !.exists = TRUE]
  BY DEF Execute, Cmd
<1>4. f.exists => Execute(f, Cmd("delete", {})) = NoRules
  BY DEF Execute, Cmd
<1>5. [f EXCEPT !.exists = TRUE] \in Rules
  BY DEF Rules
<1>6. [f EXCEPT !.exists = TRUE].exists /\ [f EXCEPT !.exists = TRUE].failed = f.failed
  BY DEF Rules
<1> QED BY <1>1, <1>2, <1>3, <1>4, <1>5, <1>6

(* and those that bring rules, beside the ones there or in their place.    *)
LEMMA RulesAreMade ==
  ASSUME NEW f \in Rules, ~f.failed, NEW drops \in SUBSET SUBSET Address, NEW op \in {"create", "add", "load"},
         NEW g, g = Execute(f, Cmd(op, drops))
  PROVE  /\ g \in Rules /\ ~g.failed
         /\ g.rules = IF op = "load" THEN drops ELSE f.rules \cup drops
<1> DEFINE new == IF op = "load" THEN drops ELSE f.rules \cup drops
<1>1. g = [f EXCEPT !.exists = TRUE, !.rules = new]
  <2>1. CASE op = "create"
    BY <2>1 DEF Execute, Cmd
  <2>2. CASE op = "add"
    BY <2>2 DEF Execute, Cmd
  <2>3. CASE op = "load"
    BY <2>3 DEF Execute, Cmd
  <2> QED BY <2>1, <2>2, <2>3
<1>2. new \in SUBSET SUBSET Address
  BY DEF Rules
<1> HIDE DEF new
<1>3. g \in Rules /\ g.failed = f.failed /\ g.rules = new
  BY <1>1, <1>2 DEF Rules
<1> QED BY <1>3 DEF new

(* The batch file clears the group and has a rule for each chunk.          *)
LEMMA BatchFile ==
  ASSUME NEW targets \in SUBSET Address, IsFiniteSet(targets),
         NEW file, file = generate("Netsh", targets)
  PROVE  /\ Len(file) = Chunks(Order(targets)) + 1
         /\ file[1] = Cmd("deletegroup", {})
         /\ \A i \in 1..Chunks(Order(targets)) : file[i + 1] = Cmd("add", {Chunk(Order(targets), i)})
<1> DEFINE all == Order(targets)
           n == Chunks(all)
           adds == [i \in 1..n |-> Cmd("add", {Chunk(all, i)})]
           first == <<Cmd("deletegroup", {})>>
           C == {Cmd("deletegroup", {})} \cup {Cmd("add", {Chunk(all, i)}) : i \in 1..n}
<1>1. n \in Nat
  BY OrderIs, ChunksCover
<1>2. file = first \o adds
  BY DEF generate, netsh, Order, Chunks
<1>3. adds \in Seq(C) /\ Len(adds) = n /\ \A i \in 1..n : adds[i] = Cmd("add", {Chunk(all, i)})
  <2>1. adds \in [1..n -> C]
    OBVIOUS
  <2> HIDE DEF n, C
  <2> QED BY <1>1, <2>1
<1>4. first \in Seq(C) /\ Len(first) = 1 /\ first[1] = Cmd("deletegroup", {})
  OBVIOUS
<1> HIDE DEF adds, first, C, n
<1>5. /\ Len(first \o adds) = Len(first) + Len(adds)
      /\ \A i \in 1..(Len(first) + Len(adds)) :
           (first \o adds)[i] = IF i <= Len(first) THEN first[i] ELSE adds[i - Len(first)]
  BY <1>3, <1>4, ConcatProperties
<1>6. Len(first \o adds) = n + 1 /\ (first \o adds)[1] = first[1]
  BY <1>1, <1>3, <1>4, <1>5
<1>7. ASSUME NEW i \in 1..n PROVE (first \o adds)[i + 1] = adds[i]
  <2>1. i + 1 \in 1..(1 + n) /\ ~(i + 1 <= 1) /\ (i + 1) - 1 = i
    BY <1>1
  <2> QED BY <2>1, <1>3, <1>4, <1>5
<1> QED BY <1>2, <1>3, <1>4, <1>6, <1>7 DEF n

(* The rules in the file of nft: of each family that has addresses.        *)
ByFamily(targets) == NonEmpty({{ip \in targets : ~ip.v6}, {ip \in targets : ip.v6}})

LEMMA NftFile ==
  ASSUME NEW targets \in SUBSET Address, NEW file, file = generate("Nftables", targets)
  PROVE  /\ Len(file) = 3 /\ file[1] = Cmd("ensure", {}) /\ file[2] = Cmd("delete", {})
         /\ file[3] = Cmd("create", ByFamily(targets))
         /\ ByFamily(targets) \in SUBSET SUBSET Address /\ UNION ByFamily(targets) = targets
<1>1. generate("Nftables", targets) = <<Cmd("ensure", {}), Cmd("delete", {}), Cmd("create", ByFamily(targets))>>
  BY DEF generate, nftables, ByFamily
<1>2. UNION ByFamily(targets) = targets /\ ByFamily(targets) \in SUBSET SUBSET Address
  BY DEF ByFamily, NonEmpty
<1> QED BY <1>1, <1>2

LEMMA PfFile ==
  ASSUME NEW targets \in SUBSET Address, NEW file, file = generate("Pf", targets)
  PROVE  Len(file) = 1 /\ file[1] = Cmd("load", {targets})
<1>1. {ip \in targets : ~ip.v6} \cup {ip \in targets : ip.v6} = targets
  OBVIOUS
<1>2. generate("Pf", targets) = <<Cmd("load", {targets})>>
  BY <1>1 DEF generate, pf
<1> QED BY <1>2

-----------------------------------------------------------------------------
(* A command at a time                                                     *)

(* A step of the batch file.                                               *)
LEMMA CommandKeeps == ASSUME WorldInv, FileInv, RunCommand PROVE FileInv'
<1> DEFINE targets == reply.add
           all == Order(targets)
           n == Chunks(all)
           file == reply.file
<1>1. backend = "Netsh" /\ reply.kind = "file" /\ UNCHANGED <<reply, backend>>
  BY DEF RunCommand, IsTransaction
<1>2. targets \in SUBSET Address /\ IsFiniteSet(targets) /\ file = generate("Netsh", targets)
  BY <1>1 DEF FileInv
<1>3. all \in Seq(targets) /\ targets = {all[k] : k \in 1..Len(all)}
  <2>1. all \in Seq(targets) /\ \A x \in targets : \E k \in 1..Len(all) : all[k] = x
    BY <1>2, OrderIs
  <2> HIDE DEF all
  <2>2. \A k \in 1..Len(all) : all[k] \in targets
    BY <2>1
  <2> QED BY <2>1, <2>2
<1>4. /\ n \in Nat /\ Covered(all, 0) = {}
      /\ \A i \in Nat : Covered(all, i + 1) = Covered(all, i) \cup Chunk(all, i + 1)
      /\ Covered(all, n) = targets
  BY <1>3, ChunksCover
<1>5. /\ Len(file) = n + 1 /\ file[1] = Cmd("deletegroup", {})
      /\ \A i \in 1..n : file[i + 1] = Cmd("add", {Chunk(all, i)})
  BY <1>2, BatchFile
<1>6. \A i \in Nat : Chunk(all, i) \subseteq targets /\ Covered(all, i) \subseteq targets
  BY <1>3 DEF Chunk, Covered
<1>7. done \in Nat /\ fw \in Rules /\ ~fw.failed /\ done < Len(file) /\ done <= n
  BY <1>1, <1>4, <1>5 DEF FileInv, HalfRun
<1> HIDE DEF all, n
<1>8. fw' \in Rules /\ ~fw'.failed /\ Dropped(fw') = Covered(all, done)
  <2>1. CASE done = 0
    <3>1. fw' = NoRules
      BY <2>1, <1>5, <1>7, RoomIsMade DEF RunCommand
    <3> QED BY <3>1, <2>1, <1>4, <1>7, RoomIsMade
  <2>2. CASE done # 0
    <3> DEFINE drops == {Chunk(all, done)}
    <3>1. done \in 1..n /\ done - 1 \in Nat
      BY <2>2, <1>4, <1>7
    <3>2. file[done + 1] = Cmd("add", drops) /\ fw' = Execute(fw, Cmd("add", drops))
      BY <3>1, <1>5 DEF RunCommand
    <3>3. drops \in SUBSET SUBSET Address
      BY <3>1, <1>2, <1>6
    <3>4. fw' \in Rules /\ ~fw'.failed /\ fw'.rules = fw.rules \cup drops
      BY <3>2, <3>3, <1>7, RulesAreMade
    <3>5. Dropped(fw') = Dropped(fw) \cup Chunk(all, done)
      BY <3>4 DEF Dropped
    <3>6. Dropped(fw) = Covered(all, done - 1)
      BY <2>2, <1>1 DEF FileInv, HalfRun, all
    <3>7. Covered(all, (done - 1) + 1) = Covered(all, done - 1) \cup Chunk(all, (done - 1) + 1) /\ (done - 1) + 1 = done
      BY <3>1, <1>4
    <3> QED BY <3>4, <3>5, <3>6, <3>7
  <2> QED BY <2>1, <2>2
<1>9. staged' \in Rules
  BY <1>7, RoomIsMade DEF RunCommand, Proceed, Forget
<1>10. installed' = targets /\ whole' = Finished /\ (Finished <=> done = n)
  BY <1>4, <1>5, <1>7 DEF RunCommand, Finished
<1>11. FirewallIsThePlan'
  BY <1>4, <1>6, <1>7, <1>8, <1>10 DEF FirewallIsThePlan
<1>12. done' \in Nat /\ HalfRun'
  <2>1. CASE Finished
    BY <2>1, <1>7 DEF RunCommand, Proceed, Forget, HalfRun
  <2>2. CASE ~Finished
    <3>1. done' = done + 1 /\ done < n
      BY <2>2, <1>4, <1>7, <1>10 DEF RunCommand, Proceed
    <3>2. done' - 1 = done /\ done' < Len(file)
      BY <3>1, <1>4, <1>5, <1>7
    <3>3. Dropped(fw') = Covered(Order(reply'.add), done' - 1) /\ installed' = reply'.add /\ ~whole'
      BY <3>1, <3>2, <1>1, <1>8, <1>10, <2>2 DEF all
    <3> QED BY <3>1, <3>2, <3>3, <1>1, <1>7 DEF HalfRun
  <2> QED BY <2>1, <2>2
<1>13. /\ reply'.add \subseteq Address /\ IsFiniteSet(reply'.add)
       /\ reply'.file = generate(backend', reply'.add)
  BY <1>1, <1>2
<1> HIDE DEF targets, file
<1> QED BY <1>1, <1>2, <1>8, <1>9, <1>10, <1>11, <1>12, <1>13 DEF FileInv, targets

(* A statement of a transaction.                                           *)
LEMMA StatementKeeps == ASSUME WorldInv, FileInv, RunStatement PROVE FileInv'
<1> DEFINE targets == reply.add
           file == reply.file
           on == IF done = 0 THEN fw ELSE staged
           after == Execute(on, file[done + 1])
<1>1. backend \in {"Nftables", "Pf"} /\ reply.kind = "file" /\ UNCHANGED <<reply, backend>>
  BY DEF RunStatement, IsTransaction, WorldInv, Firewall
<1>2. targets \in SUBSET Address /\ IsFiniteSet(targets) /\ file = generate(backend, targets)
  BY <1>1 DEF FileInv
<1>3. fw \in Rules /\ ~fw.failed /\ done \in Nat /\ (done # 0 => done < Len(file))
  BY DEF FileInv, HalfRun
<1>4. /\ Proceed(after)
      /\ IF Finished /\ ~after.failed THEN fw' = after /\ installed' = targets /\ whole' = TRUE
         ELSE UNCHANGED <<fw, installed, whole>>
  BY DEF RunStatement
<1>5. NoRules \in Rules /\ ~NoRules.failed
  BY <1>3, RoomIsMade
<1>6. CASE backend = "Pf"
  <2>1. Len(file) = 1 /\ file[1] = Cmd("load", {targets})
    BY <1>2, <1>6, PfFile
  <2>2. done = 0 /\ Finished /\ on = fw
    BY <2>1, <1>3 DEF Finished
  <2>3. after \in Rules /\ ~after.failed /\ after.rules = {targets}
    <3>1. {targets} \in SUBSET SUBSET Address
      BY <1>2
    <3>2. after = Execute(fw, Cmd("load", {targets}))
      BY <2>1, <2>2
    <3>3. "load" \in {"create", "add", "load"}
      OBVIOUS
    <3> DEFINE drops == {targets}
    <3> HIDE DEF after, drops
    <3>4. drops \in SUBSET SUBSET Address /\ after = Execute(fw, Cmd("load", drops))
      BY <3>1, <3>2 DEF drops
    <3>5. after \in Rules /\ ~after.failed /\ after.rules = drops
      BY <3>3, <3>4, <1>3, RulesAreMade
    <3> QED BY <3>5 DEF drops
  <2> HIDE DEF after
  <2>4. fw' = after /\ installed' = targets /\ whole' = TRUE /\ done' = 0 /\ staged' = NoRules
    BY <2>2, <2>3, <1>4 DEF Proceed, Forget
  <2>5. Dropped(fw') = targets
    BY <2>3, <2>4 DEF Dropped
  <2>6. FirewallIsThePlan' /\ HalfRun'
    BY <2>4, <2>5 DEF FirewallIsThePlan, HalfRun
  <2> QED BY <1>1, <1>2, <1>5, <2>3, <2>4, <2>6 DEF FileInv
<1>7. CASE backend = "Nftables"
  <2> DEFINE drops == ByFamily(targets)
  <2>1. Len(file) = 3 /\ file[1] = Cmd("ensure", {}) /\ file[2] = Cmd("delete", {})
    BY <1>2, <1>7, NftFile
  <2>2. file[3] = Cmd("create", drops) /\ drops \in SUBSET SUBSET Address /\ UNION drops = targets
    BY <1>2, <1>7, NftFile
  <2> HIDE DEF drops
  <2>3. done \in 0..2
    BY <2>1, <1>3
  <2>4. CASE done = 0
    <3>1. after \in Rules /\ ~after.failed /\ after.exists
      BY <2>1, <2>4, <1>3, RoomIsMade
    <3>2. ~Finished
      BY <2>1, <2>4 DEF Finished
    <3> HIDE DEF after
    <3>3. staged' = after /\ done' = 1 /\ UNCHANGED <<fw, installed, whole>>
      BY <3>2, <2>4, <1>4 DEF Proceed
    <3>4. HalfRun' /\ FirewallIsThePlan'
      BY <3>1, <3>3, <2>1, <1>1, <1>7 DEF HalfRun, FirewallIsThePlan, FileInv
    <3> QED BY <3>1, <3>3, <3>4, <1>1, <1>2, <1>3 DEF FileInv
  <2>5. CASE done = 1
    <3>1. staged \in Rules /\ staged.exists /\ ~staged.failed
      BY <2>5, <1>7 DEF FileInv, HalfRun
    <3>2. after = NoRules
      BY <3>1, <2>1, <2>5, RoomIsMade
    <3>3. ~Finished
      BY <2>1, <2>5 DEF Finished
    <3> HIDE DEF after
    <3>4. staged' = NoRules /\ done' = 2 /\ UNCHANGED <<fw, installed, whole>>
      BY <3>2, <3>3, <2>5, <1>4 DEF Proceed
    <3>5. HalfRun' /\ FirewallIsThePlan'
      <4>1. FirewallIsThePlan'
        BY <3>4 DEF FirewallIsThePlan, FileInv
      <4>2. reply'.kind = "file" /\ done' < Len(reply'.file) /\ backend' # "Netsh" /\ done' # 1
        <5>1. reply' = reply /\ backend' = backend /\ backend # "Netsh" /\ reply.kind = "file" /\ done' = 2
          BY <3>4, <1>1, <1>7
        <5> QED BY <5>1, <2>1
      <4> QED BY <3>4, <4>1, <4>2 DEF HalfRun
    <3> QED BY <3>4, <3>5, <1>1, <1>2, <1>3, <1>5 DEF FileInv
  <2>6. CASE done = 2
    <3>1. staged = NoRules
      BY <2>6, <1>7 DEF FileInv, HalfRun
    <3>2. on = NoRules /\ after = Execute(NoRules, Cmd("create", drops))
      BY <3>1, <2>2, <2>6
    <3>3. after \in Rules /\ ~after.failed /\ after.rules = NoRules.rules \cup drops
      <4> HIDE DEF after
      <4>1. "create" \in {"create", "add", "load"} /\ "create" # "load"
        OBVIOUS
      <4> QED BY <4>1, <3>2, <2>2, <1>5, RulesAreMade
    <3>4. Finished
      BY <2>1, <2>6 DEF Finished
    <3> HIDE DEF after
    <3>5. fw' = after /\ installed' = targets /\ whole' = TRUE /\ done' = 0 /\ staged' = NoRules
      BY <3>3, <3>4, <1>4 DEF Proceed, Forget
    <3>6. Dropped(fw') = targets
      BY <3>3, <3>5, <2>2 DEF Dropped, NoRules
    <3>7. FirewallIsThePlan' /\ HalfRun'
      BY <3>5, <3>6 DEF FirewallIsThePlan, HalfRun
    <3> QED BY <1>1, <1>2, <1>5, <3>3, <3>5, <3>7 DEF FileInv
  <2> QED BY <2>3, <2>4, <2>5, <2>6
<1> QED BY <1>1, <1>6, <1>7

(* The other steps: a new answer comes when no file is being run, an       *)
(* interruption leaves what has been done, and the user's own command      *)
(* leaves nothing.                                                         *)
LEMMA AnswerRests ==
  ASSUME FileInv, reply = NoReply, NEW answer, OnScreen(answer),
         answer.kind = "file" =>
           /\ answer.add \subseteq Address /\ IsFiniteSet(answer.add)
           /\ answer.file = generate(backend, answer.add)
  PROVE  FileInv'
<1>1. reply.kind # "file"
  BY DEF NoReply
<1>2. done = 0
  BY <1>1 DEF FileInv, HalfRun
<1>3. reply' = answer /\ UNCHANGED <<backend, fw, done, staged, installed, whole>>
  BY DEF OnScreen, hostVars
<1> QED BY <1>2, <1>3 DEF FileInv, HalfRun, FirewallIsThePlan

(* A plan is of finitely many addresses of flows.                          *)
LEMMA PlanIsFinite ==
  ASSUME WorldInv, NEW policy
  PROVE  LET targets == dry_run_with(policy, world, threats).targets
         IN targets \subseteq Address /\ IsFiniteSet(targets)
<1> DEFINE targets == dry_run_with(policy, world, threats).targets
           ip == [f \in world |-> f.ip]
           all == {ip[f] : f \in world}
<1>1. IsFiniteSet(all)
  <2> HIDE DEF ip
  <2> QED BY ImageIsFinite DEF WorldInv
<1>2. all \subseteq Address
  BY FlowsAssumption DEF WorldInv, Right
<1>3. targets \subseteq all
  BY DEF dry_run_with
<1> HIDE DEF targets, all
<1>4. IsFiniteSet(targets)
  BY <1>1, <1>3, FS_Subset
<1> QED BY <1>2, <1>3, <1>4 DEF targets

LEMMA RequestsKeepFiles ==
  ASSUME WorldInv, FileInv
  PROVE  \/ \E policy \in Policies : Apply(policy) \/ Generate(policy)
         \/ \E ips \in {{}} \cup {{a} : a \in Dropped(fw)} : Unblock(ips)
         \/ ReportThreats
         \/ \E reachable, models \in BOOLEAN : Menu(reachable, models)
         => FileInv'
<1>1. ASSUME NEW policy \in Policies, Apply(policy)
      PROVE  FileInv'
  <2> DEFINE answer == [NoReply EXCEPT !.kind = "apply", !.add = dry_run_with(policy, world, threats).targets]
  <2>1. answer.kind # "file"
    BY DEF NoReply
  <2>2. reply = NoReply /\ OnScreen(answer)
    BY <1>1 DEF Apply, Answered, OnScreen
  <2> HIDE DEF answer
  <2> QED BY <2>1, <2>2, AnswerRests
<1>2. ASSUME NEW policy \in Policies, Generate(policy)
      PROVE  FileInv'
  <2> DEFINE targets == dry_run_with(policy, world, threats).targets
             answer == [NoReply EXCEPT !.kind = "file", !.add = targets, !.file = generate(backend, targets)]
  <2>1. reply = NoReply /\ OnScreen(answer)
    BY <1>2 DEF Generate, Answered, OnScreen
  <2>2. targets \subseteq Address /\ IsFiniteSet(targets)
    BY PlanIsFinite
  <2> HIDE DEF targets
  <2>3. answer.add = targets /\ answer.file = generate(backend, targets)
    BY DEF NoReply
  <2> HIDE DEF answer
  <2> QED BY <2>1, <2>2, <2>3, AnswerRests
<1>3. ASSUME NEW ips, Unblock(ips)
      PROVE  FileInv'
  <2> DEFINE clear == [NoReply EXCEPT !.kind = "clear"]
             remove == [NoReply EXCEPT !.kind = "apply", !.remove = ips]
  <2>1. clear.kind # "file" /\ remove.kind # "file"
    BY DEF NoReply
  <2>2. reply = NoReply /\ (OnScreen(clear) \/ OnScreen(remove))
    <3>1. CASE ips = {}
      BY <3>1, <1>3 DEF Unblock, Answered, OnScreen
    <3>2. CASE ips # {}
      BY <3>2, <1>3 DEF Unblock, Answered, OnScreen
    <3> QED BY <3>1, <3>2
  <2> HIDE DEF clear, remove
  <2> QED BY <2>1, <2>2, AnswerRests
<1>4. ASSUME ReportThreats
      PROVE  FileInv'
  <2> DEFINE answer == [NoReply EXCEPT !.kind = "threats", !.add = threat_targets(threats, world)]
  <2>1. answer.kind # "file"
    BY DEF NoReply
  <2>2. reply = NoReply /\ OnScreen(answer)
    BY <1>4 DEF ReportThreats, Answered, OnScreen
  <2> HIDE DEF answer
  <2> QED BY <2>1, <2>2, AnswerRests
<1>5. ASSUME NEW reachable, NEW models, Menu(reachable, models)
      PROVE  FileInv'
  <2> DEFINE answer == [NoReply EXCEPT !.kind = "menu", !.menu = provider_statuses(reachable, models)]
  <2>1. answer.kind # "file"
    BY DEF NoReply
  <2>2. reply = NoReply /\ OnScreen(answer)
    BY <1>5 DEF Menu, Answered, OnScreen
  <2> HIDE DEF answer
  <2> QED BY <2>1, <2>2, AnswerRests
<1> QED BY <1>1, <1>2, <1>3, <1>4, <1>5

LEMMA QuestionsKeepFiles ==
  ASSUME FileInv, NEW provider \in Provider, NEW http \in Http
  PROVE  ExplainSession(provider, http) \/ (\E id \in Socket : ExplainNode(id, provider, http)) => FileInv'
<1>1. ASSUME NEW session, NEW node
      PROVE  explain(provider, session, node, http).kind # "file"
  <2>1. explain_ollama(http) # "file" /\ explain_anthropic(http) # "file"
    BY DEF explain_ollama, explain_anthropic
  <2> QED BY <2>1 DEF explain, Provider
<1>2. ASSUME ExplainSession(provider, http)
      PROVE  FileInv'
  <2> DEFINE a == explain(provider, scrub_session(world), FALSE, http)
             answer == [NoReply EXCEPT !.kind = a.kind, !.gone = a.gone, !.facts = a.facts]
  <2>1. reply = NoReply /\ OnScreen(answer)
    BY <1>2 DEF ExplainSession, Answered, OnScreen
  <2>2. a.kind # "file"
    BY <1>1
  <2> HIDE DEF a
  <2>3. answer.kind # "file"
    BY <2>2 DEF NoReply
  <2> HIDE DEF answer
  <2> QED BY <2>1, <2>3, AnswerRests
<1>3. ASSUME NEW id \in Socket, ExplainNode(id, provider, http)
      PROVE  FileInv'
  <2> DEFINE found == {f \in world : f.id = id}
             a == explain(provider, scrub_session(found), TRUE, http)
             answer == [NoReply EXCEPT !.kind = a.kind, !.gone = a.gone, !.facts = a.facts]
             closed == [NoReply EXCEPT !.kind = "closed"]
  <2>1. reply = NoReply /\ (OnScreen(closed) \/ OnScreen(answer))
    <3>1. CASE found = {}
      BY <3>1, <1>3 DEF ExplainNode, Answered, OnScreen
    <3>2. CASE found # {}
      BY <3>2, <1>3 DEF ExplainNode, Answered, OnScreen
    <3> QED BY <3>1, <3>2
  <2>2. a.kind # "file"
    BY <1>1
  <2> HIDE DEF a
  <2>3. answer.kind # "file" /\ closed.kind # "file"
    BY <2>2 DEF NoReply
  <2> HIDE DEF answer, closed
  <2> QED BY <2>1, <2>3, AnswerRests
<1> QED BY <1>2, <1>3

(* The user, the feeds and the poll.                                       *)
LEMMA UserKeepsFiles ==
  ASSUME FileInv, Poll \/ LoadFeeds \/ Dismiss \/ Interrupt \/ RemoveRules \/ UNCHANGED worldVars
  PROVE  FileInv'
<1>1. NoRules \in Rules /\ ~NoRules.failed /\ Dropped(NoRules) = {}
  BY DEF NoRules, Rules, Dropped
<1>2. CASE Poll \/ LoadFeeds \/ UNCHANGED worldVars
  <2>1. UNCHANGED <<reply, backend, fw, done, staged, installed, whole>>
    <3>1. CASE Poll
      BY <3>1 DEF Poll, hostVars
    <3>2. CASE LoadFeeds
      BY <3>2 DEF LoadFeeds, hostVars
    <3>3. CASE UNCHANGED worldVars
      BY <3>3 DEF worldVars, hostVars
    <3> QED BY <1>2, <3>1, <3>2, <3>3
  <2> QED BY <2>1 DEF FileInv, HalfRun, FirewallIsThePlan
<1>3. CASE Dismiss
  <2>1. reply'.kind # "file"
    BY <1>3 DEF Dismiss, NoReply
  <2>2. done = 0 /\ UNCHANGED <<backend, fw, done, staged, installed, whole>>
    BY <1>3 DEF Dismiss, hostVars
  <2> QED BY <2>1, <2>2 DEF FileInv, HalfRun, FirewallIsThePlan
<1>4. CASE Interrupt
  <2>1. done' = 0 /\ staged' = NoRules /\ UNCHANGED <<reply, backend, fw, installed, whole>>
    BY <1>4 DEF Interrupt, Forget
  <2> QED BY <2>1, <1>1 DEF FileInv, HalfRun, FirewallIsThePlan
<1>5. CASE RemoveRules
  <2>1. /\ done = 0 /\ done' = done /\ fw' = NoRules /\ installed' = {}
        /\ UNCHANGED <<reply, backend, staged>>
    BY <1>5 DEF RemoveRules
  <2>2. FirewallIsThePlan' /\ HalfRun'
    BY <2>1, <1>1 DEF FirewallIsThePlan, HalfRun
  <2> QED BY <2>1, <2>2, <1>1 DEF FileInv
<1> QED BY <1>2, <1>3, <1>4, <1>5

(* Whatever plans are made and whatever is interrupted: the file on screen *)
(* is the plan's, and the firewall is as far as the file has been run.     *)
THEOREM FilesRun == WorldSpec => []FileInv
<1>1. WorldInit => FileInv
  <2> SUFFICES ASSUME WorldInit PROVE FileInv
    OBVIOUS
  <2>1. NoRules \in Rules /\ ~NoRules.failed /\ Dropped(NoRules) = {}
    BY DEF NoRules, Rules, Dropped
  <2>2. reply.kind = "none"
    BY DEF WorldInit, NoReply
  <2> QED BY <2>1, <2>2 DEF WorldInit, FileInv, HalfRun, FirewallIsThePlan
<1>2. WorldInv /\ FileInv /\ [WorldNext]_worldVars => FileInv'
  <2> SUFFICES ASSUME WorldInv, FileInv, [WorldNext]_worldVars PROVE FileInv'
    OBVIOUS
  <2>1. CASE RunCommand
    BY <2>1, CommandKeeps
  <2>2. CASE RunStatement
    BY <2>2, StatementKeeps
  <2> QED BY <2>1, <2>2, UserKeepsFiles, RequestsKeepFiles, QuestionsKeepFiles DEF WorldNext
<1> QED BY <1>1, <1>2, WorldInvariance, PTL DEF WorldSpec

(* The firewall drops nothing but the plan of the last file that changed   *)
(* it, and all of it when that file was run to its end (generate, and what *)
(* its comments say of running a file again).                              *)
THEOREM FirewallFollows == WorldSpec => []FirewallIsThePlan
<1>1. FileInv => FirewallIsThePlan
  BY DEF FileInv
<1> QED BY <1>1, FilesRun, PTL

(* The flags of every published flow agree with its category, each flow is *)
(* published once, and a summary counts each on one side and is quiet only *)
(* where nothing is to be told (enrich, scrub_session, explain_rules).     *)
THEOREM AnswersHold == WorldSpec => []AnswersAreTrue
<1>1. ASSUME WorldInv, FileInv PROVE AnswersAreTrue
  <2>1. \A f \in world : f.flags \subseteq SecurityFlag /\ ("Tracker" \in f.flags <=> f.category = "Tracker")
    BY <1>1 DEF WorldInv, Right, security_flags, SecurityFlag
  <2>2. WorldTypes
    BY <1>1, <2>1 DEF WorldInv, FileInv, WorldTypes, Right, OneEachSocket
  <2> QED BY <1>1, <2>1, <2>2 DEF WorldInv, AnswersAreTrue, FlagsAgree
<1> QED BY <1>1, WorldInvariance, FilesRun, PTL
=============================================================================
