------------------------------- MODULE Feed --------------------------------
(***************************************************************************)
(* The live feed of flows, from the capture thread to the browser:         *)
(*                                                                         *)
(*   capture thread --ring--> coordinator --watch--> session --socket-->   *)
(*   store (the delta mirror) --resync request--> session                  *)
(*                                                                         *)
(* The worlds the capture engine observes are kept in captured, oldest     *)
(* first; everything downstream names a world by its index there, which    *)
(* stands for CaptureUpdate.generation (the engine numbers consecutively   *)
(* the worlds it publishes) and for the flows and the delta the update     *)
(* carries: captured[i], and the difference from captured[i-1].  A restart *)
(* of the agent appends the empty world the new engine starts from, so     *)
(* indices, unlike the program's generations, are never reused.            *)
(*                                                                         *)
(* frame.idx, at and based are history variables: no code reads them.      *)
(* The flow history log is off, as it is by default (main.rs, flow_history *)
(* is None).                                                               *)
(***************************************************************************)
EXTENDS Integers, Sequences

CONSTANTS
  Client,          \* browsers
  Flow,            \* flow identities
  Detail,          \* what is known about a live flow
  Absent,          \* the flow is not in the world
  Unknown,         \* an untrusted mirror (see Broadcast)
  RingCapacity,    \* RING_CAPACITY in main.rs
  WireCap,         \* bound: frames in flight on a socket
  MaxWorlds,       \* bound: worlds observed
  MaxTick,         \* bound: heartbeats of one session
  MaxLosses,       \* bound: frames the client cannot decode
  MaxDisruptions   \* bound: broken sockets, detaches, re-attaches, restarts

ASSUME FeedAssumption ==
  /\ Absent \notin Detail
  /\ RingCapacity \in Nat \ {0}
  /\ WireCap \in Nat
  /\ MaxWorlds \in Nat
  /\ MaxTick \in Nat
  /\ MaxLosses \in Nat
  /\ MaxDisruptions \in Nat

World == [Flow -> Detail \cup {Absent}]
NoFlows == [f \in Flow |-> Absent]

ASSUME UnknownAssumption == Unknown \notin World

VARIABLES
  captured,        \* every world observed
  ring,            \* the bounded queue of updates
  dropped,         \* updates the full ring refused
  notifyDue,       \* the capture thread is between push and notify_one
  permit,          \* Notify's stored permit
  coord,           \* the coordinator: "drain", "emptied" or "parked"
  held,            \* the update popped and not yet published, 0 for none
  watch,           \* the update in the watch channel
  stage,           \* each session: "down", "hello", "snapshot" or "live"
  seq,             \* the session's next sequence number
  lastGen,         \* the last update the session has sent
  tick,            \* heartbeats sent by the session
  wire,            \* frames on the way to the client
  up,              \* resync requests on the way to the session
  attached,        \* the store has a Connection
  flows,           \* the store's mirror
  lastAppliedSeq,  \* the store's cursors
  lastSeq,
  needsResync,     \* a gap has been seen and no snapshot since
  at,              \* the update the last applied frame led to
  based,           \* a snapshot of this session has been applied
  losses,          \* frames lost so far
  disruptions      \* disruptions so far

pipeVars == <<captured, ring, dropped, notifyDue, permit, coord, held, watch>>
sessionVars == <<stage, seq, lastGen, tick>>
cursorVars == <<lastAppliedSeq, lastSeq, needsResync>>
mirrorVars == <<attached, flows, at, based>>
envVars == <<losses, disruptions>>
vars == <<pipeVars, sessionVars, wire, up, cursorVars, mirrorVars, envVars>>

Newest == Len(captured)

(* DeltaParts: the flows that differ from the previous world, each with    *)
(* its new value, Absent for one that is removed.                          *)
DeltaParts(i) ==
  [f \in {g \in Flow : captured[i][g] # captured[i-1][g]} |-> captured[i][f]]

\* A mistake: removed flows stay
KeepRemoved(m, d) ==
  [f \in Flow |-> IF f \in DOMAIN d /\ d[f] # Absent THEN d[f] ELSE m[f]]

(* Adds, updates and removes applied to the mirror by flow id.             *)
ApplyDelta(m, d) == [f \in Flow |-> IF f \in DOMAIN d THEN d[f] ELSE m[f]]

Frame == [type : {"hello", "snapshot", "delta", "heartbeat"},
          seq : Nat, idx : Nat]

Init ==
  /\ captured = <<NoFlows>>
  /\ ring = <<>>
  /\ dropped = {}
  /\ notifyDue = FALSE
  /\ permit = FALSE
  /\ coord = "drain"
  /\ held = 0
  /\ watch = 1
  /\ stage = [c \in Client |-> "down"]
  /\ seq = [c \in Client |-> 0]
  /\ lastGen = [c \in Client |-> 0]
  /\ tick = [c \in Client |-> 0]
  /\ wire = [c \in Client |-> <<>>]
  /\ up = [c \in Client |-> 0]
  /\ attached = [c \in Client |-> FALSE]
  /\ flows = [c \in Client |-> NoFlows]
  /\ lastAppliedSeq = [c \in Client |-> -1]
  /\ lastSeq = [c \in Client |-> -1]
  /\ needsResync = [c \in Client |-> FALSE]
  /\ at = [c \in Client |-> 0]
  /\ based = [c \in Client |-> FALSE]
  /\ losses = 0
  /\ disruptions = 0

-----------------------------------------------------------------------------
(* The capture thread and the coordinator                                  *)

\* A mistake: the ring takes more than its capacity
PushUnbounded(i) ==
  /\ ring' = Append(ring, i)
  /\ UNCHANGED dropped

\* A mistake: a refused update is not counted
PushUncounted(i) ==
  /\ ring' = IF Len(ring) < RingCapacity THEN Append(ring, i) ELSE ring
  /\ UNCHANGED dropped

(* push: a full ring hands the update back and it is gone.                 *)
Push(i) ==
  \/ /\ Len(ring) < RingCapacity
     /\ ring' = Append(ring, i)
     /\ UNCHANGED dropped
  \/ /\ Len(ring) >= RingCapacity
     /\ dropped' = dropped \cup {i}
     /\ UNCHANGED ring

(* A poll that finds the world changed pushes the update.  An idle or      *)
(* failed poll changes nothing.                                            *)
Poll ==
  /\ ~notifyDue
  /\ Newest < MaxWorlds
  /\ \E w \in World \ {captured[Newest]} : captured' = Append(captured, w)
  /\ Push(Newest + 1)
  /\ notifyDue' = TRUE
  /\ UNCHANGED <<permit, coord, held, watch>>
  /\ UNCHANGED <<sessionVars, wire, up, cursorVars, mirrorVars, envVars>>

\* A mistake: wakes a waiting coordinator, stores no permit
NotifyWaiterOnly ==
  /\ notifyDue
  /\ notifyDue' = FALSE
  /\ permit' = (permit \/ coord = "parked")
  /\ UNCHANGED <<captured, ring, dropped, coord, held, watch>>
  /\ UNCHANGED <<sessionVars, wire, up, cursorVars, mirrorVars, envVars>>

(* notify_one: the permit is stored whether or not anyone waits, and two   *)
(* calls store one permit.                                                 *)
NotifyOne ==
  /\ notifyDue
  /\ notifyDue' = FALSE
  /\ permit' = TRUE
  /\ UNCHANGED <<captured, ring, dropped, coord, held, watch>>
  /\ UNCHANGED <<sessionVars, wire, up, cursorVars, mirrorVars, envVars>>

\* A mistake: the newest update is taken first
PopNewest ==
  /\ coord = "drain" /\ held = 0 /\ ring # <<>>
  /\ held' = ring[Len(ring)]
  /\ ring' = SubSeq(ring, 1, Len(ring) - 1)
  /\ UNCHANGED <<captured, dropped, notifyDue, permit, coord, watch>>
  /\ UNCHANGED <<sessionVars, wire, up, cursorVars, mirrorVars, envVars>>

Pop ==
  /\ coord = "drain" /\ held = 0 /\ ring # <<>>
  /\ held' = Head(ring)
  /\ ring' = Tail(ring)
  /\ UNCHANGED <<captured, dropped, notifyDue, permit, coord, watch>>
  /\ UNCHANGED <<sessionVars, wire, up, cursorVars, mirrorVars, envVars>>

(* The watch channel keeps the latest update only.                         *)
Publish ==
  /\ held # 0
  /\ watch' = held
  /\ held' = 0
  /\ UNCHANGED <<captured, ring, dropped, notifyDue, permit, coord>>
  /\ UNCHANGED <<sessionVars, wire, up, cursorVars, mirrorVars, envVars>>

(* pop finds the ring empty and the drain loop ends.                       *)
FindEmpty ==
  /\ coord = "drain" /\ held = 0 /\ ring = <<>>
  /\ coord' = "emptied"
  /\ UNCHANGED <<captured, ring, dropped, notifyDue, permit, held, watch>>
  /\ UNCHANGED <<sessionVars, wire, up, cursorVars, mirrorVars, envVars>>

(* notified().await registers the coordinator as the waiter.               *)
Park ==
  /\ coord = "emptied"
  /\ coord' = "parked"
  /\ UNCHANGED <<captured, ring, dropped, notifyDue, permit, held, watch>>
  /\ UNCHANGED <<sessionVars, wire, up, cursorVars, mirrorVars, envVars>>

Wake ==
  /\ coord = "parked" /\ permit
  /\ coord' = "drain"
  /\ permit' = FALSE
  /\ UNCHANGED <<captured, ring, dropped, notifyDue, held, watch>>
  /\ UNCHANGED <<sessionVars, wire, up, cursorVars, mirrorVars, envVars>>

-----------------------------------------------------------------------------
(* One session: serve_client                                               *)

(* Every frame but hello carries the session's seq, and every frame        *)
(* consumes one.  A client that does not read makes the send wait.         *)
Send(c, type, i) ==
  /\ Len(wire[c]) < WireCap
  /\ wire' = [wire EXCEPT ![c] =
                Append(@, [type |-> type, seq |-> seq[c], idx |-> i])]
  /\ seq' = [seq EXCEPT ![c] = @ + 1]

(* The socket opens, for a first connection or a retry after a close.      *)
Connect(c) ==
  /\ attached[c] /\ stage[c] = "down" /\ wire[c] = <<>>
  /\ stage' = [stage EXCEPT ![c] = "hello"]
  /\ seq' = [seq EXCEPT ![c] = 0]
  /\ lastGen' = [lastGen EXCEPT ![c] = 0]
  /\ tick' = [tick EXCEPT ![c] = 0]
  /\ up' = [up EXCEPT ![c] = 0]
  /\ based' = [based EXCEPT ![c] = FALSE]
  /\ UNCHANGED <<pipeVars, wire, cursorVars, attached, flows, at, envVars>>

SendHello(c) ==
  /\ stage[c] = "hello"
  /\ Send(c, "hello", 0)
  /\ stage' = [stage EXCEPT ![c] = "snapshot"]
  /\ UNCHANGED <<pipeVars, lastGen, tick, up, cursorVars, mirrorVars, envVars>>

SendSnapshot(c) ==
  /\ stage[c] = "snapshot"
  /\ Send(c, "snapshot", watch)
  /\ stage' = [stage EXCEPT ![c] = "live"]
  /\ lastGen' = [lastGen EXCEPT ![c] = watch]
  /\ UNCHANGED <<pipeVars, tick, up, cursorVars, mirrorVars, envVars>>

SendHeartbeat(c) ==
  /\ stage[c] = "live" /\ tick[c] < MaxTick
  /\ Send(c, "heartbeat", lastGen[c])
  /\ tick' = [tick EXCEPT ![c] = @ + 1]
  /\ UNCHANGED <<pipeVars, stage, lastGen, up, cursorVars, mirrorVars, envVars>>

\* A mistake: a delta also across skipped generations
AlwaysDelta(c) == "delta"

(* A delta when the update is the next generation, a snapshot when the     *)
(* session has missed one.                                                 *)
ChangeType(c) == IF watch = lastGen[c] + 1 THEN "delta" ELSE "snapshot"

(* changed() has fired.  Only a new update is ever sent on the watch, so   *)
(* "not yet seen" is "not the one sent last".                              *)
SendChange(c) ==
  /\ stage[c] = "live" /\ watch # lastGen[c]
  /\ Send(c, ChangeType(c), watch)
  /\ lastGen' = [lastGen EXCEPT ![c] = watch]
  /\ UNCHANGED <<pipeVars, stage, tick, up, cursorVars, mirrorVars, envVars>>

AnswerResync(c) ==
  /\ stage[c] = "live" /\ up[c] > 0
  /\ Send(c, "snapshot", watch)
  /\ up' = [up EXCEPT ![c] = @ - 1]
  /\ lastGen' = [lastGen EXCEPT ![c] = watch]
  /\ UNCHANGED <<pipeVars, stage, tick, cursorVars, mirrorVars, envVars>>

-----------------------------------------------------------------------------
(* The store's handlers, one frame each                                    *)

Receive(c, type) ==
  /\ wire[c] # <<>> /\ Head(wire[c]).type = type
  /\ wire' = [wire EXCEPT ![c] = Tail(@)]

\* A mistake: the gap is looked for on the line of deltas
NoteDeltasOnly(c, s) ==
  LET gap == lastSeq[c] >= 0 /\ s > lastAppliedSeq[c] + 1 /\ ~needsResync[c] IN
  /\ needsResync' = [needsResync EXCEPT ![c] = @ \/ gap]
  /\ up' = [up EXCEPT ![c] = IF gap /\ stage[c] # "down" THEN @ + 1 ELSE @]
  /\ lastSeq' = [lastSeq EXCEPT ![c] = IF s > @ THEN s ELSE @]

\* A mistake: one missing frame is not a gap
NoteOffByOne(c, s) ==
  LET gap == lastSeq[c] >= 0 /\ s > lastSeq[c] + 2 /\ ~needsResync[c] IN
  /\ needsResync' = [needsResync EXCEPT ![c] = @ \/ gap]
  /\ up' = [up EXCEPT ![c] = IF gap /\ stage[c] # "down" THEN @ + 1 ELSE @]
  /\ lastSeq' = [lastSeq EXCEPT ![c] = IF s > @ THEN s ELSE @]

\* A mistake: every frame behind a gap announces it, none asks for a snapshot
NoteSilently(c, s) ==
  LET gap == lastSeq[c] >= 0 /\ s > lastSeq[c] + 1 IN
  /\ needsResync' = [needsResync EXCEPT ![c] = @ \/ gap]
  /\ lastSeq' = [lastSeq EXCEPT ![c] = IF s > @ THEN s ELSE @]
  /\ UNCHANGED up

(* A jump of the seq asks for one snapshot per gap; a request made on a    *)
(* socket the agent has left goes nowhere.                                 *)
NoteSeq(c, s) ==
  LET gap == lastSeq[c] >= 0 /\ s > lastSeq[c] + 1 /\ ~needsResync[c] IN
  /\ needsResync' = [needsResync EXCEPT ![c] = @ \/ gap]
  /\ up' = [up EXCEPT ![c] = IF gap /\ stage[c] # "down" THEN @ + 1 ELSE @]
  /\ lastSeq' = [lastSeq EXCEPT ![c] = IF s > @ THEN s ELSE @]

(* Agent and client speak the same major version of the protocol: the      *)
(* branch that closes the connection otherwise is left out.                *)
OnHello(c) ==
  /\ Receive(c, "hello")
  /\ UNCHANGED <<pipeVars, sessionVars, up, cursorVars, mirrorVars, envVars>>

OnSnapshot(c) ==
  /\ Receive(c, "snapshot")
  /\ LET snap == Head(wire[c]) IN
       /\ flows' = [flows EXCEPT ![c] = captured[snap.idx]]
       /\ lastAppliedSeq' = [lastAppliedSeq EXCEPT ![c] = snap.seq]
       /\ lastSeq' = [lastSeq EXCEPT ![c] = snap.seq]
       /\ at' = [at EXCEPT ![c] = snap.idx]
  /\ needsResync' = [needsResync EXCEPT ![c] = FALSE]
  /\ based' = [based EXCEPT ![c] = TRUE]
  /\ UNCHANGED <<pipeVars, sessionVars, up, attached, envVars>>

(* A delta already applied is discarded before its seq is noted; any other *)
(* is applied, across a gap too.                                           *)
OnDelta(c) ==
  /\ Receive(c, "delta")
  /\ LET delta == Head(wire[c]) IN
       IF delta.seq <= lastAppliedSeq[c]
       THEN UNCHANGED <<flows, at, up, cursorVars>>
       ELSE /\ NoteSeq(c, delta.seq)
            /\ flows' = [flows EXCEPT ![c] = ApplyDelta(@, DeltaParts(delta.idx))]
            /\ at' = [at EXCEPT ![c] = delta.idx]
            /\ lastAppliedSeq' = [lastAppliedSeq EXCEPT ![c] = delta.seq]
  /\ UNCHANGED <<pipeVars, sessionVars, attached, based, envVars>>

OnHeartbeat(c) ==
  /\ Receive(c, "heartbeat")
  /\ NoteSeq(c, Head(wire[c]).seq)
  /\ UNCHANGED <<pipeVars, sessionVars, lastAppliedSeq, mirrorVars, envVars>>

(* decodeFrame or asWireMessage rejects the frame and it is skipped.       *)
SkipFrame(c) ==
  /\ wire[c] # <<>> /\ losses < MaxLosses
  /\ wire' = [wire EXCEPT ![c] = Tail(@)]
  /\ losses' = losses + 1
  /\ UNCHANGED <<pipeVars, sessionVars, up, cursorVars, mirrorVars, disruptions>>

-----------------------------------------------------------------------------
(* Connections that come and go                                            *)

Disrupt == /\ disruptions < MaxDisruptions
           /\ disruptions' = disruptions + 1

(* The session ends; what is in flight may still be delivered.             *)
Break(c) ==
  /\ Disrupt
  /\ stage[c] # "down"
  /\ stage' = [stage EXCEPT ![c] = "down"]
  /\ up' = [up EXCEPT ![c] = 0]
  /\ UNCHANGED <<pipeVars, seq, lastGen, tick, wire, cursorVars, mirrorVars, losses>>

(* The socket is reset under frames not yet delivered.                     *)
DiscardTail(c) ==
  /\ stage[c] = "down" /\ wire[c] # <<>>
  /\ wire' = [wire EXCEPT ![c] = <<>>]
  /\ UNCHANGED <<pipeVars, sessionVars, up, cursorVars, mirrorVars, envVars>>

(* attach: any old connection is torn down and the mirror starts over.     *)
Attach(c) ==
  /\ IF attached[c] THEN Disrupt ELSE UNCHANGED disruptions
  /\ attached' = [attached EXCEPT ![c] = TRUE]
  /\ stage' = [stage EXCEPT ![c] = "down"]
  /\ wire' = [wire EXCEPT ![c] = <<>>]
  /\ up' = [up EXCEPT ![c] = 0]
  /\ flows' = [flows EXCEPT ![c] = NoFlows]
  /\ lastAppliedSeq' = [lastAppliedSeq EXCEPT ![c] = -1]
  /\ lastSeq' = [lastSeq EXCEPT ![c] = -1]
  /\ needsResync' = [needsResync EXCEPT ![c] = FALSE]
  /\ based' = [based EXCEPT ![c] = FALSE]
  /\ UNCHANGED <<pipeVars, seq, lastGen, tick, at, losses>>

(* detach closes the connection and leaves the mirror as it was.           *)
Detach(c) ==
  /\ attached[c]
  /\ Disrupt
  /\ attached' = [attached EXCEPT ![c] = FALSE]
  /\ stage' = [stage EXCEPT ![c] = "down"]
  /\ wire' = [wire EXCEPT ![c] = <<>>]
  /\ up' = [up EXCEPT ![c] = 0]
  /\ UNCHANGED <<pipeVars, seq, lastGen, tick, cursorVars, flows, at, based, losses>>

(* The agent exits and starts again: ring, watch and sessions are new.     *)
Restart ==
  /\ Disrupt
  /\ Newest < MaxWorlds
  /\ captured' = Append(captured, NoFlows)
  /\ ring' = <<>>
  /\ notifyDue' = FALSE
  /\ permit' = FALSE
  /\ coord' = "drain"
  /\ held' = 0
  /\ watch' = Newest + 1
  /\ stage' = [c \in Client |-> "down"]
  /\ up' = [c \in Client |-> 0]
  /\ UNCHANGED <<dropped, seq, lastGen, tick, wire, cursorVars, mirrorVars, losses>>

-----------------------------------------------------------------------------
Coordinator == Pop \/ Publish \/ FindEmpty \/ Park \/ Wake

Session(c) ==
  \/ SendHello(c) \/ SendSnapshot(c) \/ SendHeartbeat(c)
  \/ SendChange(c) \/ AnswerResync(c)

Store(c) == OnHello(c) \/ OnSnapshot(c) \/ OnDelta(c) \/ OnHeartbeat(c)

Lifecycle(c) ==
  \/ Connect(c) \/ SkipFrame(c) \/ Break(c) \/ DiscardTail(c)
  \/ Attach(c) \/ Detach(c)

Next ==
  \/ Poll \/ NotifyOne \/ Coordinator \/ Restart
  \/ \E c \in Client : Session(c) \/ Store(c) \/ Lifecycle(c)

Spec == Init /\ [][Next]_vars

(* Nobody promises that the OS table changes, a user attaches or a socket  *)
(* breaks.  The capture thread returns from notify_one; tokio runs ready   *)
(* tasks; select! polls its ready branches in random order, so a branch    *)
(* that stays ready is taken; the browser delivers messages and its retry  *)
(* timer fires.                                                            *)
Fairness ==
  /\ WF_vars(NotifyOne)
  /\ WF_vars(Coordinator)
  /\ \A c \in Client :
       /\ WF_vars(Connect(c))
       /\ WF_vars(SendHello(c) \/ SendSnapshot(c))
       /\ WF_vars(SendChange(c))
       /\ WF_vars(AnswerResync(c))
       /\ WF_vars(Store(c))

FairSpec == Spec /\ Fairness

-----------------------------------------------------------------------------
(* Properties                                                              *)

PipeTypeOK ==
  /\ captured \in Seq(World)
  /\ ring \in Seq(Nat) /\ Len(ring) <= RingCapacity
  /\ dropped \subseteq Nat
  /\ notifyDue \in BOOLEAN /\ permit \in BOOLEAN
  /\ coord \in {"drain", "emptied", "parked"}
  /\ held \in Nat
  /\ watch \in Nat

SessionTypeOK ==
  /\ stage \in [Client -> {"down", "hello", "snapshot", "live"}]
  /\ seq \in [Client -> Nat]
  /\ lastGen \in [Client -> Nat]
  /\ tick \in [Client -> 0..MaxTick]
  /\ wire \in [Client -> Seq(Frame)]
  /\ up \in [Client -> Nat]

StoreTypeOK ==
  /\ attached \in [Client -> BOOLEAN]
  /\ flows \in [Client -> World]
  /\ lastAppliedSeq \in [Client -> Nat \cup {-1}]
  /\ lastSeq \in [Client -> Nat \cup {-1}]
  /\ needsResync \in [Client -> BOOLEAN]
  /\ at \in [Client -> Nat]
  /\ based \in [Client -> BOOLEAN]

BoundsOK == losses \in 0..MaxLosses /\ disruptions \in 0..MaxDisruptions

(* Every value has its type, and the ring never holds more than its        *)
(* capacity.                                                               *)
TypeOK == PipeTypeOK /\ SessionTypeOK /\ StoreTypeOK /\ BoundsOK

(* "A push that races the await is not lost" (run_coordinator): whenever   *)
(* the coordinator sleeps, or has decided to, on a ring with something in  *)
(* it, a wake-up is stored or the capture thread is about to store one.    *)
NoLostWakeup ==
  coord # "drain" /\ ring # <<>> => permit \/ notifyDue

(* The updates between the capture thread and the watch channel keep their *)
(* order: each is newer than the one before it and than what is published, *)
(* and none is newer than what the capture engine has observed.            *)
PipelineOrdered ==
  /\ watch \in 1..Newest
  /\ held # 0 => held \in (watch + 1)..Newest
  /\ \A i \in 1..Len(ring) : ring[i] \in (watch + 1)..Newest /\ ring[i] > held
  /\ \A i, j \in 1..Len(ring) : i < j => ring[i] < ring[j]

(* No update vanishes uncounted: every world newer than the published one  *)
(* is on its way or was refused by the full ring and counted.              *)
NothingVanishes ==
  \A i \in (watch + 1)..Newest :
    i = held \/ i \in dropped \/ \E k \in 1..Len(ring) : ring[k] = i

(* The hand-off from the capture thread to the watch channel wakes,        *)
(* orders, and accounts for every update.                                  *)
HandOff == TypeOK /\ NoLostWakeup /\ PipelineOrdered /\ NothingVanishes

(* The mirror a client trusts (it has this session's snapshot and has no   *)
(* gap open) is exactly a world the agent observed, whatever was lost,     *)
(* coalesced, broken off or restarted in between.                          *)
Trusted(c) == based[c] /\ ~needsResync[c]

FaithfulMirror ==
  \A c \in Client : Trusted(c) => at[c] > 0 /\ flows[c] = captured[at[c]]

(* A gap is never announced unless a frame was really lost: heartbeats,    *)
(* coalesced updates, resync answers and reconnections all keep the seq    *)
(* line whole ("does NOT resync when heartbeats sit between deltas").      *)
NoFalseGap == (\E c \in Client : needsResync[c]) => losses > 0

(* "On a gap sends resync and heals on the snapshot" (docs/protocol.md):   *)
(* a client with a gap open has its one request with the session, or a     *)
(* snapshot on the way, or a reconnection before it; it waits for nothing  *)
(* only when a second frame, which may be the answer, has been lost.       *)
GapIsAnswered ==
  \A c \in Client : needsResync[c] =>
    \/ stage[c] # "live"
    \/ up[c] > 0
    \/ \E i \in 1..Len(wire[c]) : wire[c][i].type = "snapshot"
    \/ losses > 1

(* Gaps are announced for losses only, and what is announced is answered.  *)
GapsHold == NoFalseGap /\ GapIsAnswered

(* The rest of the inductive invariant.  Sessions: what a session has sent *)
(* last is at most what is published, and what the last frame on the wire  *)
(* leads to; no snapshot of a session is applied before it is sent.        *)
SessionInv(c) ==
  /\ lastGen[c] <= watch /\ at[c] <= watch
  /\ stage[c] = "hello" => wire[c] = <<>>
  /\ stage[c] \in {"hello", "snapshot"} => ~based[c]
  /\ stage[c] = "snapshot" => \A i \in 1..Len(wire[c]) : wire[c][i].type = "hello"
  /\ stage[c] = "live" =>
       /\ 1 <= lastGen[c] /\ at[c] <= lastGen[c]
       /\ wire[c] # <<>> => LET f == wire[c][Len(wire[c])] IN
                               f.type # "hello" /\ f.idx = lastGen[c]

(* Frames on the wire: seqs run up to the session's next one without a     *)
(* hole, no frame leads to an older world than the one before it, and      *)
(* every delta starts from the world the frame before it leads to.         *)
WireOK(w, next, last, from, isBased) ==
  \A i \in 1..Len(w) :
    /\ w[i].seq + (Len(w) - i) + 1 = next
    /\ w[i].idx <= last
    /\ w[i].type = "hello" => i = 1 /\ ~isBased
    /\ w[i].type # "hello" => w[i].idx >= 1 /\ w[i].idx >= from
    /\ w[i].type = "delta" => w[i].idx >= 2
    /\ \A j \in 1..i : w[j].idx <= w[i].idx
    /\ i > 1 /\ w[i].type = "delta" =>
         w[i-1].type # "hello" /\ w[i].idx = w[i-1].idx + 1
    /\ i > 1 /\ w[i].type = "heartbeat" =>
         w[i-1].type # "hello" /\ w[i].idx = w[i-1].idx

WireInv(c) == WireOK(wire[c], seq[c], lastGen[c], at[c], based[c])

(* The first frame on the wire can be applied to world a.                  *)
StartsFrom(w, a) ==
  w # <<>> => /\ w[1].type = "delta" => w[1].idx = a + 1
              /\ w[1].type = "heartbeat" => w[1].idx = a

(* The cursors of a client that has this session's snapshot.  lastSeq is   *)
(* behind every frame on the wire; when it is right behind them nothing is *)
(* missing, and a trusted mirror is where the first of them starts from.   *)
NoneMissing(c) == lastSeq[c] + 1 + Len(wire[c]) = seq[c]

CursorInv(c) ==
  based[c] =>
    /\ 0 <= lastAppliedSeq[c] /\ lastAppliedSeq[c] <= lastSeq[c]
    /\ lastSeq[c] + 1 + Len(wire[c]) <= seq[c]
    /\ Trusted(c) /\ NoneMissing(c) =>
         /\ StartsFrom(wire[c], at[c])
         /\ wire[c] = <<>> /\ stage[c] = "live" => at[c] = lastGen[c]

MirrorInv(c) == Trusted(c) => at[c] > 0 /\ flows[c] = captured[at[c]]

(* A client to which its session has nothing left to send or deliver shows *)
(* the published world: if no frame was ever lost, and also after losses   *)
(* if it trusts its mirror and has noted every seq of the session.         *)
CaughtUp(c) == stage[c] = "live" /\ wire[c] = <<>> /\ lastGen[c] = watch

QuietIsCurrent ==
  \A c \in Client :
    CaughtUp(c) /\ (losses = 0 \/ (Trusted(c) /\ NoneMissing(c))) =>
      flows[c] = captured[watch]

ClientInv(c) == SessionInv(c) /\ WireInv(c) /\ CursorInv(c) /\ MirrorInv(c)

IdleHolds == coord # "drain" => held = 0

(* The inductive invariant: FaithfulMirror alone is not inductive, since a *)
(* delta leads to the right world only from the right base, and only the   *)
(* numbering of the frames says that it has it.                            *)
IInv ==
  /\ TypeOK
  /\ NoLostWakeup /\ PipelineOrdered /\ NothingVanishes /\ IdleHolds
  /\ \A c \in Client : ClientInv(c)

(* Each client's trusted view only ever moves forward through observed     *)
(* worlds: the feed implements Broadcast.                                  *)
Abstract == INSTANCE Broadcast WITH
  history <- captured,
  view <- [c \in Client |-> IF Trusted(c) THEN flows[c] ELSE Unknown],
  pos <- at

Broadcasts == Abstract!Spec

(* The newest update the ring accepted.                                    *)
NewestKept ==
  IF ring # <<>> THEN ring[Len(ring)] ELSE IF held # 0 THEN held ELSE watch

(* When the world settles, every attached client ends up showing the       *)
(* newest world the ring accepted, provided no frame is lost.              *)
KeptWorldShown ==
  \A c \in Client :
    <>[](attached[c] /\ losses = 0 => flows[c] = captured[NewestKept])

(* A gap that is announced is healed by a snapshot, unless the user        *)
(* detaches, or a second frame is lost, which may be that snapshot.        *)
GapHeals ==
  \A c \in Client :
    (attached[c] /\ needsResync[c]) ~>
      (~attached[c] \/ ~needsResync[c] \/ losses > 1)

-----------------------------------------------------------------------------
(* What the repository says and the code does not keep: each of these is   *)
(* violated, the README says by which steps.                               *)

(* "The protocol's generation-gap resync heals any drop" (ring/lib.rs):    *)
(* the same of the newest world observed, kept by the ring or dropped.     *)
DropsHeal ==
  \A c \in Client : <>[](attached[c] => flows[c] = captured[Newest])

(* "On a gap sends resync and heals on the snapshot" (docs/protocol.md),   *)
(* whatever else is lost.                                                  *)
EveryGapHeals ==
  \A c \in Client :
    (attached[c] /\ needsResync[c]) ~> (~attached[c] \/ ~needsResync[c])

(* "Gap detection runs on the global seq line" (docs/protocol.md): a       *)
(* client that has applied or heard a frame of this session beyond a lost  *)
(* one has announced the gap; in particular it announces one when it       *)
(* applies a delta with no snapshot to apply it to.                        *)
DeltaHasBase ==
  [][\A c \in Client :
       at'[c] > at[c] /\ ~based'[c] => needsResync'[c]]_vars

(* "Monotonic tick counter since the agent started" (docs/protocol.md):    *)
(* the tick of the heartbeats to one client falls only when the agent      *)
(* restarts.                                                               *)
TickSinceStart ==
  [][Restart \/ \A c \in Client : tick'[c] >= tick[c]]_vars
=============================================================================
