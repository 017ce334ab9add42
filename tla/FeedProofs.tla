----------------------------- MODULE FeedProofs ----------------------------
(***************************************************************************)
(* Proofs about Feed, for every number of clients, flows and bounds: the   *)
(* inductive invariant IInv, and from it type correctness, the hand-off    *)
(* through the ring, the fidelity of a trusted mirror, and that the feed   *)
(* implements Broadcast.                                                   *)
(***************************************************************************)
EXTENDS Feed, TLAPS

USE DEF Newest

-----------------------------------------------------------------------------
(* Groups of steps, by what they may change.                               *)

PipeStep == Poll \/ NotifyOne \/ Pop \/ Publish \/ FindEmpty \/ Park \/ Wake

(* The steps that leave the agent's pipeline alone.                        *)
ClientStep(c) == Session(c) \/ Store(c) \/ Lifecycle(c)

-----------------------------------------------------------------------------
(* Type correctness                                                        *)

(* Every variable starts with its type: main and an unattached store.      *)
LEMMA InitType == Init => TypeOK
<1> SUFFICES ASSUME Init PROVE TypeOK
  OBVIOUS
<1> USE FeedAssumption DEF Init
<1>0. NoFlows \in World
  BY DEF World, NoFlows
<1>1. PipeTypeOK
  <2>1. captured \in Seq(World)
    BY <1>0
  <2>2. ring \in Seq(Nat) /\ Len(ring) <= RingCapacity
    OBVIOUS
  <2> QED
    BY <2>1, <2>2 DEF PipeTypeOK
<1>2. SessionTypeOK
  BY DEF SessionTypeOK
<1>3. StoreTypeOK
  BY <1>0 DEF StoreTypeOK
<1>4. BoundsOK
  BY DEF BoundsOK
<1> QED
  BY <1>1, <1>2, <1>3, <1>4 DEF TypeOK

(* A push never overfills the ring.                                        *)
LEMMA PushType ==
  ASSUME ring \in Seq(Nat), Len(ring) <= RingCapacity, dropped \subseteq Nat,
         RingCapacity \in Nat, NEW i \in Nat, Push(i)
  PROVE  /\ ring' \in Seq(Nat) /\ Len(ring') <= RingCapacity
         /\ dropped' \subseteq Nat
<1>1. CASE Len(ring) < RingCapacity
  <2>1. ring' = Append(ring, i) /\ dropped' = dropped
    BY <1>1 DEF Push
  <2> QED
    BY <1>1, <2>1
<1>2. CASE Len(ring) >= RingCapacity
  <2>1. ring' = ring /\ dropped' = dropped \cup {i}
    BY <1>2 DEF Push
  <2>2. dropped' \subseteq Nat
    BY <2>1, Zenon
  <2> QED
    BY <2>1, <2>2
<1> QED
  BY <1>1, <1>2

(* The capture thread and the coordinator keep the types.                  *)
LEMMA PipeStepType ==
  ASSUME TypeOK, PipeStep
  PROVE  TypeOK'
<1> USE FeedAssumption DEF TypeOK
<1>1. PipeTypeOK'
  <2> USE DEF PipeTypeOK
  <2>1. CASE Poll
    <3> USE <2>1 DEF Poll
    <3>1. PICK w \in World : captured' = Append(captured, w)
      OBVIOUS
    <3>2. captured' \in Seq(World) /\ Newest' = Newest + 1
      BY <3>1
    <3>3. Push(Newest + 1)
      OBVIOUS
    <3>4. Newest + 1 \in Nat /\ RingCapacity \in Nat
      OBVIOUS
    <3>5. /\ ring' \in Seq(Nat) /\ Len(ring') <= RingCapacity
          /\ dropped' \subseteq Nat
      BY <3>3, <3>4, PushType
    <3> QED
      BY <3>2, <3>5
  <2>2. CASE NotifyOne
    BY <2>2 DEF NotifyOne
  <2>3. CASE Pop
    BY <2>3 DEF Pop
  <2>4. CASE Publish
    BY <2>4 DEF Publish
  <2>5. CASE Park
    BY <2>5 DEF Park
  <2>6. CASE Wake
    BY <2>6 DEF Wake
  <2>7. CASE FindEmpty
    BY <2>7 DEF FindEmpty
  <2> QED
    BY <2>1, <2>2, <2>3, <2>4, <2>5, <2>6, <2>7 DEF PipeStep
<1>2. UNCHANGED <<sessionVars, wire, up, cursorVars, mirrorVars, envVars>>
  BY DEF PipeStep, Poll, NotifyOne, Pop, Publish, FindEmpty, Park, Wake
<1>3. SessionTypeOK' /\ StoreTypeOK' /\ BoundsOK'
  BY <1>2 DEF SessionTypeOK, StoreTypeOK, BoundsOK,
              sessionVars, cursorVars, mirrorVars, envVars
<1> QED
  BY <1>1, <1>3

(* Every step of a session keeps the types.                                *)
LEMMA SessionStepType ==
  ASSUME TypeOK, NEW c \in Client, Session(c)
  PROVE  TypeOK'
<1> USE FeedAssumption DEF TypeOK
<1>1. UNCHANGED <<pipeVars, mirrorVars, cursorVars, envVars>>
  BY DEF Session, SendHello, SendSnapshot, SendHeartbeat, SendChange, AnswerResync
<1>2. PipeTypeOK' /\ StoreTypeOK' /\ BoundsOK'
  BY <1>1 DEF PipeTypeOK, StoreTypeOK, BoundsOK,
              pipeVars, cursorVars, mirrorVars, envVars
<1>3. ASSUME NEW type \in {"hello", "snapshot", "delta", "heartbeat"},
             NEW i \in Nat, Send(c, type, i)
      PROVE  wire' \in [Client -> Seq(Frame)] /\ seq' \in [Client -> Nat]
  BY <1>3 DEF Send, SessionTypeOK, Frame
<1>4. SessionTypeOK'
  <2> USE DEF SessionTypeOK, PipeTypeOK, sessionVars
  <2>1. CASE SendHello(c)
    <3>1. Send(c, "hello", 0)
      BY <2>1 DEF SendHello
    <3>2. wire' \in [Client -> Seq(Frame)] /\ seq' \in [Client -> Nat]
      BY <3>1, <1>3
    <3> QED
      BY <3>2, <2>1, SMTT(40) DEF SendHello
  <2>2. CASE SendSnapshot(c)
    <3>1. Send(c, "snapshot", watch)
      BY <2>2 DEF SendSnapshot
    <3>2. wire' \in [Client -> Seq(Frame)] /\ seq' \in [Client -> Nat]
      BY <3>1, <1>3
    <3> QED
      BY <3>2, <2>2, SMTT(40) DEF SendSnapshot
  <2>3. CASE SendHeartbeat(c)
    <3>1. Send(c, "heartbeat", lastGen[c])
      BY <2>3 DEF SendHeartbeat
    <3>2. wire' \in [Client -> Seq(Frame)] /\ seq' \in [Client -> Nat]
      BY <3>1, <1>3
    <3> QED
      BY <3>2, <2>3, SMTT(40) DEF SendHeartbeat
  <2>4. CASE SendChange(c)
    <3>1. Send(c, ChangeType(c), watch)
      BY <2>4 DEF SendChange
    <3>2. wire' \in [Client -> Seq(Frame)] /\ seq' \in [Client -> Nat]
      BY <3>1, <1>3 DEF ChangeType
    <3> QED
      BY <3>2, <2>4, SMTT(40) DEF SendChange
  <2>5. CASE AnswerResync(c)
    <3>1. Send(c, "snapshot", watch)
      BY <2>5 DEF AnswerResync
    <3>2. wire' \in [Client -> Seq(Frame)] /\ seq' \in [Client -> Nat]
      BY <3>1, <1>3
    <3> QED
      BY <3>2, <2>5, SMTT(40) DEF AnswerResync
  <2> QED
    BY <2>1, <2>2, <2>3, <2>4, <2>5 DEF Session
<1> QED
  BY <1>2, <1>4
-----------------------------------------------------------------------------
(* The ring, the coordinator and the watch channel                         *)

PipeInv == NoLostWakeup /\ PipelineOrdered /\ NothingVanishes /\ IdleHolds

(* A poll that pushes or is refused keeps the pipeline's order and accounts *)
(* for the world it observed: the loop body of spawn_capture_loop.         *)
LEMMA PollPipeInv ==
  ASSUME PipeTypeOK, PipeInv, Poll, RingCapacity \in Nat
  PROVE  PipeInv'
<1> USE DEF PipeInv
<1>1. Len(captured) \in Nat /\ Len(captured') = Len(captured) + 1
  BY DEF PipeTypeOK, Poll
<1>2. /\ notifyDue' /\ held' = held /\ watch' = watch /\ coord' = coord
      /\ Push(Newest + 1)
  BY DEF Poll
<1>3. CASE Len(ring) < RingCapacity
  <2>1. ring' = Append(ring, Newest + 1) /\ dropped' = dropped
    BY <1>2, <1>3 DEF Push
  <2>2. /\ Len(ring') = Len(ring) + 1 /\ ring'[Len(ring) + 1] = Newest + 1
        /\ \A i \in 1..Len(ring) : ring'[i] = ring[i]
    BY <2>1, <1>1 DEF PipeTypeOK
  <2>3. PipelineOrdered'
    <3>1. watch' \in 1..Newest' /\ (held' # 0 => held' \in (watch' + 1)..Newest')
      BY <1>1, <1>2 DEF PipelineOrdered, PipeTypeOK
    <3>2. /\ Len(ring) \in Nat /\ held \in Nat /\ watch \in Nat
          /\ \A i \in 1..Len(ring) : ring[i] \in Nat
      BY DEF PipeTypeOK
    <3>3. ASSUME NEW i \in 1..Len(ring')
          PROVE  ring'[i] \in (watch' + 1)..Newest' /\ ring'[i] > held'
      <4>1. CASE i = Len(ring) + 1
        BY <1>1, <1>2, <2>2, <3>1, <3>2, <4>1 DEF PipelineOrdered
      <4>2. CASE i \in 1..Len(ring)
        BY <1>1, <1>2, <2>2, <3>2, <4>2 DEF PipelineOrdered
      <4> QED BY <2>2, <3>2, <4>1, <4>2
    <3>4. ASSUME NEW i \in 1..Len(ring'), NEW j \in 1..Len(ring'), i < j
          PROVE  ring'[i] < ring'[j]
      <4>1. i \in 1..Len(ring) /\ (j \in 1..Len(ring) \/ j = Len(ring) + 1)
        BY <2>2, <3>2, <3>4
      <4>2. CASE j = Len(ring) + 1
        BY <1>1, <2>2, <3>2, <4>1, <4>2 DEF PipelineOrdered
      <4>3. CASE j \in 1..Len(ring)
        BY <2>2, <3>4, <4>1, <4>3 DEF PipelineOrdered
      <4> QED BY <4>1, <4>2, <4>3
    <3> QED
      BY <3>1, <3>3, <3>4 DEF PipelineOrdered
  <2>4. NothingVanishes'
    <3> SUFFICES ASSUME NEW i \in (watch + 1)..(Newest + 1)
                 PROVE  i = held \/ i \in dropped \/ \E k \in 1..Len(ring') : ring'[k] = i
      BY <1>1, <1>2, <2>1 DEF NothingVanishes
    <3>1. CASE i = Newest + 1
      BY <3>1, <2>2 DEF PipeTypeOK
    <3>2. CASE i \in (watch + 1)..Newest
      BY <3>2, <2>2 DEF NothingVanishes, PipeTypeOK
    <3> QED
      BY <3>1, <3>2, <1>1 DEF PipeTypeOK
  <2> QED
    BY <1>2, <2>3, <2>4 DEF NoLostWakeup, IdleHolds
<1>4. CASE Len(ring) >= RingCapacity
  <2>1. ring' = ring /\ dropped' = dropped \cup {Newest + 1}
    BY <1>2, <1>4 DEF Push, PipeTypeOK
  <2>2. PipelineOrdered'
    BY <1>1, <1>2, <2>1 DEF PipelineOrdered, PipeTypeOK
  <2>3. NothingVanishes'
    BY <1>1, <1>2, <2>1 DEF NothingVanishes, PipeTypeOK
  <2> QED
    BY <1>2, <2>2, <2>3 DEF NoLostWakeup, IdleHolds
<1> QED
  BY <1>3, <1>4 DEF PipeTypeOK

(* notify_one and every step of run_coordinator keep the wake-up stored,   *)
(* the order, and every update accounted for.                              *)
LEMMA PipeStepInv ==
  ASSUME PipeTypeOK, PipeInv, PipeStep, RingCapacity \in Nat
  PROVE  PipeInv'
<1> USE DEF PipeInv
<1>1. CASE Poll
  BY <1>1, PollPipeInv
<1>2. CASE NotifyOne
  BY <1>2 DEF NotifyOne, NoLostWakeup, PipelineOrdered, NothingVanishes, IdleHolds
<1>3. CASE Pop
  <2>1. /\ coord' = coord /\ coord = "drain" /\ held = 0 /\ watch' = watch
        /\ captured' = captured /\ dropped' = dropped
        /\ held' = ring[1] /\ Len(ring) >= 1 /\ Len(ring') = Len(ring) - 1
        /\ \A i \in 1..(Len(ring) - 1) : ring'[i] = ring[i + 1]
    BY <1>3 DEF Pop, PipeTypeOK
  <2>2. PipelineOrdered'
    <3>1. watch' \in 1..Newest' /\ held' \in (watch' + 1)..Newest'
      BY <2>1 DEF PipelineOrdered, PipeTypeOK
    <3>2. ASSUME NEW i \in 1..Len(ring')
          PROVE  ring'[i] \in (watch' + 1)..Newest' /\ ring'[i] > held'
      <4>1. /\ i + 1 \in 1..Len(ring) /\ 1 \in 1..Len(ring) /\ 1 < i + 1
            /\ ring'[i] = ring[i + 1]
        BY <2>1 DEF PipeTypeOK
      <4> QED BY <2>1, <4>1 DEF PipelineOrdered
    <3>3. ASSUME NEW i \in 1..Len(ring'), NEW j \in 1..Len(ring'), i < j
          PROVE  ring'[i] < ring'[j]
      <4>1. /\ i + 1 \in 1..Len(ring) /\ j + 1 \in 1..Len(ring) /\ i + 1 < j + 1
            /\ ring'[i] = ring[i + 1] /\ ring'[j] = ring[j + 1]
        BY <2>1, <3>3 DEF PipeTypeOK
      <4> QED BY <4>1 DEF PipelineOrdered
    <3> QED
      BY <3>1, <3>2, <3>3 DEF PipelineOrdered
  <2>3. NothingVanishes'
    <3> SUFFICES ASSUME NEW i \in (watch + 1)..Newest, i \notin dropped, i # ring[1]
                 PROVE  \E k \in 1..Len(ring') : ring'[k] = i
      BY <2>1 DEF NothingVanishes
    <3>1. i # 0
      BY DEF PipeTypeOK
    <3>2. PICK k \in 1..Len(ring) : ring[k] = i
      BY <2>1, <3>1 DEF NothingVanishes
    <3>3. k - 1 \in 1..Len(ring') /\ ring'[k - 1] = i
      BY <2>1, <3>2 DEF PipeTypeOK
    <3> QED
      BY <3>3
  <2> QED
    BY <2>1, <2>2, <2>3 DEF NoLostWakeup, IdleHolds
<1>4. CASE Publish
  <2>1. /\ coord' = coord /\ ring' = ring /\ captured' = captured
        /\ dropped' = dropped /\ permit' = permit /\ notifyDue' = notifyDue
        /\ held # 0 /\ watch' = held /\ held' = 0
    BY <1>4 DEF Publish
  <2>2. PipelineOrdered'
    BY <2>1 DEF PipelineOrdered, PipeTypeOK
  <2>3. NothingVanishes'
    BY <2>1 DEF NothingVanishes, PipelineOrdered, PipeTypeOK
  <2> QED
    BY <2>1, <2>2, <2>3 DEF NoLostWakeup, IdleHolds
<1>5. CASE Park
  BY <1>5 DEF Park, NoLostWakeup, PipelineOrdered, NothingVanishes, IdleHolds
<1>6. CASE Wake
  BY <1>6 DEF Wake, NoLostWakeup, PipelineOrdered, NothingVanishes, IdleHolds
<1>7. CASE FindEmpty
  BY <1>7 DEF FindEmpty, NoLostWakeup, PipelineOrdered, NothingVanishes, IdleHolds
<1> QED
  BY <1>1, <1>2, <1>3, <1>4, <1>5, <1>6, <1>7 DEF PipeStep

(* A restarted agent starts with an empty pipeline and a watch that holds  *)
(* its empty world.                                                        *)
LEMMA RestartPipeInv ==
  ASSUME PipeTypeOK, Restart
  PROVE  PipeInv' /\ PipeTypeOK'
<1>1. NoFlows \in World
  BY DEF World, NoFlows
<1>2. /\ captured' \in Seq(World) /\ Len(captured') = Len(captured) + 1
      /\ Len(captured) \in Nat
  BY <1>1 DEF Restart, PipeTypeOK
<1>3. /\ ring' = <<>> /\ held' = 0 /\ watch' = Len(captured) + 1
      /\ coord' = "drain" /\ notifyDue' = FALSE /\ permit' = FALSE
      /\ dropped' = dropped
  BY DEF Restart
<1>4. ring' \in Seq(Nat) /\ Len(ring') <= RingCapacity
  BY <1>3, FeedAssumption
<1>5. PipeTypeOK'
  <2>1. dropped' \subseteq Nat
    BY <1>3 DEF PipeTypeOK
  <2>2. held' \in Nat /\ watch' \in Nat
    BY <1>2, <1>3
  <2>3. notifyDue' \in BOOLEAN /\ permit' \in BOOLEAN /\ coord' \in {"drain", "emptied", "parked"}
    BY <1>3
  <2> QED
    BY <1>2, <1>4, <2>1, <2>2, <2>3 DEF PipeTypeOK
<1>6. PipelineOrdered' /\ NothingVanishes'
  BY <1>2, <1>3 DEF PipelineOrdered, NothingVanishes
<1>7. NoLostWakeup' /\ IdleHolds'
  BY <1>3 DEF NoLostWakeup, IdleHolds
<1> QED
  BY <1>5, <1>6, <1>7 DEF PipeInv

-----------------------------------------------------------------------------
(* Steps that do not touch a client                                        *)

Untouched(d) ==
  /\ stage'[d] = stage[d] /\ seq'[d] = seq[d] /\ lastGen'[d] = lastGen[d]
  /\ wire'[d] = wire[d]
  /\ lastAppliedSeq'[d] = lastAppliedSeq[d] /\ lastSeq'[d] = lastSeq[d]
  /\ needsResync'[d] = needsResync[d]
  /\ flows'[d] = flows[d] /\ at'[d] = at[d] /\ based'[d] = based[d]

(* Worlds are only ever added, and the watch only moves forward.           *)
Onward ==
  /\ watch' \in Nat /\ watch <= watch'
  /\ \A i \in 1..Len(captured) : captured'[i] = captured[i]

(* A client whose state a step leaves alone keeps its invariant while the  *)
(* pipeline moves forward.                                                 *)
LEMMA UntouchedInv ==
  ASSUME TypeOK, PipelineOrdered, NEW d \in Client, ClientInv(d),
         Untouched(d), Onward
  PROVE  ClientInv(d)'
<1> USE DEF Untouched, TypeOK
<1>1. lastGen[d] \in Nat /\ at[d] \in Nat /\ watch \in 1..Len(captured)
  BY DEF SessionTypeOK, StoreTypeOK, PipelineOrdered
<1>2. SessionInv(d)'
  BY <1>1 DEF SessionInv, ClientInv, Onward
<1>3. WireInv(d)'
  BY DEF WireInv, ClientInv
<1>4. CursorInv(d)'
  BY DEF CursorInv, ClientInv, Trusted, NoneMissing
<1>5. MirrorInv(d)'
  <2>1. Trusted(d) => at[d] \in 1..Len(captured)
    BY <1>1 DEF MirrorInv, ClientInv, SessionInv
  <2> QED
    BY <2>1 DEF MirrorInv, ClientInv, Trusted, Onward
<1> QED
  BY <1>2, <1>3, <1>4, <1>5 DEF ClientInv

-----------------------------------------------------------------------------
(* The wire: lemmas about sequences of frames, with no variable in them    *)

(* What a frame on the wire is made of.                                    *)
LEMMA FrameFields ==
  ASSUME NEW w \in Seq(Frame)
  PROVE  /\ Len(w) \in Nat /\ (w = <<>> <=> Len(w) = 0)
         /\ \A k \in 1..Len(w) :
              /\ w[k].type \in {"hello", "snapshot", "delta", "heartbeat"}
              /\ w[k].seq \in Nat /\ w[k].idx \in Nat
<1>1. \A k \in 1..Len(w) : w[k] \in Frame
  OBVIOUS
<1> QED
  BY <1>1 DEF Frame

(* The frames in flight keep their places when one is sent after them.     *)
LEMMA AppendAt ==
  ASSUME NEW w \in Seq(Frame), NEW f \in Frame
  PROVE  /\ Append(w, f) \in Seq(Frame)
         /\ Len(Append(w, f)) = Len(w) + 1 /\ Append(w, f) # <<>>
         /\ Append(w, f)[Len(w) + 1] = f
         /\ \A k \in 1..Len(w) : Append(w, f)[k] = w[k]
  OBVIOUS

(* The frames in flight move up by one when the first is taken.            *)
LEMMA TailAt ==
  ASSUME NEW w \in Seq(Frame), w # <<>>
  PROVE  /\ Tail(w) \in Seq(Frame) /\ Len(w) \in Nat /\ Len(w) >= 1
         /\ Len(Tail(w)) = Len(w) - 1 /\ Head(w) = w[1]
         /\ \A k \in 1..(Len(w) - 1) : Tail(w)[k] = w[k + 1]
  OBVIOUS

(* A frame may follow those in flight when it takes the next seq and, if   *)
(* it is relative to the frame before it, starts where that one leads.     *)
LEMMA WireAppend ==
  ASSUME NEW w \in Seq(Frame), NEW next \in Nat, NEW last \in Nat,
         NEW last2 \in Nat, NEW from \in Nat, NEW isBased, NEW f \in Frame,
         WireOK(w, next, last, from, isBased),
         last <= last2, f.idx <= last2, f.seq = next,
         f.type = "hello" => w = <<>> /\ ~isBased,
         f.type # "hello" => f.idx >= 1 /\ f.idx >= from /\ f.idx >= last,
         f.type \in {"delta", "heartbeat"} =>
           /\ last >= 1
           /\ f.idx = last + (IF f.type = "delta" THEN 1 ELSE 0)
           /\ w # <<>> => w[Len(w)].type # "hello" /\ w[Len(w)].idx = last
  PROVE  WireOK(Append(w, f), next + 1, last2, from, isBased)
<1> DEFINE v == Append(w, f)
           n == Len(w)
<1>1. /\ n \in Nat /\ Len(v) = n + 1 /\ v[n + 1] = f /\ (w = <<>> <=> n = 0)
      /\ \A k \in 1..n : v[k] = w[k] /\ w[k].seq \in Nat /\ w[k].idx \in Nat
  BY AppendAt, FrameFields
<1>2. f.idx \in Nat /\ f.seq \in Nat
  BY DEF Frame
<1>3. \A k \in 1..n : w[k].idx <= last
  BY DEF WireOK
<1> HIDE DEF v, n
<1> SUFFICES ASSUME NEW i \in 1..(n + 1)
    PROVE /\ v[i].seq + ((n + 1) - i) + 1 = next + 1
          /\ v[i].idx <= last2
          /\ v[i].type = "hello" => i = 1 /\ ~isBased
          /\ v[i].type # "hello" => v[i].idx >= 1 /\ v[i].idx >= from
          /\ v[i].type = "delta" => v[i].idx >= 2
          /\ \A j \in 1..i : v[j].idx <= v[i].idx
          /\ i > 1 /\ v[i].type = "delta" =>
               v[i-1].type # "hello" /\ v[i].idx = v[i-1].idx + 1
          /\ i > 1 /\ v[i].type = "heartbeat" =>
               v[i-1].type # "hello" /\ v[i].idx = v[i-1].idx
  BY <1>1 DEF WireOK, v
<1>4. CASE i \in 1..n
  <2>1. /\ v[i] = w[i] /\ \A j \in 1..i : v[j] = w[j]
        /\ i > 1 => v[i-1] = w[i-1]
    BY <1>1, <1>4
  <2>2. /\ w[i].seq + (n - i) + 1 = next
        /\ w[i].idx <= last
        /\ w[i].type = "hello" => i = 1 /\ ~isBased
        /\ w[i].type # "hello" => w[i].idx >= 1 /\ w[i].idx >= from
        /\ w[i].type = "delta" => w[i].idx >= 2
        /\ \A j \in 1..i : w[j].idx <= w[i].idx
        /\ i > 1 /\ w[i].type = "delta" =>
             w[i-1].type # "hello" /\ w[i].idx = w[i-1].idx + 1
        /\ i > 1 /\ w[i].type = "heartbeat" =>
             w[i-1].type # "hello" /\ w[i].idx = w[i-1].idx
    BY <1>4 DEF WireOK, n
  <2>3. w[i].seq \in Nat /\ w[i].idx \in Nat
    BY <1>1, <1>4
  <2>4. v[i].seq + ((n + 1) - i) + 1 = next + 1
    <3>1. w[i].seq + (n - i) + 1 = next /\ n \in Nat /\ i \in Nat
      BY <1>1, <1>4, <2>2
    <3>2. w[i].seq + ((n + 1) - i) + 1 = next + 1
      BY <2>3, <3>1
    <3> QED
      BY <2>1, <3>2
  <2>5. v[i].idx <= last2
    BY <2>1, <2>2, <2>3
  <2>6. \A j \in 1..i : v[j].idx <= v[i].idx
    BY <2>1, <2>2
  <2> QED
    BY <1>4, <2>1, <2>2, <2>4, <2>5, <2>6
<1>5. CASE i = n + 1
  <2>1. v[i] = f
    BY <1>1, <1>5
  <2>2. n > 0 => v[i-1] = w[n]
    BY <1>1, <1>5
  <2>3. \A j \in 1..i : v[j].idx <= f.idx
    <3>1. CASE n = 0
      BY <1>1, <1>2, <1>5, <3>1
    <3>2. CASE n > 0
      <4>1. f.idx >= last
        BY <1>1, <3>2
      <4>2. \A j \in 1..n : v[j].idx <= f.idx
        BY <1>1, <1>2, <1>3, <4>1
      <4> QED
        BY <1>1, <1>2, <1>5, <4>2
    <3> QED
      BY <1>1, <3>1, <3>2
  <2>4. v[i].seq + ((n + 1) - i) + 1 = next + 1
    BY <1>1, <1>5, <2>1
  <2>5. i > 1 => n > 0
    BY <1>1, <1>5
  <2> QED
    BY <1>1, <1>2, <1>5, <2>1, <2>2, <2>3, <2>4, <2>5 DEF n
<1> QED
  BY <1>1, <1>4, <1>5

(* Taking the first frame leaves a good wire behind, also for a mirror     *)
(* that has moved to where that frame leads.                               *)
LEMMA WireTail ==
  ASSUME NEW w \in Seq(Frame), NEW next \in Nat, NEW last \in Nat,
         NEW from \in Nat, NEW isBased, NEW from2 \in Nat, NEW isBased2,
         WireOK(w, next, last, from, isBased), w # <<>>,
         from2 \in {from, w[1].idx}
  PROVE  /\ WireOK(Tail(w), next, last, from2, isBased2)
         /\ w[1].type # "hello" => StartsFrom(Tail(w), w[1].idx)
         /\ w[1].seq + Len(w) = next /\ w[1].idx <= last
         /\ w[1].type # "hello" => w[1].idx >= 1 /\ w[1].idx >= from
         /\ w[1].type = "delta" => w[1].idx >= 2
         /\ w[1].type = "hello" => ~isBased
<1> DEFINE v == Tail(w)
           n == Len(w)
<1>1. /\ n \in Nat /\ n >= 1 /\ Len(v) = n - 1 /\ v \in Seq(Frame)
      /\ \A k \in 1..(n - 1) : v[k] = w[k + 1]
      /\ \A k \in 1..n : w[k].seq \in Nat /\ w[k].idx \in Nat
  BY TailAt, FrameFields
<1>2. \A k \in 1..n :
        /\ w[k].seq + (n - k) + 1 = next
        /\ w[k].idx <= last
        /\ w[k].type = "hello" => k = 1 /\ ~isBased
        /\ w[k].type # "hello" => w[k].idx >= 1 /\ w[k].idx >= from
        /\ w[k].type = "delta" => w[k].idx >= 2
        /\ \A j \in 1..k : w[j].idx <= w[k].idx
        /\ k > 1 /\ w[k].type = "delta" =>
             w[k-1].type # "hello" /\ w[k].idx = w[k-1].idx + 1
        /\ k > 1 /\ w[k].type = "heartbeat" =>
             w[k-1].type # "hello" /\ w[k].idx = w[k-1].idx
  BY DEF WireOK
<1> HIDE DEF v, n
<1>3. /\ w[1].seq + n = next /\ w[1].idx <= last
      /\ w[1].type = "hello" => ~isBased
      /\ w[1].type # "hello" => w[1].idx >= 1 /\ w[1].idx >= from
      /\ w[1].type = "delta" => w[1].idx >= 2
  <2>1. 1 \in 1..n /\ w[1].seq \in Nat
    BY <1>1
  <2>2. w[1].seq + (n - 1) + 1 = next
    BY <1>2, <2>1
  <2>3. w[1].seq + n = next
    BY <1>1, <2>1, <2>2
  <2> QED
    BY <1>2, <2>1, <2>3
<1>4. WireOK(v, next, last, from2, isBased2)
  <2> SUFFICES ASSUME NEW i \in 1..(n - 1)
      PROVE /\ v[i].seq + ((n - 1) - i) + 1 = next
            /\ v[i].idx <= last
            /\ v[i].type = "hello" => i = 1 /\ ~isBased2
            /\ v[i].type # "hello" => v[i].idx >= 1 /\ v[i].idx >= from2
            /\ v[i].type = "delta" => v[i].idx >= 2
            /\ \A j \in 1..i : v[j].idx <= v[i].idx
            /\ i > 1 /\ v[i].type = "delta" =>
                 v[i-1].type # "hello" /\ v[i].idx = v[i-1].idx + 1
            /\ i > 1 /\ v[i].type = "heartbeat" =>
                 v[i-1].type # "hello" /\ v[i].idx = v[i-1].idx
    BY <1>1 DEF WireOK, v
  <2>1. i + 1 \in 1..n /\ i + 1 > 1 /\ v[i] = w[i + 1] /\ 1 \in 1..(i + 1)
    BY <1>1
  <2>2. /\ w[i + 1].seq + (n - (i + 1)) + 1 = next
        /\ w[i + 1].idx <= last
        /\ w[i + 1].type = "hello" => i + 1 = 1
        /\ w[i + 1].type # "hello" => w[i + 1].idx >= 1 /\ w[i + 1].idx >= from
        /\ w[i + 1].type = "delta" => w[i + 1].idx >= 2
        /\ \A j \in 1..(i + 1) : w[j].idx <= w[i + 1].idx
        /\ w[i + 1].type = "delta" => w[i].type # "hello" /\ w[i + 1].idx = w[i].idx + 1
        /\ w[i + 1].type = "heartbeat" => w[i].type # "hello" /\ w[i + 1].idx = w[i].idx
    <3>1. (i + 1) - 1 = i
      BY <1>1
    <3> QED
      BY <1>2, <2>1, <3>1
  <2>3. v[i].type # "hello" /\ v[i].idx >= from2
    <3>1. i + 1 # 1
      BY <1>1
    <3>2. w[i + 1].type # "hello" /\ w[i + 1].idx >= from /\ w[i + 1].idx >= w[1].idx
      BY <2>1, <2>2, <3>1, <1>1
    <3> QED
      BY <2>1, <3>2
  <2>4. \A j \in 1..i : v[j].idx <= v[i].idx
    <3> TAKE j \in 1..i
    <3>1. v[j] = w[j + 1] /\ j + 1 \in 1..(i + 1)
      BY <1>1
    <3> QED
      BY <2>1, <2>2, <3>1
  <2>5. i > 1 => v[i-1] = w[i]
    BY <1>1
  <2>6. v[i].seq + ((n - 1) - i) + 1 = next
    BY <1>1, <2>1, <2>2
  <2> QED
    BY <2>1, <2>2, <2>3, <2>4, <2>5, <2>6
<1>5. ASSUME w[1].type # "hello"
      PROVE  StartsFrom(v, w[1].idx)
  <2> SUFFICES ASSUME v # <<>>
      PROVE /\ v[1].type = "delta" => v[1].idx = w[1].idx + 1
            /\ v[1].type = "heartbeat" => v[1].idx = w[1].idx
    BY DEF StartsFrom
  <2>1. Len(v) >= 1
    BY <1>1
  <2>2. v[1] = w[2] /\ 2 \in 1..n /\ 2 > 1 /\ 2 - 1 = 1
    BY <1>1, <2>1
  <2> QED
    BY <1>2, <2>2
<1> QED
  BY <1>3, <1>4, <1>5 DEF v, n

-----------------------------------------------------------------------------
(* A session's steps                                                       *)

(* The conditions under which a session may send a frame: it leads to what *)
(* the session has sent last or to something newer, and a delta or a       *)
(* heartbeat follows from the frame before it.                             *)
LEMMA SentInv ==
  ASSUME TypeOK, NEW c \in Client, ClientInv(c),
         NEW type \in {"hello", "snapshot", "delta", "heartbeat"}, NEW i \in Nat,
         Send(c, type, i), lastGen'[c] \in Nat,
         lastGen[c] <= lastGen'[c], i <= lastGen'[c],
         type = "hello" => wire[c] = <<>> /\ ~based[c],
         type # "hello" => i >= 1 /\ i >= at[c] /\ i >= lastGen[c],
         type \in {"delta", "heartbeat"} =>
           stage[c] = "live" /\ i = lastGen[c] + (IF type = "delta" THEN 1 ELSE 0),
         UNCHANGED <<captured, cursorVars, mirrorVars>>
  PROVE  /\ WireInv(c)' /\ CursorInv(c)' /\ MirrorInv(c)'
         /\ wire'[c] # <<>> /\ Len(wire'[c]) = Len(wire[c]) + 1
         /\ wire'[c][Len(wire'[c])].type = type
         /\ wire'[c][Len(wire'[c])].idx = i
         /\ \A k \in 1..Len(wire[c]) : wire'[c][k] = wire[c][k]
<1> DEFINE w == wire[c]
           f == [type |-> type, seq |-> seq[c], idx |-> i]
<1>1. /\ w \in Seq(Frame) /\ f \in Frame
      /\ seq[c] \in Nat /\ lastGen[c] \in Nat /\ at[c] \in Nat
      /\ lastSeq[c] \in Int
  BY DEF TypeOK, SessionTypeOK, StoreTypeOK, Frame
<1>2. wire'[c] = Append(w, f) /\ seq'[c] = seq[c] + 1
  BY DEF Send, TypeOK, SessionTypeOK
<1>3. /\ at' = at /\ based' = based /\ flows' = flows /\ captured' = captured
      /\ lastSeq' = lastSeq /\ lastAppliedSeq' = lastAppliedSeq
      /\ needsResync' = needsResync
  BY DEF cursorVars, mirrorVars
<1>4. f.type = type /\ f.seq = seq[c] /\ f.idx = i
  OBVIOUS
<1> HIDE DEF f
<1>5. WireInv(c)'
  <2>1. WireOK(w, seq[c], lastGen[c], at[c], based[c])
    BY DEF ClientInv, WireInv
  <2>2. f.type \in {"delta", "heartbeat"} =>
           /\ lastGen[c] >= 1
           /\ f.idx = lastGen[c] + (IF f.type = "delta" THEN 1 ELSE 0)
           /\ w # <<>> => w[Len(w)].type # "hello" /\ w[Len(w)].idx = lastGen[c]
    BY <1>1, <1>4 DEF ClientInv, SessionInv
  <2>3. WireOK(Append(w, f), seq[c] + 1, lastGen'[c], at[c], based[c])
    BY <1>1, <1>4, <2>1, <2>2, WireAppend
  <2> QED
    BY <1>2, <1>3, <2>3 DEF WireInv
<1>6. /\ Len(w) \in Nat /\ Len(Append(w, f)) = Len(w) + 1 /\ Append(w, f) # <<>>
      /\ Append(w, f)[Len(w) + 1] = f /\ (w = <<>> <=> Len(w) = 0)
      /\ \A k \in 1..Len(w) : Append(w, f)[k] = w[k]
  BY <1>1, AppendAt, FrameFields
<1>7. CursorInv(c)'
  <2> SUFFICES ASSUME based[c]
      PROVE
        /\ 0 <= lastAppliedSeq[c] /\ lastAppliedSeq[c] <= lastSeq[c]
        /\ lastSeq[c] + 1 + (Len(w) + 1) <= seq[c] + 1
        /\ Trusted(c) /\ lastSeq[c] + 1 + (Len(w) + 1) = seq[c] + 1 =>
             StartsFrom(Append(w, f), at[c])
    BY <1>2, <1>3, <1>6 DEF CursorInv, Trusted, NoneMissing
  <2>1. /\ 0 <= lastAppliedSeq[c] /\ lastAppliedSeq[c] <= lastSeq[c]
        /\ lastSeq[c] + 1 + Len(w) <= seq[c]
    BY DEF ClientInv, CursorInv
  <2>2. lastSeq[c] + 1 + (Len(w) + 1) <= seq[c] + 1
    BY <1>1, <1>6, <2>1
  <2>3. ASSUME Trusted(c), lastSeq[c] + 1 + (Len(w) + 1) = seq[c] + 1
        PROVE  StartsFrom(Append(w, f), at[c])
    <3>1. NoneMissing(c)
      <4>0. lastSeq[c] \in Int /\ Len(w) \in Int /\ seq[c] \in Int
        BY <1>1, <1>6
      <4>1. \A x, y, z \in Int : x + 1 + (y + 1) = z + 1 => x + 1 + y = z
        OBVIOUS
      <4>2. lastSeq[c] + 1 + Len(w) = seq[c]
        <5> HIDE DEF w
        <5> QED BY <4>0, <4>1, <2>3
      <4> QED
        BY <4>2 DEF NoneMissing
    <3>2. /\ StartsFrom(w, at[c])
          /\ w = <<>> /\ stage[c] = "live" => at[c] = lastGen[c]
      BY <2>3, <3>1 DEF ClientInv, CursorInv
    <3>3. CASE w = <<>>
      <4>1. Append(w, f)[1] = f
        BY <1>6, <3>3
      <4> QED
        BY <1>1, <1>4, <3>2, <3>3, <4>1 DEF StartsFrom
    <3>4. CASE w # <<>>
      <4>1. Append(w, f)[1] = w[1]
        BY <1>6, <3>4
      <4> QED
        BY <3>2, <3>4, <4>1 DEF StartsFrom
    <3> QED
      BY <3>3, <3>4
  <2> QED
    BY <2>1, <2>2, <2>3
<1>8. MirrorInv(c)'
  BY <1>3 DEF ClientInv, MirrorInv, Trusted
<1> QED
  BY <1>2, <1>4, <1>5, <1>6, <1>7, <1>8

(* Every frame serve_client sends follows from the one before it.          *)
LEMMA SessionStepInv ==
  ASSUME TypeOK, TypeOK', PipelineOrdered, NEW c \in Client, ClientInv(c), Session(c)
  PROVE  ClientInv(c)'
<1>1. /\ watch \in Nat /\ watch >= 1 /\ lastGen[c] \in Nat /\ at[c] \in Nat
      /\ lastGen'[c] \in Nat /\ Len(wire[c]) \in Nat
      /\ c \in DOMAIN stage /\ c \in DOMAIN lastGen
  BY DEF TypeOK, PipeTypeOK, SessionTypeOK, StoreTypeOK, PipelineOrdered
<1>2. UNCHANGED <<captured, watch, cursorVars, mirrorVars>>
  BY DEF Session, SendHello, SendSnapshot, SendHeartbeat, SendChange, AnswerResync,
         pipeVars
<1>3. at' = at /\ based' = based /\ watch' = watch
  BY <1>2 DEF mirrorVars
<1>4. lastGen[c] <= watch /\ at[c] <= watch
  BY DEF ClientInv, SessionInv
<1>5. stage[c] = "live" => 1 <= lastGen[c] /\ at[c] <= lastGen[c]
  BY DEF ClientInv, SessionInv
<1>6. CASE SendHello(c)
  <2>1. /\ Send(c, "hello", 0) /\ lastGen'[c] = lastGen[c] /\ stage'[c] = "snapshot"
        /\ wire[c] = <<>> /\ ~based[c]
    BY <1>1, <1>6 DEF SendHello, ClientInv, SessionInv
  <2>2. /\ WireInv(c)' /\ CursorInv(c)' /\ MirrorInv(c)'
        /\ Len(wire'[c]) = Len(wire[c]) + 1
        /\ wire'[c][Len(wire'[c])].type = "hello"
    <3>1. 0 \in Nat /\ lastGen[c] <= lastGen'[c] /\ 0 <= lastGen'[c]
      BY <1>1, <2>1
    <3>2. UNCHANGED <<captured, cursorVars, mirrorVars>>
      BY <1>2
    <3> QED
      BY <1>1, <2>1, <3>1, <3>2, SentInv
  <2>3. \A k \in 1..Len(wire'[c]) : wire'[c][k].type = "hello"
    BY <2>1, <2>2
  <2>4. SessionInv(c)'
    BY <1>3, <1>4, <2>1, <2>3 DEF SessionInv
  <2> QED
    BY <2>2, <2>4 DEF ClientInv
<1>7. CASE SendSnapshot(c)
  <2>1. /\ Send(c, "snapshot", watch) /\ lastGen'[c] = watch /\ stage'[c] = "live"
        /\ ~based[c]
    BY <1>1, <1>7 DEF SendSnapshot, ClientInv, SessionInv
  <2>2. /\ WireInv(c)' /\ CursorInv(c)' /\ MirrorInv(c)'
        /\ wire'[c] # <<>> /\ wire'[c][Len(wire'[c])].type = "snapshot"
        /\ wire'[c][Len(wire'[c])].idx = watch
    BY <1>1, <1>2, <1>4, <2>1, SentInv
  <2>3. SessionInv(c)'
    BY <1>1, <1>3, <1>4, <2>1, <2>2 DEF SessionInv
  <2> QED
    BY <2>2, <2>3 DEF ClientInv
<1>8. CASE SendHeartbeat(c)
  <2>1. /\ Send(c, "heartbeat", lastGen[c]) /\ lastGen'[c] = lastGen[c]
        /\ stage'[c] = "live" /\ stage[c] = "live"
    BY <1>8 DEF SendHeartbeat
  <2>2. /\ WireInv(c)' /\ CursorInv(c)' /\ MirrorInv(c)'
        /\ wire'[c] # <<>> /\ wire'[c][Len(wire'[c])].type = "heartbeat"
        /\ wire'[c][Len(wire'[c])].idx = lastGen[c]
    BY <1>1, <1>2, <1>5, <2>1, SentInv
  <2>3. SessionInv(c)'
    BY <1>1, <1>3, <1>4, <1>5, <2>1, <2>2 DEF SessionInv
  <2> QED
    BY <2>2, <2>3 DEF ClientInv
<1>9. CASE SendChange(c)
  <2>1. /\ Send(c, ChangeType(c), watch) /\ lastGen'[c] = watch
        /\ stage'[c] = "live" /\ stage[c] = "live"
    BY <1>1, <1>9 DEF SendChange
  <2>2. /\ ChangeType(c) \in {"snapshot", "delta"}
        /\ ChangeType(c) = "delta" => watch = lastGen[c] + 1
    BY DEF ChangeType
  <2>3. /\ WireInv(c)' /\ CursorInv(c)' /\ MirrorInv(c)'
        /\ wire'[c] # <<>> /\ wire'[c][Len(wire'[c])].type = ChangeType(c)
        /\ wire'[c][Len(wire'[c])].idx = watch
    BY <1>1, <1>2, <1>4, <1>5, <2>1, <2>2, SentInv
  <2>4. SessionInv(c)'
    BY <1>1, <1>3, <1>4, <1>5, <2>1, <2>2, <2>3 DEF SessionInv
  <2> QED
    BY <2>3, <2>4 DEF ClientInv
<1>10. CASE AnswerResync(c)
  <2>1. /\ Send(c, "snapshot", watch) /\ lastGen'[c] = watch
        /\ stage'[c] = "live" /\ stage[c] = "live"
    BY <1>1, <1>10 DEF AnswerResync
  <2>2. /\ WireInv(c)' /\ CursorInv(c)' /\ MirrorInv(c)'
        /\ wire'[c] # <<>> /\ wire'[c][Len(wire'[c])].type = "snapshot"
        /\ wire'[c][Len(wire'[c])].idx = watch
    BY <1>1, <1>2, <1>4, <1>5, <2>1, SentInv
  <2>3. SessionInv(c)'
    BY <1>1, <1>3, <1>4, <1>5, <2>1, <2>2 DEF SessionInv
  <2> QED
    BY <2>2, <2>3 DEF ClientInv
<1> QED
  BY <1>6, <1>7, <1>8, <1>9, <1>10 DEF Session
-----------------------------------------------------------------------------
(* The store's steps                                                       *)

(* Applying the delta of a world to the world before it gives that world;  *)
(* applied to any mirror it gives a mirror.                                *)
LEMMA DeltaLeads ==
  ASSUME captured \in Seq(World), NEW i \in Nat, 2 <= i, i <= Len(captured)
  PROVE  /\ ApplyDelta(captured[i-1], DeltaParts(i)) = captured[i]
         /\ \A m \in World : ApplyDelta(m, DeltaParts(i)) \in World
<1>1. captured[i] \in World /\ captured[i-1] \in World
  OBVIOUS
<1> DEFINE new == captured[i]
           old == captured[i-1]
<1>2. DeltaParts(i) = [f \in {g \in Flow : new[g] # old[g]} |-> new[f]]
  BY DEF DeltaParts
<1> HIDE DEF new, old
<1>3. new \in World /\ old \in World
  BY <1>1 DEF new, old
<1>4. ApplyDelta(old, DeltaParts(i)) = new
  BY <1>2, <1>3 DEF ApplyDelta, World
<1>5. ASSUME NEW m \in World
      PROVE  ApplyDelta(m, DeltaParts(i)) \in World
  BY <1>2, <1>3 DEF ApplyDelta, World
<1> QED
  BY <1>4, <1>5 DEF new, old

(* The first frame of a wire leads to a world the agent has observed.      *)
LEMMA HeadFrame ==
  ASSUME TypeOK, PipelineOrdered, NEW c \in Client, ClientInv(c), wire[c] # <<>>
  PROVE  /\ Head(wire[c]) = wire[c][1] /\ wire[c][1] \in Frame
         /\ Len(wire[c]) \in Nat /\ Len(wire[c]) >= 1
         /\ wire[c][1].seq \in Nat /\ wire[c][1].idx \in Nat
         /\ wire[c][1].seq + Len(wire[c]) = seq[c]
         /\ wire[c][1].idx <= lastGen[c] /\ wire[c][1].idx <= watch
         /\ wire[c][1].idx <= Len(captured)
         /\ wire[c][1].type # "hello" => wire[c][1].idx >= 1 /\ wire[c][1].idx >= at[c]
         /\ wire[c][1].type = "delta" => wire[c][1].idx >= 2
         /\ wire[c][1].type = "hello" => ~based[c]
<1>1. /\ wire[c] \in Seq(Frame) /\ seq[c] \in Nat /\ lastGen[c] \in Nat
      /\ at[c] \in Nat /\ watch \in Nat /\ captured \in Seq(World)
  BY DEF TypeOK, PipeTypeOK, SessionTypeOK, StoreTypeOK
<1>2. WireOK(wire[c], seq[c], lastGen[c], at[c], based[c])
  BY DEF ClientInv, WireInv
<1>3. /\ Head(wire[c]) = wire[c][1] /\ Len(wire[c]) \in Nat /\ Len(wire[c]) >= 1
  BY <1>1, TailAt
<1>4. wire[c][1] \in Frame /\ wire[c][1].seq \in Nat /\ wire[c][1].idx \in Nat
  <2>1. wire[c][1] \in Frame
    BY <1>1, <1>3
  <2> QED
    BY <2>1 DEF Frame
<1>5. /\ wire[c][1].seq + Len(wire[c]) = seq[c] /\ wire[c][1].idx <= lastGen[c]
      /\ wire[c][1].type # "hello" => wire[c][1].idx >= 1 /\ wire[c][1].idx >= at[c]
      /\ wire[c][1].type = "delta" => wire[c][1].idx >= 2
      /\ wire[c][1].type = "hello" => ~based[c]
  <2>1. at[c] \in {at[c], wire[c][1].idx}
    OBVIOUS
  <2>2. WireOK(Tail(wire[c]), seq[c], lastGen[c], at[c], based[c])
    BY <1>1, <1>2, <2>1, WireTail
  <2> QED
    BY <1>1, <1>2, <2>1, <2>2, WireTail
<1>6. wire[c][1].idx <= watch /\ wire[c][1].idx <= Len(captured)
  <2>1. lastGen[c] <= watch /\ watch <= Len(captured) /\ Len(captured) \in Nat
    BY <1>1 DEF ClientInv, SessionInv, PipelineOrdered
  <2> QED
    BY <1>1, <1>4, <1>5, <2>1
<1> QED
  BY <1>3, <1>4, <1>5, <1>6

(* What taking a frame off the wire leaves of the invariant, whatever the  *)
(* handler does with the cursors.                                          *)
LEMMA TakenInv ==
  ASSUME TypeOK, PipelineOrdered, NEW c \in Client, ClientInv(c), wire[c] # <<>>,
         wire'[c] = Tail(wire[c]),
         UNCHANGED <<stage, seq, lastGen, captured, watch>>,
         at'[c] \in {at[c], wire[c][1].idx},
         based'[c] => based[c] \/ wire[c][1].type # "hello"
  PROVE  /\ SessionInv(c)' /\ WireInv(c)'
         /\ Len(wire'[c]) = Len(wire[c]) - 1
         /\ wire[c][1].type # "hello" => StartsFrom(wire'[c], wire[c][1].idx)
         /\ wire'[c] = <<>> /\ stage[c] = "live" => wire[c][1].idx = lastGen[c]
<1> DEFINE w == wire[c]
<1>1. /\ w \in Seq(Frame) /\ seq[c] \in Nat /\ lastGen[c] \in Nat
      /\ at[c] \in Nat /\ watch \in Nat
  BY DEF TypeOK, PipeTypeOK, SessionTypeOK, StoreTypeOK
<1>2. /\ w[1].idx \in Nat /\ w[1].idx <= lastGen[c] /\ w[1].idx <= watch
      /\ Len(w) \in Nat /\ Len(w) >= 1
  BY HeadFrame
<1>3. /\ Len(Tail(w)) = Len(w) - 1
      /\ \A k \in 1..(Len(w) - 1) : Tail(w)[k] = w[k + 1]
      /\ Tail(w) = <<>> <=> Len(Tail(w)) = 0
  BY <1>1, TailAt, FrameFields
<1>4. stage' = stage /\ seq' = seq /\ lastGen' = lastGen /\ watch' = watch
  OBVIOUS
<1>5. WireOK(w, seq[c], lastGen[c], at[c], based[c])
  BY DEF ClientInv, WireInv
<1>6. at'[c] \in Nat
  BY <1>1, <1>2
<1>7. /\ WireOK(Tail(w), seq[c], lastGen[c], at'[c], based'[c])
      /\ w[1].type # "hello" => StartsFrom(Tail(w), w[1].idx)
  BY <1>1, <1>5, <1>6, WireTail
<1>8. WireInv(c)'
  BY <1>4, <1>7 DEF WireInv
<1>9. stage[c] = "live" => w[Len(w)].type # "hello" /\ w[Len(w)].idx = lastGen[c]
  BY DEF ClientInv, SessionInv
<1>10. Tail(w) # <<>> => Tail(w)[Len(Tail(w))] = w[Len(w)]
  BY <1>2, <1>3
<1>11. Tail(w) = <<>> => w[Len(w)] = w[1]
  BY <1>2, <1>3
<1>12. SessionInv(c)'
  <2>1. lastGen[c] <= watch /\ at'[c] <= watch
    BY <1>2 DEF ClientInv, SessionInv
  <2>2. stage[c] # "hello"
    BY DEF ClientInv, SessionInv
  <2>3. stage[c] = "snapshot" =>
          ~based'[c] /\ \A i \in 1..Len(Tail(w)) : Tail(w)[i].type = "hello"
    <3> SUFFICES ASSUME stage[c] = "snapshot"
        PROVE  ~based'[c] /\ \A i \in 1..Len(Tail(w)) : Tail(w)[i].type = "hello"
      OBVIOUS
    <3>1. ~based[c] /\ \A i \in 1..Len(w) : w[i].type = "hello"
      BY DEF ClientInv, SessionInv
    <3>2. w[1].type = "hello"
      BY <1>2, <3>1
    <3>3. \A i \in 1..Len(Tail(w)) : i + 1 \in 1..Len(w) /\ Tail(w)[i] = w[i + 1]
      BY <1>2, <1>3
    <3> QED
      BY <3>1, <3>2, <3>3
  <2>4. stage[c] = "live" =>
          /\ 1 <= lastGen[c] /\ at'[c] <= lastGen[c]
          /\ Tail(w) # <<>> => LET f == Tail(w)[Len(Tail(w))] IN
                                  f.type # "hello" /\ f.idx = lastGen[c]
    BY <1>2, <1>9, <1>10 DEF ClientInv, SessionInv
  <2> QED
    BY <1>4, <2>1, <2>2, <2>3, <2>4, SMTT(30) DEF SessionInv
<1> QED
  BY <1>3, <1>7, <1>8, <1>9, <1>11, <1>12

(* What noting a seq does to the cursors.                                  *)
LEMMA NoteSeqDoes ==
  ASSUME TypeOK, NEW c \in Client, NEW s \in Nat, NoteSeq(c, s)
  PROVE  /\ needsResync' \in [Client -> BOOLEAN]
         /\ up' \in [Client -> Nat]
         /\ lastSeq' \in [Client -> Nat \cup {-1}]
         /\ s > lastSeq[c] => lastSeq'[c] = s
         /\ 0 <= lastSeq[c] /\ ~needsResync'[c] =>
              ~needsResync[c] /\ s <= lastSeq[c] + 1
         /\ \A d \in Client \ {c} :
              needsResync'[d] = needsResync[d] /\ lastSeq'[d] = lastSeq[d]
<1>1. /\ needsResync \in [Client -> BOOLEAN] /\ up \in [Client -> Nat]
      /\ lastSeq \in [Client -> Nat \cup {-1}]
  BY DEF TypeOK, SessionTypeOK, StoreTypeOK
<1> DEFINE gap == lastSeq[c] >= 0 /\ s > lastSeq[c] + 1 /\ ~needsResync[c]
<1>2. /\ needsResync' = [needsResync EXCEPT ![c] = @ \/ gap]
      /\ up' = [up EXCEPT ![c] = IF gap /\ stage[c] # "down" THEN @ + 1 ELSE @]
      /\ lastSeq' = [lastSeq EXCEPT ![c] = IF s > @ THEN s ELSE @]
  BY DEF NoteSeq
<1>3. gap \in BOOLEAN
  OBVIOUS
<1>4. needsResync'[c] = (needsResync[c] \/ gap)
  BY <1>1, <1>2
<1>5. 0 <= lastSeq[c] /\ ~needsResync'[c] => ~needsResync[c] /\ s <= lastSeq[c] + 1
  <2> SUFFICES ASSUME 0 <= lastSeq[c], ~needsResync'[c]
               PROVE  ~needsResync[c] /\ s <= lastSeq[c] + 1
    OBVIOUS
  <2> HIDE DEF gap
  <2>1. ~needsResync[c] /\ ~gap
    BY <1>4, Zenon
  <2>2. ~(lastSeq[c] >= 0 /\ s > lastSeq[c] + 1)
    BY <2>1, Zenon DEF gap
  <2>3. lastSeq[c] \in Int
    BY <1>1
  <2> QED
    BY <2>1, <2>2, <2>3
<1> HIDE DEF gap
<1>6. /\ needsResync' \in [Client -> BOOLEAN]
      /\ \A d \in Client \ {c} : needsResync'[d] = needsResync[d]
  BY <1>1, <1>2, <1>3, Zenon
<1>7. up' \in [Client -> Nat]
  BY <1>1, <1>2
<1>8. /\ lastSeq' \in [Client -> Nat \cup {-1}]
      /\ s > lastSeq[c] => lastSeq'[c] = s
      /\ \A d \in Client \ {c} : lastSeq'[d] = lastSeq[d]
  BY <1>1, <1>2
<1> QED
  BY <1>5, <1>6, <1>7, <1>8

(* Every handler of the store keeps the types.                             *)
LEMMA StoreStepType ==
  ASSUME TypeOK, PipelineOrdered, NEW c \in Client, ClientInv(c), Store(c)
  PROVE  TypeOK'
<1>1. /\ wire[c] # <<>> /\ wire' = [wire EXCEPT ![c] = Tail(@)]
      /\ UNCHANGED <<pipeVars, sessionVars, attached, envVars>>
  BY DEF Store, OnHello, OnSnapshot, OnDelta, OnHeartbeat, Receive, mirrorVars
<1>2. PipeTypeOK' /\ BoundsOK'
  BY <1>1 DEF TypeOK, PipeTypeOK, BoundsOK, pipeVars, envVars
<1>3. wire' \in [Client -> Seq(Frame)]
  <2>1. wire \in [Client -> Seq(Frame)] /\ Tail(wire[c]) \in Seq(Frame)
    BY <1>1, TailAt DEF TypeOK, SessionTypeOK
  <2> QED
    BY <1>1, <2>1
<1>4. up' \in [Client -> Nat] => SessionTypeOK'
  BY <1>1, <1>3 DEF TypeOK, SessionTypeOK, sessionVars
<1>5. attached' \in [Client -> BOOLEAN]
  BY <1>1 DEF TypeOK, StoreTypeOK
<1> DEFINE f == wire[c][1]
<1>6. /\ Head(wire[c]) = f /\ f.seq \in Nat /\ f.idx \in Nat
      /\ f.type # "hello" => f.idx >= 1
      /\ f.type = "delta" => f.idx >= 2
      /\ f.idx <= Len(captured)
  BY <1>1, HeadFrame
<1>7. captured \in Seq(World)
  BY DEF TypeOK, PipeTypeOK
<1> HIDE DEF f
<1>8. CASE OnHello(c)
  BY <1>2, <1>4, <1>5, <1>8
     DEF OnHello, TypeOK, SessionTypeOK, StoreTypeOK, cursorVars, mirrorVars
<1>9. CASE OnSnapshot(c)
  <2>1. captured[f.idx] \in World
    BY <1>6, <1>7, <1>9 DEF OnSnapshot, Receive
  <2>2. /\ flows' = [flows EXCEPT ![c] = captured[f.idx]]
        /\ lastAppliedSeq' = [lastAppliedSeq EXCEPT ![c] = f.seq]
        /\ lastSeq' = [lastSeq EXCEPT ![c] = f.seq]
        /\ at' = [at EXCEPT ![c] = f.idx]
        /\ needsResync' = [needsResync EXCEPT ![c] = FALSE]
        /\ based' = [based EXCEPT ![c] = TRUE]
        /\ up' = up
    BY <1>6, <1>9 DEF OnSnapshot
  <2>3. StoreTypeOK'
    BY <1>5, <1>6, <2>1, <2>2, SMTT(30) DEF TypeOK, StoreTypeOK
  <2>4. SessionTypeOK'
    BY <1>4, <2>2 DEF TypeOK, SessionTypeOK
  <2> QED
    BY <1>2, <2>3, <2>4 DEF TypeOK
<1>10. CASE OnDelta(c)
  <2>1. CASE f.seq <= lastAppliedSeq[c]
    <3>1. UNCHANGED <<flows, at, up, cursorVars, based>>
      BY <1>6, <1>10, <2>1 DEF OnDelta
    <3> QED
      BY <1>2, <1>4, <1>5, <3>1 DEF TypeOK, SessionTypeOK, StoreTypeOK, cursorVars
  <2>2. CASE ~(f.seq <= lastAppliedSeq[c])
    <3>1. /\ NoteSeq(c, f.seq)
          /\ flows' = [flows EXCEPT ![c] = ApplyDelta(@, DeltaParts(f.idx))]
          /\ at' = [at EXCEPT ![c] = f.idx]
          /\ lastAppliedSeq' = [lastAppliedSeq EXCEPT ![c] = f.seq]
          /\ based' = based
      BY <1>6, <1>10, <2>2 DEF OnDelta
    <3>2. ApplyDelta(flows[c], DeltaParts(f.idx)) \in World
      <4>1. f.idx >= 2
        BY <1>6, <1>10 DEF OnDelta, Receive
      <4>2. flows[c] \in World
        BY DEF TypeOK, StoreTypeOK
      <4> QED
        BY <1>6, <1>7, <4>1, <4>2, DeltaLeads
    <3>3. /\ needsResync' \in [Client -> BOOLEAN] /\ up' \in [Client -> Nat]
          /\ lastSeq' \in [Client -> Nat \cup {-1}]
      BY <1>6, <3>1, NoteSeqDoes
    <3>4. StoreTypeOK'
      <4>1. /\ flows \in [Client -> World] /\ at \in [Client -> Nat]
            /\ lastAppliedSeq \in [Client -> Nat \cup {-1}]
            /\ based \in [Client -> BOOLEAN]
        BY DEF TypeOK, StoreTypeOK
      <4>2. flows' \in [Client -> World]
        BY <3>1, <3>2, <4>1
      <4>3. /\ lastAppliedSeq' \in [Client -> Nat \cup {-1}]
            /\ at' \in [Client -> Nat] /\ based' \in [Client -> BOOLEAN]
        BY <1>6, <3>1, <4>1
      <4> QED
        BY <1>5, <3>3, <4>2, <4>3 DEF StoreTypeOK
    <3> QED
      BY <1>2, <1>4, <3>3, <3>4 DEF TypeOK
  <2> QED
    BY <2>1, <2>2
<1>11. CASE OnHeartbeat(c)
  <2>1. NoteSeq(c, f.seq) /\ UNCHANGED <<lastAppliedSeq, mirrorVars>>
    BY <1>6, <1>11 DEF OnHeartbeat
  <2>2. /\ needsResync' \in [Client -> BOOLEAN] /\ up' \in [Client -> Nat]
        /\ lastSeq' \in [Client -> Nat \cup {-1}]
    BY <1>6, <2>1, NoteSeqDoes
  <2>3. StoreTypeOK'
    BY <2>1, <2>2 DEF TypeOK, StoreTypeOK, mirrorVars
  <2> QED
    BY <1>2, <1>4, <2>2, <2>3 DEF TypeOK
<1> QED
  BY <1>8, <1>9, <1>10, <1>11 DEF Store

(* A snapshot gives a trusted client the world it names, a delta takes it  *)
(* from its world to the next, a heartbeat leaves it where it is.          *)
LEMMA StoreStepInv ==
  ASSUME TypeOK, PipelineOrdered, NEW c \in Client, ClientInv(c), Store(c)
  PROVE  ClientInv(c)'
<1> DEFINE w == wire[c]
           f == wire[c][1]
<1>1. /\ w # <<>> /\ wire' = [wire EXCEPT ![c] = Tail(@)]
      /\ UNCHANGED <<stage, seq, lastGen, captured, watch>>
  BY DEF Store, OnHello, OnSnapshot, OnDelta, OnHeartbeat, Receive,
         sessionVars, pipeVars
<1>2. /\ Head(w) = f /\ f.seq \in Nat /\ f.idx \in Nat
      /\ Len(w) \in Nat /\ Len(w) >= 1 /\ f.seq + Len(w) = seq[c]
      /\ f.type # "hello" => f.idx >= 1
      /\ f.type = "delta" => f.idx >= 2
      /\ f.type = "hello" => ~based[c]
      /\ f.idx <= Len(captured)
  BY <1>1, HeadFrame
<1>3. wire'[c] = Tail(w)
  BY <1>1 DEF TypeOK, SessionTypeOK
<1>4. /\ c \in DOMAIN at /\ c \in DOMAIN based /\ c \in DOMAIN flows
      /\ c \in DOMAIN lastSeq /\ c \in DOMAIN lastAppliedSeq
      /\ c \in DOMAIN needsResync
      /\ lastSeq[c] \in Int /\ lastAppliedSeq[c] \in Int /\ seq[c] \in Nat
      /\ at[c] \in Nat /\ captured \in Seq(World)
  BY DEF TypeOK, PipeTypeOK, SessionTypeOK, StoreTypeOK
<1>5. ASSUME at'[c] \in {at[c], f.idx}, based'[c] => based[c] \/ f.type # "hello"
      PROVE  /\ SessionInv(c)' /\ WireInv(c)'
             /\ Len(wire'[c]) = Len(w) - 1
             /\ f.type # "hello" => StartsFrom(wire'[c], f.idx)
             /\ wire'[c] = <<>> /\ stage[c] = "live" => f.idx = lastGen[c]
  BY <1>1, <1>3, <1>5, TakenInv
<1>6. based[c] =>
        /\ 0 <= lastAppliedSeq[c] /\ lastAppliedSeq[c] <= lastSeq[c]
        /\ lastSeq[c] + 1 + Len(w) <= seq[c]
        /\ Trusted(c) /\ lastSeq[c] + 1 + Len(w) = seq[c] => StartsFrom(w, at[c])
  BY DEF ClientInv, CursorInv, NoneMissing
<1>7. stage' = stage /\ seq' = seq /\ lastGen' = lastGen /\ captured' = captured
  BY <1>1
<1> HIDE DEF w, f
<1>8. CASE OnHello(c)
  <2>1. /\ f.type = "hello" /\ at' = at /\ based' = based
    BY <1>2, <1>8 DEF OnHello, Receive, mirrorVars, w, f
  <2>2. SessionInv(c)' /\ WireInv(c)'
    BY <1>2, <1>5, <2>1
  <2>3. ~based'[c]
    BY <1>2, <2>1
  <2>4. CursorInv(c)' /\ MirrorInv(c)'
    BY <2>3 DEF CursorInv, MirrorInv, Trusted
  <2> QED
    BY <2>2, <2>4 DEF ClientInv
<1>9. CASE OnSnapshot(c)
  <2>1. /\ f.type = "snapshot"
        /\ flows'[c] = captured[f.idx] /\ lastAppliedSeq'[c] = f.seq
        /\ lastSeq'[c] = f.seq /\ at'[c] = f.idx
        /\ ~needsResync'[c] /\ based'[c]
    BY <1>2, <1>4, <1>9 DEF OnSnapshot, Receive, w
  <2>2. /\ SessionInv(c)' /\ WireInv(c)' /\ Len(wire'[c]) = Len(w) - 1
        /\ StartsFrom(wire'[c], f.idx)
        /\ wire'[c] = <<>> /\ stage[c] = "live" => f.idx = lastGen[c]
    BY <1>5, <2>1
  <2>3. CursorInv(c)'
    <3>1. /\ 0 <= f.seq /\ f.seq <= f.seq
          /\ f.seq + 1 + Len(wire'[c]) <= seq[c]
      BY <1>2, <2>2
    <3> QED
      BY <1>7, <2>1, <2>2, <3>1 DEF CursorInv
  <2>4. MirrorInv(c)'
    BY <1>2, <1>7, <2>1 DEF MirrorInv
  <2> QED
    BY <2>2, <2>3, <2>4 DEF ClientInv
<1>10. CASE OnDelta(c)
  <2>1. f.type = "delta" /\ based' = based
    BY <1>2, <1>10 DEF OnDelta, Receive, w
  <2>2. CASE f.seq <= lastAppliedSeq[c]
    <3>1. UNCHANGED <<flows, at, cursorVars>>
      BY <1>2, <1>10, <2>2 DEF OnDelta, w
    <3>2. ~based[c]
      BY <1>2, <1>4, <1>6, <2>2
    <3>3. CursorInv(c)' /\ MirrorInv(c)'
      BY <2>1, <3>2 DEF CursorInv, MirrorInv, Trusted
    <3> QED
      BY <1>5, <2>1, <3>1, <3>3 DEF ClientInv
  <2>3. CASE ~(f.seq <= lastAppliedSeq[c])
    <3>1. /\ NoteSeq(c, f.seq)
          /\ flows'[c] = ApplyDelta(flows[c], DeltaParts(f.idx))
          /\ at'[c] = f.idx /\ lastAppliedSeq'[c] = f.seq
      BY <1>2, <1>4, <1>10, <2>3 DEF OnDelta, w
    <3>2. /\ SessionInv(c)' /\ WireInv(c)' /\ Len(wire'[c]) = Len(w) - 1
          /\ StartsFrom(wire'[c], f.idx)
          /\ wire'[c] = <<>> /\ stage[c] = "live" => f.idx = lastGen[c]
      BY <1>5, <2>1, <3>1
    <3>3. /\ f.seq > lastSeq[c] => lastSeq'[c] = f.seq
          /\ 0 <= lastSeq[c] /\ ~needsResync'[c] =>
               ~needsResync[c] /\ f.seq <= lastSeq[c] + 1
      BY <1>2, <3>1, NoteSeqDoes
    <3>4. based[c] => 0 <= lastSeq[c] /\ f.seq > lastSeq[c]
      BY <1>2, <1>4, <1>6
    <3>5. CursorInv(c)'
      <4>1. f.seq + 1 + Len(wire'[c]) <= seq[c]
        BY <1>2, <3>2
      <4> QED
        BY <1>2, <1>7, <2>1, <3>1, <3>2, <3>3, <3>4, <4>1 DEF CursorInv
    <3>6. MirrorInv(c)'
      <4> SUFFICES ASSUME based[c], ~needsResync'[c]
                   PROVE  flows'[c] = captured[f.idx]
        BY <1>2, <1>7, <2>1, <3>1 DEF MirrorInv, Trusted
      <4>1. ~needsResync[c] /\ f.seq = lastSeq[c] + 1
        BY <1>2, <1>4, <3>3, <3>4
      <4>2. StartsFrom(w, at[c])
        BY <1>2, <1>4, <1>6, <4>1 DEF Trusted
      <4>3. f.idx = at[c] + 1
        BY <1>1, <2>1, <4>2 DEF StartsFrom, w, f
      <4>4. flows[c] = captured[f.idx - 1]
        <5>1. flows[c] = captured[at[c]]
          BY <4>1 DEF ClientInv, MirrorInv, Trusted
        <5> QED
          BY <1>4, <4>3, <5>1
      <4>5. 2 <= f.idx
        BY <1>2, <2>1
      <4> QED
        BY <1>2, <1>4, <3>1, <4>4, <4>5, DeltaLeads
    <3> QED
      BY <3>2, <3>5, <3>6 DEF ClientInv
  <2> QED
    BY <2>2, <2>3
<1>11. CASE OnHeartbeat(c)
  <2>1. /\ f.type = "heartbeat" /\ NoteSeq(c, f.seq)
        /\ at' = at /\ based' = based /\ flows' = flows
        /\ lastAppliedSeq' = lastAppliedSeq
    BY <1>2, <1>11 DEF OnHeartbeat, Receive, mirrorVars, w
  <2>2. /\ SessionInv(c)' /\ WireInv(c)' /\ Len(wire'[c]) = Len(w) - 1
        /\ StartsFrom(wire'[c], f.idx)
        /\ wire'[c] = <<>> /\ stage[c] = "live" => f.idx = lastGen[c]
    BY <1>5, <2>1
  <2>3. /\ f.seq > lastSeq[c] => lastSeq'[c] = f.seq
        /\ 0 <= lastSeq[c] /\ ~needsResync'[c] =>
             ~needsResync[c] /\ f.seq <= lastSeq[c] + 1
    BY <1>2, <2>1, NoteSeqDoes
  <2>4. based[c] => 0 <= lastSeq[c] /\ f.seq > lastSeq[c]
    BY <1>2, <1>4, <1>6
  <2>5. ASSUME based[c], ~needsResync'[c]
        PROVE  ~needsResync[c] /\ f.idx = at[c]
    <3>1. ~needsResync[c] /\ f.seq = lastSeq[c] + 1
      BY <1>2, <1>4, <2>3, <2>4, <2>5
    <3>2. StartsFrom(w, at[c])
      BY <1>2, <1>4, <1>6, <2>5, <3>1 DEF Trusted
    <3> QED
      BY <1>1, <2>1, <3>1, <3>2 DEF StartsFrom, w, f
  <2>6. CursorInv(c)'
    <3>1. f.seq + 1 + Len(wire'[c]) <= seq[c]
      BY <1>2, <2>2
    <3>2. based[c] => 0 <= lastAppliedSeq[c] /\ lastAppliedSeq[c] <= f.seq
      BY <1>2, <1>4, <1>6, <2>4
    <3> QED
      BY <1>7, <2>1, <2>2, <2>3, <2>4, <2>5, <3>1, <3>2 DEF CursorInv, Trusted
  <2>7. MirrorInv(c)'
    BY <1>7, <2>1, <2>5 DEF ClientInv, MirrorInv, Trusted
  <2> QED
    BY <2>2, <2>6, <2>7 DEF ClientInv
<1> QED
  BY <1>8, <1>9, <1>10, <1>11 DEF Store
-----------------------------------------------------------------------------
(* Connections that come and go                                            *)

(* Connecting, losing a frame, breaking off, attaching and detaching keep  *)
(* the types.                                                              *)
LEMMA LifecycleStepType ==
  ASSUME TypeOK, NEW c \in Client, Lifecycle(c)
  PROVE  TypeOK'
<1> USE FeedAssumption
<1>1. PipeTypeOK'
  <2>1. UNCHANGED pipeVars
    BY DEF Lifecycle, Connect, SkipFrame, Break, DiscardTail, Attach, Detach
  <2> QED
    BY <2>1 DEF TypeOK, PipeTypeOK, pipeVars
<1>2. BoundsOK'
  BY DEF Lifecycle, Connect, SkipFrame, Break, DiscardTail, Attach, Detach,
         TypeOK, BoundsOK, Disrupt, envVars
<1>3. SessionTypeOK'
  <2> USE DEF TypeOK, SessionTypeOK, sessionVars
  <2>1. CASE Connect(c)
    BY <2>1 DEF Connect
  <2>2. CASE SkipFrame(c)
    <3>1. Tail(wire[c]) \in Seq(Frame)
      BY <2>2, TailAt DEF SkipFrame
    <3> QED
      BY <2>2, <3>1 DEF SkipFrame
  <2>3. CASE Break(c)
    BY <2>3 DEF Break
  <2>4. CASE DiscardTail(c)
    BY <2>4 DEF DiscardTail
  <2>5. CASE Attach(c)
    BY <2>5 DEF Attach
  <2>6. CASE Detach(c)
    BY <2>6 DEF Detach
  <2> QED
    BY <2>1, <2>2, <2>3, <2>4, <2>5, <2>6 DEF Lifecycle
<1>4. StoreTypeOK'
  <2> USE DEF TypeOK, StoreTypeOK, cursorVars, mirrorVars
  <2>1. CASE Connect(c)
    BY <2>1 DEF Connect
  <2>2. CASE SkipFrame(c)
    BY <2>2 DEF SkipFrame
  <2>3. CASE Break(c)
    BY <2>3 DEF Break
  <2>4. CASE DiscardTail(c)
    BY <2>4 DEF DiscardTail
  <2>5. CASE Attach(c)
    <3>1. NoFlows \in World
      BY DEF NoFlows, World
    <3> QED
      BY <2>5, <3>1, SMTT(30) DEF Attach
  <2>6. CASE Detach(c)
    BY <2>6 DEF Detach
  <2> QED
    BY <2>1, <2>2, <2>3, <2>4, <2>5, <2>6 DEF Lifecycle
<1> QED
  BY <1>1, <1>2, <1>3, <1>4 DEF TypeOK

(* A session that ends, with what was in flight delivered or not.          *)
CutOff(c) ==
  /\ stage'[c] = "down"
  /\ wire'[c] \in {wire[c], <<>>}
  /\ seq'[c] = seq[c] /\ lastGen'[c] = lastGen[c]
  /\ lastAppliedSeq'[c] = lastAppliedSeq[c] /\ lastSeq'[c] = lastSeq[c]
  /\ needsResync'[c] = needsResync[c]
  /\ flows'[c] = flows[c] /\ at'[c] = at[c] /\ based'[c] = based[c]

(* Ending a session breaks nothing that is in flight or shown.             *)
LEMMA CutOffInv ==
  ASSUME TypeOK, PipelineOrdered, NEW c \in Client, ClientInv(c), CutOff(c), Onward
  PROVE  ClientInv(c)'
<1> USE DEF CutOff
<1>1. /\ lastGen[c] \in Nat /\ at[c] \in Nat /\ watch \in 1..Len(captured)
      /\ lastSeq[c] \in Int /\ seq[c] \in Int /\ Len(wire[c]) \in Nat
  BY DEF TypeOK, SessionTypeOK, StoreTypeOK, PipelineOrdered
<1>2. SessionInv(c)'
  BY <1>1 DEF SessionInv, ClientInv, Onward
<1>3. WireInv(c)'
  <2>1. CASE wire'[c] = wire[c]
    BY <2>1 DEF WireInv, ClientInv
  <2>2. CASE wire'[c] = <<>>
    BY <2>2 DEF WireInv, WireOK
  <2> QED
    BY <2>1, <2>2
<1>4. CursorInv(c)'
  <2>1. CASE wire'[c] = wire[c]
    BY <2>1 DEF CursorInv, ClientInv, Trusted, NoneMissing
  <2>2. CASE wire'[c] = <<>>
    <3>1. StartsFrom(wire'[c], at'[c])
      BY <2>2 DEF StartsFrom
    <3>2. lastSeq[c] + 1 + Len(wire[c]) <= seq[c] => lastSeq[c] + 1 + 0 <= seq[c]
      BY <1>1
    <3>3. Len(wire'[c]) = 0
      BY <2>2
    <3> QED
      BY <3>1, <3>2, <3>3 DEF CursorInv, ClientInv
  <2> QED
    BY <2>1, <2>2
<1>5. MirrorInv(c)'
  <2>1. Trusted(c) => at[c] \in 1..Len(captured)
    BY <1>1 DEF MirrorInv, ClientInv, SessionInv
  <2> QED
    BY <2>1 DEF MirrorInv, ClientInv, Trusted, Onward
<1> QED
  BY <1>2, <1>3, <1>4, <1>5 DEF ClientInv

(* A lifecycle step keeps the client's invariant.                          *)
LEMMA LifecycleStepInv ==
  ASSUME TypeOK, PipelineOrdered, NEW c \in Client, ClientInv(c), Lifecycle(c)
  PROVE  ClientInv(c)'
<1>1. /\ watch' = watch /\ captured' = captured /\ watch \in Nat
      /\ lastGen[c] \in Nat /\ at[c] \in Nat /\ Len(wire[c]) \in Nat
      /\ lastSeq[c] \in Int /\ seq[c] \in Int
  BY DEF Lifecycle, Connect, SkipFrame, Break, DiscardTail, Attach, Detach, pipeVars,
         TypeOK, PipeTypeOK, SessionTypeOK, StoreTypeOK
<1>2. Onward
  BY <1>1 DEF Onward
<1>3. /\ c \in DOMAIN stage /\ c \in DOMAIN wire /\ c \in DOMAIN based
      /\ c \in DOMAIN seq /\ c \in DOMAIN lastGen
  BY DEF TypeOK, SessionTypeOK, StoreTypeOK
<1>4. lastGen[c] <= watch /\ at[c] <= watch
  BY DEF ClientInv, SessionInv
<1>5. ASSUME wire'[c] = <<>>, ~based'[c]
      PROVE  WireInv(c)' /\ CursorInv(c)' /\ MirrorInv(c)'
  BY <1>5 DEF WireInv, WireOK, CursorInv, MirrorInv, Trusted
<1>6. CASE Connect(c)
  <2>1. /\ stage'[c] = "hello" /\ wire'[c] = <<>> /\ lastGen'[c] = 0
        /\ ~based'[c] /\ at'[c] = at[c]
    BY <1>3, <1>6 DEF Connect
  <2>2. SessionInv(c)'
    BY <1>1, <1>4, <2>1 DEF SessionInv
  <2> QED
    BY <1>5, <2>1, <2>2 DEF ClientInv
<1>7. CASE SkipFrame(c)
  <2>1. /\ wire[c] # <<>> /\ wire'[c] = Tail(wire[c])
        /\ UNCHANGED <<stage, seq, lastGen, captured, watch, at, based, flows,
                       lastSeq, lastAppliedSeq, needsResync>>
    BY <1>3, <1>7 DEF SkipFrame, pipeVars, sessionVars, cursorVars, mirrorVars
  <2>2. SessionInv(c)' /\ WireInv(c)' /\ Len(wire'[c]) = Len(wire[c]) - 1
    BY <2>1, TakenInv
  <2>3. CursorInv(c)'
    <3>1. lastSeq[c] + 1 + Len(wire[c]) <= seq[c] =>
            /\ lastSeq[c] + 1 + (Len(wire[c]) - 1) <= seq[c]
            /\ lastSeq[c] + 1 + (Len(wire[c]) - 1) # seq[c]
      BY <1>1
    <3>2. NoneMissing(c)' = (lastSeq[c] + 1 + (Len(wire[c]) - 1) = seq[c])
      BY <2>1, <2>2 DEF NoneMissing
    <3> QED
      BY <2>1, <2>2, <3>1, <3>2 DEF ClientInv, CursorInv
  <2>4. MirrorInv(c)'
    BY <2>1 DEF ClientInv, MirrorInv, Trusted
  <2> QED
    BY <2>2, <2>3, <2>4 DEF ClientInv
<1>8. CASE Break(c) \/ DiscardTail(c) \/ Detach(c)
  <2>1. CutOff(c)
    BY <1>3, <1>8 DEF CutOff, Break, DiscardTail, Detach,
                      sessionVars, cursorVars, mirrorVars
  <2> QED
    BY <1>2, <2>1, CutOffInv
<1>9. CASE Attach(c)
  <2>1. /\ stage'[c] = "down" /\ wire'[c] = <<>> /\ lastGen'[c] = lastGen[c]
        /\ ~based'[c] /\ at'[c] = at[c]
    BY <1>3, <1>9 DEF Attach
  <2>2. SessionInv(c)'
    BY <1>1, <1>4, <2>1 DEF SessionInv
  <2> QED
    BY <1>5, <2>1, <2>2 DEF ClientInv
<1> QED
  BY <1>6, <1>7, <1>8, <1>9 DEF Lifecycle

(* A client's own steps leave the other clients alone.                     *)
LEMMA OthersUntouched ==
  ASSUME TypeOK, NEW c \in Client, ClientStep(c), NEW d \in Client, d # c,
         PipelineOrdered, ClientInv(c)
  PROVE  Untouched(d)
<1>1. CASE Session(c)
  BY <1>1 DEF Session, SendHello, SendSnapshot, SendHeartbeat, SendChange,
              AnswerResync, Send, Untouched, cursorVars, mirrorVars,
              TypeOK, SessionTypeOK
<1>2. CASE Lifecycle(c)
  BY <1>2 DEF Lifecycle, Connect, SkipFrame, Break, DiscardTail, Attach, Detach,
              Untouched, sessionVars, cursorVars, mirrorVars,
              TypeOK, SessionTypeOK, StoreTypeOK
<1>3. CASE Store(c)
  <2>1. /\ wire[c] # <<>> /\ wire' = [wire EXCEPT ![c] = Tail(@)]
        /\ UNCHANGED sessionVars
    BY <1>3 DEF Store, OnHello, OnSnapshot, OnDelta, OnHeartbeat, Receive
  <2>2. /\ wire'[d] = wire[d] /\ stage'[d] = stage[d] /\ seq'[d] = seq[d]
        /\ lastGen'[d] = lastGen[d]
    BY <2>1 DEF sessionVars, TypeOK, SessionTypeOK
  <2>3. Head(wire[c]).seq \in Nat
    BY <2>1, HeadFrame
  <2>4. ASSUME NoteSeq(c, Head(wire[c]).seq)
        PROVE  needsResync'[d] = needsResync[d] /\ lastSeq'[d] = lastSeq[d]
    BY <2>3, <2>4, NoteSeqDoes
  <2>5. /\ lastAppliedSeq'[d] = lastAppliedSeq[d] /\ lastSeq'[d] = lastSeq[d]
        /\ needsResync'[d] = needsResync[d]
        /\ flows'[d] = flows[d] /\ at'[d] = at[d] /\ based'[d] = based[d]
    <3> USE DEF cursorVars, mirrorVars, TypeOK, StoreTypeOK
    <3>1. CASE OnHello(c)
      BY <3>1 DEF OnHello
    <3>2. CASE OnSnapshot(c)
      BY <3>2 DEF OnSnapshot
    <3>3. CASE OnDelta(c)
      BY <2>4, <3>3 DEF OnDelta
    <3>4. CASE OnHeartbeat(c)
      BY <2>4, <3>4 DEF OnHeartbeat
    <3> QED
      BY <1>3, <3>1, <3>2, <3>3, <3>4 DEF Store
  <2> QED
    BY <2>2, <2>5 DEF Untouched
<1> QED
  BY <1>1, <1>2, <1>3 DEF ClientStep
-----------------------------------------------------------------------------
(* The inductive invariant                                                 *)

(* The pipeline's steps only add worlds and only move the watch forward.   *)
LEMMA PipeOnward ==
  ASSUME TypeOK, TypeOK', PipelineOrdered, PipeStep \/ Restart
  PROVE  Onward
<1>1. /\ captured \in Seq(World) /\ watch \in Nat /\ held \in Nat /\ watch' \in Nat
      /\ watch <= Len(captured)
  BY DEF TypeOK, PipeTypeOK, PipelineOrdered
<1>2. captured' = captured \/ \E w \in World : captured' = Append(captured, w)
  <2>1. NoFlows \in World
    BY DEF NoFlows, World
  <2> QED
    BY <2>1 DEF PipeStep, Poll, NotifyOne, Pop, Publish, FindEmpty, Park, Wake, Restart
<1>3. \A i \in 1..Len(captured) : captured'[i] = captured[i]
  BY <1>1, <1>2
<1>4. watch <= watch'
  <2>1. CASE Publish
    <3>1. held # 0 /\ watch' = held
      BY <2>1 DEF Publish
    <3> QED
      BY <1>1, <3>1 DEF PipelineOrdered
  <2>2. CASE Restart
    BY <1>1, <2>2 DEF Restart
  <2>3. CASE Poll \/ NotifyOne \/ Pop \/ FindEmpty \/ Park \/ Wake
    BY <1>1, <2>3 DEF Poll, NotifyOne, Pop, FindEmpty, Park, Wake
  <2> QED
    BY <2>1, <2>2, <2>3 DEF PipeStep
<1> QED
  BY <1>1, <1>3, <1>4 DEF Onward

(* A restart of the agent keeps the types.                                 *)
LEMMA RestartType ==
  ASSUME TypeOK, Restart
  PROVE  TypeOK'
<1> USE FeedAssumption
<1>1. PipeTypeOK'
  BY RestartPipeInv DEF TypeOK
<1>2. SessionTypeOK'
  BY DEF TypeOK, SessionTypeOK, Restart
<1>3. StoreTypeOK'
  BY DEF TypeOK, StoreTypeOK, Restart, cursorVars, mirrorVars
<1>4. BoundsOK'
  BY DEF TypeOK, BoundsOK, Restart, Disrupt
<1> QED
  BY <1>1, <1>2, <1>3, <1>4 DEF TypeOK

(* The invariant holds when the agent starts.                              *)
LEMMA InitIInv == Init => IInv
<1> SUFFICES ASSUME Init PROVE IInv
  OBVIOUS
<1>1. TypeOK
  BY InitType
<1>2. NoLostWakeup /\ PipelineOrdered /\ NothingVanishes /\ IdleHolds
  BY DEF Init, NoLostWakeup, PipelineOrdered, NothingVanishes, IdleHolds
<1>3. ASSUME NEW c \in Client PROVE ClientInv(c)
  BY DEF Init, ClientInv, SessionInv, WireInv, WireOK, CursorInv, MirrorInv, Trusted
<1> QED
  BY <1>1, <1>2, <1>3 DEF IInv

(* Every step of the feed keeps the invariant.                             *)
LEMMA StepIInv ==
  ASSUME IInv, [Next]_vars
  PROVE  IInv'
<1>1. /\ TypeOK /\ PipeTypeOK /\ PipeInv /\ PipelineOrdered
      /\ \A c \in Client : ClientInv(c)
      /\ RingCapacity \in Nat
  BY FeedAssumption DEF IInv, PipeInv, TypeOK
<1>2. CASE PipeStep
  <2>1. TypeOK'
    BY <1>1, <1>2, PipeStepType
  <2>2. PipeInv'
    BY <1>1, <1>2, PipeStepInv
  <2>3. Onward
    BY <1>1, <1>2, <2>1, PipeOnward
  <2>4. ASSUME NEW d \in Client PROVE ClientInv(d)'
    <3>1. Untouched(d)
      BY <1>2 DEF PipeStep, Poll, NotifyOne, Pop, Publish, FindEmpty, Park, Wake, Untouched,
                  sessionVars, cursorVars, mirrorVars
    <3> QED
      BY <1>1, <2>3, <3>1, UntouchedInv
  <2> QED
    BY <2>1, <2>2, <2>4 DEF IInv, PipeInv
<1>3. CASE Restart
  <2>1. TypeOK' /\ PipeInv'
    BY <1>1, <1>3, RestartType, RestartPipeInv
  <2>2. Onward
    BY <1>1, <1>3, <2>1, PipeOnward
  <2>3. ASSUME NEW d \in Client PROVE ClientInv(d)'
    <3>1. CutOff(d)
      BY <1>3 DEF Restart, CutOff, cursorVars, mirrorVars
    <3> QED
      BY <1>1, <2>2, <3>1, CutOffInv
  <2> QED
    BY <2>1, <2>3 DEF IInv, PipeInv
<1>4. ASSUME NEW c \in Client, ClientStep(c)
      PROVE  IInv'
  <2>1. TypeOK'
    BY <1>1, <1>4, SessionStepType, StoreStepType, LifecycleStepType DEF ClientStep
  <2>2. UNCHANGED pipeVars
    BY <1>4 DEF ClientStep, Session, SendHello, SendSnapshot, SendHeartbeat,
         SendChange, AnswerResync, Store, OnHello, OnSnapshot, OnDelta, OnHeartbeat,
         Lifecycle, Connect, SkipFrame, Break, DiscardTail, Attach, Detach
  <2>3. PipeInv'
    BY <1>1, <2>2 DEF PipeInv, pipeVars, NoLostWakeup, PipelineOrdered,
                      NothingVanishes, IdleHolds
  <2>4. ClientInv(c)'
    BY <1>1, <1>4, <2>1, SessionStepInv, StoreStepInv, LifecycleStepInv
       DEF ClientStep
  <2>5. ASSUME NEW d \in Client, d # c PROVE ClientInv(d)'
    <3>1. Onward
      BY <1>1, <2>2 DEF pipeVars, Onward, TypeOK, PipeTypeOK
    <3>2. Untouched(d)
      BY <1>1, <1>4, <2>5, OthersUntouched
    <3> QED
      BY <1>1, <3>1, <3>2, UntouchedInv
  <2> QED
    BY <2>1, <2>3, <2>4, <2>5 DEF IInv, PipeInv
<1>5. CASE UNCHANGED vars
  <2> USE <1>5 DEF vars, pipeVars, sessionVars, cursorVars, mirrorVars, envVars
  <2>1. TypeOK'
    BY <1>1 DEF TypeOK, PipeTypeOK, SessionTypeOK, StoreTypeOK, BoundsOK
  <2>2. PipeInv'
    BY <1>1 DEF PipeInv, NoLostWakeup, PipelineOrdered, NothingVanishes, IdleHolds
  <2>3. ASSUME NEW d \in Client PROVE ClientInv(d)'
    <3>1. Onward /\ Untouched(d)
      BY <1>1 DEF Onward, Untouched, TypeOK, PipeTypeOK
    <3> QED
      BY <1>1, <3>1, UntouchedInv
  <2> QED
    BY <2>1, <2>2, <2>3 DEF IInv, PipeInv
<1> QED
  BY <1>2, <1>3, <1>4, <1>5 DEF Next, Coordinator, PipeStep, ClientStep

(* The inductive invariant holds in every reachable state.                 *)
THEOREM Invariance == Spec => []IInv
<1>1. Init => IInv
  BY InitIInv
<1>2. IInv /\ [Next]_vars => IInv'
  BY StepIInv
<1> QED
  BY <1>1, <1>2, PTL DEF Spec

(* Every variable keeps its type, and the ring its capacity.               *)
THEOREM TypeCorrect == Spec => []TypeOK
<1>1. IInv => TypeOK
  BY DEF IInv
<1> QED
  BY <1>1, Invariance, PTL

(* The coordinator never sleeps through an update: run_coordinator's       *)
(* "a push that races the await is not lost", for every ring capacity.     *)
THEOREM WakeupNotLost == Spec => []NoLostWakeup
<1>1. IInv => NoLostWakeup
  BY DEF IInv
<1> QED
  BY <1>1, Invariance, PTL

(* Updates leave the ring in the order the capture engine made them.       *)
THEOREM Ordered == Spec => []PipelineOrdered
<1>1. IInv => PipelineOrdered
  BY DEF IInv
<1> QED
  BY <1>1, Invariance, PTL

(* Every update is published, superseded, on its way, or counted as        *)
(* dropped.                                                                *)
THEOREM AccountedFor == Spec => []NothingVanishes
<1>1. IInv => NothingVanishes
  BY DEF IInv
<1> QED
  BY <1>1, Invariance, PTL

(* The hand-off of run_coordinator as a whole: a ring that wakes its       *)
(* reader, keeps its order and loses nothing uncounted.                    *)
THEOREM HandOffHolds == Spec => []HandOff
<1>1. IInv => HandOff
  BY DEF IInv, HandOff
<1> QED
  BY <1>1, Invariance, PTL

(* A mirror that is trusted is a world the agent observed: the deltas of   *)
(* serve_client and the cursors of useNetscopeStore together never show a  *)
(* mixture, whatever frames are lost and whatever connection breaks.       *)
THEOREM MirrorFaithful == Spec => []FaithfulMirror
<1>1. IInv => FaithfulMirror
  BY DEF IInv, ClientInv, MirrorInv, FaithfulMirror
<1> QED
  BY <1>1, Invariance, PTL

-----------------------------------------------------------------------------
(* The refinement of Broadcast                                             *)

View == [c \in Client |-> IF Trusted(c) THEN flows[c] ELSE Unknown]

(* Frames never lead a client back to an older world.                      *)
LEMMA AtForward ==
  ASSUME TypeOK, PipelineOrdered, NEW c \in Client, ClientInv(c), ClientStep(c)
  PROVE  at'[c] >= at[c] /\ at'[c] \in Nat /\ DOMAIN at' = Client
<1>1. at \in [Client -> Nat] /\ at[c] \in Nat
  BY DEF TypeOK, StoreTypeOK
<1>2. ASSUME NEW type \in {"snapshot", "delta"}, Receive(c, type)
      PROVE  Head(wire[c]).idx \in Nat /\ Head(wire[c]).idx >= at[c]
  BY <1>2, HeadFrame DEF Receive
<1>3. CASE OnSnapshot(c)
  <2>1. Receive(c, "snapshot") /\ at' = [at EXCEPT ![c] = Head(wire[c]).idx]
    BY <1>3 DEF OnSnapshot
  <2> QED BY <1>1, <1>2, <2>1
<1>4. CASE OnDelta(c)
  <2>1. Receive(c, "delta") /\ (at' = at \/ at' = [at EXCEPT ![c] = Head(wire[c]).idx])
    BY <1>4 DEF OnDelta
  <2> QED BY <1>1, <1>2, <2>1
<1>5. CASE OnHello(c) \/ OnHeartbeat(c) \/ Session(c) \/ Lifecycle(c)
  <2>1. at' = at
    BY <1>5 DEF OnHello, OnHeartbeat, Session, SendHello, SendSnapshot, SendHeartbeat, SendChange,
       AnswerResync, Lifecycle, Connect, SkipFrame, Break, DiscardTail, Attach, Detach, mirrorVars
  <2> QED BY <1>1, <2>1
<1> QED BY <1>3, <1>4, <1>5 DEF ClientStep, Store

(* A step of one client lets it show a world that was observed, or stop    *)
(* trusting what it shows.                                                 *)
LEMMA ClientShows ==
  ASSUME TypeOK, TypeOK', PipelineOrdered, PipelineOrdered', NEW c \in Client, ClientStep(c),
         ClientInv(c), ClientInv(c)', captured' = captured
  PROVE  Abstract!Show(c) \/ Abstract!Distrust(c)
<1>1. \A d \in Client : d # c => Untouched(d)
  BY OthersUntouched
<1>2. at'[c] >= at[c] /\ at'[c] \in Nat /\ at \in [Client -> Nat] /\ at' \in [Client -> Nat]
  BY AtForward DEF TypeOK, StoreTypeOK
<1>3. at' = [at EXCEPT ![c] = at'[c]]
  BY <1>1, <1>2 DEF Untouched
<1>4. \A d \in Client : d # c => View'[d] = View[d]
  BY <1>1 DEF Untouched, View, Trusted
<1>5. View' = [View EXCEPT ![c] = View'[c]]
  BY <1>4 DEF View
<1>6. at'[c] <= Len(captured) /\ Len(captured) \in Nat
  <2>1. at'[c] <= watch' /\ watch' \in 1..Len(captured') /\ captured' \in Seq(World)
    BY DEF ClientInv, SessionInv, PipelineOrdered, TypeOK, PipeTypeOK
  <2> QED BY <1>2, <2>1
<1>7. CASE Trusted(c)'
  <2>1. at'[c] > 0 /\ View'[c] = captured[at'[c]]
    BY <1>7 DEF ClientInv, MirrorInv, View
  <2>2. at'[c] \in 1..Len(captured)
    BY <1>2, <1>6, <2>1
  <2>3. View' = [View EXCEPT ![c] = captured[at'[c]]]
    BY <1>5, <2>1
  <2> QED BY <1>2, <1>3, <2>2, <2>3 DEF Abstract!Show, View
<1>8. CASE ~Trusted(c)'
  <2>1. View'[c] = Unknown
    BY <1>8 DEF View
  <2>2. View' = [View EXCEPT ![c] = Unknown]
    BY <1>5, <2>1
  <2>3. at'[c] \in at[c]..Len(captured)
    BY <1>2, <1>6
  <2> QED BY <1>3, <2>2, <2>3 DEF Abstract!Distrust, View
<1> QED BY <1>7, <1>8

(* Each step of the feed is a step of Broadcast, or changes nothing there. *)
LEMMA StepBroadcast ==
  ASSUME IInv, IInv', [Next]_vars
  PROVE  [Abstract!Next]_(Abstract!vars)
<1>1. TypeOK /\ TypeOK' /\ PipelineOrdered /\ PipelineOrdered'
      /\ \A c \in Client : ClientInv(c) /\ ClientInv(c)'
  BY DEF IInv
<1>2. CASE PipeStep \/ Restart
  <2>1. UNCHANGED <<mirrorVars, cursorVars>>
    BY <1>2 DEF PipeStep, Poll, NotifyOne, Pop, Publish, FindEmpty, Park, Wake, Restart
  <2>2. View' = View /\ at' = at
    BY <2>1 DEF View, Trusted, mirrorVars, cursorVars
  <2>3. captured' = captured \/ \E w \in World : captured' = Append(captured, w)
    <3>1. NoFlows \in World
      BY DEF World, NoFlows
    <3> QED BY <1>2, <3>1 DEF PipeStep, Poll, NotifyOne, Pop, Publish, FindEmpty, Park, Wake, Restart
  <2> QED BY <2>2, <2>3 DEF Abstract!Next, Abstract!Observe, Abstract!vars, View
<1>3. ASSUME NEW c \in Client, ClientStep(c) PROVE Abstract!Next
  <2>1. captured' = captured
    BY <1>3 DEF ClientStep, Session, SendHello, SendSnapshot, SendHeartbeat,
         SendChange, AnswerResync, Store, OnHello, OnSnapshot, OnDelta, OnHeartbeat,
         Lifecycle, Connect, SkipFrame, Break, DiscardTail, Attach, Detach, pipeVars
  <2>2. Abstract!Show(c) \/ Abstract!Distrust(c)
    BY <1>1, <1>3, <2>1, ClientShows
  <2> QED BY <2>2 DEF Abstract!Next
<1>4. CASE UNCHANGED vars
  <2>1. View' = View /\ at' = at /\ captured' = captured
    BY <1>4 DEF vars, pipeVars, mirrorVars, cursorVars, View, Trusted
  <2> QED BY <2>1 DEF Abstract!vars, View
<1> QED
  BY <1>2, <1>3, <1>4 DEF Next, Coordinator, PipeStep, ClientStep

(* The feed implements Broadcast: whatever is dropped, coalesced, lost or  *)
(* broken off, each client's trusted view moves forward through the worlds *)
(* the agent observed.                                                     *)
THEOREM ImplementsBroadcast == Spec => Broadcasts
<1>1. Init => Abstract!Init
  <2> SUFFICES ASSUME Init PROVE Abstract!Init
    OBVIOUS
  <2>1. \A c \in Client : ~Trusted(c)
    BY DEF Init, Trusted
  <2> QED BY <2>1 DEF Init, Abstract!Init
<1>2. IInv /\ IInv' /\ [Next]_vars => [Abstract!Next]_(Abstract!vars)
  BY StepBroadcast
<1> QED BY <1>1, <1>2, Invariance, PTL DEF Spec, Broadcasts, Abstract!Spec

-----------------------------------------------------------------------------
(* No gap is announced unless a frame was lost                             *)

(* A session's frames begin with its hello and its snapshot.               *)
StartsFresh(w) ==
  /\ w # <<>> => w[1].type \in {"hello", "snapshot"}
  /\ Len(w) > 1 /\ w[1].type = "hello" => w[2].type = "snapshot"

SnapshotAhead(w) == w # <<>> /\ (w[1].type = "hello" => Len(w) > 1)

(* What keeps a client from seeing a gap: while it has the snapshot of a   *)
(* session, lastSeq is right behind the frames in flight; while it has not, *)
(* the snapshot comes before anything else whose seq is noted.             *)
GapFree(c) ==
  /\ ~needsResync[c]
  /\ based[c] /\ (wire[c] # <<>> \/ stage[c] # "down") => NoneMissing(c)
  /\ ~based[c] => StartsFresh(wire[c])
  /\ ~based[c] /\ stage[c] = "live" => SnapshotAhead(wire[c])

GapInv == losses = 0 => \A c \in Client : GapFree(c)

(* A client that a step leaves alone stays without a gap.                  *)
LEMMA UntouchedGapFree ==
  ASSUME NEW d \in Client, GapFree(d), Untouched(d)
  PROVE  GapFree(d)'
BY DEF GapFree, Untouched, NoneMissing, StartsFresh, SnapshotAhead

(* Nor does a session that ends make one: what was in flight is delivered  *)
(* whole or not at all, and no seq is noted before the next snapshot.      *)
LEMMA CutOffGapFree ==
  ASSUME NEW d \in Client, GapFree(d), CutOff(d)
  PROVE  GapFree(d)'
<1>1. CASE wire'[d] = wire[d]
  BY <1>1 DEF GapFree, CutOff, NoneMissing, StartsFresh, SnapshotAhead
<1>2. CASE wire'[d] = <<>>
  BY <1>2 DEF GapFree, CutOff, StartsFresh
<1> QED
  BY <1>1, <1>2 DEF CutOff

(* A frame sent joins the line of seqs; the first after the hello is the   *)
(* snapshot.                                                               *)
LEMMA SessionGapFree ==
  ASSUME TypeOK, NEW c \in Client, ClientInv(c), Session(c), GapFree(c)
  PROVE  GapFree(c)'
<1> DEFINE w == wire[c]
<1>1. /\ w \in Seq(Frame) /\ Len(w) \in Nat /\ (w = <<>> <=> Len(w) = 0)
      /\ seq[c] \in Nat /\ lastSeq[c] \in Int
  BY FrameFields DEF TypeOK, SessionTypeOK, StoreTypeOK
<1>2. /\ needsResync' = needsResync /\ based' = based /\ lastSeq' = lastSeq
      /\ stage[c] # "down" /\ stage'[c] \in {"snapshot", "live"}
      /\ stage[c] = "hello" => stage'[c] = "snapshot"
      /\ stage[c] # "hello" => stage'[c] = "live"
  BY DEF Session, SendHello, SendSnapshot, SendHeartbeat, SendChange, AnswerResync,
         cursorVars, mirrorVars, TypeOK, SessionTypeOK
<1>3. PICK type \in {"hello", "snapshot", "delta", "heartbeat"}, i \in Nat :
        /\ Send(c, type, i)
        /\ stage[c] = "hello" => type = "hello"
        /\ stage[c] = "snapshot" => type = "snapshot"
  <2>1. lastGen[c] \in Nat /\ watch \in Nat /\ 0 \in Nat
    BY DEF TypeOK, PipeTypeOK, SessionTypeOK
  <2>2. ChangeType(c) \in {"hello", "snapshot", "delta", "heartbeat"}
    BY DEF ChangeType
  <2>3. CASE SendHello(c)
    BY <2>1, <2>3, Zenon DEF SendHello
  <2>4. CASE SendSnapshot(c)
    BY <2>1, <2>4 DEF SendSnapshot
  <2>5. CASE SendHeartbeat(c)
    BY <2>1, <2>5 DEF SendHeartbeat
  <2>6. CASE SendChange(c)
    BY <2>1, <2>2, <2>6 DEF SendChange
  <2>7. CASE AnswerResync(c)
    BY <2>1, <2>7 DEF AnswerResync
  <2> QED BY <2>3, <2>4, <2>5, <2>6, <2>7 DEF Session
<1> DEFINE f == [type |-> type, seq |-> seq[c], idx |-> i]
<1>4. f \in Frame /\ f.type = type
  BY <1>1 DEF Frame
<1>5. wire'[c] = Append(w, f) /\ seq'[c] = seq[c] + 1
  BY <1>3 DEF Send, TypeOK, SessionTypeOK
<1> HIDE DEF f
<1> DEFINE v == Append(w, f)
<1>6. /\ Len(v) = Len(w) + 1 /\ v # <<>> /\ v[Len(w) + 1].type = type
      /\ \A k \in 1..Len(w) : v[k] = w[k]
  BY <1>1, <1>4, AppendAt
<1> HIDE DEF v
<1>7. ~needsResync'[c]
  BY <1>2 DEF GapFree
<1>8. ASSUME based'[c] PROVE NoneMissing(c)'
  <2>1. lastSeq[c] + 1 + Len(w) = seq[c]
    BY <1>2, <1>8 DEF GapFree, NoneMissing
  <2>2. lastSeq[c] + 1 + (Len(w) + 1) = seq[c] + 1
    <3> HIDE DEF w
    <3> QED BY <1>1, <2>1
  <2> QED BY <1>2, <1>5, <1>6, <2>2 DEF NoneMissing, v
<1>9. ASSUME ~based'[c]
      PROVE  StartsFresh(v) /\ (stage'[c] = "live" => SnapshotAhead(v))
  <2>1. /\ StartsFresh(w) /\ (stage[c] = "live" => SnapshotAhead(w))
    BY <1>2, <1>9 DEF GapFree
  <2>2. CASE w = <<>>
    <3>1. v[1].type = type /\ Len(v) = 1 /\ stage[c] # "live"
      BY <1>1, <1>6, <2>1, <2>2 DEF SnapshotAhead
    <3>2. stage[c] \in {"hello", "snapshot"}
      BY <1>2, <3>1 DEF TypeOK, SessionTypeOK
    <3>3. type \in {"hello", "snapshot"} /\ (type = "hello" => stage'[c] # "live")
      <4>1. stage[c] = "hello" => stage'[c] # "live"
        BY <1>2
      <4> QED BY <1>3, <3>2, <4>1
    <3>4. v[1].type \in {"hello", "snapshot"} /\ ~(Len(v) > 1)
      BY <3>1, <3>3
    <3>5. StartsFresh(v)
      BY <3>4, Zenon DEF StartsFresh
    <3>6. stage'[c] = "live" => v[1].type # "hello"
      BY <3>1, <3>3
    <3>7. v # <<>>
      BY <1>6
    <3>8. stage'[c] = "live" => SnapshotAhead(v)
      BY <3>6, <3>7, Zenon DEF SnapshotAhead
    <3> QED BY <3>5, <3>8
  <2>3. CASE w # <<>>
    <3>1. v[1] = w[1] /\ Len(w) >= 1 /\ Len(v) > 1
      BY <1>1, <1>6, <2>3
    <3>2. Len(w) > 1 => v[2] = w[2]
      BY <1>1, <1>6
    <3>3. Len(w) = 1 => v[2].type = type
      BY <1>6
    <3>4. ASSUME w[1].type = "hello", Len(w) = 1 PROVE type = "snapshot"
      <4>1. stage[c] # "live" /\ stage[c] # "hello"
        BY <2>1, <2>3, <3>4 DEF SnapshotAhead, ClientInv, SessionInv
      <4>2. stage[c] = "snapshot"
        BY <1>2, <4>1 DEF TypeOK, SessionTypeOK
      <4> QED BY <1>3, <4>2
    <3>5. v[1].type = "hello" => v[2].type = "snapshot"
      <4>1. CASE Len(w) = 1
        BY <3>1, <3>3, <3>4, <4>1
      <4>2. CASE Len(w) > 1
        BY <2>1, <3>1, <3>2, <4>2 DEF StartsFresh
      <4>3. Len(w) = 1 \/ Len(w) > 1
        <5>1. Len(w) \in Nat /\ Len(w) # 0
          BY <1>1, <2>3
        <5>2. \A n \in Nat : n # 0 => n = 1 \/ n > 1
          OBVIOUS
        <5> HIDE DEF w
        <5> QED BY <5>1, <5>2
      <4> QED BY <4>1, <4>2, <4>3
    <3>6. v[1].type \in {"hello", "snapshot"} /\ v # <<>>
      BY <1>6, <2>1, <2>3, <3>1 DEF StartsFresh
    <3> QED
      <4> HIDE DEF w
      <4> QED BY <3>1, <3>5, <3>6 DEF StartsFresh, SnapshotAhead
  <2> QED BY <2>2, <2>3
<1> QED
  BY <1>5, <1>7, <1>8, <1>9 DEF GapFree, v

(* What noting a seq that follows the last one does: no gap.               *)
LEMMA NoteNext ==
  ASSUME TypeOK, NEW c \in Client, NEW s \in Nat, NoteSeq(c, s),
         ~needsResync[c], s = lastSeq[c] + 1
  PROVE  ~needsResync'[c] /\ lastSeq'[c] = s
<1>1. needsResync \in [Client -> BOOLEAN] /\ lastSeq \in [Client -> Nat \cup {-1}]
  BY DEF TypeOK, StoreTypeOK
<1>2. lastSeq'[c] = s
  BY <1>1 DEF NoteSeq
<1>3. ~(s > lastSeq[c] + 1)
  BY <1>1
<1>4. ~needsResync'[c]
  BY <1>1, <1>3, Zenon DEF NoteSeq
<1> QED BY <1>2, <1>4

(* The store hears every seq in turn, and a snapshot before anything else. *)
LEMMA StoreGapFree ==
  ASSUME TypeOK, PipelineOrdered, NEW c \in Client, ClientInv(c), Store(c), GapFree(c)
  PROVE  GapFree(c)'
<1> DEFINE w == wire[c]
           f == wire[c][1]
<1>1. /\ w # <<>> /\ wire' = [wire EXCEPT ![c] = Tail(@)]
      /\ stage' = stage /\ seq' = seq
  BY DEF Store, OnHello, OnSnapshot, OnDelta, OnHeartbeat, Receive, sessionVars
<1>2. /\ Head(w) = f /\ f.seq \in Nat /\ Len(w) \in Nat /\ Len(w) >= 1
      /\ f.seq + Len(w) = seq[c] /\ (f.type = "hello" => ~based[c])
  BY <1>1, HeadFrame
<1>3. wire'[c] = Tail(w) /\ w \in Seq(Frame)
  BY <1>1 DEF TypeOK, SessionTypeOK
<1>4. /\ Len(Tail(w)) = Len(w) - 1 /\ (Tail(w) # <<>> <=> Len(w) > 1)
      /\ \A k \in 1..(Len(w) - 1) : Tail(w)[k] = w[k + 1]
  <2>1. /\ Tail(w) \in Seq(Frame) /\ Len(Tail(w)) = Len(w) - 1
        /\ \A k \in 1..(Len(w) - 1) : Tail(w)[k] = w[k + 1]
    BY <1>1, <1>3, TailAt
  <2>2. Tail(w) = <<>> <=> Len(Tail(w)) = 0
    BY <2>1, FrameFields
  <2>3. \A n \in Nat : n >= 1 => (n - 1 # 0 <=> n > 1)
    OBVIOUS
  <2>4. Len(Tail(w)) # 0 <=> Len(w) > 1
    <3> HIDE DEF w
    <3> QED BY <1>2, <2>1, <2>3
  <2> QED BY <2>1, <2>2, <2>4
<1>5. /\ c \in DOMAIN based /\ c \in DOMAIN lastSeq /\ c \in DOMAIN needsResync
      /\ lastSeq[c] \in Int /\ lastAppliedSeq[c] \in Int /\ seq[c] \in Nat
  BY DEF TypeOK, SessionTypeOK, StoreTypeOK
<1>6. ~needsResync[c] /\ (~based[c] => f.type \in {"hello", "snapshot"})
  BY <1>1 DEF GapFree, StartsFresh
<1>7. based[c] => f.seq = lastSeq[c] + 1 /\ lastAppliedSeq[c] <= lastSeq[c]
  <2>1. based[c] => lastSeq[c] + 1 + Len(w) = seq[c]
    BY <1>1 DEF GapFree, NoneMissing
  <2>2. based[c] => lastAppliedSeq[c] <= lastSeq[c]
    BY DEF ClientInv, CursorInv
  <2> HIDE DEF w, f
  <2> QED BY <1>2, <1>5, <2>1, <2>2
<1>8. ASSUME lastSeq'[c] = f.seq PROVE NoneMissing(c)'
  <2>1. f.seq + 1 + (Len(w) - 1) = seq[c]
    <3> HIDE DEF w, f
    <3> QED BY <1>2
  <2> QED BY <1>1, <1>3, <1>4, <1>8, <2>1 DEF NoneMissing
<1> HIDE DEF f
<1>9. CASE OnHello(c)
  <2>1. /\ f.type = "hello" /\ needsResync' = needsResync /\ based' = based
    BY <1>2, <1>9 DEF OnHello, Receive, mirrorVars, cursorVars
  <2>2. ~based[c] /\ ~based'[c]
    BY <1>2, <2>1
  <2>3. Len(w) > 1 => Tail(w)[1].type = "snapshot"
    <3>1. Len(w) > 1 => w[2].type = "snapshot"
      BY <2>1, <2>2 DEF GapFree, StartsFresh, f
    <3> QED BY <1>2, <1>4, <3>1
  <2>4. StartsFresh(Tail(w))
    BY <1>4, <2>3 DEF StartsFresh
  <2>5. stage[c] = "live" => SnapshotAhead(Tail(w))
    <3>1. stage[c] = "live" => Len(w) > 1
      BY <2>1, <2>2 DEF GapFree, SnapshotAhead, f
    <3> QED BY <1>4, <2>3, <3>1 DEF SnapshotAhead
  <2> QED BY <1>1, <1>3, <1>6, <2>1, <2>2, <2>4, <2>5 DEF GapFree
<1>10. CASE OnSnapshot(c)
  <2>1. ~needsResync'[c] /\ based'[c] /\ lastSeq'[c] = f.seq
    BY <1>2, <1>5, <1>10 DEF OnSnapshot
  <2> QED BY <1>8, <2>1 DEF GapFree
<1>11. ASSUME based[c], based' = based, NoteSeq(c, f.seq)
       PROVE  GapFree(c)'
  <2>1. ~needsResync'[c] /\ lastSeq'[c] = f.seq
    BY <1>2, <1>6, <1>7, <1>11, NoteNext
  <2> QED BY <1>8, <1>11, <2>1 DEF GapFree
<1>12. CASE OnDelta(c)
  <2>1. f.type = "delta" /\ based' = based
    BY <1>2, <1>12 DEF OnDelta, Receive
  <2>2. based[c]
    BY <1>6, <2>1
  <2>3. ~(f.seq <= lastAppliedSeq[c])
    BY <1>2, <1>5, <1>7, <2>2
  <2>4. NoteSeq(c, f.seq)
    BY <1>2, <1>12, <2>3 DEF OnDelta
  <2> QED BY <1>11, <2>1, <2>2, <2>4
<1>13. CASE OnHeartbeat(c)
  <2>1. f.type = "heartbeat" /\ based' = based /\ NoteSeq(c, f.seq)
    BY <1>2, <1>13 DEF OnHeartbeat, Receive, mirrorVars
  <2>2. based[c]
    BY <1>6, <2>1
  <2> QED BY <1>11, <2>1, <2>2
<1> QED
  BY <1>9, <1>10, <1>12, <1>13 DEF Store

(* A connection that opens or goes makes no gap; losing a frame is not     *)
(* considered here.                                                        *)
LEMMA LifecycleGapFree ==
  ASSUME TypeOK, NEW c \in Client, Lifecycle(c), ~SkipFrame(c), GapFree(c)
  PROVE  GapFree(c)'
<1>1. /\ c \in DOMAIN stage /\ c \in DOMAIN wire /\ c \in DOMAIN based
      /\ c \in DOMAIN needsResync
  BY DEF TypeOK, SessionTypeOK, StoreTypeOK
<1>2. CASE Connect(c) \/ Attach(c)
  <2>1. /\ wire'[c] = <<>> /\ ~based'[c] /\ stage'[c] # "live"
        /\ ~needsResync'[c]
    BY <1>1, <1>2 DEF Connect, Attach, GapFree, cursorVars
  <2> QED BY <2>1 DEF GapFree, StartsFresh
<1>3. CASE Break(c) \/ DiscardTail(c) \/ Detach(c)
  <2>1. CutOff(c)
    BY <1>1, <1>3 DEF CutOff, Break, DiscardTail, Detach,
                      sessionVars, cursorVars, mirrorVars
  <2> QED BY <2>1, CutOffGapFree
<1> QED BY <1>2, <1>3 DEF Lifecycle

(* Every step keeps the clients without a gap while no frame is lost.      *)
LEMMA StepGapInv ==
  ASSUME IInv, GapInv, [Next]_vars
  PROVE  GapInv'
<1>1. TypeOK /\ PipelineOrdered /\ (\A c \in Client : ClientInv(c)) /\ losses \in Nat
  BY DEF IInv, TypeOK, BoundsOK
<1>2. CASE PipeStep \/ Restart \/ UNCHANGED vars
  <2>1. losses' = losses
    BY <1>2 DEF PipeStep, Poll, NotifyOne, Pop, Publish, FindEmpty, Park, Wake, Restart,
                vars, envVars
  <2>2. ASSUME NEW d \in Client, GapFree(d) PROVE GapFree(d)'
    <3>1. CASE PipeStep \/ UNCHANGED vars
      <4>1. Untouched(d)
        BY <3>1 DEF PipeStep, Poll, NotifyOne, Pop, Publish, FindEmpty, Park, Wake, Untouched,
                    vars, sessionVars, cursorVars, mirrorVars
      <4> QED BY <2>2, <4>1, UntouchedGapFree
    <3>2. CASE Restart
      <4>1. CutOff(d)
        BY <3>2 DEF Restart, CutOff, cursorVars, mirrorVars
      <4> QED BY <2>2, <4>1, CutOffGapFree
    <3> QED BY <1>2, <3>1, <3>2
  <2> QED BY <2>1, <2>2 DEF GapInv
<1>3. ASSUME NEW c \in Client, ClientStep(c) PROVE GapInv'
  <2>1. CASE SkipFrame(c)
    <3>1. losses' = losses + 1
      BY <2>1 DEF SkipFrame
    <3> QED BY <1>1, <3>1 DEF GapInv
  <2>2. CASE ~SkipFrame(c)
    <3>1. losses' = losses
      BY <1>3, <2>2 DEF ClientStep, Session, SendHello, SendSnapshot, SendHeartbeat,
         SendChange, AnswerResync, Store, OnHello, OnSnapshot, OnDelta, OnHeartbeat,
         Lifecycle, Connect, Break, DiscardTail, Attach, Detach, envVars
    <3>2. GapFree(c) => GapFree(c)'
      BY <1>1, <1>3, <2>2, SessionGapFree, StoreGapFree, LifecycleGapFree DEF ClientStep
    <3>3. ASSUME NEW d \in Client, d # c, GapFree(d) PROVE GapFree(d)'
      <4>1. Untouched(d)
        BY <1>1, <1>3, <3>3, OthersUntouched
      <4> QED BY <3>3, <4>1, UntouchedGapFree
    <3> QED BY <3>1, <3>2, <3>3 DEF GapInv
  <2> QED BY <2>1, <2>2
<1> QED
  BY <1>2, <1>3 DEF Next, Coordinator, PipeStep, ClientStep

LEMMA InitGapInv == Init => GapInv
<1>1. ASSUME Init, NEW c \in Client PROVE GapFree(c)
  <2>1. wire[c] = <<>> /\ ~needsResync[c] /\ ~based[c] /\ stage[c] = "down"
    BY <1>1 DEF Init
  <2>2. StartsFresh(<<>>)
    BY DEF StartsFresh
  <2> QED BY <2>1, <2>2 DEF GapFree
<1> QED BY <1>1 DEF GapInv

LEMMA GapInvariance == Spec => []GapInv
<1>1. Init => GapInv
  BY InitGapInv
<1>2. IInv /\ GapInv /\ [Next]_vars => GapInv'
  BY StepGapInv
<1> QED BY <1>1, <1>2, Invariance, PTL DEF Spec

LEMMA GapsHaveLosses == IInv /\ GapInv => NoFalseGap
<1> SUFFICES ASSUME IInv, GapInv PROVE NoFalseGap
  OBVIOUS
<1>1. losses \in Nat
  BY DEF IInv, TypeOK, BoundsOK
<1> QED BY <1>1 DEF GapInv, GapFree, NoFalseGap

(* No gap is announced that is none: heartbeats, coalesced updates, resync *)
(* answers, broken connections and restarts keep the line of seqs whole    *)
(* ("does NOT resync when heartbeats sit between deltas").                 *)
THEOREM GapsAreReal == Spec => []NoFalseGap
<1>1. IInv /\ GapInv => NoFalseGap
  BY GapsHaveLosses
<1> QED BY <1>1, Invariance, GapInvariance, PTL

(* A client without a gap has its session's snapshot once the wire is      *)
(* empty, and has noted every seq: what it shows is what was sent last.    *)
LEMMA QuietShowsWatch == IInv /\ GapInv => QuietIsCurrent
<1> SUFFICES ASSUME IInv, GapInv, NEW c \in Client, CaughtUp(c),
                    losses = 0 \/ (Trusted(c) /\ NoneMissing(c))
             PROVE  flows[c] = captured[watch]
  BY DEF QuietIsCurrent
<1>1. stage[c] = "live" /\ wire[c] = <<>> /\ lastGen[c] = watch /\ ClientInv(c)
  BY DEF CaughtUp, IInv
<1>2. Trusted(c) /\ NoneMissing(c)
  <2> SUFFICES ASSUME losses = 0 PROVE Trusted(c) /\ NoneMissing(c)
    OBVIOUS
  <2>1. GapFree(c)
    BY DEF GapInv
  <2>2. based[c]
    BY <1>1, <2>1 DEF GapFree, SnapshotAhead
  <2> QED BY <1>1, <2>1, <2>2 DEF GapFree, Trusted
<1>3. at[c] = lastGen[c]
  BY <1>1, <1>2 DEF ClientInv, CursorInv, Trusted
<1> QED BY <1>1, <1>2, <1>3 DEF ClientInv, MirrorInv

(* When a session has nothing left to send or to deliver its client shows  *)
(* the published world (serve_client, the store's handlers).               *)
THEOREM QuietFeedIsCurrent == Spec => []QuietIsCurrent
<1>1. IInv /\ GapInv => QuietIsCurrent
  BY QuietShowsWatch
<1> QED BY <1>1, Invariance, GapInvariance, PTL

-----------------------------------------------------------------------------
(* An open gap has its answer coming                                       *)

SnapshotIn(w) == \E i \in 1..Len(w) : w[i].type = "snapshot"

Answered(c) ==
  needsResync[c] => stage[c] # "live" \/ up[c] > 0 \/ SnapshotIn(wire[c]) \/ losses > 1

(* Sending takes no frame away, and taking one takes that one only.        *)
LEMMA SnapshotStays ==
  ASSUME NEW w \in Seq(Frame), SnapshotIn(w)
  PROVE  /\ \A f \in Frame : SnapshotIn(Append(w, f))
         /\ w[1].type # "snapshot" => SnapshotIn(Tail(w))
<1>1. PICK i \in 1..Len(w) : w[i].type = "snapshot"
  BY DEF SnapshotIn
<1>2. Len(w) \in Nat /\ w # <<>>
  BY <1>1
<1>3. ASSUME NEW f \in Frame PROVE SnapshotIn(Append(w, f))
  <2>1. /\ Len(Append(w, f)) = Len(w) + 1 /\ Append(w, f)[i] = w[i]
    BY AppendAt
  <2>2. i \in 1..(Len(w) + 1)
    BY <1>2
  <2> QED BY <1>1, <2>1, <2>2 DEF SnapshotIn
<1>4. ASSUME w[1].type # "snapshot" PROVE SnapshotIn(Tail(w))
  <2>1. i - 1 \in 1..(Len(w) - 1) /\ (i - 1) + 1 = i
    BY <1>1, <1>2, <1>4
  <2>2. Len(Tail(w)) = Len(w) - 1 /\ Tail(w)[i - 1] = w[i]
    BY <1>2, <2>1, TailAt
  <2> QED BY <1>1, <2>1, <2>2 DEF SnapshotIn
<1> QED BY <1>3, <1>4

(* What a session sends to a client with a gap open.                       *)
LEMMA SessionAnswers ==
  ASSUME TypeOK, NEW c \in Client, Session(c), Answered(c)
  PROVE  Answered(c)'
<1>1. /\ c \in DOMAIN wire /\ wire[c] \in Seq(Frame) /\ c \in DOMAIN stage
      /\ seq[c] \in Nat /\ lastGen[c] \in Nat /\ watch \in Nat
  BY DEF TypeOK, PipeTypeOK, SessionTypeOK
<1>2. needsResync' = needsResync /\ losses' = losses
  BY DEF Session, SendHello, SendSnapshot, SendHeartbeat, SendChange, AnswerResync,
         cursorVars, envVars
<1>3. ASSUME NEW type \in {"hello", "snapshot", "delta", "heartbeat"}, NEW i \in Nat,
             Send(c, type, i)
      PROVE  /\ type = "snapshot" => SnapshotIn(wire'[c])
             /\ SnapshotIn(wire[c]) => SnapshotIn(wire'[c])
  <2> DEFINE f == [type |-> type, seq |-> seq[c], idx |-> i]
  <2>1. f \in Frame /\ f.type = type
    BY <1>1 DEF Frame
  <2>2. wire'[c] = Append(wire[c], f)
    BY <1>1, <1>3 DEF Send
  <2> HIDE DEF f
  <2>3. /\ Len(wire'[c]) = Len(wire[c]) + 1 /\ Len(wire[c]) \in Nat
        /\ wire'[c][Len(wire[c]) + 1] = f
    BY <1>1, <2>1, <2>2, AppendAt
  <2>4. Len(wire[c]) + 1 \in 1..Len(wire'[c])
    BY <2>3
  <2>5. type = "snapshot" => SnapshotIn(wire'[c])
    BY <2>1, <2>3, <2>4 DEF SnapshotIn
  <2>6. SnapshotIn(wire[c]) => SnapshotIn(wire'[c])
    BY <1>1, <2>1, <2>2, SnapshotStays
  <2> QED BY <2>5, <2>6
<1>4. CASE SendHello(c)
  <2>1. stage'[c] = "snapshot"
    BY <1>1, <1>4 DEF SendHello
  <2> QED BY <2>1 DEF Answered
<1>5. CASE SendSnapshot(c) \/ AnswerResync(c)
  <2>1. SnapshotIn(wire'[c])
    BY <1>1, <1>3, <1>5 DEF SendSnapshot, AnswerResync
  <2> QED BY <2>1 DEF Answered, SnapshotIn
<1>6. CASE SendHeartbeat(c) \/ SendChange(c)
  <2>1. stage' = stage /\ up' = up
    BY <1>6 DEF SendHeartbeat, SendChange
  <2>2. PICK type \in {"hello", "snapshot", "delta", "heartbeat"}, i \in Nat : Send(c, type, i)
    <3>1. ChangeType(c) \in {"hello", "snapshot", "delta", "heartbeat"}
      BY DEF ChangeType
    <3>2. CASE SendHeartbeat(c)
      BY <1>1, <3>2 DEF SendHeartbeat
    <3>3. CASE SendChange(c)
      BY <1>1, <3>1, <3>3 DEF SendChange
    <3> QED BY <1>6, <3>2, <3>3
  <2>3. SnapshotIn(wire[c]) => SnapshotIn(wire'[c])
    BY <1>3, <2>2
  <2>4. SnapshotIn(wire[c])' <=> SnapshotIn(wire'[c])
    BY DEF SnapshotIn
  <2> QED BY <1>2, <2>1, <2>3, <2>4 DEF Answered
<1> QED BY <1>4, <1>5, <1>6 DEF Session

(* A gap that is found is asked about at once, and no other frame that is  *)
(* taken is the answer.                                                    *)
LEMMA StoreAnswers ==
  ASSUME TypeOK, NEW c \in Client, Store(c), Answered(c)
  PROVE  Answered(c)'
<1> DEFINE w == wire[c]
<1>1. /\ c \in DOMAIN wire /\ w \in Seq(Frame) /\ c \in DOMAIN needsResync
      /\ c \in DOMAIN up /\ up[c] \in Nat
  BY DEF TypeOK, SessionTypeOK, StoreTypeOK
<1>2. /\ w # <<>> /\ wire' = [wire EXCEPT ![c] = Tail(@)]
      /\ stage' = stage /\ losses' = losses
  BY DEF Store, OnHello, OnSnapshot, OnDelta, OnHeartbeat, Receive, sessionVars, envVars
<1>3. wire'[c] = Tail(w) /\ Head(w) = w[1]
  BY <1>1, <1>2
<1>4. CASE OnSnapshot(c)
  <2>1. ~needsResync'[c]
    BY <1>1, <1>4 DEF OnSnapshot
  <2> QED BY <2>1 DEF Answered
<1>5. ASSUME ~OnSnapshot(c) PROVE SnapshotIn(w) => SnapshotIn(wire'[c])
  <2>1. w[1].type # "snapshot"
    BY <1>3, <1>5 DEF Store, OnHello, OnDelta, OnHeartbeat, Receive
  <2> QED BY <1>1, <1>3, <2>1, SnapshotStays
<1>6. SnapshotIn(wire[c])' <=> SnapshotIn(wire'[c])
  BY DEF SnapshotIn
<1>7. ASSUME ~OnSnapshot(c), needsResync' = needsResync, up' = up
      PROVE  Answered(c)'
  BY <1>2, <1>5, <1>6, <1>7 DEF Answered
<1>8. ASSUME ~OnSnapshot(c), NEW s, NoteSeq(c, s)
      PROVE  Answered(c)'
  <2> DEFINE gap == lastSeq[c] >= 0 /\ s > lastSeq[c] + 1 /\ ~needsResync[c]
  <2>1. /\ needsResync'[c] = (needsResync[c] \/ gap)
        /\ up'[c] = IF gap /\ stage[c] # "down" THEN up[c] + 1 ELSE up[c]
    BY <1>1, <1>8 DEF NoteSeq
  <2> HIDE DEF gap
  <2>2. CASE gap
    <3>1. stage[c] # "down" => up'[c] > 0
      BY <1>1, <2>1, <2>2
    <3> QED BY <1>2, <3>1 DEF Answered
  <2>3. CASE ~gap
    <3>1. (needsResync'[c] => needsResync[c]) /\ up'[c] = up[c]
      BY <2>1, <2>3
    <3> QED BY <1>2, <1>5, <1>6, <1>8, <3>1 DEF Answered
  <2> QED BY <2>2, <2>3
<1>9. OnHello(c) \/ OnDelta(c) \/ OnHeartbeat(c) => ~OnSnapshot(c)
  BY DEF OnHello, OnDelta, OnHeartbeat, OnSnapshot, Receive
<1>10. CASE OnHello(c)
  BY <1>7, <1>9, <1>10 DEF OnHello, cursorVars
<1>11. CASE OnDelta(c)
  <2>1. (needsResync' = needsResync /\ up' = up) \/ NoteSeq(c, Head(w).seq)
    BY <1>11 DEF OnDelta, cursorVars
  <2> QED BY <1>7, <1>8, <1>9, <1>11, <2>1
<1>12. CASE OnHeartbeat(c)
  BY <1>8, <1>9, <1>12 DEF OnHeartbeat
<1> QED BY <1>4, <1>10, <1>11, <1>12 DEF Store

(* A frame that is lost behind an open gap is the second one.              *)
LEMMA LifecycleAnswers ==
  ASSUME TypeOK, NEW c \in Client, Lifecycle(c), Answered(c), needsResync[c] => losses > 0
  PROVE  Answered(c)'
<1>1. /\ c \in DOMAIN stage /\ c \in DOMAIN wire /\ wire[c] \in Seq(Frame) /\ losses \in Nat
  BY DEF TypeOK, SessionTypeOK, BoundsOK
<1>2. CASE Connect(c) \/ Break(c) \/ DiscardTail(c) \/ Attach(c) \/ Detach(c)
  <2>1. stage'[c] # "live"
    BY <1>1, <1>2 DEF Connect, Break, DiscardTail, Attach, Detach, sessionVars
  <2> QED BY <2>1 DEF Answered
<1>3. CASE SkipFrame(c)
  <2>1. /\ wire[c] # <<>> /\ wire'[c] = Tail(wire[c]) /\ losses' = losses + 1
        /\ needsResync' = needsResync /\ stage' = stage /\ up' = up
    BY <1>1, <1>3 DEF SkipFrame, sessionVars, cursorVars
  <2>2. CASE needsResync[c]
    <3>1. losses' > 1
      BY <1>1, <2>1, <2>2
    <3> QED BY <3>1 DEF Answered
  <2>3. CASE ~needsResync[c]
    BY <2>1, <2>3 DEF Answered
  <2> QED BY <2>2, <2>3
<1> QED BY <1>2, <1>3 DEF Lifecycle

(* A step of one client leaves the requests of the others alone.           *)
LEMMA OthersAnswered ==
  ASSUME TypeOK, NEW c \in Client, ClientStep(c), NEW d \in Client, d # c,
         Untouched(d), Answered(d)
  PROVE  Answered(d)'
<1>1. losses \in Nat /\ (losses' = losses \/ losses' = losses + 1)
  BY DEF ClientStep, Session, SendHello, SendSnapshot, SendHeartbeat,
         SendChange, AnswerResync, Store, OnHello, OnSnapshot, OnDelta, OnHeartbeat,
         Lifecycle, Connect, SkipFrame, Break, DiscardTail, Attach, Detach, envVars,
         TypeOK, BoundsOK
<1>2. up'[d] = up[d]
  <2>1. up \in [Client -> Nat]
    BY DEF TypeOK, SessionTypeOK
  <2>2. CASE Session(c)
    BY <2>1, <2>2 DEF Session, SendHello, SendSnapshot, SendHeartbeat, SendChange, AnswerResync
  <2>3. CASE Store(c)
    BY <2>1, <2>3 DEF Store, OnHello, OnSnapshot, OnDelta, OnHeartbeat, NoteSeq
  <2>4. CASE Lifecycle(c)
    BY <2>1, <2>4 DEF Lifecycle, Connect, SkipFrame, Break, DiscardTail, Attach, Detach
  <2> QED BY <2>2, <2>3, <2>4 DEF ClientStep
<1>3. losses > 1 => losses' > 1
  BY <1>1
<1> QED BY <1>2, <1>3 DEF Answered, Untouched, SnapshotIn

LEMMA StepAnswered ==
  ASSUME IInv, NoFalseGap, \A c \in Client : Answered(c), [Next]_vars
  PROVE  \A c \in Client : Answered(c)'
<1>1. TypeOK /\ PipelineOrdered /\ \A c \in Client : ClientInv(c)
  BY DEF IInv
<1>2. CASE PipeStep \/ UNCHANGED vars
  <2>1. UNCHANGED <<needsResync, stage, up, wire, losses>>
    BY <1>2 DEF PipeStep, Poll, NotifyOne, Pop, Publish, FindEmpty, Park, Wake,
                vars, sessionVars, cursorVars, envVars
  <2> QED BY <2>1 DEF Answered, SnapshotIn
<1>3. CASE Restart
  <2>1. \A c \in Client : stage'[c] = "down"
    BY <1>3 DEF Restart
  <2> QED BY <2>1 DEF Answered
<1>4. ASSUME NEW c \in Client, ClientStep(c) PROVE \A d \in Client : Answered(d)'
  <2>1. needsResync[c] => losses > 0
    BY DEF NoFalseGap
  <2>2. Answered(c)'
    BY <1>1, <1>4, <2>1, SessionAnswers, StoreAnswers, LifecycleAnswers DEF ClientStep
  <2>3. ASSUME NEW d \in Client, d # c PROVE Answered(d)'
    <3>1. Untouched(d)
      BY <1>1, <1>4, <2>3, OthersUntouched
    <3> QED BY <1>1, <1>4, <2>3, <3>1, OthersAnswered
  <2> QED BY <2>2, <2>3
<1> QED
  BY <1>2, <1>3, <1>4 DEF Next, Coordinator, PipeStep, ClientStep

(* Although a client asks only once for each gap, an open gap has its      *)
(* answer coming unless a second frame was lost (noteSeq, serve_client).   *)
THEOREM GapsAreAnswered == Spec => []GapIsAnswered
<1> DEFINE All == \A c \in Client : Answered(c)
<1>1. Init => All
  BY DEF Init, Answered
<1>2. IInv /\ GapInv /\ All /\ [Next]_vars => All'
  BY GapsHaveLosses, StepAnswered
<1>3. All => GapIsAnswered
  BY DEF Answered, SnapshotIn, GapIsAnswered
<1> HIDE DEF All
<1> QED BY <1>1, <1>2, <1>3, Invariance, GapInvariance, PTL DEF Spec

(* Both: a gap is announced for a loss and for nothing else, and then has  *)
(* its answer coming (noteSeq, serve_client).                              *)
THEOREM GapDiscipline == Spec => []GapsHold
<1>1. NoFalseGap /\ GapIsAnswered => GapsHold
  BY DEF GapsHold
<1> QED BY <1>1, GapsAreReal, GapsAreAnswered, PTL
=============================================================================
