------------------------------ MODULE HudProofs ------------------------------
(***************************************************************************)
(* Proofs about WardenPanel, for any addresses, rules, refreshes and       *)
(* length of the helper's queue: a request that is waited for is in the    *)
(* queue exactly once, and the newest entry of the audit log is true of    *)
(* the helper's set, although requests that were given up on are executed  *)
(* late.  Then about ForceLayout, for any flows, groups, modes and commits: *)
(* what is drawn was computed for the flow it is drawn for, although the   *)
(* worker answers an earlier list.                                         *)
(***************************************************************************)
EXTENDS WardenPanel, ForceLayout, FiniteSetTheorems, SequenceTheorems, TLAPS

-----------------------------------------------------------------------------
(* The inductive invariant                                                 *)

Actions == {"apply", "block", "unblock"}
Phases == {"idle", "sent", "asked", "answered"}
Kinds == {"add", "remove", "clear", "list"}
Clients == {"op"} \cup Reads
Request == [from : Clients \cup {None}, kind : Kinds, addrs : SUBSET Addrs]
Answers == [ok : BOOLEAN, configured : BOOLEAN, added : SUBSET Addrs]

PanelTypes ==
  /\ on \subseteq Rules /\ confirm \in BOOLEAN /\ plan \in (SUBSET Rules) \cup {None}
  /\ configured \in BOOLEAN /\ unrecorded \subseteq {"block", "unblock"}
  /\ available \in {"unknown", "yes", "no"} /\ shown \subseteq Addrs
  /\ audit \in [action : Actions \cup {None}, addrs : SUBSET Addrs, ok : BOOLEAN]

OpTypes ==
  /\ op \in [action : Actions \cup {None}, asked : SUBSET Addrs, phase : Phases,
             answer : Answers \cup {None}]
  /\ busy => op.action \in Actions
  /\ op.phase = "answered" => op.answer \in Answers
  /\ reads \in [Reads -> [phase : Phases, answer : (SUBSET Addrs) \cup {None}]]

(* A refresh asks for the list and an enforce request never does.          *)
HelperTypes ==
  /\ blocked \subseteq Addrs
  /\ queue \in Seq(Request) /\ Len(queue) <= MaxQueue
  /\ \A i \in 1..Len(queue) :
       /\ queue[i].kind \in {"clear", "list"} => queue[i].addrs = {}
       /\ queue[i].from \in Reads => queue[i].kind = "list"

(* A client has a request in the queue exactly while it waits, and one.    *)
WaitsFor(client) ==
  IF client = "op" THEN op.phase = "asked" ELSE reads[client].phase = "asked"

OneEach == \A client \in Clients :
  /\ WaitsFor(client) <=> \E i \in 1..Len(queue) : queue[i].from = client
  /\ \A i, j \in 1..Len(queue) : queue[i].from = client /\ queue[j].from = client => i = j

(* The enforce request in the queue is the one that was asked for, and     *)
(* nothing that changes the set is behind it.                              *)
OpInQueue == \A i \in 1..Len(queue) : queue[i].from = "op" =>
  /\ op.action = "unblock" =>
       /\ queue[i].kind = IF op.asked = {} THEN "clear" ELSE "remove"
       /\ queue[i].addrs = op.asked
  /\ op.action # "unblock" => queue[i].kind = "add"
  /\ \A j \in 1..Len(queue) : j > i => queue[j].kind = "list"

Nothing(kinds) == \A i \in 1..Len(queue) : queue[i].kind \notin kinds

Unblocked(addrs) == blocked \cap addrs = {} /\ (addrs = {} => blocked = {})

(* An answer that is on its way to the store is true of the set, and all   *)
(* that was written before its request has been executed.                  *)
AnswerIsTrue ==
  op.phase = "answered" /\ op.answer.ok =>
    /\ Nothing({"add", "remove", "clear"})
    /\ IF op.action = "unblock" THEN Unblocked(op.asked) ELSE op.answer.added \subseteq blocked

(* A request to block is at the helper, or was and will be recorded.       *)
Blocking ==
  /\ op.action # "unblock"
  /\ op.phase = "asked" \/ (op.phase = "answered" /\ op.answer.configured)

(* An entry "unblocked" stands until something new is to be blocked: no    *)
(* request that was given up on can still do it.                           *)
UnblockStands ==
  audit.ok /\ audit.action = "unblock" /\ "block" \notin unrecorded /\ ~Blocking =>
    Unblocked(audit.addrs) /\ Nothing({"add"})

(* An entry "blocked" stands until something is to be unblocked.           *)
BlockStands ==
  audit.ok /\ audit.action \in {"apply", "block"} /\ "unblock" \notin unrecorded
    /\ ~(busy /\ op.action = "unblock") =>
    audit.addrs \subseteq blocked /\ Nothing({"remove", "clear"})

IInv ==
  /\ PanelTypes /\ OpTypes /\ HelperTypes
  /\ OneEach /\ OpInQueue /\ AnswerIsTrue
  /\ UnblockStands /\ BlockStands

-----------------------------------------------------------------------------
(* The queue                                                               *)

(* The page is new: one refresh is on its way, and nobody waits.           *)
LEMMA FirstReadingIs ==
  ASSUME NEW r \in Reads
  PROVE  /\ FirstReading(r) \in [Reads -> [phase : Phases, answer : (SUBSET Addrs) \cup {None}]]
         /\ \A q \in Reads : FirstReading(r)[q].phase # "asked"
BY DEF FirstReading, Phases

(* The panel is mounted, nothing has been asked of the helper.             *)
LEMMA InitInv == Init => IInv
<1> SUFFICES ASSUME Init PROVE IInv
  OBVIOUS
<1> USE PanelAssumption DEF Init
<1>1. op = NoOp /\ op.phase = "idle" /\ op.answer = None /\ op.action = None /\ op.asked = {}
  BY DEF NoOp
<1>2. audit.ok = FALSE /\ audit.addrs = {} /\ audit.action = None
  BY DEF NoAudit
<1>3. PanelTypes
  BY DEF PanelTypes, NoAudit, Actions
<1>4. OpTypes
  BY <1>1, FirstReadingIs DEF OpTypes, NoOp, Actions, Phases, busy
<1>5. Len(queue) = 0 /\ queue \in Seq(Request)
  OBVIOUS
<1>6. HelperTypes
  BY <1>5 DEF HelperTypes
<1>7. /\ reads \in [Reads -> [phase : Phases, answer : (SUBSET Addrs) \cup {None}]]
      /\ \A r \in Reads : reads[r].phase # "asked"
  BY FirstReadingIs
<1>8. OneEach
  BY <1>1, <1>5, <1>7 DEF OneEach, WaitsFor, Clients
<1>9. OpInQueue
  BY <1>5 DEF OpInQueue
<1>10. AnswerIsTrue /\ UnblockStands /\ BlockStands
  BY <1>1, <1>2 DEF AnswerIsTrue, UnblockStands, BlockStands
<1> QED BY <1>3, <1>4, <1>6, <1>8, <1>9, <1>10 DEF IInv

(* What can be read of the queue, slot by slot.                            *)
LEMMA Slots ==
  ASSUME HelperTypes
  PROVE  /\ Len(queue) \in Nat
         /\ \A i \in 1..Len(queue) :
              /\ queue[i] \in Request /\ queue[i].from \in Clients \cup {None}
              /\ queue[i].kind \in Kinds /\ queue[i].addrs \subseteq Addrs
<1>1. Len(queue) \in Nat
  BY DEF HelperTypes
<1>2. ASSUME NEW i \in 1..Len(queue) PROVE queue[i] \in Request
  BY <1>2 DEF HelperTypes
<1> QED BY <1>1, <1>2 DEF Request

(* A request written behind the others.                                    *)
LEMMA Appended ==
  ASSUME HelperTypes, NEW q \in Request, queue' = Append(queue, q)
  PROVE  /\ queue' \in Seq(Request) /\ Len(queue') = Len(queue) + 1
         /\ queue'[Len(queue) + 1] = q
         /\ \A i \in 1..Len(queue) : queue'[i] = queue[i]
BY DEF HelperTypes

(* The oldest request leaves.                                              *)
LEMMA Popped ==
  ASSUME HelperTypes, queue # <<>>, queue' = Tail(queue)
  PROVE  /\ queue' \in Seq(Request) /\ Len(queue) \in Nat \ {0} /\ Len(queue') = Len(queue) - 1
         /\ \A i \in 1..Len(queue') : queue'[i] = queue[i + 1] /\ i + 1 \in 2..Len(queue)
<1>1. queue \in Seq(Request)
  BY DEF HelperTypes
<1>2. Len(queue) \in Nat \ {0}
  BY <1>1, EmptySeq
<1>3. /\ queue' \in Seq(Request) /\ Len(queue') = Len(queue) - 1
      /\ \A i \in 1..Len(queue') : queue'[i] = queue[i + 1]
  BY <1>1, HeadTailProperties
<1> QED BY <1>2, <1>3

(* A request whose client has hung up is as it was, but nobody's.          *)
LEMMA HungUp ==
  ASSUME HelperTypes, NEW client \in Clients, queue' = Hangup(client)
  PROVE  /\ queue' \in Seq(Request) /\ Len(queue') = Len(queue)
         /\ \A i \in 1..Len(queue) :
              /\ queue'[i].kind = queue[i].kind /\ queue'[i].addrs = queue[i].addrs
              /\ queue[i].from = client => queue'[i].from = None
              /\ queue[i].from # client => queue'[i].from = queue[i].from
<1> DEFINE After(i) == IF queue[i].from = client THEN [queue[i] EXCEPT !.from = None] ELSE queue[i]
           n == Len(queue)
<1>1. n \in Nat /\ DOMAIN queue = 1..n
  BY DEF HelperTypes
<1>2. ASSUME NEW i \in 1..n PROVE queue[i] \in Request
  BY <1>2, Slots
<1>3. ASSUME NEW i \in 1..n
      PROVE  /\ After(i) \in Request
             /\ After(i).kind = queue[i].kind /\ After(i).addrs = queue[i].addrs
             /\ queue[i].from = client => After(i).from = None
             /\ queue[i].from # client => After(i).from = queue[i].from
  BY <1>2 DEF Request
<1>4. queue' = [i \in 1..n |-> After(i)]
  BY <1>1 DEF Hangup
<1> HIDE DEF After, n
<1>5. queue' \in [1..n -> Request]
  BY <1>3, <1>4
<1>6. queue' \in Seq(Request) /\ Len(queue') = n
  BY <1>1, <1>5
<1> QED BY <1>3, <1>4, <1>6 DEF n

-----------------------------------------------------------------------------
(* Steps that leave the helper alone                                       *)

(* A step that touches neither the helper nor the log nor the request.     *)
LEMMA Undisturbed ==
  ASSUME IInv, UNCHANGED <<queue, blocked, audit, unrecorded, op>>,
         \A r \in Reads : reads'[r].phase = "asked" <=> reads[r].phase = "asked"
  PROVE  /\ HelperTypes' /\ OneEach' /\ OpInQueue' /\ AnswerIsTrue'
         /\ UnblockStands' /\ BlockStands'
<1>1. HelperTypes'
  BY DEF IInv, HelperTypes
<1>2. \A client \in Clients : WaitsFor(client)' <=> WaitsFor(client)
  BY DEF WaitsFor, Clients
<1>3. OneEach'
  BY <1>2 DEF IInv, OneEach
<1>4. OpInQueue' /\ AnswerIsTrue'
  BY DEF IInv, OpInQueue, AnswerIsTrue, Nothing, Unblocked
<1>5. UnblockStands' /\ BlockStands'
  BY DEF IInv, UnblockStands, BlockStands, Nothing, Unblocked, Blocking, busy
<1> QED BY <1>1, <1>3, <1>4, <1>5

(* A refresh or a mount puts one refresh on its way.                       *)
LEMMA ReadingIs ==
  ASSUME OpTypes, NEW r \in Free, reads' = AsReading(r)
  PROVE  /\ reads' \in [Reads -> [phase : Phases, answer : (SUBSET Addrs) \cup {None}]]
         /\ \A q \in Reads : reads'[q].phase = "asked" <=> reads[q].phase = "asked"
<1>1. r \in Reads /\ reads[r].phase = "idle"
  BY DEF Free
<1>2. reads \in [Reads -> [phase : Phases, answer : (SUBSET Addrs) \cup {None}]]
  BY DEF OpTypes
<1>3. [phase |-> "sent", answer |-> None] \in [phase : Phases, answer : (SUBSET Addrs) \cup {None}]
  BY DEF Phases
<1>4. reads' = [reads EXCEPT ![r] = [phase |-> "sent", answer |-> None]]
  BY DEF AsReading
<1>5. reads' \in [Reads -> [phase : Phases, answer : (SUBSET Addrs) \cup {None}]]
  BY <1>2, <1>3, <1>4
<1>6. ASSUME NEW q \in Reads
      PROVE  reads'[q].phase = "asked" <=> reads[q].phase = "asked"
  BY <1>1, <1>2, <1>4
<1> QED BY <1>5, <1>6

(* The panel's own steps.                                                  *)
LEMMA PanelInv ==
  ASSUME IInv,
         Reopen \/ Preview \/ AskConfirm \/ Cancel \/ \E r \in Rules : Toggle(r)
  PROVE  IInv'
<1>1. UNCHANGED <<queue, blocked, audit, unrecorded, op, available, shown, configured>>
  BY DEF Reopen, Preview, AskConfirm, Cancel, Toggle, storeVars, helperVars
<1>2. on' \subseteq Rules /\ confirm' \in BOOLEAN /\ plan' \in (SUBSET Rules) \cup {None}
  BY DEF IInv, PanelTypes, Reopen, Preview, AskConfirm, Cancel, Toggle
<1>3. reads' = reads \/ \E r \in Free : reads' = AsReading(r)
  BY DEF Reopen, Preview, AskConfirm, Cancel, Toggle
<1>4. /\ reads' \in [Reads -> [phase : Phases, answer : (SUBSET Addrs) \cup {None}]]
      /\ \A q \in Reads : reads'[q].phase = "asked" <=> reads[q].phase = "asked"
  <2>1. CASE reads' = reads
    BY <2>1 DEF IInv, OpTypes
  <2>2. ASSUME NEW r \in Free, reads' = AsReading(r)
        PROVE  /\ reads' \in [Reads -> [phase : Phases, answer : (SUBSET Addrs) \cup {None}]]
               /\ \A q \in Reads : reads'[q].phase = "asked" <=> reads[q].phase = "asked"
    BY <2>2, ReadingIs DEF IInv
  <2> QED BY <1>3, <2>1, <2>2
<1>5. PanelTypes'
  BY <1>1, <1>2 DEF IInv, PanelTypes
<1>6. OpTypes'
  BY <1>1, <1>4 DEF IInv, OpTypes, busy
<1> QED BY <1>1, <1>4, <1>5, <1>6, Undisturbed DEF IInv

(* A request leaves the store: nothing is known of it at the helper yet.   *)
LEMMA BeginInv ==
  ASSUME IInv, NEW action \in Actions, NEW asked \in SUBSET Addrs, Begin(action, asked),
         confirm' \in BOOLEAN
  PROVE  IInv'
<1>1. op.phase = "idle"
  BY DEF Begin, busy
<1>2. op' = [action |-> action, asked |-> asked, phase |-> "sent", answer |-> None]
  BY DEF Begin, NoOp
<1>3. UNCHANGED <<on, plan, storeVars, reads, configured, helperVars>>
  BY DEF Begin
<1>4. UNCHANGED <<queue, blocked, audit, unrecorded, available, shown, configured, on, plan, reads>>
  BY <1>3 DEF storeVars, helperVars
<1>5. PanelTypes'
  BY <1>4 DEF IInv, PanelTypes
<1>6. OpTypes'
  BY <1>2, <1>4 DEF IInv, OpTypes, Phases
<1>7. HelperTypes'
  BY <1>4 DEF IInv, HelperTypes
<1>8. \A client \in Clients : WaitsFor(client)' <=> WaitsFor(client)
  BY <1>1, <1>2, <1>4 DEF WaitsFor, Clients
<1>9. OneEach'
  BY <1>4, <1>8 DEF IInv, OneEach
<1>10. \A i \in 1..Len(queue) : queue[i].from # "op"
  BY <1>1 DEF IInv, OneEach, WaitsFor, Clients
<1>11. OpInQueue'
  BY <1>4, <1>10 DEF OpInQueue
<1>12. AnswerIsTrue'
  BY <1>2 DEF AnswerIsTrue
<1>13. UnblockStands' /\ BlockStands'
  BY <1>1, <1>2, <1>4 DEF IInv, UnblockStands, BlockStands, Nothing, Unblocked, Blocking, busy
<1> QED BY <1>5, <1>6, <1>7, <1>9, <1>11, <1>12, <1>13 DEF IInv

(* Every button that sends a request.                                      *)
LEMMA ButtonInv ==
  ASSUME IInv,
         Confirm \/ UnblockAll \/ \E a \in Addrs : BlockFlow(a) \/ Unblock(a)
  PROVE  IInv'
<1>1. CASE Confirm
  <2>1. on \subseteq SUBSET Addrs
    BY PanelAssumption DEF IInv, PanelTypes
  <2>2. UNION on \in SUBSET Addrs
    BY <2>1
  <2> QED BY <1>1, <2>2, BeginInv DEF Confirm, Actions
<1>2. confirm \in BOOLEAN
  BY DEF IInv, PanelTypes
<1>3. CASE UnblockAll
  <2>1. {} \in SUBSET Addrs /\ "unblock" \in Actions
    BY DEF Actions
  <2> QED BY <1>2, <1>3, <2>1, BeginInv DEF UnblockAll
<1>4. ASSUME NEW a \in Addrs, BlockFlow(a) \/ Unblock(a)
      PROVE  IInv'
  <2>1. {a} \in SUBSET Addrs /\ "unblock" \in Actions /\ "block" \in Actions
    BY DEF Actions
  <2> QED BY <1>2, <1>4, <2>1, BeginInv DEF BlockFlow, Unblock
<1> QED BY <1>1, <1>3, <1>4

-----------------------------------------------------------------------------
(* The agent                                                               *)

(* The enforce request is written behind whatever waits.                   *)
LEMMA ForwardOpInv ==
  ASSUME IInv, ForwardOp
  PROVE  IInv'
<1> USE PanelAssumption
<1>1. op.phase = "sent" /\ op.action \in Actions
  BY DEF ForwardOp, IInv, OpTypes, busy
<1>2. UNCHANGED <<on, plan, confirm, available, shown, audit, unrecorded, reads, configured, blocked>>
  BY DEF ForwardOp, panelVars, storeVars
<1>3. PanelTypes'
  BY <1>2 DEF IInv, PanelTypes
<1>4. \A i \in 1..Len(queue) : queue[i].from # "op"
  BY <1>1 DEF IInv, OneEach, WaitsFor, Clients
<1>5. HelperTypes /\ OpTypes /\ Len(queue) \in Nat
  BY Slots DEF IInv
<1>6. CASE ~configured
  <2>1. op' = [op EXCEPT !.phase = "answered", !.answer = NotConfigured] /\ queue' = queue
    BY <1>6 DEF ForwardOp
  <2>2. NotConfigured \in Answers /\ NotConfigured.ok = FALSE /\ NotConfigured.configured = FALSE
    BY DEF NotConfigured, Answers
  <2>3. /\ op'.phase = "answered" /\ op'.answer = NotConfigured
        /\ op'.action = op.action /\ op'.asked = op.asked
    BY <2>1, <1>5 DEF OpTypes
  <2>4. OpTypes'
    BY <2>1, <2>2, <2>3, <1>1, <1>2, <1>5 DEF OpTypes, Phases
  <2>5. HelperTypes'
    BY <2>1, <1>2, <1>5 DEF HelperTypes
  <2>6. \A client \in Clients : WaitsFor(client)' <=> WaitsFor(client)
    BY <2>3, <1>1, <1>2 DEF WaitsFor, Clients
  <2>7. OneEach'
    BY <2>1, <2>6 DEF IInv, OneEach
  <2>8. OpInQueue'
    BY <2>1, <1>4 DEF OpInQueue
  <2>9. AnswerIsTrue'
    BY <2>2, <2>3 DEF AnswerIsTrue
  <2>10. UnblockStands' /\ BlockStands'
    BY <2>1, <2>2, <2>3, <1>1, <1>2
    DEF IInv, UnblockStands, BlockStands, Nothing, Unblocked, Blocking, busy
  <2> QED BY <1>3, <2>4, <2>5, <2>7, <2>8, <2>9, <2>10 DEF IInv
<1>7. CASE configured
  <2>1. op' = [op EXCEPT !.phase = "asked"] /\ Len(queue) < MaxQueue
    BY <1>7 DEF ForwardOp
  <2>2. PICK q \in Requests : queue' = Append(queue, q)
    BY <1>7 DEF ForwardOp
  <2>3. op.asked \subseteq Addrs
    BY <1>5 DEF OpTypes
  <2>4. /\ q \in Request /\ q.from = "op" /\ q.kind # "list"
        /\ q.kind \in {"clear", "list"} => q.addrs = {}
        /\ op.action = "unblock" =>
             q.kind = (IF op.asked = {} THEN "clear" ELSE "remove") /\ q.addrs = op.asked
        /\ op.action # "unblock" => q.kind = "add"
    <3>1. CASE op.action = "unblock"
      BY <3>1, <2>2, <2>3 DEF Requests, Request, Clients, Kinds
    <3>2. CASE op.action # "unblock"
      <4>1. PICK flows \in SUBSET Addrs :
              q = [from |-> "op", kind |-> "add", addrs |-> op.asked \cap flows]
        BY <3>2, <2>2 DEF Requests
      <4> QED BY <3>2, <4>1 DEF Request, Clients, Kinds
    <3> QED BY <3>1, <3>2
  <2>5. /\ queue' \in Seq(Request) /\ Len(queue') = Len(queue) + 1
        /\ queue'[Len(queue) + 1] = q
        /\ \A i \in 1..Len(queue) : queue'[i] = queue[i]
    BY <2>2, <2>4, <1>5, Appended
  <2>6. op'.phase = "asked" /\ op'.action = op.action /\ op'.asked = op.asked
    BY <2>1, <1>5 DEF OpTypes
  <2>7. OpTypes'
    BY <2>1, <2>6, <1>1, <1>2, <1>5 DEF OpTypes, Phases
  <2>8. \A i \in 1..Len(queue') : i \in 1..Len(queue) \/ i = Len(queue) + 1
    BY <2>5, <1>5
  <2>9. HelperTypes'
    <3>1. Len(queue') <= MaxQueue
      BY <2>1, <2>5, <1>5
    <3> QED BY <2>4, <2>5, <2>8, <3>1, <1>2, <1>5 DEF HelperTypes
  <2>10. OneEach'
    <3>0. OneEach
      BY DEF IInv
    <3>1. ASSUME NEW r \in Reads
          PROVE  /\ WaitsFor(r)' <=> \E i \in 1..Len(queue') : queue'[i].from = r
                 /\ \A i, j \in 1..Len(queue') : queue'[i].from = r /\ queue'[j].from = r => i = j
      <4>1. WaitsFor(r)' <=> WaitsFor(r)
        BY <1>2 DEF WaitsFor
      <4>2. q.from # r
        BY <2>4
      <4>3. \A i \in 1..Len(queue') : queue'[i].from = r <=> i \in 1..Len(queue) /\ queue[i].from = r
        BY <2>5, <2>8, <4>2
      <4>4. 1..Len(queue) \subseteq 1..Len(queue')
        BY <2>5, <1>5
      <4> QED BY <3>0, <4>1, <4>3, <4>4 DEF OneEach, Clients
    <3>2. /\ WaitsFor("op")' <=> \E i \in 1..Len(queue') : queue'[i].from = "op"
          /\ \A i, j \in 1..Len(queue') : queue'[i].from = "op" /\ queue'[j].from = "op" => i = j
      <4>1. Len(queue) + 1 \in 1..Len(queue')
        BY <2>5, <1>5
      <4>2. WaitsFor("op")'
        BY <2>6 DEF WaitsFor
      <4> QED BY <2>4, <2>5, <2>8, <4>1, <4>2, <1>4
    <3> QED BY <3>1, <3>2 DEF OneEach, Clients
  <2>11. OpInQueue'
    <3> SUFFICES ASSUME NEW i \in 1..Len(queue'), queue'[i].from = "op"
                 PROVE  /\ op'.action = "unblock" =>
                             /\ queue'[i].kind = IF op'.asked = {} THEN "clear" ELSE "remove"
                             /\ queue'[i].addrs = op'.asked
                        /\ op'.action # "unblock" => queue'[i].kind = "add"
                        /\ \A j \in 1..Len(queue') : j > i => queue'[j].kind = "list"
      BY DEF OpInQueue
    <3>1. i = Len(queue) + 1
      BY <2>5, <2>8, <1>4
    <3>2. \A j \in 1..Len(queue') : ~(j > i)
      BY <3>1, <2>5, <1>5
    <3> QED BY <3>1, <3>2, <2>4, <2>5, <2>6
  <2>12. AnswerIsTrue'
    BY <2>6 DEF AnswerIsTrue
  <2>13. UnblockStands'
    <3> SUFFICES ASSUME audit.ok, audit.action = "unblock", op.action = "unblock",
                        "block" \notin unrecorded
                 PROVE  Unblocked(audit.addrs)' /\ Nothing({"add"})'
      BY <2>6, <1>1, <1>2 DEF UnblockStands, Blocking
    <3>1. Unblocked(audit.addrs) /\ Nothing({"add"})
      BY DEF IInv, UnblockStands, Blocking
    <3>2. Nothing({"add"})'
      BY <3>1, <2>4, <2>5, <2>8 DEF Nothing
    <3> QED BY <3>1, <3>2, <1>2 DEF Unblocked
  <2>14. BlockStands'
    <3> SUFFICES ASSUME audit.ok, audit.action \in {"apply", "block"}, "unblock" \notin unrecorded,
                        op.action # "unblock"
                 PROVE  audit.addrs \subseteq blocked /\ Nothing({"remove", "clear"})'
      BY <2>6, <1>2 DEF BlockStands, busy
    <3>1. audit.addrs \subseteq blocked /\ Nothing({"remove", "clear"})
      BY DEF IInv, BlockStands
    <3>2. Nothing({"remove", "clear"})'
      BY <3>1, <2>4, <2>5, <2>8 DEF Nothing
    <3> QED BY <3>1, <3>2
  <2> QED BY <1>3, <2>7, <2>9, <2>10, <2>11, <2>12, <2>13, <2>14 DEF IInv
<1>8. configured \in BOOLEAN
  BY DEF IInv, PanelTypes
<1> QED BY <1>6, <1>7, <1>8

(* A refresh asks for the list.                                            *)
LEMMA ForwardReadInv ==
  ASSUME IInv, NEW r \in Reads, ForwardRead(r)
  PROVE  IInv'
<1> USE PanelAssumption
<1>1. reads[r].phase = "sent"
  BY DEF ForwardRead
<1>2. UNCHANGED <<on, plan, confirm, available, shown, audit, unrecorded, op, configured, blocked>>
  BY DEF ForwardRead, panelVars, storeVars
<1>3. PanelTypes'
  BY <1>2 DEF IInv, PanelTypes
<1>4. HelperTypes /\ OpTypes /\ Len(queue) \in Nat
  BY Slots DEF IInv
<1>5. reads \in [Reads -> [phase : Phases, answer : (SUBSET Addrs) \cup {None}]]
  BY <1>4 DEF OpTypes
<1>6. CASE ~configured
  <2>1. reads' = [reads EXCEPT ![r].phase = "answered"] /\ queue' = queue
    BY <1>6 DEF ForwardRead
  <2>2. reads' \in [Reads -> [phase : Phases, answer : (SUBSET Addrs) \cup {None}]]
    BY <2>1, <1>5 DEF Phases
  <2>3. \A s \in Reads : reads'[s].phase = "asked" <=> reads[s].phase = "asked"
    BY <2>1, <1>1, <1>5
  <2>4. OpTypes'
    BY <2>2, <1>2, <1>4 DEF OpTypes, busy
  <2> QED BY <2>1, <2>3, <2>4, <1>2, <1>3, Undisturbed DEF IInv
<1>7. CASE configured
  <2> DEFINE q == [from |-> r, kind |-> "list", addrs |-> {}]
  <2>1. reads' = [reads EXCEPT ![r].phase = "asked"] /\ Len(queue) < MaxQueue /\ queue' = Append(queue, q)
    BY <1>7 DEF ForwardRead
  <2>2. q \in Request /\ q.from = r /\ q.kind = "list" /\ q.addrs = {}
    BY DEF Request, Clients, Kinds
  <2> HIDE DEF q
  <2>3. /\ queue' \in Seq(Request) /\ Len(queue') = Len(queue) + 1
        /\ queue'[Len(queue) + 1] = q
        /\ \A i \in 1..Len(queue) : queue'[i] = queue[i]
    BY <2>1, <2>2, <1>4, Appended
  <2>4. \A i \in 1..Len(queue') : i \in 1..Len(queue) \/ i = Len(queue) + 1
    BY <2>3, <1>4
  <2>5. /\ reads' \in [Reads -> [phase : Phases, answer : (SUBSET Addrs) \cup {None}]]
        /\ reads'[r].phase = "asked"
        /\ \A s \in Reads \ {r} : reads'[s] = reads[s]
    BY <2>1, <1>5 DEF Phases
  <2>6. OpTypes'
    BY <2>5, <1>2, <1>4 DEF OpTypes, busy
  <2>7. HelperTypes'
    <3>1. Len(queue') <= MaxQueue
      BY <2>1, <2>3, <1>4
    <3> QED BY <2>2, <2>3, <2>4, <3>1, <1>2, <1>4 DEF HelperTypes
  <2>8. OneEach'
    <3>0. OneEach
      BY DEF IInv
    <3>1. ASSUME NEW client \in Clients, client # r
          PROVE  /\ WaitsFor(client)' <=> \E i \in 1..Len(queue') : queue'[i].from = client
                 /\ \A i, j \in 1..Len(queue') : queue'[i].from = client /\ queue'[j].from = client => i = j
      <4>1. WaitsFor(client)' <=> WaitsFor(client)
        BY <3>1, <2>5, <1>2 DEF WaitsFor, Clients
      <4>2. \A i \in 1..Len(queue') :
              queue'[i].from = client <=> i \in 1..Len(queue) /\ queue[i].from = client
        BY <2>2, <2>3, <2>4, <3>1
      <4>3. 1..Len(queue) \subseteq 1..Len(queue')
        BY <2>3, <1>4
      <4> QED BY <3>0, <4>1, <4>2, <4>3 DEF OneEach
    <3>2. /\ WaitsFor(r)' <=> \E i \in 1..Len(queue') : queue'[i].from = r
          /\ \A i, j \in 1..Len(queue') : queue'[i].from = r /\ queue'[j].from = r => i = j
      <4>1. Len(queue) + 1 \in 1..Len(queue')
        BY <2>3, <1>4
      <4>2. WaitsFor(r)' /\ ~WaitsFor(r)
        BY <2>5, <1>1 DEF WaitsFor
      <4>3. \A i \in 1..Len(queue) : queue[i].from # r
        BY <3>0, <4>2 DEF OneEach, Clients
      <4> QED BY <2>2, <2>3, <2>4, <4>1, <4>2, <4>3
    <3> QED BY <3>1, <3>2 DEF OneEach
  <2>9. OpInQueue'
    <3> SUFFICES ASSUME NEW i \in 1..Len(queue'), queue'[i].from = "op"
                 PROVE  /\ op.action = "unblock" =>
                             /\ queue'[i].kind = IF op.asked = {} THEN "clear" ELSE "remove"
                             /\ queue'[i].addrs = op.asked
                        /\ op.action # "unblock" => queue'[i].kind = "add"
                        /\ \A j \in 1..Len(queue') : j > i => queue'[j].kind = "list"
      BY <1>2 DEF OpInQueue
    <3>1. i \in 1..Len(queue) /\ queue'[i] = queue[i]
      BY <2>2, <2>3, <2>4
    <3>2. ASSUME NEW j \in 1..Len(queue'), j > i PROVE queue'[j].kind = "list"
      BY <3>1, <3>2, <2>2, <2>3, <2>4 DEF IInv, OpInQueue
    <3> QED BY <3>1, <3>2 DEF IInv, OpInQueue
  <2>10. ASSUME NEW kinds, "list" \notin kinds, Nothing(kinds)
         PROVE  Nothing(kinds)'
    BY <2>10, <2>2, <2>3, <2>4 DEF Nothing
  <2>11. AnswerIsTrue'
    BY <2>10, <1>2 DEF IInv, AnswerIsTrue, Unblocked
  <2>12. UnblockStands' /\ BlockStands'
    BY <2>10, <1>2 DEF IInv, UnblockStands, BlockStands, Unblocked, Blocking, busy
  <2> QED BY <1>3, <2>6, <2>7, <2>8, <2>9, <2>11, <2>12 DEF IInv
<1>8. configured \in BOOLEAN
  BY DEF IInv, PanelTypes
<1> QED BY <1>6, <1>7, <1>8

(* What a client that hangs up leaves of the helper's invariant.           *)
LEMMA HangupHelper ==
  ASSUME IInv, NEW client \in Clients, queue' = Hangup(client), blocked' = blocked,
         ~WaitsFor(client)', \A other \in Clients \ {client} : WaitsFor(other)' <=> WaitsFor(other),
         op'.action = op.action, op'.asked = op.asked
  PROVE  /\ HelperTypes' /\ OneEach' /\ OpInQueue'
         /\ \A kinds : Nothing(kinds)' <=> Nothing(kinds)
<1> USE PanelAssumption
<1>0. HelperTypes /\ Len(queue) \in Nat
  BY Slots DEF IInv
<1>1. /\ queue' \in Seq(Request) /\ Len(queue') = Len(queue)
      /\ \A i \in 1..Len(queue) :
           /\ queue'[i].kind = queue[i].kind /\ queue'[i].addrs = queue[i].addrs
           /\ queue[i].from = client => queue'[i].from = None
           /\ queue[i].from # client => queue'[i].from = queue[i].from
  BY <1>0, HungUp
<1>2. None \notin Clients
  BY DEF Clients
<1>3. HelperTypes'
  BY <1>0, <1>1, <1>2 DEF HelperTypes, Clients
<1>4. \A i \in 1..Len(queue), other \in Clients :
        queue'[i].from = other <=> queue[i].from = other /\ other # client
  BY <1>1, <1>2
<1>5. OneEach'
  <2>1. ASSUME NEW other \in Clients
        PROVE  /\ WaitsFor(other)' <=> \E i \in 1..Len(queue') : queue'[i].from = other
               /\ \A i, j \in 1..Len(queue') : queue'[i].from = other /\ queue'[j].from = other => i = j
    <3>1. CASE other = client
      BY <3>1, <1>1, <1>4
    <3>2. CASE other # client
      BY <3>2, <1>1, <1>4 DEF IInv, OneEach
    <3> QED BY <3>1, <3>2
  <2> QED BY <2>1 DEF OneEach
<1>6. OpInQueue'
  <2>1. "op" \in Clients
    BY DEF Clients
  <2>2. \A i \in 1..Len(queue) : queue'[i].from = "op" => queue[i].from = "op"
    BY <2>1, <1>4
  <2> QED BY <2>2, <1>1 DEF IInv, OpInQueue
<1>7. \A kinds : Nothing(kinds)' <=> Nothing(kinds)
  BY <1>1 DEF Nothing
<1> QED BY <1>3, <1>5, <1>6, <1>7

(* The agent gives up: the answer is a failure and the request stays.      *)
LEMMA OpTimesOutInv ==
  ASSUME IInv, OpTimesOut
  PROVE  IInv'
<1> USE PanelAssumption
<1>1. UNCHANGED <<on, plan, confirm, available, shown, audit, unrecorded, reads, configured, blocked>>
  BY DEF OpTimesOut, panelVars, storeVars
<1>2. OpTypes /\ op.phase \in {"sent", "asked"} /\ busy /\ op.action \in Actions
  BY DEF OpTimesOut, IInv, OpTypes, busy
<1>3. Answer(FALSE, {}) \in Answers /\ Answer(FALSE, {}).ok = FALSE /\ Answer(FALSE, {}).configured = TRUE
  BY DEF Answer, Answers
<1>4. op' = [op EXCEPT !.phase = "answered", !.answer = Answer(FALSE, {})] /\ queue' = Hangup("op")
  BY DEF OpTimesOut
<1>5. /\ op'.phase = "answered" /\ op'.answer = Answer(FALSE, {})
      /\ op'.action = op.action /\ op'.asked = op.asked
  BY <1>2, <1>4 DEF OpTypes
<1>6. PanelTypes'
  BY <1>1 DEF IInv, PanelTypes
<1>7. OpTypes'
  BY <1>1, <1>2, <1>3, <1>4, <1>5 DEF OpTypes, Phases
<1>8. ~WaitsFor("op")' /\ \A other \in Clients \ {"op"} : WaitsFor(other)' <=> WaitsFor(other)
  BY <1>1, <1>5 DEF WaitsFor
<1>9. /\ HelperTypes' /\ OneEach' /\ OpInQueue'
      /\ \A kinds : Nothing(kinds)' <=> Nothing(kinds)
  BY <1>1, <1>4, <1>5, <1>8, HangupHelper DEF Clients
<1>10. AnswerIsTrue'
  BY <1>3, <1>5 DEF AnswerIsTrue
<1>11. UnblockStands' /\ BlockStands'
  BY <1>1, <1>2, <1>3, <1>5, <1>9
  DEF IInv, UnblockStands, BlockStands, Unblocked, Blocking, busy
<1> QED BY <1>6, <1>7, <1>9, <1>10, <1>11 DEF IInv

LEMMA ReadTimesOutInv ==
  ASSUME IInv, NEW r \in Reads, ReadTimesOut(r)
  PROVE  IInv'
<1> USE PanelAssumption
<1>1. UNCHANGED <<on, plan, confirm, available, shown, audit, unrecorded, op, configured, blocked>>
  BY DEF ReadTimesOut, panelVars, storeVars
<1>2. reads \in [Reads -> [phase : Phases, answer : (SUBSET Addrs) \cup {None}]]
  BY DEF IInv, OpTypes
<1>3. reads' = [reads EXCEPT ![r].phase = "answered"] /\ queue' = Hangup(r)
  BY DEF ReadTimesOut
<1>4. /\ reads' \in [Reads -> [phase : Phases, answer : (SUBSET Addrs) \cup {None}]]
      /\ reads'[r].phase = "answered" /\ \A s \in Reads \ {r} : reads'[s] = reads[s]
  BY <1>2, <1>3 DEF Phases
<1>5. PanelTypes'
  BY <1>1 DEF IInv, PanelTypes
<1>6. OpTypes'
  BY <1>1, <1>4 DEF IInv, OpTypes, busy
<1>7. ~WaitsFor(r)' /\ \A other \in Clients \ {r} : WaitsFor(other)' <=> WaitsFor(other)
  BY <1>1, <1>4 DEF WaitsFor, Clients
<1>8. /\ HelperTypes' /\ OneEach' /\ OpInQueue'
      /\ \A kinds : Nothing(kinds)' <=> Nothing(kinds)
  BY <1>1, <1>3, <1>7, HangupHelper DEF Clients
<1>9. AnswerIsTrue' /\ UnblockStands' /\ BlockStands'
  BY <1>1, <1>8 DEF IInv, AnswerIsTrue, UnblockStands, BlockStands, Unblocked, Blocking, busy
<1> QED BY <1>5, <1>6, <1>8, <1>9 DEF IInv

-----------------------------------------------------------------------------
(* The helper                                                              *)

(* The oldest request leaves the queue with its answer: what is known of   *)
(* the others stays, and behind the enforce request there are only lists.  *)
LEMMA DeliverHelper ==
  ASSUME IInv, queue # <<>>, NEW ok \in BOOLEAN, Deliver(queue[1], ok), queue' = Tail(queue),
         blocked' \subseteq Addrs
  PROVE  /\ HelperTypes' /\ OneEach' /\ OpInQueue' /\ OpTypes'
         /\ \A kinds : Nothing(kinds) => Nothing(kinds)'
         /\ 1 \in 1..Len(queue) /\ queue[1] \in Request
         /\ queue[1].from # "op" => op' = op
         /\ queue[1].from = "op" =>
              /\ op.phase = "asked" /\ op'.phase = "answered"
              /\ op'.action = op.action /\ op'.asked = op.asked
              /\ op'.answer = Answer(ok, IF ok THEN AddedBy(queue[1]) ELSE {})
              /\ Nothing({"add", "remove", "clear"})'
<1> USE PanelAssumption
<1> DEFINE q == queue[1]
<1>0. HelperTypes /\ OpTypes /\ OneEach /\ OpInQueue
  BY DEF IInv
<1>1. /\ queue' \in Seq(Request) /\ Len(queue) \in Nat \ {0} /\ Len(queue') = Len(queue) - 1
      /\ \A i \in 1..Len(queue') : queue'[i] = queue[i + 1] /\ i + 1 \in 2..Len(queue)
  BY <1>0, Popped
<1>2. 1 \in 1..Len(queue)
  BY <1>1
<1>3. q \in Request /\ q.from \in Clients \cup {None} /\ q.addrs \subseteq Addrs
  BY <1>0, <1>2, Slots
<1> HIDE DEF q
<1>4. Answer(ok, IF ok THEN AddedBy(q) ELSE {}) \in Answers
  BY <1>3 DEF Answer, AddedBy, Answers
<1>5. /\ op' = IF q.from = "op"
               THEN [op EXCEPT !.phase = "answered", !.answer = Answer(ok, IF ok THEN AddedBy(q) ELSE {})]
               ELSE op
      /\ reads' = IF q.from \in Reads
                  THEN [reads EXCEPT ![q.from] = [phase |-> "answered", answer |-> blocked]]
                  ELSE reads
  BY DEF Deliver, q
<1>6. reads \in [Reads -> [phase : Phases, answer : (SUBSET Addrs) \cup {None}]]
  BY <1>0 DEF OpTypes
<1>7. /\ reads' \in [Reads -> [phase : Phases, answer : (SUBSET Addrs) \cup {None}]]
      /\ \A r \in Reads : /\ r # q.from => reads'[r] = reads[r]
                          /\ r = q.from => reads'[r].phase = "answered"
  <2>1. [phase |-> "answered", answer |-> blocked] \in [phase : Phases, answer : (SUBSET Addrs) \cup {None}]
    BY <1>0 DEF Phases, HelperTypes
  <2> QED BY <1>5, <1>6, <2>1
<1>8. q.from = "op" => op.phase = "asked"
  BY <1>0, <1>2 DEF OneEach, WaitsFor, Clients, q
<1>9. q.from = "op" =>
        /\ op'.phase = "answered" /\ op'.action = op.action /\ op'.asked = op.asked
        /\ op'.answer = Answer(ok, IF ok THEN AddedBy(q) ELSE {})
  BY <1>0, <1>5 DEF OpTypes
<1>10. OpTypes'
  <2>1. CASE q.from # "op"
    BY <2>1, <1>0, <1>5, <1>7 DEF OpTypes, busy
  <2>2. CASE q.from = "op"
    <3>1. op' \in [action : Actions \cup {None}, asked : SUBSET Addrs, phase : Phases,
                   answer : Answers \cup {None}]
      BY <2>2, <1>0, <1>4, <1>5 DEF OpTypes, Phases
    <3> QED BY <2>2, <3>1, <1>0, <1>4, <1>7, <1>8, <1>9 DEF OpTypes, busy
  <2> QED BY <2>1, <2>2
<1>11. HelperTypes'
  BY <1>0, <1>1 DEF HelperTypes
<1>12. \A client \in Clients :
         /\ client = q.from => ~WaitsFor(client)'
         /\ client # q.from => (WaitsFor(client)' <=> WaitsFor(client))
  BY <1>5, <1>7, <1>9 DEF WaitsFor, Clients
<1>13. OneEach'
  <2>1. ASSUME NEW client \in Clients
        PROVE  /\ WaitsFor(client)' <=> \E i \in 1..Len(queue') : queue'[i].from = client
               /\ \A i, j \in 1..Len(queue') : queue'[i].from = client /\ queue'[j].from = client => i = j
    <3>1. \A i, j \in 1..Len(queue) : queue[i].from = client /\ queue[j].from = client => i = j
      BY <1>0 DEF OneEach
    <3>2. ASSUME NEW i \in 1..Len(queue'), NEW j \in 1..Len(queue'),
                 queue'[i].from = client, queue'[j].from = client
          PROVE  i = j
      <4>1. i + 1 \in 1..Len(queue) /\ j + 1 \in 1..Len(queue)
        BY <1>1
      <4>2. i + 1 = j + 1
        BY <3>1, <3>2, <4>1, <1>1
      <4> QED BY <4>2, <1>1
    <3>3. CASE client = q.from
      <4>1. \A i \in 1..Len(queue') : queue'[i].from # client
        <5>1. ASSUME NEW i \in 1..Len(queue'), queue'[i].from = client PROVE FALSE
          <6>1. i + 1 \in 1..Len(queue) /\ queue[i + 1].from = client
            BY <1>1, <5>1
          <6>2. i + 1 = 1
            BY <1>2, <3>1, <3>3, <6>1 DEF q
          <6> QED BY <6>2, <1>1
        <5> QED BY <5>1
      <4> QED BY <3>2, <3>3, <4>1, <1>12
    <3>4. CASE client # q.from
      <4>1. ASSUME NEW i \in 1..Len(queue), queue[i].from = client
            PROVE  \E k \in 1..Len(queue') : queue'[k].from = client
        <5>1. i # 1
          BY <3>4, <4>1 DEF q
        <5>2. i - 1 \in 1..Len(queue') /\ (i - 1) + 1 = i
          BY <5>1, <1>1
        <5>3. queue'[i - 1] = queue[i]
          BY <5>2, <1>1
        <5> QED BY <4>1, <5>2, <5>3
      <4>2. ASSUME NEW k \in 1..Len(queue'), queue'[k].from = client
            PROVE  \E i \in 1..Len(queue) : queue[i].from = client
        <5>1. k + 1 \in 1..Len(queue) /\ queue[k + 1].from = client
          BY <4>2, <1>1
        <5> QED BY <5>1
      <4>3. WaitsFor(client) <=> \E i \in 1..Len(queue) : queue[i].from = client
        BY <1>0 DEF OneEach
      <4> QED BY <3>2, <3>4, <4>1, <4>2, <4>3, <1>12
    <3> QED BY <3>3, <3>4
  <2> QED BY <2>1 DEF OneEach
<1>14. OpInQueue'
  <2> SUFFICES ASSUME NEW i \in 1..Len(queue'), queue'[i].from = "op"
               PROVE  /\ op'.action = "unblock" =>
                           /\ queue'[i].kind = IF op'.asked = {} THEN "clear" ELSE "remove"
                           /\ queue'[i].addrs = op'.asked
                      /\ op'.action # "unblock" => queue'[i].kind = "add"
                      /\ \A j \in 1..Len(queue') : j > i => queue'[j].kind = "list"
    BY DEF OpInQueue
  <2>1. i + 1 \in 1..Len(queue) /\ queue'[i] = queue[i + 1]
    BY <1>1
  <2>2. op'.action = op.action /\ op'.asked = op.asked
    BY <1>5, <1>9
  <2>3. ASSUME NEW j \in 1..Len(queue'), j > i PROVE queue'[j].kind = "list"
    <3>1. j + 1 \in 1..Len(queue) /\ queue'[j] = queue[j + 1] /\ j + 1 > i + 1
      BY <1>1, <2>3
    <3> QED BY <2>1, <3>1, <1>0 DEF OpInQueue
  <2> QED BY <2>1, <2>2, <2>3, <1>0 DEF OpInQueue
<1>15. ASSUME NEW kinds, Nothing(kinds) PROVE Nothing(kinds)'
  <2>1. ASSUME NEW i \in 1..Len(queue') PROVE queue'[i].kind \notin kinds
    <3>1. i + 1 \in 1..Len(queue) /\ queue'[i] = queue[i + 1]
      BY <1>1
    <3> QED BY <3>1, <1>15 DEF Nothing
  <2> QED BY <2>1 DEF Nothing
<1>16. q.from = "op" => Nothing({"add", "remove", "clear"})'
  <2>1. ASSUME q.from = "op", NEW i \in 1..Len(queue') PROVE queue'[i].kind = "list"
    <3>1. i + 1 \in 1..Len(queue) /\ queue'[i] = queue[i + 1] /\ i + 1 > 1
      BY <1>1
    <3> QED BY <2>1, <3>1, <1>0, <1>2 DEF OpInQueue, q
  <2> QED BY <2>1 DEF Nothing
<1> QED BY <1>2, <1>3, <1>5, <1>8, <1>9, <1>10, <1>11, <1>13, <1>14, <1>15, <1>16 DEF q

(* The connection served next is the oldest one.                           *)
LEMMA FirstLeaves ==
  ASSUME HelperTypes, queue # <<>>
  PROVE  Without(1) = Tail(queue)
<1>1. queue \in Seq(Request)
  BY DEF HelperTypes
<1>2. SubSeq(queue, 1, 1 - 1) = <<>>
  BY SubSeqEmpty
<1>3. Tail(queue) = SubSeq(queue, 1 + 1, Len(queue)) /\ Tail(queue) \in Seq(Request)
  BY <1>1, TailIsSubSeq, HeadTailProperties
<1> QED BY <1>2, <1>3, ConcatEmptySeq DEF Without

(* The helper carries out the oldest request.                              *)
LEMMA ServeInv ==
  ASSUME IInv, Serve
  PROVE  IInv'
<1> USE PanelAssumption
<1> DEFINE q == queue[1]
<1>0. HelperTypes /\ queue # <<>> /\ PanelTypes
  BY DEF IInv, Serve
<1>1. /\ UNCHANGED <<on, plan, confirm, available, shown, audit, unrecorded, configured>>
      /\ blocked' = AfterRequest(q) /\ Deliver(q, TRUE) /\ queue' = Tail(queue)
  BY <1>0, FirstLeaves DEF Serve, panelVars, storeVars, NextConnection
<1>2. 1 \in 1..Len(queue)
  BY <1>0, Popped
<1>3. q.kind \in Kinds /\ q.addrs \subseteq Addrs /\ blocked \subseteq Addrs
  BY <1>0, <1>2, Slots DEF HelperTypes
<1>4. /\ q.kind = "add" => blocked' = blocked \cup q.addrs
      /\ q.kind = "remove" => blocked' = blocked \ q.addrs
      /\ q.kind = "clear" => blocked' = {}
      /\ q.kind = "list" => blocked' = blocked
  BY <1>1 DEF AfterRequest
<1>5. blocked' \subseteq Addrs
  BY <1>3, <1>4 DEF Kinds
<1>6. /\ HelperTypes' /\ OneEach' /\ OpInQueue' /\ OpTypes'
      /\ \A kinds : Nothing(kinds) => Nothing(kinds)'
      /\ q.from # "op" => op' = op
      /\ q.from = "op" =>
           /\ op.phase = "asked" /\ op'.phase = "answered"
           /\ op'.action = op.action /\ op'.asked = op.asked
           /\ op'.answer = Answer(TRUE, AddedBy(q))
           /\ Nothing({"add", "remove", "clear"})'
  <2>1. TRUE \in BOOLEAN
    OBVIOUS
  <2> QED BY <2>1, <1>0, <1>1, <1>5, DeliverHelper
<1>7. PanelTypes'
  BY <1>0, <1>1 DEF PanelTypes
<1>8. op'.action = op.action /\ (busy' <=> busy)
  BY <1>6 DEF busy
<1>9. q.kind = "add" => AddedBy(q) = q.addrs \ blocked
  BY DEF AddedBy
<1>10. /\ q.from = "op" /\ op.action = "unblock" =>
            q.kind = (IF op.asked = {} THEN "clear" ELSE "remove") /\ q.addrs = op.asked
       /\ q.from = "op" /\ op.action # "unblock" => q.kind = "add"
  BY <1>2 DEF IInv, OpInQueue
<1> HIDE DEF q
<1>11. AnswerIsTrue'
  <2>1. CASE q.from = "op"
    <3>1. CASE op.action = "unblock"
      <4>1. Unblocked(op.asked)'
        BY <2>1, <3>1, <1>4, <1>6, <1>10 DEF Unblocked
      <4> QED BY <2>1, <3>1, <4>1, <1>6 DEF AnswerIsTrue, Unblocked
    <3>2. CASE op.action # "unblock"
      <4>1. op'.answer.added \subseteq blocked'
        BY <2>1, <3>2, <1>4, <1>6, <1>9, <1>10 DEF Answer
      <4> QED BY <2>1, <3>2, <4>1, <1>6 DEF AnswerIsTrue
    <3> QED BY <3>1, <3>2
  <2>2. CASE q.from # "op"
    <3> SUFFICES ASSUME op.phase = "answered", op.answer.ok
                 PROVE  /\ Nothing({"add", "remove", "clear"})'
                        /\ IF op.action = "unblock" THEN Unblocked(op.asked)'
                           ELSE op.answer.added \subseteq blocked'
      BY <2>2, <1>6 DEF AnswerIsTrue, Unblocked
    <3>1. /\ Nothing({"add", "remove", "clear"})
          /\ IF op.action = "unblock" THEN Unblocked(op.asked) ELSE op.answer.added \subseteq blocked
      BY DEF IInv, AnswerIsTrue
    <3>2. q.kind = "list"
      BY <3>1, <1>2, <1>3 DEF Nothing, Kinds, q
    <3> QED BY <3>1, <3>2, <1>4, <1>6 DEF Unblocked
  <2> QED BY <2>1, <2>2
<1>12. UnblockStands'
  <2> SUFFICES ASSUME audit.ok, audit.action = "unblock", ~Blocking', "block" \notin unrecorded
               PROVE  Unblocked(audit.addrs)' /\ Nothing({"add"})'
    BY <1>1 DEF UnblockStands
  <2>1. ~Blocking
    <3>1. CASE q.from = "op"
      BY <3>1, <1>6 DEF Blocking, Answer
    <3>2. CASE q.from # "op"
      BY <3>2, <1>6 DEF Blocking
    <3> QED BY <3>1, <3>2
  <2>2. Unblocked(audit.addrs) /\ Nothing({"add"})
    BY <2>1 DEF IInv, UnblockStands
  <2>3. q.kind # "add"
    BY <2>2, <1>2 DEF Nothing, q
  <2>4. blocked' \subseteq blocked
    BY <2>3, <1>3, <1>4 DEF Kinds
  <2> QED BY <2>2, <2>4, <1>1, <1>6 DEF Unblocked
<1>13. BlockStands'
  <2> SUFFICES ASSUME audit.ok, audit.action \in {"apply", "block"}, "unblock" \notin unrecorded,
                      ~(busy /\ op.action = "unblock")
               PROVE  audit.addrs \subseteq blocked' /\ Nothing({"remove", "clear"})'
    BY <1>1, <1>8 DEF BlockStands
  <2>1. audit.addrs \subseteq blocked /\ Nothing({"remove", "clear"})
    BY DEF IInv, BlockStands
  <2>2. q.kind \notin {"remove", "clear"}
    BY <2>1, <1>2 DEF Nothing, q
  <2>3. blocked \subseteq blocked'
    BY <2>2, <1>3, <1>4 DEF Kinds
  <2> QED BY <2>1, <2>3, <1>6
<1> QED BY <1>6, <1>7, <1>11, <1>12, <1>13 DEF IInv

(* The firewall refuses it: the set is as it was.                          *)
LEMMA RefuseInv ==
  ASSUME IInv, Refuse
  PROVE  IInv'
<1> DEFINE q == queue[1]
<1>0. HelperTypes /\ queue # <<>> /\ PanelTypes
  BY DEF IInv, Refuse
<1>1. Head(queue) = q
  BY <1>0 DEF HelperTypes
<1>2. /\ UNCHANGED <<on, plan, confirm, available, shown, audit, unrecorded, configured, blocked>>
      /\ Deliver(q, FALSE) /\ queue' = Tail(queue)
  BY <1>1 DEF Refuse, panelVars, storeVars
<1>3. blocked' \subseteq Addrs
  BY <1>0, <1>2 DEF HelperTypes
<1>4. /\ HelperTypes' /\ OneEach' /\ OpInQueue' /\ OpTypes'
      /\ \A kinds : Nothing(kinds) => Nothing(kinds)'
      /\ q.from # "op" => op' = op
      /\ q.from = "op" =>
           /\ op.phase = "asked" /\ op'.phase = "answered"
           /\ op'.action = op.action /\ op'.asked = op.asked
           /\ op'.answer = Answer(FALSE, {})
  <2>1. FALSE \in BOOLEAN
    OBVIOUS
  <2> QED BY <2>1, <1>0, <1>2, <1>3, DeliverHelper
<1> HIDE DEF q
<1>5. PanelTypes'
  BY <1>0, <1>2 DEF PanelTypes
<1>6. op'.action = op.action /\ (busy' <=> busy) /\ (Blocking <=> Blocking')
  BY <1>4 DEF busy, Blocking, Answer
<1>7. AnswerIsTrue'
  <2>1. CASE q.from = "op"
    BY <2>1, <1>4 DEF AnswerIsTrue, Answer
  <2>2. CASE q.from # "op"
    BY <2>2, <1>2, <1>4 DEF IInv, AnswerIsTrue, Unblocked
  <2> QED BY <2>1, <2>2
<1>8. UnblockStands' /\ BlockStands'
  BY <1>2, <1>4, <1>6 DEF IInv, UnblockStands, BlockStands, Unblocked
<1> QED BY <1>4, <1>5, <1>7, <1>8 DEF IInv

-----------------------------------------------------------------------------
(* The store                                                               *)

LEMMA RefreshedInv ==
  ASSUME IInv, NEW r \in Reads, Refreshed(r)
  PROVE  IInv'
<1>1. UNCHANGED <<queue, blocked, audit, unrecorded, op, on, plan, confirm, configured>>
  BY DEF Refreshed, panelVars, helperVars
<1>2. reads \in [Reads -> [phase : Phases, answer : (SUBSET Addrs) \cup {None}]]
  BY DEF IInv, OpTypes
<1>3. reads' = [reads EXCEPT ![r] = [phase |-> "idle", answer |-> None]] /\ reads[r].phase = "answered"
  BY DEF Refreshed
<1>4. /\ reads' \in [Reads -> [phase : Phases, answer : (SUBSET Addrs) \cup {None}]]
      /\ \A s \in Reads : reads'[s].phase = "asked" <=> reads[s].phase = "asked"
  BY <1>2, <1>3 DEF Phases
<1>5. shown' \subseteq Addrs /\ available' \in {"unknown", "yes", "no"}
  <2>1. reads[r].answer \in (SUBSET Addrs) \cup {None}
    BY <1>2
  <2> QED BY <2>1 DEF Refreshed
<1>6. PanelTypes'
  BY <1>1, <1>5 DEF IInv, PanelTypes
<1>7. OpTypes'
  BY <1>1, <1>4 DEF IInv, OpTypes, busy
<1> QED BY <1>1, <1>4, <1>6, <1>7, Undisturbed DEF IInv

(* The answer of the enforce request ends it, and is recorded or not.      *)
LEMMA AnsweredInv ==
  ASSUME IInv, Answered
  PROVE  IInv'
<1> USE PanelAssumption
<1>0. OpTypes /\ PanelTypes
  BY DEF IInv
<1>1. UNCHANGED <<on, plan, confirm, shown, configured, queue, blocked>> /\ op.phase = "answered"
  BY DEF Answered, panelVars, helperVars
<1>2. op.action \in Actions /\ op.answer \in Answers /\ op.asked \subseteq Addrs /\ busy
  BY <1>0, <1>1 DEF OpTypes, busy
<1>3. op' = [action |-> None, asked |-> {}, phase |-> "idle", answer |-> None]
  BY DEF Answered, NoOp
<1>4. op'.phase = "idle" /\ ~busy' /\ ~Blocking'
  BY <1>3 DEF busy, Blocking
<1>5. /\ reads' \in [Reads -> [phase : Phases, answer : (SUBSET Addrs) \cup {None}]]
      /\ \A q \in Reads : reads'[q].phase = "asked" <=> reads[q].phase = "asked"
  <2>1. CASE reads' = reads
    BY <2>1, <1>0 DEF OpTypes
  <2>2. ASSUME NEW r \in Free, reads' = AsReading(r)
        PROVE  /\ reads' \in [Reads -> [phase : Phases, answer : (SUBSET Addrs) \cup {None}]]
               /\ \A q \in Reads : reads'[q].phase = "asked" <=> reads[q].phase = "asked"
    BY <2>2, <1>0, ReadingIs
  <2>3. reads' = reads \/ \E r \in Free : reads' = AsReading(r)
    BY DEF Answered
  <2> QED BY <2>1, <2>2, <2>3
<1>6. available' \in {"unknown", "yes", "no"}
  BY <1>0 DEF Answered, PanelTypes
<1>7. \/ /\ op.answer.ok
         /\ audit' = [action |-> op.action,
                      addrs  |-> IF op.action = "unblock" THEN op.asked ELSE op.answer.added,
                      ok     |-> op.action = "block" => op.answer.added # {}]
         /\ unrecorded' = {}
      \/ audit' = [action |-> op.action, addrs |-> {}, ok |-> FALSE] /\ unrecorded' = {}
      \/ /\ op.action = "unblock" \/ ~op.answer.configured
         /\ audit' = audit /\ unrecorded' = unrecorded \cup ({op.action} \cap {"unblock"})
  BY DEF Answered, Record, Entry, RecordFailure
<1>8. /\ audit' \in [action : Actions \cup {None}, addrs : SUBSET Addrs, ok : BOOLEAN]
      /\ unrecorded' \subseteq {"block", "unblock"}
  <2>1. op.answer.added \subseteq Addrs
    BY <1>2 DEF Answers
  <2>2. CASE audit' = audit /\ unrecorded' = unrecorded \cup ({op.action} \cap {"unblock"})
    BY <2>2, <1>0 DEF PanelTypes
  <2>3. CASE audit' = [action |-> op.action, addrs |-> {}, ok |-> FALSE] /\ unrecorded' = {}
    BY <2>3, <1>2
  <2>4. CASE /\ audit' = [action |-> op.action,
                          addrs  |-> IF op.action = "unblock" THEN op.asked ELSE op.answer.added,
                          ok     |-> op.action = "block" => op.answer.added # {}]
             /\ unrecorded' = {}
    BY <2>1, <2>4, <1>2
  <2> QED BY <2>2, <2>3, <2>4, <1>7
<1>9. PanelTypes'
  BY <1>0, <1>1, <1>6, <1>8 DEF PanelTypes
<1>10. OpTypes'
  BY <1>3, <1>4, <1>5 DEF OpTypes, Phases
<1>11. HelperTypes'
  BY <1>1 DEF IInv, HelperTypes
<1>12. \A client \in Clients : WaitsFor(client)' <=> WaitsFor(client)
  BY <1>1, <1>4, <1>5 DEF WaitsFor, Clients
<1>13. OneEach'
  BY <1>1, <1>12 DEF IInv, OneEach
<1>14. OpInQueue'
  <2>1. ~WaitsFor("op") /\ "op" \in Clients
    BY <1>1 DEF WaitsFor, Clients
  <2>2. \A i \in 1..Len(queue) : queue[i].from # "op"
    BY <2>1 DEF IInv, OneEach
  <2> QED BY <2>2, <1>1 DEF OpInQueue
<1>15. AnswerIsTrue'
  BY <1>4 DEF AnswerIsTrue
<1>16. /\ Nothing({"add"})' <=> Nothing({"add"})
       /\ Nothing({"remove", "clear"})' <=> Nothing({"remove", "clear"})
  BY <1>1 DEF Nothing
<1>17. op.answer.ok =>
         /\ Nothing({"add"}) /\ Nothing({"remove", "clear"})
         /\ IF op.action = "unblock" THEN Unblocked(op.asked) ELSE op.answer.added \subseteq blocked
  BY <1>1 DEF IInv, AnswerIsTrue, Nothing
<1>18. UnblockStands'
  <2> SUFFICES ASSUME audit'.ok, audit'.action = "unblock", "block" \notin unrecorded'
               PROVE  /\ blocked \cap audit'.addrs = {} /\ (audit'.addrs = {} => blocked = {})
                      /\ Nothing({"add"})
    BY <1>1, <1>16 DEF UnblockStands, Unblocked
  <2>1. CASE /\ audit' = audit /\ (op.action = "unblock" \/ ~op.answer.configured)
             /\ unrecorded \subseteq unrecorded'
    <3>1. ~Blocking
      BY <2>1, <1>1 DEF Blocking
    <3>2. "block" \notin unrecorded
      BY <2>1
    <3> QED BY <2>1, <3>1, <3>2 DEF IInv, UnblockStands, Unblocked
  <2>2. CASE /\ op.answer.ok
             /\ audit' = [action |-> op.action,
                          addrs  |-> IF op.action = "unblock" THEN op.asked ELSE op.answer.added,
                          ok     |-> op.action = "block" => op.answer.added # {}]
    BY <2>2, <1>17 DEF Unblocked
  <2> QED BY <2>1, <2>2, <1>7
<1>19. BlockStands'
  <2> SUFFICES ASSUME audit'.ok, audit'.action \in {"apply", "block"}, "unblock" \notin unrecorded'
               PROVE  audit'.addrs \subseteq blocked /\ Nothing({"remove", "clear"})
    BY <1>1, <1>16 DEF BlockStands
  <2>1. CASE audit' = audit /\ unrecorded' = unrecorded \cup ({op.action} \cap {"unblock"})
    <3>1. "unblock" \notin unrecorded /\ op.action # "unblock"
      BY <2>1
    <3> QED BY <2>1, <3>1 DEF IInv, BlockStands
  <2>2. CASE /\ op.answer.ok
             /\ audit' = [action |-> op.action,
                          addrs  |-> IF op.action = "unblock" THEN op.asked ELSE op.answer.added,
                          ok     |-> op.action = "block" => op.answer.added # {}]
    BY <2>2, <1>17
  <2> QED BY <2>1, <2>2, <1>7
<1> QED BY <1>9, <1>10, <1>11, <1>13, <1>14, <1>15, <1>18, <1>19 DEF IInv

(* The log is cleared: there is no entry, and nothing to say of one.       *)
LEMMA ClearAuditInv ==
  ASSUME IInv, clearAudit
  PROVE  IInv'
<1> USE PanelAssumption
<1>1. /\ audit' = NoAudit /\ unrecorded' = {}
      /\ UNCHANGED <<on, plan, confirm, available, shown, op, reads, configured, queue, blocked>>
  BY DEF clearAudit, panelVars, helperVars
<1>2. audit'.ok = FALSE /\ audit' \in [action : Actions \cup {None}, addrs : SUBSET Addrs, ok : BOOLEAN]
  BY <1>1 DEF NoAudit
<1>3. PanelTypes' /\ OpTypes' /\ HelperTypes'
  BY <1>1, <1>2 DEF IInv, PanelTypes, OpTypes, HelperTypes, busy
<1>4. OneEach' /\ OpInQueue' /\ AnswerIsTrue'
  BY <1>1 DEF IInv, OneEach, WaitsFor, OpInQueue, AnswerIsTrue, Nothing, Unblocked
<1>5. UnblockStands' /\ BlockStands'
  BY <1>2 DEF UnblockStands, BlockStands
<1> QED BY <1>3, <1>4, <1>5 DEF IInv

(* What a page that is gone leaves in the queue is nobody's.               *)
LEMMA AbandonedIs ==
  ASSUME HelperTypes
  PROVE  /\ Abandoned \in Seq(Request) /\ Len(Abandoned) = Len(queue) /\ Len(queue) \in Nat
         /\ \A i \in 1..Len(queue) :
              /\ Abandoned[i].from = None
              /\ Abandoned[i].kind = queue[i].kind /\ Abandoned[i].addrs = queue[i].addrs
<1> DEFINE After(i) == [queue[i] EXCEPT !.from = None]
           n == Len(queue)
<1>1. n \in Nat /\ DOMAIN queue = 1..n
  BY DEF HelperTypes
<1>2. ASSUME NEW i \in 1..n
      PROVE  /\ After(i) \in Request /\ After(i).from = None
             /\ After(i).kind = queue[i].kind /\ After(i).addrs = queue[i].addrs
  <2>1. queue[i] \in Request
    BY <1>2, Slots
  <2> QED BY <2>1 DEF Request
<1>3. Abandoned = [i \in 1..n |-> After(i)]
  BY <1>1 DEF Abandoned
<1> HIDE DEF After, n
<1>4. Abandoned \in [1..n -> Request]
  BY <1>2, <1>3
<1>5. Abandoned \in Seq(Request) /\ Len(Abandoned) = n
  BY <1>1, <1>4
<1> QED BY <1>1, <1>2, <1>3, <1>5 DEF n

(* The queue once the page is gone: as it was, with the request that was   *)
(* on its way behind it, or without.                                       *)
LEMMA ReloadQueue ==
  ASSUME IInv, Reload
  PROVE  /\ queue' \in Seq(Request) /\ Len(queue') <= MaxQueue
         /\ \A i \in 1..Len(queue') :
              /\ queue'[i].from = None
              /\ queue'[i].kind \in {"clear", "list"} => queue'[i].addrs = {}
              /\ \/ \E k \in 1..Len(queue) : queue'[i].kind = queue[k].kind
                 \/ busy /\ op.action = "unblock" /\ queue'[i].kind \in {"remove", "clear"}
                 \/ busy /\ op.action # "unblock" /\ queue'[i].kind = "add"
<1> USE PanelAssumption
<1>0. HelperTypes /\ OpTypes
  BY DEF IInv
<1>1. /\ Abandoned \in Seq(Request) /\ Len(Abandoned) = Len(queue) /\ Len(queue) \in Nat
      /\ \A i \in 1..Len(queue) :
           /\ Abandoned[i].from = None
           /\ Abandoned[i].kind = queue[i].kind /\ Abandoned[i].addrs = queue[i].addrs
  BY <1>0, AbandonedIs
<1>2. CASE queue' = Abandoned
  BY <1>0, <1>1, <1>2 DEF HelperTypes
<1>3. ASSUME op.phase = "sent", Len(queue) < MaxQueue,
             NEW request \in Requests, queue' = Append(Abandoned, [request EXCEPT !.from = None])
      PROVE  /\ queue' \in Seq(Request) /\ Len(queue') <= MaxQueue
             /\ \A i \in 1..Len(queue') :
                  /\ queue'[i].from = None
                  /\ queue'[i].kind \in {"clear", "list"} => queue'[i].addrs = {}
                  /\ \/ \E k \in 1..Len(queue) : queue'[i].kind = queue[k].kind
                     \/ busy /\ op.action = "unblock" /\ queue'[i].kind \in {"remove", "clear"}
                     \/ busy /\ op.action # "unblock" /\ queue'[i].kind = "add"
  <2> DEFINE q == [request EXCEPT !.from = None]
  <2>1. op.asked \subseteq Addrs /\ busy
    BY <1>0, <1>3 DEF OpTypes, busy
  <2>2. /\ request \in Request
        /\ request.kind \in {"clear", "list"} => request.addrs = {}
        /\ \/ op.action = "unblock" /\ request.kind \in {"remove", "clear"}
           \/ op.action # "unblock" /\ request.kind = "add"
    BY <1>3, <2>1 DEF Requests, Request, Clients, Kinds
  <2>3. /\ q \in Request /\ q.from = None /\ q.kind = request.kind /\ q.addrs = request.addrs
    BY <2>2 DEF Request
  <2> HIDE DEF q
  <2>4. /\ queue' \in Seq(Request) /\ Len(queue') = Len(queue) + 1
        /\ queue'[Len(queue) + 1] = q
        /\ \A i \in 1..Len(queue) : queue'[i] = Abandoned[i]
    <3>1. queue' = Append(Abandoned, q)
      BY <1>3 DEF q
    <3> HIDE DEF Abandoned
    <3> QED BY <1>1, <2>3, <3>1
  <2>5. ASSUME NEW i \in 1..Len(queue')
        PROVE  /\ queue'[i].from = None
               /\ queue'[i].kind \in {"clear", "list"} => queue'[i].addrs = {}
               /\ \/ \E k \in 1..Len(queue) : queue'[i].kind = queue[k].kind
                  \/ busy /\ op.action = "unblock" /\ queue'[i].kind \in {"remove", "clear"}
                  \/ busy /\ op.action # "unblock" /\ queue'[i].kind = "add"
    <3>1. CASE i \in 1..Len(queue)
      BY <1>0, <1>1, <2>4, <3>1 DEF HelperTypes
    <3>2. CASE i = Len(queue) + 1
      BY <2>1, <2>2, <2>3, <2>4, <3>2
    <3> QED BY <1>1, <2>4, <3>1, <3>2
  <2> QED BY <1>1, <1>3, <2>4, <2>5
<1> QED BY <1>2, <1>3 DEF Reload

(* The page is reloaded: nobody waits, and what was under way is listed as *)
(* unrecorded.                                                             *)
LEMMA ReloadInv ==
  ASSUME IInv, Reload
  PROVE  IInv'
<1> USE PanelAssumption
<1>0. PanelTypes /\ OpTypes /\ HelperTypes
  BY DEF IInv
<1>1. /\ on' = Rules /\ plan' = None /\ confirm' = FALSE /\ available' = "unknown" /\ shown' = {}
      /\ op' = NoOp /\ UNCHANGED <<audit, configured, blocked>>
      /\ unrecorded' = unrecorded \cup (IF busy THEN {OpKind} ELSE {})
  BY DEF Reload
<1>2. /\ op'.phase = "idle" /\ op'.action = None /\ op'.asked = {} /\ op'.answer = None
      /\ ~busy' /\ ~Blocking'
  BY <1>1 DEF NoOp, busy, Blocking
<1>3. /\ reads' \in [Reads -> [phase : Phases, answer : (SUBSET Addrs) \cup {None}]]
      /\ \A r \in Reads : reads'[r].phase # "asked"
  BY FirstReadingIs DEF Reload
<1>4. /\ queue' \in Seq(Request) /\ Len(queue') <= MaxQueue
      /\ \A i \in 1..Len(queue') :
           /\ queue'[i].from = None
           /\ queue'[i].kind \in {"clear", "list"} => queue'[i].addrs = {}
           /\ \/ \E k \in 1..Len(queue) : queue'[i].kind = queue[k].kind
              \/ busy /\ op.action = "unblock" /\ queue'[i].kind \in {"remove", "clear"}
              \/ busy /\ op.action # "unblock" /\ queue'[i].kind = "add"
  BY ReloadQueue
<1>5. PanelTypes'
  BY <1>0, <1>1 DEF PanelTypes, OpKind
<1>6. OpTypes'
  BY <1>1, <1>2, <1>3 DEF OpTypes, NoOp, Phases
<1>7. HelperTypes'
  BY <1>0, <1>1, <1>4 DEF HelperTypes
<1>8. OneEach'
  BY <1>2, <1>3, <1>4 DEF OneEach, WaitsFor, Clients
<1>9. OpInQueue' /\ AnswerIsTrue'
  BY <1>2, <1>4 DEF OpInQueue, AnswerIsTrue
<1>10. UnblockStands'
  <2> SUFFICES ASSUME audit.ok, audit.action = "unblock", "block" \notin unrecorded'
               PROVE  /\ blocked \cap audit.addrs = {} /\ (audit.addrs = {} => blocked = {})
                      /\ Nothing({"add"})'
    BY <1>1 DEF UnblockStands, Unblocked
  <2>1. "block" \notin unrecorded /\ (busy => op.action = "unblock")
    BY <1>1 DEF OpKind
  <2>2. ~Blocking
    BY <2>1 DEF Blocking, busy
  <2>3. Unblocked(audit.addrs) /\ Nothing({"add"})
    BY <2>1, <2>2 DEF IInv, UnblockStands
  <2>4. \A i \in 1..Len(queue') : queue'[i].kind # "add"
    BY <1>4, <2>1, <2>3 DEF Nothing
  <2> QED BY <2>3, <2>4 DEF Unblocked, Nothing
<1>11. BlockStands'
  <2> SUFFICES ASSUME audit.ok, audit.action \in {"apply", "block"}, "unblock" \notin unrecorded'
               PROVE  audit.addrs \subseteq blocked /\ Nothing({"remove", "clear"})'
    BY <1>1 DEF BlockStands
  <2>1. "unblock" \notin unrecorded /\ ~(busy /\ op.action = "unblock")
    BY <1>1 DEF OpKind
  <2>2. audit.addrs \subseteq blocked /\ Nothing({"remove", "clear"})
    BY <2>1 DEF IInv, BlockStands
  <2>3. \A i \in 1..Len(queue') : queue'[i].kind \notin {"remove", "clear"}
    BY <1>4, <2>1, <2>2 DEF Nothing
  <2> QED BY <2>2, <2>3 DEF Nothing
<1> QED BY <1>5, <1>6, <1>7, <1>8, <1>9, <1>10, <1>11 DEF IInv

-----------------------------------------------------------------------------
(* Theorems                                                                *)

(* The inductive invariant holds throughout.                               *)
THEOREM Invariance == Spec => []IInv
<1>1. IInv /\ [Next]_vars => IInv'
  <2> SUFFICES ASSUME IInv, [Next]_vars PROVE IInv'
    OBVIOUS
  <2>1. CASE Panel
    BY <2>1, PanelInv, ButtonInv DEF Panel
  <2>2. CASE Agent
    BY <2>2, ForwardOpInv, OpTimesOutInv, ForwardReadInv, ReadTimesOutInv DEF Agent
  <2>3. CASE StoreStep
    BY <2>3, AnsweredInv, RefreshedInv, ClearAuditInv, ReloadInv DEF StoreStep
  <2>4. CASE UNCHANGED vars
    <3>1. /\ UNCHANGED <<queue, blocked, audit, unrecorded, op, reads>>
          /\ UNCHANGED <<on, plan, confirm, available, shown, configured>>
      BY <2>4 DEF vars, panelVars, storeVars, helperVars
    <3>2. PanelTypes' /\ OpTypes'
      BY <3>1 DEF IInv, PanelTypes, OpTypes, busy
    <3> QED BY <3>1, <3>2, Undisturbed DEF IInv
  <2> QED BY <2>1, <2>2, <2>3, <2>4, ServeInv, RefuseInv DEF Next
<1> QED BY <1>1, InitInv, PTL DEF Spec

(* One request of a client at most, counted.                               *)
LEMMA OneIsCounted ==
  ASSUME IInv, NEW client \in Clients
  PROVE  Cardinality({i \in DOMAIN queue : queue[i].from = client}) = IF WaitsFor(client) THEN 1 ELSE 0
<1> DEFINE S == {i \in DOMAIN queue : queue[i].from = client}
<1>1. DOMAIN queue = 1..Len(queue)
  BY DEF IInv, HelperTypes
<1>2. CASE WaitsFor(client)
  <2>1. PICK i \in 1..Len(queue) : queue[i].from = client
    BY <1>2 DEF IInv, OneEach
  <2>2. \A j \in 1..Len(queue) : queue[j].from = client => j = i
    BY <2>1 DEF IInv, OneEach
  <2>3. S = {i}
    BY <2>1, <2>2, <1>1
  <2>4. Cardinality(S) = 1
    BY <2>3, FS_Singleton
  <2> QED BY <2>4, <1>2
<1>3. CASE ~WaitsFor(client)
  <2>1. S = {}
    BY <1>1, <1>3 DEF IInv, OneEach
  <2>2. Cardinality(S) = 0
    BY <2>1, FS_EmptySet
  <2> QED BY <2>2, <1>3
<1> QED BY <1>2, <1>3

LEMMA TypesFollow == IInv => TypeOK
<1> SUFFICES ASSUME IInv PROVE TypeOK
  OBVIOUS
<1>1. /\ on \subseteq Rules /\ confirm \in BOOLEAN /\ configured \in BOOLEAN
      /\ unrecorded \subseteq {"block", "unblock"}
      /\ plan \in (SUBSET Rules) \cup {None}
      /\ available \in {"unknown", "yes", "no"} /\ shown \subseteq Addrs /\ blocked \subseteq Addrs
      /\ audit.addrs \subseteq Addrs /\ op.asked \subseteq Addrs
      /\ Len(queue) <= MaxQueue
  BY DEF IInv, PanelTypes, OpTypes, HelperTypes
<1>2. ASSUME NEW i \in DOMAIN queue PROVE Requested(queue[i])
  <2>1. i \in 1..Len(queue) /\ HelperTypes
    BY DEF IInv, HelperTypes
  <2>2. queue[i] \in Request /\ (queue[i].kind \in {"clear", "list"} => queue[i].addrs = {})
    BY <2>1, Slots DEF HelperTypes
  <2> QED BY <2>2 DEF Requested, Request, Clients, Kinds
<1>3. ASSUME NEW client \in {"op"} \cup Reads
      PROVE  Cardinality({i \in DOMAIN queue : queue[i].from = client}) =
               (IF client = "op" THEN IF op.phase = "asked" THEN 1 ELSE 0
                ELSE IF reads[client].phase = "asked" THEN 1 ELSE 0)
  <2>1. client \in Clients
    BY DEF Clients
  <2> QED BY <2>1, OneIsCounted DEF WaitsFor
<1> QED BY <1>1, <1>2, <1>3 DEF TypeOK

(* While no request is in flight, the newest entry of the audit log says   *)
(* what the helper's set is, and the queue holds one request at most of    *)
(* each client that still waits (useWardenStore.ts, enforce.rs, server.rs).*)
THEOREM AuditIsKept == Spec => []AuditHolds
<1>1. IInv => AuditIsTrue
  <2> SUFFICES ASSUME IInv, ~busy, audit.ok
               PROVE  CASE audit.action = "unblock" ->
                             \/ "block" \in unrecorded
                             \/ blocked \cap audit.addrs = {} /\ (audit.addrs = {} => blocked = {})
                        [] audit.action \in {"apply", "block"} ->
                             "unblock" \in unrecorded \/ audit.addrs \subseteq blocked
                        [] OTHER -> TRUE
    BY DEF AuditIsTrue
  <2>1. ~Blocking
    BY DEF busy, Blocking
  <2>2. CASE audit.action = "unblock"
    <3>1. "block" \in unrecorded \/ Unblocked(audit.addrs)
      BY <2>1, <2>2 DEF IInv, UnblockStands
    <3> QED BY <2>2, <3>1 DEF Unblocked
  <2>3. CASE audit.action \in {"apply", "block"}
    <3>1. "unblock" \in unrecorded \/ audit.addrs \subseteq blocked
      BY <2>3 DEF IInv, BlockStands
    <3> QED BY <2>3, <3>1
  <2> QED BY <2>2, <2>3
<1>2. IInv => AuditHolds
  BY <1>1, TypesFollow DEF AuditHolds
<1> QED BY <1>2, Invariance, PTL

-----------------------------------------------------------------------------
(***************************************************************************)
(* The positions in the scene, for any flows, groups, modes and numbers of *)
(* commits and of messages in flight: the position of a flow was computed  *)
(* for that flow, and a buffer whose rewrite was skipped holds the present *)
(* positions.                                                              *)
(***************************************************************************)
Placed == Seeds \cup Sims

Managers == [gen : Nat, positions : UNION {[D -> Sims] : D \in SUBSET Nat}, list : World,
             lastById : UNION {[D -> Sims] : D \in SUBSET Flow}, mode : Mode, spread : Nat]
NodeSets == [gen : Nat, list : World, mode : Dynamic, steps : 0..Settle]
Replies == [gen : Nat, positions : UNION {[D -> Sims] : D \in SUBSET Nat}]
Stops == [type : {"stop"}]
Sets == [type : {"set"}, gen : Nat, list : World, mode : Dynamic]

LayoutShape ==
  /\ world \in World /\ drawn \in World /\ layout \in Mode
  /\ effectsDue \in BOOLEAN /\ worker \in BOOLEAN /\ timer \in BOOLEAN
  /\ nodesStale \in BOOLEAN /\ tendrilsStale \in BOOLEAN
  /\ manager \in Managers
  /\ toWorker \in Seq(Stops \cup Sets)
  /\ toMain \in Seq(Replies) /\ Len(toMain) <= MaxPosted
  /\ sim # <<>> => sim \in NodeSets
  /\ timer => sim # <<>> /\ stillTicks < RestTicks
  /\ stillTicks \in 0..RestTicks

(* The positions by index are those of the flows of the list, in order.    *)
OfTheList(list, positions) ==
  \A f \in DOMAIN list :
    IndexOf(list, f) \in DOMAIN positions => positions[IndexOf(list, f)].flow = f

MgrRight(mgr) ==
  /\ OfTheList(mgr.list, mgr.positions)
  /\ \A f \in DOMAIN mgr.lastById : mgr.lastById[f].flow = f

(* A generation has one node set: the list the manager still has if it is  *)
(* the present one.                                                        *)
SetOf(gen, list) == gen <= manager.gen /\ (gen = manager.gen => list = manager.list)

Generations ==
  /\ \A k \in 1..Len(toWorker) :
       toWorker[k] \in Sets => SetOf(toWorker[k].gen, toWorker[k].list)
  /\ sim # <<>> => SetOf(sim.gen, sim.list)
  /\ \A k \in 1..Len(toMain) :
       /\ toMain[k].gen <= manager.gen
       /\ toMain[k].gen = manager.gen => OfTheList(manager.list, toMain[k].positions)

(* A buffer has a position of its own for each flow it was filled with.    *)
Filled(buffer) ==
  /\ buffer \in [DOMAIN drawn -> Placed]
  /\ \A f \in DOMAIN drawn : buffer[f].flow = f

SceneInv ==
  /\ Filled(nodes) /\ Filled(tendrils)
  /\ ~effectsDue => drawn = world
  /\ DrawnIsCurrent

LayoutInv == LayoutShape /\ Generations /\ MgrRight(manager) /\ SceneInv

(* What the last push says is what the manager has, and what it has is the *)
(* last thing the worker is told, or else what it simulates.               *)
Wanted(s) ==
  s.gen = manager.gen /\ s.list = manager.list /\ s.mode = manager.mode

PushedLast ==
  /\ \A m \in Dynamic, w \in World :
       sig = <<m, w>> => manager.mode = m /\ manager.list = w
  /\ ~effectsDue => sig = LayoutSig
  /\ manager.mode # Static =>
       IF toWorker # <<>>
       THEN toWorker[Len(toWorker)] \in Sets /\ Wanted(toWorker[Len(toWorker)])
       ELSE IF manager.list = Empty THEN sim = <<>>
       ELSE sim # <<>> /\ Wanted(sim)

(* The positions of the last step of the present set are the newest reply, *)
(* or else what the manager has; and the timer stops only at rest.         *)
PostedLast ==
  /\ sim # <<>> /\ ~timer => sim.steps = Settle
  /\ sim # <<>> /\ sim.gen = manager.gen /\ manager.mode # Static /\ sim.steps # 0 =>
       IF toMain # <<>>
       THEN toMain[Len(toMain)] = [gen |-> sim.gen, positions |-> Layout(sim)]
       ELSE manager.positions = Layout(sim)

RestInv == PushedLast /\ PostedLast

-----------------------------------------------------------------------------
(* A list is a finite set of flows, each with its group.                   *)
LEMMA ListIs ==
  ASSUME NEW list \in World
  PROVE  /\ DOMAIN list \subseteq Flow /\ DOMAIN list \subseteq Nat
         /\ IsFiniteSet(DOMAIN list) /\ Cardinality(DOMAIN list) \in Nat
         /\ list \in [DOMAIN list -> Group]
<1>1. DOMAIN list \in SUBSET Flow /\ list \in [DOMAIN list -> Group]
  BY DEF World
<1>2. IsFiniteSet(Flow) /\ Flow \subseteq Nat
  BY LayoutAssumption
<1>3. IsFiniteSet(DOMAIN list)
  BY <1>1, <1>2, FS_Subset
<1> QED BY <1>1, <1>2, <1>3, FS_CardinalityType

(* The flows of a list are numbered from 1 to their count, each once.      *)
LEMMA IndexType ==
  ASSUME NEW list \in World, NEW f \in DOMAIN list
  PROVE  IndexOf(list, f) \in 1..Cardinality(DOMAIN list)
<1> DEFINE B == {g \in DOMAIN list : g <= f}
<1>1. /\ IsFiniteSet(DOMAIN list) /\ f \in Nat /\ B \in SUBSET (DOMAIN list)
      /\ Cardinality(DOMAIN list) \in Nat
  BY ListIs
<1>2. IsFiniteSet(B) /\ Cardinality(B) <= Cardinality(DOMAIN list) /\ Cardinality(B) \in Nat
  <2> HIDE DEF B
  <2> QED BY <1>1, FS_Subset, FS_CardinalityType
<1>3. f \in B
  BY <1>1
<1>4. Cardinality(B) # 0
  <2> HIDE DEF B
  <2> QED BY <1>2, <1>3, FS_EmptySet
<1>5. IndexOf(list, f) = Cardinality(B)
  BY DEF IndexOf
<1> HIDE DEF B
<1> QED BY <1>1, <1>2, <1>4, <1>5

LEMMA IndexGrows ==
  ASSUME NEW list \in World, NEW f \in DOMAIN list, NEW g \in DOMAIN list, f < g
  PROVE  IndexOf(list, f) # IndexOf(list, g)
<1> DEFINE A == {h \in DOMAIN list : h <= f}
           B == {h \in DOMAIN list : h <= g}
<1>1. IsFiniteSet(DOMAIN list) /\ DOMAIN list \subseteq Nat /\ f \in Nat /\ g \in Nat
  BY ListIs
<1>2. A \in SUBSET B /\ B \in SUBSET (DOMAIN list)
  BY <1>1
<1>3. g \in B /\ g \notin A
  BY <1>1
<1>4. IndexOf(list, f) = Cardinality(A) /\ IndexOf(list, g) = Cardinality(B)
  BY DEF IndexOf
<1> HIDE DEF A, B
<1>5. IsFiniteSet(B)
  BY <1>1, <1>2, FS_Subset
<1>6. Cardinality(B) = Cardinality(A) => B = A
  BY <1>2, <1>5, FS_Subset
<1> QED BY <1>3, <1>4, <1>6

LEMMA IndexOnce ==
  ASSUME NEW list \in World, NEW f \in DOMAIN list, NEW g \in DOMAIN list,
         IndexOf(list, f) = IndexOf(list, g)
  PROVE  f = g
<1>1. f \in Nat /\ g \in Nat
  BY ListIs
<1>2. f < g \/ g < f \/ f = g
  BY <1>1
<1> QED BY <1>2, IndexGrows

LEMMA IndexAll ==
  ASSUME NEW list \in World, NEW i \in 1..Cardinality(DOMAIN list)
  PROVE  \E f \in DOMAIN list : IndexOf(list, f) = i
<1> DEFINE S == DOMAIN list
           T == 1..Cardinality(S)
           x == [f \in S |-> IndexOf(list, f)]
<1>1. IsFiniteSet(S) /\ Cardinality(S) \in Nat
  BY ListIs
<1>2. x \in [S -> T]
  BY IndexType
<1>3. x \in Injection(S, T)
  <2>1. \A f, g \in S : x[f] = x[g] => f = g
    BY IndexOnce
  <2> HIDE DEF x, S, T
  <2> QED BY <1>2, <2>1 DEF Injection, IsInjective
<1>4. IsFiniteSet(T) /\ Cardinality(T) = Cardinality(S)
  <2> DEFINE c == Cardinality(S)
  <2>1. 1 \in Int /\ c \in Int /\ c \in Nat
    BY <1>1
  <2>2. T = 1..c
    OBVIOUS
  <2> HIDE DEF c, T
  <2>3. IsFiniteSet(1..c) /\ Cardinality(1..c) = IF 1 > c THEN 0 ELSE c - 1 + 1
    BY <2>1, FS_Interval
  <2>4. Cardinality(1..c) = c
    BY <2>1, <2>3
  <2> QED BY <2>2, <2>3, <2>4 DEF c
<1>5. x \in Surjection(S, T)
  <2> HIDE DEF x, S, T
  <2> QED BY <1>3, <1>4, FS_Injection
<1>6. \E f \in S : x[f] = i
  <2>1. i \in T
    OBVIOUS
  <2> HIDE DEF x, S, T
  <2> QED BY <1>5, <2>1 DEF Surjection
<1> QED BY <1>6

(* What the worker posts: a position for each index, of the flow there.    *)
LEMMA LayoutIs ==
  ASSUME NEW s \in NodeSets
  PROVE  /\ Layout(s) \in [1..Cardinality(DOMAIN s.list) -> Sims]
         /\ OfTheList(s.list, Layout(s))
<1> DEFINE n == Cardinality(DOMAIN s.list)
           at(i) == CHOOSE f \in DOMAIN s.list : IndexOf(s.list, f) = i
<1>1. s.list \in World /\ s.mode \in Dynamic /\ s.gen \in Nat /\ s.steps \in 0..Settle
  BY DEF NodeSets
<1>2. ASSUME NEW i \in 1..n PROVE at(i) \in DOMAIN s.list /\ IndexOf(s.list, at(i)) = i
  BY <1>1, IndexAll
<1>3. ASSUME NEW i \in 1..n PROVE Simulated(at(i), s) \in Sims /\ Simulated(at(i), s).flow = at(i)
  <2>1. at(i) \in DOMAIN s.list
    BY <1>2
  <2>2. at(i) \in Flow /\ s.list[at(i)] \in Group
    <3> HIDE DEF at
    <3> QED BY <1>1, <2>1, ListIs
  <2> HIDE DEF at
  <2> QED BY <1>1, <2>2 DEF Simulated, Sims
<1>4. Layout(s) = [i \in 1..n |-> Simulated(at(i), s)]
  BY DEF Layout
<1>5. Layout(s) \in [1..n -> Sims]
  <2> HIDE DEF n, at
  <2> QED BY <1>3, <1>4
<1>6. ASSUME NEW f \in DOMAIN s.list
      PROVE  Layout(s)[IndexOf(s.list, f)].flow = f
  <2>1. IndexOf(s.list, f) \in 1..n
    BY <1>1, IndexType
  <2>2. /\ at(IndexOf(s.list, f)) \in DOMAIN s.list
        /\ IndexOf(s.list, at(IndexOf(s.list, f))) = IndexOf(s.list, f)
    BY <1>2, <2>1
  <2>3. at(IndexOf(s.list, f)) = f
    <3> HIDE DEF at
    <3> QED BY <1>1, <2>2, IndexOnce
  <2> HIDE DEF at, n
  <2> QED BY <1>3, <1>4, <2>1, <2>3
<1> QED BY <1>5, <1>6 DEF OfTheList

-----------------------------------------------------------------------------
(* Whatever mode is asked for, the position of a flow is its own.          *)
LEMMA PositionIs ==
  ASSUME NEW mgr \in Managers, MgrRight(mgr),
         NEW f \in Flow, NEW g \in Group, NEW m \in Mode
  PROVE  Position(mgr, f, g, m) \in Placed /\ Position(mgr, f, g, m).flow = f
<1> DEFINE i == IndexOf(mgr.list, f)
           p == Position(mgr, f, g, m)
<1>1. /\ mgr.spread \in Nat
      /\ \A k \in DOMAIN mgr.positions : mgr.positions[k] \in Sims
      /\ \A h \in DOMAIN mgr.lastById : mgr.lastById[h] \in Sims
  <2>1. /\ mgr.spread \in Nat
        /\ mgr.positions \in UNION {[D -> Sims] : D \in SUBSET Nat}
        /\ mgr.lastById \in UNION {[D -> Sims] : D \in SUBSET Flow}
    BY DEF Managers
  <2> QED BY <2>1
<1>2. \/ f \in DOMAIN mgr.list /\ i \in DOMAIN mgr.positions /\ p = mgr.positions[i]
      \/ f \in DOMAIN mgr.lastById /\ p = mgr.lastById[f]
      \/ p = Seed(f, g, m, mgr.spread)
  BY DEF Position
<1> HIDE DEF p
<1>3. CASE f \in DOMAIN mgr.list /\ i \in DOMAIN mgr.positions /\ p = mgr.positions[i]
  <2>1. p.flow = f
    BY <1>3 DEF MgrRight, OfTheList
  <2> HIDE DEF i
  <2> QED BY <1>1, <1>3, <2>1 DEF Placed, p
<1>4. CASE f \in DOMAIN mgr.lastById /\ p = mgr.lastById[f]
  BY <1>1, <1>4 DEF MgrRight, Placed, p
<1>5. CASE p = Seed(f, g, m, mgr.spread)
  BY <1>1, <1>5 DEF Seed, Seeds, Placed, p
<1> QED BY <1>2, <1>3, <1>4, <1>5

LEMMA PositionsAre ==
  ASSUME NEW mgr \in Managers, MgrRight(mgr), NEW list \in World, NEW m \in Mode
  PROVE  /\ Positions(mgr, list, m) \in [DOMAIN list -> Placed]
         /\ \A f \in DOMAIN list : Positions(mgr, list, m)[f].flow = f
<1>1. ASSUME NEW f \in DOMAIN list
      PROVE  /\ Position(mgr, f, list[f], m) \in Placed
             /\ Position(mgr, f, list[f], m).flow = f
  <2>1. f \in Flow /\ list[f] \in Group
    BY ListIs
  <2> QED BY <2>1, PositionIs
<1> QED BY <1>1 DEF Positions

(* A push takes the positions of the old list by id, and none of the new.  *)
LEMMA PushedIs ==
  ASSUME NEW mgr \in Managers, MgrRight(mgr), NEW list \in World, NEW m \in Mode
  PROVE  /\ Pushed(mgr, list, m) \in Managers /\ MgrRight(Pushed(mgr, list, m))
         /\ Pushed(mgr, list, m).mode = m
         /\ m = Static => /\ Pushed(mgr, list, m).gen = mgr.gen
                          /\ Pushed(mgr, list, m).list = mgr.list
         /\ m # Static => /\ Pushed(mgr, list, m).gen = mgr.gen + 1
                          /\ Pushed(mgr, list, m).list = list
<1> DEFINE S == Snapshot(mgr)
           D == {g \in DOMAIN mgr.list : IndexOf(mgr.list, g) \in DOMAIN mgr.positions}
           n == SpreadFor(Cardinality(DOMAIN list))
           p == Pushed(mgr, list, m)
<1>1. /\ mgr.list \in World /\ mgr.gen \in Nat
      /\ \A k \in DOMAIN mgr.positions : mgr.positions[k] \in Sims
  <2>1. mgr.positions \in UNION {[K -> Sims] : K \in SUBSET Nat}
    BY DEF Managers
  <2>2. mgr.list \in World /\ mgr.gen \in Nat
    BY DEF Managers
  <2>3. \A k \in DOMAIN mgr.positions : mgr.positions[k] \in Sims
    BY <2>1
  <2> QED BY <2>2, <2>3
<1>2. S \in [D -> Sims] /\ D \in SUBSET Flow
  <2>1. DOMAIN mgr.list \subseteq Flow
    BY <1>1, ListIs
  <2> QED BY <1>1, <2>1 DEF Snapshot
<1>3. \A f \in DOMAIN S : S[f].flow = f
  <2>1. \A f \in D : S[f] = mgr.positions[IndexOf(mgr.list, f)]
    BY DEF Snapshot
  <2>2. \A f \in D : mgr.positions[IndexOf(mgr.list, f)].flow = f
    BY DEF MgrRight, OfTheList
  <2> HIDE DEF S, D
  <2> QED BY <1>2, <2>1, <2>2
<1>4. n \in Nat
  BY ListIs DEF SpreadFor
<1>5. p = [gen |-> IF m = Static THEN mgr.gen ELSE mgr.gen + 1, positions |-> <<>>,
           list |-> IF m = Static THEN mgr.list ELSE list,
           lastById |-> S, mode |-> m, spread |-> n]
  <2>1. CASE m = Static
    <3>1. p = [mgr EXCEPT !.mode = m, !.lastById = S, !.spread = n, !.positions = <<>>]
      BY <2>1 DEF Pushed
    <3> HIDE DEF p, S, n
    <3> QED BY <2>1, <3>1 DEF Managers
  <2>2. CASE m # Static
    <3>1. p = [[mgr EXCEPT !.mode = m, !.lastById = S, !.spread = n, !.positions = <<>>]
                 EXCEPT !.gen = @ + 1, !.list = list]
      BY <2>2 DEF Pushed
    <3> HIDE DEF p, S, n
    <3> QED BY <2>2, <3>1 DEF Managers
  <2> QED BY <2>1, <2>2
<1> HIDE DEF S, n, D
<1>6. <<>> \in UNION {[E -> Sims] : E \in SUBSET Nat}
  <2>1. <<>> \in [{} -> Sims] /\ {} \in SUBSET Nat
    OBVIOUS
  <2> QED BY <2>1
<1>7. S \in UNION {[E -> Sims] : E \in SUBSET Flow}
  BY <1>2
<1>8. p \in Managers
  <2> DEFINE gen == IF m = Static THEN mgr.gen ELSE mgr.gen + 1
             kept == IF m = Static THEN mgr.list ELSE list
  <2>1. gen \in Nat /\ kept \in World
    BY <1>1
  <2>2. p = [gen |-> gen, positions |-> <<>>, list |-> kept, lastById |-> S, mode |-> m,
             spread |-> n]
    BY <1>5
  <2> HIDE DEF p, gen, kept
  <2> QED BY <1>4, <1>6, <1>7, <2>1, <2>2 DEF Managers
<1>9. MgrRight(p)
  <2>1. p.positions = <<>> /\ p.lastById = S
    BY <1>5
  <2>2. DOMAIN p.positions = {}
    BY <2>1
  <2> HIDE DEF p
  <2> QED BY <1>3, <2>1, <2>2 DEF MgrRight, OfTheList
<1> QED BY <1>5, <1>8, <1>9

LEMMA AcceptIs ==
  ASSUME LayoutInv, toMain # <<>>
  PROVE  /\ Accept(Head(toMain)) \in Managers /\ MgrRight(Accept(Head(toMain)))
         /\ Accept(Head(toMain)).gen = manager.gen
         /\ Accept(Head(toMain)).list = manager.list
         /\ Accept(Head(toMain)).mode = manager.mode
         /\ Head(toMain).gen = manager.gen =>
              Accept(Head(toMain)).positions = Head(toMain).positions
<1> DEFINE msg == Head(toMain)
           a == Accept(msg)
<1>1. /\ manager \in Managers /\ MgrRight(manager)
      /\ toMain \in Seq(Replies) /\ Len(toMain) \in Nat /\ 1 \in 1..Len(toMain)
      /\ msg = toMain[1] /\ msg \in Replies
  BY DEF LayoutInv, LayoutShape
<1>2. CASE msg.gen # manager.gen
  <2>1. a = manager
    BY <1>2 DEF Accept
  <2> QED BY <1>1, <1>2, <2>1
<1>3. CASE msg.gen = manager.gen
  <2>1. a = [manager EXCEPT !.positions = msg.positions]
    BY <1>3 DEF Accept
  <2>2. OfTheList(manager.list, msg.positions)
    BY <1>1, <1>3 DEF LayoutInv, Generations
  <2> HIDE DEF msg, a
  <2>3. /\ a = [gen |-> manager.gen, positions |-> msg.positions, list |-> manager.list,
                lastById |-> manager.lastById, mode |-> manager.mode,
                spread |-> manager.spread]
        /\ msg.positions \in UNION {[D -> Sims] : D \in SUBSET Nat}
    BY <1>1, <2>1 DEF Managers, Replies
  <2>4. a \in Managers
    BY <1>1, <2>3 DEF Managers
  <2>5. MgrRight(a)
    BY <1>1, <2>2, <2>3 DEF MgrRight
  <2> QED BY <2>3, <2>4, <2>5 DEF a, msg
<1> QED BY <1>2, <1>3

-----------------------------------------------------------------------------
(* One lemma per step.                                                     *)
LEMMA LayoutStarts == LayoutInit => LayoutInv
<1> SUFFICES ASSUME LayoutInit PROVE LayoutInv
  OBVIOUS
<1>1. Empty \in World /\ DOMAIN Empty = {} /\ Empty \in [{} -> Sims] /\ Empty \in [{} -> Placed]
  BY DEF Empty, World
<1>2. <<>> \in [{} -> Sims] /\ DOMAIN <<>> = {}
  OBVIOUS
<1>3. manager \in Managers
  <2>1. manager = [gen |-> 0, positions |-> <<>>, list |-> Empty, lastById |-> Empty,
                   mode |-> Static, spread |-> 1]
    BY DEF LayoutInit
  <2>2. <<>> \in UNION {[D -> Sims] : D \in SUBSET Nat}
    <3>1. {} \in SUBSET Nat
      OBVIOUS
    <3> QED BY <1>2, <3>1
  <2>3. Empty \in UNION {[D -> Sims] : D \in SUBSET Flow}
    <3>1. {} \in SUBSET Flow
      OBVIOUS
    <3> QED BY <1>1, <3>1
  <2>4. Static \in Mode
    BY DEF Mode
  <2> QED BY <1>1, <2>1, <2>2, <2>3, <2>4 DEF Managers
<1>4. LayoutShape
  <2>1. world \in World /\ drawn \in World /\ layout \in Mode
    BY <1>1 DEF LayoutInit
  <2>2. toWorker \in Seq(Stops \cup Sets) /\ toMain \in Seq(Replies) /\ Len(toMain) <= MaxPosted
    BY LayoutAssumption DEF LayoutInit
  <2>3. sim = <<>> /\ timer = FALSE /\ stillTicks \in 0..RestTicks
    BY LayoutAssumption DEF LayoutInit
  <2> QED BY <1>3, <2>1, <2>2, <2>3 DEF LayoutShape, LayoutInit
<1>5. Generations
  BY DEF LayoutInit, Generations
<1>6. MgrRight(manager)
  <2>1. DOMAIN manager.list = {} /\ DOMAIN manager.lastById = {}
    BY <1>1 DEF LayoutInit
  <2> QED BY <2>1 DEF MgrRight, OfTheList
<1>7. SceneInv
  <2>1. DOMAIN drawn = {} /\ nodes = Empty /\ tendrils = Empty
    BY <1>1 DEF LayoutInit
  <2>2. Filled(nodes) /\ Filled(tendrils)
    BY <1>1, <2>1 DEF Filled
  <2> QED BY <2>2 DEF SceneInv, LayoutInit, DrawnIsCurrent
<1> QED BY <1>4, <1>5, <1>6, <1>7 DEF LayoutInv

LEMMA CommitStep ==
  ASSUME LayoutInv, NEW w \in World, NEW m \in Mode, Commit(w, m) PROVE LayoutInv'
<1>1. /\ world' = w /\ layout' = m /\ effectsDue' = TRUE
      /\ UNCHANGED <<manager, toWorker, toMain, worker, sim, timer, stillTicks, drawn, nodes,
                     tendrils, nodesStale, tendrilsStale>>
  BY DEF Commit, workerVars, sceneVars
<1>2. LayoutShape'
  BY <1>1 DEF LayoutInv, LayoutShape
<1>3. Generations' /\ MgrRight(manager)'
  BY <1>1 DEF LayoutInv, Generations, SetOf, MgrRight
<1>4. SceneInv'
  BY <1>1 DEF LayoutInv, SceneInv, Filled, DrawnIsCurrent
<1> QED BY <1>2, <1>3, <1>4 DEF LayoutInv

(* The effects of a commit: a push, when the signature has changed, makes  *)
(* every older generation late.                                            *)
LEMMA EffectsStep == LayoutInv /\ RunEffects => LayoutInv'
<1> SUFFICES ASSUME LayoutInv, RunEffects PROVE LayoutInv'
  OBVIOUS
<1>1. /\ manager \in Managers /\ MgrRight(manager) /\ world \in World /\ layout \in Mode
      /\ toWorker \in Seq(Stops \cup Sets) /\ manager.gen \in Nat
  BY DEF LayoutInv, LayoutShape, Managers
<1>2. /\ effectsDue' = FALSE /\ drawn' = world
      /\ tendrils' = Positions(manager, world, layout)
      /\ nodes' = Positions(manager', world, layout)
      /\ UNCHANGED <<world, layout, toMain, sim, timer, stillTicks>>
  BY DEF RunEffects
<1>3. CASE sig = LayoutSig
  <2>1. UNCHANGED <<manager, toWorker, worker, nodesStale, tendrilsStale>>
    BY <1>3 DEF RunEffects
  <2>2. LayoutShape'
    BY <1>2, <2>1 DEF LayoutInv, LayoutShape
  <2>3. Generations' /\ MgrRight(manager)'
    BY <1>2, <2>1 DEF LayoutInv, Generations, SetOf, MgrRight
  <2>4. Filled(nodes)' /\ Filled(tendrils)'
    BY <1>1, <1>2, <2>1, PositionsAre DEF Filled
  <2>5. SceneInv'
    BY <1>2, <2>1, <2>4 DEF SceneInv, DrawnIsCurrent
  <2> QED BY <2>2, <2>3, <2>5 DEF LayoutInv
<1>4. CASE sig # LayoutSig
  <2> DEFINE msg == Message(manager, world, layout)
  <2>1. /\ manager' = Pushed(manager, world, layout)
        /\ worker' = (worker \/ layout # Static)
        /\ toWorker' = IF worker' THEN Append(toWorker, msg) ELSE toWorker
        /\ nodesStale' = TRUE /\ tendrilsStale' = TRUE
    BY <1>4 DEF RunEffects
  <2>2. /\ manager' \in Managers /\ MgrRight(manager')
        /\ layout = Static => manager'.gen = manager.gen /\ manager'.list = manager.list
        /\ layout # Static => manager'.gen = manager.gen + 1 /\ manager'.list = world
    BY <1>1, <2>1, PushedIs
  <2>3. /\ msg \in Stops \cup Sets
        /\ msg \in Sets => msg.gen = manager'.gen /\ msg.list = manager'.list
    <3>1. CASE layout = Static
      <4>1. msg = [type |-> "stop"]
        BY <3>1 DEF Message
      <4>2. msg \in Stops /\ msg.type # "set"
        BY <4>1 DEF Stops
      <4>3. msg \notin Sets
        BY <4>2 DEF Sets
      <4> QED BY <4>2, <4>3
    <3>2. CASE layout # Static
      <4>1. msg = [type |-> "set", gen |-> manager.gen + 1, list |-> world, mode |-> layout]
        BY <3>2 DEF Message
      <4>2. layout \in Dynamic
        BY <1>1, <3>2 DEF Mode
      <4>3. msg \in Sets
        BY <1>1, <4>1, <4>2 DEF Sets
      <4> QED BY <2>2, <3>2, <4>1, <4>3
    <3> QED BY <3>1, <3>2
  <2> HIDE DEF msg
  <2>4. /\ toWorker' \in Seq(Stops \cup Sets)
        /\ \A k \in 1..Len(toWorker') :
             \/ toWorker'[k] = msg
             \/ k \in 1..Len(toWorker) /\ toWorker'[k] = toWorker[k]
    <3>1. /\ Append(toWorker, msg) \in Seq(Stops \cup Sets)
          /\ Len(Append(toWorker, msg)) = Len(toWorker) + 1
          /\ Append(toWorker, msg)[Len(toWorker) + 1] = msg
          /\ \A k \in 1..Len(toWorker) : Append(toWorker, msg)[k] = toWorker[k]
      BY <1>1, <2>3, AppendProperties
    <3>2. \A k \in 1..(Len(toWorker) + 1) : k = Len(toWorker) + 1 \/ k \in 1..Len(toWorker)
      BY <1>1
    <3> QED BY <1>1, <2>1, <3>1, <3>2
  <2>5. LayoutShape'
    <3>1. worker' \in BOOLEAN
      BY <2>1
    <3> QED BY <1>1, <1>2, <2>1, <2>2, <2>4, <3>1 DEF LayoutInv, LayoutShape
  <2>6. manager'.gen \in Nat /\ manager.gen <= manager'.gen
    BY <1>1, <2>2
  <2>7. ASSUME NEW gen \in Nat, NEW list, SetOf(gen, list)
        PROVE  gen <= manager'.gen /\ (gen = manager'.gen => list = manager'.list)
    BY <1>1, <2>2, <2>7 DEF SetOf
  <2>8. Generations'
    <3>1. ASSUME NEW k \in 1..Len(toWorker'), toWorker'[k] \in Sets
          PROVE  SetOf(toWorker[k].gen, toWorker[k].list)'
      <4>1. CASE toWorker'[k] = msg
        BY <2>3, <2>6, <3>1, <4>1 DEF SetOf
      <4>2. CASE k \in 1..Len(toWorker) /\ toWorker'[k] = toWorker[k]
        <5>1. SetOf(toWorker[k].gen, toWorker[k].list) /\ toWorker[k].gen \in Nat
          BY <3>1, <4>2 DEF LayoutInv, Generations, Sets
        <5> QED BY <2>7, <4>2, <5>1 DEF SetOf
      <4> QED BY <2>4, <4>1, <4>2
    <3>2. sim # <<>> => SetOf(sim.gen, sim.list)'
      <4>1. sim # <<>> => SetOf(sim.gen, sim.list) /\ sim.gen \in Nat
        BY DEF LayoutInv, LayoutShape, Generations, NodeSets
      <4> QED BY <1>2, <2>7, <4>1 DEF SetOf
    <3>3. ASSUME NEW k \in 1..Len(toMain)
          PROVE  /\ toMain[k].gen <= manager'.gen
                 /\ toMain[k].gen = manager'.gen => OfTheList(manager'.list, toMain[k].positions)
      <4>1. /\ toMain[k].gen \in Nat /\ toMain[k].gen <= manager.gen
            /\ toMain[k].gen = manager.gen => OfTheList(manager.list, toMain[k].positions)
        <5>1. toMain[k] \in Replies
          BY DEF LayoutInv, LayoutShape
        <5> QED BY <5>1 DEF LayoutInv, Generations, Replies
      <4> QED BY <1>1, <2>2, <4>1
    <3> QED BY <1>2, <3>1, <3>2, <3>3 DEF Generations
  <2>9. Filled(nodes)' /\ Filled(tendrils)'
    BY <1>1, <1>2, <2>2, PositionsAre DEF Filled
  <2>10. SceneInv'
    BY <1>2, <2>1, <2>9 DEF SceneInv, DrawnIsCurrent
  <2> QED BY <2>2, <2>5, <2>8, <2>10 DEF LayoutInv
<1> QED BY <1>3, <1>4

LEMMA FrameStep == LayoutInv /\ Frame => LayoutInv'
<1> SUFFICES ASSUME LayoutInv, Frame PROVE LayoutInv'
  OBVIOUS
<1>1. /\ manager \in Managers /\ MgrRight(manager) /\ drawn \in World /\ layout \in Mode
      /\ SceneInv
  BY DEF LayoutInv, LayoutShape
<1>2. /\ nodes' = IF nodesStale THEN Positions(manager, drawn, layout) ELSE nodes
      /\ tendrils' = IF tendrilsStale THEN Positions(manager, drawn, layout) ELSE tendrils
      /\ nodesStale' = FALSE /\ tendrilsStale' = FALSE
      /\ UNCHANGED <<world, layout, effectsDue, manager, toWorker, toMain, worker, sim, timer,
                     stillTicks, drawn>>
  BY DEF Frame, workerVars
<1>3. LayoutShape'
  BY <1>2 DEF LayoutInv, LayoutShape
<1>4. Generations' /\ MgrRight(manager)'
  BY <1>2 DEF LayoutInv, Generations, SetOf, MgrRight
<1>5. Filled(Positions(manager, drawn, layout)) /\ Filled(nodes) /\ Filled(tendrils)
  BY <1>1, PositionsAre DEF Filled, SceneInv
<1>6. Filled(nodes') /\ Filled(tendrils')
  BY <1>2, <1>5
<1>7. Filled(nodes)' /\ Filled(tendrils)'
  BY <1>2, <1>6 DEF Filled
<1>8. DrawnIsCurrent'
  <2> SUFFICES ASSUME ~effectsDue, layout # Static
               PROVE  /\ nodes' = Positions(manager, world, layout)
                      /\ tendrils' = Positions(manager, world, layout)
    BY <1>2 DEF DrawnIsCurrent
  <2>1. drawn = world
    BY <1>1 DEF SceneInv
  <2> QED BY <1>1, <1>2, <2>1 DEF SceneInv, DrawnIsCurrent
<1>9. SceneInv'
  BY <1>1, <1>2, <1>7, <1>8 DEF SceneInv
<1> QED BY <1>3, <1>4, <1>9 DEF LayoutInv

LEMMA ReceiveStep == LayoutInv /\ Receive => LayoutInv'
<1> SUFFICES ASSUME LayoutInv, Receive PROVE LayoutInv'
  OBVIOUS
<1> DEFINE msg == Head(toMain)
           bump == msg.gen = manager.gen
<1>1. /\ toMain # <<>> /\ toMain' = Tail(toMain) /\ manager' = Accept(msg)
      /\ nodesStale' = (nodesStale \/ bump) /\ tendrilsStale' = (tendrilsStale \/ bump)
      /\ UNCHANGED <<world, layout, effectsDue, toWorker, worker, sim, timer, stillTicks,
                     drawn, nodes, tendrils>>
  BY DEF Receive, workerVars
<1>2. /\ manager' \in Managers /\ MgrRight(manager')
      /\ manager'.gen = manager.gen /\ manager'.list = manager.list
  BY <1>1, AcceptIs
<1>3. /\ toMain' \in Seq(Replies) /\ Len(toMain') <= MaxPosted
      /\ \A k \in 1..Len(toMain') : k + 1 \in 1..Len(toMain) /\ toMain'[k] = toMain[k + 1]
  <2>1. toMain \in Seq(Replies) /\ Len(toMain) \in Nat /\ Len(toMain) <= MaxPosted
    BY DEF LayoutInv, LayoutShape
  <2>2. /\ Tail(toMain) \in Seq(Replies) /\ Len(Tail(toMain)) = Len(toMain) - 1
        /\ \A k \in 1..Len(Tail(toMain)) : Tail(toMain)[k] = toMain[k + 1]
    BY <1>1, <2>1, HeadTailProperties
  <2> QED BY <1>1, <2>1, <2>2, LayoutAssumption
<1>4. LayoutShape'
  <2>1. nodesStale' \in BOOLEAN /\ tendrilsStale' \in BOOLEAN
    <3> HIDE DEF bump
    <3> QED BY <1>1 DEF LayoutInv, LayoutShape
  <2> QED BY <1>1, <1>2, <1>3, <2>1 DEF LayoutInv, LayoutShape
<1>5. Generations'
  <2>1. ASSUME NEW k \in 1..Len(toMain')
        PROVE  /\ toMain'[k].gen <= manager.gen
               /\ toMain'[k].gen = manager.gen => OfTheList(manager.list, toMain'[k].positions)
    BY <1>3 DEF LayoutInv, Generations
  <2>2. \A gen, list : SetOf(gen, list)' = SetOf(gen, list)
    BY <1>2 DEF SetOf
  <2> QED BY <1>1, <1>2, <2>1, <2>2 DEF LayoutInv, Generations, SetOf
<1>6. Filled(nodes)' /\ Filled(tendrils)'
  BY <1>1 DEF LayoutInv, SceneInv, Filled
<1>7. ~bump => manager' = manager
  BY <1>1 DEF Accept
<1>8. SceneInv'
  <2> HIDE DEF bump
  <2> QED BY <1>1, <1>6, <1>7 DEF LayoutInv, SceneInv, DrawnIsCurrent
<1> QED BY <1>2, <1>4, <1>5, <1>8 DEF LayoutInv

(* What the steps of the worker leave alone.                               *)
LEMMA SceneKept ==
  ASSUME LayoutInv,
         UNCHANGED <<world, layout, effectsDue, manager, drawn, nodes, tendrils, nodesStale,
                     tendrilsStale>>
  PROVE  MgrRight(manager)' /\ SceneInv'
<1>1. MgrRight(manager)'
  BY DEF LayoutInv, MgrRight
<1>2. Filled(nodes)' /\ Filled(tendrils)'
  BY DEF LayoutInv, SceneInv, Filled
<1> QED BY <1>1, <1>2 DEF LayoutInv, SceneInv, DrawnIsCurrent

LEMMA TakeIs ==
  ASSUME LayoutInv, NEW type, Take(type)
  PROVE  /\ Head(toWorker) \in Stops \cup Sets /\ Head(toWorker).type = type
         /\ Head(toWorker) \in Sets => SetOf(Head(toWorker).gen, Head(toWorker).list)
         /\ toWorker' \in Seq(Stops \cup Sets)
         /\ \A k \in 1..Len(toWorker') :
              toWorker'[k] \in Sets => SetOf(toWorker'[k].gen, toWorker'[k].list)
         /\ UNCHANGED <<world, layout, effectsDue, manager, toMain, worker, drawn, nodes, tendrils,
                        nodesStale, tendrilsStale>>
<1>1. /\ toWorker # <<>> /\ Head(toWorker).type = type /\ toWorker' = Tail(toWorker)
      /\ UNCHANGED <<world, layout, effectsDue, manager, toMain, worker, drawn, nodes, tendrils,
                     nodesStale, tendrilsStale>>
  BY DEF Take, sceneVars
<1>2. toWorker \in Seq(Stops \cup Sets) /\ Len(toWorker) \in Nat
  BY DEF LayoutInv, LayoutShape
<1>3. /\ Tail(toWorker) \in Seq(Stops \cup Sets) /\ Len(Tail(toWorker)) = Len(toWorker) - 1
      /\ Head(toWorker) = toWorker[1] /\ 1 \in 1..Len(toWorker)
      /\ \A k \in 1..Len(Tail(toWorker)) : Tail(toWorker)[k] = toWorker[k + 1]
  BY <1>1, <1>2, HeadTailProperties
<1>4. \A k \in 1..Len(toWorker) :
        toWorker[k] \in Sets => SetOf(toWorker[k].gen, toWorker[k].list)
  BY DEF LayoutInv, Generations
<1>5. \A k \in 1..Len(toWorker') : toWorker'[k] = toWorker[k + 1] /\ k + 1 \in 1..Len(toWorker)
  BY <1>1, <1>2, <1>3
<1>6. Head(toWorker) \in Stops \cup Sets
  BY <1>2, <1>3
<1> QED BY <1>1, <1>3, <1>4, <1>5, <1>6

(* The worker takes a message, and has then a set that is what it was told *)
(* or none.                                                                *)
LEMMA TakenStep ==
  ASSUME LayoutInv, NEW type, Take(type),
         \/ sim' = <<>> /\ timer' = FALSE /\ stillTicks' = stillTicks
         \/ /\ sim' \in NodeSets /\ sim' # <<>> /\ SetOf(sim'.gen, sim'.list)
            /\ timer' = TRUE /\ stillTicks' = 0
  PROVE  LayoutInv'
<1>1. /\ toWorker' \in Seq(Stops \cup Sets)
      /\ \A k \in 1..Len(toWorker') :
           toWorker'[k] \in Sets => SetOf(toWorker'[k].gen, toWorker'[k].list)
      /\ UNCHANGED <<world, layout, effectsDue, manager, toMain, worker, drawn, nodes, tendrils,
                     nodesStale, tendrilsStale>>
  BY TakeIs
<1>2. MgrRight(manager)' /\ SceneInv'
  BY <1>1, SceneKept
<1>3. /\ sim' # <<>> => sim' \in NodeSets /\ SetOf(sim'.gen, sim'.list)
      /\ timer' \in BOOLEAN /\ (timer' => sim' # <<>> /\ stillTicks' < RestTicks)
      /\ stillTicks' \in 0..RestTicks
  <2>1. CASE sim' = <<>> /\ timer' = FALSE /\ stillTicks' = stillTicks
    BY <2>1 DEF LayoutInv, LayoutShape
  <2>2. CASE /\ sim' \in NodeSets /\ sim' # <<>> /\ SetOf(sim'.gen, sim'.list)
             /\ timer' = TRUE /\ stillTicks' = 0
    BY <2>2, LayoutAssumption
  <2> QED BY <2>1, <2>2
<1>4. LayoutShape'
  BY <1>1, <1>3 DEF LayoutInv, LayoutShape
<1>5. Generations'
  <2>1. \A gen, list : SetOf(gen, list)' = SetOf(gen, list)
    BY <1>1 DEF SetOf
  <2> QED BY <1>1, <1>3, <2>1 DEF LayoutInv, Generations, SetOf
<1> QED BY <1>2, <1>4, <1>5 DEF LayoutInv

LEMMA StopStep == LayoutInv /\ HandleStop => LayoutInv'
<1> SUFFICES ASSUME LayoutInv, HandleStop PROVE LayoutInv'
  OBVIOUS
<1>1. Take("stop") /\ sim' = <<>> /\ timer' = FALSE /\ stillTicks' = stillTicks
  BY DEF HandleStop, Halt
<1> QED BY <1>1, TakenStep

LEMMA SetStep == LayoutInv /\ HandleSet => LayoutInv'
<1> SUFFICES ASSUME LayoutInv, HandleSet PROVE LayoutInv'
  OBVIOUS
<1> DEFINE msg == Head(toWorker)
<1>1. Take("set")
  BY DEF HandleSet
<1>2. msg \in Stops \cup Sets /\ msg.type = "set" /\ (msg \in Sets => SetOf(msg.gen, msg.list))
  BY <1>1, TakeIs
<1>3. msg \in Sets /\ SetOf(msg.gen, msg.list)
  BY <1>2 DEF Stops
<1>4. CASE msg.list = Empty
  <2>1. sim' = <<>> /\ timer' = FALSE /\ stillTicks' = stillTicks
    BY <1>4 DEF HandleSet, Halt
  <2> QED BY <1>1, <2>1, TakenStep
<1>5. CASE msg.list # Empty
  <2>1. /\ sim' = [gen |-> msg.gen, list |-> msg.list, mode |-> msg.mode, steps |-> 0]
        /\ timer' = TRUE /\ stillTicks' = 0
    BY <1>5 DEF HandleSet
  <2> HIDE DEF msg
  <2>2. sim' \in NodeSets /\ SetOf(sim'.gen, sim'.list)
    BY <1>3, <2>1, LayoutAssumption DEF Sets, NodeSets
  <2>3. sim' # <<>>
    <3>1. "gen" \in DOMAIN sim'
      BY <2>1
    <3> QED BY <3>1
  <2> QED BY <1>1, <2>1, <2>2, <2>3, TakenStep
<1> QED BY <1>4, <1>5

(* A reply carries the generation of the set, and the positions of its     *)
(* flows.                                                                  *)
LEMMA TickStep == LayoutInv /\ Tick => LayoutInv'
<1> SUFFICES ASSUME LayoutInv, Tick PROVE LayoutInv'
  OBVIOUS
<1> DEFINE n == [sim EXCEPT !.steps = IF @ < Settle THEN @ + 1 ELSE @]
           still == IF n = sim THEN stillTicks + 1 ELSE 0
           msg == [gen |-> sim.gen, positions |-> Layout(n)]
<1>1. /\ timer /\ Len(toMain) < MaxPosted
      /\ sim' = n /\ toMain' = Append(toMain, msg)
      /\ stillTicks' = still /\ timer' = (still < RestTicks)
      /\ UNCHANGED <<world, layout, effectsDue, manager, toWorker, worker, drawn, nodes, tendrils,
                     nodesStale, tendrilsStale>>
  BY DEF Tick, sceneVars
<1>2. /\ sim # <<>> /\ sim \in NodeSets /\ SetOf(sim.gen, sim.list)
      /\ stillTicks \in Nat /\ stillTicks < RestTicks
      /\ toMain \in Seq(Replies) /\ Len(toMain) \in Nat
  BY <1>1, LayoutAssumption DEF LayoutInv, LayoutShape, Generations
<1>3. n \in NodeSets /\ n.gen = sim.gen /\ n.list = sim.list
  <2> DEFINE steps == IF sim.steps < Settle THEN sim.steps + 1 ELSE sim.steps
  <2>1. steps \in 0..Settle
    BY <1>2, LayoutAssumption DEF NodeSets
  <2>2. n = [sim EXCEPT !.steps = steps]
    OBVIOUS
  <2> HIDE DEF n, steps
  <2> QED BY <1>2, <2>1, <2>2 DEF NodeSets
<1>4. n # <<>>
  <2>1. "gen" \in DOMAIN n
    BY <1>2 DEF NodeSets
  <2> HIDE DEF n
  <2> QED BY <2>1
<1>5. still \in 0..RestTicks
  <2> HIDE DEF n
  <2> QED BY <1>2, LayoutAssumption
<1> HIDE DEF n, still
<1>6. msg \in Replies /\ OfTheList(sim.list, msg.positions)
  <2>1. /\ Layout(n) \in [1..Cardinality(DOMAIN n.list) -> Sims]
        /\ OfTheList(n.list, Layout(n))
    BY <1>3, LayoutIs
  <2>2. 1..Cardinality(DOMAIN n.list) \in SUBSET Nat
    <3>1. n.list \in World
      BY <1>3 DEF NodeSets
    <3> QED BY <3>1, ListIs
  <2>3. Layout(n) \in UNION {[D -> Sims] : D \in SUBSET Nat}
    BY <2>1, <2>2
  <2>4. sim.gen \in Nat
    BY <1>2 DEF NodeSets
  <2> QED BY <1>3, <2>1, <2>3, <2>4 DEF Replies
<1>7. msg.gen = sim.gen
  OBVIOUS
<1> HIDE DEF msg
<1>8. /\ toMain' \in Seq(Replies) /\ Len(toMain') <= MaxPosted
      /\ \A k \in 1..Len(toMain') :
           \/ toMain'[k] = msg
           \/ k \in 1..Len(toMain) /\ toMain'[k] = toMain[k]
  <2>1. /\ Append(toMain, msg) \in Seq(Replies)
        /\ Len(Append(toMain, msg)) = Len(toMain) + 1
        /\ Append(toMain, msg)[Len(toMain) + 1] = msg
        /\ \A k \in 1..Len(toMain) : Append(toMain, msg)[k] = toMain[k]
    BY <1>2, <1>6, AppendProperties
  <2>2. \A k \in 1..(Len(toMain) + 1) : k = Len(toMain) + 1 \/ k \in 1..Len(toMain)
    BY <1>2
  <2>3. Len(toMain) + 1 <= MaxPosted
    BY <1>1, <1>2, LayoutAssumption
  <2> QED BY <1>1, <2>1, <2>2, <2>3
<1>9. LayoutShape'
  <2>1. timer' \in BOOLEAN /\ (timer' => stillTicks' < RestTicks)
    <3>1. timer' = (still < RestTicks) /\ stillTicks' = still
      BY <1>1
    <3>2. timer' \in BOOLEAN
      BY <3>1
    <3>3. timer' => stillTicks' < RestTicks
      BY <3>1
    <3> QED BY <3>2, <3>3
  <2> QED BY <1>1, <1>3, <1>4, <1>5, <1>8, <2>1 DEF LayoutInv, LayoutShape
<1>10. Generations'
  <2>1. ASSUME NEW k \in 1..Len(toMain')
        PROVE  /\ toMain'[k].gen <= manager.gen
               /\ toMain'[k].gen = manager.gen => OfTheList(manager.list, toMain'[k].positions)
    <3>1. CASE toMain'[k] = msg
      BY <1>2, <1>6, <1>7, <3>1 DEF SetOf
    <3>2. CASE k \in 1..Len(toMain) /\ toMain'[k] = toMain[k]
      BY <3>2 DEF LayoutInv, Generations
    <3> QED BY <1>8, <3>1, <3>2
  <2>2. SetOf(sim'.gen, sim'.list)
    BY <1>1, <1>2, <1>3
  <2>3. \A gen, list : SetOf(gen, list)' = SetOf(gen, list)
    BY <1>1 DEF SetOf
  <2> QED BY <1>1, <2>1, <2>2, <2>3 DEF LayoutInv, Generations, SetOf
<1>11. MgrRight(manager)' /\ SceneInv'
  BY <1>1, SceneKept
<1> QED BY <1>9, <1>10, <1>11 DEF LayoutInv

-----------------------------------------------------------------------------
LEMMA LayoutSteps == LayoutInv /\ [LayoutNext]_layoutVars => LayoutInv'
<1> SUFFICES ASSUME LayoutInv, [LayoutNext]_layoutVars PROVE LayoutInv'
  OBVIOUS
<1>1. ASSUME NEW w \in World, NEW m \in Mode, Commit(w, m) PROVE LayoutInv'
  BY <1>1, CommitStep
<1>2. CASE RunEffects
  BY <1>2, EffectsStep
<1>3. CASE Frame
  BY <1>3, FrameStep
<1>4. CASE Receive
  BY <1>4, ReceiveStep
<1>5. CASE Worker
  BY <1>5, StopStep, SetStep DEF Worker
<1>6. CASE Tick
  BY <1>6, TickStep
<1>7. CASE UNCHANGED layoutVars
  <2>1. UNCHANGED <<world, layout, effectsDue, manager, toWorker, toMain, worker, sim, timer,
                    stillTicks, drawn, nodes, tendrils, nodesStale, tendrilsStale>>
    BY <1>7 DEF layoutVars, workerVars, sceneVars
  <2>2. MgrRight(manager)' /\ SceneInv'
    BY <2>1, SceneKept
  <2>3. LayoutShape'
    BY <2>1 DEF LayoutInv, LayoutShape
  <2>4. Generations'
    BY <2>1 DEF LayoutInv, Generations, SetOf
  <2> QED BY <2>2, <2>3, <2>4 DEF LayoutInv
<1> QED BY <1>1, <1>2, <1>3, <1>4, <1>5, <1>6, <1>7 DEF LayoutNext

LEMMA LayoutInvImplies == LayoutInv => DrawnRight
<1> SUFFICES ASSUME LayoutInv PROVE DrawnRight
  OBVIOUS
<1>1. /\ LayoutShape /\ MgrRight(manager) /\ manager \in Managers
      /\ Filled(nodes) /\ Filled(tendrils) /\ DrawnIsCurrent
  BY DEF LayoutInv, LayoutShape, SceneInv
<1>2. LayoutTypes
  <2>1. /\ manager.positions \in UNION {[D -> Sims] : D \in SUBSET Nat}
        /\ manager.lastById \in UNION {[D -> Sims] : D \in SUBSET Flow}
        /\ manager.list \in World /\ manager.mode \in Mode
    BY <1>1 DEF Managers
  <2>2. /\ \A i \in DOMAIN manager.positions : manager.positions[i] \in Sims
        /\ \A f \in DOMAIN manager.lastById : manager.lastById[f] \in Sims
    BY <2>1
  <2>3. /\ DOMAIN nodes = DOMAIN drawn /\ DOMAIN tendrils = DOMAIN drawn
        /\ \A f \in DOMAIN drawn : {nodes[f], tendrils[f]} \subseteq Seeds \cup Sims
    BY <1>1 DEF Filled, Placed
  <2>4. {effectsDue, worker, timer, nodesStale, tendrilsStale} \subseteq BOOLEAN
    BY <1>1 DEF LayoutShape
  <2> QED BY <1>1, <2>1, <2>2, <2>3, <2>4 DEF LayoutTypes, LayoutShape
<1>3. RightNode
  <2>1. \A f \in Flow, g \in Group, m \in Mode : Position(manager, f, g, m).flow = f
    BY <1>1, PositionIs
  <2> QED BY <1>1, <2>1 DEF RightNode, Filled
<1> QED BY <1>1, <1>2, <1>3 DEF DrawnRight

THEOREM LayoutInvariance == LayoutSpec => []LayoutInv
<1>1. LayoutInit => LayoutInv
  BY LayoutStarts
<1>2. LayoutInv /\ [LayoutNext]_layoutVars => LayoutInv'
  BY LayoutSteps
<1> QED BY <1>1, <1>2, PTL DEF LayoutSpec

(* Whatever is in flight between the threads when worlds and modes change, *)
(* the position of a flow was computed for that flow, and a buffer whose   *)
(* rewrite was skipped is that of the present positions (forceLayout.ts,   *)
(* forceWorker.ts, OrganismNodes, TendrilField).                           *)
THEOREM DrawnHolds == LayoutSpec => []DrawnRight
<1>1. LayoutInv => DrawnRight
  BY LayoutInvImplies
<1> QED BY <1>1, LayoutInvariance, PTL

-----------------------------------------------------------------------------
(* The drawing that nobody will change any more                            *)

LEMMA RestStarts == LayoutInit => RestInv
<1> SUFFICES ASSUME LayoutInit PROVE RestInv
  OBVIOUS
<1>1. /\ sig = <<>> /\ effectsDue = TRUE /\ sim = <<>> /\ manager.mode = Static
  BY DEF LayoutInit
<1>2. \A m \in Dynamic, w \in World : sig # <<m, w>>
  BY <1>1
<1> QED BY <1>1, <1>2 DEF RestInv, PushedLast, PostedLast

(* What was pushed last counts only while none of this changes.            *)
LEMMA RestKept ==
  ASSUME RestInv, effectsDue' = effectsDue \/ effectsDue' = TRUE,
         ~effectsDue' => UNCHANGED <<world, layout>>,
         UNCHANGED <<sig, manager, toWorker, toMain, sim, timer>>
  PROVE  RestInv'
<1>1. ~effectsDue' => LayoutSig' = LayoutSig
  BY DEF LayoutSig
<1>2. PushedLast'
  BY <1>1 DEF RestInv, PushedLast, Wanted
<1>3. PostedLast'
  BY DEF RestInv, PostedLast
<1> QED BY <1>2, <1>3 DEF RestInv

LEMMA RestEffects ==
  ASSUME LayoutInv, RestInv, RunEffects PROVE RestInv'
<1>1. /\ sig' = LayoutSig /\ UNCHANGED <<world, layout, toMain, sim, timer>>
      /\ IF sig = LayoutSig
         THEN UNCHANGED <<manager, toWorker, worker>>
         ELSE /\ manager' = Pushed(manager, world, layout)
              /\ worker' = (worker \/ layout # Static)
              /\ toWorker' = IF worker' THEN Append(toWorker, Message(manager, world, layout))
                                        ELSE toWorker
  BY DEF RunEffects
<1>2. LayoutSig' = LayoutSig
  BY <1>1 DEF LayoutSig
<1>3. CASE sig = LayoutSig
  <2>1. UNCHANGED <<sig, manager, toWorker>>
    BY <1>1, <1>3
  <2>2. PushedLast'
    BY <1>1, <1>2, <2>1 DEF RestInv, PushedLast, Wanted
  <2>3. PostedLast'
    BY <1>1, <2>1 DEF RestInv, PostedLast
  <2> QED BY <2>2, <2>3 DEF RestInv
<1>4. CASE sig # LayoutSig
  <2>1. /\ manager \in Managers /\ MgrRight(manager) /\ world \in World /\ layout \in Mode
        /\ toWorker \in Seq(Stops \cup Sets) /\ worker \in BOOLEAN
        /\ sim # <<>> => sim.gen <= manager.gen /\ sim.gen \in Nat
    BY DEF LayoutInv, LayoutShape, Generations, SetOf, NodeSets
  <2>2. /\ manager'.mode = layout
        /\ layout # Static => manager'.gen = manager.gen + 1 /\ manager'.list = world
    BY <1>1, <1>4, <2>1, PushedIs
  <2>3. ASSUME NEW m \in Dynamic, NEW w \in World, sig' = <<m, w>>
        PROVE  manager'.mode = m /\ manager'.list = w
    <3>1. CASE layout = Static
      <4>1. sig'[1] = Static /\ sig'[1] = m
        BY <1>1, <2>3, <3>1 DEF LayoutSig
      <4> QED BY <4>1, LayoutAssumption
    <3>2. CASE layout # Static
      <4>1. layout = m /\ world = w
        BY <1>1, <2>3, <3>2 DEF LayoutSig
      <4> QED BY <2>2, <3>2, <4>1
    <3> QED BY <3>1, <3>2
  <2>4. ASSUME layout # Static
        PROVE  /\ toWorker' # <<>>
               /\ toWorker'[Len(toWorker')] \in Sets /\ Wanted(toWorker[Len(toWorker)])'
    <3> DEFINE msg == Message(manager, world, layout)
    <3>1. msg = [type |-> "set", gen |-> manager.gen + 1, list |-> world, mode |-> layout]
      BY <2>4 DEF Message
    <3>2. layout \in Dynamic /\ manager.gen \in Nat
      BY <2>1, <2>4 DEF Mode, Managers
    <3>3. msg \in Sets
      BY <2>1, <3>1, <3>2 DEF Sets
    <3>4. msg.gen = manager.gen + 1 /\ msg.list = world /\ msg.mode = layout
      BY <3>1
    <3>5. toWorker' = Append(toWorker, msg)
      BY <1>1, <1>4, <2>4
    <3> HIDE DEF msg
    <3>6. /\ Len(toWorker') = Len(toWorker) + 1 /\ Len(toWorker) \in Nat
          /\ toWorker'[Len(toWorker) + 1] = msg
      BY <2>1, <3>3, <3>5, AppendProperties
    <3>7. toWorker' # <<>> /\ toWorker'[Len(toWorker')] = msg
      BY <3>6
    <3>8. Wanted(toWorker[Len(toWorker)])'
      BY <2>2, <2>4, <3>4, <3>7 DEF Wanted
    <3> QED BY <3>3, <3>7, <3>8
  <2>5. PushedLast'
    BY <1>1, <1>2, <2>2, <2>3, <2>4 DEF PushedLast
  <2>6. PostedLast'
    <3>1. sim # <<>> /\ layout # Static => sim.gen # manager'.gen
      <4>1. manager.gen \in Nat
        BY <2>1 DEF Managers
      <4> QED BY <2>1, <2>2, <4>1
    <3> QED BY <1>1, <2>2, <3>1 DEF RestInv, PostedLast
  <2> QED BY <2>5, <2>6 DEF RestInv
<1> QED BY <1>3, <1>4

LEMMA RestReceive ==
  ASSUME LayoutInv, RestInv, Receive PROVE RestInv'
<1> DEFINE msg == Head(toMain)
           n == Len(toMain)
<1>1. /\ toMain # <<>> /\ toMain' = Tail(toMain) /\ manager' = Accept(msg)
      /\ UNCHANGED <<world, layout, effectsDue, sig, toWorker, sim, timer>>
  BY DEF Receive, workerVars
<1>2. /\ manager'.gen = manager.gen /\ manager'.list = manager.list
      /\ manager'.mode = manager.mode
      /\ msg.gen = manager.gen => manager'.positions = msg.positions
  BY <1>1, AcceptIs
<1>3. /\ n \in Nat /\ n # 0 /\ msg = toMain[1] /\ Len(toMain') = n - 1
      /\ \A k \in 1..(n - 1) : toMain'[k] = toMain[k + 1]
      /\ toMain' # <<>> <=> n # 1
  <2>1. toMain \in Seq(Replies) /\ n \in Nat
    BY DEF LayoutInv, LayoutShape
  <2>2. n # 0 /\ msg = toMain[1]
    BY <1>1, <2>1
  <2>3. /\ Tail(toMain) \in Seq(Replies) /\ Len(Tail(toMain)) = n - 1
        /\ \A k \in 1..Len(Tail(toMain)) : Tail(toMain)[k] = toMain[k + 1]
    BY <1>1, <2>1, HeadTailProperties
  <2>4. Tail(toMain) = <<>> <=> Len(Tail(toMain)) = 0
    BY <2>3, EmptySeq
  <2> HIDE DEF n, msg
  <2> QED BY <1>1, <2>1, <2>2, <2>3, <2>4
<1>4. PushedLast'
  <2>1. LayoutSig' = LayoutSig
    BY <1>1 DEF LayoutSig
  <2> HIDE DEF msg
  <2> QED BY <1>1, <1>2, <2>1 DEF RestInv, PushedLast, Wanted
<1>5. ASSUME sim # <<>>, sim.gen = manager.gen, manager.mode # Static, sim.steps # 0
      PROVE  IF toMain' # <<>>
             THEN toMain'[Len(toMain')] = [gen |-> sim.gen, positions |-> Layout(sim)]
             ELSE manager'.positions = Layout(sim)
  <2> DEFINE last == [gen |-> sim.gen, positions |-> Layout(sim)]
  <2>1. toMain[n] = last
    BY <1>1, <1>5 DEF RestInv, PostedLast
  <2>2. last.gen = sim.gen /\ last.positions = Layout(sim)
    OBVIOUS
  <2>3. CASE n = 1
    <3>1. msg = last
      BY <1>3, <2>1, <2>3
    <3> HIDE DEF last, msg, n
    <3> QED BY <1>2, <1>3, <1>5, <2>2, <2>3, <3>1
  <2>4. CASE n # 1
    <3> HIDE DEF last, msg, n
    <3>1. n - 1 \in 1..(n - 1) /\ (n - 1) + 1 = n
      BY <1>3, <2>4
    <3>2. toMain'[n - 1] = last
      BY <1>3, <2>1, <3>1
    <3> QED BY <1>3, <2>4, <3>2 DEF last
  <2> QED BY <2>3, <2>4
<1>6. PostedLast'
  <2> HIDE DEF msg, n
  <2> QED BY <1>1, <1>2, <1>5 DEF RestInv, PostedLast
<1> QED BY <1>4, <1>6 DEF RestInv

(* The last message stays the last until it is the one that is taken.      *)
LEMMA LastTaken ==
  ASSUME LayoutInv, NEW type, Take(type)
  PROVE  /\ toWorker # <<>>
         /\ IF toWorker' # <<>> THEN toWorker'[Len(toWorker')] = toWorker[Len(toWorker)]
                                ELSE Head(toWorker) = toWorker[Len(toWorker)]
         /\ UNCHANGED <<world, layout, effectsDue, sig, manager, toMain>>
<1> DEFINE n == Len(toWorker)
<1>1. /\ toWorker # <<>> /\ toWorker' = Tail(toWorker)
      /\ UNCHANGED <<world, layout, effectsDue, sig, manager, toMain>>
  BY DEF Take
<1>2. toWorker \in Seq(Stops \cup Sets) /\ n \in Nat
  BY DEF LayoutInv, LayoutShape
<1>3. n # 0 /\ Head(toWorker) = toWorker[1]
  BY <1>1, <1>2
<1>4. /\ toWorker' \in Seq(Stops \cup Sets) /\ Len(toWorker') = n - 1
      /\ \A k \in 1..Len(toWorker') : toWorker'[k] = toWorker[k + 1]
  BY <1>1, <1>2, HeadTailProperties
<1>5. toWorker' = <<>> <=> Len(toWorker') = 0
  BY <1>4, EmptySeq
<1>6. CASE n = 1
  <2> HIDE DEF n
  <2> QED BY <1>1, <1>3, <1>4, <1>5, <1>6 DEF n
<1>7. CASE n # 1
  <2> HIDE DEF n
  <2>1. n - 1 \in 1..Len(toWorker') /\ (n - 1) + 1 = n
    BY <1>2, <1>3, <1>4, <1>7
  <2>2. toWorker'[n - 1] = toWorker[n]
    BY <1>4, <2>1
  <2> QED BY <1>1, <1>2, <1>3, <1>4, <1>5, <1>7, <2>2 DEF n
<1> QED BY <1>6, <1>7

LEMMA RestStop ==
  ASSUME LayoutInv, RestInv, HandleStop PROVE RestInv'
<1>1. Take("stop") /\ sim' = <<>>
  BY DEF HandleStop, Halt
<1>2. /\ toWorker # <<>>
      /\ IF toWorker' # <<>> THEN toWorker'[Len(toWorker')] = toWorker[Len(toWorker)]
                             ELSE Head(toWorker) = toWorker[Len(toWorker)]
      /\ UNCHANGED <<world, layout, effectsDue, sig, manager, toMain>>
      /\ Head(toWorker).type = "stop"
  BY <1>1, LastTaken DEF Take
<1>3. manager.mode # Static => toWorker' # <<>>
  <2> SUFFICES ASSUME manager.mode # Static, toWorker' = <<>> PROVE FALSE
    OBVIOUS
  <2>1. Head(toWorker) \in Sets
    BY <1>2 DEF RestInv, PushedLast
  <2> QED BY <1>2, <2>1 DEF Sets
<1>4. LayoutSig' = LayoutSig
  BY <1>2 DEF LayoutSig
<1>5. PushedLast'
  BY <1>2, <1>3, <1>4 DEF RestInv, PushedLast, Wanted
<1>6. PostedLast'
  BY <1>1 DEF PostedLast
<1> QED BY <1>5, <1>6 DEF RestInv

LEMMA RestSet ==
  ASSUME LayoutInv, RestInv, HandleSet PROVE RestInv'
<1> DEFINE msg == Head(toWorker)
<1>1. /\ Take("set")
      /\ \/ msg.list = Empty /\ sim' = <<>>
         \/ /\ msg.list # Empty /\ timer' = TRUE
            /\ sim' = [gen |-> msg.gen, list |-> msg.list, mode |-> msg.mode, steps |-> 0]
  BY DEF HandleSet, Halt
<1>2. /\ toWorker # <<>>
      /\ IF toWorker' # <<>> THEN toWorker'[Len(toWorker')] = toWorker[Len(toWorker)]
                             ELSE msg = toWorker[Len(toWorker)]
      /\ UNCHANGED <<world, layout, effectsDue, sig, manager, toMain>>
  BY <1>1, LastTaken
<1>3. ASSUME manager.mode # Static, toWorker' = <<>>
      PROVE  IF manager.list = Empty THEN sim' = <<>> ELSE sim' # <<>> /\ Wanted(sim)'
  <2>1. Wanted(msg)
    BY <1>2, <1>3 DEF RestInv, PushedLast
  <2> HIDE DEF msg
  <2>2. CASE msg.list = Empty /\ sim' = <<>>
    BY <2>1, <2>2 DEF Wanted
  <2>3. CASE /\ msg.list # Empty
             /\ sim' = [gen |-> msg.gen, list |-> msg.list, mode |-> msg.mode, steps |-> 0]
    <3>1. sim'.gen = msg.gen /\ sim'.list = msg.list /\ sim'.mode = msg.mode
          /\ "gen" \in DOMAIN sim'
      BY <2>3
    <3>2. sim' # <<>>
      BY <3>1
    <3> QED BY <1>2, <2>1, <2>3, <3>1, <3>2 DEF Wanted
  <2> QED BY <1>1, <2>2, <2>3
<1>4. LayoutSig' = LayoutSig
  BY <1>2 DEF LayoutSig
<1>5. PushedLast'
  <2>1. manager.mode # Static /\ toWorker' # <<>> =>
          toWorker'[Len(toWorker')] \in Sets /\ Wanted(toWorker[Len(toWorker)])'
    BY <1>2 DEF RestInv, PushedLast, Wanted
  <2> HIDE DEF msg
  <2> QED BY <1>2, <1>3, <1>4, <2>1 DEF RestInv, PushedLast
<1>6. PostedLast'
  <2> HIDE DEF msg
  <2>1. sim' # <<>> => timer' = TRUE /\ sim'.steps = 0
    BY <1>1
  <2> QED BY <2>1 DEF PostedLast
<1> QED BY <1>5, <1>6 DEF RestInv

LEMMA RestTick ==
  ASSUME LayoutInv, RestInv, Tick PROVE RestInv'
<1> DEFINE n == [sim EXCEPT !.steps = IF @ < Settle THEN @ + 1 ELSE @]
           still == IF n = sim THEN stillTicks + 1 ELSE 0
           msg == [gen |-> sim.gen, positions |-> Layout(n)]
<1>1. /\ timer /\ sim' = n /\ toMain' = Append(toMain, msg) /\ timer' = (still < RestTicks)
      /\ UNCHANGED <<world, layout, effectsDue, sig, manager, toWorker>>
  BY DEF Tick
<1>2. sim # <<>> /\ sim \in NodeSets /\ stillTicks \in Nat /\ toMain \in Seq(Replies)
  BY <1>1, LayoutAssumption DEF LayoutInv, LayoutShape
<1>3. /\ n.gen = sim.gen /\ n.list = sim.list /\ n.mode = sim.mode /\ n # <<>>
      /\ n.steps = IF sim.steps < Settle THEN sim.steps + 1 ELSE sim.steps
  <2> DEFINE steps == IF sim.steps < Settle THEN sim.steps + 1 ELSE sim.steps
  <2>1. n = [sim EXCEPT !.steps = steps]
    OBVIOUS
  <2> HIDE DEF n, steps
  <2>2. /\ n.gen = sim.gen /\ n.list = sim.list /\ n.mode = sim.mode /\ n.steps = steps
        /\ "gen" \in DOMAIN n
    BY <1>2, <2>1 DEF NodeSets
  <2> QED BY <2>2 DEF steps
<1>4. ~timer' => n.steps = Settle
  <2> HIDE DEF n
  <2> SUFFICES ASSUME ~timer' PROVE n.steps = Settle
    OBVIOUS
  <2>1. ~(still < RestTicks)
    BY <1>1
  <2>2. n = sim
    BY <2>1, LayoutAssumption
  <2>3. sim.steps \in 0..Settle
    BY <1>2 DEF NodeSets
  <2> QED BY <1>3, <2>2, <2>3, LayoutAssumption
<1> HIDE DEF n, still
<1>5. toMain' # <<>> /\ toMain'[Len(toMain')] = msg
  <2> HIDE DEF msg
  <2>1. /\ Len(Append(toMain, msg)) = Len(toMain) + 1 /\ Len(toMain) \in Nat
        /\ Append(toMain, msg)[Len(toMain) + 1] = msg
    BY <1>2, AppendProperties
  <2>2. Len(toMain') # 0
    BY <1>1, <2>1
  <2> QED BY <1>1, <2>1, <2>2
<1>6. PostedLast'
  <2>1. toMain'[Len(toMain')] = [gen |-> sim'.gen, positions |-> Layout(sim')]
    BY <1>1, <1>3, <1>5
  <2>2. Layout(sim)' = Layout(sim')
    BY DEF Layout, Simulated
  <2> HIDE DEF msg
  <2> QED BY <1>1, <1>4, <1>5, <2>1, <2>2 DEF PostedLast
<1>7. PushedLast'
  <2>1. LayoutSig' = LayoutSig
    BY <1>1 DEF LayoutSig
  <2>2. sim' # <<>> /\ Wanted(sim)' = Wanted(sim)
    BY <1>1, <1>3 DEF Wanted
  <2>3. manager.mode # Static =>
          IF toWorker # <<>>
          THEN toWorker[Len(toWorker)] \in Sets /\ Wanted(toWorker[Len(toWorker)])
          ELSE manager.list # Empty /\ Wanted(sim)
    BY <1>2 DEF RestInv, PushedLast
  <2>4. Wanted(toWorker[Len(toWorker)])' = Wanted(toWorker[Len(toWorker)])
    BY <1>1 DEF Wanted
  <2> QED BY <1>1, <2>1, <2>2, <2>3, <2>4 DEF RestInv, PushedLast
<1> QED BY <1>6, <1>7 DEF RestInv

LEMMA RestSteps == LayoutInv /\ RestInv /\ [LayoutNext]_layoutVars => RestInv'
<1> SUFFICES ASSUME LayoutInv, RestInv, [LayoutNext]_layoutVars PROVE RestInv'
  OBVIOUS
<1>1. ASSUME NEW w \in World, NEW m \in Mode, Commit(w, m) PROVE RestInv'
  BY <1>1, RestKept DEF Commit, workerVars
<1>2. CASE RunEffects
  BY <1>2, RestEffects
<1>3. CASE Frame
  BY <1>3, RestKept DEF Frame, workerVars
<1>4. CASE Receive
  BY <1>4, RestReceive
<1>5. CASE Worker
  BY <1>5, RestStop, RestSet DEF Worker
<1>6. CASE Tick
  BY <1>6, RestTick
<1>7. CASE UNCHANGED layoutVars
  BY <1>7, RestKept DEF layoutVars, workerVars
<1> QED BY <1>1, <1>2, <1>3, <1>4, <1>5, <1>6, <1>7 DEF LayoutNext

(* The manager has the world of the drawing, the worker has simulated it   *)
(* to its end, and what it posted last is drawn.                           *)
LEMMA RestImplies == LayoutInv /\ RestInv => QuietIsRest
<1> SUFFICES ASSUME LayoutInv, RestInv, Quiet, layout # Static, NEW f \in DOMAIN world
             PROVE  /\ nodes[f] = Simulated(f, [list |-> world, mode |-> layout,
                                                gen |-> manager.gen, steps |-> Settle])
                    /\ tendrils[f] = nodes[f]
  BY DEF QuietIsRest, Rested
<1>1. /\ ~effectsDue /\ toWorker = <<>> /\ ~timer /\ toMain = <<>>
      /\ ~nodesStale /\ ~tendrilsStale
  BY DEF Quiet
<1>2. layout \in Dynamic /\ world \in World /\ manager \in Managers
  BY DEF LayoutInv, LayoutShape, Mode
<1>3. manager.mode = layout /\ manager.list = world
  <2>1. sig = <<layout, world>>
    BY <1>1 DEF RestInv, PushedLast, LayoutSig
  <2> QED BY <1>2, <2>1 DEF RestInv, PushedLast
<1>4. world # Empty
  BY DEF Empty
<1>5. sim # <<>> /\ sim \in NodeSets /\ Wanted(sim) /\ sim.steps = Settle
  BY <1>1, <1>3, <1>4 DEF RestInv, PushedLast, PostedLast, LayoutInv, LayoutShape
<1>6. manager.positions = Layout(sim)
  BY <1>1, <1>3, <1>5, LayoutAssumption DEF RestInv, PostedLast, Wanted
<1>7. sim.list = world /\ sim.mode = layout /\ sim.gen = manager.gen
  BY <1>3, <1>5 DEF Wanted
<1> DEFINE i == IndexOf(world, f)
           at(k) == CHOOSE h \in DOMAIN sim.list : IndexOf(sim.list, h) = k
<1>8. i \in 1..Cardinality(DOMAIN world)
  BY <1>2, IndexType
<1>9. at(i) = f
  <2>1. \E h \in DOMAIN sim.list : IndexOf(sim.list, h) = i
    BY <1>7
  <2>2. at(i) \in DOMAIN sim.list /\ IndexOf(sim.list, at(i)) = i
    BY <2>1
  <2> HIDE DEF at
  <2> QED BY <1>2, <1>7, <2>2, IndexOnce
<1>10. i \in DOMAIN Layout(sim) /\ Layout(sim)[i] = Simulated(f, sim)
  <2>1. Layout(sim) = [k \in 1..Cardinality(DOMAIN sim.list) |-> Simulated(at(k), sim)]
    BY DEF Layout
  <2> HIDE DEF at, i
  <2> QED BY <1>7, <1>8, <1>9, <2>1
<1>11. Position(manager, f, world[f], layout) = Simulated(f, sim)
  <2> HIDE DEF at
  <2> QED BY <1>2, <1>3, <1>6, <1>10 DEF Position
<1>12. /\ nodes = Positions(manager, world, layout)
       /\ tendrils = Positions(manager, world, layout)
  BY <1>1 DEF LayoutInv, SceneInv, DrawnIsCurrent
<1>13. nodes[f] = Simulated(f, sim) /\ tendrils[f] = Simulated(f, sim)
  BY <1>11, <1>12 DEF Positions
<1>14. Simulated(f, sim) = Simulated(f, [list |-> world, mode |-> layout,
                                         gen |-> manager.gen, steps |-> Settle])
  BY <1>5, <1>7 DEF Simulated
<1> QED BY <1>13, <1>14

(* Nothing was missed when all is quiet: no push, wake-up, reply or        *)
(* rewrite (forceLayout.ts, forceWorker.ts, OrganismNodes, TendrilField).  *)
THEOREM QuietMeansRest == LayoutSpec => []QuietIsRest
<1>1. LayoutInit => RestInv
  BY RestStarts
<1>2. LayoutInv /\ RestInv /\ [LayoutNext]_layoutVars => RestInv'
  BY RestSteps
<1>3. LayoutInv /\ RestInv => QuietIsRest
  BY RestImplies
<1> QED BY <1>1, <1>2, <1>3, LayoutInvariance, PTL DEF LayoutSpec
=============================================================================
