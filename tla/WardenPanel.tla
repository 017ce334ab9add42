---------------------------- MODULE WardenPanel ----------------------------
(***************************************************************************)
(* Blocking from the HUD: the Warden panel and its store                   *)
(* (components/Hud.tsx, store/useWardenStore.ts), the agent that turns a   *)
(* policy into addresses and asks the privileged helper (main.rs,          *)
(* enforce.rs), and the helper's queue of connections, which it serves one *)
(* at a time (server.rs).                                                  *)
(*                                                                         *)
(* The agent waits five seconds for the helper and then gives up, but the  *)
(* request it has written stays in the helper's queue and is executed when *)
(* its turn comes.  What the panel shows and what its audit log says are   *)
(* therefore claims about a set that may still change under them.          *)
(*                                                                         *)
(* A policy is a set of rules, and the flows of the moment are a subset of *)
(* Addrs chosen when the agent evaluates a policy.  The module Enforcer    *)
(* models what the helper does to the firewall; here a request succeeds,   *)
(* or fails and changes nothing.                                           *)
(***************************************************************************)
EXTENDS Naturals, Sequences, FiniteSets

CONSTANTS
  Addrs,      \* remote addresses
  Rules,      \* the deny rules of the panel, each the addresses it matches
  None,       \* no policy, no action, no answer
  Reads,      \* one identity for each refresh that can be in flight
  MaxQueue    \* bound: requests waiting at the helper

ASSUME PanelAssumption ==
  /\ Rules \subseteq SUBSET Addrs
  /\ None \notin Rules /\ None \notin Reads /\ None # "op" /\ "op" \notin Reads
  /\ IsFiniteSet(Reads) /\ MaxQueue \in Nat \ {0}

VARIABLES
  on,         \* the rules toggled on
  plan,       \* the policy of the preview on screen, None without one
  confirm,    \* "Block via the firewall now?" is showing
  available,  \* "unknown", "yes" or "no"
  shown,      \* the blocked list of the store
  audit,      \* the newest entry of the audit log
  op,         \* the enforce request in flight; the store is busy until it ends
  reads,      \* the refreshes in flight
  configured, \* NETSCOPE_ENFORCER_SOCKET is set
  queue,      \* connections waiting for the helper, oldest first
  blocked,    \* the helper's set
  unrecorded  \* history: the kinds of change that have left no entry since the newest one:
              \* an unblock that failed, or either whose page was reloaded

panelVars == <<on, plan, confirm>>
storeVars == <<available, shown, audit, unrecorded>>
helperVars == <<queue, blocked>>
vars == <<panelVars, storeVars, op, reads, configured, helperVars>>

NoOp == [action |-> None, asked |-> {}, phase |-> "idle", answer |-> None]
NoAudit == [action |-> None, addrs |-> {}, ok |-> FALSE]

busy == op.phase # "idle"
Free == {r \in Reads : reads[r].phase = "idle"}

----------------------------------------------------------------------------
(* The panel *)

\* fetchBlocked leaves the store and is on its way to the agent
AsReading(r) == [reads EXCEPT ![r] = [phase |-> "sent", answer |-> None]]

FirstReading(r) ==
  [q \in Reads |-> [phase |-> IF q = r THEN "sent" ELSE "idle", answer |-> None]]

\* useEffect of EnforcementPanel: the panel is mounted and probes the helper
Init ==
  /\ on = Rules /\ plan = None /\ confirm = FALSE
  /\ available = "unknown" /\ shown = {} /\ audit = NoAudit /\ unrecorded = {}
  /\ op = NoOp
  /\ \E r \in Reads : reads = FirstReading(r)
  /\ configured \in BOOLEAN /\ queue = <<>> /\ blocked = {}

\* The HUD is collapsed and expanded, or the feed goes to the mock and back: the
\* panel starts again and the store does not.  (Bound: a read is kept for Answered.)
Reopen ==
  /\ Free # {} /\ (busy => Cardinality(Free) > 1)
  /\ on' = Rules /\ plan' = None /\ confirm' = FALSE
  /\ \E r \in Free : reads' = AsReading(r)
  /\ UNCHANGED <<storeVars, op, configured, helperVars>>

Toggle(r) ==
  /\ on' = IF r \in on THEN on \ {r} ELSE on \cup {r}
  /\ UNCHANGED <<plan, confirm, storeVars, op, reads, configured, helperVars>>

\* The preview is answered, or fails and is null.  Only the plan depends on when:
\* toggling before the answer is toggling after it.
Preview ==
  /\ on # {}
  /\ plan' \in {on, None}
  /\ UNCHANGED <<on, confirm, storeVars, op, reads, configured, helperVars>>

\* A mistake: a second click is not held off while a request is in flight
BeginAnyway(action, asked) ==
  /\ available = "yes" /\ Free # {}
  /\ op' = [NoOp EXCEPT !.action = action, !.asked = asked, !.phase = "sent"]
  /\ UNCHANGED <<on, plan, storeVars, reads, configured, helperVars>>

\* A request leaves the store, which is busy until it is answered
\* (bound: while a read is left for its refresh)
Begin(action, asked) ==
  /\ available = "yes" /\ ~busy /\ Free # {}
  /\ op' = [NoOp EXCEPT !.action = action, !.asked = asked, !.phase = "sent"]
  /\ UNCHANGED <<on, plan, storeVars, reads, configured, helperVars>>

AskConfirm ==
  /\ available = "yes" /\ ~busy /\ plan # None /\ ~confirm /\ on # {}
  /\ confirm' = TRUE
  /\ UNCHANGED <<on, plan, storeVars, op, reads, configured, helperVars>>

Cancel ==
  /\ available = "yes" /\ ~busy /\ plan # None /\ confirm
  /\ confirm' = FALSE
  /\ UNCHANGED <<on, plan, storeVars, op, reads, configured, helperVars>>

Confirm ==
  /\ plan # None /\ confirm
  /\ confirm' = FALSE
  /\ Begin("apply", UNION on)

\* FlowDetail: a deny rule for one address; its mirror may lag behind the agent
BlockFlow(a) == a \notin shown /\ Begin("block", {a}) /\ UNCHANGED confirm

\* The row's button, or the flow's
Unblock(a) == a \in shown /\ Begin("unblock", {a}) /\ UNCHANGED confirm

UnblockAll == shown # {} /\ Begin("unblock", {}) /\ UNCHANGED confirm

----------------------------------------------------------------------------
(* The agent *)

\* The request that reaches the helper: the policy is evaluated again, on the
\* flows of this moment; an empty list of addresses to unblock is a clear
Requests ==
  IF op.action = "unblock"
  THEN {[from |-> "op", kind |-> IF op.asked = {} THEN "clear" ELSE "remove", addrs |-> op.asked]}
  ELSE {[from |-> "op", kind |-> "add", addrs |-> op.asked \cap flows] : flows \in SUBSET Addrs}

Answer(ok, added) == [ok |-> ok, configured |-> TRUE, added |-> added]
NotConfigured == [ok |-> FALSE, configured |-> FALSE, added |-> {}]

\* round_trip connects to the helper and writes the request
ForwardOp ==
  /\ op.phase = "sent"
  /\ IF configured
     THEN /\ Len(queue) < MaxQueue
          /\ \E request \in Requests : queue' = Append(queue, request)
          /\ op' = [op EXCEPT !.phase = "asked"]
     ELSE /\ op' = [op EXCEPT !.phase = "answered", !.answer = NotConfigured]
          /\ UNCHANGED queue
  /\ UNCHANGED <<panelVars, storeVars, reads, configured, blocked>>

ForwardRead(r) ==
  /\ reads[r].phase = "sent"
  /\ IF configured
     THEN /\ Len(queue) < MaxQueue
          /\ queue' = Append(queue, [from |-> r, kind |-> "list", addrs |-> {}])
          /\ reads' = [reads EXCEPT ![r].phase = "asked"]
     ELSE /\ reads' = [reads EXCEPT ![r].phase = "answered"]
          /\ UNCHANGED queue
  /\ UNCHANGED <<panelVars, storeVars, op, configured, blocked>>

\* The agent closes its end of a connection: the request written on it stays
Hangup(client) ==
  [i \in DOMAIN queue |->
     IF queue[i].from = client THEN [queue[i] EXCEPT !.from = None] ELSE queue[i]]

\* A mistake: no read timeout on the connection to the helper
TimesOutUnsent ==
  /\ op.phase = "sent"
  /\ op' = [op EXCEPT !.phase = "answered", !.answer = Answer(FALSE, {})]
  /\ queue' = Hangup("op")
  /\ UNCHANGED <<panelVars, storeVars, reads, configured, blocked>>

\* The helper cannot be reached, or has not answered in five seconds
OpTimesOut ==
  /\ op.phase \in {"sent", "asked"}
  /\ op' = [op EXCEPT !.phase = "answered", !.answer = Answer(FALSE, {})]
  /\ queue' = Hangup("op")
  /\ UNCHANGED <<panelVars, storeVars, reads, configured, blocked>>

ReadTimesOut(r) ==
  /\ reads[r].phase \in {"sent", "asked"}
  /\ reads' = [reads EXCEPT ![r].phase = "answered"]
  /\ queue' = Hangup(r)
  /\ UNCHANGED <<panelVars, storeVars, op, configured, blocked>>

----------------------------------------------------------------------------
(* The helper *)

\* A mistake: an unblock with no address leaves the set as it was
ClearNothing(request) ==
  CASE request.kind = "add"    -> blocked \cup request.addrs
    [] request.kind \in {"remove", "clear"} -> blocked \ request.addrs
    [] request.kind = "list"   -> blocked

\* The set after a request, and the addresses its answer reports as added
AfterRequest(request) ==
  CASE request.kind = "add"    -> blocked \cup request.addrs
    [] request.kind = "remove" -> blocked \ request.addrs
    [] request.kind = "clear"  -> {}
    [] request.kind = "list"   -> blocked

AddedBy(request) == IF request.kind = "add" THEN request.addrs \ blocked ELSE {}

\* The answer reaches whoever still waits for it; a write to a closed
\* connection fails and is logged
Deliver(request, ok) ==
  /\ op' = IF request.from = "op"
           THEN [op EXCEPT !.phase = "answered",
                           !.answer = Answer(ok, IF ok THEN AddedBy(request) ELSE {})]
           ELSE op
  /\ reads' = IF request.from \in Reads
              THEN [reads EXCEPT ![request.from] = [phase |-> "answered", answer |-> blocked]]
              ELSE reads

\* A mistake: a thread per connection: the helper executes whichever comes first
AnyConnection == DOMAIN queue

\* The connection to serve next: the listener hands them out in their order
NextConnection == {1}

Without(i) == SubSeq(queue, 1, i - 1) \o SubSeq(queue, i + 1, Len(queue))

Serve ==
  /\ queue # <<>>
  /\ \E i \in NextConnection :
       /\ blocked' = AfterRequest(queue[i])
       /\ Deliver(queue[i], TRUE)
       /\ queue' = Without(i)
  /\ UNCHANGED <<panelVars, storeVars, configured>>

\* The firewall command fails, or the cap refuses the request
Refuse ==
  /\ queue # <<>> /\ Head(queue).kind # "list"
  /\ Deliver(Head(queue), FALSE)
  /\ queue' = Tail(queue)
  /\ UNCHANGED <<panelVars, storeVars, configured, blocked>>

----------------------------------------------------------------------------
(* The store *)

\* refresh(): an answer other than success reads as "no enforcer"
Refreshed(r) ==
  /\ reads[r].phase = "answered"
  /\ available' = IF reads[r].answer = None THEN "no" ELSE "yes"
  /\ shown' = IF reads[r].answer = None THEN {} ELSE reads[r].answer
  /\ reads' = [reads EXCEPT ![r] = [phase |-> "idle", answer |-> None]]
  /\ UNCHANGED <<panelVars, audit, unrecorded, op, configured, helperVars>>

Record(entry) == audit' = entry /\ unrecorded' = {}

\* The entry for a request the helper carried out
Entry(answer) ==
  [action |-> op.action,
   addrs  |-> IF op.action = "unblock" THEN op.asked ELSE answer.added,
   ok     |-> op.action = "block" => answer.added # {}]

\* Only a failed apply or block of a configured helper is recorded
RecordFailure(answer) ==
  IF op.action = "unblock" \/ ~answer.configured
  THEN unrecorded' = unrecorded \cup ({op.action} \cap {"unblock"}) /\ UNCHANGED audit
  ELSE Record([action |-> op.action, addrs |-> {}, ok |-> FALSE])

\* apply, block and unblock after their await
Answered ==
  /\ op.phase = "answered"
  /\ op' = NoOp
  /\ available' = IF op.action # "unblock" /\ op.answer.configured THEN "yes" ELSE available
  /\ IF op.answer.ok
     THEN Record(Entry(op.answer)) /\ \E r \in Free : reads' = AsReading(r)
     ELSE RecordFailure(op.answer) /\ UNCHANGED reads
  /\ UNCHANGED <<panelVars, shown, configured, helperVars>>

\* "clear log"
clearAudit ==
  /\ audit # NoAudit
  /\ audit' = NoAudit /\ unrecorded' = {}
  /\ UNCHANGED <<panelVars, available, shown, op, reads, configured, helperVars>>

\* What the page leaves at the helper: nobody waits for it any more
Abandoned == [i \in DOMAIN queue |-> [queue[i] EXCEPT !.from = None]]

OpKind == IF op.action = "unblock" THEN "unblock" ELSE "block"

\* The page is reloaded: the store starts anew but for the audit log, which the
\* browser keeps, and a request on its way arrives now or never.
Reload ==
  /\ on' = Rules /\ plan' = None /\ confirm' = FALSE
  /\ available' = "unknown" /\ shown' = {} /\ op' = NoOp
  /\ \E r \in Reads : reads' = FirstReading(r)
  /\ unrecorded' = unrecorded \cup (IF busy THEN {OpKind} ELSE {})
  /\ \/ queue' = Abandoned
     \/ /\ op.phase = "sent" /\ configured /\ Len(queue) < MaxQueue
        /\ \E request \in Requests : queue' = Append(Abandoned, [request EXCEPT !.from = None])
  /\ UNCHANGED <<audit, configured, blocked>>

----------------------------------------------------------------------------
Panel ==
  \/ Reopen \/ Preview \/ AskConfirm \/ Cancel \/ Confirm \/ UnblockAll
  \/ \E r \in Rules : Toggle(r)
  \/ \E a \in Addrs : BlockFlow(a) \/ Unblock(a)

Agent == ForwardOp \/ OpTimesOut \/ \E r \in Reads : ForwardRead(r) \/ ReadTimesOut(r)

StoreStep == Answered \/ clearAudit \/ Reload \/ \E r \in Reads : Refreshed(r)

Next == Panel \/ Agent \/ Serve \/ Refuse \/ StoreStep

Spec == Init /\ [][Next]_vars

\* The five seconds pass and the browser handles what has arrived; nothing is
\* assumed of the user, or of a helper that may hang
Fairness ==
  /\ WF_vars(OpTimesOut) /\ WF_vars(Answered)
  /\ \A r \in Reads : WF_vars(ReadTimesOut(r)) /\ WF_vars(Refreshed(r))

FairSpec == Spec /\ Fairness

----------------------------------------------------------------------------
(* Properties *)

Requested(request) ==
  /\ request.from \in {"op", None} \cup Reads
  /\ request.kind \in {"add", "remove", "clear", "list"}
  /\ request.addrs \subseteq Addrs
  /\ request.kind \in {"clear", "list"} => request.addrs = {}

\* Every variable has its type; a request that is waited for is in the queue
\* exactly once, and one that is no longer waited for belongs to nobody.
TypeOK ==
  /\ on \subseteq Rules /\ confirm \in BOOLEAN /\ configured \in BOOLEAN
  /\ unrecorded \subseteq {"block", "unblock"}
  /\ plan \in (SUBSET Rules) \cup {None}
  /\ available \in {"unknown", "yes", "no"} /\ shown \subseteq Addrs /\ blocked \subseteq Addrs
  /\ audit.addrs \subseteq Addrs /\ op.asked \subseteq Addrs
  /\ Len(queue) <= MaxQueue /\ \A i \in DOMAIN queue : Requested(queue[i])
  /\ \A client \in {"op"} \cup Reads :
       Cardinality({i \in DOMAIN queue : queue[i].from = client}) =
         (IF client = "op" THEN IF op.phase = "asked" THEN 1 ELSE 0
          ELSE IF reads[client].phase = "asked" THEN 1 ELSE 0)

\* While no request is in flight the newest entry of the audit log is true of the
\* helper's set: what it says was blocked is blocked, what it says was unblocked is
\* not, and after "unblocked all" nothing is, although requests the agent gave up
\* on are executed late.  (A change that leaves no entry -- an unblock that fails,
\* or a request whose page was reloaded -- may still have happened, or happen
\* later, and undo what the entry says.)
AuditIsTrue ==
  ~busy /\ audit.ok =>
    CASE audit.action = "unblock" ->
           \/ "block" \in unrecorded
           \/ blocked \cap audit.addrs = {} /\ (audit.addrs = {} => blocked = {})
      [] audit.action \in {"apply", "block"} ->
           "unblock" \in unrecorded \/ audit.addrs \subseteq blocked
      [] OTHER -> TRUE

\* The same with the types: the queue holds at most one request of each client that
\* is still waited for, and the log is true.
AuditHolds == TypeOK /\ AuditIsTrue

\* The buttons come back: a request that leaves the panel is answered or given up
\* on, even when the helper hangs.
BusyEnds == busy ~> ~busy

----------------------------------------------------------------------------
(* What the repository says and the code does not keep *)

\* "nothing blocks without a user action, and 'unblock all' is always one click
\* away" (useWardenStore.ts): once everything is answered, a block that is active
\* has its button.  The code takes a failed refresh for a missing helper, and
\* does not refresh after a failed request.
UnblockReachable ==
  (~busy /\ Free = Reads /\ queue = <<>> /\ blocked # {}) => (available = "yes" /\ shown # {})

\* "apply the previewed policy (preview-then-confirm, never silent)" (Hud.tsx):
\* the policy sent is the one whose preview is on screen.  The plan outlives the
\* toggles it was made with.
PreviewedIsApplied == [][Confirm => on = plan]_vars

=============================================================================
