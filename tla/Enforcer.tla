------------------------------ MODULE Enforcer ------------------------------
(***************************************************************************)
(* The privileged helper: one server thread handles requests one at a time *)
(* and mirrors its block set into the firewall through an Applier; under   *)
(* Windows a second thread handles the service's Stop control.  The        *)
(* helper may crash at any time; what is in the firewall survives it.      *)
(*                                                                         *)
(* backend "nft": `nft -f -` is one transaction, and ensure() keeps the    *)
(* members of a table that is there.  backend "wfw": every change rewrites *)
(* the whole rule group from an in-memory mirror, in a script that can     *)
(* stop after its Remove and before its New.                               *)
(*                                                                         *)
(* Requests that change nothing (Ping, List) and peers that are refused    *)
(* are left out: whoever drives this model is authorized.                  *)
(***************************************************************************)
EXTENDS Naturals, FiniteSets

CONSTANTS
  Addr,
  Protected,       \* is_protected_addr: loopback, LAN, tailnet, ...
  MaxBlocked,
  MaxFailures      \* bound: how many firewall commands can fail

ASSUME EnforcerAssumption ==
  /\ IsFiniteSet(Addr)
  /\ Protected \subseteq Addr
  /\ MaxBlocked \in Nat
  /\ MaxFailures \in Nat

VARIABLES
  backend,         \* "nft" or "wfw", as built
  table,           \* nft: the table with its sets and chain is "here" or "gone"
  kernel,          \* the addresses the firewall drops
  blocked,         \* Enforcer.blocked
  mirror,          \* WfwApplier.mirror
  life,            \* of the process: down, starting, serving
  server,          \* where the server thread is in a request
  toAdd, toRemove, \* apply's lists
  running,         \* wfw: the handle in RUNNING
  stopper,         \* wfw: where the Stop control is
  stopAsked,       \* history: this process has been asked to stop
  late,            \* history: what came into the firewall after Stop had cleared it
  inherited,       \* history: what an earlier process left in the firewall
  failures

firewall == <<table, kernel, mirror>>
request == <<server, toAdd, toRemove>>
service == <<running, stopper, stopAsked, late>>
vars == <<backend, firewall, request, service, blocked, life, inherited, failures>>

Wfw == backend = "wfw"

(* Only nft has a structure that Clear takes away.                         *)
TableAfterClear == IF Wfw THEN "here" ELSE "gone"

Init ==
  /\ backend \in {"nft", "wfw"}
  /\ table = TableAfterClear
  /\ kernel = {} /\ blocked = {} /\ mirror = {}
  /\ life = "down"
  /\ server = "listen" /\ toAdd = {} /\ toRemove = {}
  /\ running = FALSE /\ stopper = "none" /\ stopAsked = FALSE /\ late = {}
  /\ inherited = {}
  /\ failures = 0

-----------------------------------------------------------------------------
(* The Applier                                                             *)

Members == IF Wfw THEN mirror ELSE kernel

(* A command that makes new the firewall's members.                        *)
Rewrite(new) ==
  /\ table = "here"
  /\ kernel' = new
  /\ mirror' = IF Wfw THEN new ELSE mirror
  /\ UNCHANGED <<table, failures>>

(* A failing command: nft changes nothing, the script may have removed all. *)
Fail ==
  /\ failures < MaxFailures
  /\ failures' = failures + 1
  /\ kernel' \in IF Wfw THEN {kernel, {}} ELSE {kernel}
  /\ UNCHANGED table

(* The mirror goes back to what it was.  Without a table nft always fails. *)
ChangeFails ==
  \/ Fail /\ UNCHANGED mirror
  \/ table = "gone" /\ UNCHANGED <<firewall, failures>>

\* A mistake: the rules go and the mirror keeps them
ClearKeepsMirror ==
  /\ kernel' = {}
  /\ table' = TableAfterClear
  /\ UNCHANGED <<mirror, failures>>

(* delete table, which may be gone already; or a group with no rules.      *)
ClearSucceeds ==
  /\ kernel' = {}
  /\ table' = TableAfterClear
  /\ mirror' = {}
  /\ UNCHANGED failures

(* The mirror has been emptied and stays so.                               *)
ClearFails == Fail /\ mirror' = {}

\* A mistake: the rules an earlier process left are not cleared
KeepRules ==
  /\ table' = "here"
  /\ UNCHANGED <<kernel, mirror, failures>>

(* nft keeps the members it finds; wfw rewrites the group from its mirror.  *)
EnsureSucceeds ==
  /\ table' = "here"
  /\ kernel' = IF Wfw THEN mirror ELSE kernel
  /\ UNCHANGED <<mirror, failures>>

EnsureFails == Fail /\ UNCHANGED mirror

-----------------------------------------------------------------------------
(* The process                                                             *)

Forget ==
  /\ life' = "down"
  /\ blocked' = {} /\ mirror' = {}
  /\ server' = "listen" /\ toAdd' = {} /\ toRemove' = {}
  /\ running' = FALSE /\ stopper' = "none" /\ stopAsked' = FALSE /\ late' = {}

Start ==
  /\ life = "down"
  /\ life' = "starting"
  /\ UNCHANGED <<firewall, request, service, blocked, inherited, failures>>

(* Enforcer::new; under Windows the handle is then published.              *)
Serve ==
  /\ life = "starting"
  /\ EnsureSucceeds
  /\ life' = "serving"
  /\ inherited' = kernel'
  /\ running' = Wfw
  /\ UNCHANGED <<request, stopper, stopAsked, late, blocked>>

(* The firewall could not be initialised: the process ends.                *)
GiveUp ==
  /\ life = "starting"
  /\ EnsureFails
  /\ Forget
  /\ UNCHANGED inherited

(* A crash, or under Linux the SIGTERM that stops the service.             *)
Crash ==
  /\ life # "down"
  /\ Forget
  /\ UNCHANGED <<table, kernel, inherited, failures>>

-----------------------------------------------------------------------------
(* Requests, on the server thread                                          *)

Listening == life = "serving" /\ server = "listen"

\* A mistake: protected addresses are not filtered out
Unfiltered(add) == add \ blocked
Addable(add) == (add \ Protected) \ blocked

\* A mistake: the cap is not applied
ReceiveApplyUncapped(add, remove) ==
  /\ Listening
  /\ server' = "adding"
  /\ toAdd' = Addable(add)
  /\ toRemove' = remove \cap blocked
  /\ UNCHANGED <<firewall, service, blocked, life, inherited, failures>>

\* A mistake: what is to be removed need not be listed
ReceiveApplyUnlisted(add, remove) ==
  /\ Listening
  /\ Cardinality(blocked) + Cardinality(Addable(add)) <= MaxBlocked
  /\ server' = "adding"
  /\ toAdd' = Addable(add)
  /\ toRemove' = remove
  /\ UNCHANGED <<firewall, service, blocked, life, inherited, failures>>

(* apply: takes the lock, applies the floor and the cap.                   *)
ReceiveApply(add, remove) ==
  /\ Listening
  /\ Cardinality(blocked) + Cardinality(Addable(add)) <= MaxBlocked
  /\ server' = "adding"
  /\ toAdd' = Addable(add)
  /\ toRemove' = remove \cap blocked
  /\ UNCHANGED <<firewall, service, blocked, life, inherited, failures>>

\* A mistake: the lists outlive their request
AnswerKeepingLists == server' = "listen" /\ UNCHANGED <<toAdd, toRemove>>

Answer ==
  /\ server' = "listen"
  /\ toAdd' = {} /\ toRemove' = {}

\* A mistake: the list grows before the firewall has answered
AddBeforeRewrite ==
  /\ server = "adding"
  /\ Rewrite(Members \cup toAdd) \/ ChangeFails
  /\ blocked' = blocked \cup toAdd
  /\ server' = "removing"
  /\ UNCHANGED <<toAdd, toRemove>>
  /\ UNCHANGED <<service, life, inherited>>

(* blocked follows the firewall, under the lock; or an error is returned.  *)
AddElements ==
  /\ server = "adding"
  /\ \/ /\ IF toAdd = {} THEN UNCHANGED <<firewall, failures>>
                         ELSE Rewrite(Members \cup toAdd)
        /\ blocked' = blocked \cup toAdd
        /\ late' = IF stopper \in {"emptying", "done"} THEN late \cup toAdd ELSE late
        /\ server' = "removing"
        /\ UNCHANGED <<toAdd, toRemove>>
     \/ /\ toAdd # {} /\ ChangeFails
        /\ Answer
        /\ UNCHANGED <<blocked, late>>
  /\ UNCHANGED <<running, stopper, stopAsked, life, inherited>>

\* A mistake: the list shrinks although the command has failed
RemoveUnconfirmed ==
  /\ server = "removing"
  /\ Rewrite(Members \ toRemove) \/ ChangeFails
  /\ blocked' = blocked \ toRemove
  /\ Answer
  /\ UNCHANGED <<service, life, inherited>>

RemoveElements ==
  /\ server = "removing"
  /\ \/ /\ IF toRemove = {} THEN UNCHANGED <<firewall, failures>>
                            ELSE Rewrite(Members \ toRemove)
        /\ blocked' = blocked \ toRemove
     \/ /\ toRemove # {} /\ ChangeFails
        /\ UNCHANGED blocked
  /\ Answer
  /\ UNCHANGED <<service, life, inherited>>

ReceiveClear ==
  /\ Listening
  /\ server' = "clearing"
  /\ UNCHANGED <<firewall, service, toAdd, toRemove, blocked, life, inherited, failures>>

(* The firewall is cleared before the lock is taken.                       *)
ClearFirewall ==
  /\ server = "clearing"
  /\ \/ ClearSucceeds /\ server' = "emptying"
     \/ ClearFails /\ server' = "listen"
  /\ UNCHANGED <<service, toAdd, toRemove, blocked, life, inherited>>

(* The structure is recreated, and a failure of that goes unnoticed.       *)
ClearSet ==
  /\ server = "emptying"
  /\ blocked' = {}
  /\ EnsureSucceeds \/ EnsureFails
  /\ server' = "listen"
  /\ UNCHANGED <<service, toAdd, toRemove, life, inherited>>

-----------------------------------------------------------------------------
(* The Stop control, on a thread of the service manager                    *)

(* clear_on_stop takes the handle, if there is one by now.                 *)
Stop ==
  /\ Wfw
  /\ life # "down" /\ stopper = "none"
  /\ stopAsked' = TRUE
  /\ stopper' = IF running THEN "clearing" ELSE stopper
  /\ running' = FALSE
  /\ UNCHANGED <<firewall, request, late, blocked, life, inherited, failures>>

StopClearsFirewall ==
  /\ stopper = "clearing"
  /\ \/ ClearSucceeds /\ stopper' = "emptying" /\ UNCHANGED late
     \/ ClearFails /\ stopper' = "done" /\ late' = kernel'
  /\ UNCHANGED <<request, running, stopAsked, blocked, life, inherited>>

(* It waits for the lock while an apply holds it.                          *)
StopClearsSet ==
  /\ stopper = "emptying"
  /\ server \notin {"adding", "removing"}
  /\ blocked' = {}
  /\ EnsureSucceeds \/ EnsureFails
  /\ stopper' = "done"
  /\ UNCHANGED <<request, running, stopAsked, late, life, inherited>>

(* The main thread sees the handle gone and ends the process, whatever the *)
(* server thread is doing.                                                 *)
Exit ==
  /\ stopper = "done"
  /\ Forget
  /\ UNCHANGED <<table, kernel, inherited, failures>>

-----------------------------------------------------------------------------
Request ==
  \/ \E add, remove \in SUBSET Addr : ReceiveApply(add, remove)
  \/ ReceiveClear
Handle == AddElements \/ RemoveElements \/ ClearFirewall \/ ClearSet
Control == StopClearsFirewall \/ StopClearsSet \/ Exit

Next ==
  /\ Start \/ Serve \/ GiveUp \/ Crash \/ Request \/ Handle \/ Stop \/ Control
  /\ UNCHANGED backend

Spec == Init /\ [][Next]_vars

(* The threads run; nobody has to send a request or a Stop.                *)
FairSpec ==
  /\ Spec
  /\ WF_vars((Serve \/ GiveUp) /\ UNCHANGED backend)
  /\ WF_vars(Handle /\ UNCHANGED backend)
  /\ WF_vars(Control /\ UNCHANGED backend)

-----------------------------------------------------------------------------
(* Properties                                                              *)

(* The helper's state has its types, and a request's lists end with it.    *)
TypeOK ==
  /\ backend \in {"nft", "wfw"}
  /\ table \in {"here", "gone"} /\ running \in BOOLEAN /\ stopAsked \in BOOLEAN
  /\ {kernel, blocked, mirror, toAdd, toRemove, inherited, late} \subseteq SUBSET Addr
  /\ life \in {"down", "starting", "serving"}
  /\ server \in {"listen", "adding", "removing", "clearing", "emptying"}
  /\ stopper \in {"none", "clearing", "emptying", "done"}
  /\ failures \in 0..MaxFailures
  /\ toAdd \cup toRemove # {} => server \in {"adding", "removing"}

(* The never-block floor: whatever is asked, and whatever fails, no        *)
(* protected address is ever in the firewall.                              *)
NeverProtected == kernel \cap Protected = {}

(* "A hard cap on the block set": with nft the addresses of this process   *)
(* in the firewall are never more than MaxBlocked.                         *)
CapHolds == Wfw \/ Cardinality(kernel \ inherited) <= MaxBlocked

Quiet == life = "serving" /\ server = "listen" /\ stopper = "none"

(* Between requests what List reports is in the firewall, whichever        *)
(* commands have failed.                                                   *)
ListedIsBlocked == Quiet /\ ~Wfw => blocked \subseteq kernel

(* What the firewall drops and List does not report was left there by an   *)
(* earlier process, with either backend and whichever commands have        *)
(* failed.                                                                 *)
UnlistedIsInherited == Quiet => kernel \ blocked \subseteq inherited

(* "Active enforcement, currently blocked" (List), read both ways.         *)
ListIsTrue == ListedIsBlocked /\ UnlistedIsInherited

(* "The in-memory mirror and the firewall always agree", and List with     *)
(* them, as long as no command fails; a crash does not matter to wfw.      *)
ViewsAgree == Quiet /\ Wfw /\ failures = 0 => blocked = kernel /\ mirror = kernel

(* With the types, and a request's lists ending with it (Enforcer::apply). *)
ViewsHold == TypeOK /\ ViewsAgree

(* "A stopped service must not leave orphaned rules": whatever the server  *)
(* thread is doing meanwhile, a Stop that has cleared leaves no address    *)
(* but those which requests have added since; one whose clear has failed,  *)
(* no more than it found.                                                  *)
StopLeavesOnlyLate == stopper \in {"emptying", "done"} => kernel \subseteq late

(* With the nft backend the helper is a BlockList: a request that is under *)
(* way, fails, or is cut short by a crash is seen whole or not at all.  A  *)
(* Clear is seen when the firewall has been cleared.                       *)
List == INSTANCE BlockList WITH
  dropped <- IF Wfw THEN {} ELSE kernel,
  listed <- IF Wfw \/ server = "emptying" THEN {} ELSE blocked

IsBlockList == List!Spec

-----------------------------------------------------------------------------
(* What the repository says and the code does not keep: each of these is   *)
(* violated, the README says by which steps.                               *)

(* The enforcer "owns the authoritative view of what's blocked": nothing   *)
(* is dropped that it does not know of.                                    *)
ViewIsAuthoritative == Quiet => kernel \subseteq blocked

(* "A stopped service must not leave orphaned rules": once the process is  *)
(* down after a Stop that took effect nothing is in the firewall.          *)
StopLeavesNothing == [][Exit => kernel' = {}]_vars

(* A Stop ends the process.                                                *)
StopStops == stopAsked ~> life = "down"
=============================================================================
