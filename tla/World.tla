------------------------------- MODULE World -------------------------------
(***************************************************************************)
(* One flow table and the three that act on it: every poll publishes a new *)
(* world; the warden plans, asks the enforcer and writes firewall files    *)
(* from the world of the moment; the narrator scrubs it and answers.  The  *)
(* user applies and removes the files by hand, and may be interrupted.     *)
(*                                                                         *)
(* Requests read the world under a lock and never write it, so a poll is   *)
(* one step here: a name that lands in the resolver's cache, or leaves it, *)
(* and GeoIP files that are reloaded while it runs reach the flows that    *)
(* are enriched late.  For the same reason nothing is lost by a user who   *)
(* reads every answer before the next poll.                                *)
(***************************************************************************)
EXTENDS Warden, Narrator

CONSTANTS
  Tables,                      \* the connection tables a poll may find
  Policies,                    \* the policies a client may send
  AllPolicies,                 \* the policies the invariants judge a world by
  Directories                  \* the threat-feed directories a load may find

ASSUME WorldAssumption ==
  /\ \A rows \in Tables : rows \subseteq Socket /\ IsFiniteSet(rows)
  /\ Policies \subseteq AllPolicies
  /\ \A policy \in AllPolicies : policy.allow.nets \cup policy.deny.nets \subseteq Network
  /\ Directories \subseteq SUBSET FeedFile

VARIABLES
  directory,                   \* the directory the threat database was loaded from
  world,                       \* the published flows
  reply,                       \* what the last request came to, while it is on screen
  backend, fw,                 \* the host's firewall
  done, staged,                \* the commands of the file on screen that have been run, and what a
                               \* transaction has made of the firewall so far
  installed, whole             \* history: the plan of the last file, and whether it was run to its end

hostVars == <<fw, done, staged, installed, whole>>
worldVars == <<directory, world, reply, backend, hostVars>>

threats == load_dir(directory)

NoReply == [kind |-> "none", add |-> {}, remove |-> {}, file |-> <<>>, menu |-> {}, gone |-> {}, facts |-> NoFacts]

WorldInit ==
  /\ directory \in Directories
  /\ world = {} /\ reply = NoReply
  /\ backend \in Firewall /\ fw = NoRules
  /\ done = 0 /\ staged = NoRules /\ installed = {} /\ whole = TRUE

\* A mistake: a row that is enriched again late leaves its first flow behind
KeepsEarly ==
  /\ reply = NoReply
  /\ \E rows \in Tables, names \in SUBSET DOMAIN Ptr, geo \in BOOLEAN :
       \E late \in SUBSET rows, geo2 \in BOOLEAN :
         world' = {enrich(flow_from_raw(row), geo, names) : row \in rows}
                  \cup {enrich(flow_from_raw(row), geo2, names) : row \in late}
  /\ UNCHANGED <<directory, reply, backend, hostVars>>

(* The names that matter to a table: those of its own peers.               *)
Resolvable(rows) == DOMAIN Ptr \cap {Peer[row] : row \in rows}

(* At most one name, or the GeoIP files, change while the rows of the      *)
(* table are enriched.                                                     *)
Poll ==
  /\ reply = NoReply
  /\ \E rows \in Tables, geo \in BOOLEAN : \E names \in SUBSET Resolvable(rows), late \in SUBSET rows :
       \E names2 \in {names} \cup {names \ {a} : a \in names}, geo2 \in BOOLEAN :
         /\ names2 = names \/ geo2 = geo
         /\ world' = {enrich(flow_from_raw(row), geo, names) : row \in rows \ late}
                     \cup {enrich(flow_from_raw(row), geo2, names2) : row \in late}
  /\ UNCHANGED <<directory, reply, backend, hostVars>>

(* POST /setup/threats has fetched the feeds.                              *)
LoadFeeds ==
  /\ directory' \in Directories \ {directory}
  /\ reply = NoReply
  /\ UNCHANGED <<world, reply, backend, hostVars>>

Answered(answer) ==
  /\ reply = NoReply /\ reply' = answer
  /\ UNCHANGED <<directory, world, backend, hostVars>>

(* POST /warden/apply: the plan is made again, whatever the preview said.  *)
Apply(policy) ==
  Answered([NoReply EXCEPT !.kind = "apply", !.add = dry_run_with(policy, world, threats).targets])

(* POST /warden/unblock: an empty list clears everything.                  *)
Unblock(ips) ==
  Answered(IF ips = {} THEN [NoReply EXCEPT !.kind = "clear"] ELSE [NoReply EXCEPT !.kind = "apply", !.remove = ips])

(* POST /warden/generate                                                   *)
Generate(policy) ==
  LET targets == dry_run_with(policy, world, threats).targets
  IN Answered([NoReply EXCEPT !.kind = "file", !.add = targets, !.file = generate(backend, targets)])

(* POST /narrator/explain for one flow, or for the whole session.          *)
ExplainNode(id, provider, http) ==
  LET found == {f \in world : f.id = id}
      answer == explain(provider, scrub_session(found), TRUE, http)
  IN Answered(IF found = {} THEN [NoReply EXCEPT !.kind = "closed"]
              ELSE [NoReply EXCEPT !.kind = answer.kind, !.gone = answer.gone, !.facts = answer.facts])

ExplainSession(provider, http) ==
  LET answer == explain(provider, scrub_session(world), FALSE, http)
  IN Answered([NoReply EXCEPT !.kind = answer.kind, !.gone = answer.gone, !.facts = answer.facts])

(* GET /warden/threats: the addresses of the flows the feeds list.         *)
ReportThreats == Answered([NoReply EXCEPT !.kind = "threats", !.add = threat_targets(threats, world)])

(* GET /narrator/providers: a local server is there or not, with models or *)
(* without.                                                                *)
Menu(reachable, models) ==
  Answered([NoReply EXCEPT !.kind = "menu", !.menu = provider_statuses(reachable, models)])

Dismiss ==
  /\ reply # NoReply /\ done = 0 /\ reply' = NoReply
  /\ UNCHANGED <<directory, world, backend, hostVars>>

(* The user runs the file on screen, one command after the other.          *)
Finished == done + 1 = Len(reply.file)
Forget == done' = 0 /\ staged' = NoRules
Proceed(after) == IF Finished THEN Forget ELSE done' = done + 1 /\ staged' = after

(* A batch file changes the firewall with every command.                   *)
RunCommand ==
  /\ reply.kind = "file" /\ ~IsTransaction(backend)
  /\ fw' = Execute(fw, reply.file[done + 1])
  /\ Proceed(NoRules)
  /\ installed' = reply.add /\ whole' = Finished
  /\ UNCHANGED <<directory, world, reply, backend>>

(* A transaction changes it at its end, if no command has failed.          *)
RunStatement ==
  /\ reply.kind = "file" /\ IsTransaction(backend)
  /\ LET after == Execute(IF done = 0 THEN fw ELSE staged, reply.file[done + 1])
     IN /\ Proceed(after)
        /\ IF Finished /\ ~after.failed
           THEN fw' = after /\ installed' = reply.add /\ whole' = TRUE
           ELSE UNCHANGED <<fw, installed, whole>>
  /\ UNCHANGED <<directory, world, reply, backend>>

(* The window is closed, or the host goes down, between two commands.      *)
Interrupt ==
  /\ done # 0 /\ Forget
  /\ UNCHANGED <<directory, world, reply, backend, fw, installed, whole>>

(* The user runs the command that removes the rules.                       *)
RemoveRules ==
  /\ fw # NoRules /\ done = 0
  /\ fw' = NoRules /\ installed' = {} /\ whole' = TRUE
  /\ UNCHANGED <<directory, world, reply, backend, done, staged>>

WorldNext ==
  \/ Poll
  \/ LoadFeeds
  \/ \E policy \in Policies : Apply(policy) \/ Generate(policy)
  \/ \E ips \in {{}} \cup {{a} : a \in Dropped(fw)} : Unblock(ips)
  \/ \E provider \in Provider, http \in Http :
       /\ provider = "Rules" => http = "text"
       /\ ExplainSession(provider, http) \/ \E id \in Socket : ExplainNode(id, provider, http)
  \/ ReportThreats
  \/ \E reachable, models \in BOOLEAN : Menu(reachable, models)
  \/ Dismiss
  \/ RunCommand \/ RunStatement \/ Interrupt
  \/ RemoveRules

WorldSpec == WorldInit /\ [][WorldNext]_worldVars

-----------------------------------------------------------------------------
(* Properties                                                              *)

WorldTypes ==
  /\ directory \in Directories
  /\ \A f \in world : f.id \in Socket /\ f.ip = Peer[f.id] /\ f.category \in Category /\ f.flags \subseteq SecurityFlag
  /\ \A f, g \in world : f.id = g.id => f = g
  /\ reply.kind \in {"none", "apply", "clear", "file", "text", "error", "closed", "threats", "menu"}
  /\ backend \in Firewall /\ ~fw.failed

(* The home of the host: what a rule must never cut off and a model never  *)
(* hear of, written as what the documentation lists.                       *)
Home == {[v6 |-> FALSE, n |-> 0], [v6 |-> FALSE, n |-> 1], [v6 |-> TRUE, n |-> 0]}

(* A network as the interval of addresses between its first and its last.  *)
Within(net, ip) ==
  LET size == 2 ^ (BITS - net.prefix)
  IN net.v6 = ip.v6 /\ net.prefix <= BITS /\ ip.n \div size = net.n \div size

Listed(flow) ==
  LET usable == {file \in directory : file.kind # "other"}
  IN /\ \A file \in usable : file.readable
     /\ \/ \E file \in usable : file.kind # "ips" /\ \E d \in file.domains :
             /\ Len(d) > 1 /\ Len(d) <= Len(flow.name)
             /\ \A i \in 0 .. Len(d) - 1 : d[Len(d) - i] = flow.name[Len(flow.name) - i]
        \/ \E file \in usable : file.kind = "ips" /\ \E net \in file.nets : Within(net, flow.ip)

Spared(allow, flow) ==
  \/ \E w \in allow.orgs : w \in flow.org
  \/ \E i \in 1..Len(flow.name) : flow.name[i] \in allow.hosts
  \/ \E net \in allow.nets : Within(net, flow.ip)

Matched(deny, flow) ==
  \/ flow.category \in deny.categories \/ \E x \in flow.flags : x \in deny.flags
  \/ \E w \in deny.orgs : w \in flow.org
  \/ \E net \in deny.nets : Within(net, flow.ip)
  \/ deny.threat /\ Listed(flow)

(* Whatever the policy and whatever the feeds: an address is a target when *)
(* a flow to it matches a deny rule and is neither spared by the allowlist *)
(* nor at home -- whichever names, owners and feeds had arrived by then.   *)
PlanIsRight ==
  reply.kind = "none" => \A policy \in AllPolicies :
    dry_run_with(policy, world, threats).targets =
      {f.ip : f \in {f \in world : f.ip \notin Home /\ ~Spared(policy.allow, f) /\ Matched(policy.deny, f)}}

(* After any sequence of files run, interrupted and removed, on each       *)
(* system, the firewall drops nothing but the plan of the last file that   *)
(* changed it, and all of that plan when the file was run to its end:      *)
(* whatever an interrupted one has left, "re-running replaces cleanly".    *)
FirewallIsThePlan == Dropped(fw) \subseteq installed /\ (whole => installed \subseteq Dropped(fw))

(* What leaves the machine tells nothing of a flow to the host's own       *)
(* network: no host, no organisation, no place.                            *)
LocalStaysHome ==
  \A f \in reply.gone : Peer[f.handle] \in Home => f.host = <<>> /\ f.org = {} /\ ~f.placed

(* A published flow carries the tracker flag when, and only when, it is in *)
(* the tracker category, whenever its name arrived.                        *)
FlagsAgree == \A f \in world : "Tracker" \in f.flags <=> f.category = "Tracker"

(* The offline answer counts every flow on its side of the boundary, and   *)
(* finds nothing notable only where no flow is a tracker's or in the clear.*)
SummaryIsTrue ==
  LET facts == reply.facts
  IN /\ facts.flows = facts.remote + facts.local
     /\ facts.quiet /\ facts.flows = Cardinality(world) =>
          \A f \in world : f.encrypted /\ f.category # "Tracker"

(* The flows published and what is told of them, with the types.           *)
AnswersAreTrue == WorldTypes /\ FlagsAgree /\ SummaryIsTrue

(* Said of the summary -- "n of m remote flows are encrypted" -- and not   *)
(* kept: encrypted flows to the host's own network are counted in.         *)
EncryptedIsRemote ==
  reply.facts.flows = Cardinality(world) /\ world # {} =>
    reply.facts.encrypted = Cardinality({f \in world : f.encrypted /\ f.ip \notin Home})

(* Said of the scrub boundary and not kept for the IPv4-mapped form of a   *)
(* private address, which no check of the code takes for local.            *)
MappedStaysHome ==
  \A f \in reply.gone : Peer[f.handle].n < 2 => f.host = <<>> /\ f.org = {} /\ ~f.placed
=============================================================================
