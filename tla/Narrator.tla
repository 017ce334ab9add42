------------------------------ MODULE Narrator ------------------------------
(***************************************************************************)
(* What the narrator may see and say: the scrubbed session, the offline    *)
(* summaries, the providers and their answers.  A scrubbed flow carries no *)
(* address; its handle stands here for the flow it was made from, which in *)
(* the code is only its place in the list.                                 *)
(***************************************************************************)
EXTENDS Flows
LOCAL INSTANCE FiniteSetsExt

CONSTANT HasKey                \* ANTHROPIC_API_KEY is set

ASSUME NarratorAssumption == HasKey \in BOOLEAN

Provider == {"Rules", "Ollama", "Anthropic"}

(* What a model's server may answer, or not.                               *)
Http == {"unreachable", "status", "refusal", "blank", "text"}

Count(flows, P(_)) == Cardinality({f \in flows : P(f)})

-----------------------------------------------------------------------------
(* The scrub boundary                                                      *)

\* A mistake: the scope is the category alone
ScopeByCategory(flow) == IF flow.category = "Local" THEN "Local" ELSE "Remote"

scope_of(flow) == IF flow.category = "Local" \/ is_local_scope(flow.ip) THEN "Local" ELSE "Remote"

scrub_flow(flow) ==
  LET remote == scope_of(flow) = "Remote"
  IN [handle |-> flow.id, scope |-> scope_of(flow),
      host |-> IF remote THEN flow.name ELSE <<>>,
      org |-> IF remote THEN flow.org ELSE {},
      placed |-> remote /\ flow.placed,
      encrypted |-> flow.encrypted, category |-> flow.category, flags |-> flow.flags]

IsTracker(f) == f.category = "Tracker" \/ "Tracker" \in f.flags

totals_of(scrubbed) ==
  [flows |-> Cardinality(scrubbed),
   remote |-> Count(scrubbed, LAMBDA f : f.scope = "Remote"),
   local |-> Count(scrubbed, LAMBDA f : f.scope = "Local"),
   encrypted |-> Count(scrubbed, LAMBDA f : f.encrypted),
   plaintext |-> Count(scrubbed, LAMBDA f : ~f.encrypted),
   trackers |-> Count(scrubbed, IsTracker)]

scrub_session(flows) ==
  LET scrubbed == {scrub_flow(f) : f \in flows}
  IN [flows |-> scrubbed, totals |-> totals_of(scrubbed)]

-----------------------------------------------------------------------------
(* The offline summaries, as the facts they put into words                 *)

NoFacts == [flows |-> 0, remote |-> 0, local |-> 0, encrypted |-> 0, plaintext |-> 0, trackers |-> 0,
            orgs |-> {}, quiet |-> FALSE]

\* A mistake: it falls quiet when it has no tracker to report
QuietIfUntracked(session) ==
  [NoFacts EXCEPT !.flows = session.totals.flows, !.remote = session.totals.remote,
     !.local = session.totals.local, !.quiet = session.totals.trackers = 0]

(* The session: "nothing notable stands out" only when no bullet is left.  *)
explain_rules(session) ==
  LET t == session.totals
      orgs == {f.org : f \in session.flows} \ {{}}
  IN IF t.flows = 0 THEN NoFacts
     ELSE [NoFacts EXCEPT !.flows = t.flows, !.remote = t.remote, !.local = t.local,
             !.encrypted = Min({t.encrypted, t.remote}), !.plaintext = t.plaintext,
             !.trackers = t.trackers, !.orgs = orgs,
             !.quiet = t.trackers = 0 /\ t.plaintext = 0 /\ orgs = {}]

(* One endpoint: a local one is a device of the network and nothing more.  *)
explain_node_rules(f) ==
  IF f.scope = "Local" THEN [NoFacts EXCEPT !.flows = 1, !.local = 1, !.plaintext = IF f.encrypted THEN 0 ELSE 1]
  ELSE [NoFacts EXCEPT !.flows = 1, !.remote = 1, !.encrypted = IF f.encrypted THEN 1 ELSE 0,
          !.plaintext = IF f.encrypted THEN 0 ELSE 1, !.trackers = IF IsTracker(f) THEN 1 ELSE 0,
          !.orgs = {f.org} \ {{}}, !.quiet = f.flags = {}]

-----------------------------------------------------------------------------
(* The providers                                                           *)

(* The menu: which providers can be used now.                              *)
provider_statuses(reachable, models) ==
  {"Rules"} \cup (IF reachable /\ models THEN {"Ollama"} ELSE {}) \cup (IF HasKey THEN {"Anthropic"} ELSE {})

explain_ollama(http) == IF http \in {"text", "refusal"} THEN "text" ELSE "error"
explain_anthropic(http) == IF HasKey /\ http = "text" THEN "text" ELSE "error"

(* What leaves the machine, and the answer.                                *)
explain(provider, session, node, http) ==
  [gone |-> IF provider = "Anthropic" /\ HasKey THEN session.flows ELSE {},
   facts |-> IF provider # "Rules" THEN NoFacts
             ELSE IF node THEN explain_node_rules(CHOOSE f \in session.flows : TRUE)
             ELSE explain_rules(session),
   kind |-> CASE provider = "Rules" -> "text"
              [] provider = "Ollama" -> explain_ollama(http)
              [] provider = "Anthropic" -> explain_anthropic(http)]
=============================================================================
