------------------------------- MODULE Warden -------------------------------
(***************************************************************************)
(* The block policy engine: the threat feeds, the decision on a flow, the  *)
(* plan, and the firewall file a user applies by hand.                     *)
(*                                                                         *)
(* A policy is its allowlist and its deny rules, each kind of matcher a    *)
(* set.  A network is an address and a prefix; a prefix longer than the    *)
(* address stands for every spec that does not parse.  A file of rules is  *)
(* the sequence of the commands in it, and a firewall what NETSCOPE's own  *)
(* table, anchor or group holds: whether it exists, and the sets of        *)
(* addresses that its rules drop.  Whoever runs a file runs one command    *)
(* after the other; the file of nft and that of pf are one transaction.    *)
(***************************************************************************)
EXTENDS Flows
Ext == INSTANCE SequencesExt

CONSTANT CHUNK                 \* addresses in one netsh rule (100 in the code)

ASSUME WardenAssumption == CHUNK \in Nat \ {0}

Firewall == {"Nftables", "Netsh", "Pf"}
Network == [v6 : BOOLEAN, n : 0 .. 2 ^ BITS - 1, prefix : 0 .. BITS + 1]

-----------------------------------------------------------------------------
(* Networks                                                                *)

\* A mistake: a shift by the whole width leaves every bit of the mask set
NoZeroCase(n, prefix) == n - (n % (2 ^ ((BITS - prefix) % BITS)))

masked(n, prefix) == IF prefix = 0 THEN 0 ELSE n - (n % (2 ^ (BITS - prefix)))

cidr_contains(net, ip) ==
  /\ net.v6 = ip.v6 /\ net.prefix <= BITS
  /\ masked(net.n, net.prefix) = masked(ip.n, net.prefix)

-----------------------------------------------------------------------------
(* Threat feeds.  A directory is a set of files; a file of domains has its *)
(* names, a file of addresses its networks.                                *)
FeedFile == [kind : {"hosts", "domains", "ips", "other"}, readable : BOOLEAN,
             domains : SUBSET Seq(STRING), nets : SUBSET Network]

(* A bare top-level domain, or localhost, cannot poison the set.           *)
is_plausible_domain(d) == Len(d) > 1

(* One file that cannot be read, and nothing is loaded.                    *)
load_dir(dir) ==
  LET feeds == {file \in dir : file.kind # "other"}
      names == UNION {file.domains : file \in {x \in feeds : x.kind \in {"hosts", "domains"}}}
      nets == UNION {file.nets : file \in {x \in feeds : x.kind = "ips"}}
  IN IF \E file \in feeds : ~file.readable
     THEN [domains |-> {}, nets |-> {}]
     ELSE [domains |-> {d \in names : is_plausible_domain(d)}, nets |-> {c \in nets : c.prefix <= BITS}]

\* A mistake: only the whole host is looked up, not the domains it is in
WholeHost(db, host) == host \in db.domains

match_host(db, host) == \E i \in 1..Len(host) : SubSeq(host, i, Len(host)) \in db.domains
match_ip(db, ip) == \E c \in db.nets : cidr_contains(c, ip)
threat_matches(db, flow) == match_host(db, flow.name) \/ match_ip(db, flow.ip)
threat_targets(db, flows) == {flow.ip : flow \in {f \in flows : threat_matches(db, f)}}

-----------------------------------------------------------------------------
(* The decision                                                            *)

\* A mistake: only what enrichment called local is protected
TrustsCategory(flow) == flow.category = "Local"

is_protected(flow) == flow.category = "Local" \/ is_local_scope(flow.ip)

allow_matches(allow, flow) ==
  \/ flow.org \cap allow.orgs # {}
  \/ Words(flow.name) \cap allow.hosts # {}
  \/ \E c \in allow.nets : cidr_contains(c, flow.ip)

rule_matches(deny, flow, db) ==
  \/ flow.category \in deny.categories
  \/ flow.flags \cap deny.flags # {}
  \/ flow.org \cap deny.orgs # {}
  \/ \E c \in deny.nets : cidr_contains(c, flow.ip)
  \/ deny.threat /\ threat_matches(db, flow)

\* A mistake: the deny rules are tried before the allowlist
DenyFirst(policy, flow, db) == ~is_protected(flow) /\ rule_matches(policy.deny, flow, db)

(* evaluate_with: the floor, then the allowlist, then the deny rules.      *)
blocks(policy, flow, db) ==
  /\ ~is_protected(flow)
  /\ ~allow_matches(policy.allow, flow)
  /\ rule_matches(policy.deny, flow, db)

(* dry_run_with: the flows that would be blocked, and their addresses.     *)
dry_run_with(policy, flows, db) ==
  LET entries == {flow \in flows : blocks(policy, flow, db)}
  IN [blocks |-> {flow.id : flow \in entries}, targets |-> {flow.ip : flow \in entries}]

-----------------------------------------------------------------------------
(* The firewall file                                                       *)

Cmd(op, drops) == [op |-> op, drops |-> drops]
NoRules == [exists |-> FALSE, rules |-> {}, failed |-> FALSE]
NonEmpty(sets) == sets \ {{}}

\* A mistake: the table is declared over the one that is there
NoDelete(v4, v6) == <<Cmd("ensure", {}), Cmd("create", NonEmpty({v4, v6}))>>

(* One transaction: add, delete, recreate.                                 *)
nftables(v4, v6) == <<Cmd("ensure", {}), Cmd("delete", {}), Cmd("create", NonEmpty({v4, v6}))>>

pf(v4, v6) == <<Cmd("load", {v4 \cup v6})>>

Chunk(all, i) == {all[k] : k \in {k \in DOMAIN all : (i - 1) * CHUNK < k /\ k <= i * CHUNK}}

\* A mistake: the last, shorter chunk is left out
WholeChunks(v4, v6) ==
  LET all == Ext!SetToSeq(v4) \o Ext!SetToSeq(v6)
  IN <<Cmd("deletegroup", {})>> \o [i \in 1 .. Len(all) \div CHUNK |-> Cmd("add", {Chunk(all, i)})]

(* The group is cleared first; one rule for each CHUNK addresses.          *)
netsh(v4, v6) ==
  LET all == Ext!SetToSeq(v4) \o Ext!SetToSeq(v6)
  IN <<Cmd("deletegroup", {})>> \o
     [i \in 1 .. (Len(all) + CHUNK - 1) \div CHUNK |-> Cmd("add", {Chunk(all, i)})]

(* generate: every target is an address, so split_valid drops none.        *)
generate(backend, targets) ==
  LET v4 == {ip \in targets : ~ip.v6}
      v6 == {ip \in targets : ip.v6}
  IN CASE backend = "Nftables" -> nftables(v4, v6)
       [] backend = "Netsh" -> netsh(v4, v6)
       [] backend = "Pf" -> pf(v4, v6)

(* What the firewall does with a command: only nft fails, and it deletes   *)
(* no table that is not there.                                             *)
Execute(fw, cmd) ==
  CASE fw.failed -> fw
    [] ~fw.failed /\ cmd.op = "ensure" -> [fw EXCEPT !.exists = TRUE]
    [] ~fw.failed /\ cmd.op = "delete" -> IF fw.exists THEN NoRules ELSE [fw EXCEPT !.failed = TRUE]
    [] ~fw.failed /\ cmd.op = "deletegroup" -> NoRules
    [] ~fw.failed /\ cmd.op \in {"create", "add"} -> [fw EXCEPT !.exists = TRUE, !.rules = @ \cup cmd.drops]
    [] ~fw.failed /\ cmd.op = "load" -> [fw EXCEPT !.exists = TRUE, !.rules = cmd.drops]

(* nft -f and pfctl -f apply a file whole or not at all; a batch file is   *)
(* only its commands.                                                      *)
IsTransaction(backend) == backend # "Netsh"

Dropped(fw) == UNION fw.rules
=============================================================================
