------------------------------ MODULE MCWorld ------------------------------
(* Six sockets: the private network, the tailnet, two to one web server    *)
(* (one in the clear), one to a CDN over IPv6, and one to a private        *)
(* address in its IPv4-mapped form.                                        *)
EXTENDS World, TLC

CONSTANTS lan, tail, web, plain, cdn, mapped

V4(n) == [v6 |-> FALSE, n |-> n]
V6(n) == [v6 |-> TRUE, n |-> n]
ThePeer == (lan :> V4(0)) @@ (tail :> V4(1)) @@ (web :> V4(2)) @@ (plain :> V4(2)) @@ (cdn :> V6(3)) @@ (mapped :> V6(1))
ThePtr == (V4(1) :> <<"metrics", "tailnet", "net">>) @@ (V4(2) :> <<"ads", "evil", "com">>) @@ (V6(1) :> <<"nas", "home">>)
TheOwner == (V4(2) :> {"web", "corp"}) @@ (V6(3) :> {"cdn"})
TheTables == {{}, {lan, tail, cdn}, {web, plain, cdn}, {plain, cdn, mapped}}

Net(v6, n, prefix) == [v6 |-> v6, n |-> n, prefix |-> prefix]
Nets == {Net(v6, n, prefix) : v6 \in BOOLEAN, n \in {1, 2}, prefix \in 0 .. BITS + 1}
NoAllow == [orgs |-> {}, hosts |-> {}, nets |-> {}]
NoDeny == [categories |-> {}, flags |-> {}, orgs |-> {}, nets |-> {}, threat |-> FALSE]

Allows == {NoAllow, [NoAllow EXCEPT !.orgs = {"corp"}], [NoAllow EXCEPT !.hosts = {"evil"}]}
          \cup {[NoAllow EXCEPT !.nets = {net}] : net \in {Net(FALSE, 2, 0), Net(FALSE, 3, 1), Net(TRUE, 3, 2), Net(TRUE, 3, 3)}}
Denies == {[NoDeny EXCEPT !.categories = {c}] : c \in Category} \cup {[NoDeny EXCEPT !.flags = {x}] : x \in SecurityFlag}
          \cup {[NoDeny EXCEPT !.nets = {net}] : net \in Nets}
          \cup {[NoDeny EXCEPT !.orgs = {"cdn"}], [NoDeny EXCEPT !.threat = TRUE]}
ThePolicies == {[allow |-> NoAllow, deny |-> [NoDeny EXCEPT !.flags = SecurityFlag]],
                [allow |-> [NoAllow EXCEPT !.orgs = {"corp"}], deny |-> [NoDeny EXCEPT !.categories = {"Tracker", "Cdn"}]],
                [allow |-> NoAllow, deny |-> [NoDeny EXCEPT !.threat = TRUE]]}
TheAllPolicies == ThePolicies \cup [allow : Allows, deny : Denies]

File(kind, readable, domains, nets) == [kind |-> kind, readable |-> readable, domains |-> domains, nets |-> nets]
TheDirectories ==
  {{File("hosts", TRUE, {<<"evil", "com">>}, {}), File("ips", TRUE, {}, {Net(TRUE, 2, 1), Net(FALSE, 0, 3)})},
   {File("domains", TRUE, {<<"com">>, <<"ads", "evil", "com">>}, {}), File("other", FALSE, {<<"nas", "home">>}, {})},
   {File("domains", TRUE, {<<"evil", "com">>}, {}), File("ips", FALSE, {}, {})}}
=============================================================================
