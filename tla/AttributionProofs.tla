------------------------- MODULE AttributionProofs -------------------------
(***************************************************************************)
(* Proofs about Attribution, for any pids, sockets, tables, addresses,     *)
(* permits and places in the cache: a row is of the process that holds the *)
(* socket or of nobody, with a name that was alive in its poll, and the    *)
(* resolver keeps to one lookup of an address at a time, to its permits    *)
(* and to its cache.                                                       *)
(***************************************************************************)
EXTENDS Attribution, FiniteSetTheorems, TLAPS

-----------------------------------------------------------------------------
(* The inductive invariant                                                 *)

(* The row whose name is about to be read, and the start read for it.      *)
KeyTypes ==
  /\ platform \in {"linux", "windows"}
  /\ pc = "name" =>
       /\ key.socket \in todo /\ key.pid \in Pid /\ key.start \in Process \ {0}
       /\ key.pid = inode_to_pid[key.socket]

(* Starts count up, and the process that holds a socket is there.          *)
SystemHolds ==
  /\ \A p \in Pid : proc[p] <= born
  /\ \A s \in Socket : owner[s] # 0 => s \in opened /\ \E p \in Pid : proc[p] = owner[s]
  /\ pc = "name" => key.start <= born

(* A socket that the sweep or the table found under a pid was open, and    *)
(* either it is closed by now or that pid still has its holder.            *)
FoundRight == \A s \in Socket : inode_to_pid[s] # NoPid =>
  s \in opened /\ owner[s] \in {0, proc[inode_to_pid[s]]}

(* The cache may know a recycled pid under a later name, but never the     *)
(* start that a pid has now under a name other than its own.               *)
CacheRight == \A e \in proc_cache :
  e.start <= born /\ (proc[e.pid] = e.start => e.name = e.start)

(* What is alive during a poll was alive in it.                            *)
RecentHolds == IF pc = "idle" THEN rows = {} ELSE Alive \subseteq recent

(* A row that names a process names the holder of its socket, if any.      *)
RowsRight == \A r \in rows : r.name # 0 =>
  r.socket \in opened /\ owner[r.socket] \in {0, r.name} /\ r.name \in recent

(* One address is between the check of the cache and the set in flight.    *)
OneMissed == \A a, b \in missed : a = b

(* A lookup of an address is on its way to the cache.                      *)
ToLand(a) == tasks[<<a, "queued">>] > 0 \/ tasks[<<a, "looking">>] > 0

(* The lookups since the cache last forgot an address: none unless one is  *)
(* to land while it is forgotten, one while the capture thread is about to *)
(* begin another, two at most.                                             *)
LookupsSince == \A a \in Addr :
  /\ fresh[a] <= 2
  /\ pc = "insert" /\ a \in missed => fresh[a] <= 1
  /\ cache[a] = "unknown" => fresh[a] <= 1 /\ (~ToLand(a) => fresh[a] = 0)

IInv ==
  /\ TypeOK /\ KeyTypes
  /\ SystemHolds /\ FoundRight /\ CacheRight /\ RecentHolds /\ RowsRight
  /\ OneMissed /\ OneAtATime /\ LookupsSince

-----------------------------------------------------------------------------
(* The initial states, and what a step leaves alone                        *)

(* The types of the system, of the poll and of the resolver.               *)
SystemTypes ==
  /\ platform \in {"linux", "windows"}
  /\ proc \in [Pid -> Process] /\ born \in Process
  /\ owner \in [Socket -> Process] /\ opened \subseteq Socket

PollTypes ==
  /\ pc \in {"idle", "sweep", "name", "enrich", "insert"}
  /\ unswept \subseteq Pid /\ inode_to_pid \in [Socket -> Pid \cup {NoPid}]
  /\ tables \subseteq Table /\ todo \subseteq Socket
  /\ rows \subseteq [socket : Socket, pid : Pid \cup {NoPid}, name : Process]
  /\ proc_cache \subseteq [pid : Pid, start : Process \ {0}, name : Process]
  /\ asking \subseteq Addr /\ missed \subseteq Addr

ResolverTypes ==
  /\ cache \in [Addr -> {"unknown", "absent", "named"}]
  /\ inflight \subseteq Addr
  /\ tasks \in [Addr \X Stage -> Nat] /\ fresh \in [Addr -> Nat]

(* The addresses the cache holds.                                          *)
Held == {a \in Addr : cache[a] # "unknown"}

PermitsBound == PermitsUsed <= MAX_CONCURRENT
CacheBound == Cardinality(Held) <= MAX_CACHE

(* The types fall into those parts.                                        *)
LEMMA TypeParts ==
  TypeOK /\ KeyTypes <=>
    SystemTypes /\ PollTypes /\ ResolverTypes /\ PermitsBound /\ CacheBound /\ KeyTypes
BY DEF TypeOK, KeyTypes, SystemTypes, PollTypes, ResolverTypes, PermitsBound, CacheBound, Held

(* The initial states satisfy the invariant.                               *)
LEMMA InitInv == Init => IInv
<1> SUFFICES ASSUME Init PROVE IInv
  OBVIOUS
<1> USE AttributionAssumption DEF Init
<1>1. SystemTypes /\ PollTypes /\ KeyTypes
  BY DEF SystemTypes, PollTypes, KeyTypes, Process
<1>2. ResolverTypes
  BY DEF ResolverTypes, Stage
<1>3. \A a \in Addr, stage \in Stage : tasks[<<a, stage>>] = 0
  OBVIOUS
<1>4. PermitsBound
  <2> HIDE DEF Init
  <2> DEFINE At(stage) == {a \in Addr : tasks[<<a, stage>>] > 0}
  <2>1. \A a \in Addr : tasks[<<a, "looking">>] = 0 /\ tasks[<<a, "cached">>] = 0
    BY <1>3 DEF Stage
  <2>2. \A a \in Addr : ~(tasks[<<a, "looking">>] > 0) /\ ~(tasks[<<a, "cached">>] > 0)
    <3> TAKE a \in Addr
    <3>1. tasks[<<a, "looking">>] = 0 /\ tasks[<<a, "cached">>] = 0
      BY <2>1
    <3> QED BY <3>1
  <2>3. At("looking") = {}
    BY <2>2, Zenon
  <2>4. At("cached") = {}
    BY <2>2, Zenon
  <2>5. Cardinality(At("looking")) = 0 /\ Cardinality(At("cached")) = 0
    BY <2>3, <2>4, FS_EmptySet
  <2> QED BY <2>5, AttributionAssumption DEF PermitsBound, PermitsUsed
<1>5. CacheBound
  <2>1. Held = {}
    BY DEF Held
  <2> QED BY <2>1, FS_EmptySet DEF CacheBound
<1>6. SystemHolds /\ FoundRight /\ CacheRight /\ RecentHolds /\ RowsRight
  BY DEF SystemHolds, FoundRight, CacheRight, RecentHolds, RowsRight
<1>7. OneMissed /\ OneAtATime
  BY <1>3 DEF OneMissed, OneAtATime, Stage
<1>8. LookupsSince
  BY DEF LookupsSince
<1> QED BY <1>1, <1>2, <1>4, <1>5, <1>6, <1>7, <1>8, TypeParts DEF IInv

(* A step of the system, of the poll, of the enricher or of a lookup       *)
(* leaves the state of the others alone.                                   *)
SystemStep ==
  /\ \E p \in Pid : Start(p) \/ Exit(p) \/ \E s \in Socket : Open(p, s)
  /\ UNCHANGED <<platform, pc, table, asking, missed, dns>>

PollStep ==
  /\ \/ BeginPoll \/ ReadName \/ EndPoll \/ EndEnrich
     \/ \E p \in Pid : Sweep(p)
     \/ \E t \in Table : ReadTable(t) \/ TableFails(t)
     \/ \E s \in Socket : resolve_process(s)
  /\ UNCHANGED <<system, missed, dns>>
  /\ pc # "insert" /\ pc' # "insert"

EnrichStep ==
  /\ \E a \in Addr : Enrich(a) \/ RequestKnown(a) \/ RequestMissed(a) \/ Insert(a)
  /\ UNCHANGED <<system, table, cache, recent>>
  /\ pc \in {"enrich", "insert"} /\ pc' \in {"enrich", "insert"}

LookupStep ==
  /\ \E a \in Addr : Acquire(a) \/ Land(a, "named") \/ Land(a, "absent") \/ Finish(a)
  /\ UNCHANGED <<system, pc, table, asking, missed, recent>>

LEMMA Steps ==
  ASSUME [Next]_vars
  PROVE  SystemStep \/ PollStep \/ EnrichStep \/ LookupStep \/ UNCHANGED vars
<1>1. ASSUME NEW p \in Pid, Start(p) \/ Exit(p) \/ \E s \in Socket : Open(p, s) PROVE SystemStep
  BY <1>1 DEF SystemStep, Start, Exit, Open
<1>2. ASSUME BeginPoll \/ ReadName \/ EndPoll \/ EndEnrich PROVE PollStep
  BY <1>2 DEF PollStep, BeginPoll, ReadName, EndPoll, EndEnrich, dns, system
<1>3. ASSUME NEW p \in Pid, Sweep(p) PROVE PollStep
  BY <1>3 DEF PollStep, Sweep, dns, system
<1>4. ASSUME NEW t \in Table, ReadTable(t) \/ TableFails(t) PROVE PollStep
  BY <1>4 DEF PollStep, ReadTable, TableFails, dns, system
<1>5. ASSUME NEW s \in Socket, resolve_process(s) PROVE PollStep
  <2>1. UNCHANGED <<system, missed, dns>> /\ pc = "sweep"
    BY <1>5 DEF resolve_process
  <2>2. pc' \in {pc, "name"}
    BY <1>5 DEF resolve_process, Unowned, Hit, Miss
  <2> QED BY <1>5, <2>1, <2>2 DEF PollStep
<1>6. ASSUME NEW a \in Addr, Enrich(a) \/ RequestKnown(a) \/ RequestMissed(a) \/ Insert(a) PROVE EnrichStep
  BY <1>6 DEF EnrichStep, Enrich, RequestKnown, RequestMissed, Insert, table, dns
<1>7. ASSUME NEW a \in Addr, Acquire(a) \/ Answer(a) \/ TimesOut(a) \/ Finish(a) PROVE LookupStep
  BY <1>7 DEF LookupStep, Acquire, Answer, TimesOut, Land, Finish, table
<1> QED BY <1>1, <1>2, <1>3, <1>4, <1>5, <1>6, <1>7 DEF Next, Poll

-----------------------------------------------------------------------------
(* Rows and their owners                                                   *)

(* What the rows rest on: all of the invariant but the resolver.           *)
Attributed ==
  /\ SystemTypes /\ PollTypes /\ KeyTypes
  /\ SystemHolds /\ FoundRight /\ CacheRight /\ RecentHolds /\ RowsRight

(* A new process is under a number of its own, which no socket, no row     *)
(* and no entry of the cache carries.                                      *)
LEMMA StartKeeps ==
  ASSUME Attributed, NEW p \in Pid, Start(p)
  PROVE  Attributed'
<1> USE DEF Attributed
<1>1. /\ proc \in [Pid -> Process] /\ born \in Process /\ proc[p] = 0 /\ born < MaxProcs
      /\ born' = born + 1 /\ proc' = [proc EXCEPT ![p] = born']
      /\ recent' = (IF pc = "idle" THEN {} ELSE recent \cup {born'})
      /\ UNCHANGED <<platform, owner, opened, pc, unswept, inode_to_pid, tables, todo, key, rows, proc_cache, asking, missed>>
  BY DEF Start, SystemTypes, table
<1>2. born \in Nat /\ born' \in Process \ {0}
  BY <1>1, AttributionAssumption DEF Process
<1>3. proc'[p] = born' /\ \A q \in Pid \ {p} : proc'[q] = proc[q]
  BY <1>1
<1>4. SystemTypes'
  BY <1>1, <1>2 DEF SystemTypes
<1>5. PollTypes' /\ KeyTypes'
  BY <1>1 DEF PollTypes, KeyTypes
<1>6. SystemHolds'
  <2>1. \A q \in Pid : proc'[q] <= born'
    BY <1>1, <1>2, <1>3 DEF SystemHolds, Process
  <2>2. ASSUME NEW s \in Socket, owner'[s] # 0 PROVE s \in opened' /\ \E q \in Pid : proc'[q] = owner'[s]
    <3>1. owner[s] # 0 /\ owner'[s] = owner[s] /\ s \in opened /\ opened' = opened
      BY <1>1, <2>2 DEF SystemHolds
    <3>2. PICK q \in Pid : proc[q] = owner[s]
      BY <3>1 DEF SystemHolds
    <3>3. q # p
      BY <1>1, <3>1, <3>2
    <3> QED BY <1>3, <3>1, <3>2, <3>3
  <2>3. pc' = "name" => key'.start <= born'
    BY <1>1, <1>2 DEF SystemHolds, KeyTypes, Process
  <2> QED BY <2>1, <2>2, <2>3 DEF SystemHolds
<1>7. FoundRight'
  <2> SUFFICES ASSUME NEW s \in Socket, inode_to_pid[s] # NoPid
               PROVE  s \in opened /\ owner[s] \in {0, proc'[inode_to_pid[s]]}
    BY <1>1 DEF FoundRight
  <2>1. s \in opened /\ owner[s] \in {0, proc[inode_to_pid[s]]} /\ inode_to_pid[s] \in Pid
    BY DEF FoundRight, PollTypes
  <2> QED BY <1>1, <1>3, <2>1
<1>8. CacheRight'
  <2> SUFFICES ASSUME NEW e \in proc_cache
               PROVE  e.start <= born' /\ (proc'[e.pid] = e.start => e.name = e.start)
    BY <1>1 DEF CacheRight
  <2>1. /\ e.start <= born /\ (proc[e.pid] = e.start => e.name = e.start)
        /\ e.pid \in Pid /\ e.start \in Nat
    BY DEF CacheRight, PollTypes, Process
  <2>2. e.start # born' /\ e.start <= born'
    BY <1>1, <1>2, <2>1
  <2> QED BY <1>3, <2>1, <2>2
<1>9. RecentHolds'
  <2>1. CASE pc = "idle"
    BY <1>1, <2>1 DEF RecentHolds
  <2>2. CASE pc # "idle"
    <3>1. Alive' \subseteq Alive \cup {born'}
      BY <1>3, Zenon DEF Alive
    <3> QED BY <1>1, <2>2, <3>1 DEF RecentHolds
  <2> QED BY <2>1, <2>2
<1>10. RowsRight'
  BY <1>1 DEF RowsRight, RecentHolds
<1> QED BY <1>4, <1>5, <1>6, <1>7, <1>8, <1>9, <1>10

(* A process ends with all of its sockets.                                 *)
LEMMA ExitKeeps ==
  ASSUME Attributed, NEW p \in Pid, Exit(p)
  PROVE  Attributed'
<1> USE DEF Attributed
<1>1. /\ proc \in [Pid -> Process] /\ owner \in [Socket -> Process] /\ proc[p] # 0
      /\ proc' = [proc EXCEPT ![p] = 0]
      /\ owner' = [s \in Socket |-> IF owner[s] = proc[p] THEN 0 ELSE owner[s]]
      /\ UNCHANGED <<platform, born, opened, pc, unswept, inode_to_pid, tables, todo, key, rows, proc_cache, asking, missed, recent>>
  BY DEF Exit, SystemTypes, table
<1>2. proc'[p] = 0 /\ \A q \in Pid \ {p} : proc'[q] = proc[q]
  BY <1>1
<1>3. \A s \in Socket : (owner[s] = proc[p] /\ owner'[s] = 0) \/ (owner[s] # proc[p] /\ owner'[s] = owner[s])
  BY <1>1
<1>4. SystemTypes'
  BY <1>1, AttributionAssumption DEF SystemTypes, Process
<1>5. PollTypes' /\ KeyTypes'
  BY <1>1 DEF PollTypes, KeyTypes
<1>6. SystemHolds'
  <2>1. \A q \in Pid : proc'[q] <= born'
    BY <1>1, <1>2 DEF SystemHolds, SystemTypes, Process
  <2>2. ASSUME NEW s \in Socket, owner'[s] # 0 PROVE s \in opened' /\ \E q \in Pid : proc'[q] = owner'[s]
    <3>1. owner[s] # 0 /\ owner'[s] = owner[s] /\ owner[s] # proc[p] /\ s \in opened /\ opened' = opened
      BY <1>1, <1>3, <2>2 DEF SystemHolds
    <3>2. PICK q \in Pid : proc[q] = owner[s]
      BY <3>1 DEF SystemHolds
    <3> QED BY <1>2, <3>1, <3>2
  <2>3. pc' = "name" => key'.start <= born'
    BY <1>1 DEF SystemHolds
  <2> QED BY <2>1, <2>2, <2>3 DEF SystemHolds
<1>7. FoundRight'
  <2> SUFFICES ASSUME NEW s \in Socket, inode_to_pid[s] # NoPid
               PROVE  s \in opened /\ owner'[s] \in {0, proc'[inode_to_pid[s]]}
    BY <1>1 DEF FoundRight
  <2>1. s \in opened /\ owner[s] \in {0, proc[inode_to_pid[s]]} /\ inode_to_pid[s] \in Pid
    BY DEF FoundRight, PollTypes
  <2> QED BY <1>2, <1>3, <2>1
<1>8. CacheRight'
  <2> SUFFICES ASSUME NEW e \in proc_cache
               PROVE  e.start <= born /\ (proc'[e.pid] = e.start => e.name = e.start)
    BY <1>1 DEF CacheRight
  <2>1. /\ e.start <= born /\ (proc[e.pid] = e.start => e.name = e.start)
        /\ e.pid \in Pid /\ e.start # 0
    BY DEF CacheRight, PollTypes
  <2> QED BY <1>2, <2>1
<1>9. RecentHolds'
  <2>1. Alive' \subseteq Alive
    BY <1>2, Zenon DEF Alive
  <2> QED BY <1>1, <2>1 DEF RecentHolds
<1>10. RowsRight'
  <2> SUFFICES ASSUME NEW r \in rows, r.name # 0
               PROVE  r.socket \in opened /\ owner'[r.socket] \in {0, r.name} /\ r.name \in recent
    BY <1>1 DEF RowsRight
  <2>1. r.socket \in opened /\ owner[r.socket] \in {0, r.name} /\ r.name \in recent /\ r.socket \in Socket
    BY DEF RowsRight, PollTypes
  <2> QED BY <1>3, <2>1
<1> QED BY <1>4, <1>5, <1>6, <1>7, <1>8, <1>9, <1>10

(* A socket is opened once, so nothing has been found about it.            *)
LEMMA OpenKeeps ==
  ASSUME Attributed, NEW p \in Pid, NEW s \in Socket, Open(p, s)
  PROVE  Attributed'
<1> USE DEF Attributed
<1>1. /\ proc \in [Pid -> Process] /\ owner \in [Socket -> Process] /\ proc[p] # 0 /\ s \notin opened
      /\ owner' = [owner EXCEPT ![s] = proc[p]] /\ opened' = opened \cup {s}
      /\ UNCHANGED <<platform, proc, born, pc, unswept, inode_to_pid, tables, todo, key, rows, proc_cache, asking, missed, recent>>
  BY DEF Open, SystemTypes, table
<1>2. owner'[s] = proc[p] /\ \A x \in Socket \ {s} : owner'[x] = owner[x]
  BY <1>1
<1>3. SystemTypes'
  BY <1>1 DEF SystemTypes
<1>4. PollTypes' /\ KeyTypes'
  BY <1>1 DEF PollTypes, KeyTypes
<1>5. SystemHolds'
  <2>1. ASSUME NEW x \in Socket, owner'[x] # 0 PROVE x \in opened' /\ \E q \in Pid : proc[q] = owner'[x]
    BY <1>1, <1>2, <2>1 DEF SystemHolds
  <2> QED BY <1>1, <2>1 DEF SystemHolds
<1>6. FoundRight'
  BY <1>1, <1>2 DEF FoundRight
<1>7. CacheRight'
  BY <1>1 DEF CacheRight
<1>8. RecentHolds'
  BY <1>1 DEF RecentHolds, Alive
<1>9. RowsRight'
  <2> SUFFICES ASSUME NEW r \in rows, r.name # 0
               PROVE  r.socket \in opened' /\ owner'[r.socket] \in {0, r.name} /\ r.name \in recent
    BY <1>1 DEF RowsRight
  <2>1. r.socket \in opened /\ owner[r.socket] \in {0, r.name} /\ r.name \in recent /\ r.socket \in Socket
    BY DEF RowsRight, PollTypes
  <2> QED BY <1>1, <1>2, <2>1
<1> QED BY <1>3, <1>4, <1>5, <1>6, <1>7, <1>8, <1>9

(* A row with the name of the process that its pid has by now, or with     *)
(* none.                                                                   *)
LEMMA RowAdds ==
  ASSUME Attributed, NEW s \in todo, NEW pid \in Pid \cup {NoPid}, NEW name \in Process,
         Row(s, pid, name), pc # "idle",
         name # 0 => inode_to_pid[s] # NoPid /\ name = proc[inode_to_pid[s]],
         UNCHANGED <<system, recent>>
  PROVE  /\ RowsRight' /\ todo' = todo \ {s}
         /\ rows' \subseteq [socket : Socket, pid : Pid \cup {NoPid}, name : Process]
<1> USE DEF Attributed
<1> DEFINE new == [socket |-> s, pid |-> pid, name |-> name]
<1>1. /\ rows' = rows \cup {new} /\ todo' = todo \ {s}
      /\ UNCHANGED <<proc, owner, opened, recent>> /\ s \in Socket
  BY DEF Row, PollTypes, system
<1>2. new.socket = s /\ new.name = name /\ new \in [socket : Socket, pid : Pid \cup {NoPid}, name : Process]
  BY <1>1
<1>3. ASSUME name # 0 PROVE s \in opened /\ owner[s] \in {0, name} /\ name \in recent
  <2>1. inode_to_pid[s] \in Pid /\ name = proc[inode_to_pid[s]]
    BY <1>1, <1>3 DEF PollTypes
  <2>2. name \in Alive
    BY <1>3, <2>1 DEF Alive
  <2> QED BY <1>1, <1>3, <2>1, <2>2 DEF FoundRight, RecentHolds
<1> HIDE DEF new
<1>4. RowsRight'
  BY <1>1, <1>2, <1>3 DEF RowsRight
<1> QED BY <1>1, <1>2, <1>4 DEF PollTypes

(* The poll of the connection table keeps the rows right.                  *)
LEMMA BeginPollKeeps ==
  ASSUME Attributed, BeginPoll
  PROVE  Attributed'
<1> USE DEF Attributed
<1>1. /\ pc = "idle" /\ pc' = "sweep" /\ unswept' \subseteq Pid /\ tables' = Table /\ recent' = Alive
      /\ UNCHANGED <<platform, proc, born, owner, opened, inode_to_pid, todo, key, rows, proc_cache, asking, missed>>
  BY DEF BeginPoll, system
<1>2. SystemTypes' /\ PollTypes' /\ KeyTypes'
  BY <1>1 DEF SystemTypes, PollTypes, KeyTypes
<1>3. rows = {} /\ Alive' = Alive
  BY <1>1 DEF RecentHolds, Alive
<1> QED BY <1>1, <1>2, <1>3 DEF SystemHolds, FoundRight, CacheRight, RecentHolds, RowsRight

LEMMA SweepKeeps ==
  ASSUME Attributed, NEW p \in Pid, Sweep(p)
  PROVE  Attributed'
<1> USE DEF Attributed
<1>1. /\ pc = "sweep" /\ unswept' = unswept \ {p}
      /\ inode_to_pid' = [s \in Socket |-> IF proc[p] # 0 /\ owner[s] = proc[p] THEN p ELSE inode_to_pid[s]]
      /\ UNCHANGED <<platform, proc, born, owner, opened, pc, tables, todo, key, rows, proc_cache, asking, missed, recent>>
  BY DEF Sweep, system
<1>2. SystemTypes' /\ PollTypes' /\ KeyTypes'
  BY <1>1 DEF SystemTypes, PollTypes, KeyTypes
<1>3. FoundRight'
  <2> SUFFICES ASSUME NEW s \in Socket, inode_to_pid'[s] # NoPid
               PROVE  s \in opened /\ owner[s] \in {0, proc[inode_to_pid'[s]]}
    BY <1>1 DEF FoundRight
  <2>1. CASE proc[p] # 0 /\ owner[s] = proc[p]
    BY <1>1, <2>1 DEF SystemHolds
  <2>2. CASE ~(proc[p] # 0 /\ owner[s] = proc[p])
    <3>1. inode_to_pid'[s] = inode_to_pid[s]
      BY <1>1, <2>2
    <3> QED BY <3>1 DEF FoundRight
  <2> QED BY <2>1, <2>2
<1>4. SystemHolds' /\ CacheRight' /\ RecentHolds' /\ RowsRight'
  BY <1>1 DEF SystemHolds, CacheRight, RecentHolds, Alive, RowsRight
<1> QED BY <1>2, <1>3, <1>4

LEMMA ReadTableKeeps ==
  ASSUME Attributed, NEW t \in Table, ReadTable(t)
  PROVE  Attributed'
<1> USE DEF Attributed
<1> DEFINE Owner(s) == CHOOSE p \in Pid : proc[p] = owner[s]
<1>1. /\ pc = "sweep" /\ tables' = tables \ {t} /\ todo' = {s \in Socket : owner[s] # 0 /\ TableOf[s] = t}
      /\ inode_to_pid' = (IF platform = "linux" THEN inode_to_pid ELSE
           [s \in Socket |-> IF s \in todo' THEN Owner(s) ELSE NoPid])
      /\ UNCHANGED <<platform, proc, born, owner, opened, pc, unswept, key, rows, proc_cache, asking, missed, recent>>
  BY DEF ReadTable, system
<1>2. ASSUME NEW s \in todo' PROVE s \in opened /\ Owner(s) \in Pid /\ proc[Owner(s)] = owner[s]
  <2>1. s \in opened /\ \E p \in Pid : proc[p] = owner[s]
    BY <1>1, <1>2 DEF SystemHolds
  <2> QED BY <2>1
<1> HIDE DEF Owner
<1>3. SystemTypes' /\ KeyTypes'
  BY <1>1 DEF SystemTypes, KeyTypes
<1>4. inode_to_pid' \in [Socket -> Pid \cup {NoPid}]
  BY <1>1, <1>2 DEF PollTypes
<1>5. PollTypes'
  BY <1>1, <1>4 DEF PollTypes
<1>6. FoundRight'
  <2> SUFFICES ASSUME NEW s \in Socket, inode_to_pid'[s] # NoPid
               PROVE  s \in opened /\ owner[s] \in {0, proc[inode_to_pid'[s]]}
    BY <1>1 DEF FoundRight
  <2>1. CASE platform = "linux"
    BY <1>1, <2>1 DEF FoundRight
  <2>2. CASE platform # "linux"
    <3>1. s \in todo' /\ inode_to_pid'[s] = Owner(s)
      BY <1>1, <2>2
    <3> QED BY <1>2, <3>1
  <2> QED BY <2>1, <2>2
<1>7. SystemHolds' /\ CacheRight' /\ RecentHolds' /\ RowsRight'
  BY <1>1 DEF SystemHolds, CacheRight, RecentHolds, Alive, RowsRight
<1> QED BY <1>3, <1>5, <1>6, <1>7

(* An entry of the cache for the process that has the pid names it.        *)
LEMMA ResolveKeeps ==
  ASSUME Attributed, NEW s \in Socket, resolve_process(s)
  PROVE  Attributed'
<1> USE DEF Attributed
<1> DEFINE pid == inode_to_pid[s]
<1>1. /\ pc = "sweep" /\ s \in todo
      /\ UNCHANGED <<platform, proc, born, owner, opened, unswept, inode_to_pid, tables, asking, missed, recent>>
  BY DEF resolve_process, system
<1>2. s \in todo /\ (Unowned(s) \/ Hit(s) \/ Miss(s)) /\ UNCHANGED system
  BY DEF resolve_process
<1>3. Holder(s) # 0 => pid # NoPid /\ pid \in Pid /\ Holder(s) = proc[pid]
  BY DEF Holder, PollTypes
<1>4. SystemTypes' /\ FoundRight'
  BY <1>1 DEF SystemTypes, FoundRight
<1>5. ASSUME RowsRight', todo' \subseteq todo, UNCHANGED <<pc, key>>, proc_cache' \in SUBSET [pid : Pid, start : Process \ {0}, name : Process],
             CacheRight', rows' \subseteq [socket : Socket, pid : Pid \cup {NoPid}, name : Process]
      PROVE  Attributed'
  BY <1>1, <1>4, <1>5 DEF PollTypes, KeyTypes, SystemHolds, RecentHolds, Alive
<1>6. CASE Unowned(s)
  <2>1. Row(s, NoPid, 0) /\ UNCHANGED <<pc, key, proc_cache>> /\ 0 \in Process
    BY <1>6, AttributionAssumption DEF Unowned, Process
  <2>2. RowsRight' /\ todo' = todo \ {s} /\ rows' \subseteq [socket : Socket, pid : Pid \cup {NoPid}, name : Process]
    BY <1>1, <1>2, <2>1, RowAdds
  <2> QED BY <1>1, <1>5, <2>1, <2>2 DEF CacheRight, PollTypes
<1>7. CASE Hit(s)
  <2>1. PICK e \in Known(pid) : Row(s, e.pid, e.name)
    BY <1>7 DEF Hit
  <2>2. e \in proc_cache /\ e.pid = pid /\ e.start = proc[pid] /\ Holder(s) # 0 /\ UNCHANGED <<pc, key, proc_cache>>
    BY <1>7 DEF Hit, Known
  <2>3. e.pid \in Pid /\ e.name \in Process /\ e.name = proc[pid]
    BY <2>2 DEF CacheRight, PollTypes
  <2>4. RowsRight' /\ todo' = todo \ {s} /\ rows' \subseteq [socket : Socket, pid : Pid \cup {NoPid}, name : Process]
    BY <1>1, <1>2, <1>3, <2>1, <2>2, <2>3, RowAdds
  <2> QED BY <1>1, <1>5, <2>2, <2>4 DEF CacheRight, PollTypes
<1>8. CASE Miss(s) /\ platform = "windows"
  <2>1. Row(s, pid, proc[pid]) /\ Learn(pid, proc[pid], proc[pid]) /\ Holder(s) # 0 /\ UNCHANGED <<pc, key>>
    BY <1>8 DEF Miss
  <2>2. pid \in Pid /\ pid # NoPid /\ proc[pid] \in Process \ {0} /\ proc[pid] <= born
    BY <1>3, <2>1 DEF SystemTypes, SystemHolds
  <2>3. RowsRight' /\ todo' = todo \ {s} /\ rows' \subseteq [socket : Socket, pid : Pid \cup {NoPid}, name : Process]
    BY <1>1, <1>2, <2>1, <2>2, RowAdds
  <2>4. proc_cache' = proc_cache \cup {[pid |-> pid, start |-> proc[pid], name |-> proc[pid]]}
    BY <2>1 DEF Learn
  <2>5. CacheRight'
    BY <1>1, <2>2, <2>4 DEF CacheRight
  <2>6. proc_cache' \in SUBSET [pid : Pid, start : Process \ {0}, name : Process]
    BY <2>2, <2>4 DEF PollTypes
  <2> QED BY <1>5, <2>1, <2>3, <2>5, <2>6
<1>9. CASE Miss(s) /\ platform # "windows"
  <2>1. /\ pc' = "name" /\ key' = [socket |-> s, pid |-> pid, start |-> proc[pid]]
        /\ Holder(s) # 0 /\ UNCHANGED <<rows, todo, proc_cache>>
    BY <1>9 DEF Miss
  <2>2. pid \in Pid /\ proc[pid] \in Process \ {0} /\ proc[pid] <= born
    BY <1>3, <2>1 DEF SystemTypes, SystemHolds
  <2>3. key'.socket = s /\ key'.pid = pid /\ key'.start = proc[pid]
    BY <2>1
  <2>4. KeyTypes'
    BY <1>1, <2>1, <2>2, <2>3 DEF KeyTypes
  <2>5. PollTypes'
    BY <1>1, <2>1 DEF PollTypes
  <2>6. SystemHolds'
    BY <1>1, <2>1, <2>2, <2>3 DEF SystemHolds
  <2> QED BY <1>1, <1>4, <2>1, <2>4, <2>5, <2>6 DEF CacheRight, RecentHolds, Alive, RowsRight
<1> QED BY <1>2, <1>6, <1>7, <1>8, <1>9

(* A name read after its start is of whoever has the pid by then: it may   *)
(* be cached under a start that is past, which no pid has again.           *)
LEMMA ReadNameKeeps ==
  ASSUME Attributed, ReadName
  PROVE  Attributed'
<1> USE DEF Attributed
<1> DEFINE s == key.socket
           pid == key.pid
           new == [pid |-> pid, start |-> key.start, name |-> proc[pid]]
<1>1. /\ pc = "name" /\ pc' = "sweep" /\ Row(s, pid, proc[pid]) /\ Learn(pid, key.start, proc[pid])
      /\ UNCHANGED system
      /\ UNCHANGED <<platform, proc, born, owner, opened, unswept, inode_to_pid, tables, asking, missed, recent>>
  BY DEF ReadName, system
<1>2. s \in todo /\ pid \in Pid /\ key.start \in Process \ {0} /\ pid = inode_to_pid[s] /\ key.start <= born
  BY <1>1 DEF KeyTypes, SystemHolds
<1>3. proc[pid] \in Process /\ pid # NoPid
  BY <1>2, AttributionAssumption DEF SystemTypes
<1>4. proc_cache' = proc_cache \cup {new}
  BY <1>1 DEF Learn
<1>5. new.pid = pid /\ new.start = key.start /\ new.name = proc[pid] /\ new \in [pid : Pid, start : Process \ {0}, name : Process]
  BY <1>2, <1>3
<1> HIDE DEF s, pid, new
<1>6. RowsRight' /\ todo' = todo \ {s} /\ rows' \subseteq [socket : Socket, pid : Pid \cup {NoPid}, name : Process]
  BY <1>1, <1>2, <1>3, RowAdds
<1>7. SystemTypes' /\ FoundRight' /\ KeyTypes'
  BY <1>1 DEF SystemTypes, FoundRight, KeyTypes
<1>8. PollTypes'
  BY <1>1, <1>4, <1>5, <1>6 DEF PollTypes
<1>9. CacheRight'
  BY <1>1, <1>2, <1>4, <1>5 DEF CacheRight
<1>10. SystemHolds' /\ RecentHolds'
  BY <1>1 DEF SystemHolds, RecentHolds, Alive
<1> QED BY <1>6, <1>7, <1>8, <1>9, <1>10

(* Every step keeps the rows right.                                        *)
LEMMA AttributedStep ==
  ASSUME Attributed, [Next]_vars
  PROVE  Attributed'
<1> USE DEF Attributed
<1>1. CASE SystemStep
  BY <1>1, StartKeeps, ExitKeeps, OpenKeeps DEF SystemStep
<1>2. ASSUME NEW t \in Table, TableFails(t) PROVE Attributed'
  <2>1. /\ tables' = tables \ {t}
        /\ UNCHANGED <<platform, proc, born, owner, opened, pc, unswept, inode_to_pid, todo, key, rows, proc_cache, asking, missed, recent>>
    BY <1>2 DEF TableFails, system
  <2>2. SystemTypes' /\ PollTypes' /\ KeyTypes'
    BY <2>1 DEF SystemTypes, PollTypes, KeyTypes
  <2> QED BY <2>1, <2>2 DEF SystemHolds, FoundRight, CacheRight, RecentHolds, Alive, RowsRight
<1>3. CASE EndPoll
  <2>1. /\ pc' = "enrich" /\ proc_cache' \subseteq proc_cache /\ asking' = {Remote[r.socket] : r \in rows}
        /\ pc # "idle" /\ inode_to_pid' = [s \in Socket |-> NoPid]
        /\ UNCHANGED <<platform, proc, born, owner, opened, unswept, tables, todo, key, rows, missed, recent>>
    BY <1>3 DEF EndPoll, system
  <2>2. asking' \subseteq Addr
    BY <2>1, AttributionAssumption DEF PollTypes
  <2>3. SystemTypes' /\ PollTypes' /\ KeyTypes'
    BY <2>1, <2>2 DEF SystemTypes, PollTypes, KeyTypes
  <2>4. FoundRight'
    BY <2>1 DEF FoundRight
  <2> QED BY <2>1, <2>3, <2>4 DEF SystemHolds, CacheRight, RecentHolds, Alive, RowsRight
<1>4. CASE EndEnrich
  <2>1. /\ pc' = "idle" /\ rows' = {} /\ recent' = {}
        /\ UNCHANGED <<platform, proc, born, owner, opened, unswept, inode_to_pid, tables, todo, key, proc_cache, asking, missed>>
    BY <1>4 DEF EndEnrich, system
  <2>2. SystemTypes' /\ PollTypes' /\ KeyTypes'
    BY <2>1 DEF SystemTypes, PollTypes, KeyTypes
  <2> QED BY <2>1, <2>2 DEF SystemHolds, FoundRight, CacheRight, RecentHolds, RowsRight
<1>5. CASE PollStep
  BY <1>2, <1>3, <1>4, <1>5, BeginPollKeeps, SweepKeeps, ReadTableKeeps, ResolveKeeps, ReadNameKeeps DEF PollStep
<1>6. CASE EnrichStep
  <2>1. /\ pc \in {"enrich", "insert"} /\ pc' \in {"enrich", "insert"}
        /\ UNCHANGED <<platform, proc, born, owner, opened, unswept, inode_to_pid, tables, todo, key, rows, proc_cache, recent>>
    BY <1>6 DEF EnrichStep, system, table
  <2>2. asking' \subseteq asking /\ missed' \subseteq Addr
    BY <1>6 DEF EnrichStep, Enrich, RequestKnown, RequestMissed, Insert, PollTypes
  <2>3. SystemTypes' /\ PollTypes' /\ KeyTypes'
    BY <2>1, <2>2 DEF SystemTypes, PollTypes, KeyTypes
  <2> QED BY <2>1, <2>3 DEF SystemHolds, FoundRight, CacheRight, RecentHolds, Alive, RowsRight
<1>7. CASE UNCHANGED <<system, pc, table, asking, missed, recent>>
  <2>1. UNCHANGED <<platform, proc, born, owner, opened, pc, unswept, inode_to_pid, tables, todo, key, rows, proc_cache, asking, missed, recent>>
    BY <1>7 DEF system, table
  <2>2. SystemTypes' /\ PollTypes' /\ KeyTypes'
    BY <2>1 DEF SystemTypes, PollTypes, KeyTypes
  <2> QED BY <2>1, <2>2 DEF SystemHolds, FoundRight, CacheRight, RecentHolds, Alive, RowsRight
<1> QED BY <1>1, <1>5, <1>6, <1>7, Steps DEF LookupStep, vars

-----------------------------------------------------------------------------
(* Lookups                                                                 *)

(* What the bounds on the lookups rest on.                                 *)
Resolves ==
  /\ PollTypes /\ ResolverTypes /\ PermitsBound /\ CacheBound
  /\ OneMissed /\ OneAtATime /\ LookupsSince

At(stage) == {a \in Addr : tasks[<<a, stage>>] > 0}

(* The stages of an address one by one.                                    *)
Staged(a) ==
  LET queued == tasks[<<a, "queued">>]
      looking == tasks[<<a, "looking">>]
      cached == tasks[<<a, "cached">>]
  IN /\ {queued, looking, cached} \subseteq Nat
     /\ a \in inflight => queued + looking + cached = 1
     /\ a \notin inflight => queued + looking + cached = 0

LEMMA StagedIs ==
  ASSUME ResolverTypes, OneAtATime
  PROVE  \A a \in Addr : Staged(a)
<1>1. ASSUME NEW a \in Addr PROVE tasks[<<a, "queued">>] \in Nat /\ tasks[<<a, "looking">>] \in Nat /\ tasks[<<a, "cached">>] \in Nat
  BY <1>1 DEF ResolverTypes, Stage
<1> QED BY <1>1 DEF OneAtATime, Staged

LEMMA StagedNext ==
  ASSUME \A a \in Addr : Staged(a)'
  PROVE  OneAtATime'
BY DEF OneAtATime, Staged

(* A task that goes on to its next stage.                                  *)
LEMMA MoveIs ==
  ASSUME ResolverTypes, NEW a \in Addr, NEW from \in Stage, NEW to \in Stage, from # to,
         tasks[<<a, from>>] > 0, tasks' = Move(a, from, to)
  PROVE  /\ tasks' \in [Addr \X Stage -> Nat]
         /\ tasks'[<<a, from>>] = tasks[<<a, from>>] - 1
         /\ tasks'[<<a, to>>] = tasks[<<a, to>>] + 1
         /\ \A b \in Addr, stage \in Stage :
              b # a \/ stage \notin {from, to} => tasks'[<<b, stage>>] = tasks[<<b, stage>>]
<1>1. tasks \in [Addr \X Stage -> Nat] /\ tasks[<<a, from>>] \in Nat /\ tasks[<<a, to>>] \in Nat
  BY DEF ResolverTypes
<1>2. tasks' = [tasks EXCEPT ![<<a, from>>] = tasks[<<a, from>>] - 1, ![<<a, to>>] = tasks[<<a, to>>] + 1]
  BY <1>1 DEF Move
<1>3. <<a, from>> # <<a, to>> /\ tasks[<<a, from>>] - 1 \in Nat
  BY <1>1
<1> QED BY <1>1, <1>2, <1>3

(* The sets of tasks that hold a permit are finite.                        *)
LEMMA PermitsCount ==
  ASSUME NEW stage
  PROVE  IsFiniteSet(At(stage)) /\ Cardinality(At(stage)) \in Nat
BY AttributionAssumption, FS_Subset, FS_CardinalityType DEF At


LEMMA AcquireKeeps ==
  ASSUME Resolves, NEW a \in Addr, Acquire(a)
  PROVE  Resolves'
<1> USE DEF Resolves
<1>1. /\ tasks[<<a, "queued">>] > 0 /\ PermitsUsed < MAX_CONCURRENT
      /\ tasks' = Move(a, "queued", "looking")
      /\ UNCHANGED <<pc, unswept, inode_to_pid, tables, todo, rows, proc_cache, asking, missed, cache, inflight, fresh>>
  BY DEF Acquire, table
<1>2. /\ tasks' \in [Addr \X Stage -> Nat]
      /\ tasks'[<<a, "queued">>] = tasks[<<a, "queued">>] - 1
      /\ tasks'[<<a, "looking">>] = tasks[<<a, "looking">>] + 1
      /\ tasks'[<<a, "cached">>] = tasks[<<a, "cached">>]
      /\ \A b \in Addr \ {a}, stage \in Stage : tasks'[<<b, stage>>] = tasks[<<b, stage>>]
  <2>1. {"queued", "looking", "cached"} = Stage /\ "queued" # "looking" /\ "queued" # "cached" /\ "looking" # "cached"
    BY DEF Stage
  <2>2. /\ tasks' \in [Addr \X Stage -> Nat]
        /\ tasks'[<<a, "queued">>] = tasks[<<a, "queued">>] - 1
        /\ tasks'[<<a, "looking">>] = tasks[<<a, "looking">>] + 1
        /\ \A b \in Addr, stage \in Stage :
             b # a \/ stage \notin {"queued", "looking"} => tasks'[<<b, stage>>] = tasks[<<b, stage>>]
    BY <1>1, <2>1, MoveIs
  <2> QED BY <2>1, <2>2
<1>3. ResolverTypes' /\ PollTypes'
  BY <1>1, <1>2 DEF ResolverTypes, PollTypes
<1>4. OneMissed' /\ CacheBound'
  BY <1>1 DEF OneMissed, CacheBound, Held
<1>5. \A b \in Addr : Staged(b)
  BY StagedIs
<1>6. \A b \in Addr : Staged(b)'
  <2> TAKE b \in Addr
  <2>1. CASE b = a
    BY <1>1, <1>2, <1>5, <2>1 DEF Staged
  <2>2. CASE b # a
    BY <1>1, <1>2, <1>5, <2>2 DEF Staged, Stage
  <2> QED BY <2>1, <2>2
<1>7. OneAtATime'
  BY <1>3, <1>6, StagedNext
<1>8. PermitsBound'
  <2>1. At("looking")' \subseteq At("looking") \cup {a} /\ At("cached")' = At("cached")
    BY <1>2 DEF At, Stage
  <2>2. /\ IsFiniteSet(At("looking") \cup {a})
        /\ Cardinality(At("looking") \cup {a}) <= Cardinality(At("looking")) + 1
        /\ Cardinality(At("looking") \cup {a}) \in Nat
    <3>1. IsFiniteSet(At("looking")) /\ Cardinality(At("looking")) \in Nat
      BY PermitsCount
    <3>2. /\ IsFiniteSet(At("looking") \cup {a})
          /\ Cardinality(At("looking") \cup {a}) \in {Cardinality(At("looking")), Cardinality(At("looking")) + 1}
      BY <3>1, FS_AddElement
    <3> QED BY <3>1, <3>2
  <2>3. Cardinality(At("looking")') <= Cardinality(At("looking") \cup {a}) /\ Cardinality(At("looking")') \in Nat
    BY <2>1, <2>2, FS_Subset, FS_CardinalityType
  <2>4. /\ PermitsUsed = Cardinality(At("looking")) + Cardinality(At("cached"))
        /\ PermitsUsed' = Cardinality(At("looking")') + Cardinality(At("cached")')
    BY DEF PermitsUsed, At
  <2>5. Cardinality(At("looking")) \in Nat /\ Cardinality(At("cached")) \in Nat /\ MAX_CONCURRENT \in Nat
    BY PermitsCount, AttributionAssumption
  <2> QED BY <1>1, <2>1, <2>2, <2>3, <2>4, <2>5 DEF PermitsBound
<1>9. LookupsSince'
  <2>1. \A b \in Addr : ToLand(b)' <=> ToLand(b)
    <3> TAKE b \in Addr
    <3>1. CASE b = a
      BY <1>1, <1>2, <1>5, <3>1 DEF ToLand, Staged
    <3>2. CASE b # a
      BY <1>2, <3>2 DEF ToLand, Stage
    <3> QED BY <3>1, <3>2
  <2> QED BY <1>1, <2>1 DEF LookupsSince
<1> QED BY <1>3, <1>4, <1>7, <1>8, <1>9

(* A lookup that lands makes room first, and forgets what made room.       *)
LEMMA LandKeeps ==
  ASSUME Resolves, NEW a \in Addr, NEW result \in {"named", "absent"}, Land(a, result)
  PROVE  Resolves'
<1> USE DEF Resolves
<1>1. /\ tasks[<<a, "looking">>] > 0 /\ tasks' = Move(a, "looking", "cached")
      /\ \E victims \in Victims : Cached(a, result, victims)
      /\ UNCHANGED <<pc, unswept, inode_to_pid, tables, todo, rows, proc_cache, asking, missed, inflight>>
  BY DEF Land, table
<1>2. PICK victims \in Victims : Cached(a, result, victims)
  BY <1>1
<1>3. /\ tasks' \in [Addr \X Stage -> Nat]
      /\ tasks'[<<a, "queued">>] = tasks[<<a, "queued">>]
      /\ tasks'[<<a, "looking">>] = tasks[<<a, "looking">>] - 1
      /\ tasks'[<<a, "cached">>] = tasks[<<a, "cached">>] + 1
      /\ \A b \in Addr \ {a}, stage \in Stage : tasks'[<<b, stage>>] = tasks[<<b, stage>>]
  <2>1. {"queued", "looking", "cached"} = Stage /\ "queued" # "looking" /\ "queued" # "cached" /\ "looking" # "cached"
    BY DEF Stage
  <2>2. /\ tasks' \in [Addr \X Stage -> Nat]
        /\ tasks'[<<a, "looking">>] = tasks[<<a, "looking">>] - 1
        /\ tasks'[<<a, "cached">>] = tasks[<<a, "cached">>] + 1
        /\ \A b \in Addr, stage \in Stage :
             b # a \/ stage \notin {"looking", "cached"} => tasks'[<<b, stage>>] = tasks[<<b, stage>>]
    BY <1>1, <2>1, MoveIs
  <2> QED BY <2>1, <2>2
<1>4. /\ cache' \in [Addr -> {"unknown", "absent", "named"}] /\ fresh' \in [Addr -> Nat]
      /\ cache'[a] = result
      /\ \A b \in Addr \ victims : fresh'[b] = fresh[b] /\ (b # a => cache'[b] = cache[b])
      /\ \A b \in victims \cap Addr : fresh'[b] = 0 /\ (b # a => cache'[b] = "unknown")
  BY <1>2 DEF Cached, ResolverTypes
<1>5. ResolverTypes' /\ PollTypes' /\ OneMissed'
  BY <1>1, <1>3, <1>4 DEF ResolverTypes, PollTypes, OneMissed
<1>6. \A b \in Addr : Staged(b)
  BY StagedIs
<1>7. \A b \in Addr : Staged(b)'
  <2> TAKE b \in Addr
  <2>1. CASE b = a
    BY <1>1, <1>3, <1>6, <2>1 DEF Staged
  <2>2. CASE b # a
    BY <1>1, <1>3, <1>6, <2>2 DEF Staged, Stage
  <2> QED BY <2>1, <2>2
<1>8. OneAtATime'
  BY <1>7, StagedNext
<1>9. PermitsBound'
  <2>1. At("looking")' \subseteq At("looking") \ {a} /\ At("cached")' \subseteq At("cached") \cup {a} /\ a \in At("looking")
    <3>1. tasks[<<a, "looking">>] = 1
      <4>1. Staged(a)
        BY <1>6
      <4> QED BY <1>1, <4>1 DEF Staged
    <3>2. tasks'[<<a, "looking">>] = 0
      BY <1>3, <3>1
    <3>3. \A b \in Addr : b # a => /\ tasks'[<<b, "looking">>] = tasks[<<b, "looking">>]
                                  /\ tasks'[<<b, "cached">>] = tasks[<<b, "cached">>]
      BY <1>3 DEF Stage
    <3>4. ~(tasks'[<<a, "looking">>] > 0)
      BY <3>2
    <3> QED BY <1>1, <3>3, <3>4 DEF At
  <2>2. /\ IsFiniteSet(At("looking")) /\ Cardinality(At("looking")) \in Nat
        /\ IsFiniteSet(At("cached")) /\ Cardinality(At("cached")) \in Nat /\ MAX_CONCURRENT \in Nat
    BY PermitsCount, AttributionAssumption
  <2>3. /\ IsFiniteSet(At("looking") \ {a}) /\ Cardinality(At("looking") \ {a}) = Cardinality(At("looking")) - 1
        /\ IsFiniteSet(At("cached") \cup {a})
        /\ Cardinality(At("cached") \cup {a}) \in {Cardinality(At("cached")), Cardinality(At("cached")) + 1}
    BY <2>1, <2>2, FS_AddElement, FS_RemoveElement
  <2>4. /\ Cardinality(At("looking")') <= Cardinality(At("looking") \ {a})
        /\ Cardinality(At("cached")') <= Cardinality(At("cached") \cup {a})
        /\ IsFiniteSet(At("looking")') /\ IsFiniteSet(At("cached")')
    BY <2>1, <2>3, FS_Subset
  <2>5. Cardinality(At("looking")') \in Nat /\ Cardinality(At("cached")') \in Nat
    BY <2>4, FS_CardinalityType
  <2>6. /\ PermitsUsed = Cardinality(At("looking")) + Cardinality(At("cached"))
        /\ PermitsUsed' = Cardinality(At("looking")') + Cardinality(At("cached")')
    BY DEF PermitsUsed, At
  <2> QED BY <2>2, <2>3, <2>4, <2>5, <2>6 DEF PermitsBound
<1>10. CacheBound'
  <2>1. /\ IsFiniteSet(Held) /\ Cardinality(Held) \in Nat /\ MAX_CACHE \in Nat /\ Cardinality(Held) <= MAX_CACHE
    BY AttributionAssumption, FS_Subset, FS_CardinalityType DEF Held, CacheBound
  <2>2. Full <=> Cardinality(Held) >= MAX_CACHE
    BY DEF Full, Held
  <2>3. PICK kept \in SUBSET Held : Cardinality(kept) < MAX_CACHE /\ Held' \subseteq kept \cup {a}
    <3>1. CASE Full
      <4>1. PICK b \in Held : victims = {b}
        BY <1>2, <3>1 DEF Victims, Held
      <4>2. Cardinality(Held \ {b}) = Cardinality(Held) - 1
        BY <2>1, <4>1, FS_RemoveElement
      <4>3. Held' \subseteq (Held \ {b}) \cup {a}
        BY <1>4, <4>1 DEF Held
      <4>4. Cardinality(Held \ {b}) < MAX_CACHE
        BY <2>1, <4>2
      <4> QED BY <4>3, <4>4
    <3>2. CASE ~Full
      <4>1. victims = {}
        BY <1>2, <3>2 DEF Victims
      <4>2. Held' \subseteq Held \cup {a}
        BY <1>4, <4>1 DEF Held
      <4> QED BY <2>1, <2>2, <3>2, <4>2
    <3> QED BY <3>1, <3>2
  <2>4. IsFiniteSet(kept) /\ Cardinality(kept) \in Nat
    BY <2>1, FS_Subset, FS_CardinalityType
  <2>5. IsFiniteSet(kept \cup {a}) /\ Cardinality(kept \cup {a}) \in {Cardinality(kept), Cardinality(kept) + 1}
    BY <2>4, FS_AddElement
  <2>6. Cardinality(Held') <= Cardinality(kept \cup {a}) /\ IsFiniteSet(Held')
    BY <2>3, <2>5, FS_Subset
  <2>7. Cardinality(Held') \in Nat
    BY <2>6, FS_CardinalityType
  <2> QED BY <2>1, <2>3, <2>4, <2>5, <2>6, <2>7 DEF CacheBound
<1>11. LookupsSince'
  <2> SUFFICES ASSUME NEW b \in Addr
               PROVE  /\ fresh'[b] <= 2
                      /\ pc = "insert" /\ b \in missed => fresh'[b] <= 1
                      /\ cache'[b] = "unknown" => fresh'[b] <= 1 /\ (~ToLand(b)' => fresh'[b] = 0)
    BY <1>1 DEF LookupsSince
  <2>1. CASE b \in victims
    BY <1>4, <2>1
  <2>2. CASE b \notin victims /\ b = a
    <3>1. cache'[b] # "unknown" /\ fresh'[b] = fresh[b]
      BY <1>4, <2>2
    <3> QED BY <3>1 DEF LookupsSince
  <2>3. CASE b \notin victims /\ b # a
    <3>1. cache'[b] = cache[b] /\ fresh'[b] = fresh[b]
      BY <1>4, <2>3
    <3>2. ToLand(b)' <=> ToLand(b)
      BY <1>3, <2>3 DEF ToLand, Stage
    <3> QED BY <3>1, <3>2 DEF LookupsSince
  <2> QED BY <2>1, <2>2, <2>3
<1> QED BY <1>5, <1>8, <1>9, <1>10, <1>11

LEMMA FinishKeeps ==
  ASSUME Resolves, NEW a \in Addr, Finish(a)
  PROVE  Resolves'
<1> USE DEF Resolves
<1>1. /\ tasks[<<a, "cached">>] > 0 /\ inflight' = inflight \ {a} /\ tasks' = Count(a, "cached", -1)
      /\ UNCHANGED <<pc, unswept, inode_to_pid, tables, todo, rows, proc_cache, asking, missed, cache, fresh>>
  BY DEF Finish, table
<1>2. /\ tasks' \in [Addr \X Stage -> Nat]
      /\ tasks'[<<a, "queued">>] = tasks[<<a, "queued">>]
      /\ tasks'[<<a, "looking">>] = tasks[<<a, "looking">>]
      /\ tasks'[<<a, "cached">>] = tasks[<<a, "cached">>] - 1
      /\ \A b \in Addr \ {a}, stage \in Stage : tasks'[<<b, stage>>] = tasks[<<b, stage>>]
  <2>1. tasks \in [Addr \X Stage -> Nat] /\ <<a, "cached">> \in Addr \X Stage /\ tasks[<<a, "cached">>] \in Nat
    BY DEF ResolverTypes, Stage
  <2>2. tasks' = [tasks EXCEPT ![<<a, "cached">>] = tasks[<<a, "cached">>] - 1]
    BY <1>1, <2>1 DEF Count
  <2> QED BY <1>1, <2>1, <2>2 DEF Stage
<1>3. ResolverTypes' /\ PollTypes' /\ OneMissed' /\ CacheBound'
  BY <1>1, <1>2 DEF ResolverTypes, PollTypes, OneMissed, CacheBound, Held
<1>4. \A b \in Addr : Staged(b)
  BY StagedIs
<1>5. \A b \in Addr : Staged(b)'
  <2> TAKE b \in Addr
  <2>1. CASE b = a
    BY <1>1, <1>2, <1>4, <2>1 DEF Staged
  <2>2. CASE b # a
    BY <1>1, <1>2, <1>4, <2>2 DEF Staged, Stage
  <2> QED BY <2>1, <2>2
<1>6. OneAtATime'
  BY <1>5, StagedNext
<1>7. PermitsBound'
  <2>1. At("looking")' = At("looking") /\ At("cached")' \subseteq At("cached")
    BY <1>1, <1>2 DEF At, Stage
  <2>2. /\ IsFiniteSet(At("looking")) /\ Cardinality(At("looking")) \in Nat
        /\ IsFiniteSet(At("cached")) /\ Cardinality(At("cached")) \in Nat /\ MAX_CONCURRENT \in Nat
    BY PermitsCount, AttributionAssumption
  <2>3. Cardinality(At("cached")') <= Cardinality(At("cached")) /\ IsFiniteSet(At("cached")')
    BY <2>1, <2>2, FS_Subset
  <2>4. Cardinality(At("cached")') \in Nat
    BY <2>3, FS_CardinalityType
  <2>5. /\ PermitsUsed = Cardinality(At("looking")) + Cardinality(At("cached"))
        /\ PermitsUsed' = Cardinality(At("looking")') + Cardinality(At("cached")')
    BY DEF PermitsUsed, At
  <2> QED BY <2>1, <2>2, <2>3, <2>4, <2>5 DEF PermitsBound
<1>8. LookupsSince'
  <2>1. \A b \in Addr : ToLand(b)' <=> ToLand(b)
    BY <1>2 DEF ToLand, Stage
  <2> QED BY <1>1, <2>1 DEF LookupsSince
<1> QED BY <1>3, <1>6, <1>7, <1>8

(* The capture thread begins a lookup only of an address without one, and  *)
(* with one behind it at most.                                             *)
LEMMA InsertKeeps ==
  ASSUME Resolves, NEW a \in Addr, Insert(a)
  PROVE  Resolves'
<1> USE DEF Resolves
<1>1. /\ pc = "insert" /\ a \in missed /\ pc' = "enrich" /\ missed' = {}
      /\ UNCHANGED <<unswept, inode_to_pid, tables, todo, rows, proc_cache, asking, cache>>
  BY DEF Insert, table
<1>2. PollTypes' /\ OneMissed' /\ CacheBound'
  BY <1>1 DEF PollTypes, OneMissed, CacheBound, Held
<1>3. CASE a \in inflight
  <2>1. UNCHANGED <<inflight, tasks, fresh>>
    BY <1>3 DEF Insert
  <2> QED BY <1>1, <1>2, <2>1 DEF ResolverTypes, PermitsBound, PermitsUsed, OneAtATime, LookupsSince, ToLand
<1>4. CASE a \notin inflight
  <2>1. /\ inflight' = inflight \cup {a} /\ tasks' = Count(a, "queued", 1)
        /\ fresh' = [fresh EXCEPT ![a] = @ + 1]
    BY <1>4 DEF Insert
  <2>2. /\ tasks' \in [Addr \X Stage -> Nat]
        /\ tasks'[<<a, "queued">>] = tasks[<<a, "queued">>] + 1
        /\ tasks'[<<a, "looking">>] = tasks[<<a, "looking">>]
        /\ tasks'[<<a, "cached">>] = tasks[<<a, "cached">>]
        /\ \A b \in Addr \ {a}, stage \in Stage : tasks'[<<b, stage>>] = tasks[<<b, stage>>]
    <3>1. tasks \in [Addr \X Stage -> Nat] /\ <<a, "queued">> \in Addr \X Stage /\ tasks[<<a, "queued">>] \in Nat
      BY DEF ResolverTypes, Stage
    <3>2. tasks' = [tasks EXCEPT ![<<a, "queued">>] = tasks[<<a, "queued">>] + 1]
      BY <2>1, <3>1 DEF Count
    <3> QED BY <3>1, <3>2 DEF Stage
  <2>3. fresh' \in [Addr -> Nat] /\ fresh'[a] = fresh[a] + 1 /\ \A b \in Addr \ {a} : fresh'[b] = fresh[b]
    BY <2>1 DEF ResolverTypes
  <2>4. ResolverTypes'
    BY <1>1, <2>1, <2>2, <2>3 DEF ResolverTypes
  <2>5. \A b \in Addr : Staged(b)
    BY StagedIs
  <2>6. \A b \in Addr : Staged(b)'
    <3> TAKE b \in Addr
    <3>1. CASE b = a
      BY <1>4, <2>1, <2>2, <2>5, <3>1 DEF Staged
    <3>2. CASE b # a
      BY <2>1, <2>2, <2>5, <3>2 DEF Staged, Stage
    <3> QED BY <3>1, <3>2
  <2>7. OneAtATime'
    BY <2>6, StagedNext
  <2>8. PermitsBound'
    <3>1. At("looking")' = At("looking") /\ At("cached")' = At("cached")
      BY <2>2 DEF At, Stage
    <3>2. PermitsUsed' = PermitsUsed
      BY <3>1 DEF PermitsUsed, At
    <3> QED BY <3>2 DEF PermitsBound
  <2>9. LookupsSince'
    <3> SUFFICES ASSUME NEW b \in Addr
                 PROVE  /\ fresh'[b] <= 2
                        /\ cache[b] = "unknown" => fresh'[b] <= 1 /\ (~ToLand(b)' => fresh'[b] = 0)
      BY <1>1 DEF LookupsSince
    <3>1. CASE b = a
      <4>1. tasks[<<a, "queued">>] = 0 /\ tasks[<<a, "looking">>] = 0
        <5>1. Staged(a)
          BY <2>5
        <5> QED BY <1>4, <5>1 DEF Staged
      <4>2. ~ToLand(a) /\ ToLand(a)'
        BY <2>2, <4>1 DEF ToLand
      <4>3. fresh[a] <= 1 /\ (cache[a] = "unknown" => fresh[a] = 0) /\ fresh[a] \in Nat
        BY <1>1, <4>2 DEF LookupsSince, ResolverTypes
      <4> QED BY <2>3, <3>1, <4>2, <4>3
    <3>2. CASE b # a
      <4>1. ToLand(b)' <=> ToLand(b)
        BY <2>2, <3>2 DEF ToLand, Stage
      <4> QED BY <2>3, <3>2, <4>1 DEF LookupsSince
    <3> QED BY <3>1, <3>2
  <2> QED BY <1>2, <2>4, <2>7, <2>8, <2>9
<1> QED BY <1>3, <1>4

(* Every step keeps to the bounds.                                         *)
LEMMA ResolvesStep ==
  ASSUME Resolves, PollTypes', [Next]_vars
  PROVE  Resolves'
<1> USE DEF Resolves
<1>1. ASSUME UNCHANGED <<missed, cache, inflight, tasks, fresh>>, pc' = "insert" => pc = "insert" PROVE Resolves'
  BY <1>1 DEF ResolverTypes, PermitsBound, PermitsUsed, CacheBound, Held, OneMissed, OneAtATime, LookupsSince, ToLand
<1>2. CASE SystemStep \/ PollStep \/ UNCHANGED vars
  <2>1. UNCHANGED <<missed, cache, inflight, tasks, fresh>> /\ (pc' = "insert" => pc = "insert")
    BY <1>2 DEF SystemStep, PollStep, vars, dns
  <2> QED BY <1>1, <2>1
<1>3. ASSUME NEW a \in Addr, Enrich(a) \/ RequestKnown(a) PROVE Resolves'
  <2>1. missed' \subseteq {a} /\ pc' = pc /\ pc = "enrich" /\ UNCHANGED <<cache, inflight, tasks, fresh>>
    BY <1>3 DEF Enrich, RequestKnown, dns
  <2> QED BY <2>1 DEF ResolverTypes, PermitsBound, PermitsUsed, CacheBound, Held, OneMissed, OneAtATime, LookupsSince, ToLand
<1>4. ASSUME NEW a \in Addr, RequestMissed(a) PROVE Resolves'
  <2>1. a \in missed /\ cache[a] = "unknown" /\ UNCHANGED <<missed, cache, inflight, tasks, fresh>>
    BY <1>4 DEF RequestMissed, dns
  <2>2. \A b \in missed : b = a
    BY <2>1 DEF OneMissed
  <2> QED BY <2>1, <2>2 DEF ResolverTypes, PermitsBound, PermitsUsed, CacheBound, Held, OneMissed, OneAtATime, LookupsSince, ToLand
<1>5. CASE EnrichStep
  BY <1>3, <1>4, <1>5, InsertKeeps DEF EnrichStep
<1>6. CASE LookupStep
  BY <1>6, AcquireKeeps, LandKeeps, FinishKeeps DEF LookupStep
<1> QED BY <1>2, <1>5, <1>6, Steps

-----------------------------------------------------------------------------
(* The theorems                                                            *)

LEMMA Parts == IInv <=> Attributed /\ Resolves
BY TypeParts DEF IInv, Attributed, Resolves

(* The inductive invariant holds in every reachable state.                 *)
THEOREM Invariance == Spec => []IInv
<1>1. IInv /\ [Next]_vars => IInv'
  <2> SUFFICES ASSUME IInv, [Next]_vars PROVE IInv'
    OBVIOUS
  <2>1. Attributed' /\ Resolves'
    BY Parts, AttributedStep, ResolvesStep DEF Attributed
  <2>2. (TypeOK /\ KeyTypes)'
    BY <2>1 DEF Attributed, Resolves, TypeOK, KeyTypes, SystemTypes, PollTypes, ResolverTypes, PermitsBound, CacheBound, Held
  <2> QED BY <2>1, <2>2 DEF IInv, Attributed, Resolves
<1> QED BY <1>1, InitInv, PTL DEF Spec

(* Wherever exits, recycled pids and opened sockets fall between the sweep,*)
(* the table, the start and the name, a row names a process that was alive *)
(* in its poll and that holds its socket if anybody does (resolve_process).*)
THEOREM RowsHold == Spec => []RowsAreRight
<1>1. IInv => RowsAreRight
  BY DEF IInv, RowsAreRight, NamesAreAlive, RightOwner, RowsRight
<1> QED BY <1>1, Invariance, PTL

(* However the capture thread and the lookups interleave, an address has   *)
(* one lookup at a time, exactly while it is in the set in flight, and two *)
(* at most before the cache forgets it (DnsResolver::request).             *)
THEOREM LookupsHold == Spec => []LookupsBounded
<1>1. IInv => LookupsBounded
  BY DEF IInv, LookupsBounded, NoStorm, LookupsSince
<1> QED BY <1>1, Invariance, PTL
=============================================================================
