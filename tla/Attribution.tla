---------------------------- MODULE Attribution ----------------------------
(***************************************************************************)
(* Whose flow it is and what its peer is called.  The capture thread joins *)
(* the sockets of a connection table with the processes that hold them,    *)
(* while processes come and go and their pids are used again; then it asks *)
(* the reverse-DNS pool for the names of the remote addresses, which land  *)
(* in a bounded cache for a later poll.                                    *)
(*                                                                         *)
(* A process is the number of its start, which stands for its start time   *)
(* and for its name: 0 is no process.  Linux sweeps /proc for the sockets' *)
(* owners before it reads the tables and reads a process's start and its   *)
(* name one after the other; a Windows row names its pid, and a handle     *)
(* holds the process while it is read.                                     *)
(***************************************************************************)
EXTENDS Integers, FiniteSets

CONSTANTS
  Pid, NoPid,
  Socket, Table, TableOf,       \* the table that lists a socket
  Addr, Remote,                 \* the address a socket is connected to
  MAX_CONCURRENT, MAX_CACHE,
  MaxProcs                      \* bound: processes started

ASSUME AttributionAssumption ==
  /\ NoPid \notin Pid /\ IsFiniteSet(Addr)
  /\ TableOf \in [Socket -> Table] /\ Remote \in [Socket -> Addr]
  /\ {MAX_CONCURRENT, MAX_CACHE, MaxProcs} \subseteq Nat \ {0}

VARIABLES
  platform,                     \* linux or windows
  proc, born,                   \* the system: the process of each pid, how many have started
  owner, opened,                \* the process that holds each socket, the sockets ever opened
  pc,                           \* the capture thread
  unswept, inode_to_pid,        \* build_inode_pid_map
  tables, todo,                 \* tables still to read, rows of this one still to resolve
  key,                          \* resolve_process: the row and the start it has read
  rows,                         \* the rows of this poll
  proc_cache,                   \* the names known, by pid and start
  asking, missed,               \* enrich: the addresses still to do, the one being requested
  cache, inflight,              \* DnsResolver
  tasks,                        \* how many lookups of an address are at each stage
  fresh,                        \* history: lookups begun for an address since it was last forgotten
  recent                        \* history: the processes that have been alive in this poll

system == <<platform, proc, born, owner, opened>>
table == <<unswept, inode_to_pid, tables, todo, key, rows, proc_cache>>
dns == <<cache, inflight, tasks, fresh>>
vars == <<system, pc, table, asking, missed, dns, recent>>

Process == 0..MaxProcs
Stage == {"queued", "looking", "cached"}
NoKey == [socket |-> 0, pid |-> NoPid, start |-> 0]

Init ==
  /\ platform \in {"linux", "windows"}
  /\ proc = [p \in Pid |-> 0] /\ born = 0
  /\ owner = [s \in Socket |-> 0] /\ opened = {}
  /\ pc = "idle"
  /\ unswept = {} /\ inode_to_pid = [s \in Socket |-> NoPid]
  /\ tables = {} /\ todo = {} /\ key = NoKey
  /\ rows = {} /\ proc_cache = {}
  /\ asking = {} /\ missed = {}
  /\ cache = [a \in Addr |-> "unknown"] /\ inflight = {}
  /\ tasks = [t \in Addr \X Stage |-> 0]
  /\ fresh = [a \in Addr |-> 0]
  /\ recent = {}

Alive == {proc[p] : p \in Pid} \ {0}

-----------------------------------------------------------------------------
(* The system                                                              *)

\* A pid that is free is given to a new process
Start(p) ==
  /\ proc[p] = 0 /\ born < MaxProcs
  /\ born' = born + 1
  /\ proc' = [proc EXCEPT ![p] = born']
  /\ recent' = IF pc = "idle" THEN {} ELSE recent \cup {born'}
  /\ UNCHANGED <<platform, owner, opened, pc, table, asking, missed, dns>>

Open(p, s) ==
  /\ proc[p] # 0 /\ s \notin opened
  /\ owner' = [owner EXCEPT ![s] = proc[p]]
  /\ opened' = opened \cup {s}
  /\ UNCHANGED <<platform, proc, born, pc, table, asking, missed, dns, recent>>

\* A process ends and its sockets close
Exit(p) ==
  /\ proc[p] # 0
  /\ proc' = [proc EXCEPT ![p] = 0]
  /\ owner' = [s \in Socket |-> IF owner[s] = proc[p] THEN 0 ELSE owner[s]]
  /\ UNCHANGED <<platform, born, opened, pc, table, asking, missed, dns, recent>>

-----------------------------------------------------------------------------
(* ConnectionSource::poll                                                  *)

BeginPoll ==
  /\ pc = "idle"
  /\ pc' = "sweep"
  /\ unswept' = IF platform = "linux" THEN Pid ELSE {}
  /\ tables' = Table
  /\ recent' = Alive
  /\ UNCHANGED <<system, inode_to_pid, todo, key, rows, proc_cache, asking, missed, dns>>

\* /proc/<pid>/fd of one process
Sweep(p) ==
  /\ pc = "sweep" /\ p \in unswept
  /\ unswept' = unswept \ {p}
  /\ inode_to_pid' = [s \in Socket |-> IF proc[p] # 0 /\ owner[s] = proc[p] THEN p ELSE inode_to_pid[s]]
  /\ UNCHANGED <<system, pc, tables, todo, key, rows, proc_cache, asking, missed, dns, recent>>

\* A table is read in one go; a row of Windows names the owner of that moment
ReadTable(t) ==
  /\ pc = "sweep" /\ unswept = {}
  /\ t \in tables /\ todo = {}
  /\ tables' = tables \ {t}
  /\ todo' = {s \in Socket : owner[s] # 0 /\ TableOf[s] = t}
  /\ inode_to_pid' = IF platform = "linux" THEN inode_to_pid ELSE
       [s \in Socket |-> IF s \in todo' THEN CHOOSE p \in Pid : proc[p] = owner[s] ELSE NoPid]
  /\ UNCHANGED <<system, pc, unswept, key, rows, proc_cache, asking, missed, dns, recent>>

\* A table that cannot be read is left out of this poll
TableFails(t) ==
  /\ pc = "sweep" /\ unswept = {}
  /\ t \in tables /\ todo = {}
  /\ tables' = tables \ {t}
  /\ UNCHANGED <<system, pc, unswept, inode_to_pid, todo, key, rows, proc_cache, asking, missed, dns, recent>>

\* The process that has the pid the row names, by now
Holder(s) == IF inode_to_pid[s] = NoPid THEN 0 ELSE proc[inode_to_pid[s]]

Row(s, pid, name) ==
  /\ rows' = rows \cup {[socket |-> s, pid |-> pid, name |-> name]}
  /\ todo' = todo \ {s}

\* A mistake: the cache is keyed on the pid alone
KnownPid(pid) == {e \in proc_cache : e.pid = pid}

\* The entries for the process that has this pid now
Known(pid) == {e \in proc_cache : e.pid = pid /\ e.start = proc[pid]}

Learn(pid, start, name) == proc_cache' = proc_cache \cup {[pid |-> pid, start |-> start, name |-> name]}

\* The row has no owner that can be seen
Unowned(s) ==
  /\ Holder(s) = 0
  /\ Row(s, NoPid, 0)
  /\ UNCHANGED <<pc, key, proc_cache>>

Hit(s) ==
  /\ Holder(s) # 0
  /\ \E e \in Known(inode_to_pid[s]) : Row(s, e.pid, e.name)
  /\ UNCHANGED <<pc, key, proc_cache>>

\* Windows reads the name through the handle, Linux in a step of its own
Miss(s) == LET pid == inode_to_pid[s] IN
  /\ Holder(s) # 0 /\ Known(pid) = {}
  /\ IF platform = "windows"
     THEN Row(s, pid, proc[pid]) /\ Learn(pid, proc[pid], proc[pid]) /\ UNCHANGED <<pc, key>>
     ELSE /\ pc' = "name"
          /\ key' = [socket |-> s, pid |-> pid, start |-> proc[pid]]
          /\ UNCHANGED <<rows, todo, proc_cache>>

resolve_process(s) ==
  /\ pc = "sweep" /\ s \in todo
  /\ Unowned(s) \/ Hit(s) \/ Miss(s)
  /\ UNCHANGED <<system, unswept, inode_to_pid, tables, asking, missed, dns, recent>>

\* comm of whoever has the pid by now; "pid N", here 0, when there is nobody
ReadName ==
  /\ pc = "name"
  /\ pc' = "sweep"
  /\ Row(key.socket, key.pid, proc[key.pid])
  /\ Learn(key.pid, key.start, proc[key.pid])
  /\ key' = NoKey
  /\ UNCHANGED <<system, unswept, inode_to_pid, tables, asking, missed, dns, recent>>

\* The names of pids without a row are forgotten; the rows go to the enricher
EndPoll ==
  /\ pc = "sweep" /\ unswept = {} /\ tables = {} /\ todo = {}
  /\ pc' = "enrich"
  /\ proc_cache' = {e \in proc_cache : \E r \in rows : r.pid = e.pid}
  /\ asking' = {Remote[r.socket] : r \in rows}
  /\ inode_to_pid' = [s \in Socket |-> NoPid]
  /\ UNCHANGED <<system, unswept, tables, todo, key, rows, missed, dns, recent>>

-----------------------------------------------------------------------------
(* Enricher::enrich and DnsResolver                                        *)

\* lookup: a name or an absence is used now, a miss is requested
Enrich(a) ==
  /\ pc = "enrich" /\ missed = {} /\ a \in asking
  /\ asking' = asking \ {a}
  /\ missed' = IF cache[a] = "unknown" THEN {a} ELSE {}
  /\ UNCHANGED <<system, pc, table, dns, recent>>

\* request: the cache again
RequestKnown(a) ==
  /\ pc = "enrich" /\ a \in missed
  /\ cache[a] # "unknown"
  /\ missed' = {}
  /\ UNCHANGED <<system, pc, table, asking, dns, recent>>

RequestMissed(a) ==
  /\ pc = "enrich" /\ a \in missed
  /\ cache[a] = "unknown"
  /\ pc' = "insert"
  /\ UNCHANGED <<system, table, asking, missed, dns, recent>>

Count(a, stage, n) == [tasks EXCEPT ![<<a, stage>>] = @ + n]
Move(a, from, to) == [tasks EXCEPT ![<<a, from>>] = @ - 1, ![<<a, to>>] = @ + 1]

\* ... and then the set of addresses in flight, under its own lock
Insert(a) ==
  /\ pc = "insert" /\ a \in missed
  /\ pc' = "enrich" /\ missed' = {}
  /\ IF a \in inflight THEN UNCHANGED <<inflight, tasks, fresh>>
     ELSE /\ inflight' = inflight \cup {a}
          /\ tasks' = Count(a, "queued", 1)
          /\ fresh' = [fresh EXCEPT ![a] = @ + 1]
  /\ UNCHANGED <<system, table, asking, cache, recent>>

EndEnrich ==
  /\ pc = "enrich" /\ asking = {} /\ missed = {}
  /\ pc' = "idle"
  /\ rows' = {} /\ recent' = {}
  /\ UNCHANGED <<system, unswept, inode_to_pid, tables, todo, key, proc_cache, asking, missed, dns>>

PermitsUsed ==
  Cardinality({a \in Addr : tasks[<<a, "looking">>] > 0}) + Cardinality({a \in Addr : tasks[<<a, "cached">>] > 0})

\* A mistake: the address leaves the set before its result is cached
ForgetsFirst(a) ==
  /\ tasks[<<a, "queued">>] > 0
  /\ PermitsUsed < MAX_CONCURRENT
  /\ tasks' = Move(a, "queued", "looking")
  /\ inflight' = inflight \ {a}
  /\ UNCHANGED <<system, pc, table, asking, missed, cache, fresh, recent>>

\* The task takes one of the permits
Acquire(a) ==
  /\ tasks[<<a, "queued">>] > 0
  /\ PermitsUsed < MAX_CONCURRENT
  /\ tasks' = Move(a, "queued", "looking")
  /\ UNCHANGED <<system, pc, table, asking, missed, cache, inflight, fresh, recent>>

Full == Cardinality({a \in Addr : cache[a] # "unknown"}) >= MAX_CACHE
Victims == IF Full THEN {{a} : a \in {b \in Addr : cache[b] # "unknown"}} ELSE {{}}

\* The result is cached; an arbitrary entry makes room when the cache is full
Cached(a, result, victims) ==
  /\ cache' = [b \in Addr |-> IF b = a THEN result ELSE IF b \in victims THEN "unknown" ELSE cache[b]]
  /\ fresh' = [b \in Addr |-> IF b \in victims THEN 0 ELSE fresh[b]]

\* A mistake: a full cache takes nothing in
RefusesWhenFull(a, result) ==
  /\ tasks[<<a, "looking">>] > 0
  /\ tasks' = Move(a, "looking", "cached")
  /\ IF Full THEN UNCHANGED <<cache, fresh>> ELSE Cached(a, result, {})
  /\ UNCHANGED <<system, pc, table, asking, missed, inflight, recent>>

\* A mistake: the room is made only once the cache is over its limit
Overfills(a, result) ==
  /\ tasks[<<a, "looking">>] > 0
  /\ tasks' = Move(a, "looking", "cached")
  /\ Cached(a, result, {})
  /\ UNCHANGED <<system, pc, table, asking, missed, inflight, recent>>

Land(a, result) ==
  /\ tasks[<<a, "looking">>] > 0
  /\ tasks' = Move(a, "looking", "cached")
  /\ \E victims \in Victims : Cached(a, result, victims)
  /\ UNCHANGED <<system, pc, table, asking, missed, inflight, recent>>

\* The resolver answers; it may also hang
Answer(a) == Land(a, "named") \/ Land(a, "absent")

\* A mistake: the lookup is awaited without a timeout
WaitsForever(a) == FALSE /\ UNCHANGED vars

\* After TIMEOUT the lookup counts as an absence
TimesOut(a) == Land(a, "absent")

\* The address leaves the set and the permit is given back
Finish(a) ==
  /\ tasks[<<a, "cached">>] > 0
  /\ inflight' = inflight \ {a}
  /\ tasks' = Count(a, "cached", -1)
  /\ UNCHANGED <<system, pc, table, asking, missed, cache, fresh, recent>>

-----------------------------------------------------------------------------

Poll ==
  \/ BeginPoll \/ ReadName \/ EndPoll \/ EndEnrich
  \/ \E p \in Pid : Sweep(p)
  \/ \E t \in Table : ReadTable(t) \/ TableFails(t)
  \/ \E s \in Socket : resolve_process(s)
  \/ \E a \in Addr : Enrich(a) \/ RequestKnown(a) \/ RequestMissed(a) \/ Insert(a)

Next ==
  \/ Poll
  \/ \E p \in Pid : Start(p) \/ Exit(p) \/ \E s \in Socket : Open(p, s)
  \/ \E a \in Addr : Acquire(a) \/ Answer(a) \/ TimesOut(a) \/ Finish(a)

(* The timer of a lookup fires and its task runs on; the semaphore serves  *)
(* its queue in order, so nobody is passed over for ever.  The OS resolver *)
(* need not answer.                                                        *)
Fairness == \A a \in Addr : SF_vars(Acquire(a)) /\ WF_vars(TimesOut(a)) /\ WF_vars(Finish(a))

Spec == Init /\ [][Next]_vars /\ Fairness

-----------------------------------------------------------------------------

(* Every variable has its type, a lookup counts no more than MAX_CONCURRENT*)
(* permits, and the cache holds no more than MAX_CACHE entries             *)
(* (ProcfsSource, IpHelperSource, DnsResolver).                            *)
TypeOK ==
  /\ proc \in [Pid -> Process] /\ born \in Process
  /\ owner \in [Socket -> Process] /\ opened \subseteq Socket
  /\ pc \in {"idle", "sweep", "name", "enrich", "insert"}
  /\ unswept \subseteq Pid /\ inode_to_pid \in [Socket -> Pid \cup {NoPid}]
  /\ tables \subseteq Table /\ todo \subseteq Socket
  /\ rows \subseteq [socket : Socket, pid : Pid \cup {NoPid}, name : Process]
  /\ proc_cache \subseteq [pid : Pid, start : Process \ {0}, name : Process]
  /\ asking \subseteq Addr /\ missed \subseteq Addr
  /\ cache \in [Addr -> {"unknown", "absent", "named"}]
  /\ inflight \subseteq Addr
  /\ tasks \in [Addr \X Stage -> Nat] /\ fresh \in [Addr -> Nat]
  /\ PermitsUsed <= MAX_CONCURRENT
  /\ Cardinality({a \in Addr : cache[a] # "unknown"}) <= MAX_CACHE

(* A row never carries the name of a process that was dead before its poll *)
(* began, however often pids are used again and wherever an exit falls     *)
(* between the sweep, the table, the start and the name: the key of the    *)
(* cache keeps a recycled pid from inheriting a name.                      *)
NamesAreAlive == \A r \in rows : r.name # 0 => r.name \in recent

(* A socket that is still open is attributed to the process that holds it  *)
(* or to nobody: when its pid has changed hands since the sweep or the     *)
(* table, its holder is gone and so is the socket.                         *)
RightOwner == pc = "enrich" => \A r \in rows : r.name # 0 => owner[r.socket] \in {0, r.name}

(* Both for every row of a poll, with the types (resolve_process).         *)
RowsAreRight == TypeOK /\ NamesAreAlive /\ RightOwner

(* Whatever the capture thread and the tasks interleave, at most one lookup*)
(* of an address is under way, and exactly when it is in the in-flight set.*)
OneAtATime == \A a \in Addr :
  tasks[<<a, "queued">>] + tasks[<<a, "looking">>] + tasks[<<a, "cached">>] = IF a \in inflight THEN 1 ELSE 0

(* No lookup storm: until the cache forgets it, an address is looked up no *)
(* more than twice, however often it is polled (the second time only when  *)
(* the first lands between request's check of the cache and its check of   *)
(* the in-flight set).                                                     *)
NoStorm == \A a \in Addr : fresh[a] <= 2

(* The two bounds on the resolver's work (DnsResolver::request).           *)
LookupsBounded == OneAtATime /\ NoStorm

(* A hung resolver keeps neither the permit nor the address: every lookup  *)
(* that is under way ends.                                                 *)
LookupsEnd == \A a \in Addr : a \in inflight ~> a \notin inflight

(* "Spawn a [...] lookup if one isn't already cached or in flight"         *)
(* (dns.rs:65-66), and so a name that is cached is not replaced by the     *)
(* absence a second lookup times out with.  Not kept: the check of the     *)
(* cache and the insertion are under two locks.                            *)
NamesStick == [][\A a \in Addr : cache[a] = "named" => cache'[a] # "absent"]_vars

=============================================================================
