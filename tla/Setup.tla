------------------------------- MODULE Setup -------------------------------
(***************************************************************************)
(* In-app enablement: the jobs that download the GeoLite2 editions or the  *)
(* threat feeds into a directory, each file by way of a temporary name,    *)
(* and then swap what the agent holds in memory; the config file that      *)
(* keeps the user's key.  A job runs on a blocking thread: it goes on when *)
(* the client that asked for it has left, and then nobody swaps.  Two      *)
(* clients may ask at the same time, and the agent may die at any step.    *)
(*                                                                         *)
(* A body of a file is a file of its own until its name is taken: it is    *)
(* known by the job that created it, and holds the set of its pieces.      *)
(***************************************************************************)
EXTENDS Naturals, Sequences

CONSTANTS
  Items,                 \* the editions, or the feeds, fetched one after the other
  Pieces,                \* a file is written piece by piece, 1..Pieces
  MaxJobs                \* bound

ASSUME SetupAssumption == {Items, Pieces} \subseteq Nat \ {0} /\ MaxJobs \in Nat

VARIABLES
  kind,                  \* "geoip": all the editions or none; "threats": what can be had
  part, dest,            \* per item: whose body has the temporary name, and the final one
  body,                  \* per item and job: the pieces written
  job,                   \* the jobs, in the order they were started
  memory,                \* per item: the body the agent enriches or judges with, as it was read
  config,                \* the stored key: none, torn, or a key
  up,                    \* the agent runs
  raced,                 \* history: two jobs have run at the same time
  current                \* history: the last job to end had succeeded and swapped

disk == <<part, dest, body>>
agent == <<kind, disk, job, memory, config, up, raced, current>>

Item == 1..Items
JobId == 1..MaxJobs
Key == {"good", "bad"}                  \* MaxMind refuses the bad one
Whole == 1..Pieces
Running(j) == job[j].pc \notin {"ok", "error", "dead"}
Active == {j \in DOMAIN job : Running(j)}

(* What a loader makes of the directory: the feeds that are there, or the  *)
(* pair of databases if both open -- a database is read from its end.      *)
Opens(i) == dest[i] # 0 /\ (kind = "threats" \/ Pieces \in body[i][dest[i]])
Read(i) == [of |-> dest[i], pieces |-> body[i][dest[i]]]
Nothing == [of |-> 0, pieces |-> {}]
Loaded ==
  IF kind = "geoip" /\ \E i \in Item : ~Opens(i) THEN [i \in Item |-> Nothing]
  ELSE [i \in Item |-> IF Opens(i) THEN Read(i) ELSE Nothing]

SetupInit ==
  /\ kind \in {"geoip", "threats"}
  /\ part = [i \in Item |-> 0] /\ dest = [i \in Item |-> 0]
  /\ body = [i \in Item |-> [j \in JobId |-> {}]]
  /\ job = <<>> /\ memory = [i \in Item |-> Nothing] /\ config = "none"
  /\ up = TRUE /\ raced = FALSE /\ current = FALSE

NewJob == [pc |-> "fetch", item |-> 1, wrote |-> 0, at |-> 0, got |-> FALSE, typed |-> "none", key |-> "good",
         seen |-> [i \in Item |-> Nothing]]
Ended(pc) == [NewJob EXCEPT !.pc = pc]
Become(j, pc) == job' = [job EXCEPT ![j].pc = pc]
End(j, pc) == job' = [job EXCEPT ![j] = Ended(pc)]

\* A mistake: the key that was typed is saved at once
SavesFirst(typed) ==
  /\ up /\ Len(job) < MaxJobs
  /\ kind = "geoip" /\ typed \in Key
  /\ job' = Append(job, [NewJob EXCEPT !.key = typed])
  /\ config' = typed
  /\ raced' = (raced \/ Active # {})
  /\ current' = FALSE
  /\ UNCHANGED <<kind, disk, memory, up>>

(* POST /setup/geoip or /setup/threats; without a key, the stored one, and *)
(* without that an answer at once.                                         *)
Start(typed) ==
  /\ up /\ Len(job) < MaxJobs
  /\ kind = "threats" => typed = "none"
  /\ kind = "geoip" /\ typed = "none" => config \in Key
  /\ job' = Append(job, [NewJob EXCEPT !.typed = typed,
                          !.key = IF kind = "threats" THEN "good" ELSE IF typed = "none" THEN config ELSE typed])
  /\ raced' = (raced \/ Active # {})
  /\ current' = FALSE
  /\ UNCHANGED <<kind, disk, memory, config, up>>

\* A mistake: one more file is fetched than there is
OneMore(j, got) ==
  IF job[j].item <= Items
  THEN [job[j] EXCEPT !.pc = "fetch", !.item = @ + 1, !.wrote = 0, !.at = 0, !.got = got]
  ELSE Ended("error")

(* The next file, or the end of the job, which is a failure if it has got  *)
(* none.                                                                   *)
After(j, got) ==
  IF job[j].item < Items
  THEN [job[j] EXCEPT !.pc = "fetch", !.item = @ + 1, !.wrote = 0, !.at = 0, !.got = got]
  ELSE IF got THEN [job[j] EXCEPT !.pc = "load", !.wrote = 0, !.at = 0] ELSE Ended("error")

\* A mistake: a rename that finds no temporary file is tried again
RetriesRename(j) ==
  /\ job[j].pc \in {"fetch", "write"}
  /\ job' = [job EXCEPT ![j] = IF kind = "geoip" THEN Ended("error") ELSE After(j, @.got)]
  /\ UNCHANGED <<kind, disk, memory, config, up, raced, current>>

(* A refused key, or any failure, ends a GeoIP job and skips a feed.       *)
Fails(j) ==
  /\ job[j].pc \in {"fetch", "write", "rename"}
  /\ job' = [job EXCEPT ![j] = IF kind = "geoip" THEN Ended("error") ELSE After(j, @.got)]
  /\ UNCHANGED <<kind, disk, memory, config, up, raced, current>>

\* A mistake: the file is written under its final name
InPlace(j) ==
  LET i == job[j].item
  IN /\ job[j].pc = "fetch" /\ job[j].key = "good"
     /\ dest' = [dest EXCEPT ![i] = j] /\ part' = [part EXCEPT ![i] = j]
     /\ body' = [body EXCEPT ![i][j] = {}]
     /\ job' = [job EXCEPT ![j].pc = "write", ![j].at = j]
     /\ UNCHANGED <<kind, memory, config, up, raced, current>>

(* The key is accepted and the answer has come: File::create truncates the *)
(* file that has the temporary name, or makes one.                         *)
Create(j) ==
  LET i == job[j].item
      of == IF part[i] = 0 THEN j ELSE part[i]
  IN /\ job[j].pc = "fetch" /\ job[j].key = "good"
     /\ part' = [part EXCEPT ![i] = of]
     /\ body' = [body EXCEPT ![i][of] = {}]
     /\ job' = [job EXCEPT ![j].pc = "write", ![j].at = of]
     /\ UNCHANGED <<kind, dest, memory, config, up, raced, current>>

(* The next piece goes to the file that was opened, whatever its name now. *)
WritePiece(j) ==
  LET n == job[j].wrote + 1
  IN /\ job[j].pc = "write"
     /\ body' = [body EXCEPT ![job[j].item][job[j].at] = @ \cup {n}]
     /\ job' = [job EXCEPT ![j].wrote = n, ![j].pc = IF n = Pieces THEN "rename" ELSE "write"]
     /\ UNCHANGED <<kind, part, dest, memory, config, up, raced, current>>

Rename(j) ==
  LET i == job[j].item
  IN /\ job[j].pc = "rename" /\ part[i] # 0
     /\ dest' = [dest EXCEPT ![i] = part[i]]
     /\ part' = [part EXCEPT ![i] = 0]
     /\ job' = [job EXCEPT ![j] = After(j, TRUE)]
     /\ UNCHANGED <<kind, body, memory, config, up, raced, current>>

(* The handler loads what is on the disk, and then swaps it in.            *)
Load(j) ==
  /\ job[j].pc = "load"
  /\ job' = [job EXCEPT ![j].pc = "swap", ![j].seen = Loaded]
  /\ UNCHANGED <<kind, disk, memory, config, up, raced, current>>

\* A mistake: databases that are open are not opened again
OnlyWhenOff(j) ==
  /\ job[j].pc = "swap"
  /\ memory' = [i \in Item |-> IF memory[i] = Nothing THEN job[j].seen[i] ELSE memory[i]]
  /\ IF job[j].typed = "none"
     THEN End(j, "ok") /\ current' = TRUE /\ UNCHANGED config
     ELSE Become(j, "save") /\ config' = "torn" /\ UNCHANGED current
  /\ UNCHANGED <<kind, disk, up, raced>>

(* A key that was typed is saved after that: fs::write truncates first, or *)
(* cannot open the file.                                                   *)
Swap(j) ==
  /\ job[j].pc = "swap"
  /\ memory' = job[j].seen
  /\ \/ End(j, "ok") /\ current' = TRUE /\ UNCHANGED config
     \/ job[j].typed # "none" /\ Become(j, "save") /\ config' = "torn" /\ UNCHANGED current
  /\ UNCHANGED <<kind, disk, up, raced>>

(* A write that fails is logged, and the file stays as it is.              *)
Save(j) ==
  /\ job[j].pc = "save"
  /\ config' \in {job[j].typed, config} /\ End(j, "ok") /\ current' = TRUE
  /\ UNCHANGED <<kind, disk, memory, up, raced>>

(* The client has left meanwhile: its handler was dropped at its await.    *)
Unattended(j) ==
  /\ job[j].pc = "load"
  /\ End(j, "ok")
  /\ UNCHANGED <<kind, disk, memory, config, up, raced, current>>

Steps(j) ==
  \/ Fails(j) \/ Create(j) \/ WritePiece(j) \/ Rename(j)
  \/ Load(j) \/ Swap(j) \/ Save(j) \/ Unattended(j)

(* The process dies: what it was writing stays as it is.                   *)
Die ==
  /\ up' = FALSE
  /\ job' = [j \in DOMAIN job |-> IF Running(j) THEN Ended("dead") ELSE job[j]]
  /\ memory' = [i \in Item |-> Nothing] /\ current' = FALSE
  /\ UNCHANGED <<kind, disk, config, raced>>

(* It starts and loads what it finds.                                      *)
Boot ==
  /\ up' = TRUE
  /\ memory' = Loaded /\ current' = TRUE
  /\ UNCHANGED <<kind, disk, job, config, raced>>

SetupNext == up /\ (\/ \E typed \in Key \cup {"none"} : Start(typed)
                    \/ \E j \in DOMAIN job : Steps(j))

SetupFairness == \A j \in JobId : WF_agent(up /\ j \in DOMAIN job /\ Steps(j))
=============================================================================
