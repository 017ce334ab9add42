------------------------------ MODULE Desktop ------------------------------
(***************************************************************************)
(* The desktop shell around the agent: its window and tray, the sidecar it *)
(* spawns and kills, and the loop that installs a newer build and restarts *)
(* into it while nobody is looking.  The shell may be killed, which tells  *)
(* its sidecar nothing, and so a sidecar may find the port taken by a      *)
(* stray one.  The agent of Setup is the one that has the port: when it    *)
(* dies a download is cut short, and the next boots from what is on disk.  *)
(***************************************************************************)
EXTENDS Setup, FiniteSets

CONSTANTS
  Latest,                      \* the newest build published; the first one is 1
  MaxLaunches                  \* bound: how often the shell is started

ASSUME DesktopAssumption == {Latest, MaxLaunches} \subseteq Nat \ {0}

VARIABLES
  phase,                       \* running, leaving (ExitRequested is due), gone
  restarting,                  \* ... and a new process follows
  window,                      \* shown, hidden
  sidecars,                    \* every agent spawned so far: starting, serving, dead
  handle,                      \* the child the shell holds to kill, or 0
  lost,                        \* history: agents whose shell was killed, or whose kill has failed
  build, onDisk,               \* the build that runs and the one on the disk
  updater                      \* the loop: sleep, check, decide

agents == <<sidecars, handle, lost>>
shell == <<phase, restarting, window, agents, build, onDisk, updater>>
all == <<agent, shell>>

Sidecar == 1..MaxLaunches
Alive == {n \in DOMAIN sidecars : sidecars[n] # "dead"}
Serving == {n \in DOMAIN sidecars : sidecars[n] = "serving"}

DesktopInit ==
  /\ SetupInit
  /\ phase = "running" /\ restarting = FALSE /\ window = "shown"
  /\ sidecars = <<"serving">> /\ handle = 1 /\ lost = {}
  /\ build = 1 /\ onDisk = 1 /\ updater = "sleep"

(* An agent ends; the one that serves takes its jobs with it.              *)
Ends(n) ==
  /\ sidecars' = [sidecars EXCEPT ![n] = "dead"]
  /\ IF n \in Serving THEN Die ELSE UNCHANGED agent

(* kill_agent: the child is taken, and killed if it is alive; when that    *)
(* fails nobody is told.                                                   *)
kill_agent ==
  /\ handle' = 0
  /\ \/ handle \in Alive /\ Ends(handle) /\ UNCHANGED lost
     \/ handle \in Alive /\ lost' = lost \cup {handle} /\ UNCHANGED <<sidecars, agent>>
     \/ handle \notin Alive /\ UNCHANGED <<sidecars, lost, agent>>

toggle_main ==
  /\ phase = "running"
  /\ window' = IF window = "shown" THEN "hidden" ELSE "shown"
  /\ UNCHANGED <<agent, phase, restarting, agents, build, onDisk, updater>>

Quit ==
  /\ phase = "running"
  /\ kill_agent
  /\ phase' = "leaving"
  /\ UNCHANGED <<restarting, window, build, onDisk, updater>>

(* The runtime asks for an exit by itself: its last window is destroyed,   *)
(* or the platform has an exit of its own.                                 *)
SystemExit ==
  /\ phase = "running" /\ phase' = "leaving"
  /\ UNCHANGED <<agent, restarting, window, agents, build, onDisk, updater>>

\* A mistake: the exit event trusts the tray to have killed the agent
ExitOnly ==
  /\ phase = "leaving"
  /\ phase' = "gone" /\ handle' = 0
  /\ UNCHANGED <<agent, sidecars, lost, restarting, window, build, onDisk, updater>>

ExitRequested ==
  /\ phase = "leaving"
  /\ kill_agent
  /\ phase' = "gone"
  /\ UNCHANGED <<restarting, window, build, onDisk, updater>>

(* The shell is killed or panics: no event, and the sidecar is not told.   *)
ShellDies ==
  /\ phase # "gone" /\ phase' = "gone" /\ restarting' = FALSE
  /\ handle' = 0 /\ lost' = lost \cup ({handle} \cap Alive)
  /\ UNCHANGED <<agent, window, sidecars, build, onDisk, updater>>

(* The process that follows a restart, or that the user launches: it runs  *)
(* the build on the disk, shows its window and spawns a sidecar.           *)
Launch ==
  /\ phase = "gone" /\ Len(sidecars) < MaxLaunches
  /\ phase' = "running" /\ restarting' = FALSE /\ window' = "shown"
  /\ sidecars' = Append(sidecars, "starting") /\ handle' = Len(sidecars) + 1
  /\ build' = onDisk /\ updater' = "sleep"
  /\ UNCHANGED <<agent, lost, onDisk>>

(* A sidecar has loaded what is on the disk and binds its port, or ends    *)
(* because a stray one has it.                                             *)
Bind(n) ==
  /\ sidecars[n] = "starting"
  /\ IF Serving = {} THEN sidecars' = [sidecars EXCEPT ![n] = "serving"] /\ Boot
     ELSE Ends(n)
  /\ UNCHANGED <<phase, restarting, window, handle, lost, build, onDisk, updater>>

(* A sidecar dies by itself; the handle stays and nobody spawns another.   *)
SidecarDies(n) ==
  /\ n \in Alive /\ Ends(n)
  /\ UNCHANGED <<phase, restarting, window, handle, lost, build, onDisk, updater>>

(* run_updater_loop and try_update; when nothing is newer, the loop would  *)
(* look and go back to sleep.                                              *)
Wake ==
  /\ phase = "running" /\ updater = "sleep" /\ build < Latest
  /\ window = "hidden" /\ updater' = "check"
  /\ UNCHANGED <<agent, phase, restarting, window, agents, build, onDisk>>

\* A mistake: the loop ends with the first error
GivesUp ==
  /\ phase = "running" /\ updater = "check"
  /\ updater' = "ended"
  /\ UNCHANGED <<agent, phase, restarting, window, agents, build, onDisk>>

(* An error: the loop sleeps and tries again.                              *)
TryAgain ==
  /\ phase = "running" /\ updater = "check"
  /\ updater' = "sleep"
  /\ UNCHANGED <<agent, phase, restarting, window, agents, build, onDisk>>

(* A newer build is found, downloaded and installed on the disk.           *)
Install ==
  /\ phase = "running" /\ updater = "check"
  /\ onDisk' = Latest /\ updater' = "decide"
  /\ UNCHANGED <<agent, phase, restarting, window, agents, build>>

(* Restart only if the window is still out of sight.                       *)
Decide ==
  /\ phase = "running" /\ updater = "decide" /\ updater' = "sleep"
  /\ IF window = "hidden"
     THEN kill_agent /\ phase' = "leaving" /\ restarting' = TRUE
     ELSE UNCHANGED <<agent, agents, phase, restarting>>
  /\ UNCHANGED <<window, build, onDisk>>

AgentStep == SetupNext /\ UNCHANGED shell

DesktopNext ==
  \/ AgentStep
  \/ toggle_main \/ Quit \/ SystemExit \/ ExitRequested \/ ShellDies \/ Launch
  \/ \E n \in DOMAIN sidecars : Bind(n) \/ SidecarDies(n)
  \/ Wake \/ TryAgain \/ Install \/ Decide

(* The exit event follows a request to exit, and a process a restart.  The *)
(* loop runs on; a download that is tried for ever succeeds at last.       *)
Fairness ==
  /\ \A j \in JobId : WF_all(up /\ j \in DOMAIN job /\ Steps(j) /\ UNCHANGED shell)
  /\ WF_all(ExitRequested) /\ WF_all(restarting /\ Launch)
  /\ WF_all(Wake) /\ SF_all(Install) /\ WF_all(Decide)

DesktopSpec == DesktopInit /\ [][DesktopNext]_all /\ Fairness

-----------------------------------------------------------------------------
(* Properties                                                              *)

DesktopTypes ==
  /\ \A i \in Item : part[i] \in {0} \cup DOMAIN job /\ dest[i] \in {0} \cup DOMAIN job
  /\ \A j \in DOMAIN job : job[j].item \in Item /\ job[j].wrote \in 0..Pieces
  /\ config \in Key \cup {"none", "torn"}
  /\ phase \in {"running", "leaving", "gone"}
  /\ Len(sidecars) \in Sidecar /\ \A n \in DOMAIN sidecars : sidecars[n] \in {"starting", "serving", "dead"}
  /\ lost \subseteq DOMAIN sidecars /\ (up <=> Serving # {})
  /\ build \in 1..onDisk /\ onDisk \in 1..Latest

(* Unless two downloads have overlapped, no crash, failure or departing    *)
(* client leaves a half-written file under a final name, and the agent     *)
(* never holds one.                                                        *)
SoloIsWhole ==
  ~raced => \A i \in Item :
    /\ dest[i] # 0 => body[i][dest[i]] = Whole
    /\ memory[i].of # 0 => memory[i].pieces = Whole

(* When the last job has succeeded with its client still there, or the     *)
(* agent has just booted, what it holds is what is on the disk.            *)
MemoryIsDisk == up /\ current /\ ~raced => memory = Loaded

(* Only a key that MaxMind has accepted is ever kept.                      *)
StoredKeyIsAccepted == config # "bad"

(* What is kept on disk and in memory, with the types (setup.rs,           *)
(* config.rs, the reload of the enricher and of the threat set).           *)
KeptIsRight == DesktopTypes /\ SoloIsWhole /\ MemoryIsDisk /\ StoredKeyIsAccepted

(* "Quitting -- from the menu or a true exit -- terminates the agent":     *)
(* every agent that is alive is the child of the running shell, or was     *)
(* left behind by a shell that was killed or by a kill that failed.        *)
NoStrayAgent ==
  /\ Alive \subseteq {handle} \cup lost
  /\ phase = "gone" => handle = 0

(* Every download ends, unless the agent does first.                       *)
JobsEnd == []<>(~up \/ Active = {})

(* A window that is left in the tray comes back with the newest build.     *)
UpdateApplies == <>[](phase = "running" /\ window = "hidden") => <>(build = Latest)

(* Both, whatever the user, the network and the other job do meanwhile     *)
(* (download_geoip, download_threatfeeds, try_update).                     *)
ComesThrough == JobsEnd /\ UpdateApplies

(* Said of the temporary name (setup.rs) and not kept when two downloads   *)
(* of one file overlap.                                                    *)
NeverHalfWritten == \A i \in Item : dest[i] # 0 => body[i][dest[i]] = Whole

(* Said of the stored key -- a refresh never asks twice -- and not kept by *)
(* an agent that dies while it saves.                                      *)
KeyIsKept == [][(config \in Key) => (config' \in Key)]_config

(* "Quit ... also stops the agent so nothing lingers" (README.md) and not  *)
(* kept: the shell kills its own child, which a stray agent has sent away. *)
NothingLingers == [][ExitRequested => Alive' = {}]_all
=============================================================================
