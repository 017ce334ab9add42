------------------------------ MODULE Updater ------------------------------
(***************************************************************************)
(* The self-update of the single-exe product (agent/src/update.rs and its  *)
(* handlers in main.rs).  A background loop and the HUD's "check now" both *)
(* fetch the manifest of the rolling `latest` release and store what they  *)
(* found; "update & restart" downloads the exe of the stored manifest,     *)
(* verifies its hash and swaps it for the running binary through a         *)
(* temporary file named after the process id.                              *)
(*                                                                         *)
(* Every one of these runs on a blocking thread of its own, so any number  *)
(* of them overlap: status and pending are behind mutexes, the temporary   *)
(* file is not.  The release is replaced asset by asset while they run.    *)
(*                                                                         *)
(* A file is the build its bytes come from and whether they are all there; *)
(* the hash of a file is the file.                                         *)
(***************************************************************************)
EXTENDS Naturals, FiniteSets

CONSTANTS
  MaxBuild, \* bound: builds are 1 .. MaxBuild
  Checks,   \* one identity for each check that can be in flight
  Applies,  \* one identity for each apply that can be in flight
  None      \* no manifest, no file

ASSUME UpdaterAssumption ==
  /\ MaxBuild \in Nat \ {0} /\ None \notin 1 .. MaxBuild
  /\ IsFiniteSet(Checks) /\ IsFiniteSet(Applies)

Builds == 1 .. MaxBuild

VARIABLES
  running,   \* the build of this process
  installed, \* the file current_exe() names
  manifest,  \* the build latest.json advertises
  exe,       \* the build of the netscope.exe asset
  available, \* status.available
  latest,    \* status.latest_build
  pending,   \* the manifest to apply
  check,     \* what each check has fetched and not yet stored
  apply,     \* where each apply is, its manifest and its bytes
  tmp,       \* the temporary file, and who opened it last
  overlapped \* history: two applies of one process have been under way at once

release == <<manifest, exe>>
status == <<available, latest, pending>>
vars == <<running, installed, release, status, check, apply, tmp, overlapped>>

File(build, whole) == [build |-> build, whole |-> whole]
Idle == [pc |-> "idle", manifest |-> None, bytes |-> None]

\* Updater::new in a process that runs build b
Fresh(b) ==
  /\ running' = b
  /\ available' = FALSE /\ latest' = None /\ pending' = None
  /\ check' = [c \in Checks |-> None] /\ apply' = [a \in Applies |-> Idle]
  /\ tmp' = None /\ overlapped' = FALSE

Init ==
  /\ running \in Builds /\ installed = File(running, TRUE)
  /\ manifest = running /\ exe = running
  /\ available = FALSE /\ latest = None /\ pending = None
  /\ check = [c \in Checks |-> None] /\ apply = [a \in Applies |-> Idle]
  /\ tmp = None /\ overlapped = FALSE

\* The user restarts: the process of the installed file, if it is one, has its
\* own state and its own temporary file
Restart ==
  /\ installed.whole
  /\ Fresh(installed.build)
  /\ UNCHANGED <<installed, release>>

\* CI replaces the assets of the release one at a time, and its runs may overtake
\* each other
PublishExe ==
  /\ exe' \in Builds \ {exe}
  /\ UNCHANGED <<running, installed, manifest, status, check, apply, tmp, overlapped>>

PublishManifest ==
  /\ manifest' \in Builds \ {manifest}
  /\ UNCHANGED <<running, installed, exe, status, check, apply, tmp, overlapped>>

----------------------------------------------------------------------------
(* check() *)

\* A mistake: whatever differs from the running build is an update
is_different(current, build) == build # current

is_newer(current, build) == build > current

\* The manifest arrives; a failed fetch only sets status.error
Fetch(c) ==
  /\ check[c] = None
  /\ check' = [check EXCEPT ![c] = manifest]
  /\ UNCHANGED <<running, installed, release, status, apply, tmp, overlapped>>

\* A mistake: the manifest to apply is only ever replaced by a newer one
StoreNewer(c) ==
  /\ check[c] # None
  /\ available' = is_newer(running, check[c])
  /\ latest' = check[c]
  /\ pending' = IF available' THEN check[c] ELSE pending
  /\ check' = [check EXCEPT ![c] = None]
  /\ UNCHANGED <<running, installed, release, apply, tmp, overlapped>>

\* Under the lock of status, pending included
Store(c) ==
  /\ check[c] # None
  /\ available' = is_newer(running, check[c])
  /\ latest' = check[c]
  /\ pending' = IF available' THEN check[c] ELSE None
  /\ check' = [check EXCEPT ![c] = None]
  /\ UNCHANGED <<running, installed, release, apply, tmp, overlapped>>

----------------------------------------------------------------------------
(* apply() *)

UnderWay == {a \in Applies : apply[a].pc # "idle"}

Begin(a) ==
  /\ apply[a] = Idle /\ pending # None
  /\ apply' = [apply EXCEPT ![a] = [Idle EXCEPT !.pc = "download", !.manifest = pending]]
  /\ overlapped' = (overlapped \/ UnderWay # {})
  /\ UNCHANGED <<running, installed, release, status, check, tmp>>

\* A mistake: the hash is not compared
Unverified(bytes, m) == TRUE

\* The downloaded bytes have the hash of the manifest
Verified(bytes, m) == bytes = File(m, TRUE)

\* What the asset holds now, or the beginning of it
Download(a) ==
  /\ apply[a].pc = "download"
  /\ \E whole \in BOOLEAN :
       LET bytes == File(exe, whole)
       IN  apply' = [apply EXCEPT ![a] =
             IF Verified(bytes, apply[a].manifest)
             THEN [@ EXCEPT !.pc = "write", !.bytes = bytes] ELSE Idle]
  /\ UNCHANGED <<running, installed, release, status, check, tmp, overlapped>>

\* A mistake: the file is not written to the end before it replaces the binary
TruncateOnly(a) ==
  /\ apply[a].pc = "write"
  /\ tmp' = [file |-> [apply[a].bytes EXCEPT !.whole = FALSE], by |-> a]
  /\ apply' = [apply EXCEPT ![a].pc = "replace"]
  /\ UNCHANGED <<running, installed, release, status, check, overlapped>>

\* fs::write creates the file or truncates it, and then writes
Truncate(a) ==
  /\ apply[a].pc = "write"
  /\ tmp' = [file |-> [apply[a].bytes EXCEPT !.whole = FALSE], by |-> a]
  /\ apply' = [apply EXCEPT ![a].pc = "writing"]
  /\ UNCHANGED <<running, installed, release, status, check, overlapped>>

\* The last byte is written: the file is whole when this apply opened it last, and
\* spoilt when it holds another build; a removed file is not seen again
Written(a) ==
  IF tmp = None THEN None
  ELSE IF tmp.by = a THEN [tmp EXCEPT !.file = apply[a].bytes]
  ELSE [tmp EXCEPT !.file.whole = @ /\ tmp.file.build = apply[a].bytes.build]

Write(a) ==
  /\ apply[a].pc = "writing"
  /\ tmp' = Written(a)
  /\ apply' = [apply EXCEPT ![a].pc = "replace"]
  /\ UNCHANGED <<running, installed, release, status, check, overlapped>>

\* The disk is full: replace_self returns and leaves the beginning behind
WriteFails(a) ==
  /\ apply[a].pc = "writing"
  /\ apply' = [apply EXCEPT ![a] = Idle]
  /\ UNCHANGED <<running, installed, release, status, check, tmp, overlapped>>

\* self_replace copies the file beside the running binary and renames it over
Replace(a) ==
  /\ apply[a].pc = "replace"
  /\ installed' = IF tmp = None THEN installed ELSE tmp.file
  /\ apply' = [apply EXCEPT ![a].pc = "remove"]
  /\ UNCHANGED <<running, release, status, check, tmp, overlapped>>

ReplaceFails(a) ==
  /\ apply[a].pc = "replace"
  /\ apply' = [apply EXCEPT ![a].pc = "remove"]
  /\ UNCHANGED <<running, installed, release, status, check, tmp, overlapped>>

Remove(a) ==
  /\ apply[a].pc = "remove"
  /\ tmp' = None
  /\ apply' = [apply EXCEPT ![a] = Idle]
  /\ UNCHANGED <<running, installed, release, status, check, overlapped>>

----------------------------------------------------------------------------
Checking == \E c \in Checks : Fetch(c) \/ Store(c)

Applying == \E a \in Applies :
  \/ Begin(a) \/ Download(a) \/ Truncate(a) \/ Write(a) \/ WriteFails(a)
  \/ Replace(a) \/ ReplaceFails(a) \/ Remove(a)

Next == Checking \/ Applying \/ PublishExe \/ PublishManifest \/ Restart

Spec == Init /\ [][Next]_vars

----------------------------------------------------------------------------
(* Properties *)

Files == [build : Builds, whole : BOOLEAN]

\* Every variable has its type, and an apply that has written bytes has verified
\* them against the manifest it began with.
TypeOK ==
  /\ running \in Builds /\ installed \in Files
  /\ manifest \in Builds /\ exe \in Builds
  /\ available \in BOOLEAN /\ {latest, pending} \subseteq Builds \cup {None}
  /\ check \in [Checks -> Builds \cup {None}]
  /\ overlapped \in BOOLEAN
  /\ tmp # None => tmp.file \in Files /\ tmp.by \in Applies
  /\ \A a \in Applies :
       CASE apply[a].pc = "idle" -> apply[a] = Idle
         [] apply[a].pc = "download" -> apply[a].manifest \in Builds
         [] OTHER -> apply[a].bytes = File(apply[a].manifest, TRUE)

\* Whatever checks overlap and in whichever order their answers come, the HUD
\* offers an update exactly when there is one to apply, and the build it names is
\* the build that would be applied.
OfferedIsApplied ==
  /\ available <=> pending # None
  /\ available => latest = pending

\* A process in which applies never overlapped has a whole binary on disk, either
\* its own or a newer one, whatever the release, the network and the disk did.
SoloApplyIsSafe ==
  ~overlapped => installed.whole /\ installed.build >= running

\* Restarting never goes back to an older build, although a check may bring an
\* older manifest after a newer one has been applied, and applies may overlap.
NeverOlder == [][running' >= running]_vars

----------------------------------------------------------------------------
(* What the repository says and the code does not keep *)

\* "downloads the exe, verifies its SHA-256 against the manifest, and
\* self-replaces" (update.rs): the binary on disk is one that was verified.  Two
\* applies share the temporary file, so one may install what the other has begun.
InstalledIsWhole == installed.whole

=============================================================================
