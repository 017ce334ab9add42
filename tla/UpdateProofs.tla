---------------------------- MODULE UpdateProofs -----------------------------
(***************************************************************************)
(* What holds of the self-update for any number of builds, of checks and   *)
(* of applies under way at once: the HUD offers what would be applied, no  *)
(* process is followed by an older one, and a process whose applies never  *)
(* overlapped has a whole binary on disk.  Then of the desktop shell and   *)
(* the downloads of its agent, for any files, pieces, jobs and restarts:   *)
(* no half-written file is used unless two downloads overlapped, memory    *)
(* follows the disk, and only a killed shell, or a kill that fails, leaves *)
(* an agent behind.                                                        *)
(***************************************************************************)
EXTENDS Updater, Desktop, SequenceTheorems, TLAPS

Stages == {"idle", "download", "write", "writing", "replace", "remove"}

(* The shape of the state: TypeOK, with the functions it applies spelt out *)
Shape ==
  /\ running \in Builds /\ installed \in Files
  /\ manifest \in Builds /\ exe \in Builds
  /\ available \in BOOLEAN /\ overlapped \in BOOLEAN
  /\ latest \in Builds \cup {None} /\ pending \in Builds \cup {None}
  /\ check \in [Checks -> Builds \cup {None}]
  /\ apply \in [Applies -> [pc : Stages, manifest : Builds \cup {None},
                            bytes : Files \cup {None}]]
  /\ tmp # None => tmp \in [file : Files, by : Applies]

(* What an apply holds: nothing, a manifest, or a manifest and its bytes.  *)
Held ==
  \A a \in Applies :
    /\ apply[a].pc = "idle" => apply[a] = Idle
    /\ apply[a].pc # "idle" => apply[a].manifest \in Builds
    /\ apply[a].pc \notin {"idle", "download"}
         => apply[a].bytes = File(apply[a].manifest, TRUE)

(* Every build on its way to the disk is newer than the running one.       *)
Forward ==
  /\ pending # None => pending > running
  /\ \A a \in Applies : apply[a].pc # "idle" => apply[a].manifest > running
  /\ tmp # None => tmp.file.build > running
  /\ installed.build >= running

(* An apply that is alone owns the temporary file, and it is whole once    *)
(* it has been written to the end.                                         *)
Alone ==
  ~overlapped =>
    /\ \A a, b \in Applies : apply[a].pc # "idle" /\ apply[b].pc # "idle" => a = b
    /\ \A a \in Applies : apply[a].pc = "writing" /\ tmp # None => tmp.by = a
    /\ \A a \in Applies : apply[a].pc = "replace" /\ tmp # None => tmp.file.whole = TRUE
    /\ installed.whole = TRUE

IInv == Shape /\ Held /\ Forward /\ Alone /\ OfferedIsApplied

-----------------------------------------------------------------------------
(* The type invariant, and the safety of an apply that is alone, are parts *)
(* of the inductive invariant.                                             *)
LEMMA InvImplies == IInv => TypeOK /\ SoloApplyIsSafe
<1> SUFFICES ASSUME IInv PROVE TypeOK /\ SoloApplyIsSafe
  OBVIOUS
<1>1. tmp # None => tmp.file \in Files /\ tmp.by \in Applies
  BY DEF IInv, Shape
<1>2. ASSUME NEW a \in Applies
      PROVE  CASE apply[a].pc = "idle" -> apply[a] = Idle
               [] apply[a].pc = "download" -> apply[a].manifest \in Builds
               [] OTHER -> apply[a].bytes = File(apply[a].manifest, TRUE)
  BY <1>2 DEF IInv, Held
<1>3. TypeOK
  BY <1>1, <1>2 DEF IInv, Shape, TypeOK
<1>4. SoloApplyIsSafe
  BY DEF IInv, Alone, Forward, SoloApplyIsSafe
<1> QED BY <1>3, <1>4

LEMMA BuildsAreNumbers == Builds \subseteq Nat /\ None \notin Builds
  BY UpdaterAssumption DEF Builds

(* A process that starts has checked nothing and applies nothing.          *)
LEMMA InitInv == Init => IInv
<1> SUFFICES ASSUME Init PROVE IInv
  OBVIOUS
<1>1. /\ running \in Builds /\ installed = File(running, TRUE)
      /\ manifest = running /\ exe = running
      /\ available = FALSE /\ latest = None /\ pending = None
      /\ check = [c \in Checks |-> None] /\ apply = [a \in Applies |-> Idle]
      /\ tmp = None /\ overlapped = FALSE
  BY DEF Init
<1>2. Idle \in [pc : Stages, manifest : Builds \cup {None}, bytes : Files \cup {None}]
  BY DEF Idle, Stages
<1>3. installed \in Files /\ installed.build = running /\ installed.whole = TRUE
  BY <1>1 DEF File, Files
<1>4. \A a \in Applies : apply[a] = Idle /\ apply[a].pc = "idle"
  BY <1>1 DEF Idle
<1>5. Shape
  BY <1>1, <1>2, <1>3 DEF Shape
<1>6. Held
  BY <1>4 DEF Held
<1>7. Forward
  <2>1. running \in Nat /\ installed.build = running /\ pending = None /\ tmp = None
    BY <1>1, <1>3, BuildsAreNumbers
  <2>2. installed.build >= running
    BY <2>1
  <2> QED BY <1>4, <2>1, <2>2 DEF Forward
<1>8. Alone
  BY <1>1, <1>3, <1>4 DEF Alone
<1>9. OfferedIsApplied
  BY <1>1 DEF OfferedIsApplied
<1> QED BY <1>5, <1>6, <1>7, <1>8, <1>9 DEF IInv

-----------------------------------------------------------------------------
(* One lemma per step.  A restart begins anew with the installed file,     *)
(* which is whole, and everything it forgets was of the old process.       *)
LEMMA RestartStep == IInv /\ Restart => IInv' /\ running' >= running
<1> SUFFICES ASSUME IInv, Restart PROVE IInv' /\ running' >= running
  OBVIOUS
<1>1. /\ running' = installed.build /\ installed' = installed
      /\ manifest' = manifest /\ exe' = exe
      /\ available' = FALSE /\ latest' = None /\ pending' = None
      /\ check' = [c \in Checks |-> None] /\ apply' = [a \in Applies |-> Idle]
      /\ tmp' = None /\ overlapped' = FALSE
  BY DEF Restart, Fresh, release
<1>2. Idle \in [pc : Stages, manifest : Builds \cup {None}, bytes : Files \cup {None}]
  BY DEF Idle, Stages
<1>3. installed.build \in Builds /\ installed.whole = TRUE
  BY DEF Restart, IInv, Shape, Files
<1>4. \A a \in Applies : apply'[a] = Idle /\ apply'[a].pc = "idle"
  BY <1>1 DEF Idle
<1>5. Shape'
  BY <1>1, <1>2, <1>3 DEF IInv, Shape
<1>6. Held'
  BY <1>4 DEF Held
<1>7. Forward' /\ running' >= running
  <2>1. installed.build \in Nat /\ running \in Nat
    BY <1>3, BuildsAreNumbers DEF IInv, Shape
  <2>2. installed.build >= installed.build /\ installed.build >= running
    BY <2>1 DEF IInv, Forward
  <2> QED BY <1>1, <1>4, <2>2 DEF Forward
<1>8. Alone'
  BY <1>1, <1>3, <1>4 DEF Alone
<1>9. OfferedIsApplied'
  BY <1>1 DEF OfferedIsApplied
<1> QED BY <1>5, <1>6, <1>7, <1>8, <1>9 DEF IInv

(* Publishing, fetching and the steps that leave everything alone touch    *)
(* nothing the invariant speaks of.                                        *)
LEMMA ReleaseStep ==
  IInv /\ (PublishExe \/ PublishManifest \/ UNCHANGED vars)
    => IInv' /\ running' = running
<1> SUFFICES ASSUME IInv, PublishExe \/ PublishManifest \/ UNCHANGED vars
             PROVE  IInv' /\ running' = running
  OBVIOUS
<1>1. /\ manifest' \in Builds /\ exe' \in Builds
      /\ UNCHANGED <<running, installed, available, latest, pending, check, apply, tmp,
                     overlapped>>
  BY DEF PublishExe, PublishManifest, vars, release, status, IInv, Shape
<1>2. Shape' /\ Held' /\ Forward' /\ Alone' /\ OfferedIsApplied'
  BY <1>1 DEF IInv, Shape, Held, Forward, Alone, OfferedIsApplied
<1> QED BY <1>1, <1>2 DEF IInv

LEMMA FetchStep ==
  ASSUME IInv, NEW c \in Checks, Fetch(c)
  PROVE  IInv' /\ running' = running
<1>1. /\ check' \in [Checks -> Builds \cup {None}]
      /\ UNCHANGED <<running, installed, manifest, exe, available, latest, pending, apply,
                     tmp, overlapped>>
  BY DEF Fetch, release, status, IInv, Shape
<1>2. Shape' /\ Held' /\ Forward' /\ Alone' /\ OfferedIsApplied'
  BY <1>1 DEF IInv, Shape, Held, Forward, Alone, OfferedIsApplied
<1> QED BY <1>1, <1>2 DEF IInv

(* A check stores an offer and the manifest to apply together, and only    *)
(* when the manifest is newer than the running build.                      *)
LEMMA StoreStep ==
  ASSUME IInv, NEW c \in Checks, Store(c)
  PROVE  IInv' /\ running' = running
<1>1. /\ check[c] \in Builds
      /\ available' = is_newer(running, check[c])
      /\ latest' = check[c]
      /\ pending' = IF available' THEN check[c] ELSE None
      /\ check' = [check EXCEPT ![c] = None]
      /\ UNCHANGED <<running, installed, manifest, exe, apply, tmp, overlapped>>
  BY DEF Store, release, IInv, Shape
<1>2. available' \in BOOLEAN
  <2>1. is_newer(running, check[c]) \in BOOLEAN
    BY DEF is_newer
  <2> QED BY <1>1, <2>1, Zenon
<1>3. available' => check[c] > running
  BY <1>1, Zenon DEF is_newer
<1>4. check' \in [Checks -> Builds \cup {None}]
  BY <1>1 DEF IInv, Shape
<1>5. Shape'
  BY <1>1, <1>2, <1>4 DEF IInv, Shape
<1>6. Held' /\ Forward' /\ Alone'
  BY <1>1, <1>3 DEF IInv, Held, Forward, Alone
<1>7. OfferedIsApplied'
  BY <1>1, <1>2, BuildsAreNumbers DEF OfferedIsApplied
<1> QED BY <1>1, <1>5, <1>6, <1>7 DEF IInv

(* An apply takes the manifest on offer, which is newer; it is alone if    *)
(* nothing was under way.                                                  *)
LEMMA BeginStep ==
  ASSUME IInv, NEW a \in Applies, Begin(a)
  PROVE  IInv' /\ running' = running
<1> DEFINE now == [Idle EXCEPT !.pc = "download", !.manifest = pending]
<1>1. /\ pending \in Builds /\ pending > running
      /\ apply' = [apply EXCEPT ![a] = now]
      /\ UNCHANGED <<running, installed, manifest, exe, available, latest, pending, check, tmp>>
  <2>1. pending \in Builds /\ pending > running
    BY DEF Begin, IInv, Shape, Forward
  <2>2. apply' = [apply EXCEPT ![a] = now]
    BY Zenon DEF Begin
  <2>3. UNCHANGED <<running, installed, manifest, exe, available, latest, pending, check, tmp>>
    BY DEF Begin, release, status
  <2> QED BY <2>1, <2>2, <2>3
<1>2. /\ now \in [pc : Stages, manifest : Builds \cup {None}, bytes : Files \cup {None}]
      /\ now.pc = "download" /\ now.manifest = pending
  BY <1>1 DEF Idle, Stages
<1>3. overlapped' = (overlapped \/ UnderWay # {})
  BY DEF Begin
<1>4. overlapped' \in BOOLEAN /\ (~overlapped' => ~overlapped /\ UnderWay = {})
  BY <1>3, Zenon
<1>5. ~overlapped' => \A b \in Applies : apply[b].pc = "idle"
  BY <1>4 DEF UnderWay
<1>6. /\ apply'[a] = now
      /\ \A b \in Applies \ {a} : apply'[b] = apply[b]
  BY <1>1 DEF IInv, Shape
<1>7. Shape'
  BY <1>1, <1>2, <1>4 DEF IInv, Shape
<1>8. Held' /\ Forward'
  <2>1. /\ apply'[a].pc = "download" /\ apply'[a].manifest = pending
    BY <1>2, <1>6
  <2>2. \A b \in Applies \ {a} : apply'[b] = apply[b]
    BY <1>6
  <2>3. Held'
    BY <1>1, <2>1, <2>2 DEF IInv, Held
  <2>4. Forward'
    BY <1>1, <2>1, <2>2 DEF IInv, Forward
  <2> QED BY <2>3, <2>4
<1>9. Alone'
  BY <1>1, <1>4, <1>5, <1>6 DEF IInv, Alone
<1>10. OfferedIsApplied'
  BY <1>1 DEF IInv, OfferedIsApplied
<1> QED BY <1>1, <1>7, <1>8, <1>9, <1>10 DEF IInv

(* Only bytes that are the advertised build, whole, get past the download. *)
LEMMA DownloadStep ==
  ASSUME IInv, NEW a \in Applies, Download(a)
  PROVE  IInv' /\ running' = running
<1>1. PICK whole \in BOOLEAN :
        apply' = [apply EXCEPT ![a] =
          IF File(exe, whole) = File(apply[a].manifest, TRUE)
          THEN [apply[a] EXCEPT !.pc = "write", !.bytes = File(exe, whole)] ELSE Idle]
  BY DEF Download, Verified
<1>2. /\ apply[a].pc = "download"
      /\ UNCHANGED <<running, installed, manifest, exe, available, latest, pending, check, tmp,
                     overlapped>>
  BY DEF Download, release, status
<1>3. /\ apply[a] \in [pc : Stages, manifest : Builds \cup {None}, bytes : Files \cup {None}]
      /\ apply[a].manifest \in Builds
  BY <1>2 DEF IInv, Shape, Held
<1>4. \A b \in Applies \ {a} : apply'[b] = apply[b]
  BY <1>1 DEF IInv, Shape
<1>5. \/ apply'[a] = Idle
      \/ /\ apply'[a].pc = "write" /\ apply'[a].manifest = apply[a].manifest
         /\ apply'[a].bytes = File(apply[a].manifest, TRUE)
  BY <1>1, <1>3 DEF IInv, Shape
<1>6. Shape'
  <2>1. File(exe, whole) \in Files
    BY <1>1 DEF File, Files, IInv, Shape
  <2>2. apply' \in [Applies -> [pc : Stages, manifest : Builds \cup {None},
                                bytes : Files \cup {None}]]
    BY <1>1, <1>3, <2>1 DEF IInv, Shape, Idle, Stages
  <2> QED BY <1>2, <2>2 DEF IInv, Shape
<1>7. Idle.pc = "idle"
  BY DEF Idle
<1>8. Held'
  BY <1>3, <1>4, <1>5, <1>7 DEF IInv, Held
<1>9. Forward'
  BY <1>2, <1>3, <1>4, <1>5, <1>7 DEF IInv, Forward
<1>10. Alone'
  BY <1>2, <1>4, <1>5, <1>7 DEF IInv, Alone
<1>11. OfferedIsApplied'
  BY <1>2 DEF IInv, OfferedIsApplied
<1> QED BY <1>2, <1>6, <1>8, <1>9, <1>10, <1>11 DEF IInv

(* A step of an apply that only moves on, and may change the temporary     *)
(* file, keeps everything but what Alone says of that file.                *)
LEMMA Moves ==
  ASSUME IInv, NEW a \in Applies, NEW s \in {"writing", "replace", "remove"},
         apply[a].pc \notin {"idle", "download"},
         apply' = [apply EXCEPT ![a].pc = s],
         UNCHANGED <<running, manifest, exe, available, latest, pending, check, overlapped>>,
         installed' \in Files, installed'.build >= running,
         tmp' # None => tmp' \in [file : Files, by : Applies] /\ tmp'.file.build > running
  PROVE  /\ Shape' /\ Held' /\ Forward' /\ OfferedIsApplied'
         /\ apply'[a].pc = s
         /\ \A b \in Applies \ {a} : apply'[b] = apply[b]
<1>1. /\ apply'[a].pc = s /\ apply'[a].manifest = apply[a].manifest
      /\ apply'[a].bytes = apply[a].bytes
      /\ apply'[a] \in [pc : Stages, manifest : Builds \cup {None}, bytes : Files \cup {None}]
  BY DEF IInv, Shape, Stages
<1>2. \A b \in Applies \ {a} : apply'[b] = apply[b]
  BY DEF IInv, Shape
<1>3. apply' \in [Applies -> [pc : Stages, manifest : Builds \cup {None},
                              bytes : Files \cup {None}]]
  BY DEF IInv, Shape, Stages
<1>4. Shape'
  BY <1>3 DEF IInv, Shape
<1>5. Held'
  BY <1>1, <1>2 DEF IInv, Held
<1>6. Forward'
  BY <1>1, <1>2 DEF IInv, Forward
<1>7. OfferedIsApplied'
  BY DEF IInv, OfferedIsApplied
<1> QED BY <1>1, <1>2, <1>4, <1>5, <1>6, <1>7

(* A step that ends an apply likewise.                                     *)
LEMMA ApplyEnds ==
  ASSUME IInv, NEW a \in Applies,
         apply' = [apply EXCEPT ![a] = Idle],
         UNCHANGED <<running, installed, manifest, exe, available, latest, pending, check,
                     overlapped>>,
         tmp' \in {tmp, None}
  PROVE  IInv'
<1>1. Idle \in [pc : Stages, manifest : Builds \cup {None}, bytes : Files \cup {None}]
      /\ Idle.pc = "idle"
  BY DEF Idle, Stages
<1>2. apply'[a] = Idle /\ \A b \in Applies \ {a} : apply'[b] = apply[b]
  BY DEF IInv, Shape
<1>3. Shape'
  BY <1>1 DEF IInv, Shape
<1>4. Held'
  BY <1>1, <1>2 DEF IInv, Held
<1>5. Forward'
  BY <1>1, <1>2 DEF IInv, Forward
<1>6. Alone'
  BY <1>1, <1>2 DEF IInv, Alone
<1>7. OfferedIsApplied'
  BY DEF IInv, OfferedIsApplied
<1> QED BY <1>3, <1>4, <1>5, <1>6, <1>7 DEF IInv

LEMMA TruncateStep ==
  ASSUME IInv, NEW a \in Applies, Truncate(a)
  PROVE  IInv' /\ running' = running
<1>1. /\ apply[a].pc = "write" /\ apply' = [apply EXCEPT ![a].pc = "writing"]
      /\ tmp' = [file |-> [apply[a].bytes EXCEPT !.whole = FALSE], by |-> a]
      /\ UNCHANGED <<running, installed, manifest, exe, available, latest, pending, check,
                     overlapped>>
  BY DEF Truncate, release, status
<1>2. /\ apply[a].bytes = File(apply[a].manifest, TRUE)
      /\ apply[a].manifest \in Builds /\ apply[a].manifest > running
  BY <1>1 DEF IInv, Held, Forward
<1>3. /\ tmp' \in [file : Files, by : Applies]
      /\ tmp'.file.build > running /\ tmp'.by = a
  <2> DEFINE begun == [apply[a].bytes EXCEPT !.whole = FALSE]
  <2>1. apply[a].bytes \in Files /\ apply[a].bytes.build = apply[a].manifest
    BY <1>2 DEF File, Files
  <2>2. begun \in Files /\ begun.build = apply[a].manifest
    BY <2>1 DEF Files
  <2>3. tmp' = [file |-> begun, by |-> a]
    BY <1>1
  <2> HIDE DEF begun
  <2> QED BY <1>2, <2>2, <2>3
<1>4. installed' \in Files /\ installed'.build >= running
  BY <1>1 DEF IInv, Shape, Forward
<1>5. /\ Shape' /\ Held' /\ Forward' /\ OfferedIsApplied'
      /\ apply'[a].pc = "writing"
      /\ \A b \in Applies \ {a} : apply'[b] = apply[b]
  BY <1>1, <1>3, <1>4, Moves
<1>6. Alone'
  BY <1>1, <1>3, <1>5 DEF IInv, Alone
<1> QED BY <1>1, <1>5, <1>6 DEF IInv

(* Whoever opened the temporary file last, it holds a newer build; it is   *)
(* whole when the apply that writes it to the end opened it last.          *)
LEMMA WriteStep ==
  ASSUME IInv, NEW a \in Applies, Write(a)
  PROVE  IInv' /\ running' = running
<1>1. /\ apply[a].pc = "writing" /\ apply' = [apply EXCEPT ![a].pc = "replace"]
      /\ tmp' = Written(a)
      /\ UNCHANGED <<running, installed, manifest, exe, available, latest, pending, check,
                     overlapped>>
  BY DEF Write, release, status
<1>2. /\ apply[a].bytes = File(apply[a].manifest, TRUE)
      /\ apply[a].manifest \in Builds /\ apply[a].manifest > running
  BY <1>1 DEF IInv, Held, Forward
<1>3. tmp # None => tmp \in [file : Files, by : Applies] /\ tmp.file.build > running
  BY DEF IInv, Shape, Forward
<1>4. /\ tmp' # None => tmp' \in [file : Files, by : Applies] /\ tmp'.file.build > running
      /\ tmp # None /\ tmp.by = a => tmp'.file.whole = TRUE
      /\ tmp = None => tmp' = None
  <2>1. CASE tmp = None
    BY <1>1, <2>1 DEF Written
  <2>2. CASE tmp # None /\ tmp.by = a
    <3>1. tmp' = [tmp EXCEPT !.file = File(apply[a].manifest, TRUE)]
      BY <1>1, <1>2, <2>2 DEF Written
    <3> QED BY <1>2, <1>3, <2>2, <3>1 DEF File, Files
  <2>3. CASE tmp # None /\ tmp.by # a
    <3> DEFINE still == tmp.file.whole /\ tmp.file.build = apply[a].bytes.build
    <3>1. tmp' = [tmp EXCEPT !.file.whole = still]
      BY <1>1, <2>3 DEF Written
    <3>2. still \in BOOLEAN
      BY Zenon
    <3> HIDE DEF still
    <3> QED BY <1>3, <2>3, <3>1, <3>2 DEF Files
  <2> QED BY <2>1, <2>2, <2>3
<1>5. installed' \in Files /\ installed'.build >= running
  BY <1>1 DEF IInv, Shape, Forward
<1>6. /\ Shape' /\ Held' /\ Forward' /\ OfferedIsApplied'
      /\ apply'[a].pc = "replace"
      /\ \A b \in Applies \ {a} : apply'[b] = apply[b]
  BY <1>1, <1>4, <1>5, Moves
<1>7. Alone'
  BY <1>1, <1>4, <1>6 DEF IInv, Alone
<1> QED BY <1>1, <1>6, <1>7 DEF IInv

(* What replaces the binary is newer, and whole when the apply is alone.   *)
LEMMA ReplaceStep ==
  ASSUME IInv, NEW a \in Applies, Replace(a) \/ ReplaceFails(a)
  PROVE  IInv' /\ running' = running
<1>1. /\ apply[a].pc = "replace" /\ apply' = [apply EXCEPT ![a].pc = "remove"]
      /\ installed' = installed \/ (tmp # None /\ installed' = tmp.file)
      /\ UNCHANGED <<running, manifest, exe, available, latest, pending, check, tmp,
                     overlapped>>
  BY DEF Replace, ReplaceFails, release, status
<1>2. tmp' # None => tmp' \in [file : Files, by : Applies] /\ tmp'.file.build > running
  BY <1>1 DEF IInv, Shape, Forward
<1>3. installed' \in Files /\ installed'.build >= running
  BY <1>1, BuildsAreNumbers DEF IInv, Shape, Forward, Files
<1>4. /\ Shape' /\ Held' /\ Forward' /\ OfferedIsApplied'
      /\ apply'[a].pc = "remove"
      /\ \A b \in Applies \ {a} : apply'[b] = apply[b]
  BY <1>1, <1>2, <1>3, Moves
<1>5. Alone'
  BY <1>1, <1>4 DEF IInv, Alone
<1> QED BY <1>1, <1>4, <1>5 DEF IInv

LEMMA EndStep ==
  ASSUME IInv, NEW a \in Applies, WriteFails(a) \/ Remove(a)
  PROVE  IInv' /\ running' = running
  BY ApplyEnds DEF WriteFails, Remove, release, status

-----------------------------------------------------------------------------
(* Every step keeps the invariant and never starts an older build.         *)
LEMMA Step == IInv /\ [Next]_vars => IInv' /\ running' >= running
<1> SUFFICES ASSUME IInv, [Next]_vars PROVE IInv' /\ running' >= running
  OBVIOUS
<1>1. running \in Nat
  BY BuildsAreNumbers DEF IInv, Shape
<1>2. CASE Restart
  BY <1>2, RestartStep
<1>3. CASE PublishExe \/ PublishManifest \/ UNCHANGED vars
  BY <1>1, <1>3, ReleaseStep
<1>4. CASE Checking
  <2>1. PICK c \in Checks : Fetch(c) \/ Store(c)
    BY <1>4 DEF Checking
  <2> QED BY <1>1, <2>1, FetchStep, StoreStep
<1>5. CASE Applying
  <2>1. PICK a \in Applies :
          \/ Begin(a) \/ Download(a) \/ Truncate(a) \/ Write(a) \/ WriteFails(a)
          \/ Replace(a) \/ ReplaceFails(a) \/ Remove(a)
    BY <1>5 DEF Applying
  <2>2. IInv' /\ running' = running
    BY <2>1, BeginStep, DownloadStep, TruncateStep, WriteStep, ReplaceStep, EndStep
  <2> QED BY <1>1, <2>2
<1> QED BY <1>2, <1>3, <1>4, <1>5 DEF Next

THEOREM Invariance == Spec => []IInv
<1>1. IInv /\ [Next]_vars => IInv'
  BY Step
<1> QED BY <1>1, InitInv, PTL DEF Spec

(* Every variable keeps its type, and what an apply has written it has     *)
(* verified against the manifest it began with.                            *)
THEOREM TypeCorrect == Spec => []TypeOK
<1>1. IInv => TypeOK
  BY InvImplies
<1> QED BY <1>1, Invariance, PTL

(* In whatever order checks answer, the HUD offers an update exactly when  *)
(* there is a manifest to apply, and it is the one offered.                *)
THEOREM OfferHolds == Spec => []OfferedIsApplied
<1>1. IInv => OfferedIsApplied
  BY DEF IInv
<1> QED BY <1>1, Invariance, PTL

(* As long as applies of one process do not overlap, the binary on disk is *)
(* whole and no older than the one that runs, whatever fails on the way.   *)
THEOREM SoloIsSafe == Spec => []SoloApplyIsSafe
<1>1. IInv => SoloApplyIsSafe
  BY InvImplies
<1> QED BY <1>1, Invariance, PTL

(* No restart goes back to an older build, overlapping applies or not.     *)
THEOREM ForwardOnly == Spec => NeverOlder
<1>1. IInv /\ [Next]_vars => [running' >= running]_vars
  BY Step
<1>2. Spec => [][running' >= running]_vars
  BY <1>1, Invariance, PTL DEF Spec
<1> QED BY <1>2 DEF NeverOlder

-----------------------------------------------------------------------------
(***************************************************************************)
(* The desktop shell and the downloads of its agent, for any number of     *)
(* files, of pieces, of jobs and of restarts: what is kept on the disk and *)
(* in memory is right unless two downloads have overlapped, and an agent   *)
(* that lives is the running shell's child, or was left behind by a shell  *)
(* that was killed or a kill that failed.                                  *)
(***************************************************************************)
Fetching == {"fetch", "write", "rename"}
Accepted == {"write", "rename", "load", "swap", "save"}
Stopped == {"ok", "error", "dead"}

Copies == [of : 0..MaxJobs, pieces : SUBSET Whole]
Jobs == [pc : Fetching \cup Accepted \cup Stopped, item : Item, wrote : 0..Pieces,
         at : 0..MaxJobs, got : BOOLEAN, typed : Key \cup {"none"}, key : Key,
         seen : [Item -> Copies]]

(* The shape of the agent: a name belongs to a job that exists.            *)
Typed ==
  /\ kind \in {"geoip", "threats"}
  /\ job \in Seq(Jobs) /\ Len(job) <= MaxJobs
  /\ part \in [Item -> 0..Len(job)] /\ dest \in [Item -> 0..Len(job)]
  /\ body \in [Item -> [JobId -> SUBSET Whole]]
  /\ memory \in [Item -> Copies]
  /\ config \in {"good", "none", "torn"}
  /\ up \in BOOLEAN /\ raced \in BOOLEAN /\ current \in BOOLEAN

(* A job that fetches a file has yet to write all of it; past the first    *)
(* answer its key is the accepted one, and what it would save is its key.  *)
Counted ==
  \A j \in DOMAIN job :
    /\ job[j].pc = "fetch" => job[j].wrote = 0
    /\ job[j].pc = "write" => job[j].wrote < Pieces
    /\ job[j].pc \in Accepted \/ kind = "threats" => job[j].key = "good"
    /\ job[j].typed # "none" => job[j].typed = job[j].key

(* What a job that is alone knows of the disk and of the memory: it has    *)
(* not yet named the files before it; the one it writes has the temporary  *)
(* name and its pieces so far; what it has loaded is still there.          *)
Mine(j) ==
  LET i == job[j].item
  IN /\ job[j].pc \in Fetching => \A k \in Item : k >= i => dest[k] # j
     /\ job[j].pc = "write" =>
          part[i] # 0 /\ job[j].at = part[i] /\ body[i][part[i]] = 1..job[j].wrote
     /\ job[j].pc = "rename" => part[i] # 0 /\ body[i][part[i]] = Whole
     /\ job[j].pc = "swap" => job[j].seen = Loaded
     /\ job[j].pc = "save" => memory = Loaded

OneJob == \A j, k \in DOMAIN job : Running(j) /\ Running(k) => j = k
NoJob == \A j \in DOMAIN job : ~Running(j)

(* A file has one name at a time, and a final one only when it is whole.   *)
DiskIsWhole ==
  \A i \in Item :
    /\ part[i] # 0 => part[i] # dest[i]
    /\ dest[i] # 0 => body[i][dest[i]] = Whole

CopiesAreWhole(m) == \A i \in Item : m[i].of # 0 => m[i].pieces = Whole

(* Every job but the one under way has stopped, as long as none overlapped.*)
Undisturbed ==
  ~raced =>
    /\ OneJob /\ (\A j \in DOMAIN job : Mine(j))
    /\ DiskIsWhole /\ CopiesAreWhole(memory)
    /\ up /\ current => NoJob /\ memory = Loaded

AgentInv == Typed /\ Counted /\ (~up => NoJob) /\ Undisturbed

AgentStages == {"starting", "serving", "dead"}

(* The shell holds every agent that lives but those its history lists, and *)
(* one of them at most has the port.                                       *)
OneServes ==
  /\ phase \in {"running", "leaving", "gone"}
  /\ sidecars \in Seq(AgentStages) /\ Len(sidecars) \in 1..MaxLaunches
  /\ handle \in 0..Len(sidecars) /\ lost \subseteq DOMAIN sidecars
  /\ up <=> \E n \in DOMAIN sidecars : sidecars[n] = "serving"
  /\ \A n, k \in DOMAIN sidecars : sidecars[n] = "serving" /\ sidecars[k] = "serving" => n = k
  /\ \A n \in DOMAIN sidecars : sidecars[n] # "dead" => n = handle \/ n \in lost
  /\ phase = "gone" => handle = 0
  /\ build \in 1..onDisk /\ onDisk \in 1..Latest

DesktopInv == AgentInv /\ OneServes

-----------------------------------------------------------------------------
(* What a loader makes of the disk, and of a disk without torn files.      *)
LEMMA LoadedTyped == Typed => Loaded \in [Item -> Copies]
<1> SUFFICES ASSUME Typed PROVE Loaded \in [Item -> Copies]
  OBVIOUS
<1>1. Nothing \in Copies
  BY SetupAssumption DEF Nothing, Copies
<1>2. ASSUME NEW i \in Item, Opens(i) PROVE Read(i) \in Copies
  <2>1. dest[i] \in 0..Len(job) /\ dest[i] # 0 /\ Len(job) \in Nat /\ Len(job) <= MaxJobs
    BY <1>2 DEF Typed, Opens
  <2>2. dest[i] \in 0..MaxJobs /\ dest[i] \in JobId
    BY <2>1, SetupAssumption DEF JobId
  <2>3. body[i][dest[i]] \in SUBSET Whole
    BY <2>2 DEF Typed
  <2> QED BY <2>2, <2>3 DEF Read, Copies
<1> QED BY <1>1, <1>2, Zenon DEF Loaded

LEMMA LoadedWhole == DiskIsWhole => CopiesAreWhole(Loaded)
<1> SUFFICES ASSUME DiskIsWhole, NEW i \in Item, Loaded[i].of # 0
             PROVE  Loaded[i].pieces = Whole
  BY DEF CopiesAreWhole
<1>1. Nothing.of = 0
  BY DEF Nothing
<1>2. \/ Loaded[i] = Nothing
      \/ Opens(i) /\ Loaded[i] = Read(i)
  BY DEF Loaded
<1>3. Opens(i) /\ Loaded[i] = Read(i)
  BY <1>1, <1>2
<1>4. body[i][dest[i]] = Whole
  BY <1>3 DEF Opens, DiskIsWhole
<1> QED BY <1>3, <1>4 DEF Read

LEMMA LoadedKept == UNCHANGED <<kind, dest, body>> => Loaded' = Loaded
BY DEF Loaded, Opens, Read, Nothing

(* One record of the list of jobs is replaced.                             *)
LEMMA JobKept ==
  ASSUME Typed, NEW j \in DOMAIN job, NEW r \in Jobs, job' = [job EXCEPT ![j] = r]
  PROVE  /\ job' \in Seq(Jobs) /\ Len(job') = Len(job) /\ DOMAIN job' = DOMAIN job
         /\ job'[j] = r
         /\ \A k \in DOMAIN job : k # j => job'[k] = job[k]
<1>1. job \in Seq(Jobs) /\ j \in 1..Len(job) /\ DOMAIN job = 1..Len(job) /\ Len(job) \in Nat
  BY DEF Typed
<1>2. job' \in Seq(Jobs) /\ Len(job') = Len(job)
  BY <1>1, ExceptSeq
<1> QED BY <1>1, <1>2

LEMMA JobTyped ==
  ASSUME Typed, NEW j \in DOMAIN job
  PROVE  /\ job[j] \in Jobs /\ j \in JobId /\ j \in 1..Len(job)
         /\ DOMAIN job = 1..Len(job) /\ Len(job) \in Nat /\ 1..Len(job) \subseteq JobId
<1>1. job \in Seq(Jobs) /\ j \in 1..Len(job) /\ DOMAIN job = 1..Len(job) /\ Len(job) \in Nat
  BY DEF Typed
<1>2. 1..Len(job) \subseteq JobId
  BY <1>1, SetupAssumption DEF Typed, JobId
<1> QED BY <1>1, <1>2

LEMMA RunningIs ==
  \A j : Running(j) <=> job[j].pc \notin Stopped
BY DEF Running, Stopped

(* A step of job j: it suffices to say what becomes of its own record and  *)
(* of what it alone may know.                                              *)
LEMMA StepOfOne ==
  ASSUME AgentInv, up, NEW j \in DOMAIN job, Running(j),
         NEW r \in Jobs, job' = [job EXCEPT ![j] = r],
         UNCHANGED <<kind, up, raced>>,
         part' \in [Item -> 0..Len(job)], dest' \in [Item -> 0..Len(job)],
         body' \in [Item -> [JobId -> SUBSET Whole]], memory' \in [Item -> Copies],
         config' \in {"good", "none", "torn"}, current' \in BOOLEAN,
         r.pc = "fetch" => r.wrote = 0,
         r.pc = "write" => r.wrote < Pieces,
         r.pc \in Accepted \/ kind = "threats" => r.key = "good",
         r.typed # "none" => r.typed = r.key,
         Undisturbed /\ ~raced =>
           /\ Mine(j)' /\ DiskIsWhole' /\ CopiesAreWhole(memory')
           /\ current' => r.pc \in Stopped /\ memory' = Loaded'
  PROVE  AgentInv'
<1>1. Typed /\ Counted /\ Undisturbed
  BY DEF AgentInv
<1>2. /\ job' \in Seq(Jobs) /\ Len(job') = Len(job) /\ DOMAIN job' = DOMAIN job
      /\ job'[j] = r
      /\ \A k \in DOMAIN job : k # j => job'[k] = job[k]
  BY <1>1, JobKept
<1>3. Typed'
  BY <1>1, <1>2 DEF Typed
<1>4. Counted'
  <2> SUFFICES ASSUME NEW k \in DOMAIN job
               PROVE  /\ job'[k].pc = "fetch" => job'[k].wrote = 0
                      /\ job'[k].pc = "write" => job'[k].wrote < Pieces
                      /\ job'[k].pc \in Accepted \/ kind = "threats" => job'[k].key = "good"
                      /\ job'[k].typed # "none" => job'[k].typed = job'[k].key
    BY <1>2, Zenon DEF Counted
  <2>1. CASE k = j
    BY <1>2, <2>1
  <2>2. CASE k # j
    BY <1>1, <1>2, <2>2 DEF Counted
  <2> QED BY <2>1, <2>2
<1>5. ASSUME ~raced PROVE Undisturbed'
  <2>1. OneJob /\ DiskIsWhole' /\ CopiesAreWhole(memory') /\ Mine(j)'
    BY <1>1, <1>5 DEF Undisturbed
  <2>2. ASSUME NEW k \in DOMAIN job, k # j
        PROVE  job'[k].pc \in Stopped
    <3>1. ~Running(k)
      BY <2>1, <2>2 DEF OneJob
    <3> QED BY <1>2, <2>2, <3>1 DEF Running, Stopped
  <2>3. OneJob'
    BY <1>2, <2>2 DEF OneJob, Running, Stopped
  <2>4. ASSUME NEW k \in DOMAIN job' PROVE Mine(k)'
    <3>1. CASE k = j
      BY <2>1, <3>1
    <3>2. CASE k # j
      BY <1>2, <2>2, <3>2 DEF Mine, Fetching, Stopped
    <3> QED BY <3>1, <3>2
  <2>5. current' => NoJob' /\ memory' = Loaded'
    <3>1. current' => r.pc \in Stopped /\ memory' = Loaded'
      BY <1>1, <1>5
    <3>2. r.pc \in Stopped => NoJob'
      BY <1>2, <2>2 DEF NoJob, Running, Stopped
    <3> QED BY <3>1, <3>2
  <2> QED BY <2>1, <2>3, <2>4, <2>5 DEF Undisturbed
<1>6. Undisturbed'
  BY <1>5 DEF Undisturbed
<1> QED BY <1>3, <1>4, <1>6 DEF AgentInv

LEMMA AgentStarts == SetupInit => AgentInv
<1> SUFFICES ASSUME SetupInit PROVE AgentInv
  OBVIOUS
<1>1. job = <<>> /\ Len(job) = 0 /\ DOMAIN job = {} /\ job \in Seq(Jobs)
  BY DEF SetupInit
<1>2. Nothing \in Copies /\ Nothing.of = 0
  BY SetupAssumption DEF Nothing, Copies
<1>3. \A i \in Item : part[i] = 0 /\ dest[i] = 0 /\ memory[i] = Nothing
  BY DEF SetupInit
<1>4. Typed
  <2>1. part \in [Item -> 0..Len(job)] /\ dest \in [Item -> 0..Len(job)]
    BY <1>1 DEF SetupInit
  <2>2. body \in [Item -> [JobId -> SUBSET Whole]] /\ memory \in [Item -> Copies]
    BY <1>2 DEF SetupInit
  <2>3. /\ kind \in {"geoip", "threats"} /\ config \in {"good", "none", "torn"}
        /\ up \in BOOLEAN /\ raced \in BOOLEAN /\ current \in BOOLEAN
    BY DEF SetupInit
  <2>4. Len(job) <= MaxJobs
    BY <1>1, SetupAssumption
  <2> QED BY <1>1, <2>1, <2>2, <2>3, <2>4 DEF Typed
<1>5. Counted /\ OneJob /\ NoJob /\ \A j \in DOMAIN job : Mine(j)
  BY <1>1 DEF Counted, OneJob, NoJob
<1>6. DiskIsWhole /\ CopiesAreWhole(memory)
  BY <1>2, <1>3 DEF DiskIsWhole, CopiesAreWhole
<1> QED BY <1>4, <1>5, <1>6 DEF AgentInv, Undisturbed, SetupInit

(* A failure, and the end of a file: the next one, or the end of the job.  *)
LEMMA AfterIs ==
  ASSUME Typed, NEW j \in DOMAIN job, NEW got \in BOOLEAN
  PROVE  /\ After(j, got) \in Jobs
         /\ After(j, got).pc \in {"fetch", "load", "error"}
         /\ After(j, got).wrote = 0
         /\ After(j, got).pc = "fetch" => After(j, got).item = job[j].item + 1
         /\ \/ After(j, got).key = job[j].key /\ After(j, got).typed = job[j].typed
            \/ After(j, got).key = "good" /\ After(j, got).typed = "none"
<1>1. job[j] \in Jobs
  BY JobTyped
<1>2. Items \in Nat \ {0} /\ Pieces \in Nat /\ MaxJobs \in Nat
  BY SetupAssumption
<1>3. Nothing \in Copies
  BY SetupAssumption DEF Nothing, Copies
<1>4. NewJob \in Jobs
  BY <1>2, <1>3 DEF NewJob, Jobs, Item, Key, Fetching
<1>5. /\ Ended("error") \in Jobs /\ Ended("error").pc = "error" /\ Ended("error").wrote = 0
      /\ Ended("error").key = "good" /\ Ended("error").typed = "none"
  BY <1>4 DEF Ended, NewJob, Jobs, Stopped
<1>6. CASE job[j].item < Items
  <2>1. job[j].item + 1 \in Item
    BY <1>1, <1>2, <1>6 DEF Jobs, Item
  <2>2. After(j, got) = [job[j] EXCEPT !.pc = "fetch", !.item = job[j].item + 1,
                                       !.wrote = 0, !.at = 0, !.got = got]
    BY <1>6 DEF After
  <2>3. After(j, got) = [pc |-> "fetch", item |-> job[j].item + 1, wrote |-> 0, at |-> 0,
                         got |-> got, typed |-> job[j].typed, key |-> job[j].key,
                         seen |-> job[j].seen]
    BY <1>1, <2>2 DEF Jobs
  <2>4. 0 \in 0..Pieces /\ 0 \in 0..MaxJobs
    BY <1>2
  <2>5. After(j, got) \in Jobs
    BY <1>1, <2>1, <2>3, <2>4 DEF Jobs, Fetching
  <2> QED BY <2>3, <2>5
<1>7. CASE ~(job[j].item < Items) /\ got
  <2>1. After(j, got) = [job[j] EXCEPT !.pc = "load", !.wrote = 0, !.at = 0]
    BY <1>7 DEF After
  <2>2. After(j, got) = [pc |-> "load", item |-> job[j].item, wrote |-> 0, at |-> 0,
                         got |-> job[j].got, typed |-> job[j].typed, key |-> job[j].key,
                         seen |-> job[j].seen]
    BY <1>1, <2>1 DEF Jobs
  <2>3. 0 \in 0..Pieces /\ 0 \in 0..MaxJobs
    BY <1>2
  <2>4. After(j, got) \in Jobs
    BY <1>1, <2>2, <2>3 DEF Jobs, Accepted
  <2> QED BY <2>2, <2>4
<1>8. CASE ~(job[j].item < Items) /\ ~got
  <2>1. After(j, got) = Ended("error")
    BY <1>8 DEF After
  <2> QED BY <1>5, <2>1
<1> QED BY <1>6, <1>7, <1>8

LEMMA EndedIs ==
  ASSUME NEW pc \in Stopped
  PROVE  /\ Ended(pc) \in Jobs /\ Ended(pc).pc = pc
         /\ Ended(pc).key = "good" /\ Ended(pc).typed = "none"
<1>1. Nothing \in Copies
  BY SetupAssumption DEF Nothing, Copies
<1>2. NewJob \in Jobs
  BY <1>1, SetupAssumption DEF NewJob, Jobs, Item, Key, Fetching
<1> QED BY <1>2 DEF Ended, NewJob, Jobs

(* While a job is under way that overlaps no other, the memory is not      *)
(* known to be that of the disk.                                           *)
LEMMA NotCurrent ==
  ASSUME AgentInv, up, NEW j \in DOMAIN job, Running(j), ~raced
  PROVE  /\ ~current /\ Mine(j) /\ DiskIsWhole /\ CopiesAreWhole(memory)
         /\ part \in [Item -> 0..Len(job)] /\ dest \in [Item -> 0..Len(job)]
BY DEF AgentInv, Undisturbed, NoJob, Typed

LEMMA CountedOf ==
  ASSUME AgentInv, NEW j \in DOMAIN job
  PROVE  /\ job[j] \in Jobs /\ j \in 1..Len(job) /\ Len(job) \in Nat
         /\ 1..Len(job) \subseteq JobId
         /\ job[j].pc = "fetch" => job[j].wrote = 0
         /\ job[j].pc = "write" => job[j].wrote < Pieces
         /\ job[j].pc \in Accepted \/ kind = "threats" => job[j].key = "good"
         /\ job[j].typed # "none" => job[j].typed = job[j].key
<1>1. Typed /\ Counted
  BY DEF AgentInv
<1> QED BY <1>1, JobTyped DEF Counted

-----------------------------------------------------------------------------
(* One lemma per step of a job.                                            *)
LEMMA FailsStep ==
  ASSUME AgentInv, up, NEW j \in DOMAIN job, Fails(j) PROVE AgentInv'
<1>1. /\ job[j].pc \in Fetching
      /\ UNCHANGED <<kind, part, dest, body, memory, config, up, raced, current>>
  BY DEF Fails, Fetching, disk
<1>2. Typed /\ job[j] \in Jobs /\ Running(j)
  BY <1>1, CountedOf, RunningIs DEF AgentInv, Fetching, Stopped
<1> DEFINE r == IF kind = "geoip" THEN Ended("error") ELSE After(j, job[j].got)
<1>3. job' = [job EXCEPT ![j] = r]
  BY DEF Fails
<1>4. /\ r \in Jobs /\ r.pc \in {"fetch", "load", "error"}
      /\ r.pc = "fetch" => r.wrote = 0 /\ r.item = job[j].item + 1
      /\ r.pc \in Accepted \/ kind = "threats" => r.key = "good"
      /\ r.typed # "none" => r.typed = r.key
  <2>1. CASE kind = "geoip"
    <3>1. "error" \in Stopped /\ r = Ended("error")
      BY <2>1 DEF Stopped
    <3> HIDE DEF r
    <3> QED BY <2>1, <3>1, EndedIs
  <2>2. CASE kind # "geoip"
    <3>1. r = After(j, job[j].got) /\ job[j].got \in BOOLEAN
      BY <1>2, <2>2 DEF Jobs
    <3>2. kind = "threats" /\ job[j].key = "good"
      BY <1>2, <2>2, CountedOf DEF Typed
    <3> HIDE DEF r
    <3>3. /\ r \in Jobs /\ r.pc \in {"fetch", "load", "error"} /\ r.wrote = 0
          /\ r.pc = "fetch" => r.item = job[j].item + 1
          /\ \/ r.key = job[j].key /\ r.typed = job[j].typed
             \/ r.key = "good" /\ r.typed = "none"
      BY <1>2, <3>1, AfterIs
    <3>4. job[j].typed # "none" => job[j].typed = job[j].key
      BY CountedOf
    <3> QED BY <3>2, <3>3, <3>4
  <2> QED BY <2>1, <2>2
<1> HIDE DEF r
<1>5. ASSUME ~raced
      PROVE  /\ Mine(j)' /\ DiskIsWhole' /\ CopiesAreWhole(memory')
             /\ current' => r.pc \in Stopped /\ memory' = Loaded'
  <2>1. ~current /\ Mine(j) /\ DiskIsWhole /\ CopiesAreWhole(memory)
    BY <1>2, <1>5, NotCurrent
  <2>2. job'[j] = r
    BY <1>2, <1>3, <1>4, JobKept
  <2>3. r.pc \in Fetching => \A k \in Item : k >= r.item => dest[k] # j
    <3> SUFFICES ASSUME r.pc \in Fetching, NEW k \in Item, k >= r.item PROVE dest[k] # j
      OBVIOUS
    <3>1. r.item = job[j].item + 1
      BY <1>4 DEF Fetching
    <3>2. k >= job[j].item
      BY <1>2, <3>1, SetupAssumption DEF Jobs, Item
    <3> QED BY <1>1, <2>1, <3>2 DEF Mine
  <2>4. Mine(j)'
    BY <1>1, <1>4, <2>2, <2>3 DEF Mine
  <2> QED BY <1>1, <2>1, <2>4 DEF DiskIsWhole, CopiesAreWhole
<1>6. r.pc # "write"
  BY <1>4
<1>7. /\ part' \in [Item -> 0..Len(job)] /\ dest' \in [Item -> 0..Len(job)]
      /\ body' \in [Item -> [JobId -> SUBSET Whole]] /\ memory' \in [Item -> Copies]
      /\ config' \in {"good", "none", "torn"} /\ current' \in BOOLEAN
  BY <1>1, <1>2 DEF Typed
<1> QED BY <1>1, <1>2, <1>3, <1>4, <1>5, <1>6, <1>7, StepOfOne

LEMMA CreateStep ==
  ASSUME AgentInv, up, NEW j \in DOMAIN job, Create(j) PROVE AgentInv'
<1> DEFINE i == job[j].item
           of == IF part[i] = 0 THEN j ELSE part[i]
           r == [job[j] EXCEPT !.pc = "write", !.at = of]
<1>1. /\ job[j].pc = "fetch" /\ job[j].key = "good"
      /\ part' = [part EXCEPT ![i] = of] /\ body' = [body EXCEPT ![i][of] = {}]
      /\ UNCHANGED <<kind, dest, memory, config, up, raced, current>>
  BY DEF Create
<1>2. /\ Typed /\ job[j] \in Jobs /\ Running(j) /\ i \in Item
      /\ j \in 1..Len(job) /\ Len(job) \in Nat /\ 1..Len(job) \subseteq JobId
      /\ job[j].wrote = 0
  BY <1>1, CountedOf, RunningIs DEF AgentInv, Stopped, Jobs
<1>3. job' = [job EXCEPT ![j] = r]
  BY <1>2, Zenon DEF Create
<1>4. of \in 1..Len(job) /\ of # 0 /\ of \in 0..MaxJobs /\ of \in 0..Len(job)
  <2>1. part[i] \in 0..Len(job) /\ Len(job) <= MaxJobs
    BY <1>2 DEF Typed
  <2> QED BY <1>2, <2>1, SetupAssumption
<1>5. /\ r \in Jobs /\ r.pc = "write" /\ r.at = of /\ r.item = i /\ r.wrote = 0
      /\ r.key = "good" /\ r.typed = job[j].typed
  BY <1>1, <1>2, <1>4 DEF Jobs, Accepted, Fetching
<1> HIDE DEF r
<1>6. part'[i] = of /\ \A k \in Item : k # i => part'[k] = part[k]
  BY <1>1, <1>2 DEF Typed
<1>7. /\ body'[i][of] = {} /\ \A k \in JobId : k # of => body'[i][k] = body[i][k]
      /\ \A k \in Item : k # i => body'[k] = body[k]
  BY <1>1, <1>2, <1>4 DEF Typed
<1>8. ASSUME ~raced
      PROVE  /\ Mine(j)' /\ DiskIsWhole' /\ CopiesAreWhole(memory')
             /\ current' => r.pc \in Stopped /\ memory' = Loaded'
  <2>1. /\ ~current /\ Mine(j) /\ DiskIsWhole /\ CopiesAreWhole(memory)
        /\ dest \in [Item -> 0..Len(job)]
    BY <1>2, <1>8, NotCurrent
  <2>2. job'[j] = r
    BY <1>2, <1>3, <1>5, JobKept
  <2>3. \A k \in Item : k >= i => dest[k] # j
    BY <1>1, <2>1 DEF Mine, Fetching
  <2>4. {} = 1..0
    OBVIOUS
  <2>5. Mine(j)'
    <3> HIDE DEF i, of
    <3> QED BY <1>1, <1>4, <1>5, <1>6, <1>7, <2>2, <2>3, <2>4 DEF Mine
  <2>6. dest[i] # of
    <3>1. i >= i
      BY <1>2, SetupAssumption DEF Item
    <3> QED BY <1>2, <2>1, <2>3, <3>1 DEF DiskIsWhole
  <2>7. DiskIsWhole'
    <3> SUFFICES ASSUME NEW k \in Item
                 PROVE  /\ part'[k] # 0 => part'[k] # dest[k]
                        /\ dest[k] # 0 => body'[k][dest[k]] = Whole
      BY <1>1 DEF DiskIsWhole, Whole
    <3>1. CASE k # i
      BY <1>6, <1>7, <2>1, <3>1 DEF DiskIsWhole
    <3>2. CASE k = i
      <4>1. dest[i] # 0 => dest[i] \in JobId /\ body[i][dest[i]] = Whole
        BY <1>2, <2>1 DEF DiskIsWhole
      <4> HIDE DEF of
      <4> QED BY <1>6, <1>7, <2>6, <3>2, <4>1
    <3> QED BY <3>1, <3>2
  <2> QED BY <1>1, <2>1, <2>5, <2>7 DEF CopiesAreWhole
<1>9. /\ part' \in [Item -> 0..Len(job)] /\ dest' \in [Item -> 0..Len(job)]
      /\ body' \in [Item -> [JobId -> SUBSET Whole]] /\ memory' \in [Item -> Copies]
      /\ config' \in {"good", "none", "torn"} /\ current' \in BOOLEAN
  BY <1>1, <1>2, <1>4 DEF Typed
<1>10. job[j].typed # "none" => job[j].typed = "good"
  BY <1>1, CountedOf
<1>11. /\ r.pc = "fetch" => r.wrote = 0
       /\ r.pc = "write" => r.wrote < Pieces
  BY <1>5, SetupAssumption
<1> HIDE DEF i, of
<1> QED BY <1>1, <1>2, <1>3, <1>5, <1>8, <1>9, <1>10, <1>11, StepOfOne

LEMMA WritePieceStep ==
  ASSUME AgentInv, up, NEW j \in DOMAIN job, WritePiece(j) PROVE AgentInv'
<1> DEFINE i == job[j].item
           a == job[j].at
           n == job[j].wrote + 1
           pc == IF n = Pieces THEN "rename" ELSE "write"
           r == [job[j] EXCEPT !.wrote = n, !.pc = pc]
<1>1. /\ job[j].pc = "write"
      /\ body' = [body EXCEPT ![i][a] = @ \cup {n}]
      /\ UNCHANGED <<kind, part, dest, memory, config, up, raced, current>>
  BY DEF WritePiece
<1>2. /\ Typed /\ job[j] \in Jobs /\ Running(j) /\ i \in Item /\ a \in 0..MaxJobs
      /\ Len(job) \in Nat /\ 1..Len(job) \subseteq JobId
      /\ job[j].wrote \in 0..Pieces /\ job[j].wrote < Pieces
      /\ job[j].key = "good"
      /\ job[j].typed # "none" => job[j].typed = "good"
  BY <1>1, CountedOf, RunningIs DEF AgentInv, Stopped, Accepted, Jobs
<1>3. job' = [job EXCEPT ![j] = r]
  BY <1>2, Zenon DEF WritePiece
<1>4. n \in Whole /\ n \in 0..Pieces /\ (n # Pieces => n < Pieces)
  BY <1>2, SetupAssumption DEF Whole
<1>5. /\ r \in Jobs /\ r.pc = pc /\ r.at = a /\ r.item = i /\ r.wrote = n
      /\ r.key = job[j].key /\ r.typed = job[j].typed
  BY <1>2, <1>4 DEF Jobs, Accepted, Fetching
<1> HIDE DEF r
<1>6. /\ \A k \in Item : k # i => body'[k] = body[k]
      /\ \A k \in JobId : k # a => body'[i][k] = body[i][k]
      /\ a \in JobId => body'[i][a] = body[i][a] \cup {n}
      /\ body' \in [Item -> [JobId -> SUBSET Whole]]
  <2> DEFINE b == [body[i] EXCEPT ![a] = @ \cup {n}]
  <2>1. body[i] \in [JobId -> SUBSET Whole] /\ body \in [Item -> [JobId -> SUBSET Whole]]
    BY <1>2 DEF Typed
  <2>2. /\ b \in [JobId -> SUBSET Whole]
        /\ \A k \in JobId : k # a => b[k] = body[i][k]
        /\ a \in JobId => b[a] = body[i][a] \cup {n}
    <3> HIDE DEF i, a, n
    <3> QED BY <1>4, <2>1
  <2>3. body' = [body EXCEPT ![i] = b]
    BY <1>1
  <2> HIDE DEF b, i, a, n
  <2> QED BY <1>2, <2>1, <2>2, <2>3
<1>7. ASSUME ~raced
      PROVE  /\ Mine(j)' /\ DiskIsWhole' /\ CopiesAreWhole(memory')
             /\ current' => r.pc \in Stopped /\ memory' = Loaded'
  <2>1. /\ ~current /\ Mine(j) /\ DiskIsWhole /\ CopiesAreWhole(memory)
        /\ part \in [Item -> 0..Len(job)] /\ dest \in [Item -> 0..Len(job)]
    BY <1>2, <1>7, NotCurrent
  <2>2. job'[j] = r
    BY <1>2, <1>3, <1>5, JobKept
  <2>3. /\ \A k \in Item : k >= i => dest[k] # j
        /\ part[i] # 0 /\ a = part[i] /\ body[i][a] = 1..job[j].wrote
    BY <1>1, <2>1 DEF Mine, Fetching
  <2>4. a \in JobId
    BY <1>2, <2>1, <2>3
  <2>5. body'[i][a] = 1..n
    <3>1. (1..job[j].wrote) \cup {n} = 1..n
      BY <1>2
    <3> QED BY <1>6, <2>3, <2>4, <3>1
  <2>6. Mine(j)'
    <3>1. n = Pieces => 1..n = Whole
      BY DEF Whole
    <3>2. pc = "rename" => n = Pieces
      OBVIOUS
    <3>3. pc \in {"rename", "write"}
      OBVIOUS
    <3> HIDE DEF i, a, n, pc
    <3>4. Whole' = Whole
      BY DEF Whole
    <3> QED BY <1>1, <1>5, <2>2, <2>3, <2>5, <3>1, <3>2, <3>3, <3>4 DEF Mine
  <2>7. DiskIsWhole'
    <3> SUFFICES ASSUME NEW k \in Item
                 PROVE  /\ part[k] # 0 => part[k] # dest[k]
                        /\ dest[k] # 0 => body'[k][dest[k]] = Whole
      BY <1>1 DEF DiskIsWhole, Whole
    <3>1. CASE k # i
      BY <1>6, <2>1, <3>1 DEF DiskIsWhole
    <3>2. CASE k = i
      <4>1. /\ dest[i] # 0 => dest[i] \in JobId /\ body[i][dest[i]] = Whole
            /\ part[i] # 0 => part[i] # dest[i]
        BY <1>2, <2>1 DEF DiskIsWhole
      <4> HIDE DEF i, a, n
      <4> QED BY <1>6, <2>3, <3>2, <4>1
    <3> QED BY <3>1, <3>2
  <2> QED BY <1>1, <2>1, <2>6, <2>7 DEF CopiesAreWhole
<1>8. /\ part' \in [Item -> 0..Len(job)] /\ dest' \in [Item -> 0..Len(job)]
      /\ memory' \in [Item -> Copies]
      /\ config' \in {"good", "none", "torn"} /\ current' \in BOOLEAN
  BY <1>1, <1>2 DEF Typed
<1>9. /\ r.pc # "fetch"
      /\ r.pc = "write" => r.wrote < Pieces
  BY <1>4, <1>5
<1> HIDE DEF i, a, n, pc
<1>10. r \in Jobs /\ r.key = "good" /\ (r.typed # "none" => r.typed = r.key)
  BY <1>2, <1>5
<1>11. Running(j) /\ UNCHANGED <<kind, up, raced>>
  BY <1>1, <1>2
<1>12. body' \in [Item -> [JobId -> SUBSET Whole]]
  BY <1>6
<1> QED BY <1>3, <1>7, <1>8, <1>9, <1>10, <1>11, <1>12, StepOfOne

LEMMA RenameStep ==
  ASSUME AgentInv, up, NEW j \in DOMAIN job, Rename(j) PROVE AgentInv'
<1> DEFINE i == job[j].item
           r == After(j, TRUE)
<1>1. /\ job[j].pc = "rename" /\ part[i] # 0
      /\ dest' = [dest EXCEPT ![i] = part[i]] /\ part' = [part EXCEPT ![i] = 0]
      /\ job' = [job EXCEPT ![j] = r]
      /\ UNCHANGED <<kind, body, memory, config, up, raced, current>>
  BY DEF Rename
<1>2. /\ Typed /\ job[j] \in Jobs /\ Running(j) /\ i \in Item
      /\ Len(job) \in Nat /\ job[j].key = "good"
      /\ job[j].typed # "none" => job[j].typed = "good"
  BY <1>1, CountedOf, RunningIs DEF AgentInv, Stopped, Accepted, Jobs
<1>3. /\ r \in Jobs /\ r.pc \in {"fetch", "load", "error"} /\ r.wrote = 0
      /\ r.pc = "fetch" => r.item = i + 1
      /\ \/ r.key = job[j].key /\ r.typed = job[j].typed
         \/ r.key = "good" /\ r.typed = "none"
  BY <1>2, AfterIs
<1> HIDE DEF r
<1>4. /\ part'[i] = 0 /\ \A k \in Item : k # i => part'[k] = part[k]
      /\ dest'[i] = part[i] /\ \A k \in Item : k # i => dest'[k] = dest[k]
      /\ part' \in [Item -> 0..Len(job)] /\ dest' \in [Item -> 0..Len(job)]
  <2>1. part \in [Item -> 0..Len(job)] /\ dest \in [Item -> 0..Len(job)] /\ 0 \in 0..Len(job)
    BY <1>2 DEF Typed
  <2> HIDE DEF i
  <2> QED BY <1>1, <1>2, <2>1
<1>5. ASSUME ~raced
      PROVE  /\ Mine(j)' /\ DiskIsWhole' /\ CopiesAreWhole(memory')
             /\ current' => r.pc \in Stopped /\ memory' = Loaded'
  <2>1. ~current /\ Mine(j) /\ DiskIsWhole /\ CopiesAreWhole(memory)
    BY <1>2, <1>5, NotCurrent
  <2>2. job'[j] = r
    BY <1>1, <1>2, <1>3, JobKept
  <2>3. /\ \A k \in Item : k >= i => dest[k] # j
        /\ body[i][part[i]] = Whole
    BY <1>1, <2>1 DEF Mine, Fetching
  <2>4. r.pc = "fetch" => \A k \in Item : k >= r.item => dest'[k] # j
    <3> SUFFICES ASSUME r.pc = "fetch", NEW k \in Item, k >= r.item PROVE dest'[k] # j
      OBVIOUS
    <3>1. r.item = i + 1
      BY <1>3
    <3>2. k >= i /\ k # i
      BY <1>2, <3>1, SetupAssumption DEF Item
    <3> QED BY <1>4, <2>3, <3>2
  <2>5. Mine(j)'
    BY <1>3, <2>2, <2>4 DEF Mine, Fetching
  <2>6. DiskIsWhole'
    <3> SUFFICES ASSUME NEW k \in Item
                 PROVE  /\ part'[k] # 0 => part'[k] # dest'[k]
                        /\ dest'[k] # 0 => body[k][dest'[k]] = Whole
      BY <1>1 DEF DiskIsWhole, Whole
    <3>1. CASE k # i
      BY <1>4, <2>1, <3>1 DEF DiskIsWhole
    <3>2. CASE k = i
      BY <1>4, <2>3, <3>2
    <3> QED BY <3>1, <3>2
  <2> QED BY <1>1, <2>1, <2>5, <2>6 DEF CopiesAreWhole
<1>6. /\ body' \in [Item -> [JobId -> SUBSET Whole]] /\ memory' \in [Item -> Copies]
      /\ config' \in {"good", "none", "torn"} /\ current' \in BOOLEAN
  BY <1>1, <1>2 DEF Typed
<1>7. /\ r.pc # "write" /\ r.key = "good"
      /\ r.typed # "none" => r.typed = r.key
  BY <1>2, <1>3
<1> HIDE DEF i
<1> QED BY <1>1, <1>2, <1>3, <1>4, <1>5, <1>6, <1>7, StepOfOne

LEMMA LoadStep ==
  ASSUME AgentInv, up, NEW j \in DOMAIN job, Load(j) PROVE AgentInv'
<1> DEFINE r == [job[j] EXCEPT !.pc = "swap", !.seen = Loaded]
<1>1. /\ job[j].pc = "load"
      /\ UNCHANGED <<kind, part, dest, body, memory, config, up, raced, current>>
  BY DEF Load, disk
<1>2. /\ Typed /\ job[j] \in Jobs /\ Running(j) /\ Loaded \in [Item -> Copies]
      /\ job[j].key = "good"
      /\ job[j].typed # "none" => job[j].typed = "good"
  BY <1>1, CountedOf, RunningIs, LoadedTyped DEF AgentInv, Stopped, Accepted
<1>3. job' = [job EXCEPT ![j] = r]
  BY <1>2, Zenon DEF Load
<1>4. /\ r \in Jobs /\ r.pc = "swap" /\ r.seen = Loaded
      /\ r.key = "good" /\ (r.typed # "none" => r.typed = r.key)
  BY <1>2 DEF Jobs, Accepted, Fetching
<1> HIDE DEF r
<1>5. ASSUME ~raced
      PROVE  /\ Mine(j)' /\ DiskIsWhole' /\ CopiesAreWhole(memory')
             /\ current' => r.pc \in Stopped /\ memory' = Loaded'
  <2>1. ~current /\ DiskIsWhole /\ CopiesAreWhole(memory)
    BY <1>2, <1>5, NotCurrent
  <2>2. job'[j] = r
    BY <1>2, <1>3, <1>4, JobKept
  <2>3. Loaded' = Loaded
    BY <1>1, LoadedKept
  <2>4. Mine(j)'
    BY <1>4, <2>2, <2>3 DEF Mine, Fetching
  <2> QED BY <1>1, <2>1, <2>4 DEF DiskIsWhole, CopiesAreWhole
<1>6. /\ part' \in [Item -> 0..Len(job)] /\ dest' \in [Item -> 0..Len(job)]
      /\ body' \in [Item -> [JobId -> SUBSET Whole]] /\ memory' \in [Item -> Copies]
      /\ config' \in {"good", "none", "torn"} /\ current' \in BOOLEAN
  BY <1>1, <1>2 DEF Typed
<1> QED BY <1>1, <1>2, <1>3, <1>4, <1>5, <1>6, StepOfOne

(* The end of a job: with the memory that of the disk, or as before.       *)
LEMMA JobEnds ==
  ASSUME AgentInv, up, NEW j \in DOMAIN job, Running(j), End(j, "ok"),
         UNCHANGED <<kind, part, dest, body, up, raced>>,
         memory' \in [Item -> Copies], current' \in BOOLEAN,
         config' \in {"good", "none", "torn"},
         Mine(j) /\ DiskIsWhole /\ CopiesAreWhole(memory) /\ ~current /\ ~raced =>
           CopiesAreWhole(memory') /\ (current' => memory' = Loaded)
  PROVE  AgentInv'
<1> DEFINE r == Ended("ok")
<1>1. "ok" \in Stopped
  BY DEF Stopped
<1>2. /\ r \in Jobs /\ r.pc = "ok" /\ r.key = "good" /\ r.typed = "none"
  BY <1>1, EndedIs
<1>3. job' = [job EXCEPT ![j] = r]
  BY DEF End
<1> HIDE DEF r
<1>4. Typed
  BY DEF AgentInv
<1>5. ASSUME ~raced
      PROVE  /\ Mine(j)' /\ DiskIsWhole' /\ CopiesAreWhole(memory')
             /\ current' => r.pc \in Stopped /\ memory' = Loaded'
  <2>1. ~current /\ Mine(j) /\ DiskIsWhole /\ CopiesAreWhole(memory)
    BY <1>5, NotCurrent
  <2>2. job'[j] = r
    BY <1>2, <1>3, <1>4, JobKept
  <2>3. Loaded' = Loaded
    BY LoadedKept
  <2>4. Mine(j)'
    BY <1>2, <2>2 DEF Mine, Fetching
  <2>5. DiskIsWhole'
    BY <2>1 DEF DiskIsWhole, Whole
  <2> QED BY <1>1, <1>2, <1>5, <2>1, <2>3, <2>4, <2>5
<1>6. /\ part' \in [Item -> 0..Len(job)] /\ dest' \in [Item -> 0..Len(job)]
      /\ body' \in [Item -> [JobId -> SUBSET Whole]]
  BY <1>4 DEF Typed
<1> QED BY <1>2, <1>3, <1>5, <1>6, StepOfOne

LEMMA SwapStep ==
  ASSUME AgentInv, up, NEW j \in DOMAIN job, Swap(j) PROVE AgentInv'
<1>1. /\ job[j].pc = "swap" /\ memory' = job[j].seen
      /\ UNCHANGED <<kind, part, dest, body, up, raced>>
  BY DEF Swap, disk
<1>2. /\ Typed /\ job[j] \in Jobs /\ Running(j) /\ job[j].seen \in [Item -> Copies]
      /\ job[j].key = "good"
      /\ job[j].typed # "none" => job[j].typed = "good"
  BY <1>1, CountedOf, RunningIs DEF AgentInv, Stopped, Accepted, Jobs
<1>3. ASSUME Mine(j), DiskIsWhole
      PROVE  memory' = Loaded /\ CopiesAreWhole(memory')
  <2>1. memory' = Loaded
    BY <1>1, <1>3 DEF Mine
  <2> QED BY <1>3, <2>1, LoadedWhole
<1>4. CASE End(j, "ok") /\ current' = TRUE /\ UNCHANGED config
  <2>1. config' \in {"good", "none", "torn"}
    BY <1>2, <1>4 DEF Typed
  <2> QED BY <1>1, <1>2, <1>3, <1>4, <2>1, JobEnds
<1>5. CASE job[j].typed # "none" /\ Become(j, "save") /\ config' = "torn" /\ UNCHANGED current
  <2> DEFINE r == [job[j] EXCEPT !.pc = "save"]
  <2>1. /\ job' = [job EXCEPT ![j] = r] /\ config' = "torn" /\ current' = current
    BY <1>5, Zenon DEF Become
  <2>2. /\ r \in Jobs /\ r.pc = "save" /\ r.key = "good"
        /\ r.typed # "none" => r.typed = r.key
    BY <1>2 DEF Jobs, Accepted, Fetching
  <2> HIDE DEF r
  <2>3. ASSUME ~raced
        PROVE  /\ Mine(j)' /\ DiskIsWhole' /\ CopiesAreWhole(memory')
               /\ current' => r.pc \in Stopped /\ memory' = Loaded'
    <3>1. ~current /\ Mine(j) /\ DiskIsWhole
      BY <1>2, <2>3, NotCurrent
    <3>2. job'[j] = r
      BY <1>2, <2>1, <2>2, JobKept
    <3>3. Loaded' = Loaded /\ memory' = Loaded
      BY <1>1, <1>3, <3>1, LoadedKept
    <3>4. Mine(j)'
      BY <2>2, <3>2, <3>3 DEF Mine, Fetching
    <3>5. DiskIsWhole'
      BY <1>1, <3>1 DEF DiskIsWhole, Whole
    <3> QED BY <1>3, <2>1, <3>1, <3>4, <3>5
  <2>4. /\ part' \in [Item -> 0..Len(job)] /\ dest' \in [Item -> 0..Len(job)]
        /\ body' \in [Item -> [JobId -> SUBSET Whole]] /\ memory' \in [Item -> Copies]
        /\ config' \in {"good", "none", "torn"} /\ current' \in BOOLEAN
    BY <1>1, <1>2, <2>1 DEF Typed
  <2> QED BY <1>1, <1>2, <2>1, <2>2, <2>3, <2>4, StepOfOne
<1> QED BY <1>4, <1>5, Zenon DEF Swap

LEMMA SaveStep ==
  ASSUME AgentInv, up, NEW j \in DOMAIN job, Save(j) PROVE AgentInv'
<1>1. /\ job[j].pc = "save" /\ config' \in {job[j].typed, config} /\ End(j, "ok") /\ current' = TRUE
      /\ UNCHANGED <<kind, part, dest, body, memory, up, raced>>
  BY DEF Save, disk
<1>2. /\ Typed /\ Running(j) /\ job[j].key = "good"
      /\ job[j].typed # "none" => job[j].typed = "good"
  BY <1>1, CountedOf, RunningIs DEF AgentInv, Stopped, Accepted
<1>3. config' \in {"good", "none", "torn"} /\ memory' \in [Item -> Copies]
  BY <1>1, <1>2 DEF Typed
<1>4. Mine(j) => memory' = Loaded
  BY <1>1 DEF Mine
<1> QED BY <1>1, <1>2, <1>3, <1>4, JobEnds

LEMMA UnattendedStep ==
  ASSUME AgentInv, up, NEW j \in DOMAIN job, Unattended(j) PROVE AgentInv'
<1>1. /\ job[j].pc = "load" /\ End(j, "ok")
      /\ UNCHANGED <<kind, part, dest, body, memory, config, up, raced, current>>
  BY DEF Unattended, disk
<1>2. Typed /\ Running(j)
  BY <1>1, RunningIs DEF AgentInv, Stopped
<1>3. /\ memory' \in [Item -> Copies] /\ current' \in BOOLEAN
      /\ config' \in {"good", "none", "torn"}
  BY <1>1, <1>2 DEF Typed
<1> QED BY <1>1, <1>2, <1>3, JobEnds

(* A new job has its own body to write, which no file has for its name.    *)
LEMMA StartStep ==
  ASSUME AgentInv, NEW typed \in Key \cup {"none"}, Start(typed) PROVE AgentInv'
<1> DEFINE key == IF kind = "threats" THEN "good" ELSE IF typed = "none" THEN config ELSE typed
           r == [NewJob EXCEPT !.typed = typed, !.key = key]
           n == Len(job) + 1
<1>1. /\ up /\ Len(job) < MaxJobs
      /\ kind = "threats" => typed = "none"
      /\ kind = "geoip" /\ typed = "none" => config \in Key
      /\ job' = Append(job, r) /\ current' = FALSE
      /\ raced' = (raced \/ Active # {})
      /\ UNCHANGED <<kind, part, dest, body, memory, config, up>>
  BY DEF Start, disk
<1>2. /\ Typed /\ Counted /\ Undisturbed
      /\ job \in Seq(Jobs) /\ Len(job) \in Nat /\ DOMAIN job = 1..Len(job)
  BY DEF AgentInv, Typed
<1>3. /\ key \in Key
      /\ kind = "threats" => key = "good"
      /\ typed # "none" => typed = key
  BY <1>1, <1>2 DEF Typed, Key
<1> HIDE DEF key
<1>4. /\ r \in Jobs /\ r.pc = "fetch" /\ r.item = 1 /\ r.wrote = 0
      /\ r.typed = typed /\ r.key = key
  <2>1. Nothing \in Copies
    BY SetupAssumption DEF Nothing, Copies
  <2>2. NewJob \in Jobs
    BY <2>1, SetupAssumption DEF NewJob, Jobs, Item, Key, Fetching
  <2>3. NewJob.pc = "fetch" /\ NewJob.item = 1 /\ NewJob.wrote = 0
    BY DEF NewJob
  <2> QED BY <1>3, <2>2, <2>3 DEF Jobs
<1> HIDE DEF r
<1>5. /\ job' \in Seq(Jobs) /\ Len(job') = n /\ job'[n] = r
      /\ \A k \in 1..Len(job) : job'[k] = job[k]
      /\ DOMAIN job' = 1..n
  <2>1. /\ Append(job, r) \in Seq(Jobs) /\ Len(Append(job, r)) = n
        /\ Append(job, r)[n] = r
        /\ \A k \in 1..Len(job) : Append(job, r)[k] = job[k]
    BY <1>2, <1>4, AppendProperties
  <2> QED BY <1>1, <2>1
<1>6. \A k \in DOMAIN job' : k = n \/ k \in DOMAIN job
  BY <1>2, <1>5
<1>7. Typed'
  <2>1. 0..Len(job) \subseteq 0..n /\ n <= MaxJobs
    BY <1>1, <1>2, SetupAssumption
  <2>2. part' \in [Item -> 0..n] /\ dest' \in [Item -> 0..n]
    <3>1. part \in [Item -> 0..Len(job)] /\ dest \in [Item -> 0..Len(job)]
      BY <1>2 DEF Typed
    <3> HIDE DEF n
    <3> QED BY <1>1, <2>1, <3>1
  <2>3. raced' \in BOOLEAN
    BY <1>1
  <2> HIDE DEF n
  <2> QED BY <1>1, <1>2, <1>5, <2>1, <2>2, <2>3 DEF Typed
<1>8. Counted'
  <2> SUFFICES ASSUME NEW k \in DOMAIN job'
               PROVE  /\ job'[k].pc = "fetch" => job'[k].wrote = 0
                      /\ job'[k].pc = "write" => job'[k].wrote < Pieces
                      /\ job'[k].pc \in Accepted \/ kind = "threats" => job'[k].key = "good"
                      /\ job'[k].typed # "none" => job'[k].typed = job'[k].key
    BY <1>1, Zenon DEF Counted
  <2>1. CASE k = n
    <3> HIDE DEF n
    <3> QED BY <1>3, <1>4, <1>5, <2>1 DEF Accepted
  <2>2. CASE k \in DOMAIN job
    <3>1. job'[k] = job[k]
      BY <1>2, <1>5, <2>2
    <3> QED BY <1>2, <2>2, <3>1 DEF Counted
  <2> QED BY <1>6, <2>1, <2>2
<1>9. ASSUME ~raced'
      PROVE  /\ OneJob' /\ (\A k \in DOMAIN job' : Mine(k)')
             /\ DiskIsWhole' /\ CopiesAreWhole(memory')
  <2>1. ~raced /\ Active = {} /\ DiskIsWhole /\ CopiesAreWhole(memory)
    BY <1>1, <1>2, <1>9 DEF Undisturbed
  <2>2. \A k \in DOMAIN job : job'[k] = job[k] /\ job'[k].pc \in Stopped
    BY <1>2, <1>5, <2>1, RunningIs DEF Active
  <2>3. OneJob'
    BY <1>6, <2>2 DEF OneJob, Running, Stopped
  <2>4. ASSUME NEW k \in DOMAIN job' PROVE Mine(k)'
    <3>1. CASE k = n
      <4>1. \A i \in Item : dest[i] # n
        BY <1>2 DEF Typed
      <4> HIDE DEF n
      <4> QED BY <1>1, <1>4, <1>5, <3>1, <4>1 DEF Mine
    <3>2. CASE k \in DOMAIN job
      BY <2>2, <3>2 DEF Mine, Fetching, Stopped
    <3> QED BY <1>6, <3>1, <3>2
  <2>5. DiskIsWhole' /\ CopiesAreWhole(memory')
    BY <1>1, <2>1 DEF DiskIsWhole, CopiesAreWhole, Whole
  <2> QED BY <2>3, <2>4, <2>5
<1>10. Undisturbed'
  BY <1>1, <1>9 DEF Undisturbed
<1> QED BY <1>1, <1>7, <1>8, <1>10 DEF AgentInv

(* The process dies, and every job with it; what it wrote stays.           *)
LEMMA DieStep == AgentInv /\ Die => AgentInv' /\ up' = FALSE
<1> SUFFICES ASSUME AgentInv, Die PROVE AgentInv' /\ up' = FALSE
  OBVIOUS
<1>1. /\ up' = FALSE /\ current' = FALSE
      /\ job' = [j \in DOMAIN job |-> IF Running(j) THEN Ended("dead") ELSE job[j]]
      /\ memory' = [i \in Item |-> Nothing]
      /\ UNCHANGED <<kind, part, dest, body, config, raced>>
  BY DEF Die, disk
<1>2. /\ Typed /\ Counted /\ Undisturbed
      /\ job \in Seq(Jobs) /\ Len(job) \in Nat /\ DOMAIN job = 1..Len(job)
  BY DEF AgentInv, Typed
<1>3. /\ Ended("dead") \in Jobs /\ Ended("dead").pc = "dead"
      /\ Ended("dead").key = "good" /\ Ended("dead").typed = "none"
  <2>1. "dead" \in Stopped
    BY DEF Stopped
  <2> QED BY <2>1, EndedIs
<1>4. ASSUME NEW k \in DOMAIN job
      PROVE  \/ job'[k] = Ended("dead")
             \/ job'[k] = job[k] /\ ~Running(k)
  BY <1>1
<1>5. job' \in Seq(Jobs) /\ Len(job') = Len(job) /\ DOMAIN job' = DOMAIN job
  <2>1. \A k \in DOMAIN job : job[k] \in Jobs
    BY <1>2
  <2>2. job' \in [1..Len(job) -> Jobs]
    BY <1>1, <1>2, <1>3, <2>1
  <2>3. job' \in Seq(Jobs)
    BY <1>2, <2>2, SeqDef
  <2>4. DOMAIN job' = 1..Len(job) /\ DOMAIN job' = 1..Len(job') /\ Len(job') \in Nat
    BY <2>2, <2>3
  <2> QED BY <1>2, <2>3, <2>4
<1>6. \A k \in DOMAIN job : job'[k].pc \in Stopped
  BY <1>3, <1>4, RunningIs DEF Stopped
<1>7. Nothing \in Copies /\ Nothing.of = 0
  BY SetupAssumption DEF Nothing, Copies
<1>8. Typed'
  BY <1>1, <1>2, <1>5, <1>7 DEF Typed
<1>9. Counted'
  <2> SUFFICES ASSUME NEW k \in DOMAIN job
               PROVE  /\ job'[k].pc = "fetch" => job'[k].wrote = 0
                      /\ job'[k].pc = "write" => job'[k].wrote < Pieces
                      /\ job'[k].pc \in Accepted \/ kind = "threats" => job'[k].key = "good"
                      /\ job'[k].typed # "none" => job'[k].typed = job'[k].key
    BY <1>1, <1>5, Zenon DEF Counted
  <2>1. CASE job'[k] = Ended("dead")
    BY <1>3, <2>1 DEF Accepted
  <2>2. CASE job'[k] = job[k]
    BY <1>2, <2>2 DEF Counted
  <2> QED BY <1>4, <2>1, <2>2
<1>10. NoJob' /\ OneJob' /\ \A k \in DOMAIN job' : Mine(k)'
  BY <1>5, <1>6 DEF NoJob, OneJob, Mine, Running, Fetching, Stopped
<1>11. CopiesAreWhole(memory')
  BY <1>1, <1>7 DEF CopiesAreWhole
<1>12. ~raced => DiskIsWhole'
  BY <1>1, <1>2 DEF Undisturbed, DiskIsWhole, Whole
<1> QED BY <1>1, <1>8, <1>9, <1>10, <1>11, <1>12 DEF AgentInv, Undisturbed

(* A process that starts holds what is on the disk, and has no job.        *)
LEMMA BootStep == AgentInv /\ ~up /\ Boot => AgentInv' /\ up' = TRUE
<1> SUFFICES ASSUME AgentInv, ~up, Boot PROVE AgentInv' /\ up' = TRUE
  OBVIOUS
<1>1. /\ up' = TRUE /\ current' = TRUE /\ memory' = Loaded
      /\ UNCHANGED <<kind, part, dest, body, job, config, raced>>
  BY DEF Boot, disk
<1>2. Typed /\ Counted /\ Undisturbed /\ NoJob
  BY DEF AgentInv
<1>3. Loaded' = Loaded /\ Loaded \in [Item -> Copies]
  BY <1>1, <1>2, LoadedKept, LoadedTyped
<1>4. Typed' /\ Counted'
  BY <1>1, <1>2, <1>3 DEF Typed, Counted
<1>5. NoJob' /\ OneJob' /\ \A k \in DOMAIN job' : Mine(k)'
  BY <1>1, <1>2 DEF NoJob, OneJob, Mine, Running, Fetching
<1>6. ~raced => DiskIsWhole' /\ CopiesAreWhole(memory')
  <2>1. ~raced => DiskIsWhole
    BY <1>2 DEF Undisturbed
  <2>2. DiskIsWhole => DiskIsWhole'
    BY <1>1 DEF DiskIsWhole, Whole
  <2> QED BY <1>1, <2>1, <2>2, LoadedWhole
<1> QED BY <1>1, <1>3, <1>4, <1>5, <1>6 DEF AgentInv, Undisturbed

LEMMA AgentSteps == AgentInv /\ SetupNext => AgentInv' /\ up' = up
<1> SUFFICES ASSUME AgentInv, SetupNext PROVE AgentInv' /\ up' = up
  OBVIOUS
<1>1. ASSUME NEW typed \in Key \cup {"none"}, Start(typed)
      PROVE  AgentInv' /\ up' = up
  <2>1. up' = up
    BY <1>1 DEF Start
  <2> QED BY <1>1, <2>1, StartStep
<1>2. ASSUME NEW j \in DOMAIN job, Steps(j), up
      PROVE  AgentInv' /\ up' = up
  <2>1. up' = up
    BY <1>2 DEF Steps, Fails, Create, WritePiece, Rename, Load, Swap, Save, Unattended
  <2>2. AgentInv'
    <3>1. CASE Fails(j)
      BY <1>2, <3>1, FailsStep
    <3>2. CASE Create(j)
      BY <1>2, <3>2, CreateStep
    <3>3. CASE WritePiece(j)
      BY <1>2, <3>3, WritePieceStep
    <3>4. CASE Rename(j)
      BY <1>2, <3>4, RenameStep
    <3>5. CASE Load(j)
      BY <1>2, <3>5, LoadStep
    <3>6. CASE Swap(j)
      BY <1>2, <3>6, SwapStep
    <3>7. CASE Save(j)
      BY <1>2, <3>7, SaveStep
    <3>8. CASE Unattended(j)
      BY <1>2, <3>8, UnattendedStep
    <3> QED BY <1>2, <3>1, <3>2, <3>3, <3>4, <3>5, <3>6, <3>7, <3>8 DEF Steps
  <2> QED BY <2>1, <2>2
<1> QED BY <1>1, <1>2 DEF SetupNext

LEMMA AgentStutters == AgentInv /\ UNCHANGED agent => AgentInv'
<1> SUFFICES ASSUME AgentInv, UNCHANGED agent PROVE AgentInv'
  OBVIOUS
<1>1. UNCHANGED <<kind, part, dest, body, job, memory, config, up, raced, current>>
  BY DEF agent, disk
<1>2. Loaded' = Loaded
  BY <1>1, LoadedKept
<1>3. Typed' /\ Counted' /\ NoJob' = NoJob /\ OneJob' = OneJob
  BY <1>1 DEF AgentInv, Typed, Counted, NoJob, OneJob, Running
<1>4. DiskIsWhole' = DiskIsWhole /\ CopiesAreWhole(memory)' = CopiesAreWhole(memory)
  BY <1>1 DEF DiskIsWhole, CopiesAreWhole, Whole
<1>5. \A j \in DOMAIN job : Mine(j)' = Mine(j)
  BY <1>1, <1>2 DEF Mine, Whole
<1>6. Undisturbed'
  BY <1>1, <1>2, <1>3, <1>4, <1>5 DEF AgentInv, Undisturbed
<1> QED BY <1>1, <1>3, <1>6 DEF AgentInv

-----------------------------------------------------------------------------
(* What becomes of the agents when one of them ends.                       *)
LEMMA AgentEnds ==
  ASSUME DesktopInv, NEW n \in DOMAIN sidecars, Ends(n)
  PROVE  /\ AgentInv' /\ sidecars' \in Seq(AgentStages)
         /\ Len(sidecars') = Len(sidecars) /\ DOMAIN sidecars' = DOMAIN sidecars
         /\ sidecars'[n] = "dead"
         /\ \A k \in DOMAIN sidecars : k # n => sidecars'[k] = sidecars[k]
         /\ up' <=> \E k \in DOMAIN sidecars : sidecars'[k] = "serving"
<1>1. AgentInv /\ OneServes
  BY DEF DesktopInv
<1>2. /\ sidecars \in Seq(AgentStages) /\ n \in 1..Len(sidecars)
      /\ DOMAIN sidecars = 1..Len(sidecars) /\ Len(sidecars) \in Nat
  BY <1>1 DEF OneServes
<1>3. "dead" \in AgentStages /\ sidecars' = [sidecars EXCEPT ![n] = "dead"]
  BY DEF Ends, AgentStages
<1>4. /\ sidecars' \in Seq(AgentStages) /\ Len(sidecars') = Len(sidecars)
      /\ DOMAIN sidecars' = DOMAIN sidecars /\ sidecars'[n] = "dead"
      /\ \A k \in DOMAIN sidecars : k # n => sidecars'[k] = sidecars[k]
  BY <1>2, <1>3, ExceptSeq
<1>5. CASE n \in Serving
  <2>1. AgentInv' /\ up' = FALSE
    BY <1>1, <1>5, DieStep DEF Ends
  <2>2. \A k \in DOMAIN sidecars : k # n => sidecars[k] # "serving"
    BY <1>1, <1>5 DEF OneServes, Serving
  <2> QED BY <1>4, <2>1, <2>2
<1>6. CASE n \notin Serving
  <2>1. UNCHANGED agent
    BY <1>6 DEF Ends
  <2>2. AgentInv' /\ up' = up
    BY <1>1, <2>1, AgentStutters DEF agent
  <2>3. sidecars[n] # "serving"
    BY <1>6 DEF Serving
  <2> QED BY <1>1, <1>4, <2>2, <2>3 DEF OneServes
<1> QED BY <1>5, <1>6

LEMMA DesktopStarts == DesktopInit => DesktopInv
<1> SUFFICES ASSUME DesktopInit PROVE DesktopInv
  OBVIOUS
<1>1. AgentInv /\ up = TRUE
  BY AgentStarts DEF DesktopInit, SetupInit
<1>2. sidecars = <<"serving">> /\ handle = 1 /\ lost = {} /\ phase = "running" /\ build = 1 /\ onDisk = 1
  BY DEF DesktopInit
<1>3. "serving" \in AgentStages
  BY DEF AgentStages
<1>4. /\ sidecars \in Seq(AgentStages) /\ Len(sidecars) = 1 /\ DOMAIN sidecars = {1}
      /\ sidecars[1] = "serving"
  BY <1>2, <1>3
<1>5. OneServes
  BY <1>1, <1>2, <1>4, DesktopAssumption DEF OneServes
<1> QED BY <1>1, <1>5 DEF DesktopInv

(* A step that leaves the agents alone: the shell may give up its hold on  *)
(* one that is dead, or that its history lists from now on.                *)
LEMMA AgentsLeftAlone ==
  ASSUME DesktopInv, UNCHANGED <<agent, sidecars>>,
         lost' \subseteq DOMAIN sidecars, lost \subseteq lost',
         phase' \in {"running", "leaving", "gone"}, phase' = "gone" => handle' = 0,
         handle' = handle \/ (handle' = 0 /\ (handle \in Alive => handle \in lost')),
         build' = build /\ onDisk' \in {onDisk, Latest}
  PROVE  DesktopInv'
<1>1. AgentInv' /\ OneServes
  BY AgentStutters DEF DesktopInv
<1>2. up' = up
  BY DEF agent
<1>3. build' \in 1..onDisk' /\ onDisk' \in 1..Latest
  BY <1>1, DesktopAssumption DEF OneServes
<1>4. handle' \in 0..Len(sidecars)
  BY <1>1 DEF OneServes
<1>5. ASSUME NEW n \in DOMAIN sidecars, sidecars[n] # "dead"
      PROVE  n = handle' \/ n \in lost'
  <2>1. n = handle \/ n \in lost
    BY <1>1, <1>5 DEF OneServes
  <2>2. n \in Alive
    BY <1>5 DEF Alive
  <2> QED BY <2>1, <2>2
<1>6. OneServes'
  BY <1>1, <1>2, <1>3, <1>4, <1>5 DEF OneServes
<1> QED BY <1>1, <1>6 DEF DesktopInv

(* An agent ends, and the shell may give up its hold on that one.          *)
LEMMA AgentGone ==
  ASSUME DesktopInv, NEW n \in DOMAIN sidecars, Ends(n),
         phase' \in {"running", "leaving", "gone"}, phase' = "gone" => handle' = 0,
         handle' = handle \/ (handle' = 0 /\ n = handle),
         UNCHANGED <<lost, build, onDisk>>
  PROVE  DesktopInv'
<1>1. OneServes
  BY DEF DesktopInv
<1>2. /\ AgentInv' /\ sidecars' \in Seq(AgentStages)
      /\ Len(sidecars') = Len(sidecars) /\ DOMAIN sidecars' = DOMAIN sidecars
      /\ sidecars'[n] = "dead"
      /\ \A k \in DOMAIN sidecars : k # n => sidecars'[k] = sidecars[k]
      /\ up' <=> \E k \in DOMAIN sidecars : sidecars'[k] = "serving"
  BY AgentEnds
<1>3. handle' \in 0..Len(sidecars)
  BY <1>1 DEF OneServes
<1>4. ASSUME NEW k \in DOMAIN sidecars, sidecars'[k] # "dead"
      PROVE  k = handle' \/ k \in lost'
  <2>1. k # n /\ sidecars[k] # "dead"
    BY <1>2, <1>4
  <2> QED BY <1>1, <2>1 DEF OneServes
<1>5. ASSUME NEW m \in DOMAIN sidecars, NEW k \in DOMAIN sidecars,
             sidecars'[m] = "serving", sidecars'[k] = "serving"
      PROVE  m = k
  <2>1. sidecars[m] = "serving" /\ sidecars[k] = "serving"
    BY <1>2, <1>5
  <2> QED BY <1>1, <2>1 DEF OneServes
<1>6. OneServes'
  BY <1>1, <1>2, <1>3, <1>4, <1>5 DEF OneServes
<1> QED BY <1>2, <1>6 DEF DesktopInv

(* The shell kills the agent it holds, fails to, or has none to kill.      *)
LEMMA Killed ==
  ASSUME DesktopInv, kill_agent,
         phase' \in {"running", "leaving", "gone"}, UNCHANGED <<build, onDisk>>
  PROVE  DesktopInv'
<1>1. lost \subseteq DOMAIN sidecars /\ Alive \subseteq DOMAIN sidecars /\ handle' = 0
  BY DEF DesktopInv, OneServes, Alive, kill_agent
<1>2. CASE handle \in Alive /\ Ends(handle) /\ UNCHANGED lost
  <2>1. handle \in DOMAIN sidecars /\ Ends(handle)
    BY <1>1, <1>2
  <2> QED BY <1>1, <1>2, <2>1, AgentGone
<1>3. CASE handle \in Alive /\ lost' = lost \cup {handle} /\ UNCHANGED <<sidecars, agent>>
  BY <1>1, <1>3, AgentsLeftAlone
<1>4. CASE handle \notin Alive /\ UNCHANGED <<sidecars, lost, agent>>
  BY <1>1, <1>4, AgentsLeftAlone
<1> QED BY <1>2, <1>3, <1>4 DEF kill_agent

(* A process that follows spawns an agent, which has yet to bind.          *)
LEMMA LaunchStep == DesktopInv /\ Launch => DesktopInv'
<1> SUFFICES ASSUME DesktopInv, Launch PROVE DesktopInv'
  OBVIOUS
<1>1. /\ phase = "gone" /\ Len(sidecars) < MaxLaunches /\ phase' = "running"
      /\ sidecars' = Append(sidecars, "starting") /\ handle' = Len(sidecars) + 1
      /\ build' = onDisk /\ UNCHANGED <<agent, lost, onDisk>>
  BY DEF Launch
<1>2. AgentInv' /\ OneServes /\ up' = up
  BY <1>1, AgentStutters DEF DesktopInv, agent
<1>3. /\ sidecars \in Seq(AgentStages) /\ Len(sidecars) \in Nat
      /\ DOMAIN sidecars = 1..Len(sidecars)
  BY <1>2 DEF OneServes
<1>4. "starting" \in AgentStages
  BY DEF AgentStages
<1>5. /\ sidecars' \in Seq(AgentStages) /\ Len(sidecars') = Len(sidecars) + 1
      /\ DOMAIN sidecars' = 1..(Len(sidecars) + 1)
      /\ sidecars'[Len(sidecars) + 1] = "starting"
      /\ \A n \in 1..Len(sidecars) : sidecars'[n] = sidecars[n]
  BY <1>1, <1>3, <1>4
<1>6. Len(sidecars') \in 1..MaxLaunches
  BY <1>1, <1>3, <1>5, DesktopAssumption
<1>7. build' \in 1..onDisk' /\ onDisk' \in 1..Latest
  BY <1>1, <1>2, DesktopAssumption DEF OneServes
<1>8. ASSUME NEW n \in DOMAIN sidecars', sidecars'[n] # "dead"
      PROVE  n = handle' \/ n \in lost'
  <2>1. CASE n \in 1..Len(sidecars)
    <3>1. n = handle \/ n \in lost
      BY <1>2, <1>3, <1>5, <1>8, <2>1 DEF OneServes
    <3>2. handle = 0
      BY <1>1, <1>2 DEF OneServes
    <3> QED BY <1>1, <2>1, <3>1, <3>2
  <2>2. CASE n \notin 1..Len(sidecars)
    BY <1>1, <1>3, <1>5, <2>2
  <2> QED BY <2>1, <2>2
<1>9. ASSUME NEW n \in DOMAIN sidecars', sidecars'[n] = "serving"
      PROVE  n \in DOMAIN sidecars /\ sidecars[n] = "serving"
  BY <1>3, <1>5, <1>9
<1>10. up' <=> \E n \in DOMAIN sidecars' : sidecars'[n] = "serving"
  <2>1. \A n \in DOMAIN sidecars : n \in DOMAIN sidecars' /\ sidecars'[n] = sidecars[n]
    BY <1>3, <1>5
  <2> QED BY <1>2, <1>9, <2>1 DEF OneServes
<1>11. /\ handle' \in 0..Len(sidecars') /\ lost' \subseteq DOMAIN sidecars'
  BY <1>1, <1>2, <1>3, <1>5 DEF OneServes
<1>12. \A n, k \in DOMAIN sidecars' : sidecars'[n] = "serving" /\ sidecars'[k] = "serving" => n = k
  BY <1>2, <1>9 DEF OneServes
<1>13. OneServes'
  BY <1>1, <1>5, <1>6, <1>7, <1>8, <1>10, <1>11, <1>12 DEF OneServes
<1> QED BY <1>2, <1>13 DEF DesktopInv

(* It binds when nobody serves, and gives way to the one that does.        *)
LEMMA BindStep ==
  ASSUME DesktopInv, NEW n \in DOMAIN sidecars, Bind(n) PROVE DesktopInv'
<1>1. /\ sidecars[n] = "starting"
      /\ UNCHANGED <<phase, handle, lost, build, onDisk>>
  BY DEF Bind
<1>2. AgentInv /\ OneServes
  BY DEF DesktopInv
<1>3. CASE Serving = {}
  <2>1. sidecars' = [sidecars EXCEPT ![n] = "serving"] /\ Boot
    BY <1>3 DEF Bind
  <2>2. \A k \in DOMAIN sidecars : sidecars[k] # "serving"
    BY <1>3 DEF Serving
  <2>3. ~up
    BY <1>2, <2>2 DEF OneServes
  <2>4. AgentInv' /\ up' = TRUE
    BY <1>2, <2>1, <2>3, BootStep
  <2>5. "serving" \in AgentStages /\ sidecars \in Seq(AgentStages) /\ n \in 1..Len(sidecars)
    BY <1>2 DEF AgentStages, OneServes
  <2>6. /\ sidecars' \in Seq(AgentStages) /\ Len(sidecars') = Len(sidecars)
        /\ DOMAIN sidecars' = DOMAIN sidecars /\ sidecars'[n] = "serving"
        /\ \A k \in DOMAIN sidecars : k # n => sidecars'[k] = sidecars[k]
    BY <2>1, <2>5, ExceptSeq
  <2>7. \A k \in DOMAIN sidecars : sidecars'[k] # "dead" => k = handle \/ k \in lost
    BY <1>1, <1>2, <2>6 DEF OneServes
  <2>8. OneServes'
    BY <1>1, <1>2, <2>2, <2>4, <2>6, <2>7 DEF OneServes
  <2> QED BY <2>4, <2>8 DEF DesktopInv
<1>4. CASE Serving # {}
  <2>1. Ends(n)
    BY <1>4 DEF Bind
  <2>2. phase' \in {"running", "leaving", "gone"} /\ (phase' = "gone" => handle' = 0)
    BY <1>1, <1>2 DEF OneServes
  <2> QED BY <1>1, <2>1, <2>2, AgentGone
<1> QED BY <1>3, <1>4

LEMMA DesktopSteps == DesktopInv /\ [DesktopNext]_all => DesktopInv'
<1> SUFFICES ASSUME DesktopInv, [DesktopNext]_all PROVE DesktopInv'
  OBVIOUS
<1>1. AgentInv /\ OneServes /\ lost \subseteq DOMAIN sidecars
  BY DEF DesktopInv, OneServes
<1>2. CASE AgentStep
  <2>1. AgentInv' /\ up' = up /\ UNCHANGED shell
    BY <1>1, <1>2, AgentSteps DEF AgentStep
  <2> QED BY <1>1, <2>1 DEF shell, agents, OneServes, DesktopInv
<1>3. CASE toggle_main
  BY <1>1, <1>3, AgentsLeftAlone DEF toggle_main, agents
<1>4. CASE Quit
  BY <1>4, Killed DEF Quit
<1>5. CASE SystemExit
  BY <1>1, <1>5, AgentsLeftAlone DEF SystemExit, agents
<1>6. CASE ExitRequested
  BY <1>6, Killed DEF ExitRequested
<1>7. CASE ShellDies
  <2>1. /\ phase' = "gone" /\ handle' = 0 /\ lost' = lost \cup ({handle} \cap Alive)
        /\ UNCHANGED <<agent, sidecars, build, onDisk>>
    BY <1>7 DEF ShellDies
  <2>2. lost' \subseteq DOMAIN sidecars /\ lost \subseteq lost' /\ (handle \in Alive => handle \in lost')
    BY <1>1, <2>1 DEF Alive
  <2> QED BY <2>1, <2>2, AgentsLeftAlone
<1>8. CASE Launch
  BY <1>8, LaunchStep
<1>9. ASSUME NEW n \in DOMAIN sidecars, Bind(n) PROVE DesktopInv'
  BY <1>9, BindStep
<1>10. ASSUME NEW n \in DOMAIN sidecars, SidecarDies(n) PROVE DesktopInv'
  <2>1. Ends(n) /\ UNCHANGED <<phase, handle, lost, build, onDisk>>
    BY <1>10 DEF SidecarDies
  <2>2. phase' \in {"running", "leaving", "gone"} /\ (phase' = "gone" => handle' = 0)
    BY <1>1, <2>1 DEF OneServes
  <2> QED BY <2>1, <2>2, AgentGone
<1>11. CASE Wake
  BY <1>1, <1>11, AgentsLeftAlone DEF Wake, agents
<1>12. CASE TryAgain
  BY <1>1, <1>12, AgentsLeftAlone DEF TryAgain, agents
<1>13. CASE Install
  BY <1>1, <1>13, AgentsLeftAlone DEF Install, agents
<1>14. CASE Decide
  <2>1. phase = "running" /\ UNCHANGED <<build, onDisk>>
    BY <1>14 DEF Decide
  <2>2. CASE window = "hidden"
    <3>1. kill_agent /\ phase' = "leaving"
      BY <1>14, <2>2 DEF Decide
    <3> QED BY <2>1, <3>1, Killed
  <2>3. CASE window # "hidden"
    <3>1. UNCHANGED <<agent, sidecars, handle, lost, phase>>
      BY <1>14, <2>3 DEF Decide, agents
    <3> QED BY <1>1, <2>1, <3>1, AgentsLeftAlone
  <2> QED BY <2>2, <2>3
<1>15. CASE UNCHANGED all
  <2>1. UNCHANGED agent /\ UNCHANGED shell
    BY <1>15 DEF all
  <2>2. AgentInv' /\ up' = up
    BY <1>1, <2>1, AgentStutters DEF agent
  <2> QED BY <1>1, <2>1, <2>2 DEF shell, agents, OneServes, DesktopInv
<1> QED BY <1>2, <1>3, <1>4, <1>5, <1>6, <1>7, <1>8, <1>9, <1>10, <1>11, <1>12, <1>13, <1>14, <1>15
        DEF DesktopNext

(* What the runs check is part of it.                                      *)
LEMMA DesktopInvImplies == DesktopInv => KeptIsRight /\ NoStrayAgent
<1> SUFFICES ASSUME DesktopInv PROVE KeptIsRight /\ NoStrayAgent
  OBVIOUS
<1>1. Typed /\ Undisturbed /\ OneServes
  BY DEF DesktopInv, AgentInv
<1>2. DesktopTypes
  <2>1. /\ Len(job) \in Nat /\ DOMAIN job = 1..Len(job)
        /\ part \in [Item -> 0..Len(job)] /\ dest \in [Item -> 0..Len(job)]
    BY <1>1 DEF Typed
  <2>2. \A i \in Item : part[i] \in {0} \cup DOMAIN job /\ dest[i] \in {0} \cup DOMAIN job
    BY <2>1
  <2>3. \A j \in DOMAIN job : job[j].item \in Item /\ job[j].wrote \in 0..Pieces
    BY <1>1, JobTyped DEF Jobs
  <2>4. config \in Key \cup {"none", "torn"}
    BY <1>1 DEF Typed, Key
  <2>5. /\ Len(sidecars) \in Sidecar /\ \A n \in DOMAIN sidecars : sidecars[n] \in AgentStages
        /\ up <=> Serving # {}
    BY <1>1 DEF OneServes, Sidecar, Serving
  <2> QED BY <1>1, <2>2, <2>3, <2>4, <2>5 DEF DesktopTypes, OneServes, AgentStages
<1>3. SoloIsWhole
  BY <1>1 DEF SoloIsWhole, Undisturbed, DiskIsWhole, CopiesAreWhole
<1>4. MemoryIsDisk
  BY <1>1 DEF MemoryIsDisk, Undisturbed
<1>5. StoredKeyIsAccepted
  BY <1>1 DEF StoredKeyIsAccepted, Typed
<1>6. NoStrayAgent
  BY <1>1 DEF NoStrayAgent, OneServes, Alive, Serving
<1> QED BY <1>2, <1>3, <1>4, <1>5, <1>6 DEF KeptIsRight

THEOREM DesktopInvariance == DesktopSpec => []DesktopInv
<1>1. DesktopInit => DesktopInv
  BY DesktopStarts
<1>2. DesktopInv /\ [DesktopNext]_all => DesktopInv'
  BY DesktopSteps
<1> QED BY <1>1, <1>2, PTL DEF DesktopSpec

(* However many files, pieces, jobs and restarts: unless two downloads     *)
(* have overlapped, no half-written file has a final name or is held in    *)
(* memory, whatever fails, leaves or dies; and only accepted keys are kept *)
(* (download_geoip, download_threatfeeds, reload_geo, Config::save).       *)
THEOREM KeptHolds == DesktopSpec => []KeptIsRight
<1>1. DesktopInv => KeptIsRight
  BY DesktopInvImplies
<1> QED BY <1>1, DesktopInvariance, PTL

(* Quitting, a true exit and an update leave no agent behind: only a shell *)
(* that is killed, or a kill that fails, does (kill_agent, ExitRequested). *)
THEOREM NoAgentStrays == DesktopSpec => []NoStrayAgent
<1>1. DesktopInv => NoStrayAgent
  BY DesktopInvImplies
<1> QED BY <1>1, DesktopInvariance, PTL
=============================================================================
