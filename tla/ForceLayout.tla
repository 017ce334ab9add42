---------------------------- MODULE ForceLayout ----------------------------
(***************************************************************************)
(* Where the scene puts its nodes: the ForceLayout singleton of the main   *)
(* thread, the Web Worker that simulates a dynamic layout, and two of the  *)
(* components that draw from it, OrganismNodes and TendrilField.  React    *)
(* commits a world and a mode first and runs the components' effects       *)
(* later, in the components' order; animation frames, the worker's timer   *)
(* and the messages between the threads come in between.                   *)
(*                                                                         *)
(* A position is told by where it comes from: a seed by the flow, its      *)
(* group, the mode and the spread it is computed from, a simulated one by  *)
(* the flow, its group, the mode, the generation of its node set and the   *)
(* steps simulated.  A set is at rest after Settle steps.  The renderer    *)
(* reads version only to see whether it has changed since the component    *)
(* last wrote: a flag for each component.                                  *)
(***************************************************************************)
EXTENDS Naturals, Sequences, FiniteSets

CONSTANTS
  Flow,            \* flow ids, numbers for their order
  Group,           \* what flows are grouped by
  Dynamic,         \* the modes the worker simulates
  Static,          \* category
  Dense,           \* worlds larger than this are spread
  Settle,          \* steps until nothing moves
  RestTicks,       \* still ticks until the worker idles
  MaxCommits,      \* bound: commits of a changed world or mode
  MaxPosted        \* bound: position messages not yet handled

ASSUME LayoutAssumption ==
  /\ Flow \subseteq Nat /\ IsFiniteSet(Flow)
  /\ Static \notin Dynamic
  /\ Settle \in Nat \ {0}
  /\ RestTicks \in Nat \ {0}
  /\ {Dense, MaxCommits, MaxPosted} \subseteq Nat

Mode == Dynamic \cup {Static}
World == UNION {[S -> Group] : S \in SUBSET Flow}

VARIABLES
  world, layout,   \* as committed: every flow of the world with its group
  effectsDue,      \* committed, and the effects have not run
  sig,             \* the signature of the last push
  manager,         \* the singleton: see Manager below
  toWorker, toMain,
  worker,          \* the worker exists
  sim,             \* what it simulates: generation, world, mode, steps
  timer, stillTicks,
  drawn,           \* the flows the components have filled their buffers with
  nodes, tendrils, \* the positions in those buffers
  nodesStale, tendrilsStale,   \* version has changed since each last wrote
  commits

workerVars == <<worker, sim, timer, stillTicks>>
sceneVars == <<drawn, nodes, tendrils, nodesStale, tendrilsStale>>
layoutVars == <<world, layout, effectsDue, sig, manager, toWorker, toMain, workerVars,
          sceneVars, commits>>

Empty == [f \in {} |-> 0]

LayoutInit ==
  /\ world = Empty /\ layout \in Mode /\ effectsDue = TRUE
  /\ sig = <<>>
  /\ manager = [gen |-> 0, positions |-> <<>>, list |-> Empty, lastById |-> Empty,
                mode |-> Static, spread |-> 1]
  /\ toWorker = <<>> /\ toMain = <<>>
  /\ worker = FALSE /\ sim = <<>> /\ timer = FALSE /\ stillTicks = 0
  /\ drawn = Empty /\ nodes = Empty /\ tendrils = Empty
  /\ nodesStale = TRUE /\ tendrilsStale = TRUE
  /\ commits = 0

-----------------------------------------------------------------------------
(* The manager                                                             *)

SpreadFor(n) == IF n <= Dense THEN 1 ELSE n

(* Flows are listed in the order of their ids.                             *)
IndexOf(list, f) == Cardinality({g \in DOMAIN list : g <= f})

Seed(f, group, mode, spread) ==
  [flow |-> f, group |-> group, mode |-> mode, spread |-> spread]

(* The position of f, which is in group, under mode.                       *)
Position(mgr, f, group, mode) ==
  LET i == IndexOf(mgr.list, f) IN
  IF /\ mode # Static /\ mode = mgr.mode
     /\ f \in DOMAIN mgr.list /\ i \in DOMAIN mgr.positions
  THEN mgr.positions[i]
  ELSE IF mode # Static /\ f \in DOMAIN mgr.lastById THEN mgr.lastById[f]
  ELSE Seed(f, group, mode, mgr.spread)

Positions(mgr, list, mode) ==
  [f \in DOMAIN list |-> Position(mgr, f, list[f], mode)]

(* Live positions by id, held until the worker replies.                    *)
Snapshot(mgr) ==
  [f \in {g \in DOMAIN mgr.list : IndexOf(mgr.list, g) \in DOMAIN mgr.positions} |->
     mgr.positions[IndexOf(mgr.list, f)]]

\* A mistake: the last positions stay with a new list
PushedKeepingPositions(mgr, list, mode) ==
  LET held == [mgr EXCEPT !.mode = mode, !.lastById = Snapshot(mgr),
                          !.spread = SpreadFor(Cardinality(DOMAIN list))]
  IN IF mode = Static THEN [held EXCEPT !.positions = <<>>]
     ELSE [held EXCEPT !.gen = @ + 1, !.list = list]

(* update: the manager after the world and the mode have been pushed.      *)
Pushed(mgr, list, mode) ==
  LET held == [mgr EXCEPT !.mode = mode, !.lastById = Snapshot(mgr),
                          !.spread = SpreadFor(Cardinality(DOMAIN list)),
                          !.positions = <<>>]
  IN IF mode = Static THEN held
     ELSE [held EXCEPT !.gen = @ + 1, !.list = list]

(* and the message it posts, to a worker it creates if need be.            *)
Message(mgr, list, mode) ==
  IF mode = Static THEN [type |-> "stop"]
  ELSE [type |-> "set", gen |-> mgr.gen + 1, list |-> list, mode |-> mode]

\* A mistake: the generation of a reply is not compared
AcceptAny(msg) ==
  [manager EXCEPT !.positions = msg.positions]

Accept(msg) ==
  IF msg.gen = manager.gen THEN [manager EXCEPT !.positions = msg.positions]
  ELSE manager

\* A mistake: the version does not change with the positions
ReceiveQuietly ==
  /\ toMain # <<>>
  /\ toMain' = Tail(toMain)
  /\ manager' = Accept(Head(toMain))
  /\ UNCHANGED <<world, layout, effectsDue, sig, toWorker, workerVars, sceneVars, commits>>

(* onmessage: the positions of another generation are ignored.             *)
Receive ==
  /\ toMain # <<>>
  /\ toMain' = Tail(toMain)
  /\ manager' = Accept(Head(toMain))
  /\ LET bump == Head(toMain).gen = manager.gen IN
       /\ nodesStale' = (nodesStale \/ bump)
       /\ tendrilsStale' = (tendrilsStale \/ bump)
  /\ UNCHANGED <<world, layout, effectsDue, sig, toWorker, workerVars,
                 drawn, nodes, tendrils, commits>>

-----------------------------------------------------------------------------
(* The components                                                          *)

(* A delta, which may change no more than activity, or a switch of modes.  *)
Commit(w, m) ==
  /\ ~effectsDue
  /\ commits < MaxCommits
  /\ commits' = commits + 1
  /\ world' = w /\ layout' = m
  /\ effectsDue' = TRUE
  /\ UNCHANGED <<sig, manager, toWorker, toMain, workerVars, sceneVars>>

\* A mistake: the count alone, whatever the layout
CountSig == <<layout, Cardinality(DOMAIN world)>>

(* layoutSig: the count alone for the static layout.                       *)
LayoutSig ==
  IF layout = Static THEN <<layout, Cardinality(DOMAIN world)>>
  ELSE <<layout, world>>

(* TendrilField fills its buffer, then OrganismNodes pushes the world if   *)
(* its signature has changed, then it fills its own.                       *)
RunEffects ==
  /\ effectsDue /\ effectsDue' = FALSE
  /\ tendrils' = Positions(manager, world, layout)
  /\ sig' = LayoutSig
  /\ IF sig = LayoutSig
     THEN UNCHANGED <<manager, toWorker, worker, nodesStale, tendrilsStale>>
     ELSE /\ manager' = Pushed(manager, world, layout)
          /\ worker' = (worker \/ layout # Static)
          /\ toWorker' = IF worker' THEN Append(toWorker, Message(manager, world, layout))
                                    ELSE toWorker
          /\ nodesStale' = TRUE /\ tendrilsStale' = TRUE
  /\ nodes' = Positions(manager', world, layout)
  /\ drawn' = world
  /\ UNCHANGED <<world, layout, toMain, sim, timer, stillTicks, commits>>

(* An animation frame rewrites what has changed, in a dynamic layout.      *)
Frame ==
  /\ layout # Static /\ (nodesStale \/ tendrilsStale)
  /\ nodes' = IF nodesStale THEN Positions(manager, drawn, layout) ELSE nodes
  /\ tendrils' = IF tendrilsStale THEN Positions(manager, drawn, layout) ELSE tendrils
  /\ nodesStale' = FALSE /\ tendrilsStale' = FALSE
  /\ UNCHANGED <<world, layout, effectsDue, sig, manager, toWorker, toMain, workerVars,
                 drawn, commits>>

-----------------------------------------------------------------------------
(* The worker                                                              *)

Take(type) ==
  /\ toWorker # <<>> /\ Head(toWorker).type = type
  /\ toWorker' = Tail(toWorker)
  /\ UNCHANGED <<world, layout, effectsDue, sig, manager, toMain, worker, sceneVars, commits>>

\* A mistake: the timer goes on with nothing to simulate
HaltKeepingTimer == sim' = <<>> /\ UNCHANGED timer

Halt == sim' = <<>> /\ timer' = FALSE

HandleStop == Take("stop") /\ Halt /\ UNCHANGED stillTicks

\* A mistake: a new set does not wake the idle timer
SetWithoutTimer ==
  /\ Take("set")
  /\ LET msg == Head(toWorker) IN
       IF msg.list = Empty THEN Halt /\ UNCHANGED stillTicks
       ELSE /\ sim' = [gen |-> msg.gen, list |-> msg.list, mode |-> msg.mode, steps |-> 0]
            /\ timer' = (timer \/ sim = <<>>)
            /\ stillTicks' = 0

(* A node set starts from where its nodes are known to be, or their seeds. *)
HandleSet ==
  /\ Take("set")
  /\ LET msg == Head(toWorker) IN
       IF msg.list = Empty THEN Halt /\ UNCHANGED stillTicks
       ELSE /\ sim' = [gen |-> msg.gen, list |-> msg.list, mode |-> msg.mode, steps |-> 0]
            /\ timer' = TRUE
            /\ stillTicks' = 0

Simulated(f, s) ==
  [flow |-> f, group |-> s.list[f], mode |-> s.mode, gen |-> s.gen, steps |-> s.steps]

(* The simulated positions by index.                                       *)
Layout(s) ==
  [i \in 1..Cardinality(DOMAIN s.list) |->
     Simulated(CHOOSE f \in DOMAIN s.list : IndexOf(s.list, f) = i, s)]

\* A mistake: still ticks are not counted
TickForever ==
  /\ timer
  /\ Len(toMain) < MaxPosted
  /\ LET next == [sim EXCEPT !.steps = IF @ < Settle THEN @ + 1 ELSE @] IN
       /\ sim' = next
       /\ toMain' = Append(toMain, [gen |-> sim.gen, positions |-> Layout(next)])
  /\ UNCHANGED <<timer, stillTicks>>
  /\ UNCHANGED <<world, layout, effectsDue, sig, manager, toWorker, worker, sceneVars, commits>>

(* One step, posted; and after RestTicks still ones the timer stops.       *)
Tick ==
  /\ timer
  /\ Len(toMain) < MaxPosted
  /\ LET next == [sim EXCEPT !.steps = IF @ < Settle THEN @ + 1 ELSE @]
         still == IF next = sim THEN stillTicks + 1 ELSE 0
     IN /\ sim' = next
        /\ toMain' = Append(toMain, [gen |-> sim.gen, positions |-> Layout(next)])
        /\ stillTicks' = still
        /\ timer' = (still < RestTicks)
  /\ UNCHANGED <<world, layout, effectsDue, sig, manager, toWorker, worker, sceneVars, commits>>

Worker == HandleStop \/ HandleSet

LayoutNext ==
  \/ \E w \in World, m \in Mode : Commit(w, m)
  \/ RunEffects \/ Frame \/ Receive \/ Worker \/ Tick

LayoutSpec == LayoutInit /\ [][LayoutNext]_layoutVars

(* Both event loops run, frames go on, and the interval fires; nobody has  *)
(* to change the world.                                                    *)
FairLayout ==
  /\ LayoutSpec
  /\ WF_layoutVars(RunEffects) /\ WF_layoutVars(Frame) /\ WF_layoutVars(Receive)
  /\ WF_layoutVars(Worker) /\ WF_layoutVars(Tick)

-----------------------------------------------------------------------------
(* Properties                                                              *)

Seeds == [flow : Flow, group : Group, mode : Mode, spread : Nat]
Sims == [flow : Flow, group : Group, mode : Dynamic, gen : Nat, steps : 0..Settle]

(* Everything has its type, and the worker keeps time only for a set.      *)
LayoutTypes ==
  /\ world \in World /\ drawn \in World /\ layout \in Mode
  /\ {effectsDue, worker, timer, nodesStale, tendrilsStale} \subseteq BOOLEAN
  /\ manager.list \in World /\ manager.mode \in Mode
  /\ \A i \in DOMAIN manager.positions : manager.positions[i] \in Sims
  /\ \A f \in DOMAIN manager.lastById : manager.lastById[f] \in Sims
  /\ DOMAIN nodes = DOMAIN drawn /\ DOMAIN tendrils = DOMAIN drawn
  /\ \A f \in DOMAIN drawn : {nodes[f], tendrils[f]} \subseteq Seeds \cup Sims
  /\ timer => sim # <<>>
  /\ stillTicks \in 0..RestTicks
  /\ Len(toMain) <= MaxPosted

(* "An in-flight tick can never be mapped onto the wrong ids": whatever    *)
(* mode is asked for, and whatever is in flight, the position of a flow    *)
(* was computed for that flow, and so is the one drawn for it.             *)
RightNode ==
  /\ \A f \in Flow, g \in Group, m \in Mode : Position(manager, f, g, m).flow = f
  /\ \A f \in DOMAIN drawn : nodes[f].flow = f /\ tendrils[f].flow = f

(* "A settled layout skips the rewrite": what a component skips really has *)
(* not changed.  Between commits and while a dynamic layout is on, buffers *)
(* that are not stale hold the manager's current positions.                *)
DrawnIsCurrent ==
  ~effectsDue /\ layout # Static =>
    /\ ~nodesStale => nodes = Positions(manager, world, layout)
    /\ ~tendrilsStale => tendrils = Positions(manager, world, layout)

(* Both, with the types: what is on screen is of the right flow, and of    *)
(* the manager's present positions where a rewrite was skipped.            *)
DrawnRight == LayoutTypes /\ RightNode /\ DrawnIsCurrent

(* Nodes and tendrils are where the worker's simulation of that very world *)
(* and mode comes to rest.                                                 *)
Rested ==
  \A f \in DOMAIN world :
    /\ nodes[f] = Simulated(f, [list |-> world, mode |-> layout,
                                gen |-> manager.gen, steps |-> Settle])
    /\ tendrils[f] = nodes[f]

(* "Any new set resumes it" (forceWorker.ts): when no thread has anything  *)
(* left to do in a dynamic layout, it is not that a push, a wake-up, a     *)
(* reply or a rewrite was missed, whatever was in flight when worlds and   *)
(* modes changed: the drawing is the one at rest.                          *)
Quiet ==
  /\ ~effectsDue /\ toWorker = <<>> /\ ~timer /\ toMain = <<>>
  /\ ~nodesStale /\ ~tendrilsStale

QuietIsRest == Quiet /\ layout # Static => Rested

(* When the world stops changing in a dynamic layout, the drawing comes to *)
(* rest, and the worker goes quiet.                                        *)
AtRest ==
  /\ ~effectsDue /\ ~timer /\ toMain = <<>>
  /\ layout # Static => ~nodesStale /\ ~tendrilsStale /\ Rested

ComesToRest == <>[]AtRest

-----------------------------------------------------------------------------
(* What the repository says and the code does not keep: each of these is   *)
(* violated, the README says by which steps.                               *)

(* "So a switch can never map positions simulated for one mode onto        *)
(* another" (getPosition).                                                 *)
OfItsMode ==
  \A f \in DOMAIN world :
    Position(manager, f, world[f], layout).mode = layout

(* "So existing nodes hold their place while the worker recomputes":       *)
(* while a dynamic layout stays on, a node drawn at a simulated position   *)
(* is not drawn at its seed next.                                          *)
NoFlash ==
  [][layout # Static /\ layout' # Static =>
       \A f \in DOMAIN nodes \cap DOMAIN nodes' :
         nodes[f] \in Sims => nodes'[f] \in Sims]_layoutVars

(* "A luminous thread from the host core to every endpoint node"           *)
(* (TendrilField): once the effects have run and nothing is stale, each    *)
(* tendril ends at its node.                                               *)
TendrilsMeetNodes ==
  ~effectsDue /\ (layout = Static \/ (~nodesStale /\ ~tendrilsStale)) =>
    tendrils = nodes
=============================================================================
