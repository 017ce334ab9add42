----------------------------- MODULE Broadcast -----------------------------
(***************************************************************************)
(* What the live feed promises, with no ring, no watch channel, no frames  *)
(* and no sequence numbers: the agent observes one world after another,    *)
(* and each client, whenever it trusts what it shows, shows one of those   *)
(* worlds and never an older one than it showed before.                    *)
(* Feed.tla implements this module.                                        *)
(***************************************************************************)
EXTENDS Naturals, Sequences

CONSTANTS
  Client,     \* the browsers attached to the agent
  World,      \* the possible sets of flows
  NoFlows,    \* the world with no flow in it
  Unknown     \* what a client shows while it knows its mirror is incomplete

VARIABLES
  history,    \* the worlds the agent has observed, oldest first
  view,       \* what each client shows: a world, or Unknown
  pos         \* the position in history of the last world each client trusted

vars == <<history, view, pos>>

Init ==
  /\ history = <<NoFlows>>
  /\ view = [c \in Client |-> Unknown]
  /\ pos = [c \in Client |-> 0]

(* The agent observes another world; one that restarts, the empty world.   *)
Observe ==
  /\ \E w \in World : history' = Append(history, w)
  /\ UNCHANGED <<view, pos>>

(* A client comes to show a world at least as recent as any it has shown.  *)
Show(c) ==
  /\ \E i \in 1..Len(history) :
       /\ i >= pos[c]
       /\ view' = [view EXCEPT ![c] = history[i]]
       /\ pos' = [pos EXCEPT ![c] = i]
  /\ UNCHANGED history

(* A client moves on to a world it has not got in full: it stops trusting  *)
(* its mirror, and still never falls back behind what it has shown.        *)
Distrust(c) ==
  /\ view' = [view EXCEPT ![c] = Unknown]
  /\ pos' \in { [pos EXCEPT ![c] = i] : i \in pos[c]..Len(history) }
  /\ UNCHANGED history

Next ==
  \/ Observe
  \/ \E c \in Client : Show(c) \/ Distrust(c)

Spec == Init /\ [][Next]_vars
=============================================================================
