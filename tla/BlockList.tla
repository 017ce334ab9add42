------------------------------ MODULE BlockList ------------------------------
(***************************************************************************)
(* What a privileged helper promises, with no requests under way, no       *)
(* commands and no failures: addresses are listed and dropped in one step, *)
(* never a protected one and never more than the cap; they are taken off   *)
(* again in one step; a process that ends forgets what it listed, and what *)
(* it leaves in the firewall is touched by nothing but a clear.            *)
(* Enforcer.tla implements this module with its nft backend.               *)
(***************************************************************************)
EXTENDS Naturals, FiniteSets

CONSTANTS Addr, Protected, MaxBlocked

VARIABLES
  dropped,     \* the addresses the firewall drops
  listed       \* those among them that the helper would list

vars == <<dropped, listed>>

Init == dropped = {} /\ listed = {}

Add(S) ==
  /\ S \cap Protected = {}
  /\ Cardinality(listed \cup S) <= MaxBlocked
  /\ dropped' = dropped \cup S
  /\ listed' = listed \cup S

(* Only what is listed can be taken off.                                   *)
Remove(S) ==
  /\ S \subseteq listed
  /\ dropped' = dropped \ S
  /\ listed' = listed \ S

(* Everything, whoever left it.                                            *)
Clear == dropped' = {} /\ listed' = {}

(* The process ends, in whatever way; its successor lists nothing.         *)
Forget == listed' = {} /\ UNCHANGED dropped

Next ==
  \/ \E S \in SUBSET Addr : Add(S) \/ Remove(S)
  \/ Clear \/ Forget

Spec == Init /\ [][Next]_vars
=============================================================================
