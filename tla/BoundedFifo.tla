----------------------------- MODULE BoundedFifo -----------------------------
(***************************************************************************)
(* What the trait Ring<T> promises of a bounded hand-off, whatever         *)
(* implements it: items come out once each, in the order they were         *)
(* stored; at most Capacity are held; a refused item is counted.  exact    *)
(* says whether "full" and "empty" are told of the ring as it is or may be *)
(* told of the ring as it was a moment ago.                                *)
(***************************************************************************)
EXTENDS Naturals, Sequences

CONSTANTS Item, Capacity,
          DropModulus    \* bound: the refused items are counted modulo this

VARIABLES exact,
          queue,         \* the items held, oldest first
          got,           \* what the last pop returned: <<item>> or <<>>
          dropped

vars == <<exact, queue, got, dropped>>

Init == exact \in BOOLEAN /\ queue = <<>> /\ got = <<>> /\ dropped = 0

Store(item) ==
  /\ Len(queue) < Capacity
  /\ queue' = Append(queue, item)
  /\ UNCHANGED <<got, dropped>>

Refuse ==
  /\ exact => Len(queue) = Capacity
  /\ dropped' = (dropped + 1) % DropModulus
  /\ UNCHANGED <<queue, got>>

Take ==
  /\ queue # <<>>
  /\ got' = <<Head(queue)>>
  /\ queue' = Tail(queue)
  /\ UNCHANGED dropped

FindNothing ==
  /\ exact => queue = <<>>
  /\ got' = <<>>
  /\ UNCHANGED <<queue, dropped>>

(* The ring is dropped with whatever it still holds.                       *)
Discard == queue' = <<>> /\ UNCHANGED <<got, dropped>>

Next ==
  /\ (\E item \in Item : Store(item)) \/ Refuse \/ Take \/ FindNothing \/ Discard
  /\ UNCHANGED exact

Spec == Init /\ [][Next]_vars
=============================================================================
