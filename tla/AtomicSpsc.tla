----------------------------- MODULE AtomicSpsc -----------------------------
(***************************************************************************)
(* The hand-built single-producer/single-consumer ring, one step for every *)
(* access another thread can come between.  The cursors wrap at            *)
(* CursorModulus (2^64 in the code), the slot of a cursor is its value     *)
(* masked by Capacity - 1, and each side keeps a private copy of the other *)
(* side's cursor.                                                          *)
(*                                                                         *)
(* An Acquire load of the other side's cursor returns the newest value     *)
(* when exact; otherwise any value from the last one this thread saw to    *)
(* the newest, which is all the memory model promises.  A cursor acquired  *)
(* brings every slot access before its Release store with it, so slots     *)
(* need no staleness of their own as long as the cursors guard them: a     *)
(* slot is Uninit until written and again once its item is moved out, and  *)
(* the properties say that no access finds one in the wrong state.         *)
(***************************************************************************)
EXTENDS Naturals, Sequences

CONSTANTS
  Item,
  Uninit,          \* what a slot holds when it holds no item
  Capacity,        \* new() rounds it up to a power of two, at least two
  CursorModulus,   \* usize wraps here
  DropModulus      \* bound: dropped is kept modulo this

ASSUME SpscAssumption ==
  /\ Uninit \notin Item
  /\ Capacity \in Nat \ {0, 1}
  /\ CursorModulus \in Nat
  /\ \E k \in 2..CursorModulus : CursorModulus = k * Capacity
  /\ DropModulus \in Nat \ {0}

VARIABLES
  exact,           \* loads return the newest value
  buf, head, tail, cachedHead, cachedTail, dropped,
  producer,        \* where push is
  item,            \* the item being pushed
  consumer,        \* where pop is
  taken,           \* the item being popped
  got,             \* what the last pop returned: <<item>> or <<>>
  observer,        \* where len() is, called by a third thread
  tailSeen,        \* its load of tail
  reported         \* what the last len() returned

pushVars == <<tail, cachedHead, dropped, producer, item>>
popVars == <<head, cachedTail, consumer, taken, got>>
lenVars == <<observer, tailSeen, reported>>
vars == <<exact, buf, pushVars, popVars, lenVars>>

Cursor == 0..(CursorModulus - 1)
Slot == 0..(Capacity - 1)

\* A mistake: the cursors do not wrap
PlusUnwrapped(c, n) == c + n

\* A mistake: occupancy saturates at zero
MinusSaturating(c, d) == IF c < d THEN 0 ELSE c - d

Plus(c, n) == (c + n) % CursorModulus                        \* wrapping_add
Minus(c, d) == (c + CursorModulus - d) % CursorModulus       \* wrapping_sub
At(c) == c % Capacity                                        \* c & mask

Init ==
  /\ exact \in BOOLEAN
  /\ buf = [s \in Slot |-> Uninit]
  /\ head = 0 /\ tail = 0
  /\ cachedHead = 0 /\ cachedTail = 0
  /\ dropped = 0
  /\ producer = "idle" /\ item = Uninit
  /\ consumer = "idle" /\ taken = Uninit
  /\ got = <<>>
  /\ observer = "idle" /\ tailSeen = 0 /\ reported = 0

(* What a load of a cursor can return to a thread that last saw it at seen. *)
Load(seen, newest) ==
  IF exact THEN {newest}
  ELSE {Plus(seen, n) : n \in 0..Minus(newest, seen)}

-----------------------------------------------------------------------------
(* push                                                                    *)

Full(h) == Minus(tail, h) = Capacity

(* The producer reads its own cursor and its own copy of the other.        *)
BeginPush(i) ==
  /\ producer = "idle"
  /\ item' = i
  /\ producer' = IF Full(cachedHead) THEN "confirm" ELSE "write"
  /\ UNCHANGED <<buf, tail, cachedHead, dropped, popVars, lenVars>>

\* A mistake: a refused push writes all the same
ConfirmFullOnce ==
  /\ producer = "confirm"
  /\ \E h \in Load(cachedHead, head) :
       /\ cachedHead' = h
       /\ producer' = "write"
       /\ item' = item
       /\ dropped' = IF Full(h) THEN (dropped + 1) % DropModulus ELSE dropped
  /\ UNCHANGED <<buf, tail, popVars, lenVars>>

\* A mistake: the cache takes the producer's own cursor
ConfirmFullFromTail ==
  /\ producer = "confirm"
  /\ \E h \in Load(cachedHead, head) :
       /\ cachedHead' = tail
       /\ producer' = IF Full(h) THEN "idle" ELSE "write"
       /\ item' = IF Full(h) THEN Uninit ELSE item
       /\ dropped' = IF Full(h) THEN (dropped + 1) % DropModulus ELSE dropped
  /\ UNCHANGED <<buf, tail, popVars, lenVars>>

\* A mistake: the cached head is not read again
RefuseOnCache ==
  /\ producer = "confirm"
  /\ producer' = "idle"
  /\ dropped' = (dropped + 1) % DropModulus
  /\ item' = Uninit
  /\ UNCHANGED <<buf, tail, cachedHead, popVars, lenVars>>

(* The copy says full: look at the real head once, and refuse if so.       *)
ConfirmFull ==
  /\ producer = "confirm"
  /\ \E h \in Load(cachedHead, head) :
       /\ cachedHead' = h
       /\ producer' = IF Full(h) THEN "idle" ELSE "write"
       /\ item' = IF Full(h) THEN Uninit ELSE item
       /\ dropped' = IF Full(h) THEN (dropped + 1) % DropModulus ELSE dropped
  /\ UNCHANGED <<buf, tail, popVars, lenVars>>

WriteSlot ==
  /\ producer = "write"
  /\ buf' = [buf EXCEPT ![At(tail)] = item]
  /\ producer' = "publish"
  /\ UNCHANGED <<tail, cachedHead, dropped, item, popVars, lenVars>>

PublishTail ==
  /\ producer = "publish"
  /\ tail' = Plus(tail, 1)
  /\ producer' = "idle"
  /\ item' = Uninit
  /\ UNCHANGED <<buf, cachedHead, dropped, popVars, lenVars>>

-----------------------------------------------------------------------------
(* pop                                                                     *)

BeginPop ==
  /\ consumer = "idle"
  /\ consumer' = IF head = cachedTail THEN "confirm" ELSE "read"
  /\ UNCHANGED <<buf, head, cachedTail, taken, got, pushVars, lenVars>>

ConfirmEmpty ==
  /\ consumer = "confirm"
  /\ \E t \in Load(cachedTail, tail) :
       /\ cachedTail' = t
       /\ consumer' = IF head = t THEN "idle" ELSE "read"
       /\ got' = IF head = t THEN <<>> ELSE got
  /\ UNCHANGED <<buf, head, taken, pushVars, lenVars>>

(* The item is moved out: what stays in the slot is no item any more.      *)
ReadSlot ==
  /\ consumer = "read"
  /\ taken' = buf[At(head)]
  /\ buf' = [buf EXCEPT ![At(head)] = Uninit]
  /\ consumer' = "free"
  /\ UNCHANGED <<head, cachedTail, got, pushVars, lenVars>>

FreeSlot ==
  /\ consumer = "free"
  /\ head' = Plus(head, 1)
  /\ got' = <<taken>>
  /\ consumer' = "idle"
  /\ taken' = Uninit
  /\ UNCHANGED <<buf, cachedTail, pushVars, lenVars>>

-----------------------------------------------------------------------------
(* len, by anyone: tail is loaded first, then head.                        *)
LoadTail ==
  /\ observer = "idle"
  /\ tailSeen' = tail
  /\ observer' = "tail loaded"
  /\ UNCHANGED <<buf, pushVars, popVars, reported>>

LoadHead ==
  /\ observer = "tail loaded"
  /\ reported' = Minus(tailSeen, head)
  /\ observer' = "idle"
  /\ tailSeen' = 0
  /\ UNCHANGED <<buf, pushVars, popVars>>

\* A mistake: the item at head is forgotten
HeldButNewest == {Plus(head, n) : n \in 1..(Minus(tail, head) - 1)}

(* The last owner drops the ring: the items from head to tail with it.     *)
Held == {Plus(head, n) : n \in 0..(Minus(tail, head) - 1)}

DropRing ==
  /\ producer = "idle" /\ consumer = "idle" /\ observer = "idle"
  /\ buf' = [s \in Slot |-> IF \E c \in Held : At(c) = s THEN Uninit ELSE buf[s]]
  /\ producer' = "gone" /\ consumer' = "gone" /\ observer' = "gone"
  /\ UNCHANGED <<head, tail, cachedHead, cachedTail, dropped, item, taken, got,
                 tailSeen, reported>>

-----------------------------------------------------------------------------
Push == (\E i \in Item : BeginPush(i)) \/ ConfirmFull \/ WriteSlot \/ PublishTail
Pop == BeginPop \/ ConfirmEmpty \/ ReadSlot \/ FreeSlot
Occupancy == LoadTail \/ LoadHead

Next == (Push \/ Pop \/ Occupancy \/ DropRing) /\ UNCHANGED exact

Spec == Init /\ [][Next]_vars

-----------------------------------------------------------------------------
(* Properties                                                              *)

(* Cursors stay cursors, slots hold items or nothing.                      *)
TypeOK ==
  /\ exact \in BOOLEAN
  /\ buf \in [Slot -> Item \cup {Uninit}]
  /\ {head, tail, cachedHead, cachedTail, tailSeen, reported} \subseteq Cursor
  /\ dropped \in 0..(DropModulus - 1)
  /\ producer \in {"idle", "confirm", "write", "publish", "gone"}
  /\ consumer \in {"idle", "confirm", "read", "free", "gone"}
  /\ observer \in {"idle", "tail loaded", "gone"}
  /\ {item, taken} \subseteq Item \cup {Uninit}
  /\ got \in {<<>>} \cup {<<i>> : i \in Item}

(* "Never an overwrite of a live slot or a read of an unwritten one": the  *)
(* SAFETY comments of push and pop, across any number of wraps.  The two   *)
(* threads are then never at one slot at once.                             *)
SlotsGuarded ==
  /\ producer = "write" => buf[At(tail)] = Uninit
  /\ consumer = "read" => buf[At(head)] # Uninit

(* "It can lag behind the real cursor but never run ahead of it": around   *)
(* the wrapping circle the four cursors keep the order cachedHead, head,   *)
(* cachedTail, tail, and the circle's arc never exceeds the capacity.      *)
CachesLag ==
  /\ Minus(head, cachedHead) + Minus(cachedTail, head) + Minus(tail, cachedTail)
       = Minus(tail, cachedHead)
  /\ Minus(tail, cachedHead) <= Capacity

(* Exactly the slots from head to tail hold items, but for the one a call  *)
(* is in the middle of; a dropped ring has released them all.              *)
LiveSlots ==
  {s \in Slot : buf[s] # Uninit} =
    IF producer = "gone" THEN {}
    ELSE ({At(Plus(head, n)) : n \in 0..(Minus(tail, head) - 1)}
            \ (IF consumer = "free" THEN {At(head)} ELSE {}))
         \cup (IF producer = "publish" THEN {At(tail)} ELSE {})

(* All of it at every access of push, pop, len and drop, with the types.   *)
RingSafe == TypeOK /\ SlotsGuarded /\ CachesLag /\ LiveSlots

(* The items from head to tail, the one being moved out first.             *)
Queue ==
  IF producer = "gone" THEN <<>>
  ELSE [n \in 1..Minus(tail, head) |->
          IF n = 1 /\ consumer = "free" THEN taken ELSE buf[At(Plus(head, n - 1))]]

(* The ring is a bounded FIFO: a push takes effect at its store of tail, a *)
(* pop at its store of head, a refusal or a None at the load that told it. *)
Fifo == INSTANCE BoundedFifo WITH queue <- Queue
IsFifo == Fifo!Spec

-----------------------------------------------------------------------------
(* What the repository says and the code does not keep: each of these is   *)
(* violated, the README says by which steps.                               *)

(* "Approximate current occupancy" (lib.rs): at least a number of items    *)
(* the ring could hold.                                                    *)
LenApproximate == reported <= Capacity
=============================================================================
