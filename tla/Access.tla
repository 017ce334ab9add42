------------------------------- MODULE Access -------------------------------
(***************************************************************************)
(* Who gets the feed: the pairing codes and tokens the agent keeps in      *)
(* memory, the gates of its WebSocket handshake, and the devices that pair,*)
(* dial, lose their socket and retry.  A loopback peer needs no token; a   *)
(* page of another site is refused by its Origin; a remote peer presents   *)
(* the token its store bought with a code.                                 *)
(*                                                                         *)
(* Codes and tokens are numbers in the order they are drawn: two draws of  *)
(* the generator never coincide here.  0 is no code and no token.  Time is *)
(* what a code has left to live.                                           *)
(***************************************************************************)
EXTENDS Naturals

CONSTANTS
  Device,
  Remote,                \* the devices that do not reach the agent by loopback
  Foreign,               \* the pages of other sites: they only dial
  PAIRING_TTL,
  MAX_PAIRING_ATTEMPTS,
  MaxCodes, MaxPairs, MaxDrops, MaxRestarts      \* bounds

ASSUME AccessAssumption ==
  /\ Remote \subseteq Device /\ Foreign \subseteq Device
  /\ {PAIRING_TTL, MAX_PAIRING_ATTEMPTS, MaxCodes} \subseteq Nat \ {0}
  /\ {MaxPairs, MaxDrops, MaxRestarts} \subseteq Nat

VARIABLES
  pairing,               \* AuthState: the code, the time and the guesses it has left
  tokens,                \* AuthState: the tokens whose hash is kept
  minted, issued,        \* how many codes and tokens have been drawn
  shown,                 \* the code on the terminal and in the local UI, with its countdown
  store,                 \* per device: paired, pairing, and the token its connection holds
  socket,                \* per device: off, dialing, open, waiting (the retry timer)
  request,               \* per device: POST /pair on its way there and back
  asked, drops, restarts,
  wrong, sold,           \* history: per code, the guesses that missed and the tokens it bought
  ended,                 \* history: codes that were redeemed, guessed away or replaced
  inherited              \* history: the last token issued before the last restart

auth == <<pairing, tokens, minted, issued>>
counts == <<asked, drops, restarts>>
history == <<wrong, sold, ended, inherited>>
vars == <<auth, shown, store, socket, request, counts, history>>

Code == 1..MaxCodes
Display == {"terminal", "panel"}

NoCode == [code |-> 0, ttl |-> 0, attempts |-> 0]
fresh_pairing(code) == [code |-> code, ttl |-> PAIRING_TTL, attempts |-> MAX_PAIRING_ATTEMPTS]
NoRequest == [at |-> "none", code |-> 0, token |-> 0]
Denied == [at |-> "denied", code |-> 0, token |-> 0]

(* The first code is minted on start and printed.                          *)
Init ==
  /\ pairing = fresh_pairing(1)
  /\ tokens = {}
  /\ minted = 1 /\ issued = 0
  /\ shown = [s \in Display |-> IF s = "terminal" THEN [code |-> 1, ttl |-> PAIRING_TTL] ELSE [code |-> 0, ttl |-> 0]]
  /\ store = [d \in Device |-> [token |-> 0, paired |-> FALSE, pairing |-> FALSE]]
  /\ socket = [d \in Device |-> "dialing"]
  /\ request = [d \in Device |-> NoRequest]
  /\ asked = 0 /\ drops = 0 /\ restarts = 0
  /\ wrong = [c \in Code |-> 0] /\ sold = [c \in Code |-> 0]
  /\ ended = {} /\ inherited = 0

-----------------------------------------------------------------------------
(* The agent                                                               *)

Show(s, p) == shown' = [shown EXCEPT ![s] = [code |-> p.code, ttl |-> p.ttl]]

\* A mistake: every look at the code draws another one
AlwaysFresh ==
  /\ minted < MaxCodes
  /\ minted' = minted + 1
  /\ pairing' = fresh_pairing(minted')
  /\ Show("panel", pairing')
  /\ UNCHANGED <<tokens, issued, store, socket, request, counts, history>>

\* GET /pair/code of the local UI: a new code only when none is live
CurrentCode ==
  /\ IF pairing.ttl > 0
     THEN UNCHANGED <<pairing, minted>>
     ELSE /\ minted < MaxCodes
          /\ minted' = minted + 1
          /\ pairing' = fresh_pairing(minted')
  /\ Show("panel", pairing')
  /\ UNCHANGED <<tokens, issued, store, socket, request, counts, history>>

\* POST /pair/code of the local UI
RotateCode ==
  /\ minted < MaxCodes
  /\ minted' = minted + 1
  /\ pairing' = fresh_pairing(minted')
  /\ Show("panel", pairing')
  /\ ended' = ended \cup {pairing.code}
  /\ UNCHANGED <<tokens, issued, store, socket, request, counts, wrong, sold, inherited>>

\* redeem finds no code, or one that has expired and is removed
RedeemNothing(d) ==
  /\ pairing.ttl = 0
  /\ pairing' = NoCode
  /\ request' = [request EXCEPT ![d] = Denied]
  /\ UNCHANGED <<tokens, issued, wrong, sold, ended>>

\* A mistake: the code is put back after it has bought a token
KeepsCode(d) ==
  /\ pairing.ttl > 0 /\ request[d].code = pairing.code
  /\ issued' = issued + 1
  /\ tokens' = tokens \cup {issued'}
  /\ request' = [request EXCEPT ![d] = [at |-> "granted", code |-> 0, token |-> issued']]
  /\ sold' = [sold EXCEPT ![pairing.code] = @ + 1]
  /\ ended' = ended \cup {pairing.code}
  /\ UNCHANGED <<pairing, wrong>>

\* redeem consumes the code and issues a token
RedeemRight(d) ==
  /\ pairing.ttl > 0 /\ request[d].code = pairing.code
  /\ issued' = issued + 1
  /\ tokens' = tokens \cup {issued'}
  /\ pairing' = NoCode
  /\ request' = [request EXCEPT ![d] = [at |-> "granted", code |-> 0, token |-> issued']]
  /\ sold' = [sold EXCEPT ![pairing.code] = @ + 1]
  /\ ended' = ended \cup {pairing.code}
  /\ UNCHANGED wrong

\* A mistake: a code goes back without any attempt left
NeverBurns(d) ==
  /\ pairing.ttl > 0 /\ request[d].code # pairing.code
  /\ pairing' = [pairing EXCEPT !.attempts = IF @ > 0 THEN @ - 1 ELSE 0]
  /\ request' = [request EXCEPT ![d] = Denied]
  /\ wrong' = [wrong EXCEPT ![pairing.code] = @ + 1]
  /\ UNCHANGED <<tokens, issued, sold, ended>>

\* A wrong guess: the code goes back while it has attempts left
RedeemWrong(d) ==
  /\ pairing.ttl > 0 /\ request[d].code # pairing.code
  /\ pairing' = IF pairing.attempts > 1 THEN [pairing EXCEPT !.attempts = @ - 1] ELSE NoCode
  /\ request' = [request EXCEPT ![d] = Denied]
  /\ wrong' = [wrong EXCEPT ![pairing.code] = @ + 1]
  /\ ended' = IF pairing.attempts > 1 THEN ended ELSE ended \cup {pairing.code}
  /\ UNCHANGED <<tokens, issued, sold>>

\* POST /pair is answered
Redeem(d) ==
  /\ request[d].at = "agent"
  /\ RedeemNothing(d) \/ RedeemRight(d) \/ RedeemWrong(d)
  /\ UNCHANGED <<minted, shown, store, socket, counts, inherited>>

\* POST /auth/revoke: the sessions that are open stay open
Revoke ==
  /\ tokens' = {}
  /\ UNCHANGED <<pairing, minted, issued, shown, store, socket, request, counts, history>>

(* The control plane is for the machine itself: a remote device that asks  *)
(* is refused, and sees no code.                                           *)
pair_code_handler(d) == d \notin Remote /\ CurrentCode
rotate_code_handler(d) == d \notin Remote /\ RotateCode
revoke_handler(d) == d \notin Remote /\ Revoke

(* origin_allowed: the agent's own page, a loopback page, or no browser.   *)
origin_allowed(d) == d \notin Foreign

(* The token of the header's first auth.<token>, if it is a live one.      *)
authed(d) == store[d].token \in tokens

\* A mistake: the token is compared with every one ever issued
EverIssued(d) == origin_allowed(d) /\ (d \in Remote => store[d].token \in 1..issued)

\* The two gates of ws_handler
Admits(d) == origin_allowed(d) /\ (d \in Remote => authed(d))

\* The head of a request has been read within its timeout and is answered
Handshake(d) ==
  /\ socket[d] = "dialing"
  /\ socket' = [socket EXCEPT ![d] = IF Admits(d) THEN "open" ELSE "waiting"]
  /\ UNCHANGED <<auth, shown, store, request, counts, history>>

\* What the agent keeps is in memory only; its sockets and requests break
Restart ==
  /\ restarts < MaxRestarts /\ minted < MaxCodes
  /\ restarts' = restarts + 1
  /\ minted' = minted + 1
  /\ pairing' = fresh_pairing(minted')
  /\ tokens' = {}
  /\ shown' = [s \in Display |-> IF s = "terminal" THEN [code |-> minted', ttl |-> PAIRING_TTL] ELSE shown[s]]
  /\ socket' = [d \in Device |-> IF socket[d] \in {"dialing", "open"} THEN "waiting" ELSE socket[d]]
  /\ request' = [d \in Device |-> IF request[d].at = "agent" THEN Denied ELSE request[d]]
  /\ ended' = ended \cup {pairing.code, shown["panel"].code}
  /\ inherited' = issued
  /\ UNCHANGED <<issued, store, asked, drops, wrong, sold>>

Less(n) == IF n > 0 THEN n - 1 ELSE 0

Tick ==
  /\ pairing.ttl > 0 \/ \E s \in Display : shown[s].ttl > 0
  /\ pairing' = [pairing EXCEPT !.ttl = Less(@)]
  /\ shown' = [s \in Display |-> [shown[s] EXCEPT !.ttl = Less(@)]]
  /\ UNCHANGED <<tokens, minted, issued, store, socket, request, counts, history>>

-----------------------------------------------------------------------------
(* A device                                                                *)

\* pair(code): the button is disabled while one is under way
Pair(d, code) ==
  /\ d \notin Foreign
  /\ ~store[d].pairing
  /\ asked < MaxPairs
  /\ asked' = asked + 1
  /\ store' = [store EXCEPT ![d].pairing = TRUE]
  /\ request' = [request EXCEPT ![d] = [at |-> "agent", code |-> code, token |-> 0]]
  /\ UNCHANGED <<auth, shown, socket, drops, restarts, history>>

\* The token is put to use, whatever the user has attached to meanwhile
PairSucceeds(d) ==
  /\ request[d].at = "granted"
  /\ store' = [store EXCEPT ![d] = [token |-> request[d].token, paired |-> TRUE, pairing |-> FALSE]]
  /\ socket' = [socket EXCEPT ![d] = "dialing"]
  /\ request' = [request EXCEPT ![d] = NoRequest]
  /\ UNCHANGED <<auth, shown, counts, history>>

\* A mistake: a failure leaves the pairing flag up
StaysPairing(d) ==
  /\ request[d].at = "denied"
  /\ store' = [store EXCEPT ![d].paired = FALSE]
  /\ request' = [request EXCEPT ![d] = NoRequest]
  /\ UNCHANGED <<auth, shown, counts, history, socket>>

\* The connection that was there stays
PairFails(d) ==
  /\ request[d].at = "denied"
  /\ store' = [store EXCEPT ![d].paired = FALSE, ![d].pairing = FALSE]
  /\ request' = [request EXCEPT ![d] = NoRequest]
  /\ UNCHANGED <<auth, shown, socket, counts, history>>

\* attach("websocket"), without a token; paired is left as it is
Attach(d) ==
  /\ d \notin Foreign
  /\ store' = [store EXCEPT ![d].token = 0]
  /\ socket' = [socket EXCEPT ![d] = "dialing"]
  /\ UNCHANGED <<auth, shown, request, counts, history>>

\* attach("mock") or detach()
Detach(d) ==
  /\ d \notin Foreign
  /\ store' = [store EXCEPT ![d].token = 0]
  /\ socket' = [socket EXCEPT ![d] = "off"]
  /\ UNCHANGED <<auth, shown, request, counts, history>>

\* The retry timer
Retry(d) ==
  /\ socket[d] = "waiting"
  /\ socket' = [socket EXCEPT ![d] = "dialing"]
  /\ UNCHANGED <<auth, shown, store, request, counts, history>>

\* A mistake: only a dial that fails is tried again, not a session that breaks
DropForGood(d) ==
  /\ drops < MaxDrops
  /\ drops' = drops + 1
  /\ socket[d] \in {"dialing", "open"}
  /\ socket' = [socket EXCEPT ![d] = IF socket[d] = "open" THEN "broken" ELSE "waiting"]
  /\ UNCHANGED <<auth, shown, store, request, asked, restarts, history>>

\* The network breaks a socket, or the agent drops one whose head stalls
Drop(d) ==
  /\ drops < MaxDrops
  /\ drops' = drops + 1
  /\ socket[d] \in {"dialing", "open"}
  /\ socket' = [socket EXCEPT ![d] = "waiting"]
  /\ UNCHANGED <<auth, shown, store, request, asked, restarts, history>>

\* A request or its answer is lost: a token may have been issued for nobody
RequestLost(d) ==
  /\ drops < MaxDrops
  /\ drops' = drops + 1
  /\ request[d].at \in {"agent", "granted"}
  /\ request' = [request EXCEPT ![d] = Denied]
  /\ UNCHANGED <<auth, shown, store, socket, asked, restarts, history>>

-----------------------------------------------------------------------------

Served(d) == Redeem(d) \/ Handshake(d) \/ PairSucceeds(d) \/ PairFails(d) \/ Retry(d)

Next ==
  \/ Restart \/ Tick
  \/ \E d \in Device \ Foreign : pair_code_handler(d) \/ rotate_code_handler(d) \/ revoke_handler(d)
  \/ \E d \in Device :
       \/ Served(d) \/ Drop(d) \/ RequestLost(d) \/ Attach(d) \/ Detach(d)
       \/ \E code \in {0, shown["terminal"].code, shown["panel"].code} : Pair(d, code)

(* The agent's tasks run, and so do the timers and answers of a page; a   *)
(* foreign page is left to itself.                                         *)
Fairness == \A d \in Device \ Foreign :
  /\ WF_vars(Redeem(d)) /\ WF_vars(Handshake(d)) /\ WF_vars(Retry(d))
  /\ WF_vars(PairSucceeds(d)) /\ WF_vars(PairFails(d))

Spec == Init /\ [][Next]_vars /\ Fairness

-----------------------------------------------------------------------------

(* Every variable has its type; a code that is kept has attempts left, and *)
(* an answer holds a token exactly when one was granted (AuthState, the    *)
(* store's fields).                                                        *)
TypeOK ==
  /\ pairing.attempts = 0 => pairing = NoCode
  /\ \A d \in Device : request[d].token # 0 <=> request[d].at = "granted"
  /\ pairing \in [code : 0..MaxCodes, ttl : 0..PAIRING_TTL, attempts : 0..MAX_PAIRING_ATTEMPTS]
  /\ minted \in Code /\ issued \in 0..asked
  /\ tokens \subseteq 1..issued
  /\ shown \in [Display -> [code : 0..MaxCodes, ttl : 0..PAIRING_TTL]]
  /\ store \in [Device -> [token : 0..MaxPairs, paired : BOOLEAN, pairing : BOOLEAN]]
  /\ socket \in [Device -> {"off", "dialing", "open", "waiting"}]
  /\ request \in [Device -> [at : {"none", "agent", "granted", "denied"}, code : 0..MaxCodes, token : 0..MaxPairs]]
  /\ asked \in 0..MaxPairs /\ drops \in 0..MaxDrops /\ restarts \in 0..MaxRestarts
  /\ wrong \in [Code -> Nat] /\ sold \in [Code -> Nat]
  /\ ended \subseteq 0..MaxCodes
  /\ inherited \in 0..issued

(* However the guesses of several devices, the rotations and the expiry    *)
(* interleave, a code is compared with no more than the allowed number of  *)
(* guesses and buys one token at most (redeem takes the code out and puts  *)
(* it back).                                                               *)
CodeBudget == \A c \in Code : sold[c] <= 1 /\ wrong[c] + sold[c] <= MAX_PAIRING_ATTEMPTS

(* A code on display buys a token until its countdown ends, unless it has  *)
(* been redeemed, guessed away or replaced on request (current_code is     *)
(* idempotent, so that looking at the code never spoils it for the device  *)
(* that is typing it).                                                     *)
ShownIsGood == \A s \in Display :
  shown[s].ttl > 0 /\ shown[s].code \notin ended => pairing.code = shown[s].code /\ pairing.ttl >= shown[s].ttl

(* The promises of a code, with the types (AuthState).                     *)
CodesHold == TypeOK /\ CodeBudget /\ ShownIsGood

(* An open session belongs to a page the agent trusts, and a remote one    *)
(* holds a token that the running process issued: a restart leaves no      *)
(* session and no token of the old process behind (ws_handler, revoke).    *)
OpenIsAuthorized == \A d \in Device :
  socket[d] = "open" => d \notin Foreign /\ (d \in Remote => store[d].token \in (inherited + 1)..issued)

(* pair() always comes back, so that the button is enabled again.          *)
PairingEnds == \A d \in Device \ Foreign : store[d].pairing ~> ~store[d].pairing

(* A device whose credentials stay good gets its session back after every  *)
(* loss: refused, dropped or restarted under it, it keeps trying.          *)
Entitled(d) == socket[d] # "off" /\ Admits(d)
GetsIn == \A d \in Device \ Foreign : <>[]Entitled(d) => []<>(socket[d] = "open")

(* Neither a lost answer nor a lost session leaves a device stuck (pair,   *)
(* scheduleRetry).                                                         *)
DevicesServed == PairingEnds /\ GetsIn

(* "true once a remote pairing token is in use this session"               *)
(* (useNetscopeStore.ts:37).  Not kept: attach() and detach() leave it, a  *)
(* failing pair() clears it under a connection that still uses its token.  *)
PairedIsInUse == \A d \in Device : store[d].paired <=> store[d].token # 0
=============================================================================
