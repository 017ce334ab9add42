---------------------------- MODULE AccessProofs ----------------------------
(***************************************************************************)
(* Proofs about Access, for any devices, lifetimes, numbers of attempts    *)
(* and restarts: a code buys one token at most within its budget of        *)
(* guesses, a code on display is good, and an open session of a remote     *)
(* device holds a token that the running process issued.                   *)
(***************************************************************************)
EXTENDS Access, FiniteSetTheorems, TLAPS

-----------------------------------------------------------------------------
(* The inductive invariant                                                 *)

(* The devices whose request is on its way to the agent.                   *)
Asking == {d \in Device : request[d].at = "agent"}

(* A store waits exactly while its request is somewhere.                   *)
OneRequest == \A d \in Device : store[d].pairing <=> request[d].at # "none"

(* A token is issued against a request: what was issued and what may still *)
(* be was asked for.                                                       *)
TokensAskedFor == IsFiniteSet(Asking) /\ issued + Cardinality(Asking) <= asked

(* A code that is kept is one that was minted and has attempts left.       *)
KeptCode ==
  \/ pairing = NoCode
  \/ pairing.code \in 1..minted /\ pairing.attempts \in 1..MAX_PAIRING_ATTEMPTS

(* The guesses a kept code has lost are those that missed; a code that is  *)
(* still to come has seen none.                                            *)
Budgets == \A c \in Code :
  /\ sold[c] + wrong[c] <= MAX_PAIRING_ATTEMPTS /\ sold[c] <= 1
  /\ c = pairing.code => sold[c] = 0 /\ wrong[c] + pairing.attempts = MAX_PAIRING_ATTEMPTS
  /\ c > minted => sold[c] = 0 /\ wrong[c] = 0

(* Every token that is kept is one of this process.                        *)
TokensOfNow == tokens \subseteq (inherited + 1)..issued

IInv ==
  /\ TypeOK /\ OneRequest /\ TokensAskedFor
  /\ KeptCode /\ Budgets /\ ShownIsGood
  /\ TokensOfNow /\ OpenIsAuthorized

-----------------------------------------------------------------------------
(* Types and the count of tokens                                           *)

(* The initial states satisfy the invariant.                               *)
LEMMA InitInv == Init => IInv
<1> SUFFICES ASSUME Init PROVE IInv
  OBVIOUS
<1> USE AccessAssumption DEF Init
<1>1. pairing = [code |-> 1, ttl |-> PAIRING_TTL, attempts |-> MAX_PAIRING_ATTEMPTS]
  BY DEF fresh_pairing
<1>2. \A d \in Device : request[d].at = "none" /\ request[d].token = 0
  BY DEF NoRequest
<1>3. TypeOK
  BY <1>1, <1>2 DEF TypeOK, Code, Display, NoRequest, NoCode
<1>4. OneRequest
  BY <1>2 DEF OneRequest
<1>5. TokensAskedFor
  <2>1. Asking = {}
    BY <1>2 DEF Asking
  <2> QED BY <2>1, FS_EmptySet DEF TokensAskedFor
<1>6. KeptCode /\ Budgets
  BY <1>1 DEF KeptCode, Budgets, Code
<1>7. ShownIsGood
  BY <1>1 DEF ShownIsGood, Display
<1>8. TokensOfNow /\ OpenIsAuthorized
  BY DEF TokensOfNow, OpenIsAuthorized
<1> QED BY <1>3, <1>4, <1>5, <1>6, <1>7, <1>8 DEF IInv

(* A request that arrives adds its device to those that ask, any other     *)
(* step adds none, and a token is issued only against one of them.         *)
LEMMA AskingStep ==
  ASSUME TypeOK, OneRequest, TokensAskedFor, [Next]_vars
  PROVE  TokensAskedFor' /\ issued' <= asked'
<1> USE DEF TypeOK
<1>1. ASSUME Asking' \subseteq Asking, issued' = issued, asked' = asked
      PROVE  TokensAskedFor' /\ issued' <= asked'
  <2>1. IsFiniteSet(Asking') /\ Cardinality(Asking') <= Cardinality(Asking)
    BY <1>1, FS_Subset DEF TokensAskedFor
  <2>2. Cardinality(Asking) \in Nat /\ Cardinality(Asking') \in Nat
    BY <2>1, FS_CardinalityType DEF TokensAskedFor
  <2> QED BY <1>1, <2>1, <2>2 DEF TokensAskedFor
<1>2. ASSUME NEW d \in Device, Redeem(d) PROVE TokensAskedFor' /\ issued' <= asked'
  <2>1. d \in Asking
    BY <1>2 DEF Redeem, Asking
  <2>2. Asking' = Asking \ {d}
    <3>1. \E r : /\ request' = [request EXCEPT ![d] = r] /\ r.at \in {"denied", "granted"}
      BY <1>2 DEF Redeem, RedeemNothing, RedeemRight, RedeemWrong, Denied
    <3> QED BY <3>1 DEF Asking
  <2>3. /\ IsFiniteSet(Asking') /\ Cardinality(Asking') = Cardinality(Asking) - 1
        /\ Cardinality(Asking) \in Nat /\ Cardinality(Asking') \in Nat
    BY <2>1, <2>2, FS_RemoveElement, FS_CardinalityType DEF TokensAskedFor
  <2>4. asked' = asked /\ issued' \in {issued, issued + 1}
    BY <1>2 DEF Redeem, RedeemNothing, RedeemRight, RedeemWrong, counts
  <2> QED BY <2>3, <2>4 DEF TokensAskedFor
<1>3. ASSUME NEW d \in Device, NEW code, Pair(d, code) PROVE TokensAskedFor' /\ issued' <= asked'
  <2>1. /\ request' = [request EXCEPT ![d] = [at |-> "agent", code |-> code, token |-> 0]]
        /\ request[d].at = "none" /\ asked' = asked + 1 /\ issued' = issued
    BY <1>3 DEF Pair, OneRequest, auth
  <2>2. d \notin Asking /\ Asking' = Asking \cup {d}
    BY <2>1 DEF Asking
  <2>3. /\ IsFiniteSet(Asking') /\ Cardinality(Asking') = Cardinality(Asking) + 1
        /\ Cardinality(Asking) \in Nat
    BY <2>2, FS_AddElement, FS_CardinalityType DEF TokensAskedFor
  <2> QED BY <2>1, <2>3 DEF TokensAskedFor
<1>4. CASE Restart
  <2>1. Asking' \subseteq Asking /\ issued' = issued /\ asked' = asked
    BY <1>4 DEF Restart, Asking, Denied
  <2> QED BY <1>1, <2>1
<1>5. ASSUME NEW d \in Device, PairSucceeds(d) \/ PairFails(d) \/ RequestLost(d)
      PROVE  TokensAskedFor' /\ issued' <= asked'
  <2>1. Asking' \subseteq Asking /\ issued' = issued /\ asked' = asked
    BY <1>5 DEF PairSucceeds, PairFails, RequestLost, Asking, Denied, NoRequest, auth, counts
  <2> QED BY <1>1, <2>1
<1>6. ASSUME NEW d \in Device, \/ pair_code_handler(d) \/ rotate_code_handler(d) \/ revoke_handler(d)
                               \/ Handshake(d) \/ Retry(d) \/ Drop(d) \/ Attach(d) \/ Detach(d)
      PROVE  UNCHANGED <<request, issued, asked>>
  BY <1>6 DEF pair_code_handler, CurrentCode, rotate_code_handler, RotateCode, revoke_handler,
     Revoke, Handshake, Retry, Drop, Attach, Detach, auth, counts
<1>7. CASE UNCHANGED <<request, issued, asked>>
  <2>1. Asking' \subseteq Asking /\ issued' = issued /\ asked' = asked
    BY <1>7 DEF Asking
  <2> QED BY <1>1, <2>1
<1>8. Tick \/ UNCHANGED vars => UNCHANGED <<request, issued, asked>>
  BY DEF Tick, vars, auth, counts
<1> QED
  BY <1>2, <1>3, <1>4, <1>5, <1>6, <1>7, <1>8 DEF Next, Served

(* What a step may do to the code that is kept.                            *)
LEMMA PairingStep ==
  ASSUME [Next]_vars
  PROVE  \/ UNCHANGED <<pairing, minted>>
         \/ minted' = minted /\ pairing' = NoCode
         \/ minted < MaxCodes /\ minted' = minted + 1 /\ pairing' = fresh_pairing(minted')
         \/ /\ minted' = minted /\ pairing.attempts > 1 /\ pairing' = [pairing EXCEPT !.attempts = @ - 1]
            /\ pairing.ttl > 0 /\ wrong' = [wrong EXCEPT ![pairing.code] = @ + 1] /\ sold' = sold
         \/ minted' = minted /\ pairing' = [pairing EXCEPT !.ttl = Less(@)]
  BY Zenon DEF Next, Served, vars, auth, Redeem, RedeemNothing, RedeemRight, RedeemWrong, Pair, Restart, Tick,
     PairSucceeds, PairFails, RequestLost, pair_code_handler, CurrentCode, rotate_code_handler,
     RotateCode, revoke_handler, Revoke, Handshake, Retry, Drop, Attach, Detach

(* What a step may do to a request, and what it is answered with.          *)
LEMMA RequestStep ==
  ASSUME [Next]_vars
  PROVE  \/ request' = request
         \/ \E d \in Device : request' = [request EXCEPT ![d] = NoRequest] /\ request[d].at # "agent"
         \/ \E d \in Device : request' = [request EXCEPT ![d] = Denied]
         \/ \E d \in Device : /\ request' = [request EXCEPT ![d] = [at |-> "granted", code |-> 0, token |-> issued']]
                              /\ issued' = issued + 1 /\ asked' = asked
         \/ \E d \in Device, code \in {0, shown["terminal"].code, shown["panel"].code} :
              request' = [request EXCEPT ![d] = [at |-> "agent", code |-> code, token |-> 0]]
         \/ request' = [d \in Device |-> IF request[d].at = "agent" THEN Denied ELSE request[d]]
  BY Zenon DEF Next, Served, vars, auth, counts, Redeem, RedeemNothing, RedeemRight, RedeemWrong, Pair, Restart, Tick,
     PairSucceeds, PairFails, RequestLost, pair_code_handler, CurrentCode, rotate_code_handler,
     RotateCode, revoke_handler, Revoke, Handshake, Retry, Drop, Attach, Detach

(* What a step may do to a store, when it may change the token of one.     *)
LEMMA StoreStep ==
  ASSUME [Next]_vars
  PROVE  \/ store' = store
         \/ \E d \in Device : \/ store' = [store EXCEPT ![d].pairing = TRUE]
                              \/ store' = [store EXCEPT ![d].paired = FALSE, ![d].pairing = FALSE]
                              \/ store' = [store EXCEPT ![d].token = 0]
                              \/ store' = [store EXCEPT ![d] = [token |-> request[d].token, paired |-> TRUE, pairing |-> FALSE]]
  BY Zenon DEF Next, Served, vars, auth, counts, Redeem, Pair, Restart, Tick,
     PairSucceeds, PairFails, RequestLost, pair_code_handler, CurrentCode, rotate_code_handler,
     RotateCode, revoke_handler, Revoke, Handshake, Retry, Drop, Attach, Detach

(* What a step may do to a socket.                                         *)
LEMMA SocketStep ==
  ASSUME [Next]_vars
  PROVE  \/ socket' = socket
         \/ \E d \in Device : socket' = [socket EXCEPT ![d] = IF Admits(d) THEN "open" ELSE "waiting"]
         \/ \E d \in Device, s \in {"off", "dialing", "waiting"} : socket' = [socket EXCEPT ![d] = s]
         \/ socket' = [d \in Device |-> IF socket[d] \in {"dialing", "open"} THEN "waiting" ELSE socket[d]]
<1> USE DEF Next, Served, vars, auth, counts, Redeem, Pair, Restart, Tick,
     PairSucceeds, PairFails, RequestLost, pair_code_handler, CurrentCode, rotate_code_handler,
     RotateCode, revoke_handler, Revoke, Handshake, Retry, Drop, Attach, Detach
<1>1. {"off", "dialing", "waiting"} = {"off", "dialing", "waiting"} /\ "off" \in {"off", "dialing", "waiting"}
      /\ "dialing" \in {"off", "dialing", "waiting"} /\ "waiting" \in {"off", "dialing", "waiting"}
  OBVIOUS
<1> QED BY <1>1, Zenon

(* What a step may do to the displays.                                     *)
LEMMA ShownStep ==
  ASSUME [Next]_vars
  PROVE  \/ shown' = shown
         \/ shown' = [shown EXCEPT !["panel"] = [code |-> pairing'.code, ttl |-> pairing'.ttl]]
         \/ /\ pairing' = fresh_pairing(minted')
            /\ shown' = [s \in Display |-> IF s = "terminal" THEN [code |-> minted', ttl |-> PAIRING_TTL] ELSE shown[s]]
         \/ /\ pairing' = [pairing EXCEPT !.ttl = Less(@)]
            /\ shown' = [s \in Display |-> [shown[s] EXCEPT !.ttl = Less(@)]]
  BY Zenon DEF Next, Served, vars, auth, counts, Redeem, Pair, Restart, Tick, Show,
     PairSucceeds, PairFails, RequestLost, pair_code_handler, CurrentCode, rotate_code_handler,
     RotateCode, revoke_handler, Revoke, Handshake, Retry, Drop, Attach, Detach

(* What a step may do to the bounds.                                       *)
LEMMA CountStep ==
  ASSUME [Next]_vars
  PROVE  /\ asked' \in {asked, asked + 1} /\ (asked' # asked => asked < MaxPairs)
         /\ drops' \in {drops, drops + 1} /\ (drops' # drops => drops < MaxDrops)
         /\ restarts' \in {restarts, restarts + 1} /\ (restarts' # restarts => restarts < MaxRestarts)
<1> USE DEF Next, Served, vars, auth, counts, Redeem, Pair, Restart, Tick,
     PairSucceeds, PairFails, RequestLost, pair_code_handler, CurrentCode, rotate_code_handler,
     RotateCode, revoke_handler, Revoke, Handshake, Retry, Drop, Attach, Detach
<1>1. asked' \in {asked, asked + 1}
  BY Zenon
<1>2. asked' # asked => asked < MaxPairs
  BY Zenon
<1>3. drops' \in {drops, drops + 1}
  BY Zenon
<1>4. drops' # drops => drops < MaxDrops
  BY Zenon
<1>5. restarts' \in {restarts, restarts + 1}
  BY Zenon
<1>6. restarts' # restarts => restarts < MaxRestarts
  BY Zenon
<1> QED BY <1>1, <1>2, <1>3, <1>4, <1>5, <1>6

(* The steps that touch neither a code's record nor the tokens.            *)
Quiet(d) ==
  \/ Handshake(d) \/ PairSucceeds(d) \/ PairFails(d) \/ Retry(d)
  \/ Drop(d) \/ RequestLost(d) \/ Attach(d) \/ Detach(d)
  \/ \E code \in {0, shown["terminal"].code, shown["panel"].code} : Pair(d, code)

LEMMA QuietStep ==
  ASSUME NEW d \in Device, Quiet(d)
  PROVE  UNCHANGED <<auth, shown, history>>
  BY DEF Quiet, Handshake, PairSucceeds, PairFails, Retry, Drop, RequestLost, Attach, Detach, Pair

(* The steps of the agent and of the devices, one by one.                  *)
LEMMA NextCases ==
  ASSUME [Next]_vars
  PROVE  \/ Restart \/ Tick \/ UNCHANGED vars
         \/ CurrentCode \/ RotateCode \/ Revoke
         \/ \E d \in Device : Redeem(d) \/ Quiet(d)
  BY Zenon DEF Next, Served, Quiet, pair_code_handler, rotate_code_handler, revoke_handler

(* What a step may do to the tokens.                                       *)
LEMMA TokenStep ==
  ASSUME [Next]_vars
  PROVE  \/ UNCHANGED <<tokens, issued, inherited>>
         \/ Restart /\ tokens' = {} /\ issued' = issued /\ inherited' = issued
         \/ tokens' = {} /\ issued' = issued /\ inherited' = inherited
         \/ issued' = issued + 1 /\ tokens' = tokens \cup {issued'} /\ inherited' = inherited
<1>1. CASE Restart
  BY <1>1 DEF Restart
<1>2. CASE Tick \/ UNCHANGED vars \/ CurrentCode \/ RotateCode
  BY <1>2 DEF Tick, CurrentCode, RotateCode, vars, auth, history
<1>3. CASE Revoke
  BY <1>3 DEF Revoke, history
<1>4. ASSUME NEW d \in Device, Redeem(d)
      PROVE  \/ UNCHANGED <<tokens, issued, inherited>>
             \/ issued' = issued + 1 /\ tokens' = tokens \cup {issued'} /\ inherited' = inherited
  BY <1>4 DEF Redeem, RedeemNothing, RedeemRight, RedeemWrong
<1>5. ASSUME NEW d \in Device, Quiet(d) PROVE UNCHANGED <<tokens, issued, inherited>>
  BY <1>5, QuietStep DEF auth, history
<1> QED BY <1>1, <1>2, <1>3, <1>4, <1>5, NextCases

(* What a step may write down about the codes.                             *)
LEMMA HistoryStep ==
  ASSUME [Next]_vars
  PROVE  \/ UNCHANGED <<wrong, sold, ended>>
         \/ UNCHANGED <<wrong, sold>> /\ ended' = ended \cup {pairing.code} /\ RotateCode
         \/ UNCHANGED <<wrong, sold>> /\ ended' = ended \cup {pairing.code, shown["panel"].code} /\ Restart
         \/ /\ pairing.ttl > 0 /\ pairing' = NoCode /\ ended' = ended \cup {pairing.code}
            /\ sold' = [sold EXCEPT ![pairing.code] = @ + 1] /\ wrong' = wrong
         \/ /\ pairing.ttl > 0 /\ wrong' = [wrong EXCEPT ![pairing.code] = @ + 1] /\ sold' = sold
            /\ \/ pairing.attempts > 1 /\ pairing' = [pairing EXCEPT !.attempts = @ - 1] /\ ended' = ended
               \/ ~(pairing.attempts > 1) /\ pairing' = NoCode /\ ended' = ended \cup {pairing.code}
<1>1. CASE Restart
  BY <1>1 DEF Restart
<1>2. CASE Tick \/ UNCHANGED vars \/ CurrentCode \/ Revoke
  BY <1>2 DEF Tick, CurrentCode, Revoke, vars, history
<1>3. CASE RotateCode
  BY <1>3 DEF RotateCode
<1>4. ASSUME NEW d \in Device, Redeem(d)
      PROVE  \/ UNCHANGED <<wrong, sold, ended>>
             \/ /\ pairing.ttl > 0 /\ pairing' = NoCode /\ ended' = ended \cup {pairing.code}
                /\ sold' = [sold EXCEPT ![pairing.code] = @ + 1] /\ wrong' = wrong
             \/ /\ pairing.ttl > 0 /\ wrong' = [wrong EXCEPT ![pairing.code] = @ + 1] /\ sold' = sold
                /\ \/ pairing.attempts > 1 /\ pairing' = [pairing EXCEPT !.attempts = @ - 1] /\ ended' = ended
                   \/ ~(pairing.attempts > 1) /\ pairing' = NoCode /\ ended' = ended \cup {pairing.code}
  BY Zenon, <1>4 DEF Redeem, RedeemNothing, RedeemRight, RedeemWrong
<1>5. ASSUME NEW d \in Device, Quiet(d) PROVE UNCHANGED <<wrong, sold, ended>>
  BY <1>5, QuietStep DEF history
<1> QED BY <1>1, <1>2, <1>3, <1>4, <1>5, NextCases

-----------------------------------------------------------------------------
(* Types                                                                   *)

(* The kept code keeps its type and stays one that was minted.             *)
LEMMA KeptCodeStep ==
  ASSUME TypeOK, KeptCode, [Next]_vars
  PROVE  /\ KeptCode' /\ minted' \in Code
         /\ pairing' \in [code : 0..MaxCodes, ttl : 0..PAIRING_TTL, attempts : 0..MAX_PAIRING_ATTEMPTS]
         /\ pairing'.attempts = 0 => pairing' = NoCode
<1>0. NoCode = [code |-> 0, ttl |-> 0, attempts |-> 0]
  BY DEF NoCode
<1>1. /\ pairing \in [code : 0..MaxCodes, ttl : 0..PAIRING_TTL, attempts : 0..MAX_PAIRING_ATTEMPTS]
      /\ pairing.attempts = 0 => pairing = NoCode
      /\ minted \in 1..MaxCodes
  BY DEF TypeOK, Code
<1>2. {PAIRING_TTL, MAX_PAIRING_ATTEMPTS, MaxCodes} \subseteq Nat \ {0}
  BY AccessAssumption
<1> USE <1>0, <1>1, <1>2 DEF KeptCode, Code
<1>3. CASE UNCHANGED <<pairing, minted>>
  BY <1>3
<1>4. CASE minted' = minted /\ pairing' = NoCode
  BY <1>4
<1>5. CASE minted < MaxCodes /\ minted' = minted + 1 /\ pairing' = fresh_pairing(minted')
  BY <1>5 DEF fresh_pairing
<1>6. CASE minted' = minted /\ pairing.attempts > 1 /\ pairing' = [pairing EXCEPT !.attempts = @ - 1]
  BY <1>6
<1>7. CASE minted' = minted /\ pairing' = [pairing EXCEPT !.ttl = Less(@)]
  BY <1>7 DEF Less
<1> QED BY <1>3, <1>4, <1>5, <1>6, <1>7, PairingStep

(* An answer holds a token exactly when one was granted.                   *)
RequestOK ==
  /\ \A d \in Device : request[d].token # 0 <=> request[d].at = "granted"
  /\ request \in [Device -> [at : {"none", "agent", "granted", "denied"}, code : 0..MaxCodes, token : 0..MaxPairs]]

LEMMA RequestTyped ==
  ASSUME TypeOK, [Next]_vars, issued' <= asked', asked' \in 0..MaxPairs
  PROVE  RequestOK'
<1> DEFINE R == [at : {"none", "agent", "granted", "denied"}, code : 0..MaxCodes, token : 0..MaxPairs]
<1>1. RequestOK /\ {0, shown["terminal"].code, shown["panel"].code} \subseteq 0..MaxCodes
      /\ issued \in Nat /\ MaxPairs \in Nat /\ MaxCodes \in Nat
  BY AccessAssumption DEF TypeOK, RequestOK, Display
<1>2. NoRequest \in R /\ Denied \in R /\ NoRequest.token = 0 /\ NoRequest.at = "none"
      /\ Denied.token = 0 /\ Denied.at = "denied"
  BY <1>1 DEF NoRequest, Denied
<1>3. ASSUME NEW d \in Device, NEW r \in R, r.token # 0 <=> r.at = "granted",
             request' = [request EXCEPT ![d] = r]
      PROVE  RequestOK'
  BY <1>1, <1>3 DEF RequestOK
<1>4. CASE request' = request
  BY <1>1, <1>4 DEF RequestOK
<1>5. CASE request' = [d \in Device |-> IF request[d].at = "agent" THEN Denied ELSE request[d]]
  BY <1>1, <1>2, <1>5 DEF RequestOK
<1>6. ASSUME issued' = issued + 1, asked' = asked
      PROVE  [at |-> "granted", code |-> 0, token |-> issued'] \in R /\ issued' # 0
  BY <1>1, <1>6
<1>7. ASSUME NEW code \in 0..MaxCodes PROVE [at |-> "agent", code |-> code, token |-> 0] \in R
  BY <1>1
<1>8. ASSUME NEW d \in Device, \/ request' = [request EXCEPT ![d] = NoRequest]
                               \/ request' = [request EXCEPT ![d] = Denied] PROVE RequestOK'
  BY <1>2, <1>3, <1>8
<1>9. ASSUME NEW d \in Device, issued' = issued + 1, asked' = asked,
             request' = [request EXCEPT ![d] = [at |-> "granted", code |-> 0, token |-> issued']]
      PROVE  RequestOK'
  BY <1>3, <1>6, <1>9
<1>10. ASSUME NEW d \in Device, NEW code \in 0..MaxCodes,
              request' = [request EXCEPT ![d] = [at |-> "agent", code |-> code, token |-> 0]]
       PROVE  RequestOK'
  BY <1>1, <1>3, <1>7, <1>10
<1> QED BY <1>1, <1>4, <1>5, <1>8, <1>9, <1>10, RequestStep

(* Every step keeps the types.                                             *)
LEMMA TypeStep ==
  ASSUME TypeOK, KeptCode, [Next]_vars, issued' <= asked'
  PROVE  TypeOK'
<1>1. /\ minted' \in Code
      /\ pairing' \in [code : 0..MaxCodes, ttl : 0..PAIRING_TTL, attempts : 0..MAX_PAIRING_ATTEMPTS]
      /\ pairing'.attempts = 0 => pairing' = NoCode
  BY KeptCodeStep
<1>2. asked' \in 0..MaxPairs /\ drops' \in 0..MaxDrops /\ restarts' \in 0..MaxRestarts
  BY CountStep, AccessAssumption DEF TypeOK
<1>3. RequestOK'
  BY <1>2, RequestTyped
<1>4. issued' \in 0..asked' /\ tokens' \subseteq 1..issued' /\ inherited' \in 0..issued'
  <2>1. issued \in Nat /\ tokens \subseteq 1..issued /\ inherited \in 0..issued /\ MaxPairs \in Nat
    BY AccessAssumption DEF TypeOK
  <2>2. asked' \in Nat /\ issued' <= asked'
    BY <1>2, <2>1
  <2>3. issued' \in {issued, issued + 1} /\ inherited' \in {issued, inherited}
    BY TokenStep
  <2>4. tokens' \subseteq tokens \cup {issued'} /\ (issued' = issued => tokens' \subseteq tokens)
    <3>1. issued' = issued => issued' # issued + 1
      BY <2>1
    <3> QED BY <3>1, TokenStep
  <2>5. issued' \in 0..asked' /\ inherited' \in 0..issued'
    BY <2>1, <2>2, <2>3
  <2>6. tokens' \subseteq 1..issued'
    BY <2>1, <2>3, <2>4
  <2> QED BY <2>5, <2>6
<1>5. shown' \in [Display -> [code : 0..MaxCodes, ttl : 0..PAIRING_TTL]]
  <2> USE DEF Display
  <2>1. shown \in [Display -> [code : 0..MaxCodes, ttl : 0..PAIRING_TTL]] /\ PAIRING_TTL \in Nat
    BY AccessAssumption DEF TypeOK
  <2>2. minted' \in 0..MaxCodes
    BY <1>1, AccessAssumption DEF Code
  <2> QED BY <1>1, <2>1, <2>2, ShownStep DEF Less
<1>6. store' \in [Device -> [token : 0..MaxPairs, paired : BOOLEAN, pairing : BOOLEAN]]
  <2>1. /\ store \in [Device -> [token : 0..MaxPairs, paired : BOOLEAN, pairing : BOOLEAN]]
        /\ \A d \in Device : request[d].token \in 0..MaxPairs /\ 0 \in 0..MaxPairs
    BY AccessAssumption DEF TypeOK
  <2>2. ASSUME NEW d \in Device, \/ store' = [store EXCEPT ![d].pairing = TRUE]
                                 \/ store' = [store EXCEPT ![d].paired = FALSE, ![d].pairing = FALSE]
                                 \/ store' = [store EXCEPT ![d].token = 0]
        PROVE  store' \in [Device -> [token : 0..MaxPairs, paired : BOOLEAN, pairing : BOOLEAN]]
    BY <2>1, <2>2
  <2>3. ASSUME NEW d \in Device,
               store' = [store EXCEPT ![d] = [token |-> request[d].token, paired |-> TRUE, pairing |-> FALSE]]
        PROVE  store' \in [Device -> [token : 0..MaxPairs, paired : BOOLEAN, pairing : BOOLEAN]]
    BY <2>1, <2>3
  <2> QED BY <2>1, <2>2, <2>3, StoreStep
<1>7. socket' \in [Device -> {"off", "dialing", "open", "waiting"}]
  BY SocketStep DEF TypeOK
<1>8. wrong' \in [Code -> Nat] /\ sold' \in [Code -> Nat]
  BY HistoryStep DEF TypeOK
<1>9. ended' \subseteq 0..MaxCodes
  <2>1. /\ ended \subseteq 0..MaxCodes /\ pairing.code \in 0..MaxCodes
        /\ shown["panel"].code \in 0..MaxCodes
    BY DEF TypeOK, Display
  <2>2. ended' \subseteq ended \cup {pairing.code, shown["panel"].code}
    BY HistoryStep
  <2> QED BY <2>1, <2>2
<1> QED BY <1>1, <1>2, <1>3, <1>4, <1>5, <1>6, <1>7, <1>8, <1>9 DEF TypeOK, RequestOK

-----------------------------------------------------------------------------
(* The properties                                                          *)

(* A store waits exactly while its request is somewhere.                   *)
LEMMA OneRequestStep ==
  ASSUME TypeOK, OneRequest, [Next]_vars
  PROVE  OneRequest'
<1>0. /\ DOMAIN request = Device /\ DOMAIN store = Device
      /\ request = [d \in Device |-> request[d]] /\ store = [d \in Device |-> store[d]]
      /\ \A d \in Device : /\ request[d] = [at |-> request[d].at, code |-> request[d].code, token |-> request[d].token]
                           /\ store[d] = [token |-> store[d].token, paired |-> store[d].paired, pairing |-> store[d].pairing]
                           /\ store[d].pairing \in BOOLEAN
  BY DEF TypeOK
<1> USE <1>0 DEF OneRequest
<1>1. CASE Restart
  BY <1>1 DEF Restart, Denied
<1>2. CASE Tick \/ UNCHANGED vars \/ CurrentCode \/ RotateCode \/ Revoke
  BY <1>2 DEF Tick, CurrentCode, RotateCode, Revoke, vars
<1>3. ASSUME NEW d \in Device, Redeem(d) PROVE OneRequest'
  <2>1. \E r : request' = [request EXCEPT ![d] = r] /\ r.at # "none"
    BY <1>3 DEF Redeem, RedeemNothing, RedeemRight, RedeemWrong, Denied
  <2>2. store' = store /\ request[d].at # "none"
    BY <1>3 DEF Redeem
  <2> QED BY <2>1, <2>2
<1>4. ASSUME NEW d \in Device, NEW code, Pair(d, code) PROVE OneRequest'
  BY <1>4 DEF Pair
<1>5. ASSUME NEW d \in Device, PairSucceeds(d) PROVE OneRequest'
  BY <1>5 DEF PairSucceeds, NoRequest
<1>6. ASSUME NEW d \in Device, PairFails(d) PROVE OneRequest'
  BY <1>6 DEF PairFails, NoRequest
<1>7. ASSUME NEW d \in Device, RequestLost(d) PROVE OneRequest'
  BY <1>7 DEF RequestLost, Denied
<1>8. ASSUME NEW d \in Device, Handshake(d) \/ Retry(d) \/ Drop(d) PROVE OneRequest'
  BY <1>8 DEF Handshake, Retry, Drop
<1>9. ASSUME NEW d \in Device, Attach(d) \/ Detach(d) PROVE OneRequest'
  BY <1>9 DEF Attach, Detach
<1> QED BY <1>1, <1>2, <1>3, <1>4, <1>5, <1>6, <1>7, <1>8, <1>9, NextCases DEF Quiet

(* A guess that misses costs the kept code one attempt, one that hits      *)
(* removes it, and a new code starts with none spent.                      *)
LEMMA BudgetStep ==
  ASSUME TypeOK, KeptCode, Budgets, [Next]_vars
  PROVE  Budgets'
<1>1. /\ wrong \in [Code -> Nat] /\ sold \in [Code -> Nat]
      /\ minted \in Code /\ MAX_PAIRING_ATTEMPTS \in Nat \ {0}
      /\ NoCode = [code |-> 0, ttl |-> 0, attempts |-> 0]
      /\ pairing.attempts \in Nat /\ pairing.code \in Nat /\ MaxCodes \in Nat
      /\ pairing = [code |-> pairing.code, ttl |-> pairing.ttl, attempts |-> pairing.attempts]
  BY AccessAssumption DEF TypeOK, NoCode
<1>2. pairing.ttl > 0 => pairing.code \in 1..minted /\ pairing.attempts \in 1..MAX_PAIRING_ATTEMPTS
  BY <1>1 DEF KeptCode
<1> USE <1>1 DEF Code
<1>3. CASE UNCHANGED <<wrong, sold>>
  <2>1. minted' \in Nat /\ minted' >= minted
    BY PairingStep
  <2>2. CASE pairing' = NoCode
    BY <1>3, <2>1, <2>2 DEF Budgets
  <2>3. CASE minted' = minted + 1 /\ pairing' = fresh_pairing(minted')
    BY <1>3, <2>3 DEF Budgets, fresh_pairing
  <2>4. CASE UNCHANGED <<pairing, minted>> \/ (minted' = minted /\ pairing' = [pairing EXCEPT !.ttl = Less(@)])
    <3>1. minted' = minted /\ pairing'.code = pairing.code /\ pairing'.attempts = pairing.attempts
      BY <2>4
    <3> QED BY <1>3, <3>1 DEF Budgets
  <2>5. CASE pairing.ttl > 0 /\ wrong' = [wrong EXCEPT ![pairing.code] = @ + 1]
    <3>1. wrong'[pairing.code] = wrong[pairing.code] + 1 /\ wrong[pairing.code] \in Nat
      BY <1>2, <2>5
    <3> QED BY <1>3, <3>1
  <2> QED BY <2>2, <2>3, <2>4, <2>5, PairingStep
<1>4. CASE /\ pairing.ttl > 0 /\ pairing' = NoCode
           /\ sold' = [sold EXCEPT ![pairing.code] = @ + 1] /\ wrong' = wrong
  <2>1. minted' \in Nat /\ minted' >= minted
    BY PairingStep
  <2>2. /\ pairing'.code = 0 /\ wrong' = wrong
        /\ pairing.code \in 1..minted /\ pairing.attempts \in 1..MAX_PAIRING_ATTEMPTS
    BY <1>2, <1>4
  <2>3. \A c \in Code : sold'[c] = IF c = pairing.code THEN sold[c] + 1 ELSE sold[c]
    BY <1>4
  <2>4. ASSUME NEW c \in Code
        PROVE  /\ sold'[c] + wrong[c] <= MAX_PAIRING_ATTEMPTS /\ sold'[c] <= 1
               /\ c > minted => sold'[c] = 0 /\ wrong[c] = 0
    <3>1. CASE c = pairing.code
      <4>1. /\ sold[c] = 0 /\ wrong[c] + pairing.attempts = MAX_PAIRING_ATTEMPTS /\ wrong[c] \in Nat
        BY <3>1 DEF Budgets
      <4> QED BY <2>2, <2>3, <3>1, <4>1
    <3>2. CASE c # pairing.code
      BY <2>3, <3>2 DEF Budgets
    <3> QED BY <3>1, <3>2
  <2> QED
    <3>1. \A c \in Code : c # pairing'.code
      BY <2>2
    <3>2. \A c \in Code : c > minted' => c > minted
      BY <2>1
    <3> QED BY <2>2, <2>4, <3>1, <3>2 DEF Budgets
<1>5. CASE /\ pairing.ttl > 0 /\ wrong' = [wrong EXCEPT ![pairing.code] = @ + 1] /\ sold' = sold
           /\ \/ pairing.attempts > 1 /\ pairing' = [pairing EXCEPT !.attempts = @ - 1]
              \/ pairing' = NoCode
  <2>1. minted' \in Nat /\ minted' >= minted
    BY PairingStep
  <2>2. \/ pairing'.code = 0
        \/ pairing'.code = pairing.code /\ pairing'.attempts = pairing.attempts - 1
    BY <1>5
  <2>3. \A c \in Code : wrong'[c] = IF c = pairing.code THEN wrong[c] + 1 ELSE wrong[c]
    BY <1>5
  <2> QED BY <1>2, <1>5, <2>1, <2>2, <2>3 DEF Budgets
<1> QED BY <1>3, <1>4, <1>5, HistoryStep

(* The countdown of a display never outlives that of its code, and only a  *)
(* code that is written down as ended is taken from under a display.       *)
LEMMA ShownStepGood ==
  ASSUME TypeOK, KeptCode, ShownIsGood, [Next]_vars
  PROVE  ShownIsGood'
<1>1. /\ shown \in [Display -> [code : 0..MaxCodes, ttl : 0..PAIRING_TTL]]
      /\ pairing.ttl \in Nat /\ pairing.code \in Nat /\ minted \in Nat
      /\ PAIRING_TTL \in Nat \ {0}
      /\ NoCode = [code |-> 0, ttl |-> 0, attempts |-> 0]
      /\ pairing = [code |-> pairing.code, ttl |-> pairing.ttl, attempts |-> pairing.attempts]
  BY AccessAssumption DEF TypeOK, NoCode, Code
<1> USE <1>1 DEF ShownIsGood, Display, fresh_pairing
<1>2. CASE Restart
  BY <1>2 DEF Restart
<1>3. CASE Tick
  BY <1>3 DEF Tick, Less, history
<1>4. CASE CurrentCode
  BY <1>4 DEF CurrentCode, Show, history
<1>5. CASE RotateCode
  BY <1>5 DEF RotateCode, Show
<1>6. CASE Revoke \/ UNCHANGED vars
  BY <1>6 DEF Revoke, vars, auth, history
<1>7. ASSUME NEW d \in Device, Redeem(d) PROVE ShownIsGood'
  <2>1. shown' = shown
    BY <1>7 DEF Redeem
  <2>2. CASE RedeemNothing(d)
    BY <2>1, <2>2 DEF RedeemNothing
  <2>3. CASE RedeemRight(d)
    BY <2>1, <2>3 DEF RedeemRight
  <2>4. CASE RedeemWrong(d)
    BY <2>1, <2>4 DEF RedeemWrong
  <2> QED BY <1>7, <2>2, <2>3, <2>4 DEF Redeem
<1>8. ASSUME NEW d \in Device, Quiet(d) PROVE ShownIsGood'
  BY <1>8, QuietStep DEF auth, history
<1> QED BY <1>2, <1>3, <1>4, <1>5, <1>6, <1>7, <1>8, NextCases

(* A session is only opened with a token of this process, and a restart,   *)
(* which forgets them, breaks every session.                               *)
LEMMA OpenStep ==
  ASSUME TypeOK, TokensOfNow, OpenIsAuthorized, [Next]_vars
  PROVE  TokensOfNow' /\ OpenIsAuthorized'
<1>1. /\ issued \in Nat /\ inherited \in Nat /\ inherited <= issued
      /\ socket \in [Device -> {"off", "dialing", "open", "waiting"}]
      /\ store \in [Device -> [token : 0..MaxPairs, paired : BOOLEAN, pairing : BOOLEAN]]
  BY DEF TypeOK
<1>2. tokens' \subseteq (inherited' + 1)..issued'
  <2>1. CASE UNCHANGED <<tokens, issued, inherited>>
    BY <2>1 DEF TokensOfNow
  <2>2. CASE tokens' = {}
    BY <2>2
  <2>3. CASE issued' = issued + 1 /\ tokens' = tokens \cup {issued'} /\ inherited' = inherited
    BY <1>1, <2>3 DEF TokensOfNow
  <2> QED BY <2>1, <2>2, <2>3, TokenStep
<1>3. CASE Restart
  <2>1. \A d \in Device : socket'[d] # "open"
    BY <1>1, <1>3 DEF Restart
  <2> QED BY <1>2, <2>1 DEF TokensOfNow, OpenIsAuthorized
<1>4. CASE ~Restart
  <2> DEFINE Now == (inherited + 1)..issued
  <2>1. Now \subseteq Now'
    <3>1. inherited' = inherited /\ issued' \in {issued, issued + 1}
      BY <1>4, TokenStep
    <3> QED BY <1>1, <3>1
  <2>2. tokens \subseteq Now
    BY DEF TokensOfNow
  <2>3. ASSUME NEW d \in Device, socket'[d] = "open"
        PROVE  d \notin Foreign /\ (d \in Remote => store'[d].token \in Now)
    <3>0. socket[d] = "open" => d \notin Foreign /\ (d \in Remote => store[d].token \in Now)
      BY DEF OpenIsAuthorized
    <3> HIDE DEF Now
    <3>1. CASE UNCHANGED <<socket, store>>
      BY <2>3, <3>0, <3>1
    <3>2. ASSUME NEW e \in Device, Handshake(e)
          PROVE  d \notin Foreign /\ (d \in Remote => store'[d].token \in Now)
      BY <1>1, <2>2, <2>3, <3>0, <3>2 DEF Handshake, Admits, origin_allowed, authed
    <3>3. ASSUME NEW e \in Device, PairSucceeds(e) \/ Attach(e) \/ Detach(e)
          PROVE  d \notin Foreign /\ (d \in Remote => store'[d].token \in Now)
      <4>1. /\ socket'[e] # "open" /\ \A f \in Device \ {e} : socket'[f] = socket[f] /\ store'[f] = store[f]
        BY <1>1, <3>3 DEF PairSucceeds, Attach, Detach
      <4> QED BY <2>3, <3>0, <4>1
    <3>4. ASSUME NEW e \in Device, Retry(e) \/ Drop(e)
          PROVE  d \notin Foreign /\ (d \in Remote => store'[d].token \in Now)
      BY <1>1, <2>3, <3>0, <3>4 DEF Retry, Drop
    <3>5. ASSUME NEW e \in Device, NEW code, PairFails(e) \/ Pair(e, code)
          PROVE  d \notin Foreign /\ (d \in Remote => store'[d].token \in Now)
      <4>1. socket' = socket /\ \A f \in Device : store'[f].token = store[f].token
        BY <1>1, <3>5 DEF PairFails, Pair
      <4> QED BY <2>3, <3>0, <4>1
    <3>6. ASSUME NEW e \in Device, Redeem(e) \/ RequestLost(e) PROVE UNCHANGED <<socket, store>>
      BY <3>6 DEF Redeem, RequestLost
    <3>7. CASE Tick \/ UNCHANGED vars \/ CurrentCode \/ RotateCode \/ Revoke
      BY <3>1, <3>7 DEF Tick, CurrentCode, RotateCode, Revoke, vars
    <3> QED BY <1>4, <3>1, <3>2, <3>3, <3>4, <3>5, <3>6, <3>7, NextCases DEF Quiet
  <2> QED BY <1>2, <2>1, <2>3 DEF TokensOfNow, OpenIsAuthorized
<1> QED BY <1>2, <1>3, <1>4 DEF TokensOfNow

-----------------------------------------------------------------------------

(* The inductive invariant holds in every reachable state, for any         *)
(* devices, lifetime of a code, number of attempts, losses and restarts.   *)
THEOREM Invariance == Spec => []IInv
<1>1. IInv /\ [Next]_vars => IInv'
  <2> SUFFICES ASSUME IInv, [Next]_vars PROVE IInv'
    OBVIOUS
  <2>1. TokensAskedFor' /\ issued' <= asked'
    BY AskingStep DEF IInv
  <2>2. TypeOK' /\ KeptCode'
    BY <2>1, TypeStep, KeptCodeStep DEF IInv
  <2>3. OneRequest' /\ Budgets' /\ ShownIsGood'
    BY OneRequestStep, BudgetStep, ShownStepGood DEF IInv
  <2>4. TokensOfNow' /\ OpenIsAuthorized'
    BY OpenStep DEF IInv
  <2> QED BY <2>1, <2>2, <2>3, <2>4 DEF IInv
<1> QED BY <1>1, InitInv, PTL DEF Spec

(* However guesses, rotations and expiry interleave, a code is compared    *)
(* with no more guesses than allowed and buys one token at most, and a     *)
(* code on display buys one until its countdown ends (AuthState::redeem,   *)
(* current_code).                                                          *)
THEOREM CodePromises == Spec => []CodesHold
<1>1. IInv => CodesHold
  BY DEF IInv, CodesHold, CodeBudget, Budgets, TypeOK
<1> QED BY <1>1, Invariance, PTL

(* An open session belongs to a page the agent trusts, and a remote one    *)
(* holds a token that the running process issued (ws_handler).             *)
THEOREM OpenAuthorized == Spec => []OpenIsAuthorized
<1>1. IInv => OpenIsAuthorized
  BY DEF IInv
<1> QED BY <1>1, Invariance, PTL
=============================================================================
