--------------------------- MODULE EnforcerProofs ---------------------------
(***************************************************************************)
(* What holds of the helper for every set of addresses, every cap and any  *)
(* number of failures: the never-block floor, and that nothing unlisted is *)
(* dropped but what an earlier process left, with either backend; of the   *)
(* nft backend, that it implements BlockList; of the wfw backend, that its *)
(* mirror, List and the firewall agree as long as no command has failed,   *)
(* and what a Stop leaves.                                                 *)
(***************************************************************************)
EXTENDS Enforcer, FiniteSetTheorems, TLAPS

(* The floor is inductive once it covers every set an address passes       *)
(* through on its way to the firewall.                                     *)
Floor == (kernel \cup mirror \cup blocked \cup toAdd) \cap Protected = {}

(* The nft backend between any two steps.  While a Clear is half done List *)
(* is ahead of the firewall; the cap covers what is about to be added, and *)
(* what is about to be removed is listed.                                  *)
NftView ==
  /\ ~running /\ stopper = "none"
  /\ life # "serving" => blocked = {} /\ server = "listen"
  /\ IF server = "emptying" THEN kernel = {} ELSE blocked \subseteq kernel
  /\ life = "serving" => kernel \ blocked \subseteq inherited
  /\ server \in {"adding", "removing"} => toRemove \subseteq blocked
  /\ Cardinality(IF server = "adding" THEN blocked \cup toAdd ELSE blocked) <= MaxBlocked
  /\ Cardinality(kernel \ inherited) <= MaxBlocked

(* The wfw backend between any two steps.  A Clear of the server empties   *)
(* the firewall and its mirror before the list; one of a Stop, after which *)
(* the views are not compared, may come between.                           *)
WfwView ==
  /\ table = "here"
  /\ life # "serving" =>
       blocked = {} /\ mirror = {} /\ server = "listen" /\ stopper = "none" /\ ~running
  /\ life = "serving" /\ stopper = "none" /\ failures = 0 =>
       /\ mirror = kernel
       /\ IF server = "emptying" THEN kernel = {} ELSE blocked = kernel

(* The wfw backend whatever fails: a script can lose rules and none can    *)
(* bring back what the list has lost; nor, once Stop has cleared, what was *)
(* there before.                                                           *)
WfwBound ==
  /\ life = "serving" /\ stopper = "none" =>
       /\ kernel \cup mirror \subseteq blocked
       /\ server = "emptying" => kernel \cup mirror = {}
  /\ stopper \in {"emptying", "done"} => kernel \cup mirror \subseteq late

IInv == TypeOK /\ Floor /\ (~Wfw => NftView) /\ (Wfw => WfwView /\ WfwBound)

-----------------------------------------------------------------------------
(* Every subset of Addr is finite, and a smaller set has fewer elements.   *)
LEMMA SubsetCard ==
  ASSUME NEW S \in SUBSET Addr, NEW T \in SUBSET S
  PROVE  /\ Cardinality(S) \in Nat /\ Cardinality(T) \in Nat
         /\ Cardinality(T) <= Cardinality(S)
  BY EnforcerAssumption, FS_Subset, FS_CardinalityType

(* A union has at most the elements of both.                               *)
LEMMA UnionCard ==
  ASSUME NEW S \in SUBSET Addr, NEW T \in SUBSET Addr
  PROVE  Cardinality(S \cup T) <= Cardinality(S) + Cardinality(T)
<1>1. IsFiniteSet(S) /\ IsFiniteSet(T) /\ IsFiniteSet(S \cap T)
  BY EnforcerAssumption, FS_Subset
<1>2. Cardinality(S \cup T) = Cardinality(S) + Cardinality(T) - Cardinality(S \cap T)
  BY <1>1, FS_Union
<1> QED BY <1>1, <1>2, FS_CardinalityType

-----------------------------------------------------------------------------
(* The initial states satisfy the invariant.                               *)
LEMMA InitInv == Init => IInv
<1> SUFFICES ASSUME Init PROVE IInv
  OBVIOUS
<1>1. TypeOK
  <2>1. /\ running \in BOOLEAN /\ stopAsked \in BOOLEAN
        /\ backend \in {"nft", "wfw"}
    BY Zenon DEF Init
  <2>2. /\ table = TableAfterClear /\ life = "down" /\ server = "listen"
        /\ stopper = "none" /\ failures = 0
        /\ kernel = {} /\ blocked = {} /\ mirror = {} /\ inherited = {}
        /\ toAdd = {} /\ toRemove = {} /\ late = {}
    BY Zenon DEF Init
  <2> QED BY <2>1, <2>2, EnforcerAssumption DEF TypeOK, TableAfterClear
<1>2. Floor
  BY DEF Init, Floor
<1>3. NftView
  <2>1. kernel \ inherited = {} /\ blocked = {} /\ kernel = {}
        /\ life = "down" /\ server = "listen" /\ ~running /\ stopper = "none"
    BY Zenon DEF Init
  <2> QED BY <2>1, FS_EmptySet, EnforcerAssumption DEF NftView
<1>4. Wfw => WfwView
  BY DEF Init, WfwView, TableAfterClear
<1>5. WfwBound
  BY DEF Init, WfwBound
<1> QED BY <1>1, <1>2, <1>3, <1>4, <1>5 DEF IInv

(* The helper does not change its backend.                                 *)
LEMMA BackendFixed == [Next]_vars => backend' = backend /\ Wfw' = Wfw
<1>1. [Next]_vars => backend' = backend
  BY DEF Next, vars
<1>2. backend' = backend => Wfw' = Wfw
  BY DEF Wfw
<1> QED BY <1>1, <1>2

(* Every step keeps the types.                                             *)
LEMMA TypeStep == TypeOK /\ [Next]_vars => TypeOK'
<1> SUFFICES ASSUME TypeOK, [Next]_vars PROVE TypeOK'
  OBVIOUS
<1>0. backend' = backend
  BY BackendFixed
<1> USE <1>0, EnforcerAssumption DEF TypeOK
<1>1. CASE Start
  BY <1>1 DEF Start, firewall, request, service
<1>2. CASE Serve
  <2>1. running' \in BOOLEAN
    BY <1>2, Zenon DEF Serve, Wfw
  <2>2. /\ EnsureSucceeds /\ life' = "serving" /\ inherited' = kernel'
        /\ UNCHANGED <<request, stopper, stopAsked, late, blocked>>
    BY <1>2, Zenon DEF Serve
  <2>3. /\ table' = "here" /\ UNCHANGED <<mirror, failures>>
        /\ kernel' = mirror \/ kernel' = kernel
    BY <2>2 DEF EnsureSucceeds
  <2> QED BY <2>1, <2>2, <2>3 DEF request
<1>3. CASE GiveUp
  <2>1. /\ failures' \in 0..MaxFailures /\ table' = table /\ inherited' = inherited
        /\ kernel' = kernel \/ kernel' = {}
    BY <1>3 DEF GiveUp, EnsureFails, Fail
  <2>2. Forget
    BY <1>3 DEF GiveUp
  <2> QED BY <2>1, <2>2 DEF Forget
<1>4. CASE Crash
  BY <1>4 DEF Crash, Forget
<1>5. ASSUME NEW add \in SUBSET Addr, NEW remove \in SUBSET Addr, ReceiveApply(add, remove)
      PROVE  TypeOK'
  BY <1>5 DEF ReceiveApply, Addable, firewall, service
<1>6. CASE ReceiveClear
  BY <1>6 DEF ReceiveClear, Listening, firewall, service
<1>7. CASE AddElements
  BY <1>7 DEF AddElements, Rewrite, Members, ChangeFails, Fail, Answer, firewall, service
<1>8. CASE RemoveElements
  BY <1>8 DEF RemoveElements, Rewrite, Members, ChangeFails, Fail, Answer, firewall, service
<1>9. CASE ClearFirewall
  BY <1>9 DEF ClearFirewall, ClearSucceeds, ClearFails, Fail, TableAfterClear, service
<1>10. CASE ClearSet
  BY <1>10 DEF ClearSet, EnsureSucceeds, EnsureFails, Fail, service
<1>11. CASE Stop
  BY <1>11 DEF Stop, firewall, request
<1>12. CASE StopClearsFirewall
  BY <1>12 DEF StopClearsFirewall, ClearSucceeds, ClearFails, Fail, TableAfterClear, request
<1>13. CASE StopClearsSet
  BY <1>13 DEF StopClearsSet, EnsureSucceeds, EnsureFails, Fail, request
<1>14. CASE Exit
  BY <1>14 DEF Exit, Forget
<1>15. CASE UNCHANGED vars
  BY <1>15 DEF vars, firewall, request, service
<1> QED
  BY <1>1, <1>2, <1>3, <1>4, <1>5, <1>6, <1>7, <1>8, <1>9, <1>10, <1>11, <1>12,
     <1>13, <1>14, <1>15 DEF Next, Request, Handle, Control

(* No step lets a protected address in.                                    *)
LEMMA FloorStep == TypeOK /\ Floor /\ [Next]_vars => Floor'
<1> SUFFICES ASSUME TypeOK, Floor, [Next]_vars PROVE Floor'
  OBVIOUS
<1> USE DEF Floor
<1>1. CASE Start
  BY <1>1 DEF Start, firewall, request
<1>2. CASE Serve
  BY <1>2 DEF Serve, EnsureSucceeds, request
<1>3. CASE GiveUp
  BY <1>3 DEF GiveUp, EnsureFails, Fail, Forget
<1>4. CASE Crash
  BY <1>4 DEF Crash, Forget
<1>5. ASSUME NEW add \in SUBSET Addr, NEW remove \in SUBSET Addr, ReceiveApply(add, remove)
      PROVE  Floor'
  BY <1>5 DEF ReceiveApply, Addable, firewall
<1>6. CASE ReceiveClear
  BY <1>6 DEF ReceiveClear, firewall
<1>7. CASE AddElements
  BY <1>7 DEF AddElements, Rewrite, Members, ChangeFails, Fail, Answer, firewall
<1>8. CASE RemoveElements
  BY <1>8 DEF RemoveElements, Rewrite, Members, ChangeFails, Fail, Answer, firewall
<1>9. CASE ClearFirewall
  BY <1>9 DEF ClearFirewall, ClearSucceeds, ClearFails, Fail
<1>10. CASE ClearSet
  BY <1>10 DEF ClearSet, EnsureSucceeds, EnsureFails, Fail
<1>11. CASE Stop
  BY <1>11 DEF Stop, firewall, request
<1>12. CASE StopClearsFirewall
  BY <1>12 DEF StopClearsFirewall, ClearSucceeds, ClearFails, Fail, request
<1>13. CASE StopClearsSet
  BY <1>13 DEF StopClearsSet, EnsureSucceeds, EnsureFails, Fail, request
<1>14. CASE Exit
  BY <1>14 DEF Exit, Forget
<1>15. CASE UNCHANGED vars
  BY <1>15 DEF vars, firewall, request
<1> QED
  BY <1>1, <1>2, <1>3, <1>4, <1>5, <1>6, <1>7, <1>8, <1>9, <1>10, <1>11, <1>12,
     <1>13, <1>14, <1>15 DEF Next, Request, Handle, Control

(* No step of the nft backend lets List and the firewall drift apart.      *)
LEMMA NftStep ==
  TypeOK /\ TypeOK' /\ ~Wfw /\ NftView /\ [Next]_vars => NftView'
<1> SUFFICES ASSUME TypeOK, TypeOK', ~Wfw, NftView, [Next]_vars PROVE NftView'
  OBVIOUS
<1>a. ~Wfw /\ Members = kernel
  BY DEF Members
<1>b. Cardinality({}) = 0 /\ MaxBlocked \in Nat
  BY FS_EmptySet, EnforcerAssumption
<1> USE DEF NftView
<1>1. CASE Start
  BY <1>1 DEF Start, firewall, request, service
<1>2. CASE Serve
  <2>1. kernel' \ inherited' = {}
    BY <1>2 DEF Serve
  <2>2. ~running'
    BY <1>a, <1>2, Zenon DEF Serve
  <2> QED BY <1>a, <1>b, <1>2, <2>1, <2>2 DEF Serve, EnsureSucceeds, request
<1>3. CASE GiveUp
  BY <1>a, <1>b, <1>3 DEF GiveUp, EnsureFails, Fail, Forget
<1>4. CASE Crash
  BY <1>b, <1>4 DEF Crash, Forget
<1>5. ASSUME NEW add \in SUBSET Addr, NEW remove \in SUBSET Addr, ReceiveApply(add, remove)
      PROVE  NftView'
  <2>1. /\ toAdd' \in SUBSET Addr /\ blocked \in SUBSET Addr
        /\ Cardinality(blocked) + Cardinality(toAdd') <= MaxBlocked
    BY <1>5 DEF ReceiveApply, Addable, TypeOK
  <2>2. Cardinality(blocked \cup toAdd') <= Cardinality(blocked) + Cardinality(toAdd')
    BY <2>1, UnionCard
  <2>3. Cardinality(blocked \cup toAdd') <= MaxBlocked
    <3>1. blocked \cup toAdd' \in SUBSET Addr
      BY <2>1
    <3>2. /\ Cardinality(blocked \cup toAdd') \in Nat /\ Cardinality(blocked) \in Nat
          /\ Cardinality(toAdd') \in Nat
      BY <2>1, <3>1, SubsetCard
    <3> QED BY <1>b, <2>1, <2>2, <3>2
  <2> QED BY <1>5, <2>3 DEF ReceiveApply, Listening, firewall, service
<1>6. CASE ReceiveClear
  BY <1>6 DEF ReceiveClear, Listening, firewall, service
<1>7. CASE AddElements
  <2>1. CASE /\ IF toAdd = {} THEN UNCHANGED <<firewall, failures>>
                              ELSE Rewrite(Members \cup toAdd)
             /\ blocked' = blocked \cup toAdd
             /\ server' = "removing"
             /\ UNCHANGED <<toAdd, toRemove>>
    <3>1. kernel' = kernel \cup toAdd
      BY <1>a, <2>1 DEF Rewrite, firewall
    <3> DEFINE new == kernel' \ inherited
    <3>2. life = "serving" /\ server = "adding"
      BY <1>7 DEF AddElements
    <3>3. new \subseteq blocked \cup toAdd
      BY <3>1, <3>2
    <3>4. Cardinality(blocked \cup toAdd) <= MaxBlocked
      BY <3>2
    <3>5. blocked \cup toAdd \in SUBSET Addr /\ new \in SUBSET (blocked \cup toAdd)
      BY <3>3 DEF TypeOK
    <3>6. Cardinality(new) <= MaxBlocked
      BY <1>b, <3>4, <3>5, SubsetCard
    <3> QED BY <1>7, <2>1, <3>1, <3>2, <3>4, <3>6 DEF AddElements, service
  <2>2. CASE toAdd # {} /\ ChangeFails /\ Answer /\ UNCHANGED blocked
    <3>1. UNCHANGED kernel
      BY <1>a, <2>2 DEF ChangeFails, Fail, firewall
    <3>2. Cardinality(blocked) <= MaxBlocked
      <4>1. blocked \cup toAdd \in SUBSET Addr /\ blocked \in SUBSET (blocked \cup toAdd)
        BY DEF TypeOK
      <4>2. Cardinality(blocked \cup toAdd) <= MaxBlocked
        BY <1>7 DEF AddElements
      <4> QED BY <1>b, <4>1, <4>2, SubsetCard
    <3> QED BY <1>7, <2>2, <3>1, <3>2 DEF AddElements, Answer, service
  <2> QED BY <1>7, <2>1, <2>2 DEF AddElements
<1>8. CASE RemoveElements
  <2>1. \/ kernel' = kernel \ toRemove /\ blocked' = blocked \ toRemove
        \/ UNCHANGED <<kernel, blocked>>
    BY <1>a, <1>8 DEF RemoveElements, Rewrite, ChangeFails, Fail, firewall
  <2>2. server = "removing" /\ server' = "listen" /\ life' = life
        /\ inherited' = inherited /\ running' = running /\ stopper' = stopper
    BY <1>8 DEF RemoveElements, Answer, service
  <2>3. Cardinality(blocked) <= MaxBlocked /\ Cardinality(kernel \ inherited) <= MaxBlocked
    BY <2>2
  <2>4. /\ blocked \in SUBSET Addr /\ blocked' \in SUBSET blocked
        /\ kernel \ inherited \in SUBSET Addr
        /\ kernel' \ inherited \in SUBSET (kernel \ inherited)
    BY <2>1 DEF TypeOK
  <2>5. Cardinality(blocked') <= MaxBlocked /\ Cardinality(kernel' \ inherited) <= MaxBlocked
    BY <1>b, <2>3, <2>4, SubsetCard
  <2> QED BY <2>1, <2>2, <2>5
<1>9. CASE ClearFirewall
  <2>1. \/ kernel' = kernel /\ server' = "listen"
        \/ kernel' = {} /\ server' = "emptying"
    BY <1>a, <1>9 DEF ClearFirewall, ClearSucceeds, ClearFails, Fail
  <2>2. {} \ inherited = {}
    OBVIOUS
  <2>3. server = "clearing" /\ server' \in {"emptying", "listen"}
    BY <1>9 DEF ClearFirewall
  <2> QED BY <1>b, <1>9, <2>1, <2>2, <2>3 DEF ClearFirewall, service
<1>10. CASE ClearSet
  <2>1. UNCHANGED kernel
    BY <1>a, <1>10 DEF ClearSet, EnsureSucceeds, EnsureFails, Fail
  <2> QED BY <1>b, <1>10, <2>1 DEF ClearSet, service
<1>11. CASE Stop
  BY <1>a, <1>11 DEF Stop
<1>12. CASE StopClearsFirewall
  BY <1>12 DEF StopClearsFirewall
<1>13. CASE StopClearsSet
  BY <1>13 DEF StopClearsSet
<1>14. CASE Exit
  BY <1>14 DEF Exit
<1>15. CASE UNCHANGED vars
  BY <1>15 DEF vars, firewall, request, service
<1> QED
  BY <1>1, <1>2, <1>3, <1>4, <1>5, <1>6, <1>7, <1>8, <1>9, <1>10, <1>11, <1>12,
     <1>13, <1>14, <1>15 DEF Next, Request, Handle, Control

(* No step of the wfw backend that succeeds lets the mirror, List and the  *)
(* firewall drift apart.                                                   *)
LEMMA WfwStep ==
  TypeOK /\ Wfw /\ WfwView /\ [Next]_vars => WfwView'
<1> SUFFICES ASSUME TypeOK, Wfw, WfwView, [Next]_vars PROVE WfwView'
  OBVIOUS
<1>a. Wfw /\ Members = mirror /\ TableAfterClear = "here" /\ failures \in Nat
  BY EnforcerAssumption DEF Members, TableAfterClear, TypeOK
<1> USE <1>a DEF WfwView
<1>1. CASE Start
  BY <1>1 DEF Start, firewall, request, service
<1>2. CASE Serve
  BY <1>2 DEF Serve, EnsureSucceeds, request
<1>3. CASE GiveUp
  BY <1>3 DEF GiveUp, EnsureFails, Fail, Forget
<1>4. CASE Crash
  BY <1>4 DEF Crash, Forget
<1>5. ASSUME NEW add \in SUBSET Addr, NEW remove \in SUBSET Addr, ReceiveApply(add, remove)
      PROVE  WfwView'
  BY <1>5 DEF ReceiveApply, Listening, firewall, service
<1>6. CASE ReceiveClear
  BY <1>6 DEF ReceiveClear, Listening, firewall, service
<1>7. CASE AddElements
  <2>1. /\ server = "adding" /\ server' \in {"listen", "removing"}
        /\ life' = life /\ stopper' = stopper /\ running' = running
    BY <1>7 DEF AddElements, Answer, service
  <2>2. \/ /\ kernel' = kernel /\ mirror' = mirror /\ table' = table /\ failures' = failures
           /\ toAdd = {} /\ blocked' = blocked \cup toAdd
        \/ /\ kernel' = mirror \cup toAdd /\ mirror' = mirror \cup toAdd
           /\ table' = table /\ failures' = failures /\ blocked' = blocked \cup toAdd
        \/ failures' # 0 /\ table' = table
    BY <1>7 DEF AddElements, Rewrite, ChangeFails, Fail, firewall
  <2>3. life = "serving" /\ server # "emptying" /\ table = "here"
    BY <2>1
  <2>4. \/ failures' # 0
        \/ failures' = failures /\ (mirror = kernel /\ blocked = kernel => mirror' = kernel' /\ blocked' = kernel')
    BY <2>2
  <2>5. table' = "here"
    BY <2>2, <2>3
  <2> QED BY <2>1, <2>3, <2>4, <2>5
<1>8. CASE RemoveElements
  <2>1. /\ server = "removing" /\ server' = "listen"
        /\ life' = life /\ stopper' = stopper /\ running' = running
    BY <1>8 DEF RemoveElements, Answer, service
  <2>2. \/ /\ kernel' = kernel /\ mirror' = mirror /\ table' = table /\ failures' = failures
           /\ toRemove = {} /\ blocked' = blocked \ toRemove
        \/ /\ kernel' = mirror \ toRemove /\ mirror' = mirror \ toRemove
           /\ table' = table /\ failures' = failures /\ blocked' = blocked \ toRemove
        \/ failures' # 0 /\ table' = table
    BY <1>8 DEF RemoveElements, Rewrite, ChangeFails, Fail, firewall
  <2>3. life = "serving" /\ server # "emptying" /\ table = "here"
    BY <2>1
  <2>4. \/ failures' # 0
        \/ failures' = failures /\ (mirror = kernel /\ blocked = kernel => mirror' = kernel' /\ blocked' = kernel')
    BY <2>2
  <2>5. table' = "here"
    BY <2>2, <2>3
  <2> QED BY <2>1, <2>3, <2>4, <2>5
<1>9. CASE ClearFirewall
  <2>1. \/ kernel' = {} /\ mirror' = {} /\ table' = "here" /\ failures' = failures /\ server' = "emptying"
        \/ failures' # 0 /\ table' = table
    BY <1>9 DEF ClearFirewall, ClearSucceeds, ClearFails, Fail
  <2>2. server = "clearing" /\ life' = life /\ stopper' = stopper /\ running' = running
    BY <1>9 DEF ClearFirewall, service
  <2> QED BY <2>1, <2>2
<1>10. CASE ClearSet
  BY <1>10 DEF ClearSet, EnsureSucceeds, EnsureFails, Fail, service
<1>11. CASE Stop
  BY <1>11 DEF Stop, firewall, request
<1>12. CASE StopClearsFirewall
  BY <1>12 DEF StopClearsFirewall, ClearSucceeds, ClearFails, Fail, request
<1>13. CASE StopClearsSet
  BY <1>13 DEF StopClearsSet, EnsureSucceeds, EnsureFails, Fail, request
<1>14. CASE Exit
  BY <1>14 DEF Exit, Forget
<1>15. CASE UNCHANGED vars
  BY <1>15 DEF vars, firewall, request, service
<1> QED
  BY <1>1, <1>2, <1>3, <1>4, <1>5, <1>6, <1>7, <1>8, <1>9, <1>10, <1>11, <1>12,
     <1>13, <1>14, <1>15 DEF Next, Request, Handle, Control

(* Nor does a script that fails, or a Stop beside a request, bring back    *)
(* what is listed no more.                                                 *)
LEMMA WfwBoundStep ==
  TypeOK /\ Wfw /\ WfwView /\ WfwBound /\ [Next]_vars => WfwBound'
<1> SUFFICES ASSUME TypeOK, Wfw, WfwView, WfwBound, [Next]_vars PROVE WfwBound'
  OBVIOUS
<1>a. Wfw /\ Members = mirror
  BY DEF Members
<1> USE <1>a DEF WfwBound
<1>1. CASE Start
  BY <1>1 DEF Start, firewall, request, service
<1>2. CASE Serve
  <2>1. /\ life = "starting" /\ kernel' = mirror /\ mirror' = mirror /\ blocked' = blocked
        /\ stopper' = stopper /\ server' = server
    BY <1>2 DEF Serve, EnsureSucceeds, request
  <2>2. mirror = {} /\ stopper = "none"
    BY <2>1 DEF WfwView
  <2> QED BY <2>1, <2>2
<1>3. CASE GiveUp
  BY <1>3 DEF GiveUp, Forget
<1>4. CASE Crash
  BY <1>4 DEF Crash, Forget
<1>5. ASSUME NEW add \in SUBSET Addr, NEW remove \in SUBSET Addr, ReceiveApply(add, remove)
      PROVE  WfwBound'
  BY <1>5 DEF ReceiveApply, Listening, firewall, service
<1>6. CASE ReceiveClear
  BY <1>6 DEF ReceiveClear, Listening, firewall, service
<1>7. CASE AddElements
  <2>1. /\ server = "adding" /\ server' \in {"listen", "removing"}
        /\ life' = life /\ stopper' = stopper
    BY <1>7 DEF AddElements, Answer
  <2>2. \/ /\ kernel' \cup mirror' \subseteq kernel \cup mirror \cup toAdd
           /\ blocked' = blocked \cup toAdd
           /\ stopper \in {"emptying", "done"} => late' = late \cup toAdd
        \/ /\ kernel' \cup mirror' \subseteq kernel \cup mirror
           /\ blocked' = blocked /\ late' = late
    BY <1>7 DEF AddElements, Rewrite, ChangeFails, Fail, firewall
  <2> QED BY <2>1, <2>2
<1>8. CASE RemoveElements
  <2>1. /\ server = "removing" /\ server' = "listen"
        /\ life' = life /\ stopper' = stopper /\ late' = late
    BY <1>8 DEF RemoveElements, Answer, service
  <2>2. CASE toRemove # {} /\ ChangeFails /\ UNCHANGED blocked
    BY <2>1, <2>2 DEF ChangeFails, Fail, firewall
  <2>3. CASE toRemove = {} /\ UNCHANGED <<firewall, failures>> /\ blocked' = blocked \ toRemove
    BY <2>1, <2>3 DEF firewall
  <2>4. CASE Rewrite(Members \ toRemove) /\ blocked' = blocked \ toRemove
    <3>1. kernel' = mirror \ toRemove /\ mirror' = mirror \ toRemove
      BY <2>4 DEF Rewrite
    <3> QED BY <2>1, <2>4, <3>1
  <2> QED BY <1>8, <2>2, <2>3, <2>4 DEF RemoveElements
<1>9. CASE ClearFirewall
  <2>1. /\ server = "clearing" /\ server' \in {"emptying", "listen"}
        /\ life' = life /\ stopper' = stopper /\ late' = late /\ blocked' = blocked
    BY <1>9 DEF ClearFirewall, service
  <2>2. \/ kernel' = {} /\ mirror' = {}
        \/ kernel' \cup mirror' \subseteq kernel \cup mirror /\ server' = "listen"
    BY <1>9 DEF ClearFirewall, ClearSucceeds, ClearFails, Fail
  <2> QED BY <2>1, <2>2
<1>10. CASE ClearSet
  <2>1. /\ server = "emptying" /\ server' = "listen"
        /\ life' = life /\ stopper' = stopper /\ late' = late
        /\ kernel' \cup mirror' \subseteq kernel \cup mirror
    BY <1>10 DEF ClearSet, EnsureSucceeds, EnsureFails, Fail, service
  <2> QED BY <2>1
<1>11. CASE Stop
  BY <1>11 DEF Stop, firewall, request
<1>12. CASE StopClearsFirewall
  <2>1. /\ stopper = "clearing" /\ stopper' \in {"emptying", "done"} /\ mirror' = {}
        /\ kernel' = {} \/ late' = kernel'
    BY <1>12 DEF StopClearsFirewall, ClearSucceeds, ClearFails
  <2> QED BY <2>1
<1>13. CASE StopClearsSet
  <2>1. /\ stopper = "emptying" /\ stopper' = "done" /\ late' = late
        /\ kernel' \cup mirror' \subseteq kernel \cup mirror
    BY <1>13 DEF StopClearsSet, EnsureSucceeds, EnsureFails, Fail
  <2> QED BY <2>1
<1>14. CASE Exit
  BY <1>14 DEF Exit, Forget
<1>15. CASE UNCHANGED vars
  BY <1>15 DEF vars, firewall, request, service
<1> QED
  BY <1>1, <1>2, <1>3, <1>4, <1>5, <1>6, <1>7, <1>8, <1>9, <1>10, <1>11, <1>12,
     <1>13, <1>14, <1>15 DEF Next, Request, Handle, Control

(* The strengthened invariant is inductive.                                *)
THEOREM Invariance == Spec => []IInv
<1>1. Init => IInv
  BY InitInv
<1>2. IInv /\ [Next]_vars => IInv'
  <2> SUFFICES ASSUME IInv, [Next]_vars PROVE IInv'
    OBVIOUS
  <2>1. TypeOK' /\ Floor'
    BY TypeStep, FloorStep DEF IInv
  <2>2. Wfw' = Wfw
    BY BackendFixed
  <2>3. ASSUME ~Wfw PROVE NftView'
    BY <2>1, <2>3, NftStep DEF IInv
  <2>4. ASSUME Wfw PROVE WfwView' /\ WfwBound'
    BY <2>4, WfwStep, WfwBoundStep DEF IInv
  <2> QED BY <2>1, <2>2, <2>3, <2>4 DEF IInv
<1> QED BY <1>1, <1>2, PTL DEF Spec

(* The helper's state has its types.                                       *)
THEOREM TypeCorrect == Spec => []TypeOK
<1>1. IInv => TypeOK
  BY DEF IInv
<1> QED BY <1>1, Invariance, PTL

(* Whatever apply is asked and whichever commands fail, with either        *)
(* backend, no protected address is ever in the firewall.                  *)
THEOREM FloorHolds == Spec => []NeverProtected
<1>1. IInv => NeverProtected
  BY DEF IInv, Floor, NeverProtected
<1> QED BY <1>1, Invariance, PTL

(* With nft, what List reports between requests is in the firewall.        *)
THEOREM ListTellsTheTruth == Spec => []ListedIsBlocked
<1>1. IInv => ListedIsBlocked
  BY DEF IInv, NftView, ListedIsBlocked, Quiet
<1> QED BY <1>1, Invariance, PTL

(* With either backend, what is in the firewall and not in List was there  *)
(* before this process, whichever commands have failed.                    *)
THEOREM ListIsComplete == Spec => []UnlistedIsInherited
<1>1. IInv => UnlistedIsInherited
  BY DEF IInv, NftView, WfwBound, UnlistedIsInherited, Quiet
<1> QED BY <1>1, Invariance, PTL

(* What List reports between requests is true, read both ways.             *)
THEOREM ListIsTheTruth == Spec => []ListIsTrue
<1>1. ListedIsBlocked /\ UnlistedIsInherited => ListIsTrue
  BY DEF ListIsTrue
<1> QED BY <1>1, ListTellsTheTruth, ListIsComplete, PTL

(* What a Stop leaves in the firewall came in after it had cleared, or is  *)
(* what its failed clear has left.                                         *)
THEOREM StopIsThorough == Spec => []StopLeavesOnlyLate
<1>1. IInv => StopLeavesOnlyLate
  BY DEF IInv, NftView, WfwBound, StopLeavesOnlyLate
<1> QED BY <1>1, Invariance, PTL

(* With wfw, as long as no command has failed, what List reports between   *)
(* requests, the mirror and the firewall are the same addresses.           *)
THEOREM ViewsStayTogether == Spec => []ViewsHold
<1>1. IInv => ViewsHold
  BY DEF IInv, WfwView, ViewsHold, ViewsAgree, Quiet
<1> QED BY <1>1, Invariance, PTL

(* With nft, a process never adds more addresses than its cap.             *)
THEOREM CapIsHard == Spec => []CapHolds
<1>1. IInv => CapHolds
  BY DEF IInv, NftView, CapHolds
<1> QED BY <1>1, Invariance, PTL
-----------------------------------------------------------------------------
(* The abstract specification                                              *)

(* What is dropped and listed, as BlockList sees it.                       *)
Dropped == IF Wfw THEN {} ELSE kernel
Listed == IF Wfw \/ server = "emptying" THEN {} ELSE blocked

(* A step of BlockList, or none.                                           *)
LEMMA ListStep ==
  ASSUME NEW S \in SUBSET Addr,
         \/ /\ S \cap Protected = {} /\ Cardinality(Listed \cup S) <= MaxBlocked
            /\ Dropped' = Dropped \cup S /\ Listed' = Listed \cup S
         \/ S \subseteq Listed /\ Dropped' = Dropped \ S /\ Listed' = Listed \ S
         \/ Dropped' = {} /\ Listed' = {}
         \/ Dropped' = Dropped /\ Listed' = {}
         \/ Dropped' = Dropped /\ Listed' = Listed
  PROVE  [List!Next]_(List!vars)
<1>1. List!Cardinality(Listed \cup S) = Cardinality(Listed \cup S)
  BY DEF List!Cardinality, Cardinality
<1> QED BY <1>1 DEF List!Next, List!Add, List!Remove, List!Clear, List!Forget, List!vars, Dropped, Listed

(* Each step of the helper is a step of BlockList or leaves it as it is:   *)
(* the commands of an apply add and remove, the end of a process forgets,  *)
(* and a clear is done once the firewall is.                               *)
LEMMA ListSteps == IInv /\ IInv' /\ [Next]_vars => [List!Next]_(List!vars)
<1> SUFFICES ASSUME IInv, IInv', [Next]_vars PROVE [List!Next]_(List!vars)
  OBVIOUS
<1>0. Wfw' = Wfw
  BY BackendFixed
<1>w. CASE Wfw
  <2>1. Dropped' = Dropped /\ Listed' = Listed
    BY <1>0, <1>w DEF Dropped, Listed
  <2> QED BY <2>1, ListStep
<1>n. CASE ~Wfw
  <2>1. NftView /\ NftView' /\ TypeOK /\ Floor /\ Members = kernel /\ Dropped = kernel /\ Dropped' = kernel'
    BY <1>0, <1>n DEF IInv, Members, Dropped
  <2>2. /\ Listed = IF server = "emptying" THEN {} ELSE blocked
        /\ Listed' = IF server' = "emptying" THEN {} ELSE blocked'
    BY <1>0, <1>n DEF Listed
  <2>3. {} \in SUBSET Addr
    OBVIOUS
  <2>4. ASSUME kernel' = kernel, Listed' \in {Listed, {}}
        PROVE  [List!Next]_(List!vars)
    BY <2>1, <2>3, <2>4, ListStep
  <2>5. CASE Start \/ Serve \/ ReceiveClear \/ (\E add, remove \in SUBSET Addr : ReceiveApply(add, remove)) \/ UNCHANGED vars
    <3>1. \/ kernel' = kernel /\ blocked' = blocked /\ server # "emptying" /\ server' # "emptying"
          \/ UNCHANGED vars
      <4>1. CASE Start
        BY <4>1, <2>1 DEF Start, firewall, request, NftView
      <4>2. CASE Serve
        BY <4>2, <2>1, <1>n DEF Serve, EnsureSucceeds, request, NftView
      <4>3. CASE ReceiveClear
        BY <4>3 DEF ReceiveClear, Listening, firewall
      <4>4. CASE \E add, remove \in SUBSET Addr : ReceiveApply(add, remove)
        BY <4>4 DEF ReceiveApply, Listening, firewall
      <4> QED BY <2>5, <4>1, <4>2, <4>3, <4>4
    <3>2. CASE UNCHANGED vars
      BY <3>2, <2>2, <2>4 DEF vars, firewall, request
    <3> QED BY <3>1, <3>2, <2>2, <2>4
  <2>6. CASE GiveUp \/ Crash \/ Exit
    <3>1. kernel' = kernel /\ blocked' = {} /\ server' = "listen"
      BY <2>6, <1>n DEF GiveUp, Crash, Exit, EnsureFails, Fail, Forget
    <3> QED BY <3>1, <2>2, <2>4
  <2>7. CASE AddElements
    <3>1. server = "adding" /\ server' # "emptying"
      BY <2>7 DEF AddElements, Answer
    <3>2. CASE blocked' = blocked \cup toAdd /\ kernel' = kernel \cup toAdd
      <4>1. toAdd \in SUBSET Addr /\ toAdd \cap Protected = {}
        BY <2>1 DEF TypeOK, Floor
      <4>2. Cardinality(blocked \cup toAdd) <= MaxBlocked
        BY <2>1, <3>1 DEF NftView
      <4>3. Listed = blocked /\ Listed' = blocked'
        BY <3>1, <2>2
      <4> QED BY <4>1, <4>2, <4>3, <3>2, <2>1, ListStep
    <3>3. CASE kernel' = kernel /\ blocked' = blocked
      BY <3>1, <3>3, <2>2, <2>4
    <3>4. \/ blocked' = blocked \cup toAdd /\ kernel' = kernel \cup toAdd
          \/ kernel' = kernel /\ blocked' = blocked
      BY <2>7, <2>1, <1>n DEF AddElements, Rewrite, ChangeFails, Fail, firewall
    <3> QED BY <3>2, <3>3, <3>4
  <2>8. CASE RemoveElements
    <3>1. server = "removing" /\ server' # "emptying"
      BY <2>8 DEF RemoveElements, Answer
    <3>2. CASE blocked' = blocked \ toRemove /\ kernel' = kernel \ toRemove
      <4>1. toRemove \in SUBSET Addr /\ toRemove \subseteq blocked
        BY <2>1, <3>1 DEF TypeOK, NftView
      <4>3. Listed = blocked /\ Listed' = blocked'
        BY <3>1, <2>2
      <4> QED BY <4>1, <4>3, <3>2, <2>1, ListStep
    <3>3. CASE kernel' = kernel /\ blocked' = blocked
      BY <3>1, <3>3, <2>2, <2>4
    <3>4. \/ blocked' = blocked \ toRemove /\ kernel' = kernel \ toRemove
          \/ kernel' = kernel /\ blocked' = blocked
      BY <2>8, <2>1, <1>n DEF RemoveElements, Rewrite, ChangeFails, Fail, firewall
    <3> QED BY <3>2, <3>3, <3>4
  <2>9. CASE ClearFirewall
    <3>1. server = "clearing" /\ blocked' = blocked
      BY <2>9 DEF ClearFirewall
    <3>2. \/ kernel' = {} /\ server' = "emptying"
          \/ kernel' = kernel /\ server' = "listen"
      BY <2>9, <1>n DEF ClearFirewall, ClearSucceeds, ClearFails, Fail
    <3>3. \/ Dropped' = {} /\ Listed' = {}
          \/ kernel' = kernel /\ Listed' = Listed
      BY <3>1, <3>2, <2>1, <2>2
    <3> QED BY <3>3, <2>3, <2>4, ListStep
  <2>10. CASE ClearSet
    <3>1. server = "emptying" /\ blocked' = {} /\ kernel' = kernel
      BY <2>10, <1>n DEF ClearSet, EnsureSucceeds, EnsureFails, Fail
    <3> QED BY <3>1, <2>2, <2>4
  <2>11. ~Stop /\ ~StopClearsFirewall /\ ~StopClearsSet
    BY <2>1, <1>n DEF Stop, StopClearsFirewall, StopClearsSet, NftView
  <2> QED BY <2>5, <2>6, <2>7, <2>8, <2>9, <2>10, <2>11 DEF Next, Request, Handle, Control
<1> QED BY <1>w, <1>n

(* The nft helper implements BlockList: whatever fails and whenever it     *)
(* dies, what it drops and lists changes only as a whole, within the floor *)
(* and the cap, and what an earlier process left is only ever cleared.     *)
THEOREM ImplementsBlockList == Spec => IsBlockList
<1>1. Init => List!Init
  <2> SUFFICES ASSUME Init PROVE List!Init
    OBVIOUS
  <2>1. kernel = {} /\ blocked = {}
    BY Zenon DEF Init
  <2> QED BY <2>1 DEF List!Init
<1>2. IInv /\ IInv' /\ [Next]_vars => [List!Next]_(List!vars)
  BY ListSteps
<1> QED BY <1>1, <1>2, Invariance, PTL DEF Spec, IsBlockList, List!Spec
=============================================================================
