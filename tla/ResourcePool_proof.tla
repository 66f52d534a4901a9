------------------------- MODULE ResourcePool_proof -------------------------
(***************************************************************************)
(* Proofs about ResourcePool, for every set of resources and users, every  *)
(* value of the bounds and every combination of the failures: types,       *)
(* mutual exclusion, the pool's books, and the refinement of ResourceLock. *)
(***************************************************************************)
EXTENDS ResourcePool, Data_proof


-----------------------------------------------------------------------------
(* Types *)

LEMMA InitTypeOK == Init => TypeOK
<1>1. ASSUME Init PROVE RebuiltKeyMap(resources) = [k \in {} |-> k]
  BY <1>1 DEF Init, RebuiltKeyMap
<1> QED
  BY <1>1, ConstantsAssumption DEF Init, TypeOK, InUse, Running, Iterations, Signal

\* Rebuilding the key map from well-typed holders gives a well-typed map.
LEMMA RebuiltType ==
  ASSUME NEW res, DOMAIN res \subseteq Resources, res \in [DOMAIN res -> Holder \cup {None}]
  PROVE  /\ DOMAIN RebuiltKeyMap(res) \subseteq Nat
         /\ RebuiltKeyMap(res) \in [DOMAIN RebuiltKeyMap(res) -> DOMAIN res]
<1> DEFINE names == {r \in DOMAIN res : res[r] # None}
<1>1. \A r \in names : res[r].key \in Nat
  BY DEF Holder
<1>2. \A k \in {res[r].key : r \in names} : (CHOOSE r \in names : res[r].key = k) \in names
  OBVIOUS
<1> QED
  BY <1>1, <1>2 DEF RebuiltKeyMap

\* The operator only sends a signal.
LEMMA OnlyASignal ==
  ASSUME TypeOK, inbox' \in Seq(Signal), operatorSteps' \in Nat,
         UNCHANGED <<poolVars, userVars>>
  PROVE  TypeOK'
BY DEF TypeOK, poolVars, userVars, InUse, Running

LEMMA StepTypeOK == TypeOK /\ [Next]_vars => TypeOK'
<1> SUFFICES ASSUME TypeOK, [Next]_vars PROVE TypeOK'
  OBVIOUS
<1> USE DEF TypeOK, Iterations
<1>1. CASE HandleSignal
  <2> USE <1>1 DEF HandleSignal, userVars, InUse, Running
  <2>0. inbox # <<>> /\ Head(inbox) \in Signal /\ inbox' \in Seq(Signal)
    OBVIOUS
  <2>1. CASE Head(inbox).type = "add" /\ AddResources(Head(inbox).resources)
    <3>1. Head(inbox).resources \subseteq Resources
      BY <2>0, <2>1 DEF Signal
    <3> QED
      BY <2>0, <2>1, <3>1 DEF AddResources
  <2>2. CASE Head(inbox).type = "acquire" /\ AcquireResource(Head(inbox).user)
    <3>1. Head(inbox).user \in Users
      BY <2>0, <2>2 DEF Signal
    <3> QED
      BY <2>0, <2>2, <3>1 DEF AcquireResource
  <2>3. CASE Head(inbox).type = "release" /\ ReleaseResource(Head(inbox).key)
    <3> DEFINE key == Head(inbox).key
    <3>1. CASE /\ key \in DOMAIN keyMap /\ waiters' = waiters
               /\ resources' = [resources EXCEPT ![keyMap[key]] = None]
               /\ keyMap' = [k \in DOMAIN keyMap \ {key} |-> keyMap[k]]
      <4>1. /\ DOMAIN resources' = DOMAIN resources
            /\ resources' \in [DOMAIN resources' -> Holder \cup {None}]
        BY <3>1
      <4>2. /\ DOMAIN keyMap' \subseteq Nat
            /\ keyMap' \in [DOMAIN keyMap' -> DOMAIN resources']
        BY <3>1, <4>1
      <4> QED
        BY <2>0, <3>1, <4>1, <4>2
    <3>2. CASE UNCHANGED <<resources, keyMap, waiters>>
      BY <2>0, <3>2
    <3> QED
      BY <2>3, <3>1, <3>2 DEF ReleaseResource
  <2> QED
    BY <2>1, <2>2, <2>3
<1>2. CASE AssignNextResource
  <2>1. PICK r \in FreeResources :
          granting' = [resource |-> r, user |-> Head(waiters), key |-> nextKey]
    BY <1>2 DEF AssignNextResource
  <2>2. Head(waiters) \in Users /\ Tail(waiters) \in Seq(Users)
    BY <1>2 DEF AssignNextResource, can_assign_resource
  <2>3. granting' \in Granting /\ granting'.resource \in DOMAIN resources
    BY <2>1, <2>2 DEF FreeResources, Granting
  <2>4. granting' # None
    BY <2>3, NoneAssumption
  <2> QED
    BY <1>2, <2>2, <2>3, <2>4 DEF AssignNextResource, userVars, InUse, Running
<1>3. CASE DeliverGrant
  <2>1. granting.user \in Users /\ [resource |-> granting.resource, key |-> granting.key] \in Grant
    BY <1>3 DEF DeliverGrant, Granting, Grant
  <2>2. acquired' \in [Users -> Seq(Grant)]
    BY <1>3, <2>1 DEF DeliverGrant
  <2> QED
    BY <1>3, <2>2 DEF DeliverGrant, InUse, Running
<1>4. CASE RecordHolder
  BY <1>4 DEF RecordHolder, userVars, InUse, Running, Holder, Granting
<1>5. CASE GrantNotFound
  BY <1>5 DEF GrantNotFound, userVars, InUse, Running
<1>6. CASE GrantFails
  BY <1>6 DEF GrantFails, userVars, InUse, Running
<1>7. CASE ContinueAsNew
  <2>1. /\ DOMAIN RebuiltKeyMap(resources) \subseteq Nat
        /\ RebuiltKeyMap(resources) \in [DOMAIN RebuiltKeyMap(resources) -> DOMAIN resources]
    BY RebuiltType
  <2> QED
    BY <1>7, <2>1 DEF ContinueAsNew, userVars, InUse, Running
<1>8. ASSUME NEW u \in Users, UserStep(u) PROVE TypeOK'
  <2> USE DEF poolVars, InUse, Running
  <2>1. CASE StartUser(u)
    <3>1. PICK i \in Inputs : input' = [input EXCEPT ![u] = i]
      BY <2>1 DEF StartUser
    <3>2. input' \in [Users -> Input \cup {None}] /\ i # None
          /\ \A v \in Users : input'[v] = IF v = u THEN i ELSE input[v]
      BY <3>1, ConstantsAssumption, NoneAssumption
    <3>3. inbox' \in Seq(Signal)
      <4>1. [type |-> "acquire", user |-> u] \in Signal
        BY DEF Signal
      <4> QED
        BY <2>1, <4>1 DEF StartUser
    <3>4. /\ userPc' = [userPc EXCEPT ![u] = "waiting"] /\ userPc[u] = "closed"
          /\ held' = held /\ operatorSteps' = operatorSteps
      BY <2>1 DEF StartUser
    <3>5. /\ userPc' \in [Users -> {"closed", "waiting", "releasing"} \cup Iterations]
          /\ \A v \in Users : /\ InUse(v)' <=> held'[v] # None
                              /\ Running(v)' => input'[v] # None
      BY <3>2, <3>4
    <3>6. acquired' \in [Users -> Seq(Grant)] /\ starts' \in [Users -> Nat]
      BY <2>1 DEF StartUser
    <3> QED
      BY <2>1, <3>2, <3>3, <3>4, <3>5, <3>6 DEF StartUser
  <2>2. CASE TakeGrant(u)
    BY <2>2, NoneAssumption DEF TakeGrant
  <2>3. CASE GiveUp(u)
    BY <2>3 DEF GiveUp
  <2>4. CASE FinishActivity(u)
    <3> DEFINE next == [input[u] EXCEPT !.should_continue_as_new = FALSE]
    <3>1. userPc[u] \in Iterations /\ input[u] \in Input
      BY <2>4 DEF FinishActivity
    <3>2. next \in Input
      BY <3>1 DEF Input
    <3>3. \/ input' = input
          \/ input' = [input EXCEPT ![u] = next]
      BY <2>4 DEF FinishActivity
    <3> HIDE DEF next
    <3>4. input' \in [Users -> Input \cup {None}] /\ input'[u] # None
      <4>1. CASE input' = input
        BY <4>1, <3>1, NoneAssumption
      <4>2. CASE input' = [input EXCEPT ![u] = next]
        BY <4>2, <3>2, NoneAssumption
      <4> QED
        BY <3>3, <4>1, <4>2
    <3>5. acquired' \in [Users -> Seq(Grant)]
      <4>1. CASE acquired' = acquired
        BY <4>1
      <4>2. CASE acquired' = [acquired EXCEPT ![u] = <<>>]
        BY <4>2
      <4> QED
        BY <2>4, <4>1, <4>2 DEF FinishActivity
    <3>6. \E pc \in {"first", "second", "releasing"} : userPc' = [userPc EXCEPT ![u] = pc]
      BY <2>4 DEF FinishActivity
    <3> QED
      BY <2>4, <3>1, <3>3, <3>4, <3>5, <3>6 DEF FinishActivity
  <2>5. CASE CancelUse(u)
    BY <2>5 DEF CancelUse
  <2>6. CASE Release(u)
    <3>1. held[u] \in Grant
      BY <2>6 DEF Release
    <3>2. inbox' \in Seq(Signal)
      BY <2>6, <3>1 DEF Release, Signal, Grant
    <3> QED
      BY <2>6, <3>2 DEF Release
  <2>7. CASE TerminateUser(u)
    BY <2>7 DEF TerminateUser
  <2> QED
    BY <1>8, <2>1, <2>2, <2>3, <2>4, <2>5, <2>6, <2>7 DEF UserStep
<1>9. ASSUME NEW names \in SUBSET Resources, OperatorAdds(names) PROVE TypeOK'
  <2>1. [type |-> "add", resources |-> names] \in Signal
    BY DEF Signal
  <2>2. /\ inbox' \in Seq(Signal) /\ operatorSteps' \in Nat
        /\ UNCHANGED <<poolVars, userVars>>
    BY <1>9, <2>1 DEF OperatorAdds
  <2> QED
    BY <2>2, OnlyASignal
<1>10. ASSUME NEW r \in Resources, OperatorReleases(r) PROVE TypeOK'
  <2>1. resources[r] \in Holder /\ r \in DOMAIN resources
    BY <1>10 DEF OperatorReleases
  <2>2. [type |-> "release", key |-> resources[r].key] \in Signal
    BY <2>1 DEF Signal, Holder
  <2>3. /\ inbox' \in Seq(Signal) /\ operatorSteps' \in Nat
        /\ UNCHANGED <<poolVars, userVars>>
    BY <1>10, <2>2 DEF OperatorReleases
  <2> QED
    BY <2>3, OnlyASignal
<1>11. CASE UNCHANGED vars
  BY <1>11 DEF vars, InUse, Running
<1> QED
  BY <1>1, <1>2, <1>3, <1>4, <1>5, <1>6, <1>7, <1>8, <1>9, <1>10, <1>11
     DEF Next, PoolStep, OperatorStep

\* Every variable keeps its type; in particular a user inside its `async with`
\* always has a resource (resource_pool_client.py:74-76), for every instance.
THEOREM TypeCorrect == Spec => []TypeOK
BY InitTypeOK, StepTypeOK, PTL DEF Spec


-----------------------------------------------------------------------------
(* The inductive invariant.  Mutual exclusion is not inductive: it holds     *)
(* because every grant is on the pool's books until the release for it is    *)
(* handled, because books and key map agree, and because a release in the    *)
(* inbox belongs to a grant nobody runs on.                                  *)

\* Keys are used in the order they are drawn, so the next one is fresh.
KeysAreOld ==
  /\ \A k \in DOMAIN keyMap : k < nextKey
  /\ granting # None => granting.key < nextKey
  /\ \A u \in Users, r \in Resources, k \in Nat : Claims(u, r, k) => k < nextKey
  /\ \A i \in DOMAIN inbox : inbox[i].type = "release" => inbox[i].key < nextKey

\* While assign_resource is suspended its resource has no holder yet.
GrantingIsFree ==
  granting # None => /\ resources[granting.resource] = None
                     /\ granting.key \notin DOMAIN keyMap

Books == \A u \in Users, r \in Resources, k \in Nat : Claims(u, r, k) => OnTheBooks(u, r, k)

IInv == KeysAreOld /\ KeysMatchHolders /\ GrantingIsFree /\ Books /\ ReleaseIsFinal

\* The holder of a resource, found through the books, is found by its key.
LEMMA HolderByKey ==
  ASSUME KeysMatchHolders, NEW r \in DOMAIN resources,
         NEW u \in Users, NEW k \in Nat, resources[r] = [user |-> u, key |-> k]
  PROVE  k \in DOMAIN keyMap /\ keyMap[k] = r
<1>1. resources[r] # None
  BY NoneAssumption DEF Holder
<1> QED
  BY <1>1 DEF KeysMatchHolders

\* A grant belongs to one user and one resource.
LEMMA ClaimsAreUnique ==
  ASSUME TypeOK, IInv,
         NEW u \in Users, NEW v \in Users, NEW r \in Resources, NEW q \in Resources,
         NEW k \in Nat, Claims(u, r, k), Claims(v, q, k)
  PROVE  u = v /\ r = q
<1>1. OnTheBooks(u, r, k) /\ OnTheBooks(v, q, k)
  BY DEF IInv, Books
<1>2. KeysMatchHolders /\ GrantingIsFree
  BY DEF IInv
<1>3. \A w \in Users, x \in DOMAIN resources :
        resources[x] = [user |-> w, key |-> k] => k \in DOMAIN keyMap /\ keyMap[k] = x
  BY <1>2, HolderByKey
<1>4. poolPc = "signalled" => granting # None
  BY DEF TypeOK
<1> QED
  BY <1>1, <1>2, <1>3, <1>4 DEF OnTheBooks, GrantingIsFree

\* One resource has at most one claim.
LEMMA OneClaimPerResource ==
  ASSUME TypeOK, IInv,
         NEW u \in Users, NEW v \in Users, NEW r \in Resources,
         NEW k \in Nat, NEW l \in Nat, Claims(u, r, k), Claims(v, r, l)
  PROVE  u = v /\ k = l
<1>1. OnTheBooks(u, r, k) /\ OnTheBooks(v, r, l)
  BY DEF IInv, Books
<1>2. poolPc = "signalled" => granting # None /\ resources[granting.resource] = None
  BY DEF TypeOK, IInv, GrantingIsFree
<1>3. [user |-> u, key |-> k] # None /\ [user |-> v, key |-> l] # None
  BY NoneAssumption DEF Holder
<1> QED
  BY <1>1, <1>2, <1>3 DEF OnTheBooks

\* The user inside its `async with` has a claim.
LEMMA UseIsClaim ==
  ASSUME TypeOK, NEW u \in Users, InUse(u)
  PROVE  /\ held[u].resource \in Resources /\ held[u].key \in Nat
         /\ Claims(u, held[u].resource, held[u].key)
BY DEF TypeOK, Claims, Grant

\* The invariant implies the properties.
LEMMA IInvImplies == TypeOK /\ IInv => MutualExclusion /\ KeysMatchHolders
                                       /\ ClaimsAreOnTheBooks /\ ReleaseIsFinal
<1> SUFFICES ASSUME TypeOK, IInv
             PROVE  MutualExclusion /\ KeysMatchHolders /\ ClaimsAreOnTheBooks /\ ReleaseIsFinal
  OBVIOUS
<1>1. MutualExclusion
  BY UseIsClaim, OneClaimPerResource DEF MutualExclusion
<1>2. ClaimsAreOnTheBooks
  BY DEF IInv, Books, ClaimsAreOnTheBooks, TypeOK
<1> QED
  BY <1>1, <1>2 DEF IInv

LEMMA InitIInv == Init => IInv
<1> SUFFICES ASSUME Init PROVE IInv
  OBVIOUS
<1>1. DOMAIN keyMap = {}
  BY DEF Init, RebuiltKeyMap
<1>2. \A u \in Users, r \in Resources, k \in Nat : ~Claims(u, r, k)
  BY DEF Init, Claims, InUse, Iterations
<1> QED
  BY <1>1, <1>2 DEF Init, IInv, KeysAreOld, KeysMatchHolders, GrantingIsFree, Books, ReleaseIsFinal

-----------------------------------------------------------------------------
(* Steps of users and operator: the pool's books stay as they are, claims    *)
(* only end, and at most one signal is sent.                                 *)

LEMMA OutsideStep ==
  ASSUME TypeOK, IInv, TypeOK', UNCHANGED poolVars,
         \A u \in Users, r \in Resources, k \in Nat : Claims(u, r, k)' => Claims(u, r, k),
         \/ inbox' = inbox
         \/ \E s \in Signal : /\ inbox' = Append(inbox, s)
                              /\ s.type = "release" => s.key < nextKey /\ Spent(s.key)'
  PROVE  IInv'
<1> USE DEF poolVars
<1>1. ASSUME NEW i \in DOMAIN inbox', NEW s \in Signal, s = inbox'[i], s.type = "release"
      PROVE  s.key < nextKey' /\ Spent(s.key)'
  <2>0. inbox \in Seq(Signal)
    BY DEF TypeOK
  <2>1. CASE i \in DOMAIN inbox /\ inbox[i] = s
    <3>1. s.key < nextKey /\ Spent(s.key) /\ s.key \in Nat
      BY <1>1, <2>1 DEF IInv, KeysAreOld, ReleaseIsFinal, Signal
    <3> QED
      BY <2>1, <3>1 DEF Spent
  <2>2. CASE inbox' = inbox
    BY <1>1, <2>1, <2>2
  <2>3. ASSUME NEW t \in Signal, inbox' = Append(inbox, t),
               t.type = "release" => t.key < nextKey /\ Spent(t.key)'
        PROVE  s.key < nextKey' /\ Spent(s.key)'
    <3>1. CASE i = Len(inbox) + 1
      <4>1. s = t
        BY <1>1, <2>0, <2>3, <3>1
      <4> QED
        BY <1>1, <2>3, <4>1
    <3>2. CASE i # Len(inbox) + 1
      BY <1>1, <2>0, <2>1, <2>3, <3>2
    <3> QED
      BY <3>1, <3>2
  <2> QED
    BY <2>2, <2>3
<1>1a. \A i \in DOMAIN inbox' : inbox'[i] \in Signal
  BY DEF TypeOK
<1>2. KeysAreOld'
  BY <1>1, <1>1a DEF IInv, KeysAreOld
<1>3. KeysMatchHolders' /\ GrantingIsFree'
  BY DEF IInv, KeysMatchHolders, GrantingIsFree
<1>4. Books'
  BY DEF IInv, Books, OnTheBooks
<1>5. ReleaseIsFinal'
  BY <1>1, <1>1a DEF ReleaseIsFinal
<1> QED
  BY <1>2, <1>3, <1>4, <1>5 DEF IInv

\* The grant a user gives back is spent once the user has closed.
LEMMA ReleasedIsSpent ==
  ASSUME TypeOK, IInv, TypeOK', NEW u \in Users, Release(u),
         NEW k \in Nat, k = held[u].key
  PROVE  k < nextKey /\ Spent(k)'
<1> DEFINE r == held[u].resource
<1>1. r \in Resources /\ k \in Nat /\ Claims(u, r, k)
  BY UseIsClaim DEF Release, InUse
<1>2. k < nextKey
  BY <1>1 DEF IInv, KeysAreOld
<1>3. ASSUME NEW v \in Users, NEW q \in Resources, Claims(v, q, k)' PROVE FALSE
  <2>1. ~Claims(u, q, k)'
    BY DEF Release, Claims, InUse, Iterations, TypeOK
  <2>2. v # u => Claims(v, q, k)
    BY <1>3 DEF Release, Claims, InUse, TypeOK
  <2>3. v = u
    BY <1>1, <2>2, ClaimsAreUnique
  <2> QED
    BY <1>3, <2>1, <2>3
<1>4. poolPc = "signalling" => granting.key # k
  <2>1. poolPc = "signalling" => r \in DOMAIN resources /\ resources[r] = [user |-> u, key |-> k]
    BY <1>1 DEF IInv, Books, OnTheBooks
  <2>2. poolPc = "signalling" => k \in DOMAIN keyMap
    BY <1>1, <2>1, HolderByKey DEF IInv
  <2> QED
    BY <2>2 DEF TypeOK, IInv, GrantingIsFree
<1> QED
  BY <1>2, <1>3, <1>4 DEF Spent, Release, poolVars

LEMMA UserStepIInv ==
  ASSUME TypeOK, IInv, TypeOK', NEW u \in Users, UserStep(u)
  PROVE  IInv'
<1> USE DEF poolVars, Iterations
<1>0. UNCHANGED poolVars
  BY DEF UserStep, StartUser, TakeGrant, GiveUp, FinishActivity, CancelUse, Release, TerminateUser
<1> DEFINE Shrink == \A v \in Users, r \in Resources, k \in Nat :
                       Claims(v, r, k)' => Claims(v, r, k)
<1>1. CASE StartUser(u)
  <2>1. Shrink
    BY <1>1 DEF StartUser, Claims, InUse, TypeOK
  <2>2. [type |-> "acquire", user |-> u] \in Signal
    BY DEF Signal
  <2> QED
    BY <1>0, <1>1, <2>1, <2>2, OutsideStep DEF StartUser
<1>2. CASE TakeGrant(u)
  <2>1. acquired[u] \in Seq(Grant) /\ acquired[u] # <<>>
    BY <1>2 DEF TakeGrant, TypeOK
  <2>2. 1 \in DOMAIN acquired[u] /\ Head(acquired[u]) = acquired[u][1]
    BY <2>1
  <2>3. Shrink
    BY <1>2, <2>2 DEF TakeGrant, Claims, InUse, TypeOK
  <2> QED
    BY <1>0, <1>2, <2>3, OutsideStep DEF TakeGrant
<1>3. CASE GiveUp(u)
  <2>1. Shrink
    BY <1>3 DEF GiveUp, Claims, InUse, TypeOK
  <2> QED
    BY <1>0, <1>3, <2>1, OutsideStep DEF GiveUp
<1>4. CASE FinishActivity(u)
  <2>1. \E pc \in {"first", "second", "releasing"} : userPc' = [userPc EXCEPT ![u] = pc]
    BY <1>4 DEF FinishActivity
  <2>2. \A v \in Users : v # u => acquired'[v] = acquired[v]
    BY <1>4 DEF FinishActivity, TypeOK
  <2>3. Shrink
    BY <1>4, <2>1, <2>2 DEF FinishActivity, Claims, InUse, TypeOK
  <2> QED
    BY <1>0, <1>4, <2>3, OutsideStep DEF FinishActivity
<1>5. CASE CancelUse(u)
  <2>1. Shrink
    BY <1>5 DEF CancelUse, Claims, InUse, TypeOK
  <2> QED
    BY <1>0, <1>5, <2>1, OutsideStep DEF CancelUse
<1>6. CASE Release(u)
  <2>1. Shrink
    BY <1>6 DEF Release, Claims, InUse, TypeOK
  <2>2. held[u] \in Grant
    BY <1>6 DEF Release, TypeOK, InUse
  <2>a. PICK k \in Nat : k = held[u].key
    BY <2>2 DEF Grant
  <2>3. [type |-> "release", key |-> k] \in Signal
    BY DEF Signal
  <2>4. k < nextKey /\ Spent(k)'
    BY <1>6, <2>a, ReleasedIsSpent
  <2>5. \/ inbox' = inbox
        \/ inbox' = Append(inbox, [type |-> "release", key |-> k])
    BY <1>6, <2>a DEF Release
  <2> QED
    BY <1>0, <2>1, <2>3, <2>4, <2>5, OutsideStep
<1>7. CASE TerminateUser(u)
  <2>1. Shrink
    BY <1>7 DEF TerminateUser, Claims, InUse, TypeOK
  <2> QED
    BY <1>0, <1>7, <2>1, OutsideStep DEF TerminateUser
<1> QED
  BY <1>1, <1>2, <1>3, <1>4, <1>5, <1>6, <1>7 DEF UserStep

LEMMA OperatorStepIInv ==
  ASSUME TypeOK, IInv, TypeOK', OperatorStep
  PROVE  IInv'
<1> DEFINE Same == \A v \in Users, r \in Resources, k \in Nat :
                     Claims(v, r, k)' => Claims(v, r, k)
<1>1. ASSUME NEW names \in SUBSET Resources, OperatorAdds(names) PROVE IInv'
  <2>1. Same
    BY <1>1 DEF OperatorAdds, Claims, InUse, userVars
  <2>2. [type |-> "add", resources |-> names] \in Signal
    BY DEF Signal
  <2> QED
    BY <1>1, <2>1, <2>2, OutsideStep DEF OperatorAdds
<1>2. ASSUME NEW r \in Resources, OperatorReleases(r) PROVE IInv'
  <2>1. Same
    BY <1>2 DEF OperatorReleases, Claims, InUse, userVars
  <2>a. r \in DOMAIN resources /\ resources[r] \in Holder
    BY <1>2 DEF OperatorReleases, TypeOK
  <2>2. PICK w \in Users, k \in Nat : w = resources[r].user /\ k = resources[r].key
    BY <2>a DEF Holder
  <2>3. k \in DOMAIN keyMap /\ keyMap[k] = r
    BY <1>2, <2>a, <2>2 DEF OperatorReleases, IInv, KeysMatchHolders
  <2>4. k < nextKey
    BY <2>3 DEF IInv, KeysAreOld
  <2>5. granting # None => granting.key # k
    BY <2>3 DEF IInv, GrantingIsFree
  <2>6. ASSUME NEW v \in Users, NEW q \in Resources, Claims(v, q, k)' PROVE FALSE
    <3>1. Claims(v, q, k)
      BY <2>1, <2>2, <2>6
    <3>2. OnTheBooks(v, q, k)
      BY <2>2, <3>1 DEF IInv, Books
    <3>3. poolPc = "signalled" => granting # None
      BY DEF TypeOK
    <3>4. q \in DOMAIN resources /\ resources[q] = [user |-> v, key |-> k]
      BY <2>5, <3>2, <3>3 DEF OnTheBooks
    <3>5. q = r
      BY <2>2, <2>3, <3>4, HolderByKey DEF IInv
    <3>6. v = w
      BY <2>2, <3>4, <3>5
    <3> QED
      BY <1>2, <2>2, <3>1, <3>6 DEF OperatorReleases, Running, Claims, InUse, Iterations
  <2>7. Spent(k)'
    BY <1>2, <2>5, <2>6 DEF Spent, OperatorReleases, poolVars, TypeOK
  <2>8. [type |-> "release", key |-> k] \in Signal
    BY <2>2 DEF Signal
  <2> QED
    BY <1>2, <2>1, <2>2, <2>4, <2>7, <2>8, OutsideStep DEF OperatorReleases
<1> QED
  BY <1>1, <1>2 DEF OperatorStep

-----------------------------------------------------------------------------
(* Steps of the pool.                                                        *)

\* Claims are about users: a step that leaves the users alone keeps them.
LEMMA SameClaims ==
  ASSUME UNCHANGED userVars, NEW u \in Users, NEW r, NEW k
  PROVE  Claims(u, r, k)' <=> Claims(u, r, k)
BY DEF userVars, Claims, InUse

\* While the pool is not suspended in "signalled", claims are on the dict.
LEMMA ClaimsAreHeld ==
  ASSUME IInv, poolPc # "signalled",
         NEW u \in Users, NEW r \in Resources, NEW k \in Nat, Claims(u, r, k)
  PROVE  r \in DOMAIN resources /\ resources[r] = [user |-> u, key |-> k]
BY DEF IInv, Books, OnTheBooks

\* What stays in the inbox when its head is handled.
LEMMA TailOfInbox ==
  ASSUME TypeOK, inbox # <<>>, NEW i \in DOMAIN Tail(inbox)
  PROVE  i + 1 \in DOMAIN inbox /\ Tail(inbox)[i] = inbox[i + 1]
<1>1. inbox \in Seq(Signal)
  BY DEF TypeOK
<1> QED
  BY <1>1

\* The release signals under way carry old keys of spent grants.
LEMMA ReleasesInInbox ==
  ASSUME TypeOK, IInv, NEW i \in DOMAIN inbox, inbox[i].type = "release"
  PROVE  inbox[i].key \in Nat /\ inbox[i].key < nextKey /\ Spent(inbox[i].key)
<1>1. inbox[i] \in Signal
  BY DEF TypeOK
<1>2. inbox[i].key \in Nat
  BY <1>1 DEF Signal
<1> QED
  BY <1>2 DEF IInv, KeysAreOld, ReleaseIsFinal

LEMMA HandleSignalIInv ==
  ASSUME TypeOK, IInv, TypeOK', HandleSignal
  PROVE  IInv'
<1>0. /\ inbox # <<>> /\ inbox' = Tail(inbox)
      /\ UNCHANGED <<poolPc, granting, nextKey>> /\ UNCHANGED userVars
  BY DEF HandleSignal
<1>1. \A u \in Users, r \in Resources, k \in Nat : Claims(u, r, k)' <=> Claims(u, r, k)
  BY <1>0, SameClaims
<1>2. Head(inbox) = inbox[1] /\ 1 \in DOMAIN inbox /\ Head(inbox) \in Signal
  BY <1>0 DEF TypeOK
<1>3. ASSUME NEW i \in DOMAIN inbox', NEW s \in Signal, s = inbox'[i], s.type = "release"
      PROVE  s.key < nextKey' /\ Spent(s.key)'
  <2>1. i + 1 \in DOMAIN inbox /\ inbox[i + 1] = s
    BY <1>0, <1>3, TailOfInbox
  <2>2. s.key < nextKey /\ Spent(s.key) /\ s.key \in Nat
    BY <1>3, <2>1 DEF IInv, KeysAreOld, ReleaseIsFinal, Signal
  <2> QED
    BY <1>0, <1>1, <2>2 DEF Spent
<1>4. \A i \in DOMAIN inbox' : inbox'[i] \in Signal
  BY DEF TypeOK
<1>5. ReleaseIsFinal'
  BY <1>3, <1>4 DEF ReleaseIsFinal
<1>6. DOMAIN keyMap' \subseteq DOMAIN keyMap => KeysAreOld'
  BY <1>0, <1>1, <1>3, <1>4 DEF IInv, KeysAreOld
<1>7. CASE Head(inbox).type = "add" /\ AddResources(Head(inbox).resources)
  <2> DEFINE old == DOMAIN resources
  <2>1. /\ old \subseteq DOMAIN resources' /\ keyMap' = keyMap
        /\ \A r \in old : resources'[r] = resources[r]
        /\ \A r \in DOMAIN resources' : r \notin old => resources'[r] = None
    BY <1>7 DEF AddResources
  <2>2. KeysMatchHolders'
    BY <2>1 DEF IInv, KeysMatchHolders, TypeOK
  <2>3. GrantingIsFree'
    BY <1>0, <2>1 DEF IInv, GrantingIsFree, TypeOK
  <2>4. Books'
    BY <1>0, <1>1, <2>1 DEF IInv, Books, OnTheBooks
  <2> QED
    BY <1>5, <1>6, <2>1, <2>2, <2>3, <2>4 DEF IInv
<1>8. CASE Head(inbox).type = "acquire" /\ AcquireResource(Head(inbox).user)
  <2>1. resources' = resources /\ keyMap' = keyMap
    BY <1>8 DEF AcquireResource
  <2> QED
    BY <1>0, <1>1, <1>5, <1>6, <2>1
       DEF IInv, KeysMatchHolders, GrantingIsFree, Books, OnTheBooks
<1>9. CASE Head(inbox).type = "release" /\ ReleaseResource(Head(inbox).key)
  <2>1. PICK k \in Nat : k = Head(inbox).key
    BY <1>2, <1>9 DEF Signal
  <2>2. Spent(k)
    BY <1>2, <1>9, <2>1 DEF IInv, ReleaseIsFinal
  <2>3. CASE resources' = resources /\ keyMap' = keyMap
    BY <1>0, <1>1, <1>5, <1>6, <2>3
       DEF IInv, KeysMatchHolders, GrantingIsFree, Books, OnTheBooks
  <2>4. CASE /\ k \in DOMAIN keyMap /\ resources[keyMap[k]] # None
             /\ resources' = [resources EXCEPT ![keyMap[k]] = None]
             /\ keyMap' = [l \in DOMAIN keyMap \ {k} |-> keyMap[l]]
    <3>0. KeysMatchHolders /\ resources[keyMap[k]].key = k /\ keyMap[k] \in DOMAIN resources
      BY <2>4 DEF IInv, KeysMatchHolders, TypeOK
    <3>1. /\ DOMAIN resources' = DOMAIN resources /\ DOMAIN keyMap' = DOMAIN keyMap \ {k}
          /\ resources'[keyMap[k]] = None
          /\ \A r \in DOMAIN resources : r # keyMap[k] => resources'[r] = resources[r]
          /\ \A l \in DOMAIN keyMap' : keyMap'[l] = keyMap[l]
      BY <2>4 DEF TypeOK
    <3>2. KeysMatchHolders'
      <4>1. ASSUME NEW l \in DOMAIN keyMap'
            PROVE  resources'[keyMap'[l]] # None /\ resources'[keyMap'[l]].key = l
        <5>1. l # k /\ resources[keyMap[l]] # None /\ resources[keyMap[l]].key = l
          BY <3>0, <3>1 DEF KeysMatchHolders
        <5>2. keyMap[l] # keyMap[k] /\ keyMap[l] \in DOMAIN resources
          BY <3>0, <3>1, <5>1 DEF TypeOK
        <5> QED
          BY <3>1, <5>1, <5>2
      <4>2. ASSUME NEW r \in DOMAIN resources', resources'[r] # None
            PROVE  resources'[r].key \in DOMAIN keyMap' /\ keyMap'[resources'[r].key] = r
        <5>1. r # keyMap[k] /\ resources'[r] = resources[r]
          BY <3>1, <4>2
        <5>2. resources[r].key \in DOMAIN keyMap /\ keyMap[resources[r].key] = r
          BY <3>0, <3>1, <4>2, <5>1 DEF KeysMatchHolders
        <5> QED
          BY <3>1, <5>1, <5>2
      <4> QED
        BY <4>1, <4>2 DEF KeysMatchHolders
    <3>3. GrantingIsFree'
      BY <1>0, <3>1 DEF IInv, GrantingIsFree, TypeOK
    <3>4. Books'
      <4>1. ASSUME NEW u \in Users, NEW r \in Resources, NEW l \in Nat, Claims(u, r, l)
            PROVE  OnTheBooks(u, r, l)'
        <5>1. l # k
          BY <2>2, <4>1 DEF Spent
        <5>2. OnTheBooks(u, r, l)
          BY <4>1 DEF IInv, Books
        <5>3. CASE r \in DOMAIN resources /\ resources[r] = [user |-> u, key |-> l]
          <6>1. r # keyMap[k]
            BY <3>0, <5>1, <5>3
          <6> QED
            BY <3>1, <5>3, <6>1 DEF OnTheBooks
        <5> QED
          BY <1>0, <5>2, <5>3 DEF OnTheBooks
      <4> QED
        BY <1>1, <4>1 DEF Books
    <3> QED
      BY <1>5, <1>6, <3>1, <3>2, <3>3, <3>4 DEF IInv
  <2> QED
    BY <1>9, <2>1, <2>3, <2>4 DEF ReleaseResource
<1> QED
  BY <1>7, <1>8, <1>9 DEF HandleSignal

LEMMA AssignNextResourceIInv ==
  ASSUME TypeOK, IInv, TypeOK', AssignNextResource
  PROVE  IInv'
<1>1. PICK r \in FreeResources :
        granting' = [resource |-> r, user |-> Head(waiters), key |-> nextKey]
  BY DEF AssignNextResource
<1>2. /\ poolPc = "waiting" /\ poolPc' = "signalling" /\ nextKey' = nextKey + 1
      /\ UNCHANGED <<resources, keyMap, inbox>> /\ UNCHANGED userVars /\ nextKey \in Nat
  BY DEF AssignNextResource, TypeOK
<1>3. \A u \in Users, q \in Resources, k \in Nat : Claims(u, q, k)' <=> Claims(u, q, k)
  BY <1>2, SameClaims
<1>4. \A i \in DOMAIN inbox : inbox[i].type = "release" =>
        inbox[i].key \in Nat /\ inbox[i].key < nextKey /\ Spent(inbox[i].key)
  BY ReleasesInInbox
<1>5. \A k \in DOMAIN keyMap : k \in Nat /\ k < nextKey
  BY DEF IInv, KeysAreOld, TypeOK
<1>6. KeysAreOld'
  <2>1. \A u \in Users, q \in Resources, k \in Nat : Claims(u, q, k) => k < nextKey
    BY DEF IInv, KeysAreOld
  <2>2. \A u \in Users, q \in Resources, k \in Nat : Claims(u, q, k)' => k < nextKey'
    BY <1>2, <1>3, <2>1
  <2>3. granting'.key < nextKey'
    BY <1>1, <1>2
  <2> QED
    BY <1>2, <1>4, <1>5, <2>2, <2>3 DEF KeysAreOld
<1>7. KeysMatchHolders'
  BY <1>2 DEF IInv, KeysMatchHolders
<1>8. GrantingIsFree'
  BY <1>1, <1>2, <1>5 DEF GrantingIsFree, FreeResources
<1>9. Books'
  <2>1. ASSUME NEW u \in Users, NEW q \in Resources, NEW k \in Nat, Claims(u, q, k)
        PROVE  OnTheBooks(u, q, k)'
    BY <1>2, <2>1, ClaimsAreHeld DEF OnTheBooks
  <2> QED
    BY <1>3, <2>1 DEF Books
<1>10. ReleaseIsFinal'
  <2>1. ASSUME NEW i \in DOMAIN inbox, NEW k \in Nat, k = inbox[i].key, inbox[i].type = "release"
        PROVE  Spent(k)'
    BY <1>1, <1>2, <1>3, <1>4, <2>1 DEF Spent
  <2> QED
    BY <1>2, <1>4, <2>1 DEF ReleaseIsFinal
<1> QED
  BY <1>6, <1>7, <1>8, <1>9, <1>10 DEF IInv

LEMMA DeliverGrantIInv ==
  ASSUME TypeOK, IInv, TypeOK', DeliverGrant
  PROVE  IInv'
<1>1. PICK g \in Resources, w \in Users, n \in Nat :
        granting = [resource |-> g, user |-> w, key |-> n]
  BY DEF DeliverGrant, TypeOK, Granting
<1>2. /\ poolPc = "signalling" /\ poolPc' = "signalled"
      /\ acquired' = [acquired EXCEPT ![w] = Append(@, [resource |-> g, key |-> n])]
      /\ UNCHANGED <<resources, keyMap, granting, nextKey, inbox, userPc, held>>
  BY <1>1 DEF DeliverGrant
<1>3. n < nextKey /\ nextKey \in Nat
  BY <1>1, <1>2 DEF IInv, KeysAreOld, TypeOK
<1>4. ASSUME NEW u \in Users, NEW r \in Resources, NEW k \in Nat, Claims(u, r, k)'
      PROVE  Claims(u, r, k) \/ (u = w /\ r = g /\ k = n)
  <2>1. CASE u # w
    BY <1>2, <1>4, <2>1 DEF Claims, InUse, TypeOK
  <2>2. CASE u = w
    <3>1. acquired[w] \in Seq(Grant) /\ acquired'[w] = Append(acquired[w], [resource |-> g, key |-> n])
      BY <1>2 DEF TypeOK
    <3>2. \A i \in DOMAIN acquired'[w] :
            \/ i \in DOMAIN acquired[w] /\ acquired'[w][i] = acquired[w][i]
            \/ acquired'[w][i] = [resource |-> g, key |-> n]
      BY <3>1
    <3> QED
      BY <1>2, <1>4, <2>2, <3>2 DEF Claims, InUse
  <2> QED
    BY <2>1, <2>2
<1>5. \A i \in DOMAIN inbox : inbox[i].type = "release" =>
        inbox[i].key \in Nat /\ inbox[i].key < nextKey /\ Spent(inbox[i].key)
  BY ReleasesInInbox
<1>6. KeysAreOld'
  BY <1>1, <1>2, <1>3, <1>4, <1>5 DEF IInv, KeysAreOld
<1>7. KeysMatchHolders' /\ GrantingIsFree'
  BY <1>2 DEF IInv, KeysMatchHolders, GrantingIsFree
<1>8. Books'
  <2>1. ASSUME NEW u \in Users, NEW r \in Resources, NEW k \in Nat, Claims(u, r, k)'
        PROVE  OnTheBooks(u, r, k)'
    <3>1. CASE Claims(u, r, k)
      BY <1>2, <3>1, ClaimsAreHeld DEF OnTheBooks
    <3>2. CASE u = w /\ r = g /\ k = n
      BY <1>1, <1>2, <3>2 DEF OnTheBooks
    <3> QED
      BY <1>4, <2>1, <3>1, <3>2
  <2> QED
    BY <2>1 DEF Books
<1>9. ReleaseIsFinal'
  <2>1. ASSUME NEW i \in DOMAIN inbox, NEW k \in Nat, k = inbox[i].key, inbox[i].type = "release"
        PROVE  Spent(k)'
    <3>1. Spent(k) /\ k # n
      BY <1>1, <1>2, <1>5, <2>1 DEF Spent
    <3> QED
      BY <1>2, <1>4, <3>1 DEF Spent
  <2> QED
    BY <1>2, <1>5, <2>1 DEF ReleaseIsFinal
<1> QED
  BY <1>6, <1>7, <1>8, <1>9 DEF IInv

LEMMA RecordHolderIInv ==
  ASSUME TypeOK, IInv, TypeOK', RecordHolder
  PROVE  IInv'
<1>1. PICK g \in Resources, w \in Users, n \in Nat :
        granting = [resource |-> g, user |-> w, key |-> n]
  BY DEF RecordHolder, TypeOK, Granting
<1>2. /\ poolPc = "signalled" /\ poolPc' = "waiting" /\ granting' = None /\ granting # None
      /\ UNCHANGED <<nextKey, inbox>> /\ UNCHANGED userVars
      /\ g \in DOMAIN resources /\ resources[g] = None /\ n \notin DOMAIN keyMap /\ n < nextKey
  BY <1>1 DEF RecordHolder, IInv, GrantingIsFree, KeysAreOld, TypeOK
<1>3. /\ DOMAIN resources' = DOMAIN resources
      /\ resources'[g] = [user |-> w, key |-> n]
      /\ \A r \in DOMAIN resources : r # g => resources'[r] = resources[r]
      /\ DOMAIN keyMap' = DOMAIN keyMap \cup {n} /\ keyMap'[n] = g
      /\ \A k \in DOMAIN keyMap : keyMap'[k] = keyMap[k]
  BY <1>1, <1>2 DEF RecordHolder, TypeOK
<1>4. \A u \in Users, r \in Resources, k \in Nat : Claims(u, r, k)' <=> Claims(u, r, k)
  BY <1>2, SameClaims
<1>5. [user |-> w, key |-> n] # None
  BY NoneAssumption DEF Holder
<1>6. KeysAreOld'
  BY <1>2, <1>3, <1>4 DEF IInv, KeysAreOld
<1>7. KeysMatchHolders'
  <2>1. ASSUME NEW k \in DOMAIN keyMap'
        PROVE  resources'[keyMap'[k]] # None /\ resources'[keyMap'[k]].key = k
    <3>1. CASE k = n
      BY <1>3, <1>5, <3>1
    <3>2. CASE k # n
      <4>1. k \in DOMAIN keyMap /\ keyMap'[k] = keyMap[k] /\ keyMap[k] \in DOMAIN resources
        BY <1>3, <3>2 DEF TypeOK
      <4>2. resources[keyMap[k]] # None /\ resources[keyMap[k]].key = k
        BY <4>1 DEF IInv, KeysMatchHolders
      <4> QED
        BY <1>2, <1>3, <4>1, <4>2
    <3> QED
      BY <3>1, <3>2
  <2>2. ASSUME NEW r \in DOMAIN resources', resources'[r] # None
        PROVE  resources'[r].key \in DOMAIN keyMap' /\ keyMap'[resources'[r].key] = r
    <3>1. CASE r = g
      BY <1>3, <3>1
    <3>2. CASE r # g
      BY <1>3, <2>2, <3>2 DEF IInv, KeysMatchHolders
    <3> QED
      BY <3>1, <3>2
  <2> QED
    BY <2>1, <2>2 DEF KeysMatchHolders
<1>8. GrantingIsFree'
  BY <1>2 DEF GrantingIsFree
<1>9. Books'
  <2>1. ASSUME NEW u \in Users, NEW r \in Resources, NEW k \in Nat, Claims(u, r, k)
        PROVE  OnTheBooks(u, r, k)'
    <3>1. OnTheBooks(u, r, k)
      BY <2>1 DEF IInv, Books
    <3>2. CASE r \in DOMAIN resources /\ resources[r] = [user |-> u, key |-> k]
      <4>1. r # g
        <5>1. [user |-> u, key |-> k] # None
          BY NoneAssumption DEF Holder
        <5> QED
          BY <1>2, <3>2, <5>1
      <4> QED
        BY <1>3, <3>2, <4>1 DEF OnTheBooks
    <3>3. CASE granting = [resource |-> r, user |-> u, key |-> k]
      BY <1>1, <1>3, <1>2, <3>3 DEF OnTheBooks
    <3> QED
      BY <3>1, <3>2, <3>3 DEF OnTheBooks
  <2> QED
    BY <1>4, <2>1 DEF Books
<1>10. ReleaseIsFinal'
  <2>1. ASSUME NEW i \in DOMAIN inbox, NEW k \in Nat, k = inbox[i].key, inbox[i].type = "release"
        PROVE  Spent(k)'
    BY <1>2, <1>4, <2>1, ReleasesInInbox DEF Spent
  <2> QED
    BY <1>2, <2>1, ReleasesInInbox DEF ReleaseIsFinal
<1> QED
  BY <1>6, <1>7, <1>8, <1>9, <1>10 DEF IInv

\* The grant is dropped, or the pool fails: the books do not change.
LEMMA GrantEndsIInv ==
  ASSUME TypeOK, IInv, TypeOK', GrantNotFound \/ GrantFails
  PROVE  IInv'
<1>1. /\ poolPc = "signalling" /\ poolPc' \in {"waiting", "failed"} /\ granting' = None
      /\ UNCHANGED <<resources, keyMap, nextKey, inbox>> /\ UNCHANGED userVars
  BY DEF GrantNotFound, GrantFails
<1>2. \A u \in Users, r \in Resources, k \in Nat : Claims(u, r, k)' <=> Claims(u, r, k)
  BY <1>1, SameClaims
<1>3. KeysAreOld' /\ KeysMatchHolders' /\ GrantingIsFree'
  BY <1>1, <1>2 DEF IInv, KeysAreOld, KeysMatchHolders, GrantingIsFree
<1>4. Books'
  <2>1. ASSUME NEW u \in Users, NEW r \in Resources, NEW k \in Nat, Claims(u, r, k)
        PROVE  OnTheBooks(u, r, k)'
    BY <1>1, <2>1, ClaimsAreHeld DEF OnTheBooks
  <2> QED
    BY <1>2, <2>1 DEF Books
<1>5. ReleaseIsFinal'
  <2>1. ASSUME NEW i \in DOMAIN inbox, NEW k \in Nat, k = inbox[i].key, inbox[i].type = "release"
        PROVE  Spent(k)'
    BY <1>1, <1>2, <2>1, ReleasesInInbox DEF Spent
  <2> QED
    BY <1>1, <2>1, ReleasesInInbox DEF ReleaseIsFinal
<1> QED
  BY <1>3, <1>4, <1>5 DEF IInv

\* The map __init__ builds from the holders is the map the last run had.
LEMMA ContinueAsNewIInv ==
  ASSUME TypeOK, IInv, TypeOK', ContinueAsNew
  PROVE  IInv'
<1>1. /\ UNCHANGED <<resources, poolPc, granting, nextKey, inbox>> /\ UNCHANGED userVars
      /\ keyMap' = RebuiltKeyMap(resources) /\ poolPc = "waiting"
  BY DEF ContinueAsNew
<1> DEFINE names == {r \in DOMAIN resources : resources[r] # None}
<1>2. /\ DOMAIN keyMap' = {resources[r].key : r \in names}
      /\ \A k \in DOMAIN keyMap' : keyMap'[k] = CHOOSE r \in names : resources[r].key = k
  BY <1>1 DEF RebuiltKeyMap
<1>3. \A r \in names : resources[r].key \in DOMAIN keyMap /\ keyMap[resources[r].key] = r
  BY DEF IInv, KeysMatchHolders
<1>4. ASSUME NEW k \in DOMAIN keyMap'
      PROVE  keyMap'[k] \in names /\ resources[keyMap'[k]].key = k
  BY <1>2
<1>5. KeysMatchHolders'
  <2>1. ASSUME NEW r \in names
        PROVE  resources[r].key \in DOMAIN keyMap' /\ keyMap'[resources[r].key] = r
    BY <1>2, <1>3, <1>4
  <2> QED
    BY <1>1, <1>4, <2>1 DEF KeysMatchHolders
<1>6. DOMAIN keyMap' \subseteq DOMAIN keyMap
  BY <1>2, <1>3
<1>7. \A u \in Users, r \in Resources, k \in Nat : Claims(u, r, k)' <=> Claims(u, r, k)
  BY <1>1, SameClaims
<1>8. KeysAreOld' /\ GrantingIsFree'
  BY <1>1, <1>6, <1>7 DEF IInv, KeysAreOld, GrantingIsFree
<1>9. Books'
  BY <1>1, <1>7 DEF IInv, Books, OnTheBooks
<1>10. ReleaseIsFinal'
  <2>1. ASSUME NEW i \in DOMAIN inbox, NEW k \in Nat, k = inbox[i].key, inbox[i].type = "release"
        PROVE  Spent(k)'
    BY <1>1, <1>7, <2>1, ReleasesInInbox DEF Spent
  <2> QED
    BY <1>1, <2>1, ReleasesInInbox DEF ReleaseIsFinal
<1> QED
  BY <1>5, <1>8, <1>9, <1>10 DEF IInv

LEMMA StepIInv == TypeOK /\ IInv /\ TypeOK' /\ [Next]_vars => IInv'
<1> SUFFICES ASSUME TypeOK, IInv, TypeOK', [Next]_vars PROVE IInv'
  OBVIOUS
<1>1. CASE PoolStep
  BY <1>1, HandleSignalIInv, AssignNextResourceIInv, DeliverGrantIInv, RecordHolderIInv,
     GrantEndsIInv, ContinueAsNewIInv DEF PoolStep
<1>2. CASE \E u \in Users : UserStep(u)
  BY <1>2, UserStepIInv
<1>3. CASE OperatorStep
  BY <1>3, OperatorStepIInv
<1>4. CASE UNCHANGED vars
  <2>1. UNCHANGED poolVars /\ UNCHANGED userVars /\ inbox' = inbox
    BY <1>4 DEF vars, poolVars, userVars
  <2>2. \A u \in Users, r \in Resources, k \in Nat : Claims(u, r, k)' => Claims(u, r, k)
    BY <2>1, SameClaims
  <2> QED
    BY <2>1, <2>2, OutsideStep
<1> QED
  BY <1>1, <1>2, <1>3, <1>4 DEF Next

LEMMA Invariance == Spec => [](TypeOK /\ IInv)
<1>1. Init => TypeOK /\ IInv
  BY InitTypeOK, InitIInv
<1>2. TypeOK /\ IInv /\ [Next]_vars => (TypeOK /\ IInv)'
  BY StepTypeOK, StepIInv
<1> QED
  BY <1>1, <1>2, PTL DEF Spec

-----------------------------------------------------------------------------
(* The results.                                                              *)

\* No two workflows run on the same resource, for any number of workflows and
\* resources, under cancellations, terminations, continue-as-new of pool and
\* users, late acknowledgements and operator releases.
THEOREM Exclusion == Spec => []MutualExclusion
<1>1. TypeOK /\ IInv => MutualExclusion
  BY IInvImplies
<1> QED
  BY <1>1, Invariance, PTL

\* release_key_to_resource stays the inverse of the holders, also across the
\* rebuild in __init__.
THEOREM KeysAndHolders == Spec => []KeysMatchHolders
<1>1. TypeOK /\ IInv => KeysMatchHolders
  BY IInvImplies
<1> QED
  BY <1>1, Invariance, PTL

\* Every grant somebody may run on is recorded or about to be, and a release
\* in flight never concerns such a grant.
THEOREM BooksAreTrue == Spec => [](ClaimsAreOnTheBooks /\ ReleaseIsFinal)
<1>1. TypeOK /\ IInv => ClaimsAreOnTheBooks /\ ReleaseIsFinal
  BY IInvImplies
<1> QED
  BY <1>1, Invariance, PTL

-----------------------------------------------------------------------------
(* The holder keeps its resource.                                            *)

LEMMA HolderStep ==
  ASSUME TypeOK, IInv, [Next]_vars, NEW r \in DOMAIN resources,
         resources[r] # None, resources'[r] # resources[r]
  PROVE  ~(InUse(resources[r].user) /\ held[resources[r].user].key = resources[r].key)
<1>0. resources[r].user \in Users /\ resources[r].key \in Nat
  BY DEF TypeOK, Holder
<1>1. HandleSignal \/ RecordHolder
  BY DEF Next, PoolStep, UserStep, OperatorStep, vars, AssignNextResource, DeliverGrant,
         GrantNotFound, GrantFails, ContinueAsNew, StartUser, TakeGrant, GiveUp, FinishActivity,
         CancelUse, Release, TerminateUser, OperatorAdds, OperatorReleases, poolVars
<1>2. CASE RecordHolder
  <2>1. granting # None /\ resources[granting.resource] = None
    BY <1>2 DEF RecordHolder, TypeOK, IInv, GrantingIsFree
  <2> QED
    BY <1>2, <2>1 DEF RecordHolder, TypeOK
<1>3. CASE HandleSignal
  <2>1. inbox # <<>> /\ Head(inbox) = inbox[1] /\ 1 \in DOMAIN inbox
    BY <1>3 DEF HandleSignal, TypeOK
  <2>2. Head(inbox).type = "release" /\ ReleaseResource(Head(inbox).key)
    BY <1>3 DEF HandleSignal, AddResources, AcquireResource
  <2>3. PICK k \in Nat : k = Head(inbox).key /\ Spent(k)
    BY <2>1, <2>2, ReleasesInInbox
  <2>4. k \in DOMAIN keyMap /\ r = keyMap[k]
    BY <2>2, <2>3 DEF ReleaseResource, TypeOK
  <2>5. resources[r].key = k
    BY <2>4 DEF IInv, KeysMatchHolders
  <2> QED
    BY <1>0, <2>3, <2>5, UseIsClaim DEF Spent
<1> QED
  BY <1>1, <1>2, <1>3

\* The pool frees or reassigns a resource only when its holder has left the
\* `async with` for which it was granted.
THEOREM HolderKeeps == Spec => HolderKeepsResource
<1> DEFINE Keeps == \A r \in DOMAIN resources :
       resources[r] # None /\ resources'[r] # resources[r] =>
         ~(InUse(resources[r].user) /\ held[resources[r].user].key = resources[r].key)
<1>1. TypeOK /\ IInv /\ [Next]_vars => [Keeps]_vars
  BY HolderStep
<1> HIDE DEF Keeps
<1>2. Spec => [][Keeps]_vars
  BY <1>1, Invariance, PTL DEF Spec
<1> QED
  BY <1>2 DEF Keeps, HolderKeepsResource

-----------------------------------------------------------------------------
(* The pool implements the lock.                                             *)

Uses == [u \in Users |-> IF InUse(u) THEN held[u].resource ELSE None]

LEMMA LockInit == Init => Lock!Init
BY DEF Init, Lock!Init, InUse, Iterations

\* What a step that leaves the users' places alone does to the lock: nothing.
LEMMA LockStutter ==
  ASSUME userPc' = userPc, held' = held
  PROVE  Uses' = Uses
BY DEF Uses, InUse

LEMMA LockStep ==
  ASSUME TypeOK, TypeOK', MutualExclusion', [Next]_vars
  PROVE  [Lock!Next]_Uses
<1> USE DEF Iterations
<1>1. ASSUME NEW u \in Users, UserStep(u) PROVE [Lock!Next]_Uses
  <2>1. CASE TakeGrant(u)
    <3>0. acquired[u] \in Seq(Grant) /\ acquired[u] # <<>>
      BY <2>1 DEF TakeGrant, TypeOK
    <3>1. userPc[u] = "waiting" /\ userPc' = [userPc EXCEPT ![u] = "first"]
      BY <2>1 DEF TakeGrant
    <3>2. PICK g \in Grant : held' = [held EXCEPT ![u] = g]
      <4>1. Head(acquired[u]) \in Grant
        BY <3>0
      <4> QED
        BY <2>1, <4>1 DEF TakeGrant
    <3>3. g.resource \in Resources /\ held'[u] = g /\ InUse(u)' /\ ~InUse(u)
      BY <3>1, <3>2 DEF Grant, InUse, TypeOK
    <3>4. \A v \in Users : v # u => (InUse(v)' <=> InUse(v)) /\ held'[v] = held[v]
      BY <3>1, <3>2 DEF InUse, TypeOK
    <3>5. \A v \in Users : Uses[v] # g.resource
      <4>1. ASSUME NEW v \in Users, v # u, InUse(v) PROVE held[v].resource # g.resource
        BY <3>3, <3>4, <4>1 DEF MutualExclusion
      <4>2. None # g.resource
        BY <3>3, NoneAssumption
      <4> QED
        BY <3>3, <4>1, <4>2 DEF Uses
    <3>6. Uses' = [Uses EXCEPT ![u] = g.resource] /\ Uses[u] = None
      BY <3>3, <3>4 DEF Uses
    <3> QED
      BY <3>3, <3>5, <3>6 DEF Lock!Next, Lock!Acquire, Uses
  <2>2. CASE Release(u) \/ TerminateUser(u)
    <3>1. userPc' = [userPc EXCEPT ![u] = "closed"] /\ held' = [held EXCEPT ![u] = None]
      BY <2>2 DEF Release, TerminateUser
    <3>2. \A v \in Users : v # u => (InUse(v)' <=> InUse(v)) /\ held'[v] = held[v]
      BY <3>1 DEF InUse, TypeOK
    <3>3. Uses' = [Uses EXCEPT ![u] = None]
      BY <3>1, <3>2 DEF Uses, InUse, TypeOK
    <3>4. CASE Uses[u] = None
      BY <3>3, <3>4 DEF Uses
    <3>5. CASE Uses[u] # None
      <4>1. Lock!Release(u)
        BY <3>3, <3>5 DEF Lock!Release, Uses
      <4> QED
        BY <4>1 DEF Lock!Next
    <3> QED
      BY <3>4, <3>5
  <2>3. CASE FinishActivity(u) \/ CancelUse(u)
    <3>1. InUse(u) /\ held' = held
      BY <2>3 DEF FinishActivity, CancelUse, InUse
    <3>2. PICK pc \in {"first", "second", "releasing"} : userPc' = [userPc EXCEPT ![u] = pc]
      BY <2>3 DEF FinishActivity, CancelUse
    <3>3. \A v \in Users : InUse(v)' <=> InUse(v)
      BY <3>1, <3>2 DEF InUse, TypeOK
    <3> QED
      BY <3>1, <3>3 DEF Uses
  <2>4. CASE StartUser(u) \/ GiveUp(u)
    <3>1. ~InUse(u) /\ held' = held
      BY <2>4 DEF StartUser, GiveUp, InUse
    <3>2. PICK pc \in {"closed", "waiting"} : userPc' = [userPc EXCEPT ![u] = pc]
      BY <2>4 DEF StartUser, GiveUp
    <3>3. \A v \in Users : InUse(v)' <=> InUse(v)
      BY <3>1, <3>2 DEF InUse, TypeOK
    <3> QED
      BY <3>1, <3>3 DEF Uses
  <2> QED
    BY <1>1, <2>1, <2>2, <2>3, <2>4 DEF UserStep
<1>2. CASE PoolStep \/ OperatorStep \/ UNCHANGED vars
  <2>1. userPc' = userPc /\ held' = held
    BY <1>2 DEF PoolStep, OperatorStep, HandleSignal, AssignNextResource, DeliverGrant, RecordHolder,
           GrantNotFound, GrantFails, ContinueAsNew, OperatorAdds, OperatorReleases, userVars, vars
  <2> QED
    BY <2>1, LockStutter
<1> QED
  BY <1>1, <1>2 DEF Next

\* Every behaviour of the sample is a behaviour of a lock: a workflow acquires
\* a resource nobody uses and gives back the one it has.
THEOREM PoolImplementsLock == Spec => ImplementsLock
<1>1. Init => Lock!Init
  BY LockInit
<1>2. TypeOK /\ IInv /\ [Next]_vars /\ TypeOK' /\ IInv' => [Lock!Next]_Uses
  <2>1. TypeOK' /\ IInv' => MutualExclusion'
    BY IInvImplies, PTL
  <2> QED
    BY <2>1, LockStep
<1>3. Spec => Lock!Init /\ [][Lock!Next]_Uses
  BY <1>1, <1>2, Invariance, PTL DEF Spec
<1> QED
  BY <1>3, PTL DEF ImplementsLock, Lock!Spec, Uses

-----------------------------------------------------------------------------
(* No waiter is forgotten                                                   *)

InMail(u)       == \E i \in DOMAIN inbox : inbox[i].type = "acquire" /\ inbox[i].user = u
InQueue(u)      == \E i \in DOMAIN waiters : waiters[i] = u
BeingGranted(u) == poolPc = "signalling" /\ granting.user = u

\* A signal that is sent is added to the mail.
LEMMA MailGrows ==
  ASSUME TypeOK, NEW s \in Signal, inbox' = Append(inbox, s), NEW u \in Users
  PROVE  InMail(u)' <=> InMail(u) \/ (s.type = "acquire" /\ s.user = u)
<1>1. inbox \in Seq(Signal)
  BY DEF TypeOK
<1> QED
  BY <1>1, AppendedElements DEF InMail

\* The first signal is the one that is handled.
LEMMA MailShrinks ==
  ASSUME TypeOK, inbox # <<>>, inbox' = Tail(inbox), NEW u \in Users
  PROVE  /\ InMail(u)' => InMail(u)
         /\ InMail(u) => InMail(u)' \/ (Head(inbox).type = "acquire" /\ Head(inbox).user = u)
<1>1. inbox \in Seq(Signal)
  BY DEF TypeOK
<1>2. /\ inbox[1] = Head(inbox)
      /\ \A i \in DOMAIN inbox' : i + 1 \in DOMAIN inbox /\ inbox'[i] = inbox[i + 1]
      /\ \A i \in DOMAIN inbox : i # 1 => i - 1 \in DOMAIN inbox' /\ inbox'[i - 1] = inbox[i]
  BY <1>1, TailElements
<1>3. InMail(u)' => InMail(u)
  BY <1>2 DEF InMail
<1>4. ASSUME InMail(u), ~(Head(inbox).type = "acquire" /\ Head(inbox).user = u)
      PROVE  InMail(u)'
  <2>1. PICK i \in DOMAIN inbox : inbox[i].type = "acquire" /\ inbox[i].user = u
    BY <1>4 DEF InMail
  <2>2. i # 1
    BY <1>2, <1>4, <2>1
  <2> QED
    BY <1>2, <2>1, <2>2 DEF InMail
<1> QED
  BY <1>3, <1>4

LEMMA QueueGrows ==
  ASSUME TypeOK, NEW w \in Users, waiters' = Append(waiters, w), NEW u \in Users
  PROVE  InQueue(u)' <=> InQueue(u) \/ w = u
<1>1. waiters \in Seq(Users)
  BY DEF TypeOK
<1> QED
  BY <1>1, AppendedElements DEF InQueue

LEMMA QueueShrinks ==
  ASSUME TypeOK, waiters # <<>>, waiters' = Tail(waiters), NEW u \in Users
  PROVE  /\ InQueue(u)' => InQueue(u)
         /\ InQueue(u) => InQueue(u)' \/ Head(waiters) = u
<1>1. waiters \in Seq(Users)
  BY DEF TypeOK
<1> QED
  BY <1>1, TailElements DEF InQueue

Asked(u) == InMail(u) \/ InQueue(u) \/ BeingGranted(u) \/ acquired[u] # <<>>

\* What one step does to the request of a workflow that goes on waiting.
LEMMA StillAsked ==
  ASSUME TypeOK, [Next]_vars, NEW u \in Users,
         userPc[u] = "waiting", userPc'[u] = "waiting", PoolAlive', Asked(u)
  PROVE  Asked(u)'
<1> USE DEF TypeOK
<1>1. CASE HandleSignal
  <2>1. inbox # <<>> /\ inbox' = Tail(inbox) /\ UNCHANGED <<poolPc, granting, acquired>>
    BY <1>1 DEF HandleSignal, userVars
  <2>2. Head(inbox) \in Signal
    BY <2>1
  <2>3. CASE Head(inbox).type = "acquire" /\ AcquireResource(Head(inbox).user)
    <3>1. Head(inbox).user \in Users /\ waiters' = Append(waiters, Head(inbox).user)
      BY <2>2, <2>3 DEF Signal, AcquireResource
    <3>2. InQueue(u)' <=> InQueue(u) \/ Head(inbox).user = u
      BY <3>1, QueueGrows
    <3> QED
      BY <2>1, <3>2, MailShrinks DEF Asked, BeingGranted
  <2>4. CASE Head(inbox).type # "acquire" /\ waiters' = waiters
    BY <2>1, <2>4, MailShrinks DEF Asked, BeingGranted, InQueue
  <2> QED
    BY <1>1, <2>3, <2>4 DEF HandleSignal, AddResources, ReleaseResource
<1>2. CASE AssignNextResource
  <2>1. /\ waiters # <<>> /\ waiters' = Tail(waiters) /\ poolPc' = "signalling"
        /\ poolPc = "waiting" /\ granting'.user = Head(waiters)
        /\ UNCHANGED <<inbox, acquired>>
    BY <1>2 DEF AssignNextResource, can_assign_resource, userVars
  <2> QED
    BY <2>1, QueueShrinks DEF Asked, BeingGranted, InMail
<1>3. CASE DeliverGrant
  <2>1. /\ UNCHANGED <<inbox, waiters>> /\ granting.user \in Users
        /\ acquired' = [acquired EXCEPT ![granting.user] = Append(@,
             [resource |-> granting.resource, key |-> granting.key])]
    BY <1>3 DEF DeliverGrant, Granting
  <2>2. CASE granting.user = u
    <3>1. acquired'[u] # <<>>
      BY <2>1, <2>2
    <3> QED
      BY <3>1 DEF Asked
  <2>3. CASE granting.user # u
    <3>1. acquired'[u] = acquired[u]
      BY <2>1, <2>3
    <3> QED
      BY <2>1, <2>3, <3>1 DEF Asked, InMail, InQueue, BeingGranted
  <2> QED
    BY <2>2, <2>3
<1>4. CASE RecordHolder
  BY <1>4 DEF RecordHolder, userVars, Asked, InMail, InQueue, BeingGranted
<1>5. CASE GrantNotFound
  BY <1>5 DEF GrantNotFound, Running, userVars, Asked, InMail, InQueue, BeingGranted
<1>6. CASE GrantFails
  BY <1>6 DEF GrantFails, PoolAlive
<1>7. CASE ContinueAsNew
  BY <1>7 DEF ContinueAsNew, userVars, Asked, InMail, InQueue, BeingGranted
<1>8. ASSUME NEW v \in Users, UserStep(v) PROVE Asked(u)'
  <2>1. UNCHANGED poolVars /\ acquired'[u] = acquired[u]
    <3>1. CASE v = u
      BY <1>8, <3>1 DEF UserStep, StartUser, TakeGrant, GiveUp, FinishActivity, CancelUse,
           Release, TerminateUser, poolVars, Iterations
    <3>2. CASE v # u
      BY <1>8, <3>2 DEF UserStep, StartUser, TakeGrant, GiveUp, FinishActivity, CancelUse,
           Release, TerminateUser, poolVars
    <3> QED
      BY <3>1, <3>2
  <2>2. inbox' = inbox \/ \E s \in Signal : inbox' = Append(inbox, s)
    <3>1. CASE StartUser(v)
      BY <3>1 DEF StartUser, Signal
    <3>2. CASE Release(v)
      <4>1. held[v].key \in Nat
        BY <3>2 DEF Release, InUse, Grant
      <4> QED
        BY <3>2, <4>1 DEF Release, Signal
    <3> QED
      BY <1>8, <3>1, <3>2 DEF UserStep, TakeGrant, GiveUp, FinishActivity, CancelUse,
           TerminateUser
  <2>3. InMail(u) => InMail(u)'
    BY <2>2, MailGrows DEF InMail
  <2> QED
    BY <2>1, <2>3 DEF poolVars, Asked, InQueue, BeingGranted
<1>9. CASE OperatorStep
  <2>1. UNCHANGED poolVars /\ acquired' = acquired
    BY <1>9 DEF OperatorStep, OperatorAdds, OperatorReleases, userVars
  <2>2. \E s \in Signal : inbox' = Append(inbox, s)
    <3>1. ASSUME NEW names \in SUBSET Resources, OperatorAdds(names)
          PROVE  \E s \in Signal : inbox' = Append(inbox, s)
      BY <3>1 DEF OperatorAdds, Signal
    <3>2. ASSUME NEW r \in Resources, OperatorReleases(r)
          PROVE  \E s \in Signal : inbox' = Append(inbox, s)
      BY <3>2 DEF OperatorReleases, Signal, Holder
    <3> QED
      BY <1>9, <3>1, <3>2 DEF OperatorStep
  <2>3. InMail(u) => InMail(u)'
    BY <2>2, MailGrows
  <2> QED
    BY <2>1, <2>3 DEF poolVars, Asked, InQueue, BeingGranted
<1>10. CASE UNCHANGED vars
  BY <1>10 DEF vars, Asked, InMail, InQueue, BeingGranted
<1> QED
  BY <1>1, <1>2, <1>3, <1>4, <1>5, <1>6, <1>7, <1>8, <1>9, <1>10 DEF Next, PoolStep

\* A workflow that starts to wait has just sent its request.
LEMMA StartAsks ==
  ASSUME TypeOK, [Next]_vars, NEW u \in Users, userPc[u] # "waiting", userPc'[u] = "waiting"
  PROVE  InMail(u)'
<1>1. StartUser(u)
  <2>1. PICK v \in Users : UserStep(v)
    BY DEF Next, vars, PoolStep, OperatorStep, HandleSignal, AssignNextResource, DeliverGrant,
       RecordHolder, GrantNotFound, GrantFails, ContinueAsNew, OperatorAdds, OperatorReleases,
       userVars
  <2>2. v = u
    BY <2>1 DEF UserStep, StartUser, TakeGrant, GiveUp, FinishActivity, CancelUse, Release,
       TerminateUser, TypeOK
  <2> QED
    BY <2>1, <2>2 DEF UserStep, TakeGrant, GiveUp, FinishActivity, CancelUse, Release,
       TerminateUser, TypeOK, Iterations
<1>2. [type |-> "acquire", user |-> u] \in Signal
  BY DEF Signal
<1> QED
  BY <1>1, <1>2, MailGrows DEF StartUser

\* Whatever is cancelled, terminated, delayed or continued as new: as long as
\* a workflow waits, the pool has its request or it has its grant.
THEOREM NoWaiterIsForgotten == Spec => []WaiterIsQueued
<1> DEFINE Inv == \A u \in Users : userPc[u] = "waiting" /\ PoolAlive => Asked(u)
<1>1. Init => Inv
  BY DEF Init
<1>2. TypeOK /\ Inv /\ [Next]_vars => Inv'
  <2> SUFFICES ASSUME TypeOK, Inv, [Next]_vars, NEW u \in Users, userPc'[u] = "waiting", PoolAlive'
               PROVE  Asked(u)'
    OBVIOUS
  <2>1. CASE userPc[u] # "waiting"
    BY <2>1, StartAsks DEF Asked
  <2>2. CASE userPc[u] = "waiting"
    <3>1. PoolAlive
      BY DEF PoolAlive, Next, vars, PoolStep, UserStep, OperatorStep, HandleSignal,
         AssignNextResource, DeliverGrant, RecordHolder, GrantNotFound, GrantFails,
         ContinueAsNew, OperatorAdds, OperatorReleases, StartUser, TakeGrant, GiveUp,
         FinishActivity, CancelUse, Release, TerminateUser, poolVars
    <3> QED
      BY <2>2, <3>1, StillAsked
  <2> QED
    BY <2>1, <2>2
<1>3. Inv => WaiterIsQueued
  BY DEF WaiterIsQueued, Asked, InMail, InQueue, BeingGranted
<1> HIDE DEF Inv
<1> QED
  BY <1>1, <1>2, <1>3, TypeCorrect, PTL DEF Spec

-----------------------------------------------------------------------------
(* No leak, unless a workflow id is reused, a user terminated, or a grant    *)
(* given back before the pool hears of its delivery.  A workflow then asks   *)
(* at most once, and every grant is with its user or on the way back.        *)

\* The pool hears of a delivery before the grant comes back, every workflow id
\* is used once, and no user is terminated.
LeakConditions == PromptAck /\ MaxStarts <= 1 /\ ~UserMayTerminate

OneInMail(u) ==
  \A i, j \in DOMAIN inbox :
    /\ inbox[i].type = "acquire" /\ inbox[i].user = u
    /\ inbox[j].type = "acquire" /\ inbox[j].user = u
    => i = j

OneInQueue(u) == \A i, j \in DOMAIN waiters : waiters[i] = u /\ waiters[j] = u => i = j

\* The one request of u is in one place; it has nothing before it is granted.
AsksOnce(u) ==
  /\ starts[u] = 0 => userPc[u] = "closed"
  /\ userPc[u] # "waiting" => acquired[u] = <<>>
  /\ Len(acquired[u]) <= 1
  /\ OneInMail(u) /\ OneInQueue(u)
  /\ InMail(u) \/ InQueue(u) \/ BeingGranted(u) =>
       starts[u] # 0 /\ ~InUse(u) /\ acquired[u] = <<>>
  /\ ~(InMail(u) /\ InQueue(u)) /\ ~(InMail(u) /\ BeingGranted(u))
  /\ ~(InQueue(u) /\ BeingGranted(u))

Releasing(k) == \E i \in DOMAIN inbox : inbox[i].type = "release" /\ inbox[i].key = k

\* A holder has its grant, or gives it back; a grant that has just been
\* delivered is still with its user.
GrantsReturn ==
  PoolAlive =>
    /\ \A r \in DOMAIN resources : resources[r] # None =>
         \/ Claims(resources[r].user, r, resources[r].key)
         \/ Releasing(resources[r].key)
    /\ poolPc = "signalled" => Claims(granting.user, granting.resource, granting.key)

LeakInv == (\A u \in Users : AsksOnce(u)) /\ GrantsReturn

\* One more signal, one signal less.
LEMMA OnceGrows ==
  ASSUME TypeOK, NEW s \in Signal, inbox' = Append(inbox, s), NEW u \in Users,
         OneInMail(u), ~(s.type = "acquire" /\ s.user = u /\ InMail(u))
  PROVE  OneInMail(u)'
<1>1. inbox \in Seq(Signal)
  BY DEF TypeOK
<1>2. /\ \A i \in DOMAIN inbox : i \in DOMAIN inbox' /\ inbox'[i] = inbox[i]
      /\ Len(inbox) + 1 \in DOMAIN inbox' /\ inbox'[Len(inbox) + 1] = s
      /\ \A i \in DOMAIN inbox' : i \in DOMAIN inbox \/ i = Len(inbox) + 1
  BY <1>1, AppendedElements
<1> QED
  BY <1>2 DEF OneInMail, InMail

LEMMA OnceShrinks ==
  ASSUME TypeOK, inbox # <<>>, inbox' = Tail(inbox), NEW u \in Users, OneInMail(u)
  PROVE  /\ OneInMail(u)'
         /\ Head(inbox).type = "acquire" /\ Head(inbox).user = u => ~InMail(u)'
<1>1. inbox \in Seq(Signal)
  BY DEF TypeOK
<1>2. /\ 1 \in DOMAIN inbox /\ inbox[1] = Head(inbox)
      /\ \A i \in DOMAIN inbox' : i + 1 \in DOMAIN inbox /\ inbox'[i] = inbox[i + 1]
  BY <1>1, TailElements
<1>3. \A i, j \in DOMAIN inbox' : i \in Nat \ {0} /\ j \in Nat \ {0}
  BY <1>1
<1>4. OneInMail(u)'
  <2> SUFFICES ASSUME NEW i \in DOMAIN inbox', NEW j \in DOMAIN inbox',
                      inbox'[i].type = "acquire", inbox'[i].user = u,
                      inbox'[j].type = "acquire", inbox'[j].user = u
               PROVE  i = j
    BY DEF OneInMail
  <2>1. i + 1 = j + 1
    BY <1>2 DEF OneInMail
  <2> QED
    BY <1>3, <2>1
<1>5. ASSUME Head(inbox).type = "acquire", Head(inbox).user = u, InMail(u)' PROVE FALSE
  <2>1. PICK i \in DOMAIN inbox' : inbox'[i].type = "acquire" /\ inbox'[i].user = u
    BY <1>5 DEF InMail
  <2>2. i + 1 = 1
    BY <1>2, <1>5, <2>1 DEF OneInMail
  <2> QED
    BY <1>3, <2>1, <2>2
<1> QED
  BY <1>4, <1>5

LEMMA OnceQueued ==
  ASSUME TypeOK, NEW w \in Users, waiters' = Append(waiters, w), NEW u \in Users,
         OneInQueue(u), w = u => ~InQueue(u)
  PROVE  OneInQueue(u)'
<1>1. waiters \in Seq(Users)
  BY DEF TypeOK
<1>2. /\ \A i \in DOMAIN waiters : i \in DOMAIN waiters' /\ waiters'[i] = waiters[i]
      /\ Len(waiters) + 1 \in DOMAIN waiters' /\ waiters'[Len(waiters) + 1] = w
      /\ \A i \in DOMAIN waiters' : i \in DOMAIN waiters \/ i = Len(waiters) + 1
  BY <1>1, AppendedElements
<1> QED
  BY <1>2 DEF OneInQueue, InQueue

LEMMA OnceServed ==
  ASSUME TypeOK, waiters # <<>>, waiters' = Tail(waiters), NEW u \in Users, OneInQueue(u)
  PROVE  OneInQueue(u)' /\ (Head(waiters) = u => ~InQueue(u)')
<1>1. waiters \in Seq(Users)
  BY DEF TypeOK
<1>2. /\ 1 \in DOMAIN waiters /\ waiters[1] = Head(waiters)
      /\ \A i \in DOMAIN waiters' : i + 1 \in DOMAIN waiters /\ waiters'[i] = waiters[i + 1]
  BY <1>1, TailElements
<1>3. \A i \in DOMAIN waiters' : i \in Nat \ {0}
  BY <1>1
<1>4. OneInQueue(u)'
  <2> SUFFICES ASSUME NEW i \in DOMAIN waiters', NEW j \in DOMAIN waiters',
                      waiters'[i] = u, waiters'[j] = u
               PROVE  i = j
    BY DEF OneInQueue
  <2>1. i + 1 = j + 1
    BY <1>2 DEF OneInQueue
  <2> QED
    BY <1>3, <2>1
<1>5. ASSUME Head(waiters) = u, InQueue(u)' PROVE FALSE
  <2>1. PICK i \in DOMAIN waiters' : waiters'[i] = u
    BY <1>5 DEF InQueue
  <2>2. i + 1 = 1
    BY <1>2, <1>5, <2>1 DEF OneInQueue
  <2> QED
    BY <1>3, <2>1, <2>2
<1> QED
  BY <1>4, <1>5

\* A step that leaves u, the queue and the grant of u alone.
LEMMA AsksFrame ==
  ASSUME TypeOK, NEW u \in Users, AsksOnce(u), waiters' = waiters,
         BeingGranted(u)' => BeingGranted(u),
         starts'[u] = starts[u], acquired'[u] = acquired[u], userPc'[u] = userPc[u],
         \/ inbox' = inbox
         \/ \E s \in Signal : /\ inbox' = Append(inbox, s)
                              /\ ~(s.type = "acquire" /\ s.user = u)
  PROVE  AsksOnce(u)'
<1>1. OneInMail(u)' /\ (InMail(u)' => InMail(u))
  <2>1. CASE inbox' = inbox
    BY <2>1 DEF AsksOnce, OneInMail, InMail
  <2>2. ASSUME NEW s \in Signal, inbox' = Append(inbox, s), ~(s.type = "acquire" /\ s.user = u)
        PROVE  OneInMail(u)' /\ (InMail(u)' => InMail(u))
    BY <2>2, OnceGrows, MailGrows DEF AsksOnce
  <2> QED
    BY <2>1, <2>2
<1> QED
  BY <1>1 DEF AsksOnce, OneInQueue, InQueue, InUse

\* The signals that a user or the operator sends.
LEMMA OutsideSignal ==
  ASSUME TypeOK, [Next]_vars, NEW u \in Users,
         ~HandleSignal, ~StartUser(u)
  PROVE  \/ inbox' = inbox
         \/ \E s \in Signal : inbox' = Append(inbox, s) /\ ~(s.type = "acquire" /\ s.user = u)
<1> DEFINE Sent == \E s \in Signal : inbox' = Append(inbox, s)
                                       /\ ~(s.type = "acquire" /\ s.user = u)
<1>1. ASSUME NEW v \in Users, UserStep(v) PROVE inbox' = inbox \/ Sent
  <2>1. CASE StartUser(v)
    <3>1. v # u
      BY <2>1
    <3>2. [type |-> "acquire", user |-> v] \in Signal
      BY DEF Signal
    <3> QED
      BY <2>1, <3>1, <3>2 DEF StartUser
  <2>2. CASE Release(v)
    <3>1. held[v].key \in Nat
      BY <2>2 DEF Release, InUse, Grant, TypeOK
    <3>2. [type |-> "release", key |-> held[v].key] \in Signal
      BY <3>1 DEF Signal
    <3> QED
      BY <2>2, <3>2 DEF Release
  <2> QED
    BY <1>1, <2>1, <2>2 DEF UserStep, TakeGrant, GiveUp, FinishActivity, CancelUse, TerminateUser
<1>2. ASSUME NEW names \in SUBSET Resources, OperatorAdds(names) PROVE Sent
  <2>1. [type |-> "add", resources |-> names] \in Signal
    BY DEF Signal
  <2> QED
    BY <1>2, <2>1 DEF OperatorAdds
<1>3. ASSUME NEW r \in Resources, OperatorReleases(r) PROVE Sent
  <2>1. resources[r].key \in Nat
    BY <1>3 DEF OperatorReleases, TypeOK, Holder
  <2>2. [type |-> "release", key |-> resources[r].key] \in Signal
    BY <2>1 DEF Signal
  <2> QED
    BY <1>3, <2>2 DEF OperatorReleases
<1>4. CASE PoolStep
  BY <1>4 DEF PoolStep, AssignNextResource, DeliverGrant, RecordHolder, GrantNotFound,
     GrantFails, ContinueAsNew
<1> QED
  BY <1>1, <1>2, <1>3, <1>4 DEF Next, vars, OperatorStep

\* A user's own step, if it is started once and not terminated.
LEMMA OwnStepAsksOnce ==
  ASSUME LeakConditions, TypeOK, NEW u \in Users, AsksOnce(u), UserStep(u)
  PROVE  AsksOnce(u)'
<1> USE DEF Iterations
<1>0. UNCHANGED <<waiters, poolPc, granting>> /\ MaxStarts \in Nat /\ starts[u] \in Nat
  BY ConstantsAssumption DEF UserStep, StartUser, TakeGrant, GiveUp, FinishActivity, CancelUse,
     Release, TerminateUser, poolVars, TypeOK
<1>1. InQueue(u)' = InQueue(u) /\ BeingGranted(u)' = BeingGranted(u) /\ OneInQueue(u)'
  BY <1>0 DEF InQueue, BeingGranted, OneInQueue, AsksOnce
<1>2. CASE StartUser(u)
  <2>1. starts[u] = 0 /\ userPc[u] = "closed" /\ starts'[u] = 1
    BY <1>0, <1>2 DEF StartUser, LeakConditions, TypeOK
  <2>2. ~InMail(u) /\ ~InQueue(u) /\ ~BeingGranted(u)
    BY <2>1 DEF AsksOnce
  <2>3. [type |-> "acquire", user |-> u] \in Signal
    BY DEF Signal
  <2>4. OneInMail(u)'
    BY <1>2, <2>2, <2>3, OnceGrows DEF StartUser, AsksOnce
  <2>5. acquired'[u] = <<>> /\ userPc'[u] = "waiting"
    BY <1>2 DEF StartUser, TypeOK
  <2> QED
    BY <1>1, <2>1, <2>2, <2>4, <2>5 DEF AsksOnce, InUse
<1>3. CASE TakeGrant(u)
  <2>1. acquired[u] # <<>> /\ acquired[u] \in Seq(Grant) /\ acquired'[u] = Tail(acquired[u])
    BY <1>3 DEF TakeGrant, TypeOK
  <2>2. acquired'[u] = <<>>
    BY <2>1 DEF AsksOnce
  <2>3. ~InMail(u) /\ ~InQueue(u) /\ ~BeingGranted(u)
    BY <2>1 DEF AsksOnce
  <2>4. inbox' = inbox /\ userPc'[u] = "first" /\ starts' = starts /\ userPc[u] = "waiting"
    BY <1>3 DEF TakeGrant, TypeOK
  <2>5. ~InMail(u)' /\ OneInMail(u)'
    BY <2>3, <2>4 DEF InMail, OneInMail, AsksOnce
  <2> QED
    BY <1>1, <2>2, <2>3, <2>4, <2>5 DEF AsksOnce
<1>4. CASE GiveUp(u)
  <2>1. inbox' = inbox /\ acquired' = acquired /\ starts' = starts /\ userPc'[u] = "closed"
        /\ acquired[u] = <<>>
    BY <1>4 DEF GiveUp, TypeOK
  <2>2. InMail(u)' = InMail(u) /\ OneInMail(u)'
    BY <2>1 DEF InMail, OneInMail, AsksOnce
  <2> QED
    BY <1>1, <2>1, <2>2 DEF AsksOnce, InUse
<1>5. CASE FinishActivity(u) \/ CancelUse(u) \/ Release(u)
  <2>1. /\ userPc[u] # "waiting" /\ userPc[u] # "closed" /\ userPc'[u] # "waiting" /\ InUse(u)
        /\ starts' = starts /\ (acquired'[u] = acquired[u] \/ acquired'[u] = <<>>)
    BY <1>5 DEF FinishActivity, CancelUse, Release, InUse, TypeOK
  <2>2. acquired[u] = <<>> /\ acquired'[u] = <<>> /\ starts[u] # 0
    BY <2>1 DEF AsksOnce
  <2>3. ~InMail(u) /\ ~InQueue(u) /\ ~BeingGranted(u)
    BY <2>1 DEF AsksOnce
  <2>4. \/ inbox' = inbox
        \/ \E s \in Signal : inbox' = Append(inbox, s) /\ ~(s.type = "acquire" /\ s.user = u)
    <3>1. UserStep(u) => Next
      BY DEF Next
    <3>2. ~HandleSignal /\ ~StartUser(u)
      BY <1>5, <2>1 DEF HandleSignal, StartUser, FinishActivity, CancelUse, Release, userVars, TypeOK
    <3> QED
      BY <3>1, <3>2, OutsideSignal
  <2>5. ~InMail(u)' /\ OneInMail(u)'
    <3>1. CASE inbox' = inbox
      BY <2>3, <3>1 DEF InMail, OneInMail, AsksOnce
    <3>2. ASSUME NEW s \in Signal, inbox' = Append(inbox, s), ~(s.type = "acquire" /\ s.user = u)
          PROVE  ~InMail(u)' /\ OneInMail(u)'
      BY <2>3, <3>2, MailGrows, OnceGrows DEF AsksOnce
    <3> QED
      BY <2>4, <3>1, <3>2
  <2> QED
    BY <1>1, <2>1, <2>2, <2>3, <2>5 DEF AsksOnce
<1>6. ~TerminateUser(u)
  BY DEF TerminateUser, LeakConditions
<1> QED
  BY <1>2, <1>3, <1>4, <1>5, <1>6 DEF UserStep

\* A step of the pool moves the request of u on.
LEMMA PoolStepAsksOnce ==
  ASSUME TypeOK, NEW u \in Users, AsksOnce(u), PoolStep
  PROVE  AsksOnce(u)'
<1> USE DEF TypeOK
<1>0. UNCHANGED <<userPc, starts>>
  BY DEF PoolStep, HandleSignal, AssignNextResource, DeliverGrant, RecordHolder, GrantNotFound,
     GrantFails, ContinueAsNew, userVars
<1>1. CASE HandleSignal
  <2>1. /\ inbox # <<>> /\ inbox' = Tail(inbox)
        /\ UNCHANGED <<poolPc, granting, acquired, userPc, starts>>
    BY <1>1 DEF HandleSignal, userVars
  <2>2. /\ InMail(u)' => InMail(u)
        /\ InMail(u) => InMail(u)' \/ (Head(inbox).type = "acquire" /\ Head(inbox).user = u)
    BY <2>1, MailShrinks
  <2>3. /\ OneInMail(u)'
        /\ Head(inbox).type = "acquire" /\ Head(inbox).user = u => ~InMail(u)' /\ InMail(u)
    <3>1. 1 \in DOMAIN inbox /\ inbox[1] = Head(inbox)
      BY <2>1, TailElements
    <3> QED
      BY <2>1, <3>1, OnceShrinks DEF AsksOnce, InMail
  <2>4. BeingGranted(u)' = BeingGranted(u) /\ InUse(u)' = InUse(u)
    BY <2>1 DEF BeingGranted, InUse
  <2>5. CASE Head(inbox).type = "acquire" /\ AcquireResource(Head(inbox).user)
    <3> DEFINE w == Head(inbox).user
    <3>1. Head(inbox) \in Signal
      BY <2>1
    <3>2. w \in Users /\ waiters' = Append(waiters, w)
      BY <3>1, <2>5 DEF Signal, AcquireResource
    <3> HIDE DEF w
    <3>3. InQueue(u)' <=> InQueue(u) \/ w = u
      BY <3>2, QueueGrows
    <3>4. OneInQueue(u)'
      BY <3>2, <2>3, <2>5, OnceQueued DEF AsksOnce, w
    <3> QED
      BY <2>1, <2>2, <2>3, <2>4, <2>5, <3>3, <3>4 DEF AsksOnce, w
  <2>6. CASE waiters' = waiters
    <3>1. InQueue(u)' = InQueue(u) /\ OneInQueue(u)'
      BY <2>6 DEF InQueue, OneInQueue, AsksOnce
    <3> QED
      BY <2>1, <2>2, <2>3, <2>4, <3>1 DEF AsksOnce
  <2> QED
    BY <1>1, <2>5, <2>6 DEF HandleSignal, AddResources, ReleaseResource
<1>2. CASE AssignNextResource
  <2>1. /\ waiters # <<>> /\ waiters' = Tail(waiters) /\ poolPc' = "signalling"
        /\ poolPc = "waiting" /\ granting'.user = Head(waiters)
        /\ UNCHANGED <<inbox, acquired, userPc, starts>>
    BY <1>2 DEF AssignNextResource, can_assign_resource, userVars
  <2>2. /\ InQueue(u)' => InQueue(u)
        /\ InQueue(u) => InQueue(u)' \/ Head(waiters) = u
    BY <2>1, QueueShrinks
  <2>3. OneInQueue(u)' /\ (Head(waiters) = u => ~InQueue(u)' /\ InQueue(u))
    <3>1. 1 \in DOMAIN waiters /\ waiters[1] = Head(waiters)
      BY <2>1, TailElements
    <3> QED
      BY <2>1, <3>1, OnceServed DEF AsksOnce, InQueue
  <2>4. BeingGranted(u)' <=> Head(waiters) = u
    BY <2>1 DEF BeingGranted
  <2>5. InMail(u)' = InMail(u) /\ OneInMail(u)' /\ InUse(u)' = InUse(u)
    BY <2>1 DEF InMail, OneInMail, AsksOnce, InUse
  <2> QED
    BY <2>1, <2>2, <2>3, <2>4, <2>5 DEF AsksOnce
<1>3. CASE DeliverGrant
  <2>1. /\ UNCHANGED <<inbox, waiters, userPc, starts>> /\ poolPc = "signalling"
        /\ poolPc' = "signalled" /\ Running(granting.user) /\ granting.user \in Users
        /\ acquired' = [acquired EXCEPT ![granting.user] = Append(@,
             [resource |-> granting.resource, key |-> granting.key])]
    BY <1>3 DEF DeliverGrant, Granting
  <2>2. InMail(u)' = InMail(u) /\ OneInMail(u)' /\ InQueue(u)' = InQueue(u) /\ OneInQueue(u)'
        /\ InUse(u)' = InUse(u) /\ ~BeingGranted(u)'
    BY <2>1 DEF InMail, OneInMail, InQueue, OneInQueue, InUse, BeingGranted, AsksOnce
  <2>3. CASE granting.user = u
    <3>1. BeingGranted(u)
      BY <2>1, <2>3 DEF BeingGranted
    <3>2. starts[u] # 0 /\ ~InUse(u) /\ acquired[u] = <<>> /\ ~InMail(u) /\ ~InQueue(u)
      BY <3>1 DEF AsksOnce
    <3>3. userPc[u] = "waiting"
      BY <2>1, <2>3, <3>2 DEF Running, InUse, Iterations
    <3>4. acquired'[u] = <<[resource |-> granting.resource, key |-> granting.key]>>
      BY <2>1, <2>3, <3>2
    <3>5. Len(acquired'[u]) <= 1
      BY <3>4
    <3> QED
      BY <2>1, <2>2, <3>2, <3>3, <3>5 DEF AsksOnce
  <2>4. CASE granting.user # u
    <3>1. acquired'[u] = acquired[u]
      BY <2>1, <2>4
    <3> QED
      BY <2>1, <2>2, <3>1 DEF AsksOnce
  <2> QED
    BY <2>3, <2>4
<1>4. CASE RecordHolder \/ GrantNotFound \/ GrantFails \/ ContinueAsNew
  <2>1. /\ inbox' = inbox /\ waiters' = waiters /\ UNCHANGED <<acquired, userPc, starts>>
        /\ BeingGranted(u)' => BeingGranted(u)
    BY <1>4 DEF RecordHolder, GrantNotFound, GrantFails, ContinueAsNew, userVars, BeingGranted
  <2> QED
    BY <2>1, AsksFrame
<1> QED
  BY <1>1, <1>2, <1>3, <1>4 DEF PoolStep

LEMMA StepAsksOnce ==
  ASSUME LeakConditions, TypeOK, [Next]_vars, NEW u \in Users, AsksOnce(u)
  PROVE  AsksOnce(u)'
<1>1. CASE PoolStep
  BY <1>1, PoolStepAsksOnce
<1>2. CASE UserStep(u)
  BY <1>2, OwnStepAsksOnce
<1>3. CASE ~PoolStep /\ ~UserStep(u)
  <2>1. \/ inbox' = inbox
        \/ \E s \in Signal : inbox' = Append(inbox, s) /\ ~(s.type = "acquire" /\ s.user = u)
    BY <1>3, OutsideSignal DEF PoolStep, UserStep
  <2>2. /\ UNCHANGED poolVars
        /\ starts'[u] = starts[u] /\ acquired'[u] = acquired[u] /\ userPc'[u] = userPc[u]
    <3>1. ASSUME NEW v \in Users, UserStep(v), v # u
          PROVE  /\ UNCHANGED poolVars
                 /\ starts'[u] = starts[u] /\ acquired'[u] = acquired[u]
                 /\ userPc'[u] = userPc[u]
      BY <3>1 DEF UserStep, StartUser, TakeGrant, GiveUp, FinishActivity, CancelUse, Release,
         TerminateUser, TypeOK
    <3>2. CASE OperatorStep
      BY <3>2 DEF OperatorStep, OperatorAdds, OperatorReleases, userVars
    <3>3. CASE UNCHANGED vars
      BY <3>3 DEF vars, poolVars
    <3> QED
      BY <1>3, <3>1, <3>2, <3>3 DEF Next
  <2>3. waiters' = waiters /\ BeingGranted(u)' = BeingGranted(u)
    BY <2>2 DEF poolVars, BeingGranted
  <2> QED
    BY <2>1, <2>2, <2>3, AsksFrame
<1> QED
  BY <1>1, <1>2, <1>3

-----------------------------------------------------------------------------
(* The grants come back *)

LEMMA ReleaseStays ==
  ASSUME TypeOK, NEW k,
         inbox' = inbox \/ \E s \in Signal : inbox' = Append(inbox, s),
         Releasing(k)
  PROVE  Releasing(k)'
<1>1. inbox \in Seq(Signal)
  BY DEF TypeOK
<1>2. CASE inbox' = inbox
  BY <1>2 DEF Releasing
<1>3. ASSUME NEW s \in Signal, inbox' = Append(inbox, s) PROVE Releasing(k)'
  <2>1. \A i \in DOMAIN inbox : i \in DOMAIN inbox' /\ inbox'[i] = inbox[i]
    BY <1>1, <1>3, AppendedElements
  <2> QED
    BY <2>1 DEF Releasing
<1> QED
  BY <1>2, <1>3

LEMMA ReleaseHandled ==
  ASSUME TypeOK, NEW k, inbox # <<>>, inbox' = Tail(inbox), Releasing(k)
  PROVE  Releasing(k)' \/ (Head(inbox).type = "release" /\ Head(inbox).key = k)
<1>1. inbox \in Seq(Signal)
  BY DEF TypeOK
<1>2. /\ inbox[1] = Head(inbox)
      /\ \A i \in DOMAIN inbox : i # 1 => i - 1 \in DOMAIN inbox' /\ inbox'[i - 1] = inbox[i]
  BY <1>1, TailElements
<1>3. PICK i \in DOMAIN inbox : inbox[i].type = "release" /\ inbox[i].key = k
  BY DEF Releasing
<1> QED
  BY <1>2, <1>3 DEF Releasing

\* A claim of u survives every step but the release of the grant, which is
\* sent to the pool.
LEMMA ClaimReturns ==
  ASSUME LeakConditions, TypeOK, TypeOK', [Next]_vars, NEW u \in Users, AsksOnce(u), PoolAlive,
         NEW r, NEW k, Claims(u, r, k)
  PROVE  \/ Claims(u, r, k)'
         \/ Releasing(k)' /\ Release(u) /\ held[u].key = k
<1> USE DEF Iterations
<1>1. CASE userPc'[u] = userPc[u] /\ held'[u] = held[u] /\ acquired'[u] = acquired[u]
  BY <1>1 DEF Claims, InUse
<1>2. CASE UserStep(u)
  <2>1. CASE StartUser(u)
    BY <2>1 DEF StartUser, Claims, InUse
  <2>2. CASE TakeGrant(u)
    <3>1. /\ acquired[u] \in Seq(Grant) /\ acquired[u] # <<>> /\ Len(acquired[u]) <= 1
          /\ userPc[u] = "waiting"
      BY <2>2 DEF TakeGrant, TypeOK, AsksOnce
    <3>2. acquired[u][1].resource = r /\ acquired[u][1].key = k
      <4>1. \A i \in DOMAIN acquired[u] : i = 1
        BY <3>1
      <4>2. PICK i \in DOMAIN acquired[u] : acquired[u][i].resource = r /\ acquired[u][i].key = k
        BY <3>1 DEF Claims, InUse
      <4> QED
        BY <4>1, <4>2
    <3>3. held'[u] = acquired[u][1] /\ userPc'[u] = "first"
      BY <2>2, <3>1 DEF TakeGrant, TypeOK
    <3> QED
      BY <3>2, <3>3 DEF Claims, InUse
  <2>3. CASE GiveUp(u)
    BY <2>3 DEF GiveUp, Claims, InUse
  <2>4. CASE FinishActivity(u) \/ CancelUse(u)
    <3>1. InUse(u) /\ userPc[u] # "waiting" /\ InUse(u)' /\ held' = held
      BY <2>4 DEF FinishActivity, CancelUse, InUse, TypeOK
    <3> QED
      BY <3>1 DEF Claims
  <2>5. CASE Release(u)
    <3>1. held[u].key = k /\ k \in Nat
      BY <2>5 DEF Release, Claims, InUse, TypeOK, Grant
    <3>2. inbox' = Append(inbox, [type |-> "release", key |-> k])
      BY <2>5, <3>1 DEF Release
    <3>3. [type |-> "release", key |-> k] \in Signal /\ inbox \in Seq(Signal)
      BY <3>1 DEF Signal, TypeOK
    <3>4. Len(inbox) + 1 \in DOMAIN inbox' /\ inbox'[Len(inbox) + 1] = [type |-> "release", key |-> k]
      BY <3>2, <3>3, AppendedElements
    <3>5. Releasing(k)'
      BY <3>4 DEF Releasing
    <3> QED
      BY <2>5, <3>1, <3>5
  <2>6. ~TerminateUser(u)
    BY DEF TerminateUser, LeakConditions
  <2> QED
    BY <1>2, <2>1, <2>2, <2>3, <2>4, <2>5, <2>6 DEF UserStep
<1>3. CASE DeliverGrant
  <2>1. granting.user \in Users /\ userPc' = userPc /\ held' = held
        /\ acquired' = [acquired EXCEPT ![granting.user] = Append(@,
             [resource |-> granting.resource, key |-> granting.key])]
    BY <1>3 DEF DeliverGrant, TypeOK, Granting
  <2>2. CASE granting.user # u
    BY <1>1, <2>1, <2>2 DEF TypeOK
  <2>3. CASE granting.user = u
    <3>1. acquired[u] \in Seq(Grant) /\ [resource |-> granting.resource, key |-> granting.key] \in Grant
      BY <1>3 DEF DeliverGrant, TypeOK, Granting, Grant
    <3>2. \A i \in DOMAIN acquired[u] : i \in DOMAIN acquired'[u] /\ acquired'[u][i] = acquired[u][i]
      <4>1. acquired'[u] = Append(acquired[u], [resource |-> granting.resource, key |-> granting.key])
        BY <2>1, <2>3 DEF TypeOK
      <4> QED
        BY <3>1, <4>1, AppendedElements
    <3> QED
      BY <2>1, <3>2 DEF Claims, InUse
  <2> QED
    BY <2>2, <2>3
<1>4. ASSUME NEW v \in Users, UserStep(v), v # u
      PROVE  userPc'[u] = userPc[u] /\ held'[u] = held[u] /\ acquired'[u] = acquired[u]
  BY <1>4 DEF UserStep, StartUser, TakeGrant, GiveUp, FinishActivity, CancelUse, Release,
     TerminateUser, TypeOK
<1>5. CASE HandleSignal \/ AssignNextResource \/ RecordHolder \/ GrantNotFound \/ GrantFails
           \/ ContinueAsNew \/ OperatorStep \/ UNCHANGED vars
  BY <1>1, <1>5 DEF HandleSignal, AssignNextResource, RecordHolder, GrantNotFound, GrantFails,
     ContinueAsNew, OperatorStep, OperatorAdds, OperatorReleases, userVars, vars
<1> QED
  BY <1>1, <1>2, <1>3, <1>4, <1>5 DEF Next, PoolStep

\* A resource has the holder it had, or the one that is just being recorded.
LEMMA HolderIsOldOrNew ==
  ASSUME TypeOK, [Next]_vars, NEW r \in DOMAIN resources', resources'[r] # None
  PROVE  \/ r \in DOMAIN resources /\ resources'[r] = resources[r]
         \/ /\ RecordHolder /\ r = granting.resource
            /\ resources'[r] = [user |-> granting.user, key |-> granting.key]
<1>1. CASE HandleSignal
  BY <1>1 DEF HandleSignal, AddResources, AcquireResource, ReleaseResource, TypeOK
<1>2. CASE RecordHolder
  BY <1>2 DEF RecordHolder, TypeOK
<1>3. CASE resources' = resources
  BY <1>3
<1>4. ASSUME NEW u \in Users, UserStep(u) PROVE resources' = resources
  BY <1>4 DEF UserStep, StartUser, TakeGrant, GiveUp, FinishActivity, CancelUse, Release,
     TerminateUser, poolVars
<1>5. CASE OperatorStep
  BY <1>5 DEF OperatorStep, OperatorAdds, OperatorReleases, poolVars
<1> QED
  BY <1>1, <1>2, <1>3, <1>4, <1>5 DEF Next, PoolStep, vars, AssignNextResource, DeliverGrant,
     GrantNotFound, GrantFails, ContinueAsNew

LEMMA AliveBefore ==
  ASSUME [Next]_vars, PoolAlive'
  PROVE  PoolAlive
BY DEF PoolAlive, Next, vars, PoolStep, UserStep, OperatorStep, HandleSignal,
   AssignNextResource, DeliverGrant, RecordHolder, GrantNotFound, GrantFails,
   ContinueAsNew, OperatorAdds, OperatorReleases, StartUser, TakeGrant, GiveUp,
   FinishActivity, CancelUse, Release, TerminateUser, poolVars

LEMMA StepGrantsReturn ==
  ASSUME LeakConditions, TypeOK, TypeOK', IInv, LeakInv, [Next]_vars, PoolAlive'
  PROVE  GrantsReturn'
<1>0. PoolAlive
  BY AliveBefore
<1>1. KeysMatchHolders
  BY IInvImplies
<1>2. ASSUME NEW r \in DOMAIN resources', resources'[r] # None
      PROVE  Claims(resources[r].user, r, resources[r].key)' \/ Releasing(resources[r].key)'
  <2>0. PICK u \in Users, k \in Nat : resources'[r] = [user |-> u, key |-> k]
    BY <1>2 DEF TypeOK, Holder
  <2>1. CASE r \in DOMAIN resources /\ resources'[r] = resources[r]
    <3>1. Claims(u, r, k) \/ Releasing(k)
      BY <1>0, <1>2, <2>0, <2>1 DEF LeakInv, GrantsReturn
    <3>2. CASE Claims(u, r, k)
      BY <1>0, <2>0, <3>2, ClaimReturns DEF LeakInv
    <3>3. CASE Releasing(k) /\ HandleSignal
      <4>1. inbox # <<>> /\ inbox' = Tail(inbox)
        BY <3>3 DEF HandleSignal
      <4>2. Releasing(k)' \/ (Head(inbox).type = "release" /\ Head(inbox).key = k)
        BY <3>3, <4>1, ReleaseHandled
      <4>3. CASE Head(inbox).type = "release" /\ Head(inbox).key = k
        <5>1. k \in DOMAIN keyMap /\ keyMap[k] = r /\ resources[r] # None
          BY <1>1, <1>2, <2>0, <2>1 DEF KeysMatchHolders
        <5>2. ReleaseResource(k)
          BY <3>3, <4>3 DEF HandleSignal
        <5>3. resources' = [resources EXCEPT ![r] = None]
          BY <5>1, <5>2 DEF ReleaseResource
        <5> QED
          BY <1>2, <2>1, <5>3
      <4> QED
        BY <2>0, <4>2, <4>3
    <3>4. CASE Releasing(k) /\ ~HandleSignal
      <4>1. inbox' = inbox \/ \E s \in Signal : inbox' = Append(inbox, s)
        <5>1. ASSUME StartUser(u) PROVE \E s \in Signal : inbox' = Append(inbox, s)
          BY <5>1, <2>0 DEF StartUser, Signal
        <5> QED
          BY <2>0, <3>4, <5>1, OutsideSignal
      <4> QED
        BY <2>0, <3>4, <4>1, ReleaseStays
    <3> QED
      BY <3>1, <3>2, <3>3, <3>4
  <2>2. CASE /\ RecordHolder /\ r = granting.resource
             /\ resources'[r] = [user |-> granting.user, key |-> granting.key]
    <3>1. Claims(u, r, k)
      BY <1>0, <2>0, <2>2 DEF LeakInv, GrantsReturn, RecordHolder
    <3> QED
      BY <1>0, <2>0, <3>1, ClaimReturns DEF LeakInv
  <2> QED
    BY <1>2, <2>1, <2>2, HolderIsOldOrNew
<1>3. ASSUME poolPc' = "signalled"
      PROVE  Claims(granting.user, granting.resource, granting.key)'
  <2>1. CASE DeliverGrant
    <3>1. PICK g \in Resources, w \in Users, n \in Nat :
            granting = [resource |-> g, user |-> w, key |-> n]
      BY <2>1 DEF DeliverGrant, TypeOK, Granting
    <3>2. /\ poolPc = "signalling" /\ userPc' = userPc /\ granting' = granting
          /\ Running(w) /\ acquired' = [acquired EXCEPT ![w] = Append(@, [resource |-> g, key |-> n])]
      BY <2>1, <3>1 DEF DeliverGrant
    <3>3. ~InUse(w) /\ acquired[w] = <<>>
      BY <3>1, <3>2 DEF LeakInv, AsksOnce, BeingGranted
    <3>4. userPc'[w] = "waiting"
      BY <3>2, <3>3 DEF Running, InUse, Iterations, TypeOK
    <3>5. acquired'[w] = <<[resource |-> g, key |-> n]>>
      BY <3>2, <3>3 DEF TypeOK
    <3>6. Claims(w, g, n)'
      BY <3>4, <3>5 DEF Claims
    <3> QED
      BY <3>1, <3>2, <3>6
  <2>2. CASE poolPc = "signalled" /\ granting' = granting
    <3>1. PICK g \in Resources, w \in Users, n \in Nat :
            granting = [resource |-> g, user |-> w, key |-> n]
      BY <2>2 DEF TypeOK, Granting
    <3>2. Claims(w, g, n)
      BY <1>0, <2>2, <3>1 DEF LeakInv, GrantsReturn
    <3>3. ~(Release(w) /\ held[w].key = n)
      BY <2>2, <3>1 DEF Release, LeakConditions
    <3>4. Claims(w, g, n)'
      BY <1>0, <3>2, <3>3, ClaimReturns DEF LeakInv
    <3> QED
      BY <2>2, <3>1, <3>4
  <2>3. DeliverGrant \/ (poolPc = "signalled" /\ granting' = granting)
    BY <1>3 DEF Next, vars, PoolStep, UserStep, OperatorStep, HandleSignal, AssignNextResource,
       DeliverGrant, RecordHolder, GrantNotFound, GrantFails, ContinueAsNew, OperatorAdds,
       OperatorReleases, StartUser, TakeGrant, GiveUp, FinishActivity, CancelUse, Release,
       TerminateUser, poolVars
  <2> QED
    BY <2>1, <2>2, <2>3
<1> QED
  BY <1>2, <1>3 DEF GrantsReturn

\* What resource_pool/README.md:34-40 says of leaks, with what has to be added to
\* make it true.  A resource is leaked only if a workflow id is used again, a user is
\* terminated, or a user gives its resource back before the pool has heard of
\* the delivery: otherwise, and whatever is cancelled, times out, fails, is
\* added or released by the operator, everything is free in the end.
THEOREM NothingLeaks ==
  ASSUME LeakConditions
  PROVE  Spec => []NoLeak
<1>1. Init => LeakInv
  <2> SUFFICES ASSUME Init PROVE LeakInv
    OBVIOUS
  <2>1. \A u \in Users : AsksOnce(u)
    BY DEF Init, AsksOnce, OneInMail, OneInQueue, InMail, InQueue, BeingGranted
  <2>2. GrantsReturn
    BY DEF Init, GrantsReturn
  <2> QED
    BY <2>1, <2>2 DEF LeakInv
<1>2. TypeOK /\ TypeOK' /\ IInv /\ LeakInv /\ [Next]_vars => LeakInv'
  <2> SUFFICES ASSUME TypeOK, TypeOK', IInv, LeakInv, [Next]_vars PROVE LeakInv'
    OBVIOUS
  <2>1. ASSUME NEW u \in Users PROVE AsksOnce(u)'
    BY StepAsksOnce DEF LeakInv
  <2>2. GrantsReturn'
    <3>1. CASE PoolAlive'
      BY <3>1, StepGrantsReturn
    <3>2. CASE ~PoolAlive'
      BY <3>2 DEF GrantsReturn
    <3> QED
      BY <3>1, <3>2
  <2> QED
    BY <2>1, <2>2 DEF LeakInv
<1>3. TypeOK /\ LeakInv => NoLeak
  <2> SUFFICES ASSUME TypeOK, LeakInv, Quiet, NEW r \in DOMAIN resources PROVE resources[r] = None
    BY DEF NoLeak
  <2>1. PoolAlive /\ inbox = <<>> /\ \A u \in Users : userPc[u] = "closed"
    BY DEF Quiet, PoolAlive, Running
  <2>2. \A k : ~Releasing(k)
    BY <2>1 DEF Releasing
  <2>3. ASSUME resources[r] # None PROVE FALSE
    <3>1. resources[r].user \in Users
      BY <2>3 DEF TypeOK, Holder
    <3>2. Claims(resources[r].user, r, resources[r].key)
      BY <2>1, <2>2, <2>3 DEF LeakInv, GrantsReturn
    <3> QED
      BY <2>1, <3>1, <3>2 DEF Claims, InUse, Iterations
  <2> QED
    BY <2>3
<1> QED
  BY <1>1, <1>2, <1>3, Invariance, PTL DEF Spec
=============================================================================
