--------------------------- MODULE AdmissionProofs ---------------------------
(***************************************************************************)
(* Proofs about the admission gate, for any number of starts, any set of   *)
(* policies and any lifetimes of the caches.                               *)
(***************************************************************************)
EXTENDS Admission, FiniteSetTheorems, TLAPS

-----------------------------------------------------------------------------
(* What callers know *)

Value == Policy \cup Host \cup {None}

Place == {"out", "limits", "host", "query", "read", "keep policy", "keep reading",
          "acquire", "held", "listen", "wait", "admitted", "expired", "starting",
          "released", "done"}

\* The parts of TypeOK, and the type of the facts in a caller's hands
GateOK == source \in [limits : Policy, host : Host] /\ inFlight \in Nat
          /\ sinceAdmit \in Nat \cup {None}

Entry(V) == [val : V, stored : Nat, age : Nat]

CacheOK ==
  /\ DOMAIN cache = Fact
  /\ cache["limits"] = Stale \/ cache["limits"] \in Entry(Policy)
  /\ cache["host"] = Stale \/ cache["host"] \in Entry(Host)

PlacesOK == pc \in [Start -> Place]

CallersOK == woken \subseteq Start /\ lag \in [Start -> 0 .. MaxLag]

GotOK == got \in [Start -> [Fact -> [val : Value, age : Nat]]]

\* A caller that has passed resolveLimits goes by a policy that an operator set,
\* one that is about to keep a reading has a reading
KnowsPolicy == {"keep policy", "host", "read", "keep reading", "acquire"}
Known ==
  \A c \in Start :
    /\ pc[c] \in KnowsPolicy => got[c]["limits"].val \in Policy
    /\ pc[c] = "keep reading" => got[c]["host"].val \in Host

IInv ==
  GateOK /\ CacheOK /\ PlacesOK /\ CallersOK /\ GotOK /\ Known /\ StartsWithinLimit

LEMMA TypeParts == (GateOK /\ CacheOK /\ PlacesOK /\ CallersOK) => TypeOK
BY DEF GateOK, CacheOK, PlacesOK, CallersOK, TypeOK, Entry, Place

\* The two facts are told apart, and their ages stay numbers
LEMMA FactIs == Fact = {"limits", "host"} /\ "limits" # "host"
BY DEF Fact

LEMMA OlderType == \A f \in Fact, age \in Nat : Older(f, age) \in Nat
BY AdmissionAssumption DEF Older, OldAge

LEMMA NoFactsType == NoFacts \in [Fact -> [val : Value, age : Nat]]
BY DEF NoFacts, Value

LEMMA StartsType == \A p \in Policy : p.starts \in Nat
BY AdmissionAssumption

-----------------------------------------------------------------------------
(* The slots *)

LEMMA SlotsFinite ==
  IsFiniteSet(InSlot) /\ Cardinality(InSlot) \in Nat
<1>1. InSlot \in SUBSET Start BY DEF InSlot
<1>. QED BY <1>1, AdmissionAssumption, FS_Subset, FS_CardinalityType

\* tryAcquire admits only below the limit of the policy it was given
LEMMA AcquireSlots ==
  ASSUME IInv, NEW c \in Start, Acquire(c)
  PROVE  StartsWithinLimit'
<1>. DEFINE limits == got[c]["limits"].val
<1>1. c \notin InSlot BY DEF Acquire, Go, InSlot
<1>2. InSlot' = InSlot \cup {c} BY DEF Acquire, Go, InSlot, IInv, PlacesOK
<1>3. Cardinality(InSlot') = Cardinality(InSlot) + 1
  BY <1>1, <1>2, SlotsFinite, FS_AddElement
<1>4. inFlight' = Cardinality(InSlot') BY <1>3 DEF Acquire, IInv, StartsWithinLimit
<1>5. limits \in Policy BY DEF Acquire, Go, IInv, Known, KnowsPolicy
<1>6. ~ Full(limits) BY AdmissionAssumption DEF Acquire, Binding, Reason
<1>7. limits.starts \in Nat /\ inFlight \in Nat BY <1>5, StartsType DEF IInv, GateOK
<1>8. limits.starts = 0 \/ inFlight < limits.starts BY <1>6, <1>7 DEF Full
<1>9. inFlight' = inFlight + 1 BY DEF Acquire
<1>10. limits.starts = 0 \/ inFlight' <= limits.starts BY <1>7, <1>8, <1>9
<1>. QED BY <1>4, <1>5, <1>10 DEF StartsWithinLimit

\* The releaser gives back a slot that was counted
LEMMA ReleaseSlots ==
  ASSUME IInv, NEW c \in Start, Release(c)
  PROVE  StartsWithinLimit'
<1>1. c \in InSlot BY DEF Release, Go, InSlot
<1>2. InSlot' = InSlot \ {c} BY DEF Release, Go, InSlot, IInv, PlacesOK
<1>3. Cardinality(InSlot') = Cardinality(InSlot) - 1
  BY <1>1, <1>2, SlotsFinite, FS_RemoveElement
<1>4. inFlight > 0
  BY <1>1, SlotsFinite, FS_EmptySet DEF IInv, StartsWithinLimit
<1>5. inFlight' = inFlight - 1 BY <1>4 DEF Release
<1>6. PICK p \in Policy : p.starts = 0 \/ inFlight <= p.starts
  BY DEF IInv, StartsWithinLimit
<1>7. p.starts \in Nat /\ inFlight \in Nat BY StartsType DEF IInv, GateOK
<1>8. p.starts = 0 \/ inFlight' <= p.starts BY <1>5, <1>6, <1>7
<1>. QED BY <1>3, <1>5, <1>8 DEF IInv, StartsWithinLimit

\* No other step moves a caller into or out of a slot
LEMMA OtherSlots ==
  ASSUME IInv, inFlight' = inFlight, InSlot' = InSlot
  PROVE  StartsWithinLimit'
BY DEF IInv, StartsWithinLimit

-----------------------------------------------------------------------------
(* One lemma per kind of step *)

\* A caller that stays out of the slots moves from one place to another
LEMMA Moves ==
  ASSUME IInv, NEW c \in Start, NEW to \in Place, pc' = [pc EXCEPT ![c] = to],
         pc[c] \in {"admitted", "starting"} <=> to \in {"admitted", "starting"}
  PROVE  PlacesOK' /\ InSlot' = InSlot
BY DEF IInv, PlacesOK, InSlot

LEMMA EntryIs ==
  ASSUME CacheOK, NEW f \in Fact, cache[f] # Stale
  PROVE  /\ f = "limits" => cache[f].val \in Policy
         /\ f = "host" => cache[f].val \in Host
         /\ cache[f].val \in Value /\ cache[f].age \in Nat
BY FactIs DEF CacheOK, Entry, Value

LEMMA AfterFactIs ==
  \A f, val : AfterFact(f, val) \in {"host", "acquire"}
              /\ (f = "host" => AfterFact(f, val) = "acquire")
BY DEF AfterFact

LEMMA LookStep ==
  ASSUME IInv, NEW c \in Start, Look(c)
  PROVE  IInv'
<1>. USE FactIs
<1>1. PICK f \in Fact : Hit(c, f) \/ Miss(c, f) \/ Fetch(c, f) \/ Store(c, f) BY DEF Look
<1>2. GateOK' /\ CallersOK' /\ inFlight' = inFlight
  BY <1>1 DEF IInv, GateOK, CallersOK, Hit, Miss, Fetch, Store, gate
<1>3. CASE Hit(c, f)
  <2>1. /\ f = "limits" => cache[f].val \in Policy
        /\ f = "host" => cache[f].val \in Host
        /\ cache[f].val \in Value /\ cache[f].age \in Nat
    BY <1>3, EntryIs DEF Hit, IInv
  <2>2. PICK to \in {"host", "acquire"} : pc[c] = f /\ pc' = [pc EXCEPT ![c] = to]
    BY <1>3, AfterFactIs DEF Hit, Go
  <2>3. got' = [got EXCEPT ![c][f] = [val |-> cache[f].val, age |-> cache[f].age]]
    BY <1>3 DEF Hit
  <2>4. GotOK' BY <2>1, <2>3 DEF IInv, GotOK
  <2>5. \A d \in Start \ {c} : got'[d] = got[d] /\ pc'[d] = pc[d] BY <2>2, <2>3 DEF IInv, GotOK, PlacesOK
  <2>6. got'[c]["limits"].val \in Policy /\ pc'[c] # "keep reading"
    BY <2>1, <2>2, <2>3 DEF IInv, GotOK, PlacesOK, Known, KnowsPolicy
  <2>7. Known' BY <2>5, <2>6 DEF IInv, Known
  <2>8. PlacesOK' /\ InSlot' = InSlot BY <2>2, Moves DEF Place
  <2>9. CacheOK' BY <1>3 DEF Hit, AfterHit, IInv, CacheOK
  <2>. QED BY <1>2, <2>4, <2>7, <2>8, <2>9, OtherSlots DEF IInv
<1>4. CASE Miss(c, f)
  <2>1. PICK to \in {"query", "read"} : pc[c] = f /\ pc' = [pc EXCEPT ![c] = to]
                                       /\ (to = "read" => pc[c] = "host")
    BY <1>4 DEF Miss, Go, Fetching
  <2>2. UNCHANGED <<got, cache>> BY <1>4 DEF Miss
  <2>3. CacheOK' /\ GotOK' BY <2>2 DEF IInv, CacheOK, GotOK
  <2>4. Known' BY <2>1, <2>2 DEF IInv, PlacesOK, Known, KnowsPolicy
  <2>5. PlacesOK' /\ InSlot' = InSlot BY <2>1, Moves DEF Place
  <2>. QED BY <1>2, <2>3, <2>4, <2>5, OtherSlots DEF IInv
<1>5. CASE Fetch(c, f)
  <2>1. /\ f = "limits" => source[f] \in Policy
        /\ f = "host" => source[f] \in Host
        /\ source[f] \in Value
    BY DEF IInv, GateOK, Value
  <2>2. PICK to \in {"keep policy", "keep reading"} :
          /\ pc' = [pc EXCEPT ![c] = to]
          /\ f = "limits" => pc[c] = "query" /\ to = "keep policy"
          /\ f = "host" => pc[c] = "read" /\ to = "keep reading"
    BY <1>5 DEF Fetch, Go, Fetching, Storing
  <2>3. got' = [got EXCEPT ![c][f] = [val |-> source[f], age |-> 0]] BY <1>5 DEF Fetch
  <2>4. GotOK' BY <2>1, <2>3 DEF IInv, GotOK
  <2>5. \A d \in Start \ {c} : got'[d] = got[d] /\ pc'[d] = pc[d] BY <2>2, <2>3 DEF IInv, GotOK, PlacesOK
  <2>6. /\ got'[c]["limits"].val \in Policy
        /\ pc'[c] = "keep reading" => got'[c]["host"].val \in Host
    BY <2>1, <2>2, <2>3 DEF IInv, GotOK, PlacesOK, Known, KnowsPolicy
  <2>7. Known' BY <2>5, <2>6 DEF IInv, Known
  <2>8. PlacesOK' /\ InSlot' = InSlot BY <2>2, Moves DEF Place
  <2>9. CacheOK' BY <1>5 DEF Fetch, IInv, CacheOK
  <2>. QED BY <1>2, <2>4, <2>7, <2>8, <2>9, OtherSlots DEF IInv
<1>6. CASE Store(c, f)
  <2>1. PICK to \in {"host", "acquire"} :
          /\ pc' = [pc EXCEPT ![c] = to]
          /\ f = "limits" => pc[c] = "keep policy"
          /\ f = "host" => pc[c] = "keep reading"
    BY <1>6, AfterFactIs DEF Store, Go, Storing
  <2>2. /\ f = "limits" => got[c][f].val \in Policy
        /\ f = "host" => got[c][f].val \in Host
        /\ got[c][f].age \in Nat
    BY <2>1 DEF IInv, Known, KnowsPolicy, GotOK
  <2>3. cache' = [cache EXCEPT ![f] = [val |-> got[c][f].val, stored |-> 0,
                                       age |-> got[c][f].age]]
    BY <1>6 DEF Store
  <2>4. CacheOK' BY <2>2, <2>3 DEF IInv, CacheOK, Entry
  <2>5. got' = got BY <1>6 DEF Store
  <2>6. GotOK' /\ Known' BY <2>1, <2>5 DEF IInv, GotOK, PlacesOK, Known, KnowsPolicy
  <2>7. PlacesOK' /\ InSlot' = InSlot BY <2>1, Moves DEF Place
  <2>. QED BY <1>2, <2>4, <2>6, <2>7, OtherSlots DEF IInv
<1>. QED BY <1>1, <1>3, <1>4, <1>5, <1>6

LEMMA TryAcquireStep ==
  ASSUME IInv, NEW c \in Start, Acquire(c) \/ Refuse(c)
  PROVE  IInv'
<1>1. got' = [got EXCEPT ![c] = NoFacts] /\ lag' = [lag EXCEPT ![c] = 0]
  BY DEF Acquire, Refuse, EndAttempt
<1>2. PICK to \in {"admitted", "held"} : pc[c] = "acquire" /\ pc' = [pc EXCEPT ![c] = to]
                                        /\ (Refuse(c) => to = "held")
  BY DEF Acquire, Refuse, Go
<1>3. GotOK' BY <1>1, NoFactsType DEF IInv, GotOK
<1>4. Known' BY <1>1, <1>2 DEF IInv, GotOK, PlacesOK, Known, KnowsPolicy
<1>5. CacheOK' BY DEF Acquire, Refuse, IInv, CacheOK
<1>6. CallersOK' BY <1>1, AdmissionAssumption DEF Acquire, Refuse, IInv, CallersOK
<1>7. GateOK' BY DEF Acquire, Refuse, gate, IInv, GateOK
<1>8. PlacesOK' BY <1>2 DEF IInv, PlacesOK, Place
<1>9. StartsWithinLimit'
  <2>1. CASE Acquire(c) BY <2>1, AcquireSlots
  <2>2. CASE Refuse(c)
    <3>1. InSlot' = InSlot BY <1>2, <2>2, Moves DEF Place
    <3>. QED BY <2>2, <3>1, OtherSlots DEF Refuse, gate
  <2>. QED BY <2>1, <2>2
<1>. QED BY <1>3, <1>4, <1>5, <1>6, <1>7, <1>8, <1>9 DEF IInv

\* A call, the steps of a held start, and both ways out
LEMMA HeldStep ==
  ASSUME IInv, NEW c \in Start,
         \/ Call(c) \/ Register(c) \/ Listen(c) \/ Wake(c) \/ Poll(c) \/ Expire(c)
         \/ Leave(c) \/ Broadcast(c)
  PROVE  IInv'
<1>1. PICK to \in {"limits", "listen", "wait", "expired", "starting", "done"} :
        /\ pc' = [pc EXCEPT ![c] = to]
        /\ pc[c] \in {"admitted", "starting"} <=> to = "starting"
  BY DEF Call, Register, Listen, Wake, Poll, Expire, Leave, Broadcast, Go
<1>2. UNCHANGED <<source, cache, inFlight, sinceAdmit, got, lag>> /\ woken' \in SUBSET Start
  BY DEF Call, Register, Listen, Wake, Poll, Expire, Leave, Broadcast, gate, IInv, CallersOK
<1>3. GateOK' /\ CallersOK' BY <1>2 DEF IInv, GateOK, CallersOK
<1>4. CacheOK' /\ GotOK' BY <1>2 DEF IInv, CacheOK, GotOK
<1>5. Known' BY <1>1, <1>2 DEF IInv, PlacesOK, Known, KnowsPolicy
<1>6. PlacesOK' /\ InSlot' = InSlot BY <1>1, Moves DEF Place
<1>. QED BY <1>2, <1>3, <1>4, <1>5, <1>6, OtherSlots DEF IInv

LEMMA ReleaseStep ==
  ASSUME IInv, NEW c \in Start, Release(c)
  PROVE  IInv'
<1>1. inFlight' \in Nat BY DEF Release, IInv, GateOK
<1>2. GateOK' BY <1>1 DEF Release, IInv, GateOK
<1>3. CacheOK' /\ GotOK' /\ CallersOK' BY DEF Release, IInv, CacheOK, GotOK, CallersOK
<1>4. pc' = [pc EXCEPT ![c] = "released"] /\ got' = got BY DEF Release, Go
<1>5. PlacesOK' /\ Known' BY <1>4 DEF IInv, PlacesOK, Place, Known, KnowsPolicy
<1>. QED BY <1>2, <1>3, <1>5, ReleaseSlots DEF IInv

LEMMA TickStep == ASSUME IInv, Tick PROVE IInv'
<1>1. \A c \in Start : lag'[c] \in 0 .. MaxLag
  <2>. TAKE c \in Start
  <2>1. lag[c] \in 0 .. MaxLag BY DEF IInv, CallersOK
  <2>2. lag'[c] = IF Attempting(c) THEN lag[c] + 1 ELSE lag[c] BY DEF Tick
  <2>3. Attempting(c) => lag[c] < MaxLag BY DEF Tick
  <2>. QED BY <2>1, <2>2, <2>3, AdmissionAssumption
<1>2. CallersOK' BY <1>1 DEF Tick, IInv, CallersOK
<1>3. GateOK'
  <2>1. sinceAdmit' = sinceAdmit \/ (sinceAdmit # None /\ sinceAdmit' = sinceAdmit + 1)
    BY DEF Tick
  <2>2. sinceAdmit' \in Nat \cup {None} BY <2>1 DEF IInv, GateOK
  <2>3. UNCHANGED <<source, inFlight>> BY DEF Tick
  <2>. QED BY <2>2, <2>3 DEF IInv, GateOK
<1>4. ASSUME NEW f \in Fact, NEW V, cache[f] = Stale \/ cache[f] \in Entry(V)
      PROVE  cache'[f] = Stale \/ cache'[f] \in Entry(V)
  <2>1. CASE cache'[f] = Stale BY <2>1
  <2>2. CASE cache'[f] # Stale
    <3>1. cache[f] # Stale
          /\ cache'[f] = [cache[f] EXCEPT !.stored = @ + 1, !.age = Older(f, @)]
      BY <2>2 DEF Tick
    <3>2. cache[f].age \in Nat /\ cache[f].stored \in Nat BY <1>4, <3>1 DEF Entry
    <3>3. Older(f, cache[f].age) \in Nat BY <3>2, OlderType
    <3>4. cache[f] \in [val : V, stored : Nat, age : Nat] BY <1>4, <3>1 DEF Entry
    <3>5. cache'[f] = [val |-> cache[f].val, stored |-> cache[f].stored + 1,
                       age |-> Older(f, cache[f].age)]
      BY <3>1, <3>4
    <3>6. cache[f].val \in V /\ cache[f].stored + 1 \in Nat BY <3>2, <3>4
    <3>. QED BY <3>3, <3>5, <3>6 DEF Entry
  <2>. QED BY <2>1, <2>2
<1>5. DOMAIN cache' = Fact BY DEF Tick
<1>6. CacheOK' BY <1>4, <1>5, FactIs DEF IInv, CacheOK
<1>7. ASSUME NEW c \in Start, NEW f \in Fact
      PROVE  got'[c][f] \in [val : Value, age : Nat] /\ got'[c][f].val = got[c][f].val
  <2>1. got[c][f] \in [val : Value, age : Nat] BY DEF IInv, GotOK
  <2>2. got'[c][f] = IF Attempting(c) /\ got[c][f].val # None
                     THEN [got[c][f] EXCEPT !.age = Older(f, @)] ELSE got[c][f]
    BY DEF Tick
  <2>3. Older(f, got[c][f].age) \in Nat BY <2>1, OlderType
  <2>. QED BY <2>1, <2>2, <2>3
<1>8. \A c \in Start : got'[c] \in [Fact -> [val : Value, age : Nat]]
  <2>. TAKE c \in Start
  <2>1. got'[c] = [f \in Fact |-> got'[c][f]] BY DEF Tick
  <2>. QED BY <1>7, <2>1
<1>9. GotOK' BY <1>8 DEF Tick, GotOK
<1>10. pc' = pc /\ inFlight' = inFlight BY DEF Tick
<1>11. Known' BY <1>7, <1>10, FactIs DEF IInv, Known
<1>12. PlacesOK' /\ InSlot' = InSlot BY <1>10 DEF IInv, PlacesOK, InSlot
<1>. QED BY <1>2, <1>3, <1>6, <1>9, <1>10, <1>11, <1>12, OtherSlots DEF IInv

-----------------------------------------------------------------------------

LEMMA InitIInv == Init => IInv
<1>. SUFFICES ASSUME Init PROVE IInv OBVIOUS
<1>. USE AdmissionAssumption, FactIs
<1>1. GateOK /\ PlacesOK /\ CallersOK
  BY DEF Init, GateOK, PlacesOK, Place, CallersOK
<1>2. CacheOK BY DEF Init, CacheOK
<1>3. GotOK BY DEF Init, GotOK, Value
<1>4. Known BY DEF Init, Known, KnowsPolicy
<1>5. InSlot = {} BY DEF Init, InSlot
<1>6. StartsWithinLimit
  <2>1. PICK p \in Policy : TRUE OBVIOUS
  <2>2. inFlight = 0 /\ Cardinality(InSlot) = 0 BY <1>5, FS_EmptySet DEF Init
  <2>3. p.starts \in Nat BY StartsType
  <2>4. p.starts = 0 \/ inFlight <= p.starts BY <2>2, <2>3
  <2>. QED BY <2>2, <2>4 DEF StartsWithinLimit
<1>. QED BY <1>1, <1>2, <1>3, <1>4, <1>6 DEF IInv

LEMMA NextIInv == IInv /\ [Next]_vars => IInv'
<1>. SUFFICES ASSUME IInv, [Next]_vars PROVE IInv' OBVIOUS
<1>1. CASE UNCHANGED vars
  <2>1. InSlot' = InSlot /\ inFlight' = inFlight BY <1>1 DEF vars, InSlot
  <2>2. GateOK' /\ CacheOK' /\ PlacesOK' /\ CallersOK'
    BY <1>1 DEF vars, IInv, GateOK, CacheOK, PlacesOK, CallersOK
  <2>3. GotOK' /\ Known' BY <1>1 DEF vars, IInv, GotOK, Known
  <2>. QED BY <2>1, <2>2, <2>3, OtherSlots DEF IInv
<1>2. ASSUME NEW c \in Start,
             \/ Call(c) \/ Look(c)
             \/ Acquire(c) \/ Refuse(c) \/ Register(c) \/ Listen(c)
             \/ Wake(c) \/ Poll(c) \/ Expire(c) \/ Leave(c)
             \/ Release(c) \/ Broadcast(c)
      PROVE  IInv'
  BY <1>2, LookStep, TryAcquireStep, HeldStep, ReleaseStep
<1>3. ASSUME NEW f \in Fact, NEW val, Change(f, val),
             f = "limits" => val \in Policy, f = "host" => val \in Host
      PROVE  IInv'
  <2>1. GateOK' BY <1>3, FactIs DEF Change, gate, IInv, GateOK
  <2>2. CacheOK' /\ PlacesOK' /\ CallersOK' /\ GotOK' /\ Known'
    BY <1>3 DEF Change, IInv, CacheOK, PlacesOK, CallersOK, GotOK, Known
  <2>3. InSlot' = InSlot /\ inFlight' = inFlight BY <1>3 DEF Change, gate, InSlot
  <2>. QED BY <2>1, <2>2, <2>3, OtherSlots DEF IInv
<1>4. CASE Tick BY <1>4, TickStep
<1>. QED BY <1>1, <1>2, <1>3, <1>4, FactIs DEF Next

\* The types of the controller, its caches and its callers.
THEOREM AdmissionTypes == Spec => []TypeOK
<1>1. IInv => TypeOK BY TypeParts DEF IInv
<1>. QED BY <1>1, InitIInv, NextIInv, PTL DEF Spec

\* inFlight counts the containers that are starting, through cancelled waits, changes
\* of the policy and releases, and some policy allows that many.
THEOREM StartsWithinLimitHolds == Spec => []StartsWithinLimit
<1>1. IInv => StartsWithinLimit BY DEF IInv
<1>. QED BY <1>1, InitIInv, NextIInv, PTL DEF Spec

-----------------------------------------------------------------------------
(* How old facts may be *)

\* Inductive: an entry that counts as new is at most one attempt old, it is served for
\* less than its lifetime, and a caller takes at most one attempt to use it
Recent ==
  /\ \A f \in Fact : cache[f] # Stale =>
       cache[f].stored < TTL[f] /\ cache[f].age <= cache[f].stored + MaxLag
  /\ \A c \in Start, f \in Fact :
       /\ got[c][f].age <= TTL[f] - 1 + MaxLag + lag[c]
       /\ pc[c] = Storing(f) => got[c][f].age <= lag[c]

LEMMA Bounds ==
  /\ MaxLag \in Nat
  /\ \A f \in Fact : TTL[f] \in Nat /\ TTL[f] > 0
BY AdmissionAssumption

LEMMA OlderByOne == \A f \in Fact, age \in Nat : Older(f, age) <= age + 1
BY Bounds DEF Older, OldAge

\* What IInv says of the numbers
LEMMA Numbers ==
  ASSUME IInv
  PROVE  /\ \A c \in Start : lag[c] \in Nat /\ lag[c] <= MaxLag
         /\ \A c \in Start, f \in Fact : got[c][f].age \in Nat
         /\ \A f \in Fact : cache[f] # Stale => cache[f].age \in Nat /\ cache[f].stored \in Nat
<1>1. \A c \in Start : lag[c] \in Nat /\ lag[c] <= MaxLag
  BY Bounds DEF IInv, CallersOK
<1>2. \A c \in Start, f \in Fact : got[c][f].age \in Nat BY DEF IInv, GotOK
<1>3. \A f \in Fact : cache[f] # Stale => cache[f].age \in Nat /\ cache[f].stored \in Nat
  BY FactIs DEF IInv, CacheOK, Entry
<1>. QED BY <1>1, <1>2, <1>3

LEMMA RecentLook ==
  ASSUME IInv, Recent, NEW c \in Start, Look(c)
  PROVE  Recent'
<1>. USE FactIs, Bounds, Numbers
<1>1. PICK f \in Fact : Hit(c, f) \/ Miss(c, f) \/ Fetch(c, f) \/ Store(c, f) BY DEF Look
<1>2. lag' = lag BY <1>1 DEF Hit, Miss, Fetch, Store
<1>3. \A d \in Start \ {c} : pc'[d] = pc[d] /\ got'[d] = got[d]
  BY <1>1 DEF Hit, Miss, Fetch, Store, Go, IInv, PlacesOK, GotOK
<1>4. ASSUME NEW a, cache' = cache, NEW v, a \in Nat, a <= TTL[f] - 1 + MaxLag,
             got' = [got EXCEPT ![c][f] = [val |-> v, age |-> a]],
             \A g \in Fact : pc'[c] = Storing(g) => g = f /\ a = 0
      PROVE  Recent'
  <2>1. got'[c][f].age = a BY <1>4 DEF IInv, GotOK
  <2>2. \A g \in Fact \ {f} : got'[c][g] = got[c][g] BY <1>4 DEF IInv, GotOK
  <2>3. \A g \in Fact : got'[c][g].age <= TTL[g] - 1 + MaxLag + lag[c]
    BY <1>4, <2>1, <2>2 DEF Recent
  <2>4. \A g \in Fact : pc'[c] = Storing(g) => got'[c][g].age <= lag[c]
    BY <1>4, <2>1
  <2>. QED BY <1>2, <1>3, <1>4, <2>3, <2>4 DEF Recent, Storing
<1>5. CASE Hit(c, f)
  <2>1. cache[f].age \in Nat /\ cache[f].age <= TTL[f] - 1 + MaxLag
    BY <1>5 DEF Hit, Recent
  <2>2. \A g \in Fact : pc'[c] # Storing(g)
    BY <1>5, AfterFactIs DEF Hit, Go, Storing, IInv, PlacesOK
  <2>. QED BY <1>4, <1>5, <2>1, <2>2 DEF Hit, AfterHit
<1>6. CASE Miss(c, f)
  <2>1. \A g \in Fact : pc'[c] # Storing(g)
    BY <1>6 DEF Miss, Go, Fetching, Storing, IInv, PlacesOK
  <2>. QED BY <1>2, <1>3, <1>6, <2>1 DEF Miss, Recent, Storing
<1>7. CASE Fetch(c, f)
  <2>1. \A g \in Fact : pc'[c] = Storing(g) => g = f
    BY <1>7 DEF Fetch, Go, Storing, IInv, PlacesOK
  <2>2. 0 <= TTL[f] - 1 + MaxLag OBVIOUS
  <2>. QED BY <1>4, <1>7, <2>1, <2>2 DEF Fetch
<1>8. CASE Store(c, f)
  <2>1. \A g \in Fact : pc'[c] # Storing(g)
    BY <1>8, AfterFactIs DEF Store, Go, Storing, IInv, PlacesOK
  <2>2. got[c][f].age <= MaxLag BY <1>8 DEF Store, Go, Recent
  <2>3. cache' = [cache EXCEPT ![f] = [val |-> got[c][f].val, stored |-> 0,
                                       age |-> got[c][f].age]] /\ got' = got
    BY <1>8 DEF Store
  <2>4. cache'[f].stored = 0 /\ cache'[f].age = got[c][f].age
    BY <2>3 DEF IInv, CacheOK
  <2>5. \A g \in Fact \ {f} : cache'[g] = cache[g] BY <2>3 DEF IInv, CacheOK
  <2>6. \A g \in Fact : cache'[g] # Stale =>
          cache'[g].stored < TTL[g] /\ cache'[g].age <= cache'[g].stored + MaxLag
    BY <2>2, <2>4, <2>5 DEF Recent
  <2>. QED BY <1>2, <1>3, <2>1, <2>3, <2>6 DEF Recent, Storing
<1>. QED BY <1>1, <1>5, <1>6, <1>7, <1>8

LEMMA RecentTick == ASSUME IInv, Recent, Tick PROVE Recent'
<1>. USE FactIs, Bounds, Numbers
<1>1. ASSUME NEW f \in Fact, cache'[f] # Stale
      PROVE  cache'[f].stored < TTL[f] /\ cache'[f].age <= cache'[f].stored + MaxLag
  <2>1. /\ cache[f] # Stale /\ cache[f].stored + 1 # TTL[f]
        /\ cache'[f] = [cache[f] EXCEPT !.stored = @ + 1, !.age = Older(f, @)]
    BY <1>1 DEF Tick
  <2>2. \E V : cache[f] \in [val : V, stored : Nat, age : Nat]
    BY <2>1 DEF IInv, CacheOK, Entry
  <2>3. cache'[f].stored = cache[f].stored + 1 /\ cache'[f].age = Older(f, cache[f].age)
    BY <2>1, <2>2
  <2>4. cache'[f].age <= cache[f].age + 1 /\ cache'[f].age \in Nat
    BY <2>1, <2>3, OlderByOne, OlderType
  <2>5. cache[f].stored < TTL[f] /\ cache[f].age <= cache[f].stored + MaxLag
    BY <2>1 DEF Recent
  <2>. QED BY <2>1, <2>3, <2>4, <2>5
<1>2. ASSUME NEW c \in Start, NEW f \in Fact
      PROVE  /\ got'[c][f].age <= TTL[f] - 1 + MaxLag + lag'[c]
             /\ pc'[c] = Storing(f) => got'[c][f].age <= lag'[c]
  <2>1. got[c][f] \in [val : Value, age : Nat] BY DEF IInv, GotOK
  <2>2. got'[c][f] = IF Attempting(c) /\ got[c][f].val # None
                     THEN [got[c][f] EXCEPT !.age = Older(f, @)] ELSE got[c][f]
    BY DEF Tick
  <2>3. lag'[c] = (IF Attempting(c) THEN lag[c] + 1 ELSE lag[c]) /\ pc' = pc BY DEF Tick
  <2>4. Older(f, got[c][f].age) <= got[c][f].age + 1 /\ Older(f, got[c][f].age) \in Nat
    BY <2>1, OlderByOne, OlderType
  <2>5. got'[c][f].age \in Nat /\ got'[c][f].age - got[c][f].age <= lag'[c] - lag[c]
    BY <2>1, <2>2, <2>3, <2>4
  <2>6. lag'[c] \in Nat BY <2>3
  <2>7. /\ got[c][f].age <= TTL[f] - 1 + MaxLag + lag[c]
        /\ pc[c] = Storing(f) => got[c][f].age <= lag[c]
    BY DEF Recent
  <2>. QED BY <2>3, <2>5, <2>6, <2>7
<1>. QED BY <1>1, <1>2 DEF Recent, Storing

LEMMA RecentStep == IInv /\ Recent /\ [Next]_vars => Recent'
<1>. SUFFICES ASSUME IInv, Recent, [Next]_vars PROVE Recent' OBVIOUS
<1>. USE FactIs, Bounds, Numbers
<1>1. CASE UNCHANGED vars BY <1>1 DEF vars, Recent, Storing
<1>2. ASSUME NEW c \in Start, Acquire(c) \/ Refuse(c) PROVE Recent'
  <2>1. got' = [got EXCEPT ![c] = NoFacts] /\ lag' = [lag EXCEPT ![c] = 0] /\ cache' = cache
    BY <1>2 DEF Acquire, Refuse, EndAttempt
  <2>2. \A d \in Start \ {c} : got'[d] = got[d] /\ lag'[d] = lag[d] /\ pc'[d] = pc[d]
    BY <1>2, <2>1 DEF Acquire, Refuse, Go, IInv, GotOK, CallersOK, PlacesOK
  <2>3. \A f \in Fact : got'[c][f].age = 0 BY <2>1 DEF IInv, GotOK, NoFacts
  <2>4. lag'[c] = 0 BY <2>1 DEF IInv, CallersOK
  <2>5. \A f \in Fact : /\ got'[c][f].age <= TTL[f] - 1 + MaxLag + lag'[c]
                          /\ got'[c][f].age <= lag'[c]
    BY <2>3, <2>4
  <2>6. \A d \in Start \ {c}, f \in Fact :
          /\ got'[d][f].age <= TTL[f] - 1 + MaxLag + lag'[d]
          /\ pc'[d] = Storing(f) => got'[d][f].age <= lag'[d]
    BY <2>2 DEF Recent
  <2>7. \A f \in Fact : cache'[f] # Stale =>
          cache'[f].stored < TTL[f] /\ cache'[f].age <= cache'[f].stored + MaxLag
    BY <2>1 DEF Recent
  <2>. QED BY <2>5, <2>6, <2>7 DEF Recent, Storing
<1>3. ASSUME NEW c \in Start,
             \/ Call(c) \/ Register(c) \/ Listen(c) \/ Wake(c) \/ Poll(c) \/ Expire(c)
             \/ Leave(c) \/ Broadcast(c) \/ Release(c)
      PROVE  Recent'
  <2>1. UNCHANGED <<cache, got, lag>>
    BY <1>3 DEF Call, Register, Listen, Wake, Poll, Expire, Leave, Broadcast, Release
  <2>2. PICK to \in {"limits", "listen", "wait", "expired", "starting", "done", "released"} :
          pc' = [pc EXCEPT ![c] = to]
    BY <1>3 DEF Call, Register, Listen, Wake, Poll, Expire, Leave, Broadcast, Release, Go
  <2>3. \A d \in Start, f \in Fact : pc'[d] = Storing(f) => pc[d] = Storing(f)
    BY <2>2 DEF IInv, PlacesOK, Storing
  <2>. QED BY <2>1, <2>3 DEF Recent, Storing
<1>4. ASSUME NEW f \in Fact, NEW val, Change(f, val) PROVE Recent'
  BY <1>4 DEF Change, Recent, Storing
<1>5. CASE Tick BY <1>5, RecentTick
<1>. QED BY <1>1, <1>2, <1>3, <1>4, <1>5, RecentLook DEF Next

\* A start is admitted only on a policy and a reading younger than the cache's lifetime
\* and the slowness of two attempts, whoever filled the cache and however late.
THEOREM AdmittedOnRecentFacts == Spec => RecentFacts
<1>1. Init => Recent
  BY FactIs, Bounds DEF Init, Recent, Storing
<1>2. ASSUME IInv, Recent
      PROVE  \A c \in Start : Acquire(c) => \A f \in Fact : got[c][f].age < OldAge(f)
  <2>1. \A c \in Start, f \in Fact : got[c][f].age < TTL[f] + 2 * MaxLag
    BY <1>2, Bounds, Numbers DEF Recent
  <2>. QED BY <2>1 DEF OldAge
<1>3. IInv /\ Recent /\ [Next]_vars =>
        [\A c \in Start : Acquire(c) => \A f \in Fact : got[c][f].age < OldAge(f)]_vars
  BY <1>2
<1>. QED BY <1>1, <1>3, InitIInv, NextIInv, RecentStep, PTL DEF Spec, RecentFacts

=============================================================================
