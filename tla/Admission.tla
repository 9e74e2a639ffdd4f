----------------------------- MODULE Admission -----------------------------
(***************************************************************************)
(* The gate in front of container starts: Controller of package admission. *)
(*                                                                         *)
(* Admit is a loop of attempts.  An attempt resolves the policy and reads  *)
(* the host, each through a short-lived cache that is filled outside the   *)
(* mutex, and then takes a slot under the mutex or is held.  A held start  *)
(* shows itself in the list of holds and waits for a release, for the poll *)
(* timer or for the end of its context.  Every region under the mutex is   *)
(* one step, and so are the reads of the database and of /proc.            *)
(*                                                                         *)
(* Time is counted in ticks.  Notices to the run's stream are left out,    *)
(* and so is Snapshot, which fills the caches as an attempt does and takes *)
(* no slot.                                                                *)
(***************************************************************************)
EXTENDS Integers, FiniteSets, FiniteSetsExt

CONSTANTS
  Start,       \* calls of Admit, one per container start
  Policy,      \* the Limits that operators set
  Host,        \* what /proc may say
  TTL,         \* limitsCacheTTL and hostCacheTTL in ticks
  MaxLag,      \* bound: ticks that one attempt may take
  None

Fact == {"limits", "host"}

Reason == {"host_memory", "host_pressure", "concurrency", "pacing"}

\* The legs: 0 or FALSE disables one (RequiredFreeMB, MaxPressurePct,
\* MaxConcurrentStarts, MinStartInterval)
ASSUME AdmissionAssumption ==
  /\ Policy \subseteq [memory : BOOLEAN, pressure : BOOLEAN, starts : Nat, interval : Nat]
  /\ Host \subseteq {"ample", "short", "stalled", "unreadable"}
  /\ Policy # {} /\ Host # {}
  /\ TTL \in [Fact -> Nat \ {0}]
  /\ MaxLag \in Nat \ {0}
  /\ IsFiniteSet(Start)
  /\ None \notin Reason

VARIABLES
  source,     \* the settings table and the host, by Fact
  cache,      \* limitsVal and hostVal: value, ticks since it was stored, its age;
              \* an entry that is past its time is Stale
  inFlight,
  sinceAdmit, \* ticks since lastAdmit, None before the first
  holds,      \* the reason shown for a held start
  pc,         \* where a caller is
  got,        \* the facts its attempt goes by: value and age
  reason,     \* why its attempt was refused
  woken,      \* starts whose wake channel has been closed
  lag         \* ticks that its attempt has taken

vars == <<source, cache, inFlight, sinceAdmit, holds, pc, got, reason, woken, lag>>
gate == <<inFlight, sinceAdmit>>

\* Ages beyond the bound of RecentFacts need not be told apart
OldAge(f) == TTL[f] + 2 * MaxLag
Older(f, age) == IF age < OldAge(f) THEN age + 1 ELSE age

Stale == [val |-> None, stored |-> 0, age |-> 0]

LongestInterval == Max({p.interval : p \in Policy} \cup {1})

Init ==
  /\ source \in [limits : Policy, host : Host]
  /\ cache = [f \in Fact |-> Stale]
  /\ inFlight = 0 /\ sinceAdmit = None
  /\ holds = [c \in Start |-> None]
  /\ pc = [c \in Start |-> "out"]
  /\ got = [c \in Start |-> [f \in Fact |-> [val |-> None, age |-> 0]]]
  /\ reason = [c \in Start |-> None]
  /\ woken = {}
  /\ lag = [c \in Start |-> 0]

Go(c, from, to) == pc[c] = from /\ pc' = [pc EXCEPT ![c] = to]

NoFacts == [f \in Fact |-> [val |-> None, age |-> 0]]

\* The facts of an attempt end with it
EndAttempt(c) ==
  /\ got' = [got EXCEPT ![c] = NoFacts]
  /\ lag' = [lag EXCEPT ![c] = 0]

Call(c) ==
  /\ Go(c, "out", "limits")
  /\ UNCHANGED <<source, cache, gate, holds, got, reason, woken, lag>>

-----------------------------------------------------------------------------
(* The two caches: resolveLimits, then hostMemory *)

\* An attempt whose policy has no memory leg does not read the host
AfterFact(f, val) ==
  IF f = "limits" /\ (val.memory \/ val.pressure) THEN "host" ELSE "acquire"

Fetching(f) == IF f = "limits" THEN "query" ELSE "read"
Storing(f) == IF f = "limits" THEN "keep policy" ELSE "keep reading"

\* What a hit leaves in the cache: hits that renew the entry would keep it for ever
Renewed(f) == [cache EXCEPT ![f].stored = 0]

AfterHit(f) == cache

Hit(c, f) ==
  /\ cache[f] # Stale
  /\ Go(c, f, AfterFact(f, cache[f].val))
  /\ got' = [got EXCEPT ![c][f] = [val |-> cache[f].val, age |-> cache[f].age]]
  /\ cache' = AfterHit(f)
  /\ UNCHANGED <<source, gate, holds, reason, woken, lag>>

Miss(c, f) ==
  /\ cache[f] = Stale
  /\ Go(c, f, Fetching(f))
  /\ UNCHANGED <<source, cache, gate, holds, got, reason, woken, lag>>

\* Outside the mutex: several callers may read at once, and be late to store
Fetch(c, f) ==
  /\ Go(c, Fetching(f), Storing(f))
  /\ got' = [got EXCEPT ![c][f] = [val |-> source[f], age |-> 0]]
  /\ UNCHANGED <<source, cache, gate, holds, reason, woken, lag>>

\* The last to store wins, and its entry counts as new
Store(c, f) ==
  /\ Go(c, Storing(f), AfterFact(f, got[c][f].val))
  /\ cache' = [cache EXCEPT ![f] = [val |-> got[c][f].val, stored |-> 0,
                                    age |-> got[c][f].age]]
  /\ UNCHANGED <<source, gate, holds, got, reason, woken, lag>>

-----------------------------------------------------------------------------
(* tryAcquire *)

\* The memory legs; a host that cannot be read stands them down
MemoryHolds(limits, host) ==
  CASE limits.memory /\ host = "short" -> "host_memory"
    [] limits.pressure /\ host = "stalled" -> "host_pressure"
    [] OTHER -> None

FullAboveLimit(limits) == limits.starts > 0 /\ inFlight > limits.starts

Full(limits) == limits.starts > 0 /\ inFlight >= limits.starts

Paced(limits) == sinceAdmit # None /\ sinceAdmit < limits.interval

\* The binding reason, memory first, or None
Binding(c) ==
  LET limits == got[c].limits.val
      memory == MemoryHolds(limits, got[c].host.val)
  IN  IF memory # None THEN memory
      ELSE IF Full(limits) THEN "concurrency"
      ELSE IF Paced(limits) THEN "pacing"
      ELSE None

Acquire(c) ==
  /\ Go(c, "acquire", "admitted")
  /\ Binding(c) = None
  /\ inFlight' = inFlight + 1
  /\ sinceAdmit' = 0
  /\ EndAttempt(c)
  /\ UNCHANGED <<source, cache, holds, reason, woken>>

Refuse(c) ==
  /\ Go(c, "acquire", "held")
  /\ Binding(c) # None
  /\ reason' = [reason EXCEPT ![c] = Binding(c)]
  /\ EndAttempt(c)
  /\ UNCHANGED <<source, cache, gate, holds, woken>>

-----------------------------------------------------------------------------
(* Being held *)

\* remember, or updateHold when the reason changed
Register(c) ==
  /\ Go(c, "held", "listen")
  /\ holds' = [holds EXCEPT ![c] = reason[c]]
  /\ reason' = [reason EXCEPT ![c] = None]
  /\ UNCHANGED <<source, cache, gate, got, woken, lag>>

\* wakeChan: only now is the start among those that a release wakes
Listen(c) ==
  /\ Go(c, "listen", "wait")
  /\ UNCHANGED <<source, cache, gate, holds, got, reason, woken, lag>>

Wake(c) ==
  /\ c \in woken
  /\ Go(c, "wait", "limits")
  /\ woken' = woken \ {c}
  /\ UNCHANGED <<source, cache, gate, holds, got, reason, lag>>

TimerFiresNever(c) == FALSE

\* pollInterval after the wait began
TimerFires(c) == pc[c] = "wait"

Poll(c) ==
  /\ TimerFires(c)
  /\ Go(c, "wait", "limits")
  /\ woken' = woken \ {c}
  /\ UNCHANGED <<source, cache, gate, holds, got, reason, lag>>

\* The context of the run ends; Admit returns HoldExpiredError
Expire(c) ==
  /\ Go(c, "wait", "expired")
  /\ woken' = woken \ {c}
  /\ UNCHANGED <<source, cache, gate, holds, got, reason, lag>>

\* forget, deferred to both ways out
Leave(c) ==
  /\ \/ Go(c, "admitted", "starting")
     \/ Go(c, "expired", "done")
  /\ holds' = [holds EXCEPT ![c] = None]
  /\ UNCHANGED <<source, cache, gate, got, reason, woken, lag>>

-----------------------------------------------------------------------------
(* releaser: the container is up, or its start failed *)

Release(c) ==
  /\ Go(c, "starting", "released")
  /\ inFlight' = IF inFlight > 0 THEN inFlight - 1 ELSE 0
  /\ UNCHANGED <<source, cache, sinceAdmit, holds, got, reason, woken, lag>>

Broadcast(c) ==
  /\ Go(c, "released", "done")
  /\ woken' = woken \cup {d \in Start : pc[d] = "wait"}
  /\ UNCHANGED <<source, cache, gate, holds, got, reason, lag>>

-----------------------------------------------------------------------------
(* The world *)

\* Operators change settings while the server runs, the host's memory comes and goes
Change(f, val) ==
  /\ val # source[f]
  /\ source' = [source EXCEPT ![f] = val]
  /\ UNCHANGED <<cache, gate, holds, pc, got, reason, woken, lag>>

Attempting(c) ==
  pc[c] \in {"limits", "host", "query", "read", "keep policy", "keep reading", "acquire"}

Tick ==
  /\ \A c \in Start : Attempting(c) => lag[c] < MaxLag
  /\ lag' = [c \in Start |-> IF Attempting(c) THEN lag[c] + 1 ELSE lag[c]]
  /\ cache' = [f \in Fact |->
                 IF cache[f] = Stale \/ cache[f].stored + 1 = TTL[f] THEN Stale
                 ELSE [cache[f] EXCEPT !.stored = @ + 1, !.age = Older(f, @)]]
  /\ got' = [c \in Start |-> [f \in Fact |->
               IF Attempting(c) /\ got[c][f].val # None
               THEN [got[c][f] EXCEPT !.age = Older(f, @)] ELSE got[c][f]]]
  /\ sinceAdmit' = IF sinceAdmit = None \/ sinceAdmit = LongestInterval
                   THEN sinceAdmit ELSE sinceAdmit + 1
  /\ UNCHANGED <<source, inFlight, holds, pc, reason, woken>>

-----------------------------------------------------------------------------

Look(c) == \E f \in Fact : Hit(c, f) \/ Miss(c, f) \/ Fetch(c, f) \/ Store(c, f)

Next ==
  \/ \E c \in Start :
       \/ Call(c) \/ Look(c)
       \/ Acquire(c) \/ Refuse(c) \/ Register(c) \/ Listen(c)
       \/ Wake(c) \/ Poll(c) \/ Expire(c) \/ Leave(c)
       \/ Release(c) \/ Broadcast(c)
  \/ \E val \in Policy : Change("limits", val)
  \/ \E val \in Host : Change("host", val)
  \/ Tick

Spec == Init /\ [][Next]_vars

\* Goroutines run, timers fire, container starts end one way or the other; nobody
\* has to call, no context has to end, no operator or host has to change anything
FairSpec ==
  /\ Spec
  /\ WF_vars(Tick)
  /\ \A c \in Start :
       /\ WF_vars(Look(c))
       /\ WF_vars(Acquire(c) \/ Refuse(c) \/ Register(c) \/ Listen(c) \/ Leave(c))
       /\ WF_vars(Wake(c) \/ Poll(c))
       /\ WF_vars(Release(c) \/ Broadcast(c))

-----------------------------------------------------------------------------
(* Properties *)

\* Types of the controller and of its callers.
TypeOK ==
  /\ source \in [limits : Policy, host : Host]
  /\ DOMAIN cache = Fact
  /\ cache["limits"] = Stale \/ cache["limits"] \in [val : Policy, stored : Nat, age : Nat]
  /\ cache["host"] = Stale \/ cache["host"] \in [val : Host, stored : Nat, age : Nat]
  /\ inFlight \in Nat
  /\ sinceAdmit \in Nat \cup {None}
  /\ pc \in [Start -> {"out", "limits", "host", "query", "read", "keep policy",
                        "keep reading", "acquire", "held", "listen", "wait", "admitted",
                        "expired", "starting", "released", "done"}]
  /\ woken \subseteq Start
  /\ lag \in [Start -> 0 .. MaxLag]

InSlot == {c \in Start : pc[c] \in {"admitted", "starting"}}

\* However releases, cancelled waits and changes of the policy interleave, the
\* containers that are starting are the ones counted, and there are never more of
\* them than some policy allows.
StartsWithinLimit ==
  /\ inFlight = Cardinality(InSlot)
  /\ \E p \in Policy : p.starts = 0 \/ inFlight <= p.starts

\* A start is admitted on a policy and on a host reading that were true a short time
\* ago, one lifetime of the cache and the slowness of two attempts, although
\* others fill the caches late and an entry counts as new from when it is stored:
\* with pacing this bounds the starts admitted on one reading.
RecentFacts ==
  [][\A c \in Start : Acquire(c) =>
       \A f \in Fact : got[c][f].age < OldAge(f)]_vars

Passed(c) == pc[c] \in {"admitted", "expired", "starting", "released", "done"}

\* A held start does not wait for ever on a host that has room: a release between
\* its refusal and its registration on the wake channel wakes nobody, and what pacing
\* and memory hold nobody announces, so that the poll must find it.
HeldStartsGoOn ==
  <>[](source.host \in {"ample", "unreadable"}) =>
    \A c \in Start : (pc[c] = "limits") ~> Passed(c)

=============================================================================
