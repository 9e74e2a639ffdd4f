------------------------------ MODULE Quiesce -------------------------------
(***************************************************************************)
(* The quiet window of a consistent backup: internal/quiesce, the one      *)
(* in-process switch every writer, every routine run and every backup goes *)
(* through.                                                                *)
(*                                                                         *)
(* A writer (Enter ... Leave) and a run (StartRun ... Done) are units.     *)
(* What a unit does before it takes c.mu, under it and after it are steps  *)
(* of their own, so the value of `child` that Enter computes first may be  *)
(* stale when c.mu is taken.  A backup calls Begin once, copies under the  *)
(* window it got and judges the copy as CreateInstanceBackup does.         *)
(***************************************************************************)
EXTENDS Integers, FiniteSets

CONSTANTS
  Writer, Run,   \* units: registrations that may ever be made
  Backup,        \* calls of Begin
  Detached,      \* units that ask on a goroutine of their own, which their
                 \* parent does not wait for
  None

Unit == Writer \cup Run

ASSUME QuiesceAssumption ==
  /\ IsFiniteSet(Writer) /\ IsFiniteSet(Run)
  /\ Writer \cap Run = {}
  /\ None \notin Unit \cup Backup
  /\ Detached \subseteq Unit

VARIABLES
  \* Controller
  window,    \* the Begin call that owns c.window, None while admission is open
  held,      \* window.held
  writers,   \* c.writers
  runs,      \* c.runs
  waiting,   \* c.drained is set: the last Leave closes the window's channel
  drained,   \* that channel, window.drained, is closed
  owner,     \* VerifyWriterOwner succeeds
  \* units
  at,        \* where each unit is
  via,       \* the `child` each asking unit computed
  under,     \* the unit carried by the context each unit asked with
  \* backups
  pc,        \* where each call of Begin, and the copy after it, is
  late,      \* its busy wait ran out
  done,      \* its window's Release began
  timer,     \* its window's hard cap
  expired,   \* its window's expired flag
  guards,    \* it holds the guards that Acquire took
  dirty,     \* protected data changed while it was copying
  kept       \* it kept its copy

controller == <<window, held, writers, runs, waiting, drained>>
units == <<at, via, under>>
backups == <<pc, late, done, timer, expired, guards, dirty, kept>>
vars == <<controller, owner, units, backups>>

Places == {"none", "asking", "in", "stepping", "outside", "leaving", "gone"}
Steps == {"idle", "poll", "close", "drain", "recheck", "acquire", "verify",
          "hold", "held", "copy", "judge", "retry", "reopening", "wait",
          "unwind", "releasing", "done"}

Init ==
  /\ window = None /\ held = FALSE /\ writers = 0 /\ runs = 0
  /\ waiting = FALSE /\ drained = FALSE /\ owner = TRUE
  /\ at = [u \in Unit |-> "none"]
  /\ via = [u \in Unit |-> FALSE]
  /\ under = [u \in Unit |-> None]
  /\ pc = [b \in Backup |-> "idle"]
  /\ late = [b \in Backup |-> FALSE]
  /\ done = [b \in Backup |-> FALSE]
  /\ timer = [b \in Backup |-> "off"]
  /\ expired = [b \in Backup |-> FALSE]
  /\ guards = [b \in Backup |-> FALSE]
  /\ dirty = [b \in Backup |-> FALSE]
  /\ kept = [b \in Backup |-> FALSE]

-----------------------------------------------------------------------------
(* Writers and runs *)

\* The unit is registered and not done: writer.inside(), run.live()
Inside(u) == at[u] = "in"

\* A goroutine that asks for a child does nothing else meanwhile; only a
\* detached child leaves its parent free to go on
Busy(u) == \E v \in Unit \ Detached : at[v] = "asking" /\ under[v] = u

\* Enter looks for a writer in its context, StartRun for a run or a writer
Carriers(u) == IF u \in Writer THEN Writer ELSE Unit

\* Enter and StartRun up to c.mu: is the caller a child of a live unit.  A call
\* whose own parent stepped out or left is like one without a parent
Ask(u, p) ==
  /\ at[u] = "none"
  /\ p = None \/ (p \in Carriers(u) /\ at[p] # "none" /\ at[p] # "asking")
  /\ (p # None /\ u \notin Detached) => (Inside(p) /\ ~Busy(p))
  /\ at' = [at EXCEPT ![u] = "asking"]
  /\ via' = [via EXCEPT ![u] = p # None /\ Inside(p)]
  /\ under' = [under EXCEPT ![u] = p]
  /\ UNCHANGED <<controller, owner, backups>>

MayEnter(u) == window = None \/ via[u]

\* Enter and StartRun under c.mu: registered
Admitted(u) ==
  /\ at[u] = "asking" /\ MayEnter(u)
  /\ at' = [at EXCEPT ![u] = "in"]
  /\ IF u \in Writer THEN writers' = writers + 1 /\ runs' = runs
                     ELSE runs' = runs + 1 /\ writers' = writers
  /\ UNCHANGED <<window, held, waiting, drained, owner, via, under, backups>>

\* ... or refused: the caller answers 503, skips, or asks again after release
Refused(u) ==
  /\ at[u] = "asking" /\ ~MayEnter(u)
  /\ at' = [at EXCEPT ![u] = "none"]
  /\ UNCHANGED <<controller, owner, via, under, backups>>

\* A write to protected data, of a writer or of a run
Writes(u) ==
  /\ Inside(u) /\ ~Busy(u)
  /\ dirty' = [b \in Backup |-> dirty[b] \/ pc[b] = "copy"]
  /\ UNCHANGED <<controller, owner, units, pc, late, done, timer, expired,
                 guards, kept>>

\* Mutant: Leave does not look whether the writer is inside
StillCountedAlways(u) == TRUE
\* wasIn, or a stepOut that is about to decrement
StillCounted(u) == at[u] \in {"in", "stepping"}

\* Leave and Done up to c.mu; Leave of a writer that stepped out ends it
Leave(u) ==
  /\ at[u] \in {"in", "stepping", "outside"} /\ ~Busy(u)
  /\ at' = [at EXCEPT ![u] = IF StillCounted(u) THEN "leaving" ELSE "gone"]
  /\ UNCHANGED <<controller, owner, via, under, backups>>

\* Yield and Outside: stepOut up to c.mu
StepOut(u) ==
  /\ u \in Writer /\ Inside(u) /\ ~Busy(u)
  /\ at' = [at EXCEPT ![u] = "stepping"]
  /\ UNCHANGED <<controller, owner, via, under, backups>>

\* Mutant: the count is compared before it is decremented
LastOutEarly == writers = 0 /\ waiting
LastOut == writers = 1 /\ waiting

\* decrement, and the end of Done, under c.mu
Decrement(u) ==
  /\ at[u] \in {"stepping", "leaving"}
  /\ at' = [at EXCEPT ![u] = IF at[u] = "stepping" THEN "outside" ELSE "gone"]
  /\ IF u \in Writer
       THEN /\ writers' = writers - 1 /\ runs' = runs
            /\ drained' = (drained \/ LastOut)
            /\ waiting' = (waiting /\ ~LastOut)
       ELSE runs' = runs - 1 /\ UNCHANGED <<writers, drained, waiting>>
  /\ UNCHANGED <<window, held, owner, via, under, backups>>

\* The end of Yield and Outside: reenter once no window is open
Reenter(u) ==
  /\ u \in Writer /\ at[u] = "outside" /\ window = None
  /\ at' = [at EXCEPT ![u] = "in"]
  /\ writers' = writers + 1
  /\ UNCHANGED <<window, held, runs, waiting, drained, owner, via, under,
                 backups>>

-----------------------------------------------------------------------------
(* Begin *)

Moves(b, from, to) == pc[b] = from /\ pc' = [pc EXCEPT ![b] = to]

\* A call while a window is open, or without the writer's ownership, returns
\* an error at once and is not a step
Begin(b) ==
  /\ owner /\ window = None
  /\ Moves(b, "idle", "poll")
  /\ UNCHANGED <<controller, owner, units, late, done, timer, expired, guards,
                 dirty, kept>>

\* One pass of the loop: ownership, then opts.Busy (the database, which may
\* answer anything) and the runs admitted in this process
Poll(b) ==
  /\ \/ ~owner /\ Moves(b, "poll", "done")
     \/ owner /\ runs = 0 /\ Moves(b, "poll", "close")
     \/ owner /\ Moves(b, "poll", "wait")
     \/ owner /\ Moves(b, "poll", "done")
  /\ UNCHANGED <<controller, owner, units, late, done, timer, expired, guards,
                 dirty, kept>>

\* Mutant: the deadline is computed anew in every pass of the loop
BusyWaitOverNever(b) == FALSE
BusyWaitOver(b) == late[b]

\* After a busy answer: the deadline, the poll timer or the caller's context
Wait(b) ==
  /\ \/ BusyWaitOver(b) /\ Moves(b, "wait", "done")
     \/ ~BusyWaitOver(b) /\ Moves(b, "wait", "poll")
     \/ Moves(b, "wait", "done")
  /\ UNCHANGED <<controller, owner, units, late, done, timer, expired, guards,
                 dirty, kept>>

BusyWaitEnds(b) ==
  /\ pc[b] \notin {"idle", "done"} /\ ~late[b]
  /\ late' = [late EXCEPT ![b] = TRUE]
  /\ UNCHANGED <<controller, owner, units, pc, done, timer, expired, guards,
                 dirty, kept>>

\* close: admission closes; an empty gate is drained at once
Close(b) ==
  /\ window = None
  /\ Moves(b, "close", "drain")
  /\ window' = b /\ held' = FALSE
  /\ drained' = (writers = 0)
  /\ waiting' = (writers # 0)
  /\ done' = [done EXCEPT ![b] = FALSE]
  /\ UNCHANGED <<writers, runs, owner, units, late, timer, expired, guards,
                 dirty, kept>>

CloseRefused(b) ==
  /\ window # None
  /\ Moves(b, "close", "done")
  /\ UNCHANGED <<controller, owner, units, late, done, timer, expired, guards,
                 dirty, kept>>

\* drain: the last writer left, or the timeout found the gate empty
Drained(b) ==
  /\ drained \/ writers = 0
  /\ Moves(b, "drain", "recheck")
  /\ UNCHANGED <<controller, owner, units, late, done, timer, expired, guards,
                 dirty, kept>>

\* drain: the timeout with writers inside, or the caller's context
DrainFails(b) ==
  /\ Moves(b, "drain", "unwind")
  /\ UNCHANGED <<controller, owner, units, late, done, timer, expired, guards,
                 dirty, kept>>

\* Mutant: the second check asks only the database
NothingRunsInDatabase == TRUE
NothingRuns == runs = 0

\* The second busy check, with admission closed
Recheck(b) ==
  /\ \/ NothingRuns /\ Moves(b, "recheck", "acquire")
     \/ Moves(b, "recheck", "retry")
     \/ Moves(b, "recheck", "unwind")
  /\ UNCHANGED <<controller, owner, units, late, done, timer, expired, guards,
                 dirty, kept>>

\* opts.Acquire: the guards of every workspace, which one backup holds
Acquire(b) ==
  /\ \/ /\ \A a \in Backup : ~guards[a]
        /\ Moves(b, "acquire", "verify")
        /\ guards' = [guards EXCEPT ![b] = TRUE]
     \/ Moves(b, "acquire", "retry") /\ UNCHANGED guards
  /\ UNCHANGED <<controller, owner, units, late, done, timer, expired, dirty,
                 kept>>

Verify(b) ==
  /\ Moves(b, "verify", IF owner THEN "hold" ELSE "unwind")
  /\ UNCHANGED <<controller, owner, units, late, done, timer, expired, guards,
                 dirty, kept>>

\* Mutant: the hard cap is not started
CapArmedNever == "off"
CapArmed == "armed"

\* hold: the window holds, its hard cap starts and Begin returns it
Hold(b) ==
  /\ window = b
  /\ Moves(b, "hold", "held")
  /\ held' = TRUE
  /\ timer' = [timer EXCEPT ![b] = CapArmed]
  /\ UNCHANGED <<window, writers, runs, waiting, drained, owner, units, late,
                 done, expired, guards, dirty, kept>>

-----------------------------------------------------------------------------
(* Release, called by Begin, by the backup and by the hard cap *)

\* Mutant: a window that never held forgets its callbacks
GuardsForgotten(b) == IF held THEN [guards EXCEPT ![b] = FALSE] ELSE guards
\* The callbacks of the window a release ends: the guards are given back
ReleasedGuards(b) == [guards EXCEPT ![b] = FALSE]

\* The backup, or Begin, calls Release first
Release(b) ==
  /\ ~done[b]
  /\ \/ Moves(b, "unwind", "releasing")
     \/ Moves(b, "retry", "reopening")
  /\ done' = [done EXCEPT ![b] = TRUE]
  /\ timer' = [timer EXCEPT ![b] = IF @ = "armed" THEN "off" ELSE @]
  /\ guards' = ReleasedGuards(b)
  /\ UNCHANGED <<controller, owner, units, late, expired, dirty, kept>>

\* ... or finds that the hard cap did
ReleaseAgain(b) ==
  /\ done[b]
  /\ Moves(b, "unwind", "done")
  /\ UNCHANGED <<controller, owner, units, late, done, timer, expired, guards,
                 dirty, kept>>

\* Mutant: the hard cap releases without marking the window first
MarkExpiredLater(b) == expired
MarkExpired(b) == [expired EXCEPT ![b] = TRUE]

\* The hard cap marks its window, and then releases it
CapFires(b) ==
  /\ timer[b] = "armed"
  /\ timer' = [timer EXCEPT ![b] = "firing"]
  /\ expired' = MarkExpired(b)
  /\ UNCHANGED <<controller, owner, units, pc, late, done, guards, dirty, kept>>

CapReleases(b) ==
  /\ timer[b] = "firing"
  /\ timer' = [timer EXCEPT ![b] = "off"]
  /\ done' = [done EXCEPT ![b] = TRUE]
  /\ guards' = IF done[b] THEN guards ELSE ReleasedGuards(b)
  /\ UNCHANGED <<controller, owner, units, pc, late, expired, dirty, kept>>

\* Release under c.mu: admission reopens
Reopen(b) ==
  /\ window = b /\ done[b]
  /\ window' = None /\ held' = FALSE /\ waiting' = FALSE
  /\ pc' = [pc EXCEPT ![b] = IF @ = "releasing" THEN "done"
                             ELSE IF @ = "reopening" THEN "wait" ELSE @]
  /\ UNCHANGED <<writers, runs, drained, owner, units, late, done, timer,
                 expired, guards, dirty, kept>>

-----------------------------------------------------------------------------
(* The backup that Begin returned to: CreateInstanceBackup *)

StartCopy(b) ==
  /\ Moves(b, "held", IF owner THEN "copy" ELSE "unwind")
  /\ UNCHANGED <<controller, owner, units, late, done, timer, expired, guards,
                 dirty, kept>>

\* The copy ends, fails, or is cut short by the window's context; ownership is
\* checked again
CopyEnds(b) ==
  /\ Moves(b, "copy", IF owner THEN "judge" ELSE "unwind")
  /\ UNCHANGED <<controller, owner, units, late, done, timer, expired, guards,
                 dirty, kept>>

\* A copy is kept when the hard cap has not fired and the copy did not fail
Judge(b) ==
  /\ Moves(b, "judge", "unwind")
  /\ kept' = [kept EXCEPT ![b] = ~expired[b]]
  /\ UNCHANGED <<controller, owner, units, late, done, timer, expired, guards,
                 dirty>>

CopyFails(b) ==
  /\ pc[b] \in {"copy", "judge"}
  /\ pc' = [pc EXCEPT ![b] = "unwind"]
  /\ UNCHANGED <<controller, owner, units, late, done, timer, expired, guards,
                 dirty, kept>>

-----------------------------------------------------------------------------
(* The environment *)

\* The process loses its exclusive ownership of the database ...
LoseOwner ==
  /\ owner
  /\ owner' = FALSE
  /\ UNCHANGED <<controller, units, backups>>

\* ... and then another process may write
ForeignWrite ==
  /\ ~owner
  /\ dirty' = [b \in Backup |-> dirty[b] \/ pc[b] = "copy"]
  /\ UNCHANGED <<controller, owner, units, pc, late, done, timer, expired,
                 guards, kept>>

UnitStep(u) ==
  \/ \E p \in Unit \cup {None} : Ask(u, p)
  \/ Admitted(u) \/ Refused(u) \/ Writes(u)
  \/ Leave(u) \/ StepOut(u) \/ Decrement(u) \/ Reenter(u)

\* What Begin and Release do by themselves, the timers included
WindowStep(b) ==
  \/ Poll(b) \/ Wait(b) \/ BusyWaitEnds(b)
  \/ Close(b) \/ CloseRefused(b)
  \/ Drained(b) \/ DrainFails(b) \/ Recheck(b)
  \/ Acquire(b) \/ Verify(b) \/ Hold(b)
  \/ Release(b) \/ ReleaseAgain(b)
  \/ CapFires(b) \/ CapReleases(b) \/ Reopen(b)

CopyStep(b) == StartCopy(b) \/ CopyEnds(b) \/ Judge(b) \/ CopyFails(b)

Next ==
  \/ \E u \in Unit : UnitStep(u)
  \/ \E b \in Backup : Begin(b) \/ WindowStep(b) \/ CopyStep(b)
  \/ LoseOwner
  \/ ForeignWrite

Spec == Init /\ [][Next]_vars

\* The goroutine in Begin runs, its drain timeout and busy wait run out, and
\* a hard cap that was started fires and releases; neither the writers nor the
\* copy have to make progress
FairWindow(b) ==
  /\ WF_vars(Poll(b)) /\ WF_vars(Wait(b)) /\ WF_vars(BusyWaitEnds(b))
  /\ WF_vars(Close(b) \/ CloseRefused(b))
  /\ WF_vars(Drained(b) \/ DrainFails(b))
  /\ WF_vars(Recheck(b)) /\ WF_vars(Acquire(b)) /\ WF_vars(Verify(b))
  /\ WF_vars(Hold(b))
  /\ WF_vars(Release(b) \/ ReleaseAgain(b))
  /\ WF_vars(CapFires(b)) /\ WF_vars(CapReleases(b)) /\ WF_vars(Reopen(b))

FairSpec == Spec /\ \A b \in Backup : FairWindow(b)

-----------------------------------------------------------------------------
(* Properties *)

\* Types of the controller, the units and the backups; the two counters are never
\* taken below zero by a Leave, a Yield or a return.
TypeOK ==
  /\ window \in Backup \cup {None}
  /\ held \in BOOLEAN /\ waiting \in BOOLEAN /\ drained \in BOOLEAN
  /\ owner \in BOOLEAN
  /\ writers \in Nat /\ runs \in Nat
  /\ at \in [Unit -> Places]
  /\ via \in [Unit -> BOOLEAN]
  /\ under \in [Unit -> Unit \cup {None}]
  /\ pc \in [Backup -> Steps]
  /\ late \in [Backup -> BOOLEAN] /\ done \in [Backup -> BOOLEAN]
  /\ timer \in [Backup -> {"off", "armed", "firing"}]
  /\ expired \in [Backup -> BOOLEAN] /\ guards \in [Backup -> BOOLEAN]
  /\ dirty \in [Backup -> BOOLEAN] /\ kept \in [Backup -> BOOLEAN]

\* While the window holds and its release has not begun, no writer is inside
\* the gate and no run is admitted: "A writer inside the gate never sees it
\* true - the window waits for it to leave first" (WritesHeld).
HeldIsQuiet ==
  (held /\ ~done[window]) => \A u \in Unit : ~Inside(u)

\* A backup that is kept was not written to while it was copied, although the
\* hard cap may reopen admission before the copy has stopped and the process
\* may lose the database: Expired is read after the copy and is marked before
\* the cap's release, and ownership is verified after the copy.
KeptCopyIsConsistent ==
  \A b \in Backup : kept[b] => ~dirty[b]

\* The drain's wake-up is not lost: a Begin that waits in drain while nobody is
\* inside finds its channel closed, and need not wait for the drain timeout.
DrainWakes ==
  \A b \in Backup : (pc[b] = "drain" /\ writers = 0) => drained

\* The guards of every workspace are given back with the window they were taken
\* in, whichever of Begin's exits, the backup or the hard cap releases it: guards
\* that outlive it would fail every later backup.
GuardsEndWithWindow ==
  \A b \in Backup : guards[b] => (window = b /\ ~done[b])

\* Admission reopens after every window, by itself: neither writers that do not
\* leave nor a backup that hangs in its copy keep it closed ("WaitReleased ...
\* is bounded by the drain timeout plus the hard cap").
AdmissionReopens ==
  (window # None) ~> (window = None)

\* Begin returns: with a held window or with an error, whatever the writers and
\* the probe do.
BeginReturns ==
  \A b \in Backup : (pc[b] = "poll") ~> (pc[b] \in {"held", "done"})

=============================================================================
