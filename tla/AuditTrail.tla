---------------------------- MODULE AuditTrail ----------------------------
(***************************************************************************)
(* Write-behind evidence (crates/byos/src/infra/audit.rs, the emits of     *)
(* infra/storage.rs) and the service's startup and shutdown around it      *)
(* (run.rs, serve in infra/api/mod.rs).  A caller commits a change, and    *)
(* only then hands its event to an unbounded channel; one writer task      *)
(* inserts the events, retrying until each lands, and leaves when nobody   *)
(* holds a sender any more.  Between the commit, the event and its row the *)
(* caller can be dropped, a reply can be lost and the process can die; a   *)
(* startup can fail before or after the background loops were spawned.     *)
(*                                                                         *)
(* Op_Mistake is Op with a mistake it could have contained.  Nothing uses  *)
(* it: it takes the place of Op when the properties are put to test.       *)
(***************************************************************************)
EXTENDS Integers, Sequences, FiniteSets, SequencesExt

CONSTANTS
  Changes,      \* the mutations of the store, each made once
  Loops,        \* those the background loops make, one each; the rest are requests
  NoEvent,      \* the writer holds nothing
  MaxCrashes,   \* bound: deaths of the process
  MaxRows       \* bound: audit_events rows an unacknowledged insert may reach

ASSUME AuditAssumption ==
  /\ Loops \subseteq Changes
  /\ NoEvent \notin Changes
  /\ MaxCrashes \in Nat /\ MaxRows \in Nat

VARIABLES
  mode,       \* the service: down, setup (before anything is spawned), binding
              \* its listeners, up, stopping (answering the last requests), or
              \* draining (loops told to abort, the writer awaited)
  running,    \* the loops whose task runs; each holds a sender
  work,       \* work[c]: how far the caller making change c has come
  commits,    \* changes the database has committed
  emitted,    \* every event handed to the channel, in order
  queue,      \* the channel
  writer,     \* the event the writer is inserting
  trail,      \* the rows of audit_events, in id order
  died,       \* events that were in memory when the process died
  crashes     \* how often it died

vars == <<mode, running, work, commits, emitted, queue, writer, trail, died, crashes>>

InHand == {"asked", "replied"}

TrailTypeOK ==
  /\ mode \in {"down", "setup", "binding", "up", "stopping", "draining"}
  /\ running \subseteq Loops
  /\ work \in [Changes -> {"none", "over"} \cup InHand]
  /\ commits \subseteq Changes
  /\ emitted \in Seq(Changes)
  /\ queue \in Seq(Changes)
  /\ writer \in Changes \cup {NoEvent}
  /\ trail \in Seq(Changes)
  /\ died \subseteq Changes
  /\ crashes \in 0 .. MaxCrashes

Init ==
  /\ mode = "down"
  /\ running = {}
  /\ work = [c \in Changes |-> "none"]
  /\ commits = {} /\ died = {} /\ crashes = 0
  /\ emitted = <<>> /\ queue = <<>> /\ trail = <<>>
  /\ writer = NoEvent

----------------------------------------------------------------------------
(* Callers. *)

\* A caller sends its statement: a request while the servers take any, a loop
\* until its task is dropped.
Ask(c) ==
  /\ work[c] = "none"
  /\ c \in running \/ (c \notin Loops /\ mode = "up")
  /\ work' = [work EXCEPT ![c] = "asked"]
  /\ UNCHANGED <<mode, running, commits, emitted, queue, writer, trail, died, crashes>>

\* The database commits and says so, fails and says so, or the connection is
\* lost and nobody knows: the caller then returns an error and emits nothing.
Answer(c) ==
  /\ work[c] = "asked"
  /\ \/ commits' = commits \cup {c} /\ work' = [work EXCEPT ![c] = "replied"]
     \/ commits' = commits /\ work' = [work EXCEPT ![c] = "over"]
     \/ commits' = commits \cup {c} /\ work' = [work EXCEPT ![c] = "over"]
  /\ UNCHANGED <<mode, running, emitted, queue, writer, trail, died, crashes>>

\* The event is handed over before the database has answered.
Emit_Early(c) ==
  /\ work[c] \in InHand
  /\ work' = [work EXCEPT ![c] = "over"]
  /\ emitted' = Append(emitted, c)
  /\ queue' = Append(queue, c)
  /\ UNCHANGED <<mode, running, commits, writer, trail, died, crashes>>

\* Resumed with the reply, the caller emits.
Emit(c) ==
  /\ work[c] = "replied"
  /\ work' = [work EXCEPT ![c] = "over"]
  /\ emitted' = Append(emitted, c)
  /\ queue' = Append(queue, c)
  /\ UNCHANGED <<mode, running, commits, writer, trail, died, crashes>>

\* Callers S are dropped at their await; what they had sent may still commit.
DropCallers(S) ==
  /\ work' = [c \in Changes |-> IF c \in S THEN "over" ELSE work[c]]
  /\ \E T \in SUBSET {c \in S : work[c] = "asked"} : commits' = commits \cup T

InFlight(S) == {c \in S : work[c] \in InHand}

\* The client of a request goes away, and its handler is dropped.
Disconnect(c) ==
  /\ c \in InFlight(Changes \ Loops)
  /\ DropCallers({c})
  /\ UNCHANGED <<mode, running, emitted, queue, writer, trail, died, crashes>>

----------------------------------------------------------------------------
(* The writer task. *)

\* The writer stops with the servers.
Take_WhileUp ==
  /\ mode = "up" /\ writer = NoEvent /\ queue # <<>>
  /\ writer' = Head(queue)
  /\ queue' = Tail(queue)
  /\ UNCHANGED <<mode, running, work, commits, emitted, trail, died, crashes>>

Take ==
  /\ mode # "down" /\ writer = NoEvent /\ queue # <<>>
  /\ writer' = Head(queue)
  /\ queue' = Tail(queue)
  /\ UNCHANGED <<mode, running, work, commits, emitted, trail, died, crashes>>

\* A failed insert is given up.
Inserted_OrNot ==
  /\ writer # NoEvent
  /\ trail' \in {trail, Append(trail, writer)}
  /\ writer' = NoEvent
  /\ UNCHANGED <<mode, running, work, commits, emitted, queue, died, crashes>>

Inserted ==
  /\ writer # NoEvent
  /\ trail' = Append(trail, writer)
  /\ writer' = NoEvent
  /\ UNCHANGED <<mode, running, work, commits, emitted, queue, died, crashes>>

\* The insert committed but its reply was lost: the writer will retry it.
Unacknowledged ==
  /\ writer # NoEvent
  /\ Len(trail) < MaxRows
  /\ trail' = Append(trail, writer)
  /\ UNCHANGED <<mode, running, work, commits, emitted, queue, writer, died, crashes>>

----------------------------------------------------------------------------
(* Startup. *)

\* The loops are spawned before the node is asked.
Boot_SpawnsEarly ==
  /\ mode = "down"
  /\ mode' = "setup"
  /\ running' = Loops
  /\ UNCHANGED <<work, commits, emitted, queue, writer, trail, died, crashes>>

\* The database is reached and migrated, the writer spawned.
Boot ==
  /\ mode = "down"
  /\ mode' = "setup"
  /\ UNCHANGED <<running, work, commits, emitted, queue, writer, trail, died, crashes>>

\* The node does not answer: the service returns, and its writer with it.
SetupFails ==
  /\ mode = "setup"
  /\ mode' = "down"
  /\ UNCHANGED <<running, work, commits, emitted, queue, writer, trail, died, crashes>>

\* With every fallible step behind, the loops are spawned; they tick at once.
SpawnLoops ==
  /\ mode = "setup"
  /\ mode' = "binding"
  /\ running' = Loops
  /\ UNCHANGED <<work, commits, emitted, queue, writer, trail, died, crashes>>

\* Both listeners are bound, or serving failed and the teardown runs all the same.
Bind ==
  /\ mode = "binding"
  /\ mode' \in {"up", "stopping"}
  /\ UNCHANGED <<running, work, commits, emitted, queue, writer, trail, died, crashes>>

----------------------------------------------------------------------------
(* Shutdown and death. *)

Shutdown ==
  /\ mode = "up"
  /\ mode' = "stopping"
  /\ UNCHANGED <<running, work, commits, emitted, queue, writer, trail, died, crashes>>

\* The servers returned once their last request was answered; the loops are told
\* to abort.
AbortLoops ==
  /\ mode = "stopping"
  /\ InFlight(Changes \ Loops) = {}
  /\ mode' = "draining"
  /\ UNCHANGED <<running, work, commits, emitted, queue, writer, trail, died, crashes>>

\* An aborted loop goes on to its next await, and is dropped there with its sender.
LoopDropped(c) ==
  /\ mode = "draining"
  /\ c \in running
  /\ running' = running \ {c}
  /\ DropCallers(InFlight({c}))
  /\ UNCHANGED <<mode, emitted, queue, writer, trail, died, crashes>>

\* The service returns with its writer: no sender is left, the channel is drained.
WriterExit ==
  /\ mode = "draining" /\ running = {} /\ queue = <<>> /\ writer = NoEvent
  /\ mode' = "down"
  /\ UNCHANGED <<running, work, commits, emitted, queue, writer, trail, died, crashes>>

Unwritten == ToSet(queue) \cup ({writer} \ {NoEvent})

\* The process dies, at any point of its life.
Crash ==
  /\ mode # "down" /\ crashes < MaxCrashes
  /\ mode' = "down"
  /\ running' = {}
  /\ crashes' = crashes + 1
  /\ DropCallers(InFlight(Changes))
  /\ died' = died \cup Unwritten
  /\ queue' = <<>> /\ writer' = NoEvent
  /\ UNCHANGED <<emitted, trail>>

Writer == Take \/ Inserted

Next ==
  \/ \E c \in Changes : Ask(c) \/ Answer(c) \/ Emit(c) \/ Disconnect(c)
  \/ Writer \/ Unacknowledged
  \/ Boot \/ SetupFails \/ SpawnLoops \/ Bind
  \/ Shutdown \/ AbortLoops \/ WriterExit \/ Crash
  \/ \E c \in Loops : LoopDropped(c)

Spec == Init /\ [][Next]_vars

\* The writer task is scheduled and the database accepts an insert in the end;
\* requests are answered; the runtime drops an aborted task; a service that is
\* stopping stops.
Fairness ==
  /\ WF_vars(Writer)
  /\ \A c \in Changes : WF_vars(Answer(c)) /\ WF_vars(Emit(c))
  /\ WF_vars(AbortLoops) /\ WF_vars(WriterExit)
  /\ \A c \in Loops : WF_vars(LoopDropped(c))

FairSpec == Spec /\ Fairness

----------------------------------------------------------------------------
(* Properties. *)

\* No false evidence: a row of the trail tells of a change that was committed,
\* although it is written by another task, later, from memory.
TrailTrue == ToSet(trail) \cup Unwritten \subseteq commits

\* Once emitted, evidence is lost only by process death (audit.rs, 1-3).
LostOnlyByDeath == ToSet(emitted) \subseteq ToSet(trail) \cup Unwritten \cup died

\* When the service has returned - told to, its startup failed, or dead - nothing
\* of it is left: no loop works on, no change is under way, no evidence waits
\* (run.rs, 292-294 and 390-393: no early return leaves tasks behind).
NothingOutlives ==
  mode = "down" => /\ running = {} /\ InFlight(Changes) = {}
                   /\ Unwritten = {}

\* Evidence arrives, and a shutdown completes.
EvidenceArrives ==
  \A c \in Changes : c \in ToSet(emitted) ~> c \in ToSet(trail) \cup died
ShutdownEnds == mode = "stopping" ~> mode = "down"
=============================================================================
