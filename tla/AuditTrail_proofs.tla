------------------------ MODULE AuditTrail_proofs ------------------------
(***************************************************************************)
(* For every set of changes and any number of crashes: the trail tells the *)
(* truth, and only process death loses what was emitted.                   *)
(***************************************************************************)
EXTENDS AuditTrail, TLAPS

\* What a sequence holds after an append and after a take.
LEMMA SetOfAppend ==
  ASSUME NEW S, NEW s \in Seq(S), NEW e \in S
  PROVE  ToSet(Append(s, e)) = ToSet(s) \cup {e}
<1> DEFINE t == Append(s, e)
<1>1. t \in Seq(S) /\ Len(t) = Len(s) + 1 /\ t[Len(s) + 1] = e
  OBVIOUS
<1>2. \A i \in 1 .. Len(s) : t[i] = s[i]
  OBVIOUS
<1>3. DOMAIN t = 1 .. Len(s) + 1 /\ DOMAIN s = 1 .. Len(s) /\ Len(s) \in Nat
  BY <1>1
<1>4. \A i \in 1 .. Len(s) + 1 : i = Len(s) + 1 \/ i \in 1 .. Len(s)
  BY <1>3
<1>5. Len(s) + 1 \in 1 .. Len(s) + 1 /\ 1 .. Len(s) \subseteq 1 .. Len(s) + 1
  BY <1>3
<1> HIDE DEF t
<1>6. ToSet(t) = ToSet(s) \cup {e}
  BY <1>1, <1>2, <1>3, <1>4, <1>5, Zenon DEF ToSet
<1>7. QED
  BY <1>6 DEF t

LEMMA SetOfTake ==
  ASSUME NEW S, NEW s \in Seq(S), s # <<>>
  PROVE  /\ Head(s) \in S /\ Tail(s) \in Seq(S)
         /\ ToSet(s) = {Head(s)} \cup ToSet(Tail(s))
<1> DEFINE t == Tail(s)
<1>1. /\ Head(s) \in S /\ t \in Seq(S) /\ Len(t) = Len(s) - 1
      /\ Len(s) \in Nat \ {0} /\ Head(s) = s[1]
  OBVIOUS
<1>2. \A i \in 1 .. Len(t) : t[i] = s[i + 1]
  OBVIOUS
<1>3. DOMAIN t = 1 .. Len(t) /\ DOMAIN s = 1 .. Len(s)
  BY <1>1
<1>4. \A i \in 1 .. Len(s) : i = 1 \/ \E j \in 1 .. Len(t) : i = j + 1
  <2> SUFFICES ASSUME NEW i \in 1 .. Len(s), i # 1
               PROVE  \E j \in 1 .. Len(t) : i = j + 1
    OBVIOUS
  <2>1. i - 1 \in 1 .. Len(t) /\ i = (i - 1) + 1
    BY <1>1
  <2>2. QED
    BY <2>1
<1>5. 1 \in 1 .. Len(s) /\ \A j \in 1 .. Len(t) : j + 1 \in 1 .. Len(s)
  BY <1>1
<1> HIDE DEF t
<1>6. ToSet(s) = {Head(s)} \cup ToSet(t)
  <2>1. ASSUME NEW x \in ToSet(s)
        PROVE  x \in {Head(s)} \cup ToSet(t)
    <3>1. PICK i \in 1 .. Len(s) : x = s[i]
      BY <1>3, <2>1 DEF ToSet
    <3>2. CASE i = 1
      BY <1>1, <3>1, <3>2
    <3>3. ASSUME NEW j \in 1 .. Len(t), i = j + 1
          PROVE  x \in ToSet(t)
      <4>1. x = t[j]
        BY <1>2, <3>1, <3>3
      <4>2. QED
        BY <1>3, <3>3, <4>1, Zenon DEF ToSet
    <3>4. QED
      BY <1>4, <3>2, <3>3
  <2>2. ASSUME NEW x \in {Head(s)} \cup ToSet(t)
        PROVE  x \in ToSet(s)
    <3>1. CASE x = Head(s)
      BY <1>1, <1>3, <1>5, <3>1, Zenon DEF ToSet
    <3>2. CASE x \in ToSet(t)
      <4>1. PICK j \in 1 .. Len(t) : x = t[j]
        BY <1>3, <3>2, Zenon DEF ToSet
      <4>2. j + 1 \in 1 .. Len(s) /\ x = s[j + 1]
        BY <1>2, <1>5, <4>1
      <4>3. QED
        BY <1>3, <4>2, Zenon DEF ToSet
    <3>3. QED
      BY <2>2, <3>1, <3>2
  <2>3. QED
    BY <2>1, <2>2
<1>7. QED
  BY <1>1, <1>6 DEF t

LEMMA SetOfEmpty == ToSet(<<>>) = {}
  BY DEF ToSet

----------------------------------------------------------------------------
\* The truth of the trail rests on that of the events under way, and these on
\* callers emitting only with the reply to a commit in hand.
Honest ==
  /\ \A c \in Changes : work[c] = "replied" => c \in commits
  /\ ToSet(emitted) \cup died \subseteq commits

\* A loop cut off, a request answered: whoever could still emit holds a sender,
\* and until the loops are spawned there is nothing to write.
Idle(c) == work[c] \notin InHand

Quiet ==
  /\ \A c \in Loops \ running : Idle(c)
  /\ mode \notin {"up", "stopping"} => \A c \in Changes \ Loops : Idle(c)
  /\ mode \in {"down", "setup"} => running = {} /\ queue = <<>> /\ writer = NoEvent

IInv == TrailTypeOK /\ Honest /\ Quiet /\ TrailTrue /\ LostOnlyByDeath

LEMMA DropType ==
  ASSUME TrailTypeOK, NEW S \in SUBSET Changes, DropCallers(S)
  PROVE  /\ work' \in [Changes -> {"none", "over"} \cup InHand]
         /\ \A c \in Changes : work'[c] = "over" \/ (c \notin S /\ work'[c] = work[c])
         /\ commits' \subseteq Changes /\ commits \subseteq commits'
         /\ \A c \in Changes : work'[c] = "replied" => work[c] = "replied"
  BY DEF TrailTypeOK, DropCallers

LEMMA Inductive ==
  ASSUME IInv, [Next]_vars
  PROVE  IInv'
<1> USE AuditAssumption DEF IInv, TrailTypeOK, Honest, Quiet, Idle, TrailTrue,
                            LostOnlyByDeath, Unwritten
<1>1. ASSUME NEW c \in Changes, Ask(c)
      PROVE  IInv'
  BY <1>1 DEF Ask, InHand
<1>2. ASSUME NEW c \in Changes, Answer(c)
      PROVE  IInv'
  BY <1>2 DEF Answer, InHand
<1>3. ASSUME NEW c \in Changes, Emit(c)
      PROVE  IInv'
  <2>1. /\ ToSet(emitted') = ToSet(emitted) \cup {c}
        /\ ToSet(queue') = ToSet(queue) \cup {c}
    BY <1>3, SetOfAppend DEF Emit
  <2>2. QED
    BY <1>3, <2>1 DEF Emit
<1>4. ASSUME NEW c \in Changes, Disconnect(c)
      PROVE  IInv'
  <2>1. DropCallers({c}) /\ {c} \in SUBSET Changes
    BY <1>4 DEF Disconnect
  <2>2. /\ work' \in [Changes -> {"none", "over"} \cup InHand]
        /\ \A d \in Changes : work'[d] = "over" \/ work'[d] = work[d]
        /\ commits' \subseteq Changes /\ commits \subseteq commits'
    BY <2>1, DropType
  <2>3. QED
    BY <1>4, <2>2 DEF Disconnect, InHand
<1>5. CASE Take
  <2>1. /\ Head(queue) \in Changes /\ Tail(queue) \in Seq(Changes)
        /\ ToSet(queue) = {Head(queue)} \cup ToSet(Tail(queue))
    BY <1>5, SetOfTake DEF Take
  <2>2. QED
    BY <1>5, <2>1 DEF Take
<1>6. CASE Inserted \/ Unacknowledged
  <2>1. writer \in Changes /\ trail' = Append(trail, writer)
    BY <1>6 DEF Inserted, Unacknowledged
  <2>2. ToSet(trail') = ToSet(trail) \cup {writer} /\ trail' \in Seq(Changes)
    BY <2>1, SetOfAppend
  <2>3. QED
    BY <1>6, <2>2 DEF Inserted, Unacknowledged
<1>7. CASE Shutdown \/ AbortLoops \/ Boot \/ SetupFails \/ SpawnLoops \/ Bind
  BY <1>7 DEF Shutdown, AbortLoops, Boot, SetupFails, SpawnLoops, Bind, InFlight
<1>8. CASE WriterExit
  BY <1>8 DEF WriterExit
<1>9. ASSUME NEW c \in Loops, LoopDropped(c)
      PROVE  IInv'
  <2>1. DropCallers(InFlight({c})) /\ InFlight({c}) \in SUBSET Changes
    BY <1>9 DEF LoopDropped, InFlight
  <2>2. QED
    BY <1>9, <2>1, DropType DEF LoopDropped, InFlight, InHand
<1>10. CASE Crash
  <2>1. DropCallers(InFlight(Changes)) /\ InFlight(Changes) \in SUBSET Changes
    BY <1>10 DEF Crash, InFlight
  <2>2. ToSet(queue') = {} /\ queue' \in Seq(Changes)
    BY <1>10, SetOfEmpty DEF Crash
  <2>3. ToSet(queue) \subseteq commits /\ ToSet(queue) \subseteq Changes
    OBVIOUS
  <2>4. QED
    BY <1>10, <2>1, <2>2, <2>3, DropType DEF Crash, InFlight, InHand
<1>11. CASE UNCHANGED vars
  BY <1>11 DEF vars
<1>12. QED
  BY <1>1, <1>2, <1>3, <1>4, <1>5, <1>6, <1>7, <1>8, <1>9, <1>10, <1>11 DEF Next, Writer

THEOREM Invariant == Spec => []IInv
<1>1. Init => IInv
  BY AuditAssumption, SetOfEmpty
     DEF Init, IInv, TrailTypeOK, Honest, Quiet, Idle, TrailTrue,
         LostOnlyByDeath, Unwritten, InHand
<1>2. QED
  BY <1>1, Inductive, PTL DEF Spec

\* The callers, the channel, the writer and its rows keep their types, through
\* dropped requests, aborted loops, lost replies and restarts.
THEOREM TrailTyped == Spec => []TrailTypeOK
  BY Invariant, PTL DEF IInv

\* The trail never tells of a change that was not made.
THEOREM TrailTruth == Spec => []TrailTrue
  BY Invariant, PTL DEF IInv

\* Whatever the order of inserts, retries, shutdowns and crashes, an emitted
\* event is a row, on its way, or was in memory when the process died.
THEOREM EvidenceKept == Spec => []LostOnlyByDeath
  BY Invariant, PTL DEF IInv

\* However a life of the service ends - told to stop, its startup failed, its
\* process dead - no task, change or event of it is left, whatever is cut off.
THEOREM NothingLeft == Spec => []NothingOutlives
<1>1. IInv => NothingOutlives
  BY SetOfEmpty
     DEF IInv, Quiet, Idle, NothingOutlives, InFlight, Unwritten, TrailTypeOK
<1>2. QED
  BY <1>1, Invariant, PTL

\* Short of process death, a service that returned wrote all it emitted.
Flushed == mode = "down" /\ died = {} => ToSet(emitted) \subseteq ToSet(trail)

THEOREM FlushComplete == Spec => []Flushed
<1>1. NothingOutlives /\ LostOnlyByDeath => Flushed
  BY DEF NothingOutlives, LostOnlyByDeath, Flushed
<1>2. QED
  BY <1>1, NothingLeft, EvidenceKept, PTL
=============================================================================
