------------------------ MODULE IngestFunctionProofs ------------------------
(***************************************************************************)
(* Live notifications and backfills converge, for every set of reports,    *)
(* page size, retry limit and set of batches.                              *)
(***************************************************************************)
EXTENDS IngestFunction, FiniteSetTheorems, TLAPS

(***************************************************************************)
(* The strengthening that makes ConvergedWhenQuiet inductive.  An item is  *)
(* waiting while a queued event, the running invocation or the dead-letter *)
(* queue accounts for it.                                                  *)
(***************************************************************************)
ItemType == [source : Source \cup {NoKey}, version : Nat]

S3Events == [kind : {"s3"}, records : Seq(ItemType)]

BackfillEvents ==
  [kind : {"backfill"}, window : Windows, token : Source \cup {NoToken}]

EventType == S3Events \cup BackfillEvents \cup {Unsupported}

TypesOK ==
  /\ StoreTypeOK
  /\ queue \subseteq [event : EventType, attempt : 1 .. MaxRetryAttempts + 1]
  /\ run \in [phase : {"idle", "dispatch", "list", "schedule", "loop"},
              item : [event : EventType, attempt : 0 .. MaxRetryAttempts + 1],
              todo : Seq(ItemType), failed : SUBSET ItemType,
              next : Source \cup {NoToken}]
  /\ sent \in 0 .. MaxSent

(* A backfill with window w passes over s. *)
PassesOver(s, w) == s \in NotCsv \/ (KeyDate[s] # NoDate /\ ~InWindow(s, w))

Covers(e, s) ==
  e.kind = "backfill" /\ Item(s, None) \in ItemsOf(e) /\ ~PassesOver(s, e.window)

Waiting(x) ==
  \/ \E i \in queue : x \in ItemsOf(i.event)
  \/ x \in Unhandled
  \/ \E d \in dlq : x \in d.unhandled

BackfillWaiting(s) ==
  \/ \E i \in queue : Covers(i.event, s)
  \/ Covers(run.item.event, s) /\ Item(s, None) \in Unhandled
  \/ \E d \in dlq : Item(s, None) \in d.unhandled

(* Every live record was sent for a version that exists. *)
RecordsOK(e) ==
  e.kind = "s3" =>
    \A x \in ItemsOf(e) : x.source # NoKey => x.version \in 1 .. raw[x.source]

RecordsInv == RecordsOK(run.item.event) /\ \A i \in queue : RecordsOK(i.event)

(* The page, or the rest of the records, is part of the event. *)
TodoInv ==
  /\ run.failed \subseteq ItemsOf(run.item.event)
  /\ run.phase \in {"schedule", "loop"} =>
       /\ ToSet(run.todo) \subseteq ItemsOf(run.item.event)
       /\ IsBackfill => \A x \in ToSet(run.todo) : x.source \in Source /\ raw[x.source] > 0
  /\ run.phase \in {"list", "schedule"} => IsBackfill
  /\ run.phase = "idle" => run = NoRun

(* What is neither on the page nor passed on to the continuation was not   *)
(* there to be listed.                                                     *)
ScheduleInv ==
  run.phase = "schedule" =>
    \A s \in Source :
      \/ Item(s, None) \notin ItemsOf(run.item.event)
      \/ Item(s, None) \in ToSet(run.todo)
      \/ Item(s, None) \in ItemsOf(Continuation.event)
      \/ raw[s] = 0
      \/ History[s] = 0 /\ seqState[s] < raw[s]

IsNewest(s) == IsPublished(s) /\ view[s].version = raw[s]

(* The call of ProcessCsvAsync is about the first item of the loop. *)
CallInv ==
  op.phase # "idle" =>
    /\ run.phase = "loop" /\ run.todo # <<>>
    /\ Current = Item(op.source, op.version)
    /\ op.sequencer = op.version
    /\ op.version <= raw[op.source]
    /\ op.version = None => Covers(run.item.event, op.source)

LiveCallInv ==
  op.version # None =>
    /\ op.phase \in {"read", "ready", "publishing", "saving"} =>
         op.read = op.version /\ seqState[op.source] < op.version
    /\ op.phase = "saving" =>
         IsPublished(op.source) /\ view[op.source].version = op.version
    /\ op.phase = "done" => op.version <= seqState[op.source]

BackfillCallInv ==
  op.version = None =>
    /\ op.phase \in {"read", "ready", "publishing"} =>
         op.read = raw[op.source] \/ seqState[op.source] < raw[op.source]
    /\ op.phase = "done" =>
         IsNewest(op.source) \/ seqState[op.source] < raw[op.source]
    /\ op.phase # "saving"

SequencersInv == \A s \in Source : seqState[s] <= raw[s] /\ History[s] <= raw[s]

(* The newest version waits until its sequencer is saved. *)
LiveInv ==
  \A s \in Source \ (NotCsv \cup Unnotified) :
    raw[s] > History[s] => seqState[s] = raw[s] \/ Waiting(Item(s, raw[s]))

(* From then on, only a backfill that is still waiting undoes it. *)
NewestInv ==
  \A s \in Source :
    raw[s] > History[s] /\ seqState[s] = raw[s] => IsNewest(s) \/ BackfillWaiting(s)

IsAsked(s) == \E w \in asked : ~PassesOver(s, w)

(* A backfill of s after the attempt that is running, or none to come. *)
BackfillAhead(s) ==
  \/ \E i \in queue : Covers(i.event, s)
  \/ \E d \in dlq : Item(s, None) \in d.unhandled

ShowsTargets(s) == IsPublished(s) /\ view[s].targets = targetList

(* An event that will not be skipped is waiting. *)
LiveWaiting(s) == \E v \in 1 .. raw[s] : v > seqState[s] /\ Waiting(Item(s, v))

(* A source asked for shows the Target List, or will be processed again.   *)
TargetInv ==
  \A s \in Source :
    IsAsked(s) /\ raw[s] > 0 /\ (s \in Unnotified => History[s] > 0) =>
      ShowsTargets(s) \/ BackfillWaiting(s) \/ LiveWaiting(s)

PublicationEnds == op.phase = "saving" \/ (op.phase = "done" /\ op.version = None)

(* The call in progress has read the Target List, or one that changed      *)
(* before the backfill was asked for, which then has yet to run.           *)
TargetCallInv ==
  /\ (op.phase \in {"ready", "publishing"} \/ PublicationEnds) /\ IsAsked(op.source) =>
       op.targets = targetList \/ BackfillAhead(op.source)
  /\ PublicationEnds =>
       IsPublished(op.source) /\ view[op.source].targets = op.targets

IInv ==
  /\ TypesOK
  /\ RecordsInv
  /\ TodoInv
  /\ ScheduleInv
  /\ CallInv
  /\ LiveCallInv
  /\ BackfillCallInv
  /\ SequencersInv
  /\ LiveInv
  /\ NewestInv
  /\ TargetInv
  /\ TargetCallInv
-----------------------------------------------------------------------------
LEMMA ItemsOfEvents ==
  ASSUME NEW e
  PROVE  /\ e.kind = "s3" => ItemsOf(e) = ToSet(e.records)
         /\ e.kind = "backfill" =>
              ItemsOf(e) = {Item(ObjectOrder[i], None) :
                              i \in Position(e.token) + 1 .. Len(ObjectOrder)}
         /\ e.kind = "unsupported" => ItemsOf(e) = {}
<1>1. e.kind = "s3" => ItemsOf(e) = ToSet(e.records)
  BY Zenon DEF ItemsOf
<1>2. e.kind = "backfill" =>
        ItemsOf(e) = {Item(ObjectOrder[i], None) :
                        i \in Position(e.token) + 1 .. Len(ObjectOrder)}
  <2>1. "s3" # "backfill"
    OBVIOUS
  <2> QED
    BY <2>1, Zenon DEF ItemsOf
<1>3. e.kind = "unsupported" => ItemsOf(e) = {}
  <2>1. "s3" # "unsupported" /\ "backfill" # "unsupported"
    OBVIOUS
  <2> QED
    BY <2>1, Zenon DEF ItemsOf
<1> QED
  BY <1>1, <1>2, <1>3

LEMMA KindOfEvent ==
  ASSUME NEW e \in EventType
  PROVE  /\ e.kind \in {"s3", "backfill", "unsupported"}
         /\ e.kind = "s3" => e.records \in Seq(ItemType)
         /\ e.kind = "backfill" =>
              e.window \in Windows /\ e.token \in Source \cup {NoToken}
BY DEF EventType, S3Events, BackfillEvents, Unsupported

LEMMA PositionType ==
  ASSUME NEW token \in Source \cup {NoToken}
  PROVE  Position(token) \in Nat
<1>1. CASE token = NoToken
  BY <1>1 DEF Position
<1>2. CASE token # NoToken
  <2>1. \E i \in DOMAIN ObjectOrder : ObjectOrder[i] = token
    BY <1>2, ObjectOrderAssumption DEF ToSet
  <2>2. Position(token) \in DOMAIN ObjectOrder
    BY <1>2, <2>1 DEF Position
  <2> QED
    BY <2>2, ObjectOrderAssumption
<1> QED
  BY <1>1, <1>2

LEMMA ItemsAreTyped ==
  ASSUME NEW e \in EventType
  PROVE  ItemsOf(e) \subseteq ItemType
<1>2. CASE e.kind = "s3"
  BY <1>2, KindOfEvent, ItemsOfEvents DEF ToSet
<1>3. CASE e.kind = "backfill"
  <2>1. Position(e.token) \in Nat
    BY <1>3, KindOfEvent, PositionType
  <2>2. ASSUME NEW i \in Position(e.token) + 1 .. Len(ObjectOrder)
        PROVE  Item(ObjectOrder[i], None) \in ItemType
    BY <2>1, <2>2, ObjectOrderAssumption DEF Item, ItemType, None
  <2> QED
    BY <1>3, <2>2, ItemsOfEvents
<1>4. CASE e.kind = "unsupported"
  BY <1>4, ItemsOfEvents
<1> QED
  BY <1>2, <1>3, <1>4, KindOfEvent

(* Before the loop an invocation accounts for all of its event. *)
LEMMA UnhandledIsOfEvent ==
  ASSUME TodoInv
  PROVE  Unhandled \subseteq ItemsOf(run.item.event)
BY DEF Unhandled, TodoInv

(* A step that changes no facts and loses no item. *)
LEMMA NothingLost ==
  ASSUME LiveInv, NewestInv, UNCHANGED <<raw, view, seqState>>,
         \A x : Waiting(x) => Waiting(x)',
         \A s \in Source : BackfillWaiting(s) => BackfillWaiting(s)'
  PROVE  LiveInv' /\ NewestInv'
<1>1. LiveInv'
  BY DEF LiveInv
<1>2. NewestInv'
  BY DEF NewestInv, IsNewest, IsPublished
<1> QED
  BY <1>1, <1>2

(* The call in progress, and what holds of its source, are unchanged. *)
LEMMA SameCall ==
  ASSUME LiveCallInv, BackfillCallInv, SequencersInv,
         UNCHANGED <<raw, view, seqState>>, op' = op \/ op'.phase = "idle"
  PROVE  LiveCallInv' /\ BackfillCallInv' /\ SequencersInv'
BY DEF LiveCallInv, BackfillCallInv, SequencersInv, IsNewest, IsPublished

(* A report that shows the Target List goes on to, and one that waits for   *)
(* it goes on waiting.                                                     *)
LEMMA TargetKept ==
  ASSUME TargetInv, UNCHANGED <<raw, targetList, view, seqState, asked>>,
         \A x : Waiting(x) => Waiting(x)',
         \A s \in Source : BackfillWaiting(s) => BackfillWaiting(s)'
  PROVE  TargetInv'
<1> SUFFICES ASSUME NEW s \in Source, IsAsked(s)', raw[s] > 0,
                    s \in Unnotified => History[s] > 0
             PROVE  (ShowsTargets(s) \/ BackfillWaiting(s) \/ LiveWaiting(s))'
  BY DEF TargetInv
<1>1. ShowsTargets(s) \/ BackfillWaiting(s) \/ LiveWaiting(s)
  BY DEF TargetInv, IsAsked, PassesOver
<1>2. CASE LiveWaiting(s)
  <2>1. PICK v \in 1 .. raw[s] : v > seqState[s] /\ Waiting(Item(s, v))
    BY <1>2 DEF LiveWaiting
  <2>2. PICK x : x = Item(s, v)
    OBVIOUS
  <2>3. Waiting(x)'
    BY <2>1, <2>2 DEF Waiting
  <2> QED
    BY <2>1, <2>2, <2>3 DEF LiveWaiting, Waiting
<1> QED
  BY <1>1, <1>2 DEF ShowsTargets, IsPublished

LEMMA TargetCallKept ==
  ASSUME TargetCallInv, op.source \in Source,
         op'.phase = "idle" \/ UNCHANGED <<op, targetList, view, asked>>,
         \A s \in Source : BackfillAhead(s) => BackfillAhead(s)' \/ op'.phase = "idle"
  PROVE  TargetCallInv'
<1>1. CASE op'.phase = "idle"
  BY <1>1 DEF TargetCallInv, PublicationEnds
<1>2. CASE op'.phase # "idle"
  BY <1>2 DEF TargetCallInv, PublicationEnds, IsAsked, PassesOver, IsPublished
<1> QED
  BY <1>1, <1>2

(* An event that is queued accounts for all its items, whatever is running. *)
LEMMA QueuedIsWaiting ==
  ASSUME NEW x, NEW e, NEW n, Attempt(e, n) \in queue', x \in ItemsOf(e)
  PROVE  Waiting(x)'
<1>1. Attempt(e, n).event = e
  BY DEF Attempt
<1> QED
  BY <1>1 DEF Waiting, ItemsOf, Position
-----------------------------------------------------------------------------
LEMMA NoRunType ==
  /\ NoRun.phase = "idle"
  /\ NoRun.item = Attempt(Unsupported, 0)
  /\ NoRun.todo = <<>>
  /\ NoRun.failed = {}
  /\ NoRun.next = NoToken
  /\ NoRun \in [phase : {"idle", "dispatch", "list", "schedule", "loop"},
                item : [event : EventType, attempt : 0 .. MaxRetryAttempts + 1],
                todo : Seq(ItemType), failed : SUBSET ItemType,
                next : Source \cup {NoToken}]
<1>1. Attempt(Unsupported, 0) \in [event : EventType, attempt : 0 .. MaxRetryAttempts + 1]
  BY MaxRetryAttemptsAssumption DEF Attempt, EventType
<1> QED
  BY <1>1 DEF NoRun

LEMMA NoOpType == NoOp \in OpType /\ NoOp.phase = "idle"
<1>1. (CHOOSE s \in Source : TRUE) \in Source
  BY SourceAssumption
<1> QED
  BY <1>1 DEF NoOp, NewOp, OpType, Phase, None

LEMMA InitIInv ==
  ASSUME Init
  PROVE  IInv
<1> USE DEF Init, StoreInit
<1>1. TypesOK
  BY NoRunType, NoOpType, UploadsAssumption, TargetListsAssumption, MaxSentAssumption
     DEF TypesOK, StoreTypeOK, None
<1>2. RecordsInv
  BY NoRunType DEF RecordsInv, RecordsOK, Attempt, Unsupported
<1>3. TodoInv /\ ScheduleInv
  BY NoRunType DEF TodoInv, ScheduleInv
<1>4. CallInv /\ LiveCallInv /\ BackfillCallInv
  BY NoOpType DEF CallInv, LiveCallInv, BackfillCallInv
<1>5. SequencersInv /\ LiveInv /\ NewestInv
  BY UploadsAssumption DEF SequencersInv, LiveInv, NewestInv, None
<1>6. TargetInv /\ TargetCallInv
  BY NoOpType DEF TargetInv, IsAsked, TargetCallInv, PublicationEnds
<1> QED
  BY <1>1, <1>2, <1>3, <1>4, <1>5, <1>6 DEF IInv

(* An attempt that fails, or is killed, leaves its event queued or in the  *)
(* dead-letter queue with what it did not handle.                          *)
LEMMA AttemptEndsIInv ==
  ASSUME IInv, run.phase # "idle", run' = NoRun,
         NEW others \in SUBSET [event : EventType, attempt : 1 .. MaxRetryAttempts + 1],
         \A i \in others : RecordsOK(i.event),
         \/ /\ run.item.attempt <= MaxRetryAttempts
            /\ queue' = queue \cup others
                          \cup {Attempt(run.item.event, run.item.attempt + 1)}
            /\ dlq' = dlq
         \/ /\ queue' = queue \cup others
            /\ dlq' = dlq \cup {[event |-> run.item.event, unhandled |-> Unhandled]},
         UNCHANGED <<raw, targetList, view, seqState, outsideVars>>,
         op' = op \/ op' = NoOp, op'.phase = "idle"
  PROVE  IInv'
<1> USE DEF IInv
<1>1. /\ run' = NoRun
      /\ run.item.event \in EventType
      /\ run.item.attempt \in 0 .. MaxRetryAttempts + 1
  BY DEF TypesOK
<1>2. TypesOK'
  <2>1. StoreTypeOK' /\ sent' \in 0 .. MaxSent
    BY NoOpType DEF TypesOK, StoreTypeOK, outsideVars
  <2>2. queue' \subseteq [event : EventType, attempt : 1 .. MaxRetryAttempts + 1]
    BY <1>1, MaxRetryAttemptsAssumption DEF TypesOK, Attempt
  <2> QED
    BY <1>1, <2>1, <2>2, NoRunType DEF TypesOK
<1>3. RecordsInv'
  <2>1. RecordsOK(run.item.event)' /\ RecordsOK(Unsupported)'
    BY <1>1, NoRunType DEF RecordsInv, RecordsOK, Attempt, Unsupported
  <2>2. \A i \in queue' : RecordsOK(i.event)'
    BY <1>1 DEF RecordsInv, RecordsOK, Attempt
  <2> QED
    BY <1>1, <2>2, NoRunType DEF RecordsInv, RecordsOK, Attempt, Unsupported
<1>4. TodoInv' /\ ScheduleInv' /\ CallInv'
  BY <1>1, NoRunType DEF TodoInv, ScheduleInv, CallInv
<1>5. LiveCallInv' /\ BackfillCallInv' /\ SequencersInv'
  BY SameCall
<1>6. queue \subseteq queue' /\ dlq \subseteq dlq'
  BY <1>1
<1>7. \/ \E i \in queue' : i.event = run.item.event
      \/ \E d \in dlq' : d.unhandled = Unhandled
  <2>1. Attempt(run.item.event, run.item.attempt + 1).event = run.item.event
    BY DEF Attempt
  <2>2. [event |-> run.item.event, unhandled |-> Unhandled].unhandled = Unhandled
    OBVIOUS
  <2> QED
    BY <1>1, <2>1, <2>2
<1>8. ASSUME NEW x, Waiting(x)
      PROVE  Waiting(x)'
  BY <1>6, <1>7, <1>8, UnhandledIsOfEvent, Zenon DEF Waiting
<1>9. ASSUME NEW s \in Source, BackfillWaiting(s)
      PROVE  BackfillWaiting(s)'
  BY <1>6, <1>7, <1>9, Zenon DEF BackfillWaiting, Covers, PassesOver
<1>10. TargetInv' /\ TargetCallInv'
  BY <1>8, <1>9, TargetKept DEF outsideVars, TargetCallInv, PublicationEnds
<1> QED
  BY <1>2, <1>3, <1>4, <1>5, <1>8, <1>9, <1>10, NothingLost

LEMMA AttemptFailsIInv ==
  ASSUME IInv, AttemptFails, run.phase # "idle",
         UNCHANGED <<raw, targetList, view, seqState, outsideVars>>,
         op' = op \/ op' = NoOp, op'.phase = "idle"
  PROVE  IInv'
<1>1. PICK others : others = {}
  OBVIOUS
<1> QED
  BY <1>1, AttemptEndsIInv DEF AttemptFails

(* A backfill that starts at the first page is about every source. *)
LEMMA EverythingIsOfTheFirstEvent ==
  ASSUME NEW e, e.kind = "backfill", e.token = NoToken, NEW s \in Source
  PROVE  Item(s, None) \in ItemsOf(e)
<1>1. PICK i \in DOMAIN ObjectOrder : ObjectOrder[i] = s
  BY ObjectOrderAssumption DEF ToSet
<1>2. i \in 1 .. Len(ObjectOrder) /\ Position(e.token) = 0
  BY ObjectOrderAssumption DEF Position
<1> QED
  BY <1>1, <1>2, ItemsOfEvents

(* What is sent from outside waits in the queue. *)
LEMMA EventSentIInv ==
  ASSUME IInv, NEW e \in EventType, RecordsOK(e),
         queue' = queue \cup {Attempt(e, 1)},
         UNCHANGED <<storeVars, dlq, run>>, sent' \in 0 .. MaxSent,
         asked' = asked \/ \E w : /\ e = BackfillEvent(w, NoToken)
                                  /\ asked' = asked \cup {w}
  PROVE  IInv'
<1> USE DEF IInv, storeVars
<1>1. TypesOK'
  <2>1. Attempt(e, 1) \in [event : EventType, attempt : 1 .. MaxRetryAttempts + 1]
    BY MaxRetryAttemptsAssumption DEF Attempt
  <2> QED
    BY <2>1 DEF TypesOK, StoreTypeOK
<1>2. RecordsInv'
  <2>1. Attempt(e, 1).event = e
    BY DEF Attempt
  <2> QED
    BY <2>1 DEF RecordsInv, RecordsOK
<1>3. TodoInv' /\ ScheduleInv' /\ CallInv'
  BY DEF TodoInv, IsBackfill, ScheduleInv, Continuation, CallInv, Current, Covers, PassesOver
<1>4. LiveCallInv' /\ BackfillCallInv' /\ SequencersInv'
  BY SameCall
<1>5. ASSUME NEW x, Waiting(x)
      PROVE  Waiting(x)'
  BY <1>5 DEF Waiting, Unhandled
<1>6. ASSUME NEW s \in Source, BackfillWaiting(s)
      PROVE  BackfillWaiting(s)'
  BY <1>6 DEF BackfillWaiting, Unhandled, Covers, PassesOver
<1>7. ASSUME NEW s \in Source, IsAsked(s)', ~IsAsked(s)
      PROVE  BackfillAhead(s)' /\ BackfillWaiting(s)'
  <2>1. PICK w : e = BackfillEvent(w, NoToken) /\ ~PassesOver(s, w)
    BY <1>7 DEF IsAsked, PassesOver
  <2>2. e.kind = "backfill" /\ e.window = w /\ e.token = NoToken
    BY <2>1 DEF BackfillEvent
  <2>3. Item(s, None) \in ItemsOf(e)
    BY <2>2, EverythingIsOfTheFirstEvent
  <2>4. Covers(e, s)' /\ Attempt(e, 1).event = e
    BY <2>1, <2>2, <2>3 DEF Covers, PassesOver, Attempt
  <2> QED
    BY <2>4 DEF BackfillAhead, BackfillWaiting
<1>8. TargetInv'
  <2> SUFFICES ASSUME NEW s \in Source, IsAsked(s), raw[s] > 0,
                      s \in Unnotified => History[s] > 0
               PROVE  (ShowsTargets(s) \/ BackfillWaiting(s) \/ LiveWaiting(s))'
    BY <1>7 DEF TargetInv
  <2>1. CASE ShowsTargets(s) \/ BackfillWaiting(s)
    BY <1>6, <2>1 DEF ShowsTargets, IsPublished
  <2>2. CASE LiveWaiting(s)
    BY <1>5, <2>2 DEF LiveWaiting, Waiting, Unhandled
  <2> QED
    BY <2>1, <2>2 DEF TargetInv
<1>9. TargetCallInv'
  <2>1. op.source \in Source
    BY DEF TypesOK, StoreTypeOK, OpType
  <2>2. BackfillAhead(op.source) => BackfillAhead(op.source)'
    BY DEF BackfillAhead, Covers, PassesOver
  <2> QED
    BY <1>7, <2>1, <2>2 DEF TargetCallInv, PublicationEnds, IsPublished
<1> QED
  BY <1>1, <1>2, <1>3, <1>4, <1>5, <1>6, <1>8, <1>9, NothingLost

LEMMA SendIInv ==
  ASSUME IInv,
         \/ \E records \in Batches : SendBatch(records)
         \/ \E w \in Windows : RequestBackfill(w)
         \/ SendUnsupported
  PROVE  IInv'
<1>1. ASSUME NEW e \in EventType, RecordsOK(e), Send(e),
             asked' = asked \/ \E w : /\ e = BackfillEvent(w, NoToken)
                                      /\ asked' = asked \cup {w}
      PROVE  IInv'
  <2>1. sent' \in 0 .. MaxSent
    BY <1>1, MaxSentAssumption DEF Send, IInv, TypesOK
  <2> QED
    BY <1>1, <2>1, EventSentIInv DEF Send
<1>2. ASSUME NEW records \in Batches, SendBatch(records)
      PROVE  IInv'
  <2>1. S3Event(records) \in EventType
    BY BatchesAssumption DEF S3Event, EventType, S3Events, ItemType
  <2>2. RecordsOK(S3Event(records))
    BY <1>2, ItemsOfEvents DEF RecordsOK, S3Event, SendBatch, ToSet
  <2> QED
    BY <1>1, <1>2, <2>1, <2>2 DEF SendBatch
<1>3. ASSUME NEW w \in Windows, RequestBackfill(w)
      PROVE  IInv'
  <2>1. BackfillEvent(w, NoToken) \in EventType /\ RecordsOK(BackfillEvent(w, NoToken))
    BY DEF BackfillEvent, EventType, BackfillEvents, RecordsOK
  <2> QED
    BY <1>1, <1>3, <2>1 DEF RequestBackfill
<1>4. ASSUME SendUnsupported
      PROVE  IInv'
  BY <1>1, <1>4 DEF SendUnsupported, EventType, Unsupported, RecordsOK
<1> QED
  BY <1>2, <1>3, <1>4

LEMMA ChangeTargetsIInv ==
  ASSUME IInv, NEW targets \in TargetLists, ChangeTargets(targets)
  PROVE  IInv'
<1> USE DEF IInv, ChangeTargets, ChangeTargetList, invocationVars
<1>1. TypesOK'
  BY TargetListsAssumption DEF TypesOK, StoreTypeOK
<1>2. RecordsInv' /\ TodoInv' /\ ScheduleInv' /\ CallInv'
  BY DEF RecordsInv, RecordsOK, TodoInv, IsBackfill, ScheduleInv, Continuation, CallInv,
         Current, Covers, PassesOver
<1>3. LiveCallInv' /\ BackfillCallInv' /\ SequencersInv'
  BY SameCall
<1>4. LiveInv' /\ NewestInv'
  BY NothingLost DEF Waiting, BackfillWaiting, Unhandled, Covers, PassesOver
<1>5. TargetInv' /\ TargetCallInv'
  BY DEF TargetInv, TargetCallInv, PublicationEnds, IsAsked, IsPublished
<1> QED
  BY <1>1, <1>2, <1>3, <1>4, <1>5

(* A new version makes its source's saved sequencer old, and waits for its *)
(* notification to be handled.                                             *)
LEMMA UploadReportIInv ==
  ASSUME IInv, NEW u \in Source, UploadReport(u)
  PROVE  IInv'
<1>v. PICK v : v = raw[u] + 1
  OBVIOUS
<1>e. PICK e : e = S3Event(<<Item(u, v)>>)
  OBVIOUS
<1>q. queue' = IF u \in NotCsv \cup Unnotified THEN queue ELSE queue \cup {Attempt(e, 1)}
  BY <1>v, <1>e, Zenon DEF UploadReport
<1>t. raw \in [Source -> Nat] /\ raw[u] \in Nat
  BY DEF IInv, TypesOK, StoreTypeOK
<1>1. /\ raw \in [Source -> Nat]
      /\ raw' = [raw EXCEPT ![u] = v]
      /\ v \in Nat /\ v = raw[u] + 1
      /\ UNCHANGED <<targetList, view, seqState, op, dlq, run, sent>>
      /\ queue \subseteq queue'
      /\ queue' \subseteq queue \cup {Attempt(e, 1)}
      /\ u \notin NotCsv \cup Unnotified => Attempt(e, 1) \in queue'
  BY <1>v, <1>q, <1>t DEF UploadReport, Upload, outsideVars
<1> USE DEF IInv
<1>2. /\ \A s \in Source : raw'[s] \in Nat /\ raw'[s] >= raw[s]
      /\ \A s \in Source : s # u => raw'[s] = raw[s]
      /\ raw'[u] = v
  BY <1>1
<1>3. e \in EventType /\ e.kind = "s3" /\ ItemsOf(e) = {Item(u, v)}
  <2>1. <<Item(u, v)>> \in Seq(ItemType)
    BY <1>1 DEF Item, ItemType
  <2>2. e.kind = "s3" /\ e.records = <<Item(u, v)>>
    BY <1>e DEF S3Event
  <2>3. ToSet(<<Item(u, v)>>) = {Item(u, v)}
    BY DEF ToSet
  <2> QED
    BY <1>e, <2>1, <2>2, <2>3, ItemsOfEvents DEF EventType, S3Events, S3Event
<1>4. Attempt(e, 1).event = e
  BY DEF Attempt
<1>5. TypesOK'
  <2>1. Attempt(e, 1) \in [event : EventType, attempt : 1 .. MaxRetryAttempts + 1]
    BY <1>3, MaxRetryAttemptsAssumption DEF Attempt
  <2> QED
    BY <1>1, <2>1 DEF TypesOK, StoreTypeOK
<1>6. \A s \in Source : seqState[s] \in Nat /\ seqState[s] <= raw'[s]
  BY <1>1, <1>2 DEF SequencersInv, TypesOK, StoreTypeOK
<1>7. seqState[u] < raw'[u]
  BY <1>1, <1>2 DEF SequencersInv, TypesOK, StoreTypeOK
<1>8. RecordsInv'
  <2>1. ASSUME NEW f \in EventType, RecordsOK(f)
        PROVE  RecordsOK(f)'
    <3> SUFFICES ASSUME f.kind = "s3", NEW x \in ItemsOf(f), x.source # NoKey
                 PROVE  x.version \in 1 .. raw'[x.source]
      BY DEF RecordsOK
    <3>1. x.source \in Source /\ x.version \in 1 .. raw[x.source]
      BY <2>1, ItemsAreTyped DEF ItemType, RecordsOK
    <3> QED
      BY <1>1, <1>2, <3>1
  <2>2. RecordsOK(e)'
    BY <1>1, <1>2, <1>3 DEF RecordsOK, Item
  <2>3. RecordsOK(run.item.event)'
    BY <1>1, <2>1 DEF RecordsInv, TypesOK
  <2>4. \A i \in queue' : RecordsOK(i.event)'
    <3> SUFFICES ASSUME NEW i \in queue' PROVE RecordsOK(i.event)'
      OBVIOUS
    <3>1. CASE i \in queue
      BY <2>1, <3>1 DEF RecordsInv, TypesOK
    <3>2. CASE i = Attempt(e, 1)
      BY <1>4, <2>2, <3>2
    <3> QED
      BY <1>1, <3>1, <3>2
  <2> QED
    BY <2>3, <2>4 DEF RecordsInv
<1>9. TodoInv'
  BY <1>1, <1>2 DEF TodoInv, IsBackfill
<1>h. \A s \in Source : History[s] \in Nat /\ History[s] <= raw[s] /\ History[s] <= raw'[s]
  <2>1. \A s \in Source : History[s] \in Nat /\ History[s] <= raw[s]
    BY UploadsAssumption DEF SequencersInv
  <2>2. \A s \in Source : raw[s] \in Nat /\ raw'[s] \in Nat /\ raw[s] <= raw'[s]
    BY <1>2, <1>t
  <2> QED
    BY <2>1, <2>2
<1>a. asked' = asked
  BY DEF UploadReport, outsideVars
<1>10. ScheduleInv'
  <2> SUFFICES ASSUME run.phase = "schedule", NEW s \in Source,
                      Item(s, None) \in ItemsOf(run.item.event),
                      Item(s, None) \notin ToSet(run.todo),
                      Item(s, None) \notin ItemsOf(Continuation.event)
               PROVE  raw'[s] = 0 \/ (History[s] = 0 /\ seqState[s] < raw'[s])
    BY <1>1 DEF ScheduleInv, Continuation
  <2>1. CASE raw[s] = 0
    <3>1. History[s] = 0 /\ seqState[s] = 0
      BY <1>h, <2>1, <1>1 DEF SequencersInv, TypesOK, StoreTypeOK
    <3> QED
      BY <1>1, <1>2, <3>1
  <2>2. CASE History[s] = 0 /\ seqState[s] < raw[s]
    BY <1>1, <1>2, <1>6, <2>2
  <2> QED
    BY <2>1, <2>2 DEF ScheduleInv
<1>11. op.source \in Source /\ op.version \in Nat /\ op.read \in Nat
  BY DEF TypesOK, StoreTypeOK, OpType
<1>12. CallInv'
  BY <1>1, <1>2, <1>11 DEF CallInv, Current, Covers, PassesOver
<1>13. LiveCallInv'
  BY <1>1 DEF LiveCallInv, IsPublished
<1>14. BackfillCallInv'
  <2>1. CASE op.source = u
    BY <1>1, <1>7, <2>1 DEF BackfillCallInv
  <2>2. CASE op.source # u
    BY <1>1, <1>2, <1>11, <2>2 DEF BackfillCallInv, IsNewest, IsPublished
  <2> QED
    BY <2>1, <2>2
<1>15. SequencersInv'
  BY <1>1, <1>6, <1>h DEF SequencersInv
<1>16. \A x : Waiting(x) => Waiting(x)'
  BY <1>1 DEF Waiting, Unhandled
<1>17. \A s \in Source : BackfillWaiting(s) => BackfillWaiting(s)'
  BY <1>1 DEF BackfillWaiting, Unhandled, Covers, PassesOver
<1>18. LiveInv'
  <2> SUFFICES ASSUME NEW s \in Source \ (NotCsv \cup Unnotified), raw'[s] > History[s]
               PROVE  (seqState[s] = raw[s] \/ Waiting(Item(s, raw[s])))'
    BY DEF LiveInv
  <2>1. CASE s = u
    <3>1. Waiting(Item(s, v))'
      BY <1>1, <1>3, <2>1, QueuedIsWaiting
    <3> QED
      BY <1>2, <2>1, <3>1 DEF Waiting
  <2>2. CASE s # u
    <3>1. PICK n : n = raw[s]
      OBVIOUS
    <3>2. raw'[s] = n /\ (seqState[s] = n \/ Waiting(Item(s, n)))
      BY <1>2, <2>2, <3>1 DEF LiveInv, Waiting
    <3> QED
      BY <1>1, <1>16, <3>2 DEF Waiting
  <2> QED
    BY <2>1, <2>2
<1>19. NewestInv'
  <2> SUFFICES ASSUME NEW s \in Source, raw'[s] > History[s], seqState'[s] = raw'[s]
               PROVE  IsNewest(s)' \/ BackfillWaiting(s)'
    BY DEF NewestInv
  <2>1. s # u
    BY <1>1, <1>6, <1>7
  <2> QED
    BY <1>1, <1>2, <1>17, <2>1 DEF NewestInv, IsNewest, IsPublished
<1>20. TargetInv'
  <2> SUFFICES ASSUME NEW s \in Source, IsAsked(s), raw'[s] > 0,
                      s \in Unnotified => History[s] > 0
               PROVE  (ShowsTargets(s) \/ BackfillWaiting(s) \/ LiveWaiting(s))'
    BY <1>1, <1>a DEF TargetInv, IsAsked, PassesOver
  <2>1. CASE s = u /\ raw[s] = 0
    <3>1. u \notin NotCsv \cup Unnotified
      BY <1>h, <2>1 DEF IsAsked, PassesOver
    <3>2. Waiting(Item(s, v))'
      BY <1>1, <1>3, <2>1, <3>1, QueuedIsWaiting
    <3>3. v \in 1 .. raw'[s] /\ v > seqState'[s]
      BY <1>1, <1>2, <1>6, <1>7, <2>1
    <3> QED
      BY <1>2, <3>2, <3>3 DEF LiveWaiting, Waiting
  <2>2. CASE ~(s = u /\ raw[s] = 0)
    <3>1. raw[s] > 0
      BY <1>1, <1>2, <2>2
    <3>2. CASE ShowsTargets(s) \/ BackfillWaiting(s)
      BY <1>1, <1>17, <3>2 DEF ShowsTargets, IsPublished
    <3>3. CASE LiveWaiting(s)
      <4>1. PICK n \in 1 .. raw[s] : n > seqState[s] /\ Waiting(Item(s, n))
        BY <3>3 DEF LiveWaiting
      <4>2. n \in 1 .. raw'[s] /\ Waiting(Item(s, n))'
        BY <1>1, <1>2, <1>16, <4>1 DEF Waiting
      <4> QED
        BY <1>1, <4>1, <4>2 DEF LiveWaiting, Waiting
    <3> QED
      BY <3>1, <3>2, <3>3 DEF TargetInv
  <2> QED
    BY <2>1, <2>2
<1>21. TargetCallInv'
  BY <1>1, <1>11, <1>a, TargetCallKept DEF BackfillAhead, Covers, PassesOver
<1> QED
  BY <1>5, <1>8, <1>9, <1>10, <1>12, <1>13, <1>14, <1>15, <1>18, <1>19, <1>20, <1>21

LEMMA NothingUnhandledIdle ==
  ASSUME TodoInv, run.phase = "idle"
  PROVE  Unhandled = {} /\ ItemsOf(run.item.event) = {}
<1>1. run.item.event = Unsupported
  BY NoRunType DEF TodoInv, Attempt
<1>2. ItemsOf(Unsupported) = {}
  BY ItemsOfEvents DEF Unsupported
<1> QED
  BY <1>1, <1>2, UnhandledIsOfEvent

(* The invocation accounts for the event it takes from the queue. *)
LEMMA StartInvocationIInv ==
  ASSUME IInv, NEW i \in queue, StartInvocation(i)
  PROVE  IInv'
<1> USE DEF IInv, storeVars, outsideVars
<1>1. /\ run'.phase = "dispatch" /\ run'.item = i /\ run'.failed = {}
      /\ run.phase = "idle"
      /\ queue' = queue \ {i}
      /\ UNCHANGED <<storeVars, dlq, outsideVars>>
      /\ i.event \in EventType /\ i.attempt \in 0 .. MaxRetryAttempts + 1
      /\ i \in [event : EventType, attempt : 0 .. MaxRetryAttempts + 1]
  BY NoRunType, MaxRetryAttemptsAssumption DEF StartInvocation, NoRun, TypesOK
<1>2. TypesOK'
  BY <1>1, NoRunType DEF TypesOK, StoreTypeOK, StartInvocation
<1>3. RecordsInv'
  BY <1>1 DEF RecordsInv, RecordsOK
<1>4. TodoInv' /\ ScheduleInv'
  BY <1>1 DEF TodoInv, ScheduleInv
<1>5. op.phase = "idle"
  BY <1>1 DEF CallInv
<1>6. CallInv' /\ LiveCallInv' /\ BackfillCallInv' /\ SequencersInv'
  BY <1>1, <1>5, SameCall DEF CallInv
<1>7. Unhandled' = ItemsOf(i.event)
  BY <1>1 DEF Unhandled
<1>8. ASSUME NEW x, Waiting(x)
      PROVE  Waiting(x)'
  <2>1. CASE x \in ItemsOf(i.event)
    BY <1>7, <2>1 DEF Waiting
  <2>2. CASE x \notin ItemsOf(i.event)
    BY <1>1, <1>8, <2>2, NothingUnhandledIdle DEF Waiting
  <2> QED
    BY <2>1, <2>2
<1>9. ASSUME NEW s \in Source, BackfillWaiting(s)
      PROVE  BackfillWaiting(s)'
  <2>1. CASE Covers(i.event, s)
    BY <1>1, <1>7, <2>1 DEF BackfillWaiting, Covers, PassesOver
  <2>2. CASE ~Covers(i.event, s)
    <3>1. ~Covers(run.item.event, s)
      BY <1>1, NothingUnhandledIdle DEF Covers
    <3> QED
      BY <1>1, <1>9, <2>2, <3>1 DEF BackfillWaiting, Covers, PassesOver
  <2> QED
    BY <2>1, <2>2
<1>10. TargetInv' /\ TargetCallInv'
  BY <1>1, <1>5, <1>8, <1>9, TargetKept DEF TargetCallInv, PublicationEnds
<1> QED
  BY <1>1, <1>2, <1>3, <1>4, <1>6, <1>8, <1>9, <1>10, NothingLost

LEMMA ExpireIInv ==
  ASSUME IInv, NEW i \in queue, Expire(i)
  PROVE  IInv'
<1> USE DEF IInv, storeVars, outsideVars
<1>1. PICK d : d = [event |-> i.event, unhandled |-> ItemsOf(i.event)]
  OBVIOUS
<1>2. /\ queue' = queue \ {i}
      /\ dlq' = dlq \cup {d}
      /\ d.unhandled = ItemsOf(i.event)
      /\ UNCHANGED <<storeVars, run, outsideVars>>
  BY <1>1 DEF Expire
<1>3. TypesOK' /\ RecordsInv'
  BY <1>2 DEF TypesOK, StoreTypeOK, RecordsInv, RecordsOK
<1>4. TodoInv' /\ ScheduleInv' /\ CallInv'
  BY <1>2 DEF TodoInv, IsBackfill, ScheduleInv, Continuation, CallInv, Current, Covers,
              PassesOver
<1>5. LiveCallInv' /\ BackfillCallInv' /\ SequencersInv'
  BY <1>2, SameCall
<1>6. ASSUME NEW x, Waiting(x)
      PROVE  Waiting(x)'
  <2>1. Unhandled' = Unhandled
    BY <1>2 DEF Unhandled
  <2> QED
    BY <1>2, <1>6, <2>1 DEF Waiting
<1>7. ASSUME NEW s \in Source, BackfillWaiting(s)
      PROVE  BackfillWaiting(s)'
  <2>1. Unhandled' = Unhandled
    BY <1>2 DEF Unhandled
  <2> QED
    BY <1>2, <1>7, <2>1 DEF BackfillWaiting, Covers, PassesOver
<1>8. TargetInv'
  BY <1>2, <1>6, <1>7, TargetKept
<1>9. TargetCallInv'
  <2>1. \A s \in Source : BackfillAhead(s) => BackfillAhead(s)'
    BY <1>2 DEF BackfillAhead, Covers, PassesOver
  <2>2. op.source \in Source
    BY DEF TypesOK, StoreTypeOK, OpType
  <2> QED
    BY <1>2, <2>1, <2>2, TargetCallKept
<1> QED
  BY <1>2, <1>3, <1>4, <1>5, <1>6, <1>7, <1>8, <1>9, NothingLost

-----------------------------------------------------------------------------
(* An invocation goes on.  It may leave an item to its continuation, and   *)
(* forget one of a backfill that no longer matters.                        *)
LEMMA RunStepIInv ==
  ASSUME IInv, UNCHANGED <<storeVars, dlq, outsideVars>>, op.phase = "idle",
         queue \subseteq queue', TypesOK', RecordsInv', TodoInv', ScheduleInv',
         run'.item = run.item,
         \A x \in Unhandled :
           \/ x \in Unhandled'
           \/ /\ IsBackfill
              /\ Continuation \in queue'
              /\ x \in ItemsOf(Continuation.event)
           \/ \E s \in Source :
                /\ x = Item(s, None)
                /\ \/ raw[s] = 0
                   \/ History[s] = 0 /\ seqState[s] < raw[s]
                   \/ ~Covers(run.item.event, s)
  PROVE  IInv'
<1> USE DEF IInv, storeVars
<1>1. CallInv' /\ LiveCallInv' /\ BackfillCallInv' /\ SequencersInv'
  BY SameCall DEF CallInv
<1>2. ASSUME NEW s, NEW v, v # 0, Waiting(Item(s, v))
      PROVE  Waiting(Item(s, v))'
  <2>1. PICK x : x = Item(s, v)
    OBVIOUS
  <2>2. \A t \in Source : x # Item(t, None)
    BY <1>2, <2>1 DEF Item, None
  <2>3. Waiting(x)
    BY <1>2, <2>1 DEF Waiting
  <2>4. Waiting(x)'
    BY <2>2, <2>3 DEF Waiting
  <2> QED
    BY <2>1, <2>4 DEF Waiting
<1>3. LiveInv'
  <2> SUFFICES ASSUME NEW s \in Source \ (NotCsv \cup Unnotified), raw[s] > History[s],
                      Waiting(Item(s, raw[s]))
               PROVE  Waiting(Item(s, raw[s]))'
    BY DEF LiveInv
  <2>1. PICK v : v = raw[s] /\ v # 0
    BY UploadsAssumption DEF TypesOK, StoreTypeOK
  <2>2. Waiting(Item(s, v))'
    BY <1>2, <2>1 DEF Waiting
  <2> QED
    BY <2>1, <2>2 DEF Waiting
<1>4. ASSUME NEW s \in Source, BackfillWaiting(s), raw[s] > 0,
             ~(History[s] = 0 /\ seqState[s] < raw[s])
      PROVE  BackfillWaiting(s)'
  <2>1. raw[s] # 0
    BY <1>4
  <2>2. CASE Covers(run.item.event, s) /\ Item(s, None) \in Unhandled
    <3>1. CASE Item(s, None) \in Unhandled'
      BY <2>2, <3>1 DEF BackfillWaiting, Covers, PassesOver
    <3>2. CASE IsBackfill /\ Continuation \in queue'
                 /\ Item(s, None) \in ItemsOf(Continuation.event)
      <4>1. /\ Continuation.event.kind = "backfill"
            /\ Continuation.event.window = run.item.event.window
        BY DEF Continuation, Attempt, BackfillEvent
      <4>2. Covers(Continuation.event, s)
        BY <2>2, <3>2, <4>1 DEF Covers
      <4>3. PICK i \in queue' : Covers(i.event, s)
        BY <3>2, <4>2
      <4> QED
        BY <4>3 DEF BackfillWaiting, Covers, PassesOver
    <3>3. \A t \in Source : Item(s, None) = Item(t, None) => t = s
      BY DEF Item
    <3> QED
      BY <1>4, <2>1, <2>2, <3>1, <3>2, <3>3
  <2>3. CASE ~(Covers(run.item.event, s) /\ Item(s, None) \in Unhandled)
    BY <1>4, <2>3 DEF BackfillWaiting, Covers, PassesOver
  <2> QED
    BY <2>2, <2>3
<1>5. NewestInv'
  <2> SUFFICES ASSUME NEW s \in Source, raw[s] > History[s], seqState[s] = raw[s],
                      BackfillWaiting(s)
               PROVE  BackfillWaiting(s)'
    BY DEF NewestInv, IsNewest, IsPublished
  <2>1. raw[s] > 0 /\ ~(seqState[s] < raw[s])
    BY UploadsAssumption DEF TypesOK, StoreTypeOK
  <2> QED
    BY <1>4, <2>1
<1>6. TargetInv'
  <2> SUFFICES ASSUME NEW s \in Source, IsAsked(s), raw[s] > 0,
                      s \in Unnotified => History[s] > 0,
                      ~ShowsTargets(s)
               PROVE  BackfillWaiting(s)' \/ LiveWaiting(s)'
    BY DEF TargetInv, outsideVars, IsAsked, PassesOver, ShowsTargets, IsPublished
  <2>1. CASE LiveWaiting(s)
    <3>1. PICK v \in 1 .. raw[s] : v > seqState[s] /\ Waiting(Item(s, v))
      BY <2>1 DEF LiveWaiting
    <3>2. Waiting(Item(s, v))'
      BY <1>2, <3>1
    <3> QED
      BY <3>1, <3>2 DEF LiveWaiting, Waiting
  <2>2. CASE ~LiveWaiting(s) /\ History[s] = 0 /\ seqState[s] < raw[s]
    <3>1. PICK v : v = raw[s]
      OBVIOUS
    <3>2. s \notin NotCsv \cup Unnotified /\ v \in 1 .. raw[s] /\ v > seqState[s]
      BY <2>2, <3>1 DEF IsAsked, PassesOver, TypesOK, StoreTypeOK
    <3>3. Waiting(Item(s, v))
      BY <2>2, <3>1, <3>2 DEF LiveInv, TypesOK, StoreTypeOK
    <3> QED
      BY <2>2, <3>2, <3>3 DEF LiveWaiting
  <2>3. CASE ~LiveWaiting(s) /\ ~(History[s] = 0 /\ seqState[s] < raw[s])
    BY <1>4, <2>3 DEF TargetInv
  <2> QED
    BY <2>1, <2>2, <2>3
<1>7. TargetCallInv'
  BY DEF TargetCallInv, PublicationEnds
<1> QED
  BY <1>1, <1>3, <1>5, <1>6, <1>7

LEMMA DispatchIInv ==
  ASSUME IInv, DispatchS3 \/ DispatchBackfill
  PROVE  IInv'
<1> USE DEF IInv, storeVars, outsideVars
<1>1. /\ run.phase = "dispatch"
      /\ run'.item = run.item
      /\ run'.failed = run.failed
      /\ run.item.event \in EventType
      /\ UNCHANGED <<storeVars, queue, dlq, outsideVars>>
      /\ \/ /\ run.item.event.kind = "s3"
            /\ run'.phase = "loop"
            /\ run'.todo = run.item.event.records
         \/ /\ run.item.event.kind = "backfill"
            /\ run'.phase = "list"
  BY DEF DispatchS3, DispatchBackfill, TypesOK
<1>2. op.phase = "idle"
  BY <1>1 DEF CallInv
<1>3. TypesOK'
  BY KindOfEvent DEF TypesOK, StoreTypeOK, DispatchS3, DispatchBackfill
<1>4. RecordsInv'
  BY <1>1 DEF RecordsInv, RecordsOK
<1>5. TodoInv' /\ ScheduleInv'
  BY <1>1, ItemsOfEvents DEF TodoInv, IsBackfill, ScheduleInv
<1>6. Unhandled' = Unhandled
  BY <1>1, <1>5, ItemsOfEvents DEF Unhandled, TodoInv
<1> QED
  BY <1>1, <1>2, <1>3, <1>4, <1>5, <1>6, RunStepIInv

-----------------------------------------------------------------------------
(* A page holds the first objects listed; what comes after its last one is *)
(* listed again after the token that stands for it.                        *)
LEMMA PositionOfSource ==
  ASSUME NEW i \in DOMAIN ObjectOrder
  PROVE  ObjectOrder[i] \in Source /\ Position(ObjectOrder[i]) = i
<1>1. ObjectOrder[i] \in Source /\ ObjectOrder[i] # NoToken
  BY ObjectOrderAssumption, NoKeyAssumption
<1>2. \A j \in DOMAIN ObjectOrder : ObjectOrder[j] = ObjectOrder[i] => j = i
  BY ObjectOrderAssumption DEF IsInjective
<1> QED
  BY <1>1, <1>2 DEF Position

LEMMA RankType ==
  ASSUME NEW token
  PROVE  /\ IsFiniteSet(ListedAfter(token))
         /\ Cardinality(ListedAfter(token)) \in Nat
         /\ ListedAfter(token) \subseteq Nat
         /\ \A i \in ListedAfter(token) :
              Rank(token, i) \in 1 .. Cardinality(ListedAfter(token))
<1>1. DOMAIN ObjectOrder = 1 .. Len(ObjectOrder) /\ Len(ObjectOrder) \in Nat
  BY ObjectOrderAssumption
<1>2. ListedAfter(token) \subseteq 1 .. Len(ObjectOrder)
  BY <1>1 DEF ListedAfter
<1>3. IsFiniteSet(ListedAfter(token))
  <2>1. IsFiniteSet(1 .. Len(ObjectOrder))
    BY <1>1, FS_Interval
  <2> QED
    BY <1>2, <2>1, FS_Subset
<1>4. Cardinality(ListedAfter(token)) \in Nat
  BY <1>3, FS_CardinalityType
<1>5. ASSUME NEW i \in ListedAfter(token)
      PROVE  Rank(token, i) \in 1 .. Cardinality(ListedAfter(token))
  <2> DEFINE upTo == {j \in ListedAfter(token) : j <= i}
  <2>1. IsFiniteSet(upTo) /\ Cardinality(upTo) <= Cardinality(ListedAfter(token))
    BY <1>3, FS_Subset
  <2>2. Cardinality(upTo) \in Nat
    BY <2>1, FS_CardinalityType
  <2>3. i \in upTo
    BY <1>2
  <2>4. Cardinality(upTo) # 0
    BY <2>1, <2>3, FS_EmptySet
  <2> QED
    BY <1>4, <2>1, <2>2, <2>4 DEF Rank
<1> QED
  BY <1>2, <1>3, <1>4, <1>5

LEMMA RankGrows ==
  ASSUME NEW token, NEW i \in ListedAfter(token), NEW j \in ListedAfter(token), i < j
  PROVE  Rank(token, i) < Rank(token, j)
<1> DEFINE upTo(k) == {l \in ListedAfter(token) : l <= k}
<1>1. ListedAfter(token) \subseteq Nat /\ IsFiniteSet(ListedAfter(token))
  BY RankType
<1>2. upTo(i) \subseteq upTo(j) /\ j \in upTo(j) /\ j \notin upTo(i)
  BY <1>1
<1>3. IsFiniteSet(upTo(j)) /\ IsFiniteSet(upTo(i))
  BY <1>1, FS_Subset
<1>4. Cardinality(upTo(i)) <= Cardinality(upTo(j))
      /\ (Cardinality(upTo(i)) = Cardinality(upTo(j)) => upTo(i) = upTo(j))
  BY <1>2, <1>3, FS_Subset
<1>5. Cardinality(upTo(i)) \in Nat /\ Cardinality(upTo(j)) \in Nat
  BY <1>3, FS_CardinalityType
<1>6. Cardinality(upTo(i)) < Cardinality(upTo(j))
  BY <1>2, <1>4, <1>5
<1> QED
  BY <1>6 DEF Rank

(* Every rank is some object's. *)
LEMMA RankIsOnto ==
  ASSUME NEW token, NEW n \in 1 .. Cardinality(ListedAfter(token))
  PROVE  \E i \in ListedAfter(token) : Rank(token, i) = n
<1> DEFINE S == ListedAfter(token)
           f == [i \in S |-> Rank(token, i)]
<1>1. IsFiniteSet(S) /\ S \subseteq Nat /\ Cardinality(S) \in Nat
      /\ \A i \in S : Rank(token, i) \in 1 .. Cardinality(S)
  BY RankType
<1>2. \A i, j \in S : f[i] = f[j] => i = j
  <2> SUFFICES ASSUME NEW i \in S, NEW j \in S, Rank(token, i) = Rank(token, j), i # j
               PROVE  FALSE
    OBVIOUS
  <2>1. CASE i < j
    BY <1>1, <2>1, RankGrows
  <2>2. CASE j < i
    BY <1>1, <2>2, RankGrows
  <2> QED
    BY <1>1, <2>1, <2>2
<1>3. f \in Injection(S, 1 .. Cardinality(S))
  BY <1>1, <1>2 DEF Injection, IsInjective
<1>4. IsFiniteSet(1 .. Cardinality(S)) /\ Cardinality(1 .. Cardinality(S)) = Cardinality(S)
  BY <1>1, FS_Interval
<1>5. f \in Surjection(S, 1 .. Cardinality(S))
  BY <1>3, <1>4, FS_Injection
<1> QED
  BY <1>5 DEF Surjection

LEMMA PageLengthType ==
  ASSUME NEW token
  PROVE  /\ PageLength(token) \in 0 .. Cardinality(ListedAfter(token))
         /\ IsTruncated(token) => PageLength(token) = PageSize /\ PageSize > 0
         /\ ~IsTruncated(token) => PageLength(token) = Cardinality(ListedAfter(token))
<1>1. Cardinality(ListedAfter(token)) \in Nat
  BY RankType
<1> QED
  BY <1>1, PageSizeAssumption DEF PageLength, IsTruncated

LEMMA PageElements ==
  ASSUME NEW token
  PROVE  /\ DOMAIN Page(token) = 1 .. PageLength(token)
         /\ \A n \in 1 .. PageLength(token) :
              \E i \in ListedAfter(token) :
                Page(token)[n] = ObjectOrder[i] /\ Rank(token, i) = n
<1>1. ASSUME NEW n \in 1 .. PageLength(token)
      PROVE  \E i \in ListedAfter(token) :
               Page(token)[n] = ObjectOrder[i] /\ Rank(token, i) = n
  <2>1. n \in 1 .. Cardinality(ListedAfter(token))
    BY PageLengthType, RankType
  <2>2. \E i \in ListedAfter(token) : Rank(token, i) = n
    BY <2>1, RankIsOnto
  <2> DEFINE chosen == CHOOSE i \in ListedAfter(token) : Rank(token, i) = n
  <2>3. chosen \in ListedAfter(token) /\ Rank(token, chosen) = n
    BY <2>2
  <2>4. Page(token)[n] = ObjectOrder[chosen]
    BY DEF Page
  <2> QED
    BY <2>3, <2>4
<1> QED
  BY <1>1 DEF Page

LEMMA PageType ==
  ASSUME NEW token
  PROVE  /\ Page(token) \in Seq(Source)
         /\ Len(Page(token)) = PageLength(token)
<1>1. PageLength(token) \in Nat
  BY PageLengthType, RankType
<1>2. \A n \in 1 .. PageLength(token) : Page(token)[n] \in Source
  <2>1. ListedAfter(token) \subseteq DOMAIN ObjectOrder
    BY DEF ListedAfter
  <2> QED
    BY <2>1, PageElements, PositionOfSource
<1>3. Page(token) \in [1 .. PageLength(token) -> Source]
  BY <1>2 DEF Page
<1> QED
  BY <1>1, <1>3

LEMMA PageHolds ==
  ASSUME NEW token, NEW i \in ListedAfter(token), Rank(token, i) <= PageLength(token)
  PROVE  ObjectOrder[i] \in ToSet(Page(token))
<1>1. Rank(token, i) \in 1 .. PageLength(token)
  BY RankType, PageLengthType
<1>2. PICK j \in ListedAfter(token) :
        Page(token)[Rank(token, i)] = ObjectOrder[j] /\ Rank(token, j) = Rank(token, i)
  BY <1>1, PageElements
<1>3. i = j
  <2>1. i \in Nat /\ j \in Nat /\ Rank(token, i) \in Nat
    BY RankType
  <2>2. ~(i < j) /\ ~(j < i)
    BY <1>2, <2>1, RankGrows
  <2> QED
    BY <2>1, <2>2
<1> QED
  BY <1>1, <1>2, <1>3, PageElements DEF ToSet

LEMMA PageContinues ==
  ASSUME NEW token, IsTruncated(token)
  PROVE  /\ Last(Page(token)) \in Source
         /\ \A i \in ListedAfter(token) :
              Rank(token, i) > PageLength(token) => Position(Last(Page(token))) < i
<1>1. PageLength(token) \in 1 .. PageLength(token)
  BY PageLengthType, PageSizeAssumption
<1>2. PICK k \in ListedAfter(token) :
        Last(Page(token)) = ObjectOrder[k] /\ Rank(token, k) = PageLength(token)
  BY <1>1, PageElements, PageType DEF Last
<1>3. Last(Page(token)) \in Source /\ Position(Last(Page(token))) = k
  BY <1>2, PositionOfSource DEF ListedAfter
<1>4. ASSUME NEW i \in ListedAfter(token), Rank(token, i) > PageLength(token)
      PROVE  k < i
  <2>1. i \in Nat /\ k \in Nat /\ Rank(token, i) \in Nat /\ Rank(token, k) \in Nat
    BY RankType
  <2>2. ~(i < k) /\ i # k
    BY <1>2, <1>4, <2>1, RankGrows
  <2> QED
    BY <2>1, <2>2
<1> QED
  BY <1>3, <1>4

(* The objects of a backfill event are on its page, are passed on, or do   *)
(* not exist.                                                              *)
LEMMA PageOrLater ==
  ASSUME NEW e, NEW s \in Source, e.kind = "backfill",
         e.token \in Source \cup {NoToken}, Item(s, None) \in ItemsOf(e)
  PROVE  \/ s \in ToSet(Page(e.token))
         \/ /\ IsTruncated(e.token)
            /\ \A w : Item(s, None) \in ItemsOf(BackfillEvent(w, Last(Page(e.token))))
         \/ ~(raw[s] > 0)
<1>1. PICK i \in Position(e.token) + 1 .. Len(ObjectOrder) :
        Item(s, None) = Item(ObjectOrder[i], None)
  BY ItemsOfEvents
<1>2. /\ Position(e.token) \in Nat
      /\ i \in DOMAIN ObjectOrder /\ i > Position(e.token) /\ i <= Len(ObjectOrder)
      /\ i \in Nat /\ Len(ObjectOrder) \in Nat
      /\ ObjectOrder[i] = s
  BY <1>1, PositionType, ObjectOrderAssumption DEF Item
<1>3. CASE raw[s] > 0
  <2>1. i \in ListedAfter(e.token)
    BY <1>2, <1>3 DEF ListedAfter
  <2>2. CASE Rank(e.token, i) <= PageLength(e.token)
    BY <1>2, <2>1, <2>2, PageHolds
  <2>3. CASE Rank(e.token, i) > PageLength(e.token)
    <3>1. IsTruncated(e.token)
      BY <2>1, <2>3, PageLengthType, RankType
    <3>2. Position(Last(Page(e.token))) < i /\ Position(Last(Page(e.token))) \in Nat
      BY <2>1, <2>3, <3>1, PageContinues, PositionType
    <3>3. ASSUME NEW w
          PROVE  Item(s, None) \in ItemsOf(BackfillEvent(w, Last(Page(e.token))))
      <4> DEFINE f == BackfillEvent(w, Last(Page(e.token)))
      <4>1. f.kind = "backfill" /\ f.token = Last(Page(e.token))
        BY DEF BackfillEvent
      <4>2. i \in Position(f.token) + 1 .. Len(ObjectOrder)
        BY <1>2, <3>2, <4>1
      <4> QED
        BY <1>2, <4>1, <4>2, ItemsOfEvents
    <3> QED
      BY <3>1, <3>3
  <2>4. Rank(e.token, i) \in Nat /\ PageLength(e.token) \in Nat
    BY <2>1, RankType, PageLengthType
  <2> QED
    BY <2>2, <2>3, <2>4
<1> QED
  BY <1>3

LEMMA ListPageIInv ==
  ASSUME IInv, ListPage
  PROVE  IInv'
<1> USE DEF IInv, storeVars, outsideVars
<1>1. PICK e : e = run.item.event
  OBVIOUS
<1>2. /\ e \in EventType /\ e.kind = "backfill" /\ run.phase = "list"
      /\ e.token \in Source \cup {NoToken}
      /\ UNCHANGED <<storeVars, queue, dlq, outsideVars>>
  BY <1>1, KindOfEvent DEF TypesOK, TodoInv, IsBackfill, ListPage
<1>3. PICK page : page = Page(e.token)
  OBVIOUS
<1>4. page \in Seq(Source) /\ run \in [phase : {"idle", "dispatch", "list", "schedule", "loop"},
              item : [event : EventType, attempt : 0 .. MaxRetryAttempts + 1],
              todo : Seq(ItemType), failed : SUBSET ItemType,
              next : Source \cup {NoToken}]
  BY <1>3, PageType DEF TypesOK
<1>5. PICK items : items = [i \in DOMAIN page |-> Item(page[i], None)]
  OBVIOUS
<1>6. /\ run' = [run EXCEPT !.phase = IF IsTruncated(e.token) THEN "schedule" ELSE "loop",
                           !.todo = items,
                           !.next = IF IsTruncated(e.token) THEN Last(page) ELSE NoToken]
  BY <1>1, <1>3, <1>5, Zenon DEF ListPage
<1>7. /\ run'.phase = IF IsTruncated(e.token) THEN "schedule" ELSE "loop"
      /\ run'.todo = items
      /\ run'.next = IF IsTruncated(e.token) THEN Last(page) ELSE NoToken
      /\ run'.item = run.item
      /\ run'.failed = run.failed
  BY <1>4, <1>6
<1>8. items \in Seq(ItemType) /\ ToSet(items) = {Item(s, None) : s \in ToSet(page)}
  <2>1. DOMAIN page = 1 .. Len(page) /\ Len(page) \in Nat
    BY <1>4
  <2>2. \A i \in 1 .. Len(page) : Item(page[i], None) \in ItemType
    BY <1>4 DEF Item, ItemType, None
  <2>3. items \in [1 .. Len(page) -> ItemType]
    BY <1>5, <2>1, <2>2
  <2>4. items \in Seq(ItemType)
    BY <2>1, <2>3
  <2> QED
    BY <1>5, <2>4 DEF ToSet
<1>9. TypesOK'
  BY <1>2, <1>3, <1>4, <1>6, <1>8, PageContinues DEF TypesOK, StoreTypeOK
<1>10. RecordsInv'
  BY <1>2, <1>7 DEF RecordsInv, RecordsOK
<1>11. \A s \in ToSet(page) : s \in Source /\ raw[s] > 0 /\ Item(s, None) \in ItemsOf(e)
  <2> SUFFICES ASSUME NEW s \in ToSet(page)
               PROVE  s \in Source /\ raw[s] > 0 /\ Item(s, None) \in ItemsOf(e)
    OBVIOUS
  <2>1. PICK n \in 1 .. PageLength(e.token) : page[n] = s
    BY <1>3, PageElements DEF ToSet
  <2>2. PICK i \in ListedAfter(e.token) : s = ObjectOrder[i]
    BY <1>3, <2>1, PageElements
  <2>3. i \in Position(e.token) + 1 .. Len(ObjectOrder) /\ i \in DOMAIN ObjectOrder
    BY <1>2, <2>2, PositionType, ObjectOrderAssumption DEF ListedAfter
  <2>4. raw[s] > 0 /\ s \in Source
    BY <2>2, PositionOfSource DEF ListedAfter
  <2> QED
    BY <1>2, <2>2, <2>3, <2>4, ItemsOfEvents
<1>12. TodoInv'
  <2>1. ToSet(items) \subseteq ItemsOf(e)
    BY <1>8, <1>11
  <2>2. \A x \in ToSet(items) : x.source \in Source /\ raw[x.source] > 0
    BY <1>8, <1>11 DEF Item
  <2> QED
    BY <1>1, <1>2, <1>7, <2>1, <2>2 DEF TodoInv, IsBackfill
<1>13. ASSUME NEW s \in Source, Item(s, None) \in ItemsOf(e)
       PROVE  \/ Item(s, None) \in ToSet(items)
              \/ IsTruncated(e.token) /\ Item(s, None) \in ItemsOf(Continuation.event)'
              \/ raw[s] = 0
  <2>1. raw[s] \in Nat
    BY DEF TypesOK, StoreTypeOK
  <2>2. CASE s \in ToSet(page)
    BY <1>8, <2>2
  <2>3. CASE IsTruncated(e.token)
             /\ \A w : Item(s, None) \in ItemsOf(BackfillEvent(w, Last(Page(e.token))))
    <3>1. PICK w : w = e.window
      OBVIOUS
    <3>2. Continuation.event' = BackfillEvent(w, Last(page))
      BY <1>1, <1>7, <2>3, <3>1 DEF Continuation, Attempt, BackfillEvent
    <3> QED
      BY <1>3, <2>3, <3>2
  <2> QED
    BY <1>2, <1>3, <1>13, <2>1, <2>2, <2>3, PageOrLater
<1>14. ScheduleInv'
  BY <1>1, <1>2, <1>7, <1>13 DEF ScheduleInv
<1>15. op.phase = "idle"
  BY <1>2 DEF CallInv
<1>16. ASSUME NEW x \in Unhandled, x \notin Unhandled'
       PROVE  \E s \in Source : x = Item(s, None) /\ raw[s] = 0
  <2>1. ~IsTruncated(e.token) /\ x \in ItemsOf(e) /\ x \notin ToSet(items)
    BY <1>1, <1>2, <1>7, <1>16, UnhandledIsOfEvent DEF Unhandled
  <2>2. PICK i \in Position(e.token) + 1 .. Len(ObjectOrder) : x = Item(ObjectOrder[i], None)
    BY <1>2, <2>1, ItemsOfEvents
  <2>3. i \in DOMAIN ObjectOrder
    BY <1>2, PositionType, ObjectOrderAssumption
  <2>4. ObjectOrder[i] \in Source
    BY <2>3, PositionOfSource
  <2> QED
    BY <1>13, <2>1, <2>2, <2>4
<1> QED
  BY <1>2, <1>7, <1>9, <1>10, <1>12, <1>14, <1>15, <1>16, RunStepIInv

(* The continuation is queued with everything after the page. *)
LEMMA ContinuationIsTyped ==
  ASSUME IInv, run.phase = "schedule"
  PROVE  /\ Continuation \in [event : EventType, attempt : 1 .. MaxRetryAttempts + 1]
         /\ RecordsOK(Continuation.event)
<1>1. run.item.event.window \in Windows /\ run.next \in Source \cup {NoToken}
  BY KindOfEvent DEF IInv, TypesOK, TodoInv, IsBackfill
<1>2. Continuation.event \in BackfillEvents /\ Continuation.attempt = 1
  BY <1>1 DEF Continuation, Attempt, BackfillEvent, BackfillEvents
<1> QED
  BY <1>2, MaxRetryAttemptsAssumption
     DEF EventType, Continuation, Attempt, RecordsOK, BackfillEvents

LEMMA ScheduleContinuationIInv ==
  ASSUME IInv, ScheduleContinuation
  PROVE  IInv'
<1> USE DEF IInv, storeVars, outsideVars
<1>1. /\ run.phase = "schedule" /\ run'.phase = "loop"
      /\ run'.todo = run.todo /\ run'.item = run.item /\ run'.failed = run.failed
      /\ run'.next = run.next
      /\ queue' = queue \cup {Continuation}
      /\ UNCHANGED <<storeVars, dlq, outsideVars>>
      /\ IsBackfill
  BY DEF ScheduleContinuation, TypesOK, TodoInv
<1>2. TypesOK'
  BY <1>1, ContinuationIsTyped DEF TypesOK, StoreTypeOK, ScheduleContinuation
<1>3. PICK c : c = Continuation
  OBVIOUS
<1>4. RecordsInv'
  <2>1. RecordsOK(c.event) /\ queue' = queue \cup {c}
    BY <1>1, <1>3, ContinuationIsTyped
  <2> QED
    BY <1>1, <2>1 DEF RecordsInv, RecordsOK
<1>5. TodoInv' /\ ScheduleInv'
  BY <1>1 DEF TodoInv, IsBackfill, ScheduleInv
<1>6. op.phase = "idle"
  BY <1>1 DEF CallInv
<1>7. ASSUME NEW x \in Unhandled, x \notin Unhandled'
      PROVE  \/ x \in ItemsOf(Continuation.event)
             \/ \E s \in Source :
                  /\ x = Item(s, None)
                  /\ raw[s] = 0 \/ (History[s] = 0 /\ seqState[s] < raw[s])
  <2>1. x \in ItemsOf(run.item.event) /\ x \notin ToSet(run.todo)
    BY <1>1, <1>7 DEF Unhandled
  <2>2. run.item.event.token \in Source \cup {NoToken}
    BY <1>1, KindOfEvent DEF TypesOK, IsBackfill
  <2>3. PICK i \in Position(run.item.event.token) + 1 .. Len(ObjectOrder) :
          x = Item(ObjectOrder[i], None)
    BY <1>1, <2>1, ItemsOfEvents DEF IsBackfill
  <2>4. i \in DOMAIN ObjectOrder
    BY <2>2, PositionType, ObjectOrderAssumption
  <2>5. ObjectOrder[i] \in Source
    BY <2>4, PositionOfSource
  <2> QED
    BY <1>1, <2>1, <2>3, <2>5 DEF ScheduleInv
<1> QED
  BY <1>1, <1>2, <1>4, <1>5, <1>6, <1>7, RunStepIInv

(* The attempt fails although the continuation was accepted. *)
LEMMA ScheduleTimesOutIInv ==
  ASSUME IInv, ScheduleTimesOut
  PROVE  IInv'
<1>1. op.phase = "idle" /\ run.phase # "idle"
  BY DEF IInv, CallInv, ScheduleTimesOut
<1>2. PICK c : c = Continuation
  OBVIOUS
<1>3. PICK others : others = {c}
  OBVIOUS
<1>4. /\ others \in SUBSET [event : EventType, attempt : 1 .. MaxRetryAttempts + 1]
      /\ \A i \in others : RecordsOK(i.event)
  BY <1>2, <1>3, ContinuationIsTyped DEF ScheduleTimesOut
<1>5. \/ /\ run.item.attempt <= MaxRetryAttempts
         /\ queue' = queue \cup others \cup {Attempt(run.item.event, run.item.attempt + 1)}
         /\ dlq' = dlq
      \/ /\ queue' = queue \cup others
         /\ dlq' = dlq \cup {[event |-> run.item.event, unhandled |-> Unhandled]}
  BY <1>2, <1>3 DEF ScheduleTimesOut
<1> QED
  BY <1>1, <1>4, <1>5, AttemptEndsIInv DEF ScheduleTimesOut, storeVars

LEMMA InvocationFailsIInv ==
  ASSUME IInv, RejectPayload \/ BackfillFailsEarly \/ Kill
  PROVE  IInv'
<1>1. CASE RejectPayload \/ BackfillFailsEarly
  <2>1. op.phase = "idle" /\ run.phase # "idle"
    BY <1>1 DEF IInv, CallInv, RejectPayload, BackfillFailsEarly
  <2> QED
    BY <1>1, <2>1, AttemptFailsIInv DEF RejectPayload, BackfillFailsEarly, storeVars
<1>2. CASE Kill
  BY <1>2, AttemptFailsIInv, NoOpType DEF Kill, Crash, storeVars
<1> QED
  BY <1>1, <1>2

-----------------------------------------------------------------------------
LEMMA HeadAndTail ==
  ASSUME NEW items \in Seq(ItemType), items # <<>>
  PROVE  /\ Head(items) \in ItemType
         /\ Tail(items) \in Seq(ItemType)
         /\ ToSet(items) = {Head(items)} \cup ToSet(Tail(items))
<1>1. /\ Len(items) \in Nat \ {0}
      /\ DOMAIN items = 1 .. Len(items)
      /\ Head(items) = items[1]
      /\ Tail(items) \in Seq(ItemType)
      /\ DOMAIN Tail(items) = 1 .. Len(items) - 1
      /\ \A i \in 1 .. Len(items) - 1 : Tail(items)[i] = items[i + 1]
  OBVIOUS
<1>2. ToSet(items) \subseteq {Head(items)} \cup ToSet(Tail(items))
  <2> SUFFICES ASSUME NEW i \in 1 .. Len(items), i # 1
               PROVE  items[i] \in ToSet(Tail(items))
    BY <1>1 DEF ToSet
  <2>1. i - 1 \in 1 .. Len(items) - 1 /\ items[i] = Tail(items)[i - 1]
    BY <1>1
  <2> QED
    BY <1>1, <2>1 DEF ToSet
<1>3. {Head(items)} \cup ToSet(Tail(items)) \subseteq ToSet(items)
  <2>1. \A i \in 1 .. Len(items) - 1 : i + 1 \in 1 .. Len(items)
    BY <1>1
  <2> QED
    BY <1>1, <2>1 DEF ToSet
<1> QED
  BY <1>1, <1>2, <1>3

(* The first item of the loop belongs to the event. *)
LEMMA CurrentFacts ==
  ASSUME IInv, run.phase = "loop", run.todo # <<>>
  PROVE  /\ Current \in ItemType
         /\ Current \in ItemsOf(run.item.event)
         /\ Current \in Unhandled
         /\ Tail(run.todo) \in Seq(ItemType)
         /\ ToSet(run.todo) = {Current} \cup ToSet(Tail(run.todo))
         /\ IsBackfill => /\ Current.source \in Source
                          /\ Current = Item(Current.source, None)
<1>1. /\ Current \in ItemType
      /\ Tail(run.todo) \in Seq(ItemType)
      /\ ToSet(run.todo) = {Current} \cup ToSet(Tail(run.todo))
  BY HeadAndTail DEF IInv, TypesOK, Current
<1>2. Current \in ItemsOf(run.item.event)
  BY <1>1 DEF IInv, TodoInv
<1>3. Current \in Unhandled
  BY <1>1 DEF Unhandled
<1>4. ASSUME IsBackfill
      PROVE  Current.source \in Source /\ Current = Item(Current.source, None)
  <2>1. PICK i \in Position(run.item.event.token) + 1 .. Len(ObjectOrder) :
          Current = Item(ObjectOrder[i], None)
    BY <1>2, <1>4, ItemsOfEvents DEF IsBackfill
  <2>2. Current.source = ObjectOrder[i]
    BY <2>1 DEF Item
  <2>3. Current.source \in Source
    BY <1>1, <1>4 DEF IInv, TodoInv
  <2> QED
    BY <2>1, <2>2, <2>3
<1> QED
  BY <1>1, <1>2, <1>3, <1>4

LEMMA PassItemIInv ==
  ASSUME IInv, SkipObject \/ InvalidKey
  PROVE  IInv'
<1> USE DEF IInv, storeVars, outsideVars
<1>1. /\ run.phase = "loop" /\ run.todo # <<>> /\ op.phase = "idle"
      /\ run'.phase = "loop" /\ run'.todo = Tail(run.todo) /\ run'.item = run.item
      /\ run'.failed \in {run.failed, run.failed \cup {Current}}
      /\ InvalidKey => run'.failed = run.failed \cup {Current}
      /\ ~InvalidKey => IsSkipped
      /\ UNCHANGED <<storeVars, queue, dlq, outsideVars>>
  BY DEF SkipObject, InvalidKey, InLoop, TypesOK
<1>2. TypesOK'
  <2>1. run' \in [phase : {"idle", "dispatch", "list", "schedule", "loop"},
                  item : [event : EventType, attempt : 0 .. MaxRetryAttempts + 1],
                  todo : Seq(ItemType), failed : SUBSET ItemType,
                  next : Source \cup {NoToken}]
    BY <1>1, CurrentFacts DEF SkipObject, InvalidKey, TypesOK
  <2> QED
    BY <1>1, <2>1 DEF TypesOK, StoreTypeOK
<1>3. RecordsInv'
  BY <1>1 DEF RecordsInv, RecordsOK
<1>4. TodoInv' /\ ScheduleInv'
  BY <1>1, CurrentFacts DEF TodoInv, IsBackfill, ScheduleInv
<1>5. ASSUME NEW x \in Unhandled, x \notin Unhandled'
      PROVE  \E s \in Source : x = Item(s, None) /\ ~Covers(run.item.event, s)
  <2>1. x = Current /\ IsSkipped
    BY <1>1, <1>5, CurrentFacts DEF Unhandled
  <2>2. /\ Current.source \in Source
        /\ Current = Item(Current.source, None)
        /\ ~Covers(run.item.event, Current.source)
    BY <1>1, <2>1, CurrentFacts DEF IsSkipped, Covers, PassesOver
  <2> QED
    BY <2>1, <2>2
<1> QED
  BY <1>1, <1>2, <1>3, <1>4, <1>5, RunStepIInv

(* An invocation without a failed item ends. *)
LEMMA EndLoopIInv ==
  ASSUME IInv, EndLoop
  PROVE  IInv'
<1> USE DEF IInv, storeVars, outsideVars
<1>1. run.phase = "loop" /\ run.todo = <<>> /\ op.phase = "idle"
  BY DEF EndLoop, CallInv
<1>2. CASE run.failed # {}
  BY <1>1, <1>2, AttemptFailsIInv DEF EndLoop
<1>3. CASE run.failed = {}
  <2>1. run' = NoRun /\ UNCHANGED <<storeVars, queue, dlq, outsideVars>>
    BY <1>3 DEF EndLoop
  <2>2. Unhandled = {}
    BY <1>1, <1>3 DEF Unhandled, ToSet
  <2>3. TypesOK'
    BY <2>1, NoRunType DEF TypesOK, StoreTypeOK
  <2>4. RecordsInv'
    BY <2>1, NoRunType DEF RecordsInv, RecordsOK, Attempt, Unsupported
  <2>5. TodoInv' /\ ScheduleInv' /\ CallInv'
    BY <1>1, <2>1, NoRunType DEF TodoInv, ScheduleInv, CallInv
  <2>6. LiveCallInv' /\ BackfillCallInv' /\ SequencersInv'
    BY <2>1, SameCall
  <2>7. \A x : Waiting(x) => Waiting(x)'
    BY <2>1, <2>2 DEF Waiting
  <2>8. \A s \in Source : BackfillWaiting(s) => BackfillWaiting(s)'
    BY <2>1, <2>2 DEF BackfillWaiting, Covers, PassesOver
  <2>9. TargetInv' /\ TargetCallInv'
    BY <1>1, <2>1, <2>7, <2>8, TargetKept DEF TargetCallInv, PublicationEnds
  <2> QED
    BY <2>1, <2>3, <2>4, <2>5, <2>6, <2>7, <2>8, <2>9, NothingLost
<1> QED
  BY <1>2, <1>3

LEMMA CallProcessCsvIInv ==
  ASSUME IInv, CallProcessCsv
  PROVE  IInv'
<1> USE DEF IInv, invocationVars, outsideVars
<1>1. /\ run.phase = "loop" /\ run.todo # <<>> /\ op.phase = "idle"
      /\ op' = NewOp(Current.source, Current.version, Current.version)
      /\ UNCHANGED <<raw, targetList, view, seqState, queue, dlq, run, asked, sent>>
      /\ ~IsSkipped /\ ~IsInvalid
  BY DEF CallProcessCsv, InLoop, Call
<1>2. Current \in ItemType /\ Current \in ItemsOf(run.item.event)
  BY <1>1, CurrentFacts
<1>3. /\ Current.source \in Source
      /\ Current.version <= raw[Current.source]
      /\ Current.version = None => Covers(run.item.event, Current.source)
  <2>1. CASE IsBackfill
    <3>1. Current.source \in Source /\ Current = Item(Current.source, None)
      BY <1>1, <2>1, CurrentFacts
    <3>2. Current.version = 0 /\ raw[Current.source] \in Nat
      BY <3>1 DEF Item, None, TypesOK, StoreTypeOK
    <3>3. Covers(run.item.event, Current.source)
      BY <1>1, <1>2, <2>1, <3>1 DEF Covers, PassesOver, IsSkipped, IsBackfill
    <3> QED
      BY <3>1, <3>2, <3>3
  <2>2. CASE ~IsBackfill
    <3>1. run.item.event.kind = "s3"
      <4>1. run.item.event.kind # "unsupported"
        BY <1>2, ItemsOfEvents
      <4> QED
        BY <2>2, <4>1, KindOfEvent DEF IsBackfill, TypesOK
    <3>2. Current.source \in Source /\ Current.source # NoKey
      BY <1>1, <1>2, <2>2, NoKeyAssumption DEF IsInvalid, ItemType
    <3>3. Current.version \in 1 .. raw[Current.source]
      BY <1>2, <3>1, <3>2 DEF RecordsInv, RecordsOK
    <3> QED
      BY <3>2, <3>3 DEF None, TypesOK, StoreTypeOK
  <2> QED
    BY <2>1, <2>2
<1>4. /\ op'.phase = "called" /\ op'.source = Current.source
      /\ op'.version = Current.version /\ op'.sequencer = Current.version
      /\ op' \in OpType
  BY <1>1, <1>2, <1>3 DEF NewOp, OpType, Phase, ItemType, None
<1>5. TypesOK'
  BY <1>1, <1>4 DEF TypesOK, StoreTypeOK
<1>6. RecordsInv' /\ TodoInv' /\ ScheduleInv'
  BY <1>1 DEF RecordsInv, RecordsOK, TodoInv, IsBackfill, ScheduleInv, Continuation
<1>7. CallInv'
  <2>1. Current' = Item(op'.source, op'.version)
    BY <1>1, <1>2, <1>4 DEF Current, Item, ItemType
  <2> QED
    BY <1>1, <1>3, <1>4, <2>1 DEF CallInv, Covers, PassesOver
<1>8. LiveCallInv' /\ BackfillCallInv'
  BY <1>4 DEF LiveCallInv, BackfillCallInv
<1>9. SequencersInv'
  BY <1>1 DEF SequencersInv
<1>10. /\ \A x : Waiting(x) => Waiting(x)'
       /\ \A s \in Source : BackfillWaiting(s) => BackfillWaiting(s)'
  BY <1>1 DEF Waiting, BackfillWaiting, Unhandled, Covers, PassesOver
<1>11. LiveInv' /\ NewestInv' /\ TargetInv'
  BY <1>1, <1>10, NothingLost, TargetKept
<1>12. TargetCallInv'
  BY <1>4 DEF TargetCallInv, PublicationEnds
<1> QED
  BY <1>5, <1>6, <1>7, <1>8, <1>9, <1>11, <1>12

-----------------------------------------------------------------------------
(* What a step of ProcessCsvAsync leaves alone.                            *)
LEMMA CallStepFrame ==
  ASSUME IInv, CallStep
  PROVE  /\ UNCHANGED <<raw, targetList, queue, dlq, run, asked, sent>>
         /\ op \in OpType /\ op' \in OpType
         /\ op.source \in Source
         /\ op.phase # "idle"
         /\ op'.source = op.source /\ op'.version = op.version
         /\ op'.sequencer = op.sequencer
         /\ op.sequencer = op.version
         /\ op.version <= raw[op.source]
         /\ raw \in [Source -> Nat] /\ seqState \in [Source -> Nat]
         /\ view \in [Source -> Generation \cup {Nothing, Partial}]
         /\ targetList \in SUBSET User
<1> USE DEF IInv, TypesOK, StoreTypeOK, CallStep, invocationVars, outsideVars, OpType, Phase
<1>1. op.phase # "idle"
  BY DEF Step, Skip, ReadVersion, ReadTargetList, FailUntouched, Touch, Complete,
         FailClosed, FailPartial, Save, SaveFails
<1>2. CASE Skip \/ FailUntouched \/ Touch \/ FailClosed \/ FailPartial
           \/ Save \/ \E saved \in BOOLEAN : SaveFails(saved)
  BY <1>1, <1>2 DEF CallInv, Skip, FailUntouched, Touch, FailClosed, FailPartial, Save, SaveFails
<1>3. CASE Complete
  BY <1>1, <1>3 DEF CallInv, Complete
<1>4. CASE ReadVersion
  BY <1>1, <1>4 DEF CallInv, ReadVersion, None
<1>5. CASE ReadTargetList
  BY <1>1, <1>5 DEF CallInv, ReadTargetList
<1> QED
  BY <1>2, <1>3, <1>4, <1>5 DEF Step

(* The backfill item being processed is waiting. *)
LEMMA BackfillCallWaits ==
  ASSUME IInv, op.phase # "idle", op.version = None
  PROVE  Covers(run.item.event, op.source) /\ Item(op.source, None) \in Unhandled
<1>1. /\ run.phase = "loop" /\ run.todo # <<>>
      /\ Current = Item(op.source, None)
      /\ Covers(run.item.event, op.source)
  BY DEF IInv, CallInv
<1> QED
  BY <1>1, CurrentFacts

(* The invariant of the invocation does not depend on the facts, except    *)
(* through saved sequencers.                                               *)
LEMMA CallStepKeepsRun ==
  ASSUME IInv, CallStep
  PROVE  RecordsInv' /\ TodoInv' /\ ScheduleInv' /\ CallInv'
         /\ (\A x : Waiting(x)' <=> Waiting(x))
         /\ (\A s \in Source : BackfillWaiting(s)' <=> BackfillWaiting(s))
         /\ (\A s \in Source : BackfillAhead(s)' <=> BackfillAhead(s))
         /\ (\A s \in Source : IsAsked(s)' <=> IsAsked(s))
<1>1. run.phase = "loop"
  BY CallStepFrame DEF IInv, CallInv
<1>2. RecordsInv' /\ TodoInv' /\ ScheduleInv'
  BY <1>1, CallStepFrame DEF IInv, RecordsInv, RecordsOK, TodoInv, IsBackfill, ScheduleInv
<1>3. CallInv'
  BY CallStepFrame DEF IInv, CallInv, Current, Covers, PassesOver
<1>4. \A x : Waiting(x)' <=> Waiting(x)
  BY CallStepFrame DEF Waiting, Unhandled
<1>5. \A s \in Source : BackfillWaiting(s)' <=> BackfillWaiting(s)
  BY CallStepFrame DEF BackfillWaiting, Unhandled, Covers, PassesOver
<1>6. \A s \in Source : (BackfillAhead(s)' <=> BackfillAhead(s)) /\ (IsAsked(s)' <=> IsAsked(s))
  BY CallStepFrame DEF BackfillAhead, IsAsked, Covers, PassesOver
<1> QED
  BY <1>2, <1>3, <1>4, <1>5, <1>6

(* Steps that read, and failures, change no facts. *)
LEMMA ReadStepIInv ==
  ASSUME IInv, CallStep, Skip \/ ReadVersion \/ ReadTargetList \/ FailUntouched \/ FailPartial
  PROVE  IInv'
<1> USE DEF IInv
<1>1. UNCHANGED <<raw, view, seqState>>
  BY DEF Skip, ReadVersion, ReadTargetList, FailUntouched, FailPartial
<1>2. TypesOK'
  BY <1>1, CallStepFrame DEF TypesOK, StoreTypeOK
<1>3. LiveInv' /\ NewestInv'
  BY <1>1, CallStepKeepsRun, NothingLost
<1>4. SequencersInv'
  BY <1>1 DEF SequencersInv
<1>5. op.version \in Nat /\ raw[op.source] \in Nat /\ seqState[op.source] \in Nat
  BY CallStepFrame DEF OpType
<1>6. LiveCallInv' /\ BackfillCallInv'
  <2>1. CASE Skip
    <3>1. op'.phase = "done" /\ op.version # None /\ op.version <= seqState[op.source]
      BY <2>1, CallStepFrame DEF Skip, IsStale, OpType
    <3> QED
      BY <1>1, <3>1, CallStepFrame DEF LiveCallInv, BackfillCallInv
  <2>2. CASE ReadVersion
    <3>1. /\ op'.phase = "read"
          /\ op'.read = IF op.version = None THEN raw[op.source] ELSE op.version
          /\ op.version # None => seqState[op.source] < op.version
      BY <1>5, <2>2, CallStepFrame DEF ReadVersion, IsStale, OpType
    <3> QED
      BY <1>1, <3>1, CallStepFrame DEF LiveCallInv, BackfillCallInv
  <2>3. CASE ReadTargetList
    <3>1. op'.phase = "ready" /\ op'.read = op.read /\ op.phase = "read"
      BY <2>3, CallStepFrame DEF ReadTargetList, OpType
    <3> QED
      BY <1>1, <3>1, CallStepFrame DEF LiveCallInv, BackfillCallInv
  <2>4. CASE FailUntouched \/ FailPartial
    <3>1. op'.phase = "failed"
      BY <2>4, CallStepFrame DEF FailUntouched, FailPartial, OpType
    <3> QED
      BY <3>1 DEF LiveCallInv, BackfillCallInv
  <2> QED
    BY <2>1, <2>2, <2>3, <2>4
<1>7. TargetInv'
  BY <1>1, CallStepFrame, CallStepKeepsRun, TargetKept
<1>8. TargetCallInv'
  <2>1. CASE ReadTargetList
    <3>1. op'.phase = "ready" /\ op'.targets = targetList'
      BY <2>1, CallStepFrame DEF ReadTargetList, OpType
    <3> QED
      BY <3>1 DEF TargetCallInv, PublicationEnds
  <2>2. CASE ~ReadTargetList
    <3>1. op'.phase \in {"read", "failed"} \/ (op'.phase = "done" /\ op'.version # None)
      BY <2>2, CallStepFrame DEF Skip, IsStale, ReadVersion, FailUntouched, FailPartial, OpType
    <3> QED
      BY <3>1 DEF TargetCallInv, PublicationEnds
  <2> QED
    BY <2>1, <2>2
<1> QED
  BY <1>2, <1>3, <1>4, <1>6, <1>7, <1>8, CallStepKeepsRun

(* A live call publishes only while its version is newer than the saved    *)
(* sequencer, and a backfill item is waiting until its call has returned.  *)
LEMMA PublishStepIInv ==
  ASSUME IInv, CallStep, Touch \/ Complete \/ FailClosed
  PROVE  IInv'
<1> USE DEF IInv
<1>1. /\ UNCHANGED <<raw, seqState>>
      /\ op.phase \in {"ready", "publishing"}
      /\ \A s \in Source \ {op.source} : view'[s] = view[s]
      /\ view' \in [Source -> Generation \cup {Nothing, Partial}]
  BY CallStepFrame DEF Touch, Complete, FailClosed, Generation, OpType
<1>2. TypesOK'
  BY <1>1, CallStepFrame DEF TypesOK, StoreTypeOK
<1>3. SequencersInv'
  BY <1>1 DEF SequencersInv
<1>4. LiveInv'
  BY <1>1, CallStepFrame, CallStepKeepsRun DEF LiveInv, Waiting, Unhandled
<1>5. op.version \in Nat /\ op.read \in Nat
  BY CallStepFrame DEF OpType
<1>6. Complete => IsPublished(op.source)' /\ view'[op.source].version = op.read
  <2> SUFFICES ASSUME Complete
               PROVE  IsPublished(op.source)' /\ view'[op.source].version = op.read
    OBVIOUS
  <2>1. view'[op.source] = [version |-> op.read, targets |-> op.targets]
    BY CallStepFrame DEF Complete
  <2>2. [version |-> op.read, targets |-> op.targets] \in Generation
    BY CallStepFrame DEF OpType, Generation
  <2> QED
    BY <2>1, <2>2, ViewAssumption, CallStepFrame DEF IsPublished
<1>7. op.version # None => op.read = op.version /\ seqState[op.source] < op.version
  BY <1>1 DEF LiveCallInv
<1>8. op.version = None =>
        op.read = raw[op.source] \/ seqState[op.source] < raw[op.source]
  BY <1>1 DEF BackfillCallInv
<1>9. /\ op'.phase \in {"publishing", "saving", "done", "failed"}
      /\ op'.phase = "publishing" => op'.read = op.read
      /\ op'.phase = "saving" => Complete /\ op.version # None
      /\ op'.phase = "done" => Complete /\ op.version = None
  BY CallStepFrame DEF Touch, Complete, FailClosed, OpType
<1>10. op'.phase = "saving" => op'.read = op.read
  BY CallStepFrame DEF Touch, Complete, FailClosed, OpType
<1>11. LiveCallInv'
  BY <1>1, <1>6, <1>7, <1>9, <1>10, CallStepFrame DEF LiveCallInv, IsPublished
<1>12. BackfillCallInv'
  BY <1>1, <1>6, <1>8, <1>9, CallStepFrame DEF BackfillCallInv, IsNewest, IsPublished
<1>13. NewestInv'
  <2> SUFFICES ASSUME NEW s \in Source, raw[s] > History[s], seqState[s] = raw[s]
               PROVE  IsNewest(s)' \/ BackfillWaiting(s)'
    BY <1>1 DEF NewestInv
  <2>1. CASE s # op.source
    BY <1>1, <2>1, CallStepKeepsRun DEF NewestInv, IsNewest, IsPublished
  <2>2. CASE s = op.source
    <3>1. op.version = None
      BY <1>5, <1>7, <2>2, CallStepFrame
    <3>2. BackfillWaiting(s)
      BY <2>2, <3>1, CallStepFrame, BackfillCallWaits DEF BackfillWaiting
    <3> QED
      BY <3>2, CallStepKeepsRun
  <2> QED
    BY <2>1, <2>2
<1>14. TargetInv'
  <2> SUFFICES ASSUME NEW s \in Source, IsAsked(s), raw[s] > 0,
                      s \in Unnotified => History[s] > 0
               PROVE  (ShowsTargets(s) \/ BackfillWaiting(s) \/ LiveWaiting(s))'
    BY <1>1, CallStepKeepsRun DEF TargetInv
  <2>1. LiveWaiting(s) => LiveWaiting(s)'
    BY <1>1, CallStepFrame, CallStepKeepsRun DEF LiveWaiting, Waiting, Unhandled
  <2>2. CASE s # op.source
    BY <1>1, <2>1, <2>2, CallStepFrame, CallStepKeepsRun
       DEF TargetInv, ShowsTargets, IsPublished
  <2>3. CASE s = op.source /\ op.version = None
    <3>1. BackfillWaiting(s)
      BY <2>3, CallStepFrame, BackfillCallWaits DEF BackfillWaiting
    <3> QED
      BY <3>1, CallStepKeepsRun
  <2>4. CASE s = op.source /\ op.version # None
    <3>1. op.version \in 1 .. raw[s] /\ op.version > seqState[s]
      BY <1>5, <1>7, <2>4, CallStepFrame DEF None
    <3>2. Waiting(Item(s, op.version))
      BY <2>4, CallStepFrame, CurrentFacts DEF CallInv, Waiting
    <3> QED
      BY <2>1, <3>1, <3>2 DEF LiveWaiting
  <2> QED
    BY <2>2, <2>3, <2>4
<1>15. TargetCallInv'
  <2>1. op'.targets = op.targets
    BY CallStepFrame DEF Touch, Complete, FailClosed, OpType
  <2>2. IsAsked(op.source) => op.targets = targetList \/ BackfillAhead(op.source)
    BY <1>1 DEF TargetCallInv
  <2>3. Complete => view'[op.source].targets = op.targets
    BY CallStepFrame DEF Complete
  <2>4. PublicationEnds' => Complete
    BY <1>9 DEF PublicationEnds
  <2> QED
    BY <1>6, <2>1, <2>2, <2>3, <2>4, CallStepFrame, CallStepKeepsRun DEF TargetCallInv, IsPublished
<1> QED
  BY <1>2, <1>3, <1>4, <1>11, <1>12, <1>13, <1>14, <1>15, CallStepKeepsRun

(* A sequencer is saved for facts that are published. *)
LEMMA SaveStepIInv ==
  ASSUME IInv, CallStep, Save \/ \E saved \in BOOLEAN : SaveFails(saved)
  PROVE  IInv'
<1> USE DEF IInv
<1>1. /\ UNCHANGED <<raw, view>>
      /\ op.phase = "saving" /\ op'.phase \in {"done", "failed"}
      /\ \/ seqState' = [seqState EXCEPT ![op.source] = op.version]
         \/ seqState' = seqState /\ op'.phase = "failed"
  BY CallStepFrame DEF Save, SaveFails, OpType
<1>2. /\ op.version # None /\ op.version \in Nat
      /\ seqState[op.source] < op.version
      /\ IsPublished(op.source) /\ view[op.source].version = op.version
  BY <1>1, CallStepFrame DEF LiveCallInv, BackfillCallInv, OpType
<1>3. \A s \in Source \ {op.source} : seqState'[s] = seqState[s]
  BY <1>1, CallStepFrame
<1>4. seqState'[op.source] \in {seqState[op.source], op.version}
      /\ (op'.phase = "done" => seqState'[op.source] = op.version)
  BY <1>1, CallStepFrame
<1>5. TypesOK'
  BY <1>1, <1>2, CallStepFrame DEF TypesOK, StoreTypeOK
<1>6. SequencersInv'
  BY <1>1, <1>3, <1>4, CallStepFrame DEF SequencersInv
<1>7. LiveCallInv' /\ BackfillCallInv'
  BY <1>1, <1>2, <1>4, CallStepFrame DEF LiveCallInv, BackfillCallInv
<1>8. LiveInv'
  <2> SUFFICES ASSUME NEW s \in Source \ (NotCsv \cup Unnotified), raw[s] > History[s],
                      seqState'[s] # raw[s]
               PROVE  Waiting(Item(s, raw[s]))'
    BY <1>1 DEF LiveInv
  <2>1. seqState[s] # raw[s]
    BY <1>2, <1>3, <1>4, CallStepFrame
  <2>2. PICK x : x = Item(s, raw[s])
    OBVIOUS
  <2>3. Waiting(x)
    BY <2>1, <2>2 DEF LiveInv, Waiting
  <2>4. Waiting(x)'
    BY <2>3, CallStepKeepsRun
  <2> QED
    BY <1>1, <2>2, <2>4 DEF Waiting
<1>9. NewestInv'
  <2> SUFFICES ASSUME NEW s \in Source, raw[s] > History[s], seqState'[s] = raw[s]
               PROVE  IsNewest(s)' \/ BackfillWaiting(s)'
    BY <1>1 DEF NewestInv
  <2>1. CASE seqState[s] = raw[s]
    BY <1>1, <2>1, CallStepKeepsRun DEF NewestInv, IsNewest, IsPublished
  <2>2. CASE seqState[s] # raw[s]
    <3>1. s = op.source /\ raw[s] = op.version
      BY <1>3, <1>4, <2>2
    <3> QED
      BY <1>1, <1>2, <3>1 DEF IsNewest, IsPublished
  <2> QED
    BY <2>1, <2>2
<1>10. TargetInv'
  <2> SUFFICES ASSUME NEW s \in Source, IsAsked(s), raw[s] > 0,
                      s \in Unnotified => History[s] > 0
               PROVE  (ShowsTargets(s) \/ BackfillWaiting(s) \/ LiveWaiting(s))'
    BY <1>1, CallStepKeepsRun DEF TargetInv
  <2>1. CASE s = op.source
    <3>1. IsPublished(s) /\ view[s].targets = op.targets
          /\ (op.targets = targetList \/ BackfillAhead(s))
      BY <1>1, <2>1 DEF TargetCallInv, PublicationEnds
    <3>2. BackfillAhead(s) => BackfillWaiting(s)
      BY DEF BackfillAhead, BackfillWaiting
    <3> QED
      BY <1>1, <3>1, <3>2, CallStepFrame, CallStepKeepsRun DEF ShowsTargets, IsPublished
  <2>2. CASE s # op.source
    <3>1. LiveWaiting(s) => LiveWaiting(s)'
      BY <1>1, <1>3, <2>2, CallStepKeepsRun DEF LiveWaiting, Waiting, Unhandled
    <3>2. ShowsTargets(s) => ShowsTargets(s)'
      BY <1>1, CallStepFrame DEF ShowsTargets, IsPublished
    <3> QED
      BY <3>1, <3>2, CallStepKeepsRun DEF TargetInv
  <2> QED
    BY <2>1, <2>2
<1>11. TargetCallInv'
  <2>1. ~PublicationEnds' /\ op'.phase \notin {"ready", "publishing"}
    BY <1>1, <1>2, CallStepFrame DEF PublicationEnds
  <2> QED
    BY <2>1 DEF TargetCallInv
<1> QED
  BY <1>5, <1>6, <1>7, <1>8, <1>9, <1>10, <1>11, CallStepKeepsRun

(* A call that returns has published its item, or the item has failed.     *)
LEMMA CallReturnsIInv ==
  ASSUME IInv, CallReturns
  PROVE  IInv'
<1> USE DEF IInv, outsideVars
<1>1. /\ op.phase \in {"done", "failed"} /\ op' = NoOp
      /\ UNCHANGED <<raw, targetList, view, seqState, queue, dlq, asked, sent>>
      /\ run.phase = "loop" /\ run.todo # <<>>
      /\ Current = Item(op.source, op.version)
  BY DEF CallReturns, Return, CallInv
<1>2. /\ run'.phase = "loop" /\ run'.todo = Tail(run.todo) /\ run'.item = run.item
      /\ run'.failed = IF op.phase = "failed" THEN run.failed \cup {Current}
                       ELSE run.failed
      /\ run' \in [phase : {"idle", "dispatch", "list", "schedule", "loop"},
                   item : [event : EventType, attempt : 0 .. MaxRetryAttempts + 1],
                   todo : Seq(ItemType), failed : SUBSET ItemType,
                   next : Source \cup {NoToken}]
  BY <1>1, CurrentFacts DEF CallReturns, TypesOK
<1>3. TypesOK'
  BY <1>1, <1>2, NoOpType DEF TypesOK, StoreTypeOK
<1>4. RecordsInv'
  BY <1>1, <1>2 DEF RecordsInv, RecordsOK
<1>5. TodoInv' /\ ScheduleInv'
  BY <1>1, <1>2, CurrentFacts DEF TodoInv, IsBackfill, ScheduleInv
<1>6. CallInv' /\ LiveCallInv' /\ BackfillCallInv' /\ SequencersInv'
  BY <1>1, NoOpType, SameCall DEF CallInv
<1>7. op.source \in Source /\ op.version \in Nat
  BY DEF TypesOK, StoreTypeOK, OpType
<1>8. ASSUME NEW x \in Unhandled, x \notin Unhandled'
      PROVE  x = Item(op.source, op.version) /\ op.phase = "done"
  BY <1>1, <1>2, <1>8, CurrentFacts DEF Unhandled
<1>9. LiveInv'
  <2> SUFFICES ASSUME NEW s \in Source \ (NotCsv \cup Unnotified), raw[s] > History[s],
                      seqState[s] # raw[s]
               PROVE  Waiting(Item(s, raw[s]))'
    BY <1>1 DEF LiveInv
  <2>1. PICK x : x = Item(s, raw[s])
    OBVIOUS
  <2>2. Waiting(x)
    BY <2>1 DEF LiveInv, Waiting
  <2>3. Waiting(x)'
    <3>1. CASE x \in Unhandled /\ x \notin Unhandled'
      <4>1. op.source = s /\ op.version = raw[s] /\ op.phase = "done"
        BY <1>8, <2>1, <3>1 DEF Item
      <4>2. raw[s] \in Nat /\ raw[s] # None /\ seqState[s] \in Nat /\ seqState[s] <= raw[s]
        BY UploadsAssumption DEF TypesOK, StoreTypeOK, SequencersInv, None
      <4> QED
        BY <4>1, <4>2 DEF LiveCallInv
    <3>2. CASE ~(x \in Unhandled /\ x \notin Unhandled')
      BY <1>1, <2>2, <3>2 DEF Waiting
    <3> QED
      BY <3>1, <3>2
  <2> QED
    BY <1>1, <2>1, <2>3 DEF Waiting
<1>10. NewestInv'
  <2> SUFFICES ASSUME NEW s \in Source, raw[s] > History[s], seqState[s] = raw[s],
                      ~IsNewest(s), BackfillWaiting(s)
               PROVE  BackfillWaiting(s)'
    BY <1>1 DEF NewestInv, IsNewest, IsPublished
  <2>1. CASE Item(s, None) \in Unhandled /\ Item(s, None) \notin Unhandled'
    <3>1. op.source = s /\ op.version = None /\ op.phase = "done"
      BY <1>8, <2>1 DEF Item
    <3>2. ~(seqState[s] < raw[s])
      BY DEF TypesOK, StoreTypeOK
    <3> QED
      BY <3>1, <3>2 DEF BackfillCallInv
  <2>2. CASE ~(Item(s, None) \in Unhandled /\ Item(s, None) \notin Unhandled')
    BY <1>1, <1>2, <2>2 DEF BackfillWaiting, Covers, PassesOver
  <2> QED
    BY <2>1, <2>2
<1>11. TargetInv'
  <2> SUFFICES ASSUME NEW s \in Source, IsAsked(s), raw[s] > 0,
                      s \in Unnotified => History[s] > 0
               PROVE  (ShowsTargets(s) \/ BackfillWaiting(s) \/ LiveWaiting(s))'
    BY <1>1 DEF TargetInv, IsAsked, PassesOver
  <2>1. ShowsTargets(s) => ShowsTargets(s)'
    BY <1>1 DEF ShowsTargets, IsPublished
  <2>2. BackfillAhead(s) => BackfillWaiting(s)'
    BY <1>1 DEF BackfillAhead, BackfillWaiting, Covers, PassesOver
  <2>3. CASE LiveWaiting(s)
    <3>1. PICK v \in 1 .. raw[s] : v > seqState[s] /\ Waiting(Item(s, v))
      BY <2>3 DEF LiveWaiting
    <3>2. PICK x : x = Item(s, v)
      OBVIOUS
    <3>3. Waiting(x)
      BY <3>1, <3>2 DEF Waiting
    <3>4. CASE x \in Unhandled /\ x \notin Unhandled'
      <4>1. op.source = s /\ op.version = v /\ op.phase = "done" /\ v # None
        BY <1>8, <3>1, <3>2, <3>4 DEF Item, None
      <4>2. v <= seqState[s]
        BY <4>1 DEF LiveCallInv
      <4>3. seqState[s] \in Nat
        BY DEF TypesOK, StoreTypeOK
      <4> QED
        BY <3>1, <4>2, <4>3
    <3>5. CASE ~(x \in Unhandled /\ x \notin Unhandled')
      <4>1. Waiting(x)'
        BY <1>1, <3>3, <3>5 DEF Waiting
      <4> QED
        BY <1>1, <3>1, <3>2, <4>1 DEF LiveWaiting, Waiting
    <3> QED
      BY <3>4, <3>5
  <2>4. CASE BackfillWaiting(s)
    <3>1. CASE Item(s, None) \in Unhandled /\ Item(s, None) \notin Unhandled'
      <4>1. op.source = s /\ op.version = None /\ op.phase = "done"
        BY <1>8, <3>1 DEF Item
      <4>2. ShowsTargets(s) \/ BackfillAhead(s)
        BY <4>1 DEF TargetCallInv, PublicationEnds, ShowsTargets
      <4> QED
        BY <2>1, <2>2, <4>2
    <3>2. CASE ~(Item(s, None) \in Unhandled /\ Item(s, None) \notin Unhandled')
      BY <1>1, <1>2, <2>4, <3>2 DEF BackfillWaiting, Covers, PassesOver
    <3> QED
      BY <3>1, <3>2
  <2> QED
    BY <2>1, <2>3, <2>4 DEF TargetInv
<1>12. TargetCallInv'
  BY <1>1, NoOpType DEF TargetCallInv, PublicationEnds
<1> QED
  BY <1>3, <1>4, <1>5, <1>6, <1>9, <1>10, <1>11, <1>12

LEMMA StutteringIInv ==
  ASSUME IInv, UNCHANGED vars
  PROVE  IInv'
<1> USE DEF IInv, vars
<1>1. TypesOK' /\ RecordsInv' /\ TodoInv' /\ ScheduleInv'
  BY DEF TypesOK, StoreTypeOK, RecordsInv, RecordsOK, TodoInv, IsBackfill, ScheduleInv,
         Continuation
<1>2. CallInv'
  BY DEF CallInv, Current, Covers, PassesOver
<1>3. LiveCallInv' /\ BackfillCallInv' /\ SequencersInv'
  BY SameCall
<1>4. /\ \A x : Waiting(x) => Waiting(x)'
      /\ \A s \in Source : BackfillWaiting(s) => BackfillWaiting(s)'
      /\ \A s \in Source : BackfillAhead(s) => BackfillAhead(s)'
  BY DEF Waiting, BackfillWaiting, BackfillAhead, Unhandled, Covers, PassesOver
<1>5. LiveInv' /\ NewestInv' /\ TargetInv'
  BY <1>4, NothingLost, TargetKept
<1>6. TargetCallInv'
  <2>1. op.source \in Source
    BY DEF TypesOK, StoreTypeOK, OpType
  <2> QED
    BY <1>4, <2>1, TargetCallKept
<1> QED
  BY <1>1, <1>2, <1>3, <1>5, <1>6

LEMMA NextIInv ==
  ASSUME IInv, [Next]_vars
  PROVE  IInv'
<1>1. CASE Outside
  BY <1>1, UploadReportIInv, ChangeTargetsIInv, SendIInv DEF Outside
<1>2. ASSUME NEW i \in queue, StartInvocation(i) \/ Expire(i)
      PROVE  IInv'
  BY <1>2, StartInvocationIInv, ExpireIInv
<1>3. CASE CallStep
  <2>1. CASE Skip \/ ReadVersion \/ ReadTargetList \/ FailUntouched \/ FailPartial
    BY <1>3, <2>1, ReadStepIInv
  <2>2. CASE Touch \/ Complete \/ FailClosed
    BY <1>3, <2>2, PublishStepIInv
  <2>3. CASE Save \/ \E saved \in BOOLEAN : SaveFails(saved)
    BY <1>3, <2>3, SaveStepIInv
  <2> QED
    BY <1>3, <2>1, <2>2, <2>3 DEF CallStep, Step
<1>4. CASE Invocation /\ ~CallStep
  BY <1>4, DispatchIInv, InvocationFailsIInv, ListPageIInv, ScheduleContinuationIInv,
     ScheduleTimesOutIInv, PassItemIInv, CallProcessCsvIInv, CallReturnsIInv, EndLoopIInv
     DEF Invocation
<1>5. CASE UNCHANGED vars
  BY <1>5, StutteringIInv
<1> QED
  BY <1>1, <1>2, <1>3, <1>4, <1>5 DEF Next

(* Every item S3 or an operator ever sent is published, still queued or    *)
(* being processed, or in the dead-letter queue: no order of events,       *)
(* failures, retries, kills and continuations loses one.                   *)
THEOREM EveryItemIsAccountedFor == Spec => []IInv
<1>1. Init => IInv
  BY InitIInv
<1>2. IInv /\ [Next]_vars => IInv'
  BY NextIInv
<1> QED
  BY <1>1, <1>2, PTL DEF Spec

(* The state is well typed: an attempt never has a number above the        *)
(* configured retries plus one, and ProcessCsvAsync runs only for an item  *)
(* of a loop.                                                              *)
THEOREM TypesAreCorrect == Spec => []TypeOK
<1>1. IInv => TypeOK
  BY DEF IInv, TypesOK, CallInv, TypeOK
<1> QED
  BY <1>1, EveryItemIsAccountedFor, PTL

(* Live and backfill overlap converge for every set of reports, page size, *)
(* retry limit and set of batches: when nothing is queued or running, a    *)
(* report uploaded since the deployment is published completely and in its *)
(* newest version, or the dead-letter queue accounts for it.               *)
THEOREM LiveAndBackfillConverge == Spec => []ConvergedWhenQuiet
<1>1. ASSUME IInv
      PROVE  ConvergedWhenQuiet
  <2> SUFFICES ASSUME Quiet, NEW s \in Source \ (NotCsv \cup Unnotified),
                      raw[s] > History[s], ~GivenUp(s)
               PROVE  IsNewest(s)
    BY DEF ConvergedWhenQuiet, IsNewest
  <2>1. queue = {} /\ Unhandled = {}
    BY <1>1, NothingUnhandledIdle DEF Quiet, IInv
  <2>2. \A d \in dlq : Item(s, None) \notin d.unhandled /\ Item(s, raw[s]) \notin d.unhandled
    BY DEF GivenUp
  <2>3. seqState[s] = raw[s]
    BY <1>1, <2>1, <2>2 DEF IInv, LiveInv, Waiting
  <2>4. ~BackfillWaiting(s)
    BY <2>1, <2>2 DEF BackfillWaiting
  <2> QED
    BY <1>1, <2>3, <2>4 DEF IInv, NewestInv
<1> QED
  BY <1>1, EveryItemIsAccountedFor, PTL

(* A Target List change reaches every report, for any order of the keys,   *)
(* any page size, window and retry limit: when nothing is queued or        *)
(* running, a report in the window of a backfill requested since the       *)
(* change shows the users of the new list, or the dead-letter queue        *)
(* accounts for it.                                                        *)
THEOREM TargetListReachesEveryReport == Spec => []BackfillAppliesTargetList
<1>1. ASSUME IInv
      PROVE  BackfillAppliesTargetList
  <2> SUFFICES ASSUME Quiet, NEW w \in asked, NEW s \in Source \ NotCsv, raw[s] > 0,
                      s \in Unnotified => History[s] > 0,
                      KeyDate[s] # NoDate => InWindow(s, w), ~LeftOver(s)
               PROVE  ShowsTargets(s)
    BY DEF BackfillAppliesTargetList, ShowsTargets
  <2>1. queue = {} /\ Unhandled = {}
    BY <1>1, NothingUnhandledIdle DEF Quiet, IInv
  <2>2. IsAsked(s)
    BY DEF IsAsked, PassesOver
  <2>3. ~BackfillWaiting(s)
    <3>1. Item(s, None).source = s /\ Item(s, None).version = None
      BY DEF Item
    <3> QED
      BY <2>1, <3>1 DEF BackfillWaiting, LeftOver
  <2>4. ~LiveWaiting(s)
    <3> SUFFICES ASSUME NEW v \in 1 .. raw[s], v > seqState[s], Waiting(Item(s, v))
                 PROVE  FALSE
      BY DEF LiveWaiting
    <3>1. Item(s, v).source = s /\ Item(s, v).version = v
      BY DEF Item
    <3>2. PICK x : x = Item(s, v)
      OBVIOUS
    <3>3. \E d \in dlq : x \in d.unhandled
      BY <2>1, <3>2 DEF Waiting
    <3> QED
      BY <3>1, <3>2, <3>3 DEF LeftOver
  <2> QED
    BY <1>1, <2>2, <2>3, <2>4 DEF IInv, TargetInv
<1> QED
  BY <1>1, EveryItemIsAccountedFor, PTL

(* What is called belongs to the loop: a version that exists, or a listed  *)
(* object.                                                                 *)
LEMMA CallIsFactStoreCall ==
  ASSUME IInv, CallProcessCsv
  PROVE  StoreNext
<1> USE DEF IInv
<1>1. /\ Call(Current.source, Current.version, Current.version)
      /\ op' = NewOp(Current.source, Current.version, Current.version)
      /\ run.phase = "loop" /\ run.todo # <<>>
      /\ UNCHANGED <<raw, run>>
      /\ ~IsInvalid
  BY DEF CallProcessCsv, InLoop, Call, invocationVars
<1>2. Current \in ItemType /\ Current \in ItemsOf(run.item.event)
      /\ Current \in {Current} \cup ToSet(Tail(run.todo))
      /\ ToSet(run.todo) = {Current} \cup ToSet(Tail(run.todo))
  BY <1>1, CurrentFacts
<1>3. CASE IsBackfill
  <2>1. Current.source \in Source /\ Current = Item(Current.source, None)
    BY <1>1, <1>3, CurrentFacts
  <2>2. raw[Current.source] > 0
    BY <1>1, <1>2, <1>3 DEF TodoInv
  <2>3. Current.version = None
    BY <2>1 DEF Item
  <2> QED
    BY <1>1, <2>1, <2>2, <2>3 DEF StoreNext
<1>4. CASE ~IsBackfill
  <2>1. run.item.event.kind = "s3"
    <3>1. run.item.event.kind # "unsupported"
      BY <1>2, ItemsOfEvents
    <3> QED
      BY <1>4, <3>1, KindOfEvent DEF IsBackfill, TypesOK
  <2>2. Current.source \in Source /\ Current.source # NoKey
    BY <1>1, <1>2, <1>4, NoKeyAssumption DEF IsInvalid, ItemType
  <2>3. Current.version \in 1 .. raw[Current.source]
    BY <1>2, <2>1, <2>2 DEF RecordsInv, RecordsOK
  <2> QED
    BY <1>1, <2>2, <2>3 DEF StoreNext
<1> QED
  BY <1>3, <1>4

(* Whatever events, windows and listings say, ProcessCsvAsync is called    *)
(* for one report at a time and only for versions that exist, and nothing  *)
(* but its own steps changes the facts: the steps of the function are      *)
(* steps of FactStore.                                                     *)
THEOREM FunctionUsesFactStore == Spec => CallsAreFactStoreCalls
<1>1. Init => StoreInit
  BY DEF Init
<1>2. ASSUME IInv, [Next]_vars
      PROVE  [StoreNext]_storeVars
  <2>1. CASE Outside
    <3>1. ASSUME NEW s \in Source, UploadReport(s)
          PROVE  StoreNext
      BY <3>1 DEF UploadReport, StoreNext
    <3>2. ASSUME NEW targets \in TargetLists, ChangeTargets(targets)
          PROVE  StoreNext
      BY <3>2 DEF ChangeTargets, StoreNext
    <3>3. CASE \/ \E records \in Batches : SendBatch(records)
               \/ \E w \in Windows : RequestBackfill(w)
               \/ SendUnsupported
      BY <3>3 DEF SendBatch, RequestBackfill, SendUnsupported, Send
    <3> QED
      BY <2>1, <3>1, <3>2, <3>3 DEF Outside
  <2>2. ASSUME NEW i \in queue, StartInvocation(i) \/ Expire(i)
        PROVE  UNCHANGED storeVars
    BY <2>2 DEF StartInvocation, Expire
  <2>3. CASE Invocation
    <3>1. CASE CallProcessCsv
      BY <1>2, <3>1, CallIsFactStoreCall
    <3>2. CASE CallStep \/ CallReturns
      BY <3>2 DEF CallStep, CallReturns, StoreNext
    <3>3. CASE Kill
      BY <3>3 DEF Kill, StoreNext
    <3>4. CASE \/ DispatchS3 \/ DispatchBackfill \/ RejectPayload \/ ListPage
               \/ ScheduleContinuation \/ BackfillFailsEarly \/ ScheduleTimesOut
               \/ SkipObject \/ InvalidKey \/ EndLoop
      BY <3>4 DEF DispatchS3, DispatchBackfill, RejectPayload, ListPage, EndLoop,
         ScheduleContinuation, BackfillFailsEarly, ScheduleTimesOut, SkipObject, InvalidKey
    <3> QED
      BY <2>3, <3>1, <3>2, <3>3, <3>4 DEF Invocation
  <2>4. CASE UNCHANGED vars
    BY <2>4 DEF vars, storeVars
  <2> QED
    BY <1>2, <2>1, <2>2, <2>3, <2>4 DEF Next
<1> QED
  BY <1>1, <1>2, EveryItemIsAccountedFor, PTL DEF Spec, StoreSpec, CallsAreFactStoreCalls

-----------------------------------------------------------------------------
(* While a continuation is to be scheduled, it starts after the page.      *)
ScheduleAhead ==
  run.phase = "schedule" => Position(run.item.event.token) < Position(run.next)

LEMMA PageIsAhead ==
  ASSUME NEW token \in Source \cup {NoToken}, IsTruncated(token)
  PROVE  Position(token) < Position(Last(Page(token)))
<1>1. PageLength(token) \in 1 .. PageLength(token)
  BY PageLengthType, PageSizeAssumption
<1>2. PICK k \in ListedAfter(token) : Last(Page(token)) = ObjectOrder[k]
  BY <1>1, PageElements, PageType DEF Last
<1>3. Position(Last(Page(token))) = k /\ k > Position(token)
  BY <1>2, PositionOfSource DEF ListedAfter
<1> QED
  BY <1>3, PositionType

LEMMA ScheduleAheadKept ==
  ASSUME IInv, ScheduleAhead, [Next]_vars
  PROVE  ScheduleAhead'
<1>1. CASE ListPage
  <2> DEFINE token == run.item.event.token
  <2>1. token \in Source \cup {NoToken}
    BY <1>1, KindOfEvent DEF IInv, TypesOK, TodoInv, IsBackfill, ListPage
  <2>2. run'.item = run.item
    BY <1>1 DEF ListPage, IInv, TypesOK
  <2>3. run'.phase = "schedule" => IsTruncated(token) /\ run'.next = Last(Page(token))
    BY <1>1 DEF ListPage, IInv, TypesOK
  <2> QED
    BY <2>1, <2>2, <2>3, PageIsAhead DEF ScheduleAhead, Position
<1>2. CASE UNCHANGED run
  BY <1>2 DEF ScheduleAhead, Position
<1>3. CASE run'.phase # "schedule"
  BY <1>3 DEF ScheduleAhead
<1>4. ListPage \/ UNCHANGED run \/ run'.phase # "schedule"
  <2>1. CASE Outside
    BY <2>1 DEF Outside, UploadReport, ChangeTargets, SendBatch, RequestBackfill,
       SendUnsupported, Send, invocationVars
  <2>2. ASSUME NEW i \in queue, StartInvocation(i) \/ Expire(i)
        PROVE  UNCHANGED run \/ run'.phase # "schedule"
    BY <2>2, NoRunType DEF StartInvocation, Expire
  <2>3. CASE UNCHANGED vars
    BY <2>3 DEF vars
  <2>4. CASE Invocation
    <3>1. CASE RejectPayload \/ BackfillFailsEarly \/ ScheduleTimesOut \/ Kill \/ EndLoop
      BY <3>1, NoRunType
         DEF RejectPayload, BackfillFailsEarly, ScheduleTimesOut, Kill, EndLoop, AttemptFails
    <3>2. CASE DispatchS3 \/ DispatchBackfill \/ ScheduleContinuation
      BY <3>2 DEF DispatchS3, DispatchBackfill, ScheduleContinuation, IInv, TypesOK
    <3>3. CASE SkipObject \/ InvalidKey
      BY <3>3 DEF SkipObject, InvalidKey, InLoop, IInv, TypesOK
    <3>4. CASE CallReturns
      <4>1. run.phase = "loop"
        BY <3>4 DEF CallReturns, Return, IInv, CallInv
      <4> QED
        BY <3>4, <4>1 DEF CallReturns, IInv, TypesOK
    <3>5. CASE CallProcessCsv \/ CallStep
      BY <3>5 DEF CallProcessCsv, CallStep, invocationVars
    <3> QED
      BY <2>4, <3>1, <3>2, <3>3, <3>4, <3>5 DEF Invocation
  <2> QED
    BY <2>1, <2>2, <2>3, <2>4 DEF Next
<1> QED
  BY <1>1, <1>2, <1>3, <1>4

LEMMA RetryFollows ==
  ASSUME IInv, run.item.attempt <= MaxRetryAttempts
  PROVE  LET i == Attempt(run.item.event, run.item.attempt + 1)
         IN  Follows(i, run.item) /\ i.attempt <= MaxRetryAttempts + 1
  BY MaxRetryAttemptsAssumption DEF IInv, TypesOK, Follows, Attempt

LEMMA ContinuationFollows ==
  ASSUME IInv, ScheduleAhead, run.phase = "schedule"
  PROVE  Follows(Continuation, run.item) /\ Continuation.attempt <= MaxRetryAttempts + 1
<1>1. /\ Continuation.attempt = 1
      /\ Continuation.event.kind = "backfill"
      /\ Continuation.event.window = run.item.event.window
      /\ Continuation.event.token = run.next
  BY DEF Continuation, Attempt, BackfillEvent
<1>2. run.item.event.kind = "backfill"
  BY DEF IInv, TodoInv, IsBackfill
<1> QED
  BY <1>1, <1>2, MaxRetryAttemptsAssumption DEF Follows, ScheduleAhead

(* Retries and continuations do not breed, for any listing, page size and  *)
(* retry limit: an attempt that neither S3 nor anyone outside sent is the  *)
(* next one at the running event, within the limit, or a backfill of the   *)
(* same window from a strictly later key on.                               *)
THEOREM ChainsOfEventsEnd == Spec => EventsDoNotBreed
<1>1. Init => ScheduleAhead
  BY NoRunType DEF Init, ScheduleAhead
<1>2. IInv /\ ScheduleAhead /\ [Next]_vars => ScheduleAhead'
  BY ScheduleAheadKept
<1>3. ASSUME IInv, ScheduleAhead, [Next]_vars, NEW i \in queue' \ queue, UNCHANGED <<raw, sent>>
      PROVE  Follows(i, run.item) /\ i.attempt <= MaxRetryAttempts + 1
  <2>1. CASE Outside
    <3>1. ASSUME NEW s \in Source
          PROVE  ~UploadReport(s)
      BY <1>3 DEF UploadReport, Upload, IInv, TypesOK, StoreTypeOK
    <3>2. ASSUME NEW e
          PROVE  ~Send(e)
      BY <1>3 DEF Send, IInv, TypesOK
    <3>3. PICK targets \in TargetLists : ChangeTargets(targets)
      BY <2>1, <3>1, <3>2 DEF Outside, SendBatch, RequestBackfill, SendUnsupported
    <3> QED
      BY <1>3, <3>3 DEF ChangeTargets, invocationVars
  <2>2. ASSUME NEW j \in queue, StartInvocation(j) \/ Expire(j)
        PROVE  FALSE
    BY <1>3, <2>2 DEF StartInvocation, Expire
  <2>3. CASE UNCHANGED vars
    BY <1>3, <2>3 DEF vars
  <2>4. CASE Invocation
    <3>1. CASE AttemptFails
      BY <1>3, <3>1, RetryFollows DEF AttemptFails
    <3>2. CASE UNCHANGED queue
      BY <1>3, <3>2
    <3>3. CASE ScheduleContinuation
      BY <1>3, <3>3, ContinuationFollows DEF ScheduleContinuation
    <3>4. CASE ScheduleTimesOut
      <4>1. run.phase = "schedule"
        BY <3>4 DEF ScheduleTimesOut
      <4>2. \/ i = Continuation
            \/ /\ run.item.attempt <= MaxRetryAttempts
               /\ i = Attempt(run.item.event, run.item.attempt + 1)
        BY <1>3, <3>4 DEF ScheduleTimesOut
      <4> QED
        BY <1>3, <4>1, <4>2, RetryFollows, ContinuationFollows
    <3>5. CASE RejectPayload \/ BackfillFailsEarly \/ Kill \/ EndLoop
      BY <3>1, <3>2, <3>5 DEF RejectPayload, BackfillFailsEarly, Kill, EndLoop
    <3>6. CASE \/ DispatchS3 \/ DispatchBackfill \/ ListPage \/ SkipObject
               \/ InvalidKey \/ CallProcessCsv \/ CallStep \/ CallReturns
      BY <3>2, <3>6 DEF DispatchS3, DispatchBackfill, ListPage, SkipObject, InvalidKey,
         CallProcessCsv, CallStep, CallReturns, invocationVars
    <3> QED
      BY <2>4, <3>3, <3>4, <3>5, <3>6 DEF Invocation
  <2> QED
    BY <1>3, <2>1, <2>2, <2>3, <2>4 DEF Next
<1>4. IInv /\ ScheduleAhead /\ [Next]_vars
        => [\A i \in queue' \ queue :
              UNCHANGED <<raw, sent>> =>
                Follows(i, run.item) /\ i.attempt <= MaxRetryAttempts + 1]_vars
  BY <1>3
<1> QED
  BY <1>1, <1>2, <1>4, EveryItemIsAccountedFor, PTL DEF Spec, EventsDoNotBreed
=============================================================================
