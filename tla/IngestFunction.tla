-------------------------- MODULE IngestFunction ---------------------------
(***************************************************************************)
(* The ingest Lambda around ProcessCsvAsync: the asynchronous event queue  *)
(* with its retries and dead-letter queue, Function.HandleAsync, the loop  *)
(* over the records of an S3 notification, and ProcessBackfillAsync with   *)
(* the continuation it schedules for the next page.                        *)
(*                                                                         *)
(* Reserved concurrency is one: at most one invocation runs.  A call of    *)
(* ProcessCsvAsync takes the steps of FactStore, which IngestService       *)
(* implements.  The queue gives its items in any order, S3 may send a      *)
(* notification again, and an item that waits too long is given up.        *)
(***************************************************************************)
EXTENDS FactStore, Sequences, FiniteSets, SequencesExt

CONSTANTS
  ObjectOrder,       \* the sources in the order a listing returns their keys
  PageSize,          \* how many objects a listing page holds
  NotCsv,            \* sources whose key does not end in .csv in any case
  Unnotified,        \* sources whose key ends in .CSV or the like
  KeyDate,           \* the report date in a source's key, or NoDate
  NoDate,
  NoToken,           \* a backfill that starts at the first page
  NoKey,             \* a record without bucket or key
  Windows,           \* the [from, to] bounds an operator asks for; 0 is open
  Batches,           \* the record sequences S3 or a user may send (again)
  MaxRetryAttempts,  \* 2 in the deployed configuration
  MaxSent            \* bound: batches and backfills sent from outside

ASSUME ObjectOrderAssumption == ObjectOrder \in Seq(Source) /\ IsInjective(ObjectOrder)
                                  /\ ToSet(ObjectOrder) = Source
ASSUME PageSizeAssumption == PageSize \in Nat \ {0}
ASSUME MaxRetryAttemptsAssumption == MaxRetryAttempts \in Nat
ASSUME NoKeyAssumption == NoKey \notin Source /\ NoToken \notin Source
ASSUME BatchesAssumption ==
  Batches \subseteq Seq([source : Source \cup {NoKey}, version : Nat])
ASSUME MaxSentAssumption == MaxSent \in Nat

VARIABLES
  queue,  \* the items Lambda holds: events with the number of this attempt
  dlq,    \* what was given up: the event and the items it left unhandled
  run,    \* the running invocation
  (* History and bound: *)
  asked,  \* windows of the backfills requested since the Target List changed
  sent    \* how many batches and backfills were sent from outside

vars == <<raw, targetList, view, seqState, op, queue, dlq, run, asked, sent>>
invocationVars == <<queue, dlq, run>>
outsideVars == <<asked, sent>>

(* An IngestSource: what ProcessCsvAsync is called with. *)
Item(s, v) == [source |-> s, version |-> v]

S3Event(records) == [kind |-> "s3", records |-> records]
BackfillEvent(w, token) == [kind |-> "backfill", window |-> w, token |-> token]
Unsupported == [kind |-> "unsupported"]

Attempt(e, n) == [event |-> e, attempt |-> n]

NoRun == [phase |-> "idle", item |-> Attempt(Unsupported, 0), todo |-> <<>>,
          failed |-> {}, next |-> NoToken]

Quiet == queue = {} /\ run.phase = "idle"

Init ==
  /\ StoreInit
  /\ queue = {}
  /\ dlq = {}
  /\ run = NoRun
  /\ asked = {}
  /\ sent = 0

-----------------------------------------------------------------------------
(* Listing the raw bucket.  A continuation token stands for the last key   *)
(* of the page before it.                                                  *)
Position(token) ==
  IF token = NoToken THEN 0
  ELSE CHOOSE i \in DOMAIN ObjectOrder : ObjectOrder[i] = token

(* The places, in the order of keys, of the objects listed after a token. *)
ListedAfter(token) ==
  {i \in DOMAIN ObjectOrder : i > Position(token) /\ raw[ObjectOrder[i]] > 0}

(* How many of them are listed up to place i. *)
Rank(token, i) == Cardinality({j \in ListedAfter(token) : j <= i})

IsTruncated(token) == Cardinality(ListedAfter(token)) > PageSize

PageLength(token) ==
  IF IsTruncated(token) THEN PageSize ELSE Cardinality(ListedAfter(token))

Page(token) ==
  [n \in 1 .. PageLength(token) |->
     ObjectOrder[CHOOSE i \in ListedAfter(token) : Rank(token, i) = n]]

InWindow(s, w) ==
  /\ w.from = 0 \/ KeyDate[s] >= w.from
  /\ w.to = 0 \/ KeyDate[s] <= w.to

-----------------------------------------------------------------------------
(* The environment. *)

(* Kiro writes a report.  The bucket's suffix filter heeds the letter case *)
(* of .csv, which the listing code does not.                               *)
UploadReport(s) ==
  /\ Upload(s)
  /\ queue' = IF s \in NotCsv \cup Unnotified THEN queue
              ELSE queue \cup {Attempt(S3Event(<<Item(s, raw[s] + 1)>>), 1)}
  /\ UNCHANGED <<dlq, run, outsideVars>>

ChangeTargets(targets) ==
  /\ ChangeTargetList(targets)
  /\ asked' = {}
  /\ UNCHANGED <<invocationVars, sent>>

Send(e) ==
  /\ sent < MaxSent
  /\ sent' = sent + 1
  /\ queue' = queue \cup {Attempt(e, 1)}
  /\ UNCHANGED <<storeVars, dlq, run>>

(* A notification is delivered again, or with several records. *)
SendBatch(records) ==
  /\ \A i \in DOMAIN records :
       records[i].source # NoKey => records[i].version \in 1 .. raw[records[i].source]
  /\ Send(S3Event(records))
  /\ UNCHANGED asked

(* scripts/backfill.sh *)
RequestBackfill(w) ==
  /\ Send(BackfillEvent(w, NoToken))
  /\ asked' = asked \cup {w}

SendUnsupported == Send(Unsupported) /\ UNCHANGED asked

-----------------------------------------------------------------------------
(* The items an event left unhandled when its attempt ended in phase       *)
(* run.phase.  Before the continuation is scheduled a backfill has not     *)
(* passed on the later pages.                                              *)
ItemsOf(e) ==
  CASE e.kind = "s3" -> ToSet(e.records)
    [] e.kind = "backfill" ->
         {Item(ObjectOrder[i], None) : i \in Position(e.token) + 1 .. Len(ObjectOrder)}
    [] OTHER -> {}

Unhandled ==
  IF run.phase = "loop" THEN run.failed \cup ToSet(run.todo)
  ELSE ItemsOf(run.item.event)

(* Lambda's asynchronous invocation: a failed attempt is queued again      *)
(* until MaximumRetryAttempts, then sent to the OnFailure destination.     *)
AttemptFails ==
  /\ run' = NoRun
  /\ IF run.item.attempt <= MaxRetryAttempts
     THEN /\ queue' = queue \cup {Attempt(run.item.event, run.item.attempt + 1)}
          /\ UNCHANGED dlq
     ELSE /\ dlq' = dlq \cup {[event |-> run.item.event, unhandled |-> Unhandled]}
          /\ UNCHANGED queue

StartInvocation(i) ==
  /\ run.phase = "idle"
  /\ i \in queue
  /\ queue' = queue \ {i}
  /\ run' = [NoRun EXCEPT !.phase = "dispatch", !.item = i]
  /\ UNCHANGED <<storeVars, dlq, outsideVars>>

(* The maximum event age: throttled for too long. *)
Expire(i) ==
  /\ i \in queue
  /\ queue' = queue \ {i}
  /\ dlq' = dlq \cup {[event |-> i.event, unhandled |-> ItemsOf(i.event)]}
  /\ UNCHANGED <<storeVars, run, outsideVars>>

(* Out of memory, the timeout: no code of the function runs any more. *)
Kill ==
  /\ run.phase # "idle"
  /\ AttemptFails
  /\ IF op.phase = "idle" THEN UNCHANGED storeVars ELSE Crash
  /\ UNCHANGED outsideVars

-----------------------------------------------------------------------------
(* Function.HandleAsync: the shape of the payload decides. *)

DispatchS3 ==
  /\ run.phase = "dispatch"
  /\ run.item.event.kind = "s3"
  /\ run' = [run EXCEPT !.phase = "loop", !.todo = run.item.event.records]
  /\ UNCHANGED <<storeVars, queue, dlq, outsideVars>>

(* BackfillRequest.Validate. *)
ValidWindow(w) == w.from # 0 /\ w.to # 0 => w.from <= w.to

DispatchBackfill ==
  /\ run.phase = "dispatch"
  /\ run.item.event.kind = "backfill"
  /\ ValidWindow(run.item.event.window)
  /\ run' = [run EXCEPT !.phase = "list"]
  /\ UNCHANGED <<storeVars, queue, dlq, outsideVars>>

RejectPayload ==
  /\ run.phase = "dispatch"
  /\ \/ run.item.event.kind = "unsupported"
     \/ /\ run.item.event.kind = "backfill"
        /\ ~ValidWindow(run.item.event.window)
  /\ AttemptFails
  /\ UNCHANGED <<storeVars, outsideVars>>

-----------------------------------------------------------------------------
(* ProcessBackfillAsync up to the loop. *)

ListPage ==
  /\ run.phase = "list"
  /\ LET token == run.item.event.token
         page == Page(token)
     IN  run' = [run EXCEPT
                   !.phase = IF IsTruncated(token) THEN "schedule" ELSE "loop",
                   !.todo = [i \in DOMAIN page |-> Item(page[i], None)],
                   !.next = IF IsTruncated(token) THEN Last(page) ELSE NoToken]
  /\ UNCHANGED <<storeVars, queue, dlq, outsideVars>>

(* Mutant: the continuation lists the same page again. *)
SamePage == Attempt(BackfillEvent(run.item.event.window, run.item.event.token), 1)

Continuation == Attempt(BackfillEvent(run.item.event.window, run.next), 1)

ScheduleContinuation ==
  /\ run.phase = "schedule"
  /\ queue' = queue \cup {Continuation}
  /\ run' = [run EXCEPT !.phase = "loop"]
  /\ UNCHANGED <<storeVars, dlq, outsideVars>>

(* The listing or the self-invocation throws.  The latter may have been    *)
(* accepted all the same.                                                  *)
BackfillFailsEarly ==
  /\ run.phase \in {"list", "schedule"}
  /\ AttemptFails
  /\ UNCHANGED <<storeVars, outsideVars>>

ScheduleTimesOut ==
  /\ run.phase = "schedule"
  /\ run' = NoRun
  /\ IF run.item.attempt <= MaxRetryAttempts
     THEN /\ queue' = queue \cup
               {Continuation, Attempt(run.item.event, run.item.attempt + 1)}
          /\ UNCHANGED dlq
     ELSE /\ dlq' = dlq \cup {[event |-> run.item.event, unhandled |-> Unhandled]}
          /\ queue' = queue \cup {Continuation}
  /\ UNCHANGED <<storeVars, outsideVars>>

-----------------------------------------------------------------------------
(* The loops over records and objects.  A failure is remembered, and the   *)
(* loop goes on.                                                           *)

IsBackfill == run.item.event.kind = "backfill"

Current == Head(run.todo)

InLoop == run.phase = "loop" /\ run.todo # <<>> /\ op.phase = "idle"

(* No report, or outside the bounds; a key without a date is neither. *)
IsSkipped ==
  /\ IsBackfill
  /\ \/ Current.source \in NotCsv
     \/ /\ KeyDate[Current.source] # NoDate
        /\ ~InWindow(Current.source, run.item.event.window)

(* Mutant: nobody looks whether a record has a bucket and a key. *)
IsInvalidObject ==
  IsBackfill /\ Current.source \notin NotCsv /\ KeyDate[Current.source] = NoDate

IsInvalid ==
  IF IsBackfill THEN Current.source \notin NotCsv /\ KeyDate[Current.source] = NoDate
  ELSE Current.source = NoKey

SkipObject ==
  /\ InLoop
  /\ IsSkipped
  /\ run' = [run EXCEPT !.todo = Tail(@)]
  /\ UNCHANGED <<storeVars, queue, dlq, outsideVars>>

(* Mutant: a key without a date ends the page. *)
InvalidKeyEndsPage ==
  /\ InLoop
  /\ IsInvalid
  /\ run' = [run EXCEPT !.todo = <<>>, !.failed = @ \cup {Current}]
  /\ UNCHANGED <<storeVars, queue, dlq, outsideVars>>

InvalidKey ==
  /\ InLoop
  /\ IsInvalid
  /\ run' = [run EXCEPT !.todo = Tail(@), !.failed = @ \cup {Current}]
  /\ UNCHANGED <<storeVars, queue, dlq, outsideVars>>

CallProcessCsv ==
  /\ InLoop
  /\ ~IsSkipped /\ ~IsInvalid
  /\ Call(Current.source, Current.version, Current.version)
  /\ UNCHANGED <<invocationVars, outsideVars>>

CallStep ==
  /\ Step
  /\ UNCHANGED <<invocationVars, outsideVars>>

(* Mutant: the exception of one item is swallowed. *)
CallFailureForgotten ==
  /\ Return
  /\ run' = [run EXCEPT !.todo = Tail(@)]
  /\ UNCHANGED <<queue, dlq, outsideVars>>

CallReturns ==
  /\ Return
  /\ run' = [run EXCEPT !.todo = Tail(@),
               !.failed = IF op.phase = "failed" THEN @ \cup {Current} ELSE @]
  /\ UNCHANGED <<queue, dlq, outsideVars>>

EndLoop ==
  /\ run.phase = "loop"
  /\ run.todo = <<>>
  /\ IF run.failed = {} THEN run' = NoRun /\ UNCHANGED <<queue, dlq>>
                        ELSE AttemptFails
  /\ UNCHANGED <<storeVars, outsideVars>>

-----------------------------------------------------------------------------
Outside ==
  \/ \E s \in Source : UploadReport(s)
  \/ \E targets \in TargetLists : ChangeTargets(targets)
  \/ \E records \in Batches : SendBatch(records)
  \/ \E w \in Windows : RequestBackfill(w)
  \/ SendUnsupported

Invocation ==
  \/ DispatchS3
  \/ DispatchBackfill
  \/ RejectPayload
  \/ ListPage
  \/ ScheduleContinuation
  \/ BackfillFailsEarly
  \/ ScheduleTimesOut
  \/ SkipObject
  \/ InvalidKey
  \/ CallProcessCsv
  \/ CallStep
  \/ CallReturns
  \/ EndLoop
  \/ Kill

Next ==
  \/ Outside
  \/ \E i \in queue : StartInvocation(i) \/ Expire(i)
  \/ Invocation

Spec == Init /\ [][Next]_vars

(* Lambda starts an invocation while there are items, and ends it by its   *)
(* result, its exception or the timeout.                                   *)
FairSpec ==
  /\ Spec
  /\ WF_vars(Invocation)
  /\ WF_vars(\E i \in queue : StartInvocation(i))

-----------------------------------------------------------------------------
(* Type invariant. *)
TypeOK ==
  /\ StoreTypeOK
  /\ \A i \in queue : i.attempt \in 1 .. MaxRetryAttempts + 1
  /\ run.phase \in {"idle", "dispatch", "list", "schedule", "loop"}
  /\ run.item.attempt \in 0 .. MaxRetryAttempts + 1
  /\ op.phase # "idle" => run.phase = "loop" /\ run.todo # <<>>
  /\ sent \in 0 .. MaxSent

IsPublished(s) == view[s] \notin {Nothing, Partial}

(* Given up: the dead-letter queue holds the event of the newest version   *)
(* of s, or a backfill that did not get s done.                            *)
GivenUp(s) ==
  \E d \in dlq : {Item(s, None), Item(s, raw[s])} \cap d.unhandled # {}

(* Live and backfill overlap converge: once nothing is queued or running,  *)
(* every report S3 notified of since the deployment that the dead-letter   *)
(* queue does not account for is published, completely and in its newest   *)
(* version, whatever the order, repetition, failure and retry of events    *)
(* and backfills before.                                                   *)
ConvergedWhenQuiet ==
  Quiet =>
    \A s \in Source \ (NotCsv \cup Unnotified) :
      raw[s] > History[s] /\ ~GivenUp(s) => IsPublished(s) /\ view[s].version = raw[s]

(* The dead-letter queue holds a backfill that did not get s done, or an   *)
(* event of s that is newer than what was saved.                           *)
LeftOver(s) ==
  \E d \in dlq : \E x \in d.unhandled :
    x.source = s /\ (x.version = None \/ x.version > seqState[s])

(* A Target List change reaches every report: once a backfill requested    *)
(* after the change has run its course, every report in its window that    *)
(* the dead-letter queue does not account for shows exactly the users of   *)
(* the new list, over all pages, although other objects may fail, and also *)
(* when S3 never notified of it, if it was there at the deployment.        *)
BackfillAppliesTargetList ==
  Quiet =>
    \A w \in asked, s \in Source \ NotCsv :
      /\ raw[s] > 0
      /\ s \in Unnotified => History[s] > 0
      /\ KeyDate[s] # NoDate => InWindow(s, w)
      /\ ~LeftOver(s)
      => IsPublished(s) /\ view[s].targets = targetList

(* Every step is one of FactStore: whatever events, windows and listings   *)
(* say, ProcessCsvAsync is called for one report at a time, and only for   *)
(* versions that exist; this is what its own properties rest on.           *)
CallsAreFactStoreCalls == StoreSpec

(* Attempt i was caused by attempt b: its retry, or the same backfill from *)
(* a later key on.                                                         *)
Follows(i, b) ==
  \/ i.event = b.event /\ i.attempt = b.attempt + 1
  \/ /\ i.event.kind = "backfill" /\ b.event.kind = "backfill"
     /\ i.event.window = b.event.window
     /\ Position(i.event.token) > Position(b.event.token)

(* Retries and continuations do not breed for ever: what comes into the    *)
(* queue and is neither a notification nor sent from outside follows the   *)
(* running attempt, and no event has more attempts than configured, so     *)
(* that every chain of them ends, however the bucket grows meanwhile.      *)
EventsDoNotBreed ==
  [][\A i \in queue' \ queue :
       UNCHANGED <<raw, sent>> =>
         Follows(i, run.item) /\ i.attempt <= MaxRetryAttempts + 1]_vars

(* Everything that was ever sent is settled in the end: continuations and  *)
(* retries do not breed for ever.                                          *)
EventuallyQuiet == <>[]Quiet
=============================================================================
