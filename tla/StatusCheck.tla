---------------------------- MODULE StatusCheck -----------------------------
(***************************************************************************)
(* The two status commands of the aws-observability skill.  get-status     *)
(* asks Application Signals for the events of one status.  check-status    *)
(* reads when the configuration was created and then asks for ACTIVE,      *)
(* READY and ERROR events, one request after the other, until one has an   *)
(* answer; meanwhile hosts publish events and the configuration may be     *)
(* deleted and made again under the same location hash.                    *)
(*                                                                         *)
(* The service, its clock and the hosts are external.  Events are kept     *)
(* when their configuration goes and can become visible late.              *)
(***************************************************************************)
EXTENDS InstrumentationInput, FiniteSets

CONSTANTS
  Process,        \* the running commands
  Requests,       \* what each of them may be asked
  TheHash,        \* the hash of the one location instrumented here, and ...
  Hashes,         \* ... every well-formed hash
  Garbled,        \* a timestamp that is not ISO 8601
  Published,      \* the statuses hosts report here
  Cause,          \* why an instrumentation can fail
  TipCount,       \* how many ACTIVE events are suggested for a search: 5
  MaxTime,        \* bound: ticks of the clock
  MaxEvents       \* bound: events published

ASSUME NoneAssumption == None \notin Int /\ None # "failed"
ASSUME TimeAssumption == MaxTime \in Nat
ASSUME RequestsAssumption ==
  \A p \in Process : \A r \in Requests[p] :
    r.op # "get-status" => {r.start_time, r.end_time} \ {Garbled} \subseteq Int
ASSUME HashAssumption == TheHash \in Hashes
ASSUME TipCountAssumption == TipCount \in Nat
ASSUME PublishedAssumption == Published \subseteq {"READY", "ACTIVE", "ERROR", "DISABLED"}

VARIABLES
  now,     \* the service's clock
  config,  \* the configuration at the location, or None
  events,  \* the visible events
  proc     \* the running commands

vars == <<now, config, events, proc>>

Status == {"READY", "ACTIVE", "ERROR", "DISABLED"}
Event == [status : Published, time : 0..MaxTime, cause : Cause]

NoResult == [has_events |-> FALSE, events |-> <<>>, error |-> None]
NoWindow == [start |-> 0, end |-> 0]
NoReport == [kind |-> "none"]

NewProcess ==
  [ phase |-> "new", request |-> [op |-> "none"], created |-> 0, window |-> NoWindow,
    results |-> [s \in {"ACTIVE", "READY", "ERROR"} |-> NoResult],
    exit |-> None, report |-> NoReport,
    (* History: *)
    before |-> {},       \* the events visible when the first status was asked for
    whole |-> TRUE,      \* every request was answered, and with all there was
    failures |-> 0 ]     \* requests that failed

Init ==
  /\ now = 0
  /\ config = None
  /\ events = {}
  /\ proc = [p \in Process |-> NewProcess]

-----------------------------------------------------------------------------
(* Input.  A time is a number; None is one that was not given. *)
validate_snapshot_signal(signal) == LowerWord(signal) = "SNAPSHOT"
is_valid_location_hash(hash) == hash \in Hashes

RequestedStatus(r) == LowerWord(r.status)

GetStatusAccepts(r) ==
  /\ normalize_instrumentation_type(r.type) # None
  /\ validate_snapshot_signal(r.signal)
  /\ parse_lookup_inputs(r.hash, r.target) # None
  /\ RequestedStatus(r) \in Status
  /\ Garbled \notin {r.start_time, r.end_time}

CheckStatusAccepts(r) ==
  /\ normalize_instrumentation_type(r.type) # None
  /\ validate_snapshot_signal(r.signal)
  /\ is_valid_location_hash(r.hash)

(* The times are looked at only once the configuration has been fetched. *)
WindowAccepted(r) ==
  /\ Garbled \notin {r.start_time, r.end_time}
  /\ r.end_time > r.start_time

-----------------------------------------------------------------------------
(* The events a query finds: of one status, in a window that is open where *)
(* it has no bound, if the identifier is that of the location.             *)
InWindow(e, w) ==
  /\ w.start # None => w.start <= e.time
  /\ w.end # None => e.time <= w.end

Found(visible, status, w) == {e \in visible : e.status = status /\ InWindow(e, w)}

(* One answer holds everything, or a part of it, even none, and a token.   *)
Page(found, more) == [events |-> found, next |-> more]
Pages(found) == {Page(found, FALSE)} \cup {Page(part, TRUE) : part \in SUBSET found}

(* The service lists events newest first, those of one moment in any order. *)
NewestFirst(es) ==
  {listed \in [1..Cardinality(es) -> es] :
     /\ Range(listed) = es
     /\ \A i, j \in DOMAIN listed : i < j => listed[i].time >= listed[j].time}

(* ACTIVE is asked for from the creation on. *)
\* Mutant: the earlier of the two times.
ActiveStartEarlier(p) ==
  IF proc[p].created < proc[p].window.start THEN proc[p].created ELSE proc[p].window.start

ActiveStart(p) ==
  IF proc[p].created > proc[p].window.start THEN proc[p].created ELSE proc[p].window.start

QueryWindow(p, status) ==
  IF status = "ACTIVE" THEN [start |-> ActiveStart(p), end |-> proc[p].window.end]
  ELSE proc[p].window

\* Mutant: READY is not asked for.
FollowingShort == [ACTIVE |-> "ERROR", READY |-> "ERROR", ERROR |-> "done"]

Following == [ACTIVE |-> "READY", READY |-> "ERROR", ERROR |-> "done"]

-----------------------------------------------------------------------------
(* The report. *)
(* The first TipCount events, the oldest of them first.                    *)
Newest(listed) == SubSeq(listed, 1, IF Len(listed) < TipCount THEN Len(listed) ELSE TipCount)

\* Mutant: the events as the service lists them.
TipsNewestFirst(listed) == Newest(listed)

Tips(listed) == Reverse(Newest(listed))

\* Mutant: a failed request is one that found nothing.
SectionWithoutError(result) ==
  IF result.error = "skipped" THEN result.error
  ELSE IF result.has_events THEN "YES" ELSE "NO"

Section(result) ==
  IF result.error # None THEN result.error
  ELSE IF result.has_events THEN "YES" ELSE "NO"

Overall(results) ==
  IF results["ACTIVE"].has_events THEN "ACTIVE"
  ELSE IF results["READY"].has_events THEN "READY"
  ELSE IF results["ERROR"].has_events THEN "ERROR" ELSE "PENDING"

(* A verdict shows the statuses that were asked for to reach it. *)
Shown(results) ==
  CASE Overall(results) = "ACTIVE" -> {"ACTIVE"}
    [] Overall(results) = "READY" -> {"ACTIVE", "READY"}
    [] OTHER -> DOMAIN results

render_status_assessment(results) ==
  [ kind |-> "assessment",
    overall |-> Overall(results),
    sections |-> [s \in Shown(results) |-> Section(results[s])],
    cause |-> IF results["ERROR"].has_events THEN results["ERROR"].events[1].cause ELSE None,
    tips |-> Tips(results["ACTIVE"].events) ]

\* Mutant: no hint at more pages.
render_get_statusNoHint(page, status) ==
  [ kind |-> "status",
    status |-> status,
    confirmed |-> page.events # {},
    shown |-> page.events,
    pagination |-> FALSE ]

render_get_status(page, status) ==
  [ kind |-> "status",
    status |-> status,
    confirmed |-> page.events # {},
    shown |-> page.events,
    pagination |-> page.next ]

Exit(p, exit, report) ==
  [proc[p] EXCEPT !.phase = "done", !.exit = exit, !.report = report]

InputError == [kind |-> "input error"]
Failed == [kind |-> "failed"]

-----------------------------------------------------------------------------
(* Starting a command. *)
Begin(p, r) ==
  LET accepted == IF r.op = "get-status" THEN GetStatusAccepts(r) ELSE CheckStatusAccepts(r) IN
  /\ proc[p].phase = "new"
  /\ proc' = [proc EXCEPT ![p] =
                IF ~accepted THEN Exit(p, 1, InputError)
                ELSE [@ EXCEPT !.request = r,
                               !.phase = IF r.op = "get-status" THEN "get-status" ELSE "fetch"]]
  /\ UNCHANGED <<now, config, events>>

(* get-status: its one request fails, or is answered. *)
GetStatusFails(p) ==
  /\ proc[p].phase = "get-status"
  /\ proc' = [proc EXCEPT ![p] = [Exit(p, 1, Failed) EXCEPT !.failures = @ + 1]]
  /\ UNCHANGED <<now, config, events>>

GetStatus(p) ==
  LET r == proc[p].request
      status == RequestedStatus(r)
      visible == IF parse_lookup_inputs(r.hash, r.target).value = TheHash THEN events ELSE {}
  IN /\ proc[p].phase = "get-status"
     /\ \E page \in Pages(Found(visible, status, [start |-> r.start_time, end |-> r.end_time])) :
          proc' = [proc EXCEPT ![p] =
                     [Exit(p, 0, render_get_status(page, status)) EXCEPT !.before = visible]]
     /\ UNCHANGED <<now, config, events>>

(* check-status: the creation time cannot be had: the request fails, there *)
(* is no configuration, or it has no creation time.                        *)
FetchFails(p) ==
  /\ proc[p].phase = "fetch"
  /\ proc' = [proc EXCEPT ![p] = [Exit(p, 1, Failed) EXCEPT !.failures = @ + 1]]
  /\ UNCHANGED <<now, config, events>>

(* An empty ACTIVE window is skipped. *)
Fetch(p) ==
  LET r == proc[p].request
      fetched == [ proc[p] EXCEPT
                     !.created = config, !.before = events,
                     !.window = [start |-> r.start_time, end |-> r.end_time] ]
      skipped == [NoResult EXCEPT !.error = "skipped"]
  IN /\ proc[p].phase = "fetch"
     /\ config # None
     /\ r.hash = TheHash
     /\ proc' = [proc EXCEPT ![p] =
                   IF ~WindowAccepted(r) THEN Exit(p, 1, InputError)
                   ELSE IF r.end_time > config THEN [fetched EXCEPT !.phase = "ACTIVE"]
                   ELSE [fetched EXCEPT !.phase = "READY", !.results["ACTIVE"] = skipped]]
     /\ UNCHANGED <<now, config, events>>

\* Mutant: the loop begins again when nothing was found.
AfterAgain(p, status, result) ==
  LET results == [proc[p].results EXCEPT ![status] = result]
      next == IF result.has_events THEN "done"
              ELSE IF status = "ERROR" THEN "ACTIVE" ELSE Following[status]
      asked == [proc[p] EXCEPT !.results = results, !.phase = next]
  IN IF next = "done" THEN [asked EXCEPT !.exit = 0, !.report = render_status_assessment(results)]
     ELSE asked

(* After a status request: done with the first that found events, and      *)
(* after the last.                                                         *)
After(p, status, result) ==
  LET results == [proc[p].results EXCEPT ![status] = result]
      next == IF result.has_events THEN "done" ELSE Following[status]
      asked == [proc[p] EXCEPT !.results = results, !.phase = next]
  IN IF next = "done" THEN [asked EXCEPT !.exit = 0, !.report = render_status_assessment(results)]
     ELSE asked

(* A failed request counts as one that found nothing. *)
StatusRequestFails(p, status) ==
  /\ proc[p].phase = status
  /\ proc' = [proc EXCEPT ![p] =
                [After(p, status, [NoResult EXCEPT !.error = "failed"]) EXCEPT
                   !.whole = FALSE, !.failures = @ + 1]]
  /\ UNCHANGED <<now, config, events>>

(* Only the first page is read. *)
StatusRequest(p, status) ==
  /\ proc[p].phase = status
  /\ \E page \in Pages(Found(events, status, QueryWindow(p, status))) :
       \E listed \in NewestFirst(page.events) :
         proc' = [proc EXCEPT ![p] =
                    [After(p, status, [ has_events |-> listed # <<>>, events |-> listed,
                                        error |-> None ]) EXCEPT !.whole = @ /\ ~page.next]]
  /\ UNCHANGED <<now, config, events>>

Run(p) ==
  \/ \E r \in Requests[p] : Begin(p, r)
  \/ GetStatusFails(p)
  \/ GetStatus(p)
  \/ FetchFails(p)
  \/ Fetch(p)
  \/ \E status \in {"ACTIVE", "READY", "ERROR"} :
       StatusRequestFails(p, status) \/ StatusRequest(p, status)

-----------------------------------------------------------------------------
(* The service and the hosts. *)
Tick ==
  /\ now < MaxTime
  /\ now' = now + 1
  /\ UNCHANGED <<config, events, proc>>

CreateConfiguration ==
  /\ config = None
  /\ config' = now
  /\ UNCHANGED <<now, events, proc>>

DeleteConfiguration ==
  /\ config # None
  /\ config' = None
  /\ UNCHANGED <<now, events, proc>>

PublishEvent ==
  \E e \in Event :
    /\ e.time <= now
    /\ Cardinality(events) < MaxEvents
    /\ events' = events \cup {e}
    /\ UNCHANGED <<now, config, proc>>

Next ==
  \/ \E p \in Process : Run(p)
  \/ Tick
  \/ CreateConfiguration
  \/ DeleteConfiguration
  \/ PublishEvent

(* A command does not stop by itself, and every request ends: the SDK sets *)
(* it a time limit.                                                        *)
Spec == Init /\ [][Next]_vars /\ \A p \in Process : WF_vars(Run(p))

-----------------------------------------------------------------------------
(* Properties. *)
ProcessOK(c) ==
  /\ c.phase \in {"new", "get-status", "fetch", "ACTIVE", "READY", "ERROR", "done"}
  /\ c.exit \in {None, 0, 1}
  /\ c.phase = "done" <=> c.exit # None
  /\ c.created \in Nat
  /\ \A s \in DOMAIN c.results :
       /\ c.results[s].has_events <=> Range(c.results[s].events) # {}
       /\ Range(c.results[s].events) \subseteq Found(events, s, [start |-> None, end |-> None])

(* Types; a status result holds only visible events of that status.        *)
TypeOK ==
  /\ now \in 0..MaxTime
  /\ config \in {None} \cup 0..now
  /\ events \subseteq Event
  /\ \A p \in Process : ProcessOK(proc[p])

Rank == [PENDING |-> 0, ERROR |-> 1, READY |-> 2, ACTIVE |-> 3]

(* What a check would say that saw all three answers in one moment; a      *)
(* window that ends at the creation holds nothing ACTIVE.                  *)
Best(visible, created, w) ==
  IF w.end > created /\ \E e \in Found(visible, "ACTIVE", w) : e.time >= created THEN "ACTIVE"
  ELSE IF Found(visible, "READY", w) # {} THEN "READY"
  ELSE IF Found(visible, "ERROR", w) # {} THEN "ERROR" ELSE "PENDING"

Assessed(c) == c.report.kind = "assessment"

(* check-status never claims more than the visible events support, ACTIVE  *)
(* only from events since the creation it read, though its three answers   *)
(* are of different moments.                                               *)
VerdictIsSupported ==
  \A p \in Process :
    LET c == proc[p] IN
    Assessed(c) => Rank[c.report.overall] <= Rank[Best(events, c.created, c.window)]

(* And when its requests were answered in full it misses nothing that was  *)
(* visible when it asked the first.                                        *)
VerdictMissesNothingEarlier ==
  \A p \in Process :
    LET c == proc[p] IN
    Assessed(c) /\ c.whole => Rank[c.report.overall] >= Rank[Best(c.before, c.created, c.window)]

(* The suggested times run from older to newer and end with the newest     *)
(* ACTIVE event of the answer.                                             *)
TipsEndWithTheNewest ==
  \A p \in Process :
    LET tips == proc[p].report.tips
        active == Range(proc[p].results["ACTIVE"].events)
    IN Assessed(proc[p]) /\ active # {} /\ TipCount > 0 =>
         /\ \A i, j \in DOMAIN tips : i < j => tips[i].time <= tips[j].time
         /\ \A e \in active : e.time <= tips[Len(tips)].time

(* get-status says CONFIRMED only of a status with events in the window,   *)
(* and denies it, without a hint at more pages, only when there are none.  *)
ConfirmationIsTrue ==
  \A p \in Process :
    LET c == proc[p]
        there == Found(c.before, c.report.status,
                       [start |-> c.request.start_time, end |-> c.request.end_time])
    IN c.report.kind = "status" =>
         /\ c.report.confirmed => there # {}
         /\ ~c.report.confirmed /\ ~c.report.pagination => there = {}

(* Every command that has begun ends with an exit code.                    *)
CommandsEnd == \A p \in Process : proc[p].phase # "new" ~> proc[p].exit # None

(* Failed status requests do not keep check-status from exit code 0, but   *)
(* its report shows each of them: none passes for a NO, and a verdict that *)
(* needed no further request hides none.                                   *)
FailuresAreShown ==
  \A p \in Process :
    LET c == proc[p] IN
    Assessed(c) =>
      Cardinality({s \in DOMAIN c.report.sections : c.report.sections[s] = "failed"}) = c.failures
=============================================================================
