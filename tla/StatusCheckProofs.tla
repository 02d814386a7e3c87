-------------------------- MODULE StatusCheckProofs --------------------------
(***************************************************************************)
(* What check-status and get-status report, for every number of commands,  *)
(* every request, any time and any number of events.                       *)
(***************************************************************************)
EXTENDS StatusCheck, TLAPS, FiniteSetTheorems, SequenceTheorems

(***************************************************************************)
(* The inductive invariant says of each command what its locals have to do *)
(* with the visible events; these only grow.                               *)
(***************************************************************************)
Asked == {"ACTIVE", "READY", "ERROR"}
Fields == { "phase", "request", "created", "window", "results", "exit", "report",
            "before", "whole", "failures" }
Open == [start |-> None, end |-> None]

Events(result) == Range(result.events)

(* QueryWindow, of a command rather than a process. *)
WindowOf(c, status) ==
  IF status = "ACTIVE"
    THEN [ start |-> IF c.created > c.window.start THEN c.created ELSE c.window.start,
           end |-> c.window.end ]
    ELSE c.window

Has(c, status) == c.results[status].has_events
Working(c) == c.phase \in Asked \/ Assessed(c)

Shaped(c, visible) ==
  /\ DOMAIN c = Fields
  /\ DOMAIN c.results = Asked
  /\ c.phase \in {"new", "get-status", "fetch", "ACTIVE", "READY", "ERROR", "done"}
  /\ c.exit \in {None, 0, 1}
  /\ c.phase = "done" <=> c.exit # None
  /\ c.created \in Nat
  /\ c.before \subseteq visible
  /\ c.whole \in BOOLEAN
  /\ \A s \in Asked : /\ c.results[s].has_events \in BOOLEAN
                      /\ c.results[s].has_events <=> Events(c.results[s]) # {}
                      /\ Events(c.results[s]) \subseteq Found(visible, s, Open)

(* A check has found nothing until it is done, and works on a request with *)
(* numbers for times.                                                      *)
Underway(c) ==
  /\ c.phase # "done" => ~Assessed(c) /\ \A s \in Asked : ~Has(c, s)
  /\ c.phase = "fetch" => {c.request.start_time, c.request.end_time} \ {Garbled} \subseteq Int
  /\ Working(c) => c.window.start \in Int /\ c.window.end \in Int
  /\ c.phase = "ACTIVE" => c.window.end > c.created

Supported(c, visible) ==
  Working(c) =>
    /\ Has(c, "ACTIVE") => c.window.end > c.created
    /\ \A s \in Asked : Events(c.results[s]) \subseteq Found(visible, s, WindowOf(c, s))
    /\ Assessed(c) => c.report = render_status_assessment(c.results)

(* What the answers so far leave of the events that were visible at first. *)
Past(c, status) ==
  /\ ~Has(c, status)
  /\ \/ Assessed(c)
     \/ status = "ACTIVE" /\ c.phase \in {"READY", "ERROR"}
     \/ status = "READY" /\ c.phase = "ERROR"

NothingPassedOver(c) ==
  Working(c) /\ c.whole =>
    /\ Past(c, "ACTIVE") /\ c.window.end > c.created
         => Found(c.before, "ACTIVE", WindowOf(c, "ACTIVE")) = {}
    /\ Past(c, "READY") /\ ~Has(c, "ACTIVE") => Found(c.before, "READY", c.window) = {}
    /\ Past(c, "ERROR") /\ ~Has(c, "ACTIVE") /\ ~Has(c, "READY")
         => Found(c.before, "ERROR", c.window) = {}

(* A result lists its events newest first.                                 *)
Sorted(listed) ==
  /\ listed \in Seq(Event)
  /\ \A i, j \in DOMAIN listed : i < j => listed[i].time >= listed[j].time

Listed(c) == \A s \in Asked : Sorted(c.results[s].events)

(* The requests that failed are counted by their results, and a verdict    *)
(* that does not show a status has not asked for it.                       *)
FailedIn(results) == {s \in Asked : results[s].error = "failed"}

Unasked(c) ==
  CASE c.phase = "READY" -> {"READY", "ERROR"}
    [] c.phase = "ERROR" -> {"ERROR"}
    [] c.phase = "done" -> {}
    [] OTHER -> Asked

Counted(c) ==
  /\ \A s \in Asked : c.results[s].error \in {None, "failed", "skipped"}
  /\ \A s \in Unasked(c) : c.results[s].error = None
  /\ c.phase \in {"new", "get-status", "fetch"} => c.failures = 0
  /\ Working(c) => c.failures = Cardinality(FailedIn(c.results))
  /\ Assessed(c) => FailedIn(c.results) \subseteq Shown(c.results)

(* What get-status says of the events it looked at.                        *)
Confirmed(c) ==
  LET there == Found(c.before, c.report.status,
                     [start |-> c.request.start_time, end |-> c.request.end_time])
  IN /\ c.phase # "done" => c.report = NoReport
     /\ c.report.kind = "status" =>
          /\ c.report.confirmed => there # {}
          /\ ~c.report.confirmed /\ ~c.report.pagination => there = {}

CommandOK(c, visible) ==
  /\ Shaped(c, visible)
  /\ Underway(c)
  /\ Supported(c, visible)
  /\ NothingPassedOver(c)
  /\ Listed(c)
  /\ Counted(c)
  /\ Confirmed(c)

Inv ==
  /\ now \in 0..MaxTime
  /\ config \in {None} \cup 0..now
  /\ events \subseteq Event
  /\ IsFiniteSet(events)
  /\ DOMAIN proc = Process
  /\ \A p \in Process : CommandOK(proc[p], events)

-----------------------------------------------------------------------------
(* Queries. *)
LEMMA EventFields ==
  ASSUME NEW e \in Event
  PROVE  e.time \in Nat /\ e.status \in Published
BY TimeAssumption DEF Event

LEMMA FoundGrows ==
  ASSUME NEW visible, NEW more, visible \subseteq more, NEW s, NEW w
  PROVE  Found(visible, s, w) \subseteq Found(more, s, w)
BY DEF Found

LEMMA FoundOpen ==
  ASSUME NEW visible, NEW s, NEW w
  PROVE  Found(visible, s, w) \subseteq Found(visible, s, Open)
BY DEF Found, Open, InWindow

LEMMA PageFacts ==
  ASSUME NEW found, NEW page \in Pages(found)
  PROVE  /\ page.events \subseteq found
         /\ page.next \in BOOLEAN
         /\ ~page.next => page.events = found
<1>1. CASE page = Page(found, FALSE)
  BY <1>1 DEF Page
<1>2. CASE \E part \in SUBSET found : page = Page(part, TRUE)
  <2>1. PICK part \in SUBSET found : page = Page(part, TRUE)
    BY <1>2
  <2>2. page.events = part /\ page.next = TRUE
    BY <2>1 DEF Page
  <2> QED
    BY <2>2
<1> QED
  BY <1>1, <1>2 DEF Pages

LEMMA AskedIsFinite == IsFiniteSet(Asked)
<1>1. Asked = ({"ACTIVE"} \cup {"READY"}) \cup {"ERROR"}
  BY DEF Asked
<1> QED
  BY <1>1, FS_Singleton, FS_AddElement

LEMMA NoEvents == Range(<<>>) = {} /\ Sorted(<<>>)
BY DEF Range, Sorted

(* A listing holds what was found, newest first.                           *)
LEMMA ListingFacts ==
  ASSUME NEW es, IsFiniteSet(es), es \subseteq Event, NEW listed \in NewestFirst(es)
  PROVE  /\ Range(listed) = es
         /\ listed # <<>> <=> es # {}
         /\ Sorted(listed)
<1>1. Cardinality(es) \in Nat
  BY FS_CardinalityType
<1>2. /\ listed \in [1..Cardinality(es) -> es]
      /\ Range(listed) = es
      /\ \A i, j \in DOMAIN listed : i < j => listed[i].time >= listed[j].time
  BY DEF NewestFirst
<1>3. listed \in Seq(Event) /\ Len(listed) = Cardinality(es)
  BY <1>1, <1>2
<1>4. listed # <<>> <=> es # {}
  BY <1>1, <1>2, <1>3, FS_EmptySet, EmptySeq
<1> QED
  BY <1>2, <1>3, <1>4 DEF Sorted

LEMMA WindowOfProcess ==
  ASSUME NEW p \in Process, NEW s
  PROVE  QueryWindow(p, s) = WindowOf(proc[p], s)
BY DEF QueryWindow, WindowOf, ActiveStart

LEMMA OkGrows ==
  ASSUME NEW c, NEW visible, NEW more, visible \subseteq more, CommandOK(c, visible)
  PROVE  CommandOK(c, more)
<1>1. Shaped(c, more)
  BY FoundGrows DEF CommandOK, Shaped
<1>2. Supported(c, more)
  BY FoundGrows DEF CommandOK, Supported
<1> QED
  BY <1>1, <1>2 DEF CommandOK

-----------------------------------------------------------------------------
(* One answer to check-status: d is the command after it. *)
LEMMA AfterOK ==
  ASSUME NEW p \in Process, CommandOK(proc[p], events),
         NEW status \in Asked, proc[p].phase = status,
         NEW result,
         result.has_events \in BOOLEAN, result.has_events <=> Events(result) # {},
         Events(result) \subseteq Found(events, status, WindowOf(proc[p], status)),
         Sorted(result.events), result.error \in {None, "failed"},
         NEW d, DOMAIN d = Fields,
         \A f \in Fields \ {"whole", "failures"} : d[f] = After(p, status, result)[f],
         d.failures = IF result.error = "failed" THEN proc[p].failures + 1 ELSE proc[p].failures,
         d.whole \in BOOLEAN,
         d.whole => /\ proc[p].whole
                    /\ Events(result) = Found(events, status, WindowOf(proc[p], status))
  PROVE  CommandOK(d, events)
<1> DEFINE c == proc[p]
           results == [c.results EXCEPT ![status] = result]
           next == IF result.has_events THEN "done" ELSE Following[status]
<1>1. /\ Shaped(c, events) /\ Underway(c) /\ Supported(c, events) /\ NothingPassedOver(c)
      /\ Listed(c) /\ Counted(c) /\ Confirmed(c)
  BY DEF CommandOK
<1>2. /\ DOMAIN results = Asked
      /\ results[status] = result
      /\ \A s \in Asked \ {status} : results[s] = c.results[s]
  BY <1>1 DEF Shaped
<1>3. /\ next \in {"READY", "ERROR", "done"}
      /\ ~result.has_events => next = Following[status]
  BY DEF Following, Asked
<1>4. /\ d.created = c.created
      /\ d.window = c.window
      /\ d.before = c.before
      /\ d.results = results
      /\ d.phase = next
      /\ next = "done" => d.exit = 0 /\ d.report = render_status_assessment(results)
      /\ next # "done" => d.exit = c.exit /\ d.report = c.report
  <2> DEFINE a == After(p, status, result)
  <2>0. /\ d.created = a.created /\ d.window = a.window /\ d.before = a.before
        /\ d.results = a.results /\ d.phase = a.phase
        /\ d.exit = a.exit /\ d.report = a.report
    BY DEF Fields
  <2>d. DOMAIN c = Fields
    BY <1>1 DEF Shaped
  <2>1. CASE next = "done"
    <3>1. After(p, status, result) =
            [[c EXCEPT !.results = results, !.phase = next] EXCEPT
               !.exit = 0, !.report = render_status_assessment(results)]
      BY <2>1 DEF After
    <3> HIDE DEF next, results
    <3>2. /\ a.created = c.created /\ a.window = c.window /\ a.before = c.before
          /\ a.results = results /\ a.phase = next
          /\ a.exit = 0 /\ a.report = render_status_assessment(results)
      BY <2>d, <3>1 DEF Fields
    <3> QED
      BY <2>0, <2>1, <3>2
  <2>2. CASE next # "done"
    <3>1. After(p, status, result) = [c EXCEPT !.results = results, !.phase = next]
      BY <2>2 DEF After
    <3> HIDE DEF next, results
    <3>2. /\ a.created = c.created /\ a.window = c.window /\ a.before = c.before
          /\ a.results = results /\ a.phase = next
          /\ a.exit = c.exit /\ a.report = c.report
      BY <2>d, <3>1 DEF Fields
    <3> QED
      BY <2>0, <2>2, <3>2
  <2> QED
    BY <2>1, <2>2
<1>5. next # "done" => ~Assessed(d)
  BY <1>1, <1>4 DEF Underway, Assessed, Asked
<1>6. next = "done" => Assessed(d) /\ d.report = render_status_assessment(results)
  BY <1>4 DEF Assessed, render_status_assessment
<1>7. Working(c) /\ (\A s \in Asked : ~Has(c, s))
  BY <1>1 DEF Working, Underway, Asked
<1>8. \A s \in Asked : WindowOf(d, s) = WindowOf(c, s)
  BY <1>4 DEF WindowOf
<1> HIDE DEF results, next
<1>9. Shaped(d, events)
  <2>1. Events(result) \subseteq Found(events, status, Open)
    BY FoundOpen
  <2>2. d.phase = "done" <=> d.exit # None
    BY <1>1, <1>3, <1>4, NoneAssumption DEF Shaped, Asked
  <2>3. d.exit \in {None, 0, 1}
    BY <1>1, <1>4 DEF Shaped
  <2>4. \A s \in Asked :
          /\ d.results[s].has_events \in BOOLEAN
          /\ d.results[s].has_events <=> Events(d.results[s]) # {}
          /\ Events(d.results[s]) \subseteq Found(events, s, Open)
    <3> SUFFICES ASSUME NEW s \in Asked
                 PROVE  /\ d.results[s].has_events \in BOOLEAN
                        /\ d.results[s].has_events <=> Events(d.results[s]) # {}
                        /\ Events(d.results[s]) \subseteq Found(events, s, Open)
      OBVIOUS
    <3>1. CASE s = status
      BY <1>2, <1>4, <2>1, <3>1
    <3>2. CASE s # status
      BY <1>1, <1>2, <1>4, <3>2 DEF Shaped
    <3> QED
      BY <3>1, <3>2
  <2>5. /\ DOMAIN d.results = Asked /\ d.created \in Nat /\ d.before \subseteq events
        /\ d.phase \in {"new", "get-status", "fetch", "ACTIVE", "READY", "ERROR", "done"}
    BY <1>1, <1>2, <1>3, <1>4 DEF Shaped, Asked
  <2> QED
    BY <2>2, <2>3, <2>4, <2>5 DEF Shaped
<1>10. Underway(d)
  <2>1. next # "done" => \A s \in Asked : ~Has(d, s)
    BY <1>2, <1>4, <1>7 DEF Has, next
  <2>2. d.window.start \in Int /\ d.window.end \in Int
    BY <1>1, <1>4, <1>7 DEF Underway
  <2> QED
    BY <1>3, <1>4, <1>5, <2>1, <2>2 DEF Underway
<1>11. Supported(d, events)
  <2>1. \A s \in Asked : Events(d.results[s]) \subseteq Found(events, s, WindowOf(d, s))
    BY <1>1, <1>2, <1>4, <1>7, <1>8 DEF Supported
  <2>2. Has(d, "ACTIVE") => d.window.end > d.created
    BY <1>1, <1>2, <1>4, <1>7 DEF Has, Underway, Asked
  <2> QED
    BY <1>4, <1>5, <1>6, <2>1, <2>2 DEF Supported
<1>12. NothingPassedOver(d)
  <2> SUFFICES ASSUME d.whole
               PROVE  /\ Past(d, "ACTIVE") /\ d.window.end > d.created
                           => Found(d.before, "ACTIVE", WindowOf(d, "ACTIVE")) = {}
                      /\ Past(d, "READY") /\ ~Has(d, "ACTIVE")
                           => Found(d.before, "READY", d.window) = {}
                      /\ Past(d, "ERROR") /\ ~Has(d, "ACTIVE") /\ ~Has(d, "READY")
                           => Found(d.before, "ERROR", d.window) = {}
    BY DEF NothingPassedOver
  <2>1. Found(c.before, status, WindowOf(c, status)) \subseteq Events(result)
    BY <1>1, FoundGrows DEF Shaped
  <2>2. Has(d, status) <=> result.has_events
    BY <1>2, <1>4 DEF Has
  <2>3. ~result.has_events => Found(d.before, status, WindowOf(d, status)) = {}
    BY <1>4, <1>8, <2>1
  <2>4. /\ Past(c, "ACTIVE") /\ c.window.end > c.created
             => Found(c.before, "ACTIVE", WindowOf(c, "ACTIVE")) = {}
        /\ Past(c, "READY") => Found(c.before, "READY", c.window) = {}
    BY <1>1, <1>7 DEF NothingPassedOver, Asked
  <2>5. CASE status = "ACTIVE"
    BY <1>3, <1>4, <1>5, <2>2, <2>3, <2>5 DEF Past, next, Following
  <2>6. CASE status = "READY"
    <3>1. Past(c, "ACTIVE")
      BY <1>7, <2>6 DEF Past, Asked
    <3> QED
      BY <1>3, <1>4, <1>5, <1>8, <2>2, <2>3, <2>4, <2>6, <3>1 DEF Past, next, Following, WindowOf, Asked
  <2>7. CASE status = "ERROR"
    <3>1. Past(c, "ACTIVE") /\ Past(c, "READY")
      BY <1>7, <2>7 DEF Past, Asked
    <3> QED
      BY <1>3, <1>4, <1>5, <1>8, <2>2, <2>3, <2>4, <2>7, <3>1 DEF Past, next, Following, WindowOf, Asked
  <2> QED
    BY <2>5, <2>6, <2>7 DEF Asked
<1>13. Listed(d)
  BY <1>1, <1>2, <1>4 DEF Listed
<1>14. Counted(d)
  <2>1. status \in Unasked(c) /\ c.results[status].error # "failed"
    BY <1>1, NoneAssumption DEF Counted, Unasked, Asked
  <2>2. Unasked(d) \subseteq Unasked(c) \ {status}
    BY <1>3, <1>4 DEF Unasked, Asked, next, Following
  <2>3. d.failures = Cardinality(FailedIn(results))
    <3>1. FailedIn(c.results) \in SUBSET Asked
      BY DEF FailedIn
    <3>2. IsFiniteSet(FailedIn(c.results)) /\ status \notin FailedIn(c.results)
      BY <2>1, <3>1, AskedIsFinite, FS_Subset DEF FailedIn
    <3>3. c.failures = Cardinality(FailedIn(c.results))
      BY <1>1, <1>7 DEF Counted
    <3>4. FailedIn(results) = IF result.error = "failed" THEN FailedIn(c.results) \cup {status}
                              ELSE FailedIn(c.results)
      BY <1>2, <2>1 DEF FailedIn
    <3>5. CASE result.error = "failed"
      <4>1. Cardinality(FailedIn(c.results) \cup {status}) = Cardinality(FailedIn(c.results)) + 1
        BY <3>2, FS_AddElement
      <4> QED
        BY <3>3, <3>4, <3>5, <4>1
    <3>6. CASE result.error # "failed"
      BY <3>3, <3>4, <3>6
    <3> QED
      BY <3>5, <3>6
  <2>4. ASSUME next = "done" PROVE FailedIn(results) \subseteq Shown(results)
    <3>1. \A s \in Asked : results[s].has_events => s = status
      BY <1>2, <1>7 DEF Has
    <3>2. CASE results["ACTIVE"].has_events
      <4>1. \A s \in Asked \ {"ACTIVE"} : results[s].error = None
        BY <1>1, <1>2, <3>1, <3>2 DEF Counted, Unasked, Asked
      <4> QED
        BY <3>2, <4>1, NoneAssumption DEF Shown, Overall, FailedIn, Asked
    <3>3. CASE ~results["ACTIVE"].has_events /\ results["READY"].has_events
      <4>1. results["ERROR"].error = None
        BY <1>1, <1>2, <3>1, <3>3 DEF Counted, Unasked, Asked
      <4> QED
        BY <3>3, <4>1, NoneAssumption DEF Shown, Overall, FailedIn, Asked
    <3>4. CASE ~results["ACTIVE"].has_events /\ ~results["READY"].has_events
      <4>1. Shown(results) = Asked
        BY <1>2, <3>4 DEF Shown, Overall
      <4> QED
        BY <4>1 DEF FailedIn
    <3> QED
      BY <3>2, <3>3, <3>4
  <2>5. \A s \in Asked : d.results[s].error \in {None, "failed", "skipped"}
    BY <1>1, <1>2, <1>4 DEF Counted
  <2>6. \A s \in Unasked(d) : d.results[s].error = None
    BY <1>1, <1>2, <1>4, <2>2 DEF Counted, Unasked, Asked
  <2> QED
    BY <1>3, <1>4, <1>5, <2>3, <2>4, <2>5, <2>6 DEF Counted
<1>15. Confirmed(d)
  BY <1>1, <1>3, <1>4, <1>7 DEF Confirmed, render_status_assessment, NoReport, Asked
<1> QED
  BY <1>9, <1>10, <1>11, <1>12, <1>13, <1>14, <1>15 DEF CommandOK

-----------------------------------------------------------------------------
(* The steps. *)
LEMMA InitOK == Init => Inv
<1> SUFFICES ASSUME Init PROVE Inv
  OBVIOUS
<1> DEFINE c == NewProcess
<1>1. /\ DOMAIN c = Fields /\ c.phase = "new" /\ c.exit = None /\ c.created = 0 /\ c.before = {}
      /\ c.whole = TRUE /\ c.failures = 0 /\ c.report = NoReport
      /\ c.results = [s \in Asked |-> NoResult]
  BY DEF NewProcess, Fields, Asked
<1>2. NoResult.has_events = FALSE /\ NoResult.events = <<>> /\ NoResult.error = None
  BY DEF NoResult
<1>3. ~Working(c) /\ ~Assessed(c) /\ c.report.kind = "none"
  BY <1>1 DEF Working, Assessed, NoReport, Asked
<1> HIDE DEF c
<1>4. Shaped(c, {})
  <2>1. \A s \in Asked : c.results[s].has_events = FALSE /\ Events(c.results[s]) = {}
    BY <1>1, <1>2, NoEvents DEF Events
  <2>2. \A s \in Asked : /\ c.results[s].has_events \in BOOLEAN
                         /\ c.results[s].has_events <=> Events(c.results[s]) # {}
                         /\ Events(c.results[s]) \subseteq Found({}, s, Open)
    BY <2>1
  <2>3. DOMAIN c.results = Asked /\ c.whole \in BOOLEAN /\ c.before \subseteq {}
    BY <1>1
  <2>4. /\ c.phase \in {"new", "get-status", "fetch", "ACTIVE", "READY", "ERROR", "done"}
        /\ c.exit \in {None, 0, 1}
        /\ c.phase = "done" <=> c.exit # None
    BY <1>1
  <2> QED
    BY <1>1, <2>2, <2>3, <2>4 DEF Shaped
<1>5. Underway(c) /\ Supported(c, {}) /\ NothingPassedOver(c)
  BY <1>1, <1>2, <1>3 DEF Underway, Supported, NothingPassedOver, Has
<1>6. Listed(c)
  BY <1>1, <1>2, NoEvents DEF Listed
<1>7. Counted(c) /\ Confirmed(c)
  BY <1>1, <1>2, <1>3 DEF Counted, Confirmed, Unasked, Asked
<1> QED
  BY <1>4, <1>5, <1>6, <1>7, TimeAssumption, FS_EmptySet DEF Init, Inv, CommandOK, c

(* The others are not touched by the step of one command. *)
LEMMA OneCommand ==
  ASSUME Inv, NEW p \in Process, NEW d,
         proc' = [proc EXCEPT ![p] = d], CommandOK(d, events),
         UNCHANGED <<now, config, events>>
  PROVE  Inv'
BY DEF Inv

(* What a command looks like that has ended without an assessment. *)
LEMMA ExitOK ==
  ASSUME NEW p \in Process, CommandOK(proc[p], events), proc[p].phase # "done",
         NEW exit \in {0, 1}, NEW report, report.kind # "assessment",
         NEW d, DOMAIN d = Fields,
         \A f \in Fields \ {"before", "failures"} : d[f] = Exit(p, exit, report)[f],
         d.before \subseteq events,
         Confirmed(d)
  PROVE  CommandOK(d, events)
<1> DEFINE c == proc[p]
<1>1. Shaped(c, events) /\ Underway(c) /\ Listed(c) /\ Counted(c)
  BY DEF CommandOK
<1>2. /\ d.phase = "done" /\ d.exit = exit /\ d.report = report
      /\ d.created = c.created /\ d.results = c.results /\ d.whole = c.whole
  BY <1>1 DEF Exit, Shaped, Fields
<1>3. ~Working(d)
  BY <1>2 DEF Working, Assessed, Asked
<1>4. Shaped(d, events)
  BY <1>1, <1>2, NoneAssumption DEF Shaped
<1>5. Underway(d)
  BY <1>2, <1>3 DEF Underway
<1>6. Listed(d) /\ Counted(d)
  BY <1>1, <1>2, <1>3 DEF Listed, Counted, Unasked, Working
<1> QED
  BY <1>3, <1>4, <1>5, <1>6 DEF CommandOK, Supported, NothingPassedOver

LEMMA BeginOK ==
  ASSUME Inv, NEW p \in Process, NEW r \in Requests[p], Begin(p, r)
  PROVE  Inv'
<1> DEFINE c == proc[p]
           d == IF r.op = "get-status" THEN [c EXCEPT !.request = r, !.phase = "get-status"]
                ELSE [c EXCEPT !.request = r, !.phase = "fetch"]
<1>1. CommandOK(c, events) /\ c.phase = "new" /\ UNCHANGED <<now, config, events>>
  BY DEF Inv, Begin
<1>2. \/ proc' = [proc EXCEPT ![p] = Exit(p, 1, InputError)]
      \/ proc' = [proc EXCEPT ![p] = d]
  BY DEF Begin, Inv
<1>3. CASE proc' = [proc EXCEPT ![p] = Exit(p, 1, InputError)]
  <2>1. DOMAIN Exit(p, 1, InputError) = Fields /\ Exit(p, 1, InputError).before \subseteq events
    BY <1>1 DEF Exit, CommandOK, Shaped, Fields
  <2>2. Confirmed(Exit(p, 1, InputError)) /\ InputError.kind # "assessment"
    BY <1>1 DEF Exit, InputError, Confirmed, CommandOK, Shaped, Fields
  <2>3. CommandOK(Exit(p, 1, InputError), events)
    BY <1>1, <2>1, <2>2, ExitOK
  <2> QED
    BY <1>1, <1>3, <2>3, OneCommand
<1>4. CASE proc' = [proc EXCEPT ![p] = d]
  <2>1. DOMAIN c = Fields
    BY <1>1 DEF CommandOK, Shaped
  <2>2. /\ DOMAIN d = Fields
        /\ d.phase = (IF r.op = "get-status" THEN "get-status" ELSE "fetch") /\ d.request = r
        /\ d.created = c.created /\ d.results = c.results /\ d.exit = c.exit
        /\ d.report = c.report /\ d.before = c.before /\ d.whole = c.whole
        /\ d.failures = c.failures
    BY <2>1 DEF Fields
  <2>3. r.op # "get-status" => {r.start_time, r.end_time} \ {Garbled} \subseteq Int
    BY RequestsAssumption
  <2> HIDE DEF d
  <2>4. ~Assessed(c) /\ ~Assessed(d) /\ ~Working(d)
    BY <1>1, <2>2 DEF CommandOK, Underway, Working, Assessed, Asked
  <2>5. Shaped(d, events)
    BY <1>1, <2>2 DEF CommandOK, Shaped
  <2>6. Underway(d)
    BY <1>1, <2>2, <2>3, <2>4 DEF CommandOK, Underway, Has
  <2>7. Listed(d) /\ Counted(d) /\ Confirmed(d)
    BY <1>1, <2>2, <2>4 DEF CommandOK, Listed, Counted, Confirmed, Unasked, NoReport
  <2>8. CommandOK(d, events)
    BY <2>4, <2>5, <2>6, <2>7 DEF CommandOK, Supported, NothingPassedOver
  <2> QED
    BY <1>1, <1>4, <2>8, OneCommand
<1> QED
  BY <1>2, <1>3, <1>4

(* A command ends without a report of what it found. *)
LEMMA EndOK ==
  ASSUME Inv, NEW p \in Process, proc[p].phase # "done",
         NEW exit \in {0, 1}, NEW report, report.kind \notin {"assessment", "status"}, NEW failures,
         \/ proc' = [proc EXCEPT ![p] = [Exit(p, exit, report) EXCEPT !.failures = failures]]
         \/ proc' = [proc EXCEPT ![p] = Exit(p, exit, report)],
         UNCHANGED <<now, config, events>>
  PROVE  Inv'
<1> DEFINE a == Exit(p, exit, report)
<1>1. CommandOK(proc[p], events) /\ proc[p].before \subseteq events
  BY DEF Inv, CommandOK, Shaped
<1>2. /\ DOMAIN a = Fields /\ a.before = proc[p].before
      /\ a.report = report /\ a.phase = "done"
  BY <1>1 DEF Exit, CommandOK, Shaped, Fields
<1> HIDE DEF a
<1>3. ASSUME NEW d, d = a \/ d = [a EXCEPT !.failures = failures]
      PROVE  CommandOK(d, events)
  <2>1. /\ DOMAIN d = Fields
        /\ \A f \in Fields \ {"before", "failures"} : d[f] = a[f]
        /\ d.before \subseteq events
    BY <1>1, <1>2, <1>3 DEF Fields
  <2>2. Confirmed(d)
    BY <1>2, <2>1 DEF Confirmed, Fields
  <2>3. \A f \in Fields \ {"before", "failures"} : d[f] = Exit(p, exit, report)[f]
    BY <2>1 DEF a
  <2> QED
    BY <1>1, <2>1, <2>2, <2>3, ExitOK
<1>4. \E d : (d = a \/ d = [a EXCEPT !.failures = failures]) /\ proc' = [proc EXCEPT ![p] = d]
  BY DEF a
<1> QED
  BY <1>3, <1>4, OneCommand

LEMMA GetStatusOK ==
  ASSUME Inv, NEW p \in Process, GetStatus(p)
  PROVE  Inv'
<1> DEFINE c == proc[p]
           r == c.request
           status == RequestedStatus(r)
           window == [start |-> r.start_time, end |-> r.end_time]
           visible == IF parse_lookup_inputs(r.hash, r.target).value = TheHash THEN events ELSE {}
           a(page) == Exit(p, 0, render_get_status(page, status))
<1>1. PICK page \in Pages(Found(visible, status, window)) :
        proc' = [proc EXCEPT ![p] = [a(page) EXCEPT !.before = visible]]
  BY DEF GetStatus
<1> DEFINE report == render_get_status(page, status)
           d == [a(page) EXCEPT !.before = visible]
<1>2. visible \subseteq events
  OBVIOUS
<1>3. CommandOK(c, events) /\ c.phase # "done" /\ UNCHANGED <<now, config, events>>
  BY DEF GetStatus, Inv
<1> HIDE DEF visible, status
<1>4. /\ page.events \subseteq Found(visible, status, window)
      /\ ~page.next => page.events = Found(visible, status, window)
  BY <1>1, PageFacts
<1>5. /\ report.kind = "status" /\ report.status = status
      /\ report.confirmed <=> page.events # {}
      /\ report.pagination = page.next
  BY DEF render_get_status
<1> HIDE DEF report
<1>6. /\ DOMAIN d = Fields
      /\ \A f \in Fields \ {"before", "failures"} : d[f] = Exit(p, 0, report)[f]
      /\ d.before = visible /\ d.report = report /\ d.request = r /\ d.phase = "done"
  BY <1>3 DEF Exit, CommandOK, Shaped, Fields, report
<1> HIDE DEF d
<1>7. Confirmed(d)
  BY <1>4, <1>5, <1>6 DEF Confirmed
<1>8. CommandOK(d, events)
  BY <1>2, <1>3, <1>5, <1>6, <1>7, ExitOK
<1> QED
  BY <1>1, <1>3, <1>8, OneCommand DEF d

LEMMA FailsOK ==
  ASSUME Inv, NEW p \in Process, GetStatusFails(p) \/ FetchFails(p)
  PROVE  Inv'
<1>1. /\ proc[p].phase # "done"
      /\ UNCHANGED <<now, config, events>>
      /\ \E failures : proc' = [proc EXCEPT ![p] = [Exit(p, 1, Failed) EXCEPT !.failures = failures]]
  BY DEF GetStatusFails, FetchFails
<1>2. Failed.kind \notin {"assessment", "status"}
  BY DEF Failed
<1> QED
  BY <1>1, <1>2, EndOK DEF Exit

(* What a check looks like that has just read the creation time. *)
LEMMA FetchedOK ==
  ASSUME NEW c, CommandOK(c, events), c.phase = "fetch",
         NEW d, DOMAIN d = Fields, DOMAIN d.results = Asked,
         d.created \in Nat, d.before = events,
         d.window.start \in Int, d.window.end \in Int,
         d.exit = c.exit, d.report = c.report, d.whole = c.whole, d.failures = c.failures,
         \A s \in Asked : d.results[s].has_events = FALSE /\ Events(d.results[s]) = {},
         Listed(d),
         \A s \in Asked : d.results[s].error = IF d.phase = "READY" /\ s = "ACTIVE" THEN "skipped"
                                               ELSE None,
         \/ d.phase = "ACTIVE" /\ d.window.end > d.created
         \/ d.phase = "READY" /\ ~(d.window.end > d.created)
  PROVE  CommandOK(d, events)
<1>1. \A s \in Asked : ~Has(d, s)
  BY DEF Has
<1>2. ~Assessed(d)
  BY DEF CommandOK, Underway, Assessed
<1>3. Shaped(d, events)
  BY DEF CommandOK, Shaped
<1>4. Underway(d)
  BY <1>1, <1>2 DEF Underway
<1>5. Supported(d, events)
  BY <1>1, <1>2 DEF Supported, Asked
<1>6. NothingPassedOver(d)
  BY <1>2 DEF NothingPassedOver, Past
<1>7. Counted(d)
  <2>1. d.failures = 0
    BY DEF CommandOK, Counted
  <2>2. FailedIn(d.results) = {}
    BY NoneAssumption DEF FailedIn
  <2>3. \A s \in Unasked(d) : d.results[s].error = None
    BY DEF Unasked, Asked
  <2> QED
    BY <1>2, <2>1, <2>2, <2>3, FS_EmptySet DEF Counted
<1>8. Confirmed(d)
  BY DEF CommandOK, Confirmed, NoReport
<1> QED
  BY <1>3, <1>4, <1>5, <1>6, <1>7, <1>8 DEF CommandOK

LEMMA FetchOK ==
  ASSUME Inv, NEW p \in Process, Fetch(p)
  PROVE  Inv'
<1> DEFINE c == proc[p]
           r == c.request
           fetched == [ c EXCEPT !.created = config, !.before = events,
                                 !.window = [start |-> r.start_time, end |-> r.end_time] ]
           skipped == [NoResult EXCEPT !.error = "skipped"]
           active == [fetched EXCEPT !.phase = "ACTIVE"]
           ready == [fetched EXCEPT !.phase = "READY", !.results["ACTIVE"] = skipped]
<1>1. CommandOK(c, events) /\ c.phase = "fetch" /\ UNCHANGED <<now, config, events>> /\ config \in Nat
  BY TimeAssumption DEF Inv, Fetch
<1>2. /\ DOMAIN c = Fields /\ DOMAIN c.results = Asked
      /\ \A s \in Asked : /\ c.results[s].has_events = FALSE /\ Events(c.results[s]) = {}
                          /\ Sorted(c.results[s].events) /\ c.results[s].error = None
  BY <1>1 DEF CommandOK, Shaped, Underway, Has, Listed, Counted, Unasked
<1>3. CASE ~WindowAccepted(r)
  <2>1. proc' = [proc EXCEPT ![p] = Exit(p, 1, InputError)] /\ InputError.kind \notin {"assessment", "status"}
    BY <1>3 DEF Fetch, InputError
  <2> QED
    BY <1>1, <2>1, EndOK
<1>4. CASE WindowAccepted(r)
  <2>1. r.start_time \in Int /\ r.end_time \in Int
    BY <1>1, <1>4 DEF CommandOK, Underway, WindowAccepted
  <2>2. /\ r.end_time > config => proc' = [proc EXCEPT ![p] = active]
        /\ ~(r.end_time > config) => proc' = [proc EXCEPT ![p] = ready]
    BY <1>4 DEF Fetch
  <2>4. /\ DOMAIN fetched = Fields /\ fetched.created = config /\ fetched.before = events
        /\ fetched.window.start = r.start_time /\ fetched.window.end = r.end_time
        /\ fetched.exit = c.exit /\ fetched.report = c.report /\ fetched.whole = c.whole
        /\ fetched.results = c.results /\ fetched.failures = c.failures
    BY <1>2 DEF Fields
  <2>5. /\ skipped.has_events = FALSE /\ Events(skipped) = {}
        /\ Sorted(skipped.events) /\ skipped.error = "skipped"
    BY NoEvents DEF NoResult, Events
  <2> HIDE DEF fetched, skipped
  <2>6. CASE r.end_time > config
    <3>1. /\ DOMAIN active = Fields /\ active.created = config /\ active.before = events
          /\ active.window.start = r.start_time /\ active.window.end = r.end_time
          /\ active.exit = c.exit /\ active.report = c.report /\ active.whole = c.whole
          /\ active.failures = c.failures
          /\ active.results = c.results /\ active.phase = "ACTIVE"
      BY <2>4 DEF Fields
    <3>2. CommandOK(active, events)
      <4> HIDE DEF active
      <4>1. /\ DOMAIN active.results = Asked
            /\ \A s \in Asked :
                 /\ active.results[s].has_events = FALSE /\ Events(active.results[s]) = {}
                 /\ Sorted(active.results[s].events)
                 /\ active.results[s].error = IF active.phase = "READY" /\ s = "ACTIVE" THEN "skipped"
                                           ELSE None
        BY <1>2, <3>1 DEF Asked
      <4> QED
        BY <1>1, <2>1, <2>6, <3>1, <4>1, FetchedOK DEF Listed
    <3> QED
      BY <1>1, <2>2, <2>6, <3>2, OneCommand
  <2>7. CASE ~(r.end_time > config)
    <3>1. /\ DOMAIN ready = Fields /\ ready.created = config /\ ready.before = events
          /\ ready.window.start = r.start_time /\ ready.window.end = r.end_time
          /\ ready.exit = c.exit /\ ready.report = c.report /\ ready.whole = c.whole
          /\ ready.failures = c.failures
          /\ ready.results = [c.results EXCEPT !["ACTIVE"] = skipped] /\ ready.phase = "READY"
      BY <2>4 DEF Fields
    <3>2. CommandOK(ready, events)
      <4> HIDE DEF ready
      <4>1. /\ DOMAIN ready.results = Asked
            /\ \A s \in Asked :
                 /\ ready.results[s].has_events = FALSE /\ Events(ready.results[s]) = {}
                 /\ Sorted(ready.results[s].events)
                 /\ ready.results[s].error = IF ready.phase = "READY" /\ s = "ACTIVE" THEN "skipped"
                                           ELSE None
        BY <1>2, <2>5, <3>1 DEF Asked
      <4> QED
        BY <1>1, <2>1, <2>7, <3>1, <4>1, FetchedOK DEF Listed
    <3> QED
      BY <1>1, <2>2, <2>7, <3>2, OneCommand
  <2> QED
    BY <2>6, <2>7
<1> QED
  BY <1>3, <1>4

LEMMA StatusRequestFailsOK ==
  ASSUME Inv, NEW p \in Process, NEW status \in Asked, StatusRequestFails(p, status)
  PROVE  Inv'
<1> DEFINE result == [NoResult EXCEPT !.error = "failed"]
           a == After(p, status, result)
           d == [a EXCEPT !.whole = FALSE, !.failures = @ + 1]
<1>1. /\ CommandOK(proc[p], events) /\ proc[p].phase = status /\ UNCHANGED <<now, config, events>>
      /\ proc' = [proc EXCEPT ![p] = d]
  BY DEF Inv, StatusRequestFails
<1>2. /\ result.has_events = FALSE /\ Events(result) = {}
      /\ Sorted(result.events) /\ result.error = "failed"
  BY NoEvents DEF NoResult, Events
<1>3. DOMAIN proc[p] = Fields
  BY <1>1 DEF CommandOK, Shaped
<1>4. DOMAIN a = Fields /\ a.failures = proc[p].failures
  BY <1>3 DEF After, Fields
<1> HIDE DEF a, result
<1>5. /\ DOMAIN d = Fields /\ d.whole = FALSE /\ d.failures = proc[p].failures + 1
      /\ \A f \in Fields \ {"whole", "failures"} : d[f] = a[f]
  BY <1>4 DEF Fields
<1> HIDE DEF d
<1>6. CommandOK(d, events)
  <2>1. \A f \in Fields \ {"whole", "failures"} : d[f] = After(p, status, result)[f]
    BY <1>5 DEF a
  <2>2. /\ result.has_events \in BOOLEAN
        /\ result.has_events <=> Events(result) # {}
        /\ Events(result) \subseteq Found(events, status, WindowOf(proc[p], status))
    BY <1>2
  <2>3. /\ d.whole \in BOOLEAN
        /\ d.whole => /\ proc[p].whole
                      /\ Events(result) = Found(events, status, WindowOf(proc[p], status))
        /\ d.failures = IF result.error = "failed" THEN proc[p].failures + 1 ELSE proc[p].failures
    BY <1>2, <1>5
  <2> QED
    BY <1>1, <1>2, <1>5, <2>1, <2>2, <2>3, AfterOK
<1> QED
  BY <1>1, <1>6, OneCommand

LEMMA StatusRequestOK ==
  ASSUME Inv, NEW p \in Process, NEW status \in Asked, StatusRequest(p, status)
  PROVE  Inv'
<1> DEFINE found == Found(events, status, QueryWindow(p, status))
           result(listed) == [has_events |-> listed # <<>>, events |-> listed, error |-> None]
<1>1. /\ CommandOK(proc[p], events) /\ proc[p].phase = status /\ UNCHANGED <<now, config, events>>
      /\ IsFiniteSet(events) /\ events \subseteq Event
  BY DEF Inv, StatusRequest
<1>0. PICK page \in Pages(found) : \E listed \in NewestFirst(page.events) :
        proc' = [proc EXCEPT ![p] = [After(p, status, result(listed)) EXCEPT !.whole = @ /\ ~page.next]]
  BY DEF StatusRequest
<1>2. PICK listed \in NewestFirst(page.events) :
        proc' = [proc EXCEPT ![p] = [After(p, status, result(listed)) EXCEPT !.whole = @ /\ ~page.next]]
  BY <1>0
<1> DEFINE res == result(listed)
           a == After(p, status, res)
           d == [a EXCEPT !.whole = @ /\ ~page.next]
<1>3. /\ page.events \subseteq found
      /\ page.next \in BOOLEAN
      /\ ~page.next => page.events = found
  BY <1>0, PageFacts
<1>4. /\ res.has_events \in BOOLEAN /\ res.error = None
      /\ res.has_events <=> Events(res) # {}
      /\ Events(res) = page.events
      /\ Sorted(res.events)
  <2>1. page.events \in SUBSET events
    BY <1>3 DEF Found
  <2>2. IsFiniteSet(page.events) /\ page.events \subseteq Event
    BY <1>1, <2>1, FS_Subset
  <2> QED
    BY <1>2, <2>2, ListingFacts DEF Events
<1>5. DOMAIN proc[p] = Fields /\ proc[p].whole \in BOOLEAN
  BY <1>1 DEF CommandOK, Shaped
<1>6. DOMAIN a = Fields /\ a.whole = proc[p].whole /\ a.failures = proc[p].failures
  BY <1>5 DEF After, Fields
<1>7. found = Found(events, status, WindowOf(proc[p], status))
  BY WindowOfProcess
<1> HIDE DEF a, res, found
<1>8. /\ DOMAIN d = Fields
      /\ d.whole = (proc[p].whole /\ ~page.next)
      /\ d.failures = proc[p].failures
      /\ \A f \in Fields \ {"whole", "failures"} : d[f] = a[f]
  BY <1>6 DEF Fields
<1> HIDE DEF d
<1>9. d.whole \in BOOLEAN /\ (d.whole => proc[p].whole /\ Events(res) = found)
  BY <1>3, <1>4, <1>5, <1>8
<1>10. Events(res) \subseteq found
  BY <1>3, <1>4
<1>11. CommandOK(d, events)
  <2>1. \A f \in Fields \ {"whole", "failures"} : d[f] = After(p, status, res)[f]
    BY <1>8 DEF a
  <2>2. /\ Events(res) \subseteq Found(events, status, WindowOf(proc[p], status))
        /\ d.whole => /\ proc[p].whole
                      /\ Events(res) = Found(events, status, WindowOf(proc[p], status))
    BY <1>7, <1>9, <1>10
  <2>3. /\ DOMAIN d = Fields /\ d.whole \in BOOLEAN
        /\ d.failures = IF res.error = "failed" THEN proc[p].failures + 1 ELSE proc[p].failures
    BY <1>4, <1>8, <1>9, NoneAssumption
  <2> HIDE DEF result
  <2> QED
    BY <1>1, <1>4, <2>1, <2>2, <2>3, AfterOK
<1>12. proc' = [proc EXCEPT ![p] = d]
  BY <1>2 DEF a, res, d
<1> QED
  BY <1>1, <1>11, <1>12, OneCommand

LEMMA EnvironmentOK ==
  ASSUME Inv, Tick \/ CreateConfiguration \/ DeleteConfiguration \/ PublishEvent
  PROVE  Inv'
<1>1. proc' = proc /\ events \subseteq events'
  BY DEF Tick, CreateConfiguration, DeleteConfiguration, PublishEvent
<1>2. \A p \in Process : CommandOK(proc[p], events')
  BY <1>1, OkGrows DEF Inv
<1>3. (\A p \in Process : CommandOK(proc[p], events))'
  BY <1>1, <1>2
<1>4. events' \subseteq Event /\ IsFiniteSet(events')
  BY FS_AddElement DEF Inv, Tick, CreateConfiguration, DeleteConfiguration, PublishEvent
<1>5. now' \in 0..MaxTime /\ config' \in {None} \cup 0..now'
  BY TimeAssumption DEF Inv, Tick, CreateConfiguration, DeleteConfiguration, PublishEvent
<1> QED
  BY <1>1, <1>3, <1>4, <1>5 DEF Inv

LEMMA NextOK == Inv /\ [Next]_vars => Inv'
<1> SUFFICES ASSUME Inv, [Next]_vars PROVE Inv'
  OBVIOUS
<1>1. ASSUME NEW p \in Process, NEW r \in Requests[p], Begin(p, r) PROVE Inv'
  BY <1>1, BeginOK
<1>2. ASSUME NEW p \in Process, GetStatusFails(p) \/ FetchFails(p) PROVE Inv'
  BY <1>2, FailsOK
<1>3. ASSUME NEW p \in Process, GetStatus(p) PROVE Inv'
  BY <1>3, GetStatusOK
<1>4. ASSUME NEW p \in Process, Fetch(p) PROVE Inv'
  BY <1>4, FetchOK
<1>5. ASSUME NEW p \in Process, NEW status \in Asked, StatusRequestFails(p, status) PROVE Inv'
  BY <1>5, StatusRequestFailsOK
<1>6. ASSUME NEW p \in Process, NEW status \in Asked, StatusRequest(p, status) PROVE Inv'
  BY <1>6, StatusRequestOK
<1>7. CASE Tick \/ CreateConfiguration \/ DeleteConfiguration \/ PublishEvent
  BY <1>7, EnvironmentOK
<1>8. CASE UNCHANGED vars
  BY <1>8 DEF vars, Inv
<1> QED
  BY <1>1, <1>2, <1>3, <1>4, <1>5, <1>6, <1>7, <1>8 DEF Next, Run, Asked

-----------------------------------------------------------------------------
(* The properties. *)

(* Inv, which says of every command what its answers so far mean.          *)
THEOREM CommandsAreSound == Spec => []Inv
<1> QED
  BY InitOK, NextOK, PTL DEF Spec

(* The variables keep their types, and a result that check_status_operation *)
(* filed under a status holds visible events of that status only.          *)
THEOREM StatusTypes == Spec => []TypeOK
<1>1. Inv => TypeOK
  <2>1. ASSUME NEW c, Shaped(c, events) PROVE ProcessOK(c)
    BY <2>1 DEF Shaped, ProcessOK, Open, Events
  <2> QED
    BY <2>1 DEF Inv, CommandOK, TypeOK
<1> QED
  BY <1>1, CommandsAreSound, PTL

(* The verdict of render_status_assessment is that of what is visible, or  *)
(* a lower one.                                                            *)
LEMMA SupportedVerdict ==
  ASSUME NEW c, NEW visible, visible \subseteq Event, CommandOK(c, visible), Assessed(c)
  PROVE  Rank[c.report.overall] <= Rank[Best(visible, c.created, c.window)]
<1>1. Working(c) /\ c.report.overall = Overall(c.results)
  BY DEF CommandOK, Supported, Working, render_status_assessment
<1>2. c.window.start \in Int /\ c.window.end \in Int /\ c.created \in Nat
  BY <1>1 DEF CommandOK, Shaped, Underway
<1>3. \A s \in Asked : Has(c, s) => Found(visible, s, WindowOf(c, s)) # {}
  BY <1>1 DEF CommandOK, Shaped, Supported, Has
<1>4. Rank[Best(visible, c.created, c.window)] \in 0..3
  BY DEF Rank, Best
<1>5. CASE Has(c, "ACTIVE")
  <2>1. c.window.end > c.created
    BY <1>1, <1>5 DEF CommandOK, Supported
  <2>2. PICK e \in Found(visible, "ACTIVE", WindowOf(c, "ACTIVE")) : TRUE
    BY <1>3, <1>5 DEF Asked
  <2>3. e \in Event /\ e.time \in Nat
    BY <2>2, EventFields DEF Found
  <2>4. e \in Found(visible, "ACTIVE", c.window) /\ e.time >= c.created
    BY <1>2, <2>2, <2>3, NoneAssumption DEF Found, InWindow, WindowOf
  <2>5. Best(visible, c.created, c.window) = "ACTIVE"
    BY <2>1, <2>4 DEF Best
  <2> QED
    BY <1>1, <1>5, <2>5 DEF Overall, Rank, Has
<1>6. CASE ~Has(c, "ACTIVE") /\ Has(c, "READY")
  <2>1. Found(visible, "READY", c.window) # {}
    BY <1>3, <1>6 DEF WindowOf, Asked
  <2> QED
    BY <1>1, <1>6, <2>1 DEF Overall, Rank, Has, Best
<1>7. CASE ~Has(c, "ACTIVE") /\ ~Has(c, "READY") /\ Has(c, "ERROR")
  <2>1. Found(visible, "ERROR", c.window) # {}
    BY <1>3, <1>7 DEF WindowOf, Asked
  <2> QED
    BY <1>1, <1>7, <2>1 DEF Overall, Rank, Has, Best
<1>8. CASE ~Has(c, "ACTIVE") /\ ~Has(c, "READY") /\ ~Has(c, "ERROR")
  BY <1>1, <1>4, <1>8 DEF Overall, Rank, Has
<1> QED
  BY <1>5, <1>6, <1>7, <1>8

(* check-status never claims more than the visible events support, though  *)
(* its answers are of different moments and the configuration may be       *)
(* deleted and made again between them.                                    *)
THEOREM VerdictsAreSupported == Spec => []VerdictIsSupported
<1>1. Inv => VerdictIsSupported
  BY SupportedVerdict DEF Inv, VerdictIsSupported
<1> QED
  BY <1>1, CommandsAreSound, PTL

(* The verdict is at least that of what was visible at first, when every   *)
(* answer was whole.                                                       *)
LEMMA CompleteVerdict ==
  ASSUME NEW c, NEW visible, visible \subseteq Event, CommandOK(c, visible), Assessed(c), c.whole
  PROVE  Rank[c.report.overall] >= Rank[Best(c.before, c.created, c.window)]
<1>1. Working(c) /\ c.report.overall = Overall(c.results)
  BY DEF CommandOK, Supported, Working, render_status_assessment
<1>2. /\ c.window.start \in Int /\ c.window.end \in Int /\ c.created \in Nat
      /\ c.before \subseteq Event
  BY <1>1 DEF CommandOK, Shaped, Underway
<1>3. /\ ~Has(c, "ACTIVE") /\ c.window.end > c.created
           => Found(c.before, "ACTIVE", WindowOf(c, "ACTIVE")) = {}
      /\ ~Has(c, "ACTIVE") /\ ~Has(c, "READY") => Found(c.before, "READY", c.window) = {}
      /\ ~Has(c, "ACTIVE") /\ ~Has(c, "READY") /\ ~Has(c, "ERROR")
           => Found(c.before, "ERROR", c.window) = {}
  BY <1>1 DEF CommandOK, NothingPassedOver, Past
<1>4. ~Has(c, "ACTIVE") => Best(c.before, c.created, c.window) # "ACTIVE"
  <2> SUFFICES ASSUME ~Has(c, "ACTIVE"), c.window.end > c.created,
                      NEW e \in Found(c.before, "ACTIVE", c.window), e.time >= c.created
               PROVE  FALSE
    BY DEF Best
  <2>1. e.time \in Nat
    BY <1>2, EventFields DEF Found
  <2>2. e \in Found(c.before, "ACTIVE", WindowOf(c, "ACTIVE"))
    BY <1>2, <2>1, NoneAssumption DEF Found, InWindow, WindowOf
  <2> QED
    BY <1>3, <2>2
<1>5. Best(c.before, c.created, c.window) \in {"ACTIVE", "READY", "ERROR", "PENDING"}
  BY DEF Best
<1>6. ~Has(c, "ACTIVE") /\ ~Has(c, "READY") => Best(c.before, c.created, c.window) # "READY"
  BY <1>3 DEF Best
<1>7. ~Has(c, "ACTIVE") /\ ~Has(c, "READY") /\ ~Has(c, "ERROR")
        => Best(c.before, c.created, c.window) # "ERROR"
  BY <1>3 DEF Best
<1> QED
  BY <1>1, <1>4, <1>5, <1>6, <1>7 DEF Overall, Rank, Has

(* When its requests were answered in full, check-status misses nothing    *)
(* that was visible when it asked the first.                               *)
THEOREM VerdictsMissNothing == Spec => []VerdictMissesNothingEarlier
<1>1. Inv => VerdictMissesNothingEarlier
  BY CompleteVerdict DEF Inv, VerdictMissesNothingEarlier
<1> QED
  BY <1>1, CommandsAreSound, PTL

(* The listings begin with their newest event, so do the suggestions end.  *)
LEMMA TipsOf ==
  ASSUME NEW listed, Sorted(listed), listed # <<>>, TipCount > 0
  PROVE  /\ \A i, j \in DOMAIN Tips(listed) : i < j => Tips(listed)[i].time <= Tips(listed)[j].time
         /\ \A e \in Range(listed) : e.time <= Tips(listed)[Len(Tips(listed))].time
<1> DEFINE n == Len(listed)
           m == IF n < TipCount THEN n ELSE TipCount
           tips == Tips(listed)
<1>1. /\ listed \in [1..n -> Event] /\ n \in Nat \ {0}
      /\ \A i, j \in 1..n : i < j => listed[i].time >= listed[j].time
      /\ \A i \in 1..n : listed[i].time \in Nat
  BY EmptySeq, LenProperties, EventFields DEF Sorted
<1>2. m \in 1..n
  BY <1>1, TipCountAssumption
<1> HIDE DEF m, n
<1>3. Newest(listed) = SubSeq(listed, 1, m)
  BY DEF Newest, m, n
<1>4. Len(Newest(listed)) = m /\ \A i \in 1..m : Newest(listed)[i] = listed[i]
  BY <1>1, <1>2, <1>3, SubSeqProperties
<1>5. /\ DOMAIN tips = 1..m /\ Len(tips) = m
      /\ \A i \in 1..m : tips[i] = listed[m - i + 1]
  BY <1>2, <1>4 DEF Tips, Reverse
<1> HIDE DEF tips
<1>6. \A i, j \in 1..m : i < j => tips[i].time <= tips[j].time
  BY <1>1, <1>2, <1>5
<1>7. tips[m] = listed[1]
  BY <1>2, <1>5
<1>8. \A e \in Range(listed) : e.time <= listed[1].time
  <2> SUFFICES ASSUME NEW i \in 1..n PROVE listed[i].time <= listed[1].time
    BY <1>1 DEF Range
  <2> QED
    BY <1>1
<1> QED
  BY <1>5, <1>6, <1>7, <1>8 DEF tips

(* The times that render_status_assessment suggests run from older to      *)
(* newer and end with the newest ACTIVE event of the answer.               *)
THEOREM TipsAreTheNewest == Spec => []TipsEndWithTheNewest
<1>1. Inv => TipsEndWithTheNewest
  <2> SUFFICES ASSUME NEW c, CommandOK(c, events), Assessed(c),
                      Range(c.results["ACTIVE"].events) # {}, TipCount > 0
               PROVE  /\ \A i, j \in DOMAIN c.report.tips :
                           i < j => c.report.tips[i].time <= c.report.tips[j].time
                      /\ \A e \in Range(c.results["ACTIVE"].events) :
                           e.time <= c.report.tips[Len(c.report.tips)].time
    BY DEF Inv, TipsEndWithTheNewest
  <2>1. c.report.tips = Tips(c.results["ACTIVE"].events)
    BY DEF CommandOK, Supported, Working, render_status_assessment
  <2>2. Sorted(c.results["ACTIVE"].events) /\ c.results["ACTIVE"].events # <<>>
    BY NoEvents DEF CommandOK, Listed, Asked
  <2> QED
    BY <2>1, <2>2, TipsOf
<1> QED
  BY <1>1, CommandsAreSound, PTL

(* What get-status confirms was there, and what it denies without a hint   *)
(* at more pages was not.                                                  *)
THEOREM ConfirmationsAreTrue == Spec => []ConfirmationIsTrue
<1>1. Inv => ConfirmationIsTrue
  BY DEF Inv, CommandOK, Confirmed, ConfirmationIsTrue
<1> QED
  BY <1>1, CommandsAreSound, PTL

(* The report of check-status shows every one of its requests that failed. *)
THEOREM NoFailureIsHidden == Spec => []FailuresAreShown
<1>1. Inv => FailuresAreShown
  <2> SUFFICES ASSUME NEW c, CommandOK(c, events), Assessed(c)
               PROVE  Cardinality({s \in DOMAIN c.report.sections : c.report.sections[s] = "failed"})
                        = c.failures
    BY DEF Inv, FailuresAreShown
  <2>1. /\ c.report.sections = [s \in Shown(c.results) |-> Section(c.results[s])]
        /\ DOMAIN c.results = Asked
        /\ c.failures = Cardinality(FailedIn(c.results))
        /\ FailedIn(c.results) \subseteq Shown(c.results)
    BY DEF CommandOK, Shaped, Supported, Counted, Working, render_status_assessment
  <2>2. Shown(c.results) \subseteq Asked
    BY <2>1 DEF Shown, Asked
  <2>3. \A s \in Asked : Section(c.results[s]) = "failed" <=> c.results[s].error = "failed"
    BY NoneAssumption DEF Section
  <2>4. {s \in DOMAIN c.report.sections : c.report.sections[s] = "failed"} = FailedIn(c.results)
    BY <2>1, <2>2, <2>3 DEF FailedIn
  <2> QED
    BY <2>1, <2>4
<1> QED
  BY <1>1, CommandsAreSound, PTL
=============================================================================
