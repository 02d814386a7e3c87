--------------------------- MODULE SnapshotQuery ----------------------------
(***************************************************************************)
(* The two snapshot commands of the aws-observability skill.  search and   *)
(* sample start one CloudWatch Logs Insights query around the time of a    *)
(* status event, poll until it ends or the time is up, and print what was  *)
(* found or write it to a file.                                            *)
(*                                                                         *)
(* Logs Insights is external: records become visible in it late and in any *)
(* order, and a query ends when and how it likes, whether or not the       *)
(* command still waits.  Times are in ticks, Second of them a second.      *)
(***************************************************************************)
EXTENDS SnapshotParsing, FiniteSets

CONSTANTS
  None,
  Log,          \* what the records hold that may appear in the service's log group
  Requests,     \* what the command may be asked
  Garbled,      \* a time that is not ISO 8601
  NotANumber,   \* a number argument that is none
  Second,       \* ticks of a second
  Large,        \* the messages longer than _RAW_SNAPSHOT_SIZE_THRESHOLD
  InitialFiles, \* what may be at the --out path before
  MaxNap        \* bound: the seconds one round of polling may take

ASSUME SecondAssumption == Second \in Nat \ {0}
ASSUME MaxNapAssumption == MaxNap \in Nat \ {0}
ASSUME NoneAssumption == None \notin Int
ASSUME InputAssumption == Garbled \notin Int /\ NotANumber \notin Int /\ Garbled # None
ASSUME LogAssumption == \A e \in DOMAIN Log : Log[e].time \in Int
(* A JSON object has finitely many keys; those of the lines are texts.     *)
IsObject(f) == IsFiniteSet(DOMAIN f) /\ f = [key \in DOMAIN f |-> f[key]]
ASSUME LinesAssumption ==
  \A e \in DOMAIN Log :
    LET lines == LineCaptures(Log[e].message) IN
    /\ IsObject(lines) /\ DOMAIN lines \subseteq DOMAIN LineNumber \cup DOMAIN TextOrder
    /\ \A l \in LinesOf(lines), what \in {"locals", "arguments", "throwable"} :
         IsObject(DictAt(lines[l].of, what))
ASSUME RequestsAssumption ==
  \A r \in Requests :
    /\ r.op \in {"search", "sample"}
    /\ r.status_timestamp \in Int \cup {Garbled}
    /\ r.op = "search" =>
         /\ r.limit \in Int \cup {NotANumber}
         /\ {r.start_time, r.end_time} \subseteq Int \cup {None, Garbled}
ASSUME FilesAssumption ==
  \A f \in InitialFiles :
    /\ DOMAIN f = {"kind", "holds", "private"}
    /\ f.holds = "old" /\ f.private \in BOOLEAN

VARIABLES
  logs,   \* the visible records
  query,  \* the query at Logs Insights
  call,   \* the running command
  file    \* what is at the --out path

vars == <<logs, query, call, file>>

Records == DOMAIN Log

NoQuery == [status |-> "none"]
NoReport == [status |-> "none"]

Init ==
  /\ logs = {}
  /\ query = NoQuery
  /\ file \in InitialFiles
  /\ call = [ phase |-> "new", request |-> None, waited |-> 0, report |-> NoReport, exit |-> None,
              before |-> {} ]  \* history: the records visible when the command began

-----------------------------------------------------------------------------
(* The window, in whole seconds: the fraction is cut off. *)
SearchBefore == 5 * Second
SearchAfter == 60 * Second
SampleBefore == 30 * Second
SampleAfter == 90 * Second

Window(r) ==
  IF r.op = "sample"
    THEN [start |-> r.status_timestamp - SampleBefore, end |-> r.status_timestamp + SampleAfter]
  ELSE IF r.start_time = None
    THEN [start |-> r.status_timestamp - SearchBefore, end |-> r.status_timestamp + SearchAfter]
  ELSE [start |-> r.start_time, end |-> r.end_time]

\* Mutant: the epoch is rounded up.
EpochUp(time) == (time + Second - 1) \div Second

Epoch(time) == time \div Second

(* A filter, and each fragment of one, is the alternatives it joins by     *)
(* "or", each the set of records it selects; one without any is blank.     *)
Selects(alternatives) == UNION Range(alternatives)

(* Mutant: the parentheses around the alternatives are missing.            *)
build_base_filtersOpen(r) ==
  << {e \in Records : Log[e].hash = r.hash /\ Log[e].service = r.service},
     {e \in Records : Log[e].service = None /\ Log[e].environment = r.environment},
     {e \in Records : Log[e].environment_name = r.environment},
     {e \in Records : Log[e].environment = None} >>

(* An absent attribute matches, and for the environment it is the older of *)
(* its two keys that counts as the attribute.                              *)
build_base_filters(r) ==
  << {e \in Records :
        /\ Log[e].hash = r.hash
        /\ Log[e].service \in {None, r.service}
        /\ \/ Log[e].environment \in {None, r.environment}
           \/ Log[e].environment_name = r.environment} >>

(* custom_filters: None, one bare fragment or a sequence of them. *)
Fragments(r) ==
  IF r.op = "sample" \/ r.custom_filters = None THEN <<>>
  ELSE IF "bare" \in DOMAIN r.custom_filters THEN <<r.custom_filters.bare>>
  ELSE r.custom_filters.list

ASSUME FragmentsAssumption ==
  \A r \in Requests :
    Fragments(r) \in Seq([text : Seq(SUBSET Records), balanced : BOOLEAN])

Parts(r) ==
  [ i \in 1..Len(Fragments(r)) + 1 |->
      IF i = 1 THEN build_base_filters(r) ELSE Fragments(r)[i - 1].text ]

(* The parts are appended with " and " and no parentheses.  It binds       *)
(* tighter than "or": the last alternative of a part belongs together with *)
(* the first one of the next, and so on over parts of one alternative.     *)
Filter(r) ==
  LET parts == Parts(r) IN
  {e \in Records :
     \E i \in DOMAIN parts : \E a \in (IF i = 1 THEN 1 ELSE 2)..Len(parts[i]) :
       /\ e \in parts[i][a]
       /\ a = Len(parts[i]) =>
            \A j \in i + 1..Len(parts) :
              parts[j] # <<>> /\ (\A k \in i + 1..j - 1 : Len(parts[k]) <= 1) => e \in parts[j][1]}

(* A hash that is not of 16 hex digits is None. *)
Accepts(r) ==
  /\ r.hash # None
  /\ r.status_timestamp # Garbled
  /\ r.op = "search" =>
       /\ r.limit # NotANumber
       /\ (r.start_time = None) = (r.end_time = None)
       /\ r.start_time # None => /\ Garbled \notin {r.start_time, r.end_time}
                                 /\ r.end_time > r.start_time
       /\ \A fragment \in Range(Fragments(r)) : fragment.text # <<>> => fragment.balanced

QueryOf(r) ==
  [ status |-> "Running",
    filter |-> Filter(r),
    start |-> Epoch(Window(r).start), end |-> Epoch(Window(r).end),
    order |-> IF r.op = "search" THEN "asc" ELSE "desc",
    limit |-> IF r.op = "search" THEN r.limit ELSE 1,
    results |-> <<>> ]

(* Logs Insights: the window includes both its seconds. *)
InWindow(e, q) == q.start * Second <= Log[e].time /\ Log[e].time <= q.end * Second

(* As many of the records found as the limit allows, sorted by their time. *)
Answers(visible, q) ==
  LET found == {e \in visible \cap q.filter : InWindow(e, q)}
      Precedes(e, f) == IF q.order = "asc" THEN Log[e].time <= Log[f].time
                        ELSE Log[e].time >= Log[f].time
  IN {s \in UNION {[1..n -> found] : n \in 0..q.limit} :
        /\ \A i, j \in DOMAIN s : i < j => s[i] # s[j] /\ Precedes(s[i], s[j])
        /\ \A e \in found \ Range(s) : Len(s) = q.limit /\ \A i \in DOMAIN s : Precedes(s[i], e)}

-----------------------------------------------------------------------------
(* The report. *)
QueryFailures == {"ERROR", "TIMEOUT", "POLLING TIMEOUT", "FAILED", "CANCELLED"}
\* Mutant: a cancelled query passes for an answer.
is_failureShort(report) == report.status \in QueryFailures \ {"CANCELLED"}

is_failure(report) == report.status \in QueryFailures
Reported == [Error |-> "ERROR", Timeout |-> "TIMEOUT", Failed |-> "FAILED", Cancelled |-> "CANCELLED"]

Failure(how) == [status |-> Reported[how]]

(* An atom stands for a message that is not JSON, which is as good as {}.  *)
(* The summaries take JSON to be an object without asking.                 *)
AsJson(message) == IF message.is = "atom" THEN Dict(Empty) ELSE message

Summary ==
  [e \in Records |->
     LET data == DataOf(Log[e].message) IN
     [ time |-> Log[e].time,
       snapshot_id |-> At(DictAt(data, "attributes"), "aws.di.snapshot_id"),
       traceId |-> At(data, "traceId"), spanId |-> At(data, "spanId") ]]

Compact == [e \in Records |-> parse_snapshot_fields(Log[e].message)]

render_search(results) ==
  IF \E i \in DOMAIN results : IsList(Log[results[i]].message) THEN [status |-> "crash"]
  ELSE [ status |-> "Complete",
         results |-> results,
         snapshot_summaries |-> [i \in DOMAIN results |-> Summary[results[i]]] ]

render_sample(results, include_raw) ==
  IF results = <<>> THEN [status |-> "NO_SNAPSHOTS_FOUND", results |-> <<>>]
  ELSE LET message == Log[results[1]].message
           use_parsed == message \in Large /\ ~include_raw
       IN [ status |-> "SUCCESS",
            results |-> results,
            parsed |-> use_parsed,
            sample_snapshot |-> IF use_parsed THEN Compact[results[1]] ELSE AsJson(message) ]

render(r, results) ==
  IF r.op = "search" THEN render_search(results) ELSE render_sample(results, r.include_raw)

(* The command has its result: it prints it, or goes on to write it.  What *)
(* escapes main ends the command with a traceback.                         *)
Finish(report) ==
  LET exit == IF report.status = "crash" \/ is_failure(report) THEN 1 ELSE 0 IN
  call' = IF report.status = "crash" THEN [call EXCEPT !.phase = "done", !.exit = 1]
          ELSE IF call.request.out THEN [call EXCEPT !.phase = "open", !.report = report]
          ELSE [call EXCEPT !.phase = "done", !.report = report, !.exit = exit]

EndWith(exit) == call' = [call EXCEPT !.phase = "done", !.exit = exit]

-----------------------------------------------------------------------------
(* The command. *)
(* No payload can be read, or it does not bind to the operation's          *)
(* parameters.                                                             *)
InvalidArguments ==
  /\ call.phase = "new"
  /\ EndWith(2)
  /\ UNCHANGED <<logs, query, file>>

Begin(r) ==
  /\ call.phase = "new"
  /\ call' = [call EXCEPT !.request = r, !.before = logs, !.phase = "validate"]
  /\ UNCHANGED <<logs, query, file>>

RejectInput ==
  /\ call.phase = "validate"
  /\ ~Accepts(call.request)
  /\ Finish([status |-> "ERROR"])
  /\ UNCHANGED <<logs, query, file>>

(* The client cannot be made, the request fails, or no query ID comes back. *)
StartFails ==
  /\ call.phase = "validate"
  /\ Accepts(call.request)
  /\ Finish(Failure("Error"))
  /\ UNCHANGED <<logs, query, file>>

Start ==
  /\ call.phase = "validate"
  /\ Accepts(call.request)
  /\ QueryOf(call.request).limit >= 1
  /\ query' = QueryOf(call.request)
  /\ call' = [call EXCEPT !.phase = "poll"]
  /\ UNCHANGED <<logs, file>>

(* The time limit is used for the first time when the query runs. *)
BadTimeout ==
  /\ call.phase = "poll"
  /\ call.request.max_timeout = NotANumber
  /\ EndWith(2)
  /\ UNCHANGED <<logs, query, file>>

Waits ==
  /\ call.phase = "poll"
  /\ call.request.max_timeout # NotANumber

(* Nobody stops the query. *)
PollingTimeout ==
  /\ Waits
  /\ call.waited >= call.request.max_timeout
  /\ Finish(Failure("Timeout"))
  /\ UNCHANGED <<logs, query, file>>

GetResultsFails ==
  /\ Waits
  /\ call.waited < call.request.max_timeout
  /\ Finish(Failure("Error"))
  /\ UNCHANGED <<logs, query, file>>

\* Mutant: the time spent is not counted.
GetResultsUncounted ==
  /\ Waits
  /\ call.waited < call.request.max_timeout
  /\ IF query.status = "Complete" THEN Finish(render(call.request, query.results))
     ELSE IF query.status \in {"Failed", "Cancelled"} THEN Finish(Failure(query.status))
     ELSE UNCHANGED call
  /\ UNCHANGED <<logs, query, file>>

GetResults ==
  /\ Waits
  /\ call.waited < call.request.max_timeout
  /\ IF query.status = "Complete" THEN Finish(render(call.request, query.results))
     ELSE IF query.status \in {"Failed", "Cancelled"} THEN Finish(Failure(query.status))
     ELSE \E nap \in 1..MaxNap : call' = [call EXCEPT !.waited = @ + nap]
  /\ UNCHANGED <<logs, query, file>>

-----------------------------------------------------------------------------
(* _write_out.  A symlink at the path is refused; other failures end the   *)
(* command with a traceback too.                                           *)
OpenFails ==
  /\ call.phase = "open"
  /\ EndWith(1)
  /\ UNCHANGED <<logs, query, file>>

OpenOut ==
  /\ call.phase = "open"
  /\ file.kind # "symlink"
  /\ file' = [ kind |-> "file", holds |-> "nothing",
               private |-> IF file.kind = "none" THEN TRUE ELSE file.private ]
  /\ call' = [call EXCEPT !.phase = "chmod"]
  /\ UNCHANGED <<logs, query>>

\* Mutant: the mode given to open is relied on.
FchmodSkipped ==
  /\ call.phase = "chmod"
  /\ call' = [call EXCEPT !.phase = "write"]
  /\ UNCHANGED <<logs, query, file>>

Fchmod ==
  /\ call.phase = "chmod"
  /\ file' = [file EXCEPT !.private = TRUE]
  /\ call' = [call EXCEPT !.phase = "write"]
  /\ UNCHANGED <<logs, query>>

FileStepFails ==
  /\ call.phase \in {"chmod", "write"}
  /\ EndWith(1)
  /\ UNCHANGED <<logs, query, file>>

(* One write, which may take only a part; nobody looks. *)
WriteOut ==
  /\ call.phase = "write"
  /\ \E holds \in {"part", "result"} : file' = [file EXCEPT !.holds = holds]
  /\ EndWith(IF is_failure(call.report) THEN 1 ELSE 0)
  /\ UNCHANGED <<logs, query>>

Sigkill == 137

Killed ==
  /\ call.phase \notin {"new", "done"}
  /\ EndWith(Sigkill)
  /\ UNCHANGED <<logs, query, file>>

Starting == RejectInput \/ StartFails \/ Start
Polling == BadTimeout \/ PollingTimeout \/ GetResults
Writing == OpenFails \/ OpenOut \/ Fchmod \/ FileStepFails \/ WriteOut

-----------------------------------------------------------------------------
(* Logs Insights. *)
Ingest ==
  /\ \E e \in Records \ logs : logs' = logs \cup {e}
  /\ UNCHANGED <<query, call, file>>

(* "Timeout" is a status of the service that the command does not know.    *)
QueryEnds ==
  /\ query.status = "Running"
  /\ \/ \E results \in Answers(logs, query) :
          query' = [query EXCEPT !.status = "Complete", !.results = results]
     \/ \E status \in {"Failed", "Cancelled", "Timeout"} : query' = [query EXCEPT !.status = status]
  /\ UNCHANGED <<logs, call, file>>

Next ==
  \/ InvalidArguments
  \/ \E r \in Requests : Begin(r)
  \/ Starting
  \/ Polling
  \/ GetResultsFails
  \/ Writing
  \/ Killed
  \/ Ingest
  \/ QueryEnds

(* The command does not stop by itself, its requests end, for the SDK sets *)
(* them a time limit, and time passes.  No poll need fail and no query end. *)
Spec ==
  /\ Init /\ [][Next]_vars
  /\ WF_vars(Starting) /\ WF_vars(Polling) /\ WF_vars(Writing)
-----------------------------------------------------------------------------
(* Properties. *)
Phases == {"new", "validate", "poll", "open", "chmod", "write", "done"}
Statuses == {"none", "Complete", "SUCCESS", "NO_SNAPSHOTS_FOUND"} \cup QueryFailures

(* Types; a command has an exit code once it is done, and leaves a query   *)
(* that was started in place.                                              *)
TypeOK ==
  /\ logs \subseteq Records
  /\ call.phase \in Phases
  /\ call.exit \in {None, 0, 1, 2, Sigkill}
  /\ call.phase = "done" <=> call.exit # None
  /\ call.report.status \in Statuses
  /\ call.phase = "poll" => query.status # "none"
  /\ file.private \in BOOLEAN

(* A record of the location, of no other service. *)
OfTheLocation(e, r) == Log[e].hash = r.hash /\ Log[e].service \in {None, r.service}

(* Custom filters are to be "appended with `and`". *)
PassesCustomFilters(e, r) ==
  \A fragment \in Range(Fragments(r)) : fragment.text # <<>> => e \in Selects(fragment.text)

(* Agents name their environment under either key, under both or not at    *)
(* all.                                                                    *)
NamedEnvironments(e) == {Log[e].environment, Log[e].environment_name} \ {None}

(* What the caller asks for, whichever agent wrote it. *)
Wanted(r) ==
  {e \in Records :
     /\ OfTheLocation(e, r) /\ PassesCustomFilters(e, r)
     /\ NamedEnvironments(e) # {} => r.environment \in NamedEnvironments(e)}

Answered == call.exit = 0

(* Exit code 0 is only given with the report of a query that ran to its    *)
(* end, all its results in it: no failure of validation, start, polling or *)
(* query passes.  With --out it is given only after the write, which may   *)
(* have left the end of the report out.                                    *)
ExitZeroIsTheAnswer ==
  Answered => /\ query.status = "Complete"
              /\ call.report.results = query.results
              /\ call.report.status = "NO_SNAPSHOTS_FOUND" => query.results = <<>>
              /\ call.request.out => file.holds \in {"part", "result"}

(* An answer leaves out no record that was visible when the command began  *)
(* and lies in the documented window, its last second aside, unless the    *)
(* limit is used up by older records (search) or newer ones (sample).      *)
NothingMissed ==
  LET r == call.request
      due == {e \in call.before \cap Wanted(r) :
                Window(r).start <= Log[e].time /\ Log[e].time <= Window(r).end - Second}
      shown == call.report.results
      limit == IF r.op = "search" THEN r.limit ELSE 1
  IN Answered =>
       \A e \in due \ Range(shown) :
         /\ Len(shown) = limit
         /\ \A i \in DOMAIN shown : IF r.op = "search" THEN Log[shown[i]].time <= Log[e].time
                                    ELSE Log[shown[i]].time >= Log[e].time

HasAlternatives(r) == \E fragment \in Range(Fragments(r)) : Len(fragment.text) > 1

(* Whatever custom filters are pasted into the query, an answer holds      *)
(* nothing after the window, and nothing a second or more before it.  Only *)
(* snapshots of the location that satisfy every custom filter are in it,   *)
(* unless a filter joins alternatives by "or": it is appended without      *)
(* parentheses, and widens the search.  An environment need not be the one *)
(* asked for: if it is named under the newer key alone, nobody compares    *)
(* it, though "an exact match" is documented.                              *)
ResultsFitTheRequest ==
  LET r == call.request IN
  Answered =>
    \A e \in Range(call.report.results) :
      /\ Window(r).start - Second < Log[e].time /\ Log[e].time <= Window(r).end
      /\ HasAlternatives(r) \/ (OfTheLocation(e, r) /\ PassesCustomFilters(e, r))

(* Captured data is never in a file that others may read, whatever was at  *)
(* the path and wherever the command is stopped.                           *)
DataOnlyInPrivateFile == file.holds \in {"part", "result"} => file.private

(* The compact summary lists exactly the lines that captured something,    *)
(* numbers in numeric order and before other texts, with every local.      *)
Captured(line) ==
  /\ IsDict(line)
  /\ \/ \E what \in {"locals", "arguments", "throwable"} : DictAt(line.of, what) # Empty
     \/ At(line.of, "return_value") # Nothing

SummaryShowsEveryLine ==
  Answered /\ call.report.status = "SUCCESS" /\ call.report.parsed =>
    LET lines == LineCaptures(Log[call.report.results[1]].message)
        summary == call.report.sample_snapshot
        listed == summary.line_numbers
    IN /\ Range(listed) = {l \in DOMAIN lines : Captured(lines[l])}
       /\ \A i, j \in DOMAIN listed : i < j /\ listed[j] \in DOMAIN LineNumber =>
            /\ listed[i] \in DOMAIN LineNumber
            /\ LineNumber[listed[i]] <= LineNumber[listed[j]]
       /\ \A l \in Range(listed) : \A name \in DOMAIN DictAt(lines[l].of, "locals") :
            name \in DOMAIN summary.line_locals[l]

(* A command that has begun ends, though its query need not.               *)
CommandEnds == call.phase = "validate" ~> call.phase = "done"
=============================================================================
