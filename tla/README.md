# Kiro usage pipeline: TLA+ specification

This directory specifies in TLA+ the Kiro usage pipeline (the ingest function
and the Grafana provisioner) and the dynamic-instrumentation commands of the
`aws-observability` skill that the repository carries. It model-checks them with
TLC and proves their main safety properties with TLAPS.

## The system

Kiro writes User Activity Report CSVs to a versioned raw S3 bucket. S3 notifies
a .NET Lambda, which filters each report by the Target List (an SSM parameter)
and writes Parquet facts to the analytics bucket, where Athena and Managed
Grafana read them. A second Lambda, a CloudFormation custom resource, configures
the Grafana workspace. Separate from the pipeline are two Python commands under
`.pi/skills/aws-observability/scripts`, with which an agent sets breakpoints and
probes in a running service (`di_instrumentation.py`) and reads the snapshots
they capture (`di_snapshots.py`).

| Component | State it keeps | Operations | Interaction |
|---|---|---|---|
| `IngestService.ProcessCsvAsync` | facts under `usage_daily/`, `model_messages/`; sequencers under `ingest-state/`; locals of a call | one call per report version | S3 and SSM requests, each awaited |
| `IngestService.ProcessBackfillAsync`, `LambdaBackfillContinuationScheduler` | none beyond the event | one page of the raw bucket, and a self-invocation for the next | calls `ProcessCsvAsync`; Lambda `Invoke` |
| `Function`, `BackfillRequest`, `IngestSource` | none | dispatch by payload, record loop | called by Lambda, calls the service |
| Lambda's event queue, as `IngestPipeline` configures it | queued events, attempts, dead-letter queue | reserved concurrency 1, 2 retries, `OnFailure` | S3, `backfill.sh` and the function itself send to it |
| `IngestService.CompareSequencers`, `IngestSource` | none; the saved sequencer is compared | order of two sequencer texts | called by `ProcessCsvAsync` |
| `ReportTransform`, `Csv`, `ParquetSerialization`, `Facts` | none beyond the locals of a row loop | CSV text and Target List to partitions of facts | called by `ProcessCsvAsync` |
| `KiroGrafanaProvisioner.CustomResourceHandler` | objects inside the Grafana workspace, temporary credentials | Create, Update, Delete of a custom resource | CloudFormation, Managed Grafana, Grafana's HTTP API |
| CDK stacks, `backfill.sh`, dashboards | none at run time | deployment, manual start of a backfill | |
| `di_instrumentation.py`: create, list, get, delete, two batch deletes (`di_crud_*`, `di_validation`, `di_location`, `di_capture`) | none; configurations live in Application Signals | one process per command, one API request | Application Signals, shared with other users |
| `di_instrumentation.py`: get-status, check-status (`di_status_*`) | locals of a command | one request, or up to four in a row | Application Signals, whose events appear with delay |
| `di_snapshots.py`: search, sample (`di_snapshot_*`) | locals of a command, the `--out` file | start a Logs Insights query, poll, render, write | CloudWatch Logs, the file system |
| session, region, gateway, error texts (`di_session`, `di_region`, `di_gateway`, `di_error_translation`, `di_logs_client`) | a cached client | used by all commands | boto3, which repeats requests |

What is hard about it: a report's facts are several objects, written and deleted
by separate requests; any request may fail, or fail after S3 applied it; the
function may be killed between any two requests; events are delivered late,
repeatedly and in any order, are retried, and are interleaved with backfills,
which carry neither version nor sequencer. The provisioner creates credentials
that a kill leaves behind, and its answer may get lost. A command's one request
may be applied and its answer lost, be repeated by the SDK, or be applied after
the command has given up; check-status puts its verdict together from answers of
different moments; a Logs Insights query may end late or never; a result file
passes through several states in which the process may be killed. `PROJECT.json` lists each hazard at
its line with the properties that cover it.

What makes each component correct:

- `ProcessCsvAsync`: queries see one complete generation of a report or none;
  a completed publication repairs whatever was there; the saved sequencer never
  claims work that was not done and never goes back.
- Backfill and event handling: once nothing is queued or running, each report
  shows its newest version and the Target List of the last backfill, or the
  dead-letter queue says that it does not; retries and continuations end.
- Transform: exactly the target users' rows, each in the partition of its body
  date and client type, and one fact of a grain; a report is accepted or rejected
  as a whole, and not for the values of a user who is no target.
- Sequencers: however they are written, events are skipped and processed in the
  order of the numbers they stand for.
- Provisioner: SUCCESS means that the workspace is configured as asked, in every
  part, and that no credential of the attempt is left; waiting ends.
- Instrumentation commands: exit code 0 is the truth about the service; nothing is
  stored that the instrumented process would silently drop; a target is found
  again however it is spelt; get shows what create said.
- Status commands: a verdict is neither more than the events support nor less than
  was visible when the command began.
- Snapshot commands: exit code 0 is the whole answer of a query that completed;
  nothing in the documented window is left out; captured data stays private.

## Modules

| Module | Models |
|---|---|
| `FactStore` | the abstract specification: the facts of a report as one value, and what a call of `ProcessCsvAsync` may do to it |
| `IngestService` | `ProcessCsvAsync` request by request; implements `FactStore` and, for each report, `EventOrder` |
| `IngestFunction` | `Function`, `ProcessBackfillAsync`, the continuation scheduler and Lambda's queue, built on the steps of `FactStore` |
| `EventOrder` | the abstract specification of what sequencers are for: the events of a report are processed in ascending order |
| `Sequencer` | the sequencer texts of one report: which are accepted, how they are compared and saved; implements `EventOrder` |
| `ReportTransform` | from a report and the Target List to the fact files, row by row |
| `GrafanaProvisioner` | the custom resource: its calls, the finally block, the response, Lambda's retries, CloudFormation |
| `InstrumentationInput` | validation, locations and captures: what is accepted, sent and read back |
| `Instrumentation` | the instrumentation commands and Application Signals, on top of `InstrumentationInput` |
| `StatusCheck` | get-status and check-status, request by request, on top of `InstrumentationInput` |
| `SnapshotParsing` | the compact summary of a captured snapshot |
| `SnapshotQuery` | search and sample with their query, report and output file, on top of `SnapshotParsing` |
| `MC...` | the instances for TLC |
| `...Proofs` | theorems about `IngestService`, `IngestFunction`, `Sequencer`, `ReportTransform`, `Instrumentation`, `StatusCheck`, `SnapshotQuery`, `GrafanaProvisioner` and their proofs |

### IngestService

`call` is the local state of the running call; reserved concurrency one means
there is at most one. `call.pc` names the next request:

| `pc` | code in `IngestService.cs` | actions |
|---|---|---|
| `check` | `IsStaleEventAsync`, 59 | `CheckSequencer` |
| `read` | `ReadObjectTextAsync`, 69 | `ReadReport` |
| `targets` | `GetTargetListAsync`, `Transform`, `PrepareOutputsAsync`, 70-74 | `TransformReport` |
| `list` | `FindExistingOutputKeysAsync`, 75 | `ListExisting` |
| `publish` | the PUT loop, 78-84 | `PutOutput`, `PutOutputFails`, `FinishPuts` |
| `reconcile` | the obsolete deletes, 86-94 | `DeleteStale`, `DeleteStaleFails`, `FinishPublication` |
| `save` | `SaveSequencerAsync`, 96-99 | `SaveSequencer`, `SaveSequencerFails` |
| `cleanup` | `TryDeleteOutputsAsync`, 473-496 | `CleanupDelete`, `CleanupDeleteFails`, `FinishCleanup` |
| `done`, `failed` | the return or `throw` | `Return` |

`existing`, `attempted`, `prepared`, `complete` are `existingOutputKeys`,
`attemptedOutputKeys`, the keys of `preparedOutputs` and `publicationComplete`.
A failing write or delete has the parameter `reachedS3`: whether S3 applied it.
`Catch` is the catch block. `Crash` is the end of the Lambda between two
requests. Reports are sets of rows; a row is its user, its partition, whether it
has model messages and whether `Transform` accepts it. The version id of an
upload is its number, and its sequencer is the same number. A blank Target List
parameter is a failing request; a list without addresses is the set `{}`. Two
things are simpler here than in the code and have a module of their own: that
sequencers, which are texts, are ordered as the numbers `IngestService` takes them
for (`Sequencer`, by way of `EventOrder`), and what makes the transform fail and which files it
makes (`ReportTransform`).

`published`, `standing` and `damage` are history variables that no guard reads.
`standing[s]` is the generation last published and not removed since; `damage[s]`
records that a clean-up could not be done: a kill during publication, a failed
clean-up delete, or the failed delete of a call that had nothing to put.

### FactStore and IngestFunction

`FactStore` shows the facts of a source as one `view`: a generation (version and
Target List), `Nothing`, or `Partial`. `IngestFunction` extends it: `CallStep`
takes any step of a call, `Kill` ends the invocation with the call. The queue is
a set of events with their attempt number; any of them may be taken next, given
up by age (`Expire`) or, when the attempts are used up, moved to `dlq` with the
items it left unhandled. `ListPage`, `ScheduleContinuation`, `SkipObject`,
`InvalidKey`, `CallProcessCsv`, `CallReturns` and `EndLoop` are
`ProcessBackfillAsync` and `HandleS3EventAsync`; both loops remember failures and
throw at the end. `Page` is what S3 lists: of the objects that exist after the
token (`ListedAfter`), the first `PageSize` in the order of their keys, and
`IsTruncated` when there are more.

The two halves meet in `FactStore`: `IngestService` implements it
(`ImplementsFactStore`), and every step of `IngestFunction` is one of its steps
(`CallsAreFactStoreCalls`): one call at a time, and of a version that exists.
What is shown about either holds of the other as far as `FactStore` tells.

A source in `Unnotified` has a key that ends in `.CSV`: the notification filter of
the bucket heeds the letter case, the listing code does not.

### Sequencer

`saved` is the sequencer in the state object and `call` that of the call past the
stale check. `Accepted` is what the constructor of `IngestSource` lets through,
`CompareSequencers` the comparison with its trimming of zeros, its comparison of
lengths and the upper case that `OrdinalIgnoreCase` compares in. `SkipStale`,
`Begin`, `Save` and `EndUnsaved` are a call as far as the sequencer is
concerned. `Number` is what the comparison should amount to. `EventOrder` is where
`Sequencer` and `IngestService` meet: `saved` and `running` are numbers there, 0 being
none. `TextsImplementEventOrder` maps a text to its number plus one,
`EventsOfAReportAreInOrder` maps `seqState` and the sequencer of a call that is past
the stale check. So the numbers of `IngestService` keep the order that the texts keep.

### ReportTransform

`pc` goes from `parse` (`Csv.Parse`) through `header` (the header loop and the
required columns), `rows` (one action per row: `SkipRow`, `KeepRow`, `RejectRow`)
and `prepare` (`PrepareOutputsAsync`) to `done`, or to `thrown`. A cell is a value
that is told apart; `Long`, `Double`, `Bool`, `Date`, `Fold` and `ModelOf` say what
the .NET parsers, `OrdinalIgnoreCase` and the model pattern make of it. A fact
holds the row, and a model fact the column, that it comes from, so that a set of
facts stands for the list the code appends to. `IsAcceptable` and `Kept` say the
same of a whole report without a loop.

### GrafanaProvisioner

`inv[n].phase` names the next call of the invocation for request `n`, in the
order of `ProvisionAsync` (`Following`). `Call` is a call that returns,
`CallFails` one that throws with or without effect; `Thrown` leads into the
finally block once the account is known. `Verify` is one round of the health
check. `DeleteToken` and `DeleteAccount` are `DeleteEphemeralCredentialsAsync`,
whose two deletions may each be applied, seen or neither. `Respond` and
`RespondFails` are `RespondAsync`; a failed SUCCESS is followed by FAILED, and a
failed FAILED ends the invocation with an exception, so that Lambda delivers the
request again. All service accounts have one name, so a leftover one refuses the
next (`Accepted`). `stack.late` is a history variable: an invocation was still
at work, or would be again, when CloudFormation was done with its request.

### Instrumentation and InstrumentationInput

A text is `None`, empty, blank or a name; a language or a type is a word and the
letter case it is written in. `Accepts` is everything a command checks before it
builds a request, and `ApiRequest` the request it builds, the one that the SDK
sends. `call[c].phase` goes from `new` to `sent`, `answered` and `done`:
`RejectInput`, `InvalidArguments` and `NoClient` end a command before its
request, `FailLocally` before it leaves, `Report` with the answer and `TimeOut`
without one. `Handle` and `HandleLate` are the service; `Effects` is what a
request may do to the stored configurations and what may be answered, taken from
how the renderers read the answers. `seen`, `stored` and `removed` are history.

### StatusCheck

`proc[p].phase` is the request a command makes next: `get-status`, or `fetch`
and then `ACTIVE`, `READY`, `ERROR` as in `assess`. `After` is the decision after
each of the three. An answer holds all events of its window or any part of them
with a token, newest first (`NewestFirst`); the tips of a verdict are the first
of these, turned round. Meanwhile the clock runs, events become visible (late ones too) and
the configuration is deleted and created again. `before`, `whole`, `failures`
are history.

### SnapshotQuery and SnapshotParsing

`call.phase` goes through `validate`, `poll` and, with `--out`, `open`, `chmod`
and `write`. Times are in ticks, several to the second, since the window is cut
to whole seconds. A fragment of a filter is the sequence of alternatives it joins
by `or`. `Parts` are the base filter and the custom ones, which the code joins by
`and` without parentheses, and `Filter` the records the joined text selects:
`and` binds tighter, so the last alternative of a part belongs together with the
first one of the next. `query` runs at CloudWatch Logs and ends there in any way
or not at all; `Answers` are the results it may complete with, any of the orders
when records have the same time.
`file` is what is at the output path: absent, a file others can read, or a
symlink. A message is a JSON value (`Atom`, `List`, `Dict`), and
`parse_snapshot_fields` goes through it as the code does.

## Runs

| Run | Configuration | Question | Distinct states |
|---|---|---|---|
| `overwrite` | `IngestService.cfg` | safety of one report and its overwrite; refinement of `FactStore` and `EventOrder` | 0.6 million |
| `shared_name` | `SharedName.cfg` | two reports with one base name; termination | 0.13 million |
| `overlap` | `Overlap.cfg` | events, repetitions, backfills, retries of one report; use of `FactStore` | 1.3 million |
| `pages` | `Pages.cfg` | a backfill over two pages with windows, a key without a date and one in `.CSV`; termination | 0.8 million |
| `sequencer` | `Sequencer.cfg` | the order of sequencer texts; refinement of `EventOrder` | 84 thousand |
| `transform` | `ReportTransform.cfg` | reports with good and bad rows and headers, against a reference definition | 18 thousand |
| `instrumentation` | `Instrumentation.cfg` | a create beside any other command, with lost, repeated and late requests | 1.1 million |
| `status_check` | `StatusCheck.cfg` | the verdict of three requests among events and recreation; termination | 0.4 million |
| `snapshot_query` | `SnapshotQuery.cfg` | windows, filters, polling, parsing and the output file; termination | 1.6 million |
| `grafana_provisioner` | `GrafanaProvisioner.cfg` | a create and what follows it, with failures, kills and retries; termination | 0.4 million |
| `exceptions` | `Exceptions.cfg` | violated: see below | |
| `older_events` | `OlderEvents.cfg` | violated: see below | |

**Bounds.** `overwrite` has two versions, two partitions, two users and three
Target Lists, the empty one included: enough for an obsolete usage file, an
obsolete model file and an overwritten file at once, for a legacy output, and for a call reading an older
version than the one published. Calls are not bounded. `shared_name` has two
sources, since sources interact only through legacy names, and pairwise; a row
of one of them does not parse and matters only while its user is a target.
`overlap` bounds what is sent from outside (`MaxSent = 2`, on top of the
notification of each upload) and has one retry instead of two: the attempts differ only in the last one, which goes
to the dead-letter queue. Its batches include one with an invalid record before
two valid ones in reverse order. `pages` has three keys, two to a page: a full
page, a continuation and a last page that is not full. One of the three is
written again with a notification and one without. These two runs stop when
the outside world has sent everything, so deadlock is not checked there.

`sequencer` has every text of up to two of the characters `0`, `9`, `B`, `a`, `g` and
some of three: digits, letters whose ordinal and numeric orders differ, and one
that is no digit; three may be saved (`MaxRecorded`), enough for transitivity.
`transform` has tables of up to three rows out of eight (grains meet pairwise, and a
third row shows that the loop goes on), every good row followed by each of twelve
faults, five headers the code refuses, one in another order and one that names a
model twice. It stops with the report, so deadlock is not checked.

`instrumentation` has two commands, since commands meet only in the stored
configurations, and pairwise: the first is a create with any of some fifty
inputs, every accepted shape and each of its fields changed to what is often
rejected; the second is any other command. The SDK sends a request up to twice
(`MaxAttempts`), which is enough for a repetition of an applied one, other users
make one change (`MaxOthers`), and a batch of ARNs holds at most two (50 in the
code). `status_check` has three moments and three events: one of each status, or
one before and one after a recreation. Two tips stand for five. `snapshot_query`
has a record at each bound of the windows, one of another location, one whose
environment is another but named under the newer key alone, and a second of two ticks; its snapshots hold every shape of captured value. A poll takes up
to two seconds, the limits are one or two. `grafana_provisioner` has two
requests, with Lambda's three deliveries of each, and one poll. All four stop
when their commands or requests have ended, so deadlock is not checked.

**Fairness.** `EveryCallEnds` assumes `WF_vars(ProcessCsv)`: an awaited AWS
request returns or throws, since the SDK limits its attempts and the 15 minute
timeout ends the rest (`Crash`). No outcome is assumed. `EventuallyQuiet`
assumes weak fairness of the running invocation and of starting one while events
are queued, which is what Lambda does for a function whose only slot is free. It
does not assume that an event expires or that any request succeeds.

`CommandsEnd` and `CommandEnds` assume weak fairness of the steps of a command:
it does not stop by itself, and every request ends, since boto3 sets it a time
limit. No request is assumed to succeed and no query to end; `CommandEnds` rests
on the clock, which each poll moves. `HealthCheckEnds` assumes weak fairness of
`Verify` only; the plugin need not register.

**Violated properties.** They state what a comment and the README say of the code.

- `ExceptionsFailClosed`: a version, or Target List, that leaves no rows has
  nothing to put. If the second obsolete delete fails, the catch block finds no
  attempted output and removes nothing: one of the old outputs stays visible.
  `FactsWholeAtRest` therefore exempts this case by `damage`; the retry repairs it.
- `NewerFactsStay`: a backfill saves no sequencer, so an older event that
  arrives after it replaces newer facts. `ConvergedWhenQuiet` shows that this is
  temporary: the event of the newest version is delivered, or is in the
  dead-letter queue.

**Exemptions.** Three passing properties say less than the documentation does,
because the code does less:

- `FailuresAreShown`: check-status takes a failed status request for one that found
  nothing and ends with exit code 0, where `di_result.py` says that `ok` is false
  for any AWS failure. What holds is that its report shows each failure as one.
- `ResultsFitTheRequest`: a custom filter with an `or` is appended without
  parentheses, and the search answers with records of other locations. Of such
  requests, of which the run has one, it says only that the results lie in the
  window. It says nothing of the environment of a record: the comment at
  `di_snapshot_tools.py:26` has Java records require an exact match, but one that
  names its environment under `deployment.environment.name` alone passes as one that
  names none (line 44), whatever the name. The run has such a record, `Elsewhere`,
  and it is in answers to requests for `prod`.
- `OneFactPerGrain`: the `$` of the model pattern lets a line feed at the end
  of a name pass, so a header with `auto_messages` and, in quotes, the same with a
  line feed has two columns of one model, and a row becomes two facts of one date,
  user, client type and model. The run has such a header, exempt here; no
  report of Kiro's has one.

No property says that the file of `--out` holds the whole result, as the help text
does: the one `os.write` may take a part of it without an error, when the file
system fills up or the result is above a limit, its return value is dropped, and
the command ends with exit code 0. The model has this outcome; what holds of it is
that the part is private (`DataOnlyInPrivateFile`), and that exit code 0 does not come
before the write (`ExitZeroIsTheAnswer`, which otherwise speaks of the report, not of
the file).

Each passing property is paired with a plausible bug (`mutants` in
`PROJECT.json`); the bug is written in the module just before the definition it
changes. Every type invariant is proved, and in no run: what a state
holds is told by the properties above.

## Proofs

The theorems hold for all values of the constants that satisfy the named
assumptions of the modules: any sources, base names, partitions, users, report
contents, Target Lists and legacy outputs (`IngestService`); any sources, order of
keys, page size, windows, batches and number of retries (`IngestFunction`); any
sequencer texts
(`Sequencer`); any reports, Target Lists and behaviour of the parsers
(`ReportTransform`); any commands,
requests and foreign configurations (`Instrumentation`); any processes, events
and times (`StatusCheck`); any records, requests, filters and windows
(`SnapshotQuery`); any deployments, attempts and polls (`GrafanaProvisioner`).

| Theorem | Statement |
|---|---|
| `InvariantHolds` | `Spec => []IInv` |
| `TypeCorrect` | `Spec => []TypeOK` |
| `FactsAreWholeAtRest` | `Spec => []FactsWholeAtRest` |
| `CompletePublicationIsExact` | `Spec => []PublicationIsExact` |
| `SavedSequencersArePublished` | `Spec => []SavedSequencerWasPublished` |
| `SequencersNeverDecrease` | `Spec => SequencerNeverDecreases` |
| `ServiceKeepsEventOrder` | `Spec => EventsOfAReportAreInOrder` |
| `CallsNeverStartOver` | `Spec => CallsOnlyAdvance` |
| `ServiceImplementsFactStore` | `Spec => ImplementsFactStore` |
| `IngestFunctionProofs!EveryItemIsAccountedFor` | `Spec => []IInv` |
| `IngestFunctionProofs!TypesAreCorrect` | `Spec => []TypeOK` |
| `IngestFunctionProofs!LiveAndBackfillConverge` | `Spec => []ConvergedWhenQuiet` |
| `IngestFunctionProofs!TargetListReachesEveryReport` | `Spec => []BackfillAppliesTargetList` |
| `IngestFunctionProofs!FunctionUsesFactStore` | `Spec => CallsAreFactStoreCalls` |
| `IngestFunctionProofs!ChainsOfEventsEnd` | `Spec => EventsDoNotBreed` |
| `SequencerProofs!SavedIsTracked` | `Spec => []IInv` |
| `SequencerProofs!OnlyHexadecimalIsSaved` | `Spec => []TypeOK` |
| `SequencerProofs!SavedIsTheNewest` | `Spec => []NewestUnderComparison` |
| `SequencerProofs!EventsAreInNumericOrder` | `Spec => []EventsFollowTheirNumbers` |
| `SequencerProofs!SequencersImplementEventOrder` | `Spec => TextsImplementEventOrder` |
| `ReportTransformProofs!FactsFollowTheRows` | `Spec => []IInv` |
| `ReportTransformProofs!TransformTypes` | `Spec => []TypeOK` |
| `ReportTransformProofs!OnlyTargetsAreKept` | `Spec => []OnlyTargetUsers` |
| `ReportTransformProofs!GrainsAreUnique` | `Spec => []OneFactPerGrain` |
| `ReportTransformProofs!RejectionIsExact` | `Spec => []RejectedWhenUnacceptable` |
| `ReportTransformProofs!FilesAreExact` | `Spec => []FilesHoldTheReport` |
| `InstrumentationProofs!RequestsAreKept` | `Spec => []Inv` |
| `InstrumentationProofs!NothingUnbindableIsStored` | `Spec => []NothingUnbindableStored` |
| `InstrumentationProofs!AnswersAreTracked` | `Spec => []TellInv` |
| `InstrumentationProofs!InstrumentationTypes` | `Spec => []TypeOK` |
| `InstrumentationProofs!SuccessIsTrue` | `Spec => []SuccessWasApplied` |
| `InstrumentationProofs!WhatWasCreatedIsFound` | `Spec => []LookupFindsWhatWasCreated` |
| `InstrumentationProofs!ReportsAgree` | `Spec => []GetAgreesWithCreate` |
| `InstrumentationProofs!ListingIsComplete` | `Spec => []ListingWithoutGuidanceIsComplete` |
| `StatusCheckProofs!CommandsAreSound` | `Spec => []Inv` |
| `StatusCheckProofs!StatusTypes` | `Spec => []TypeOK` |
| `StatusCheckProofs!VerdictsAreSupported` | `Spec => []VerdictIsSupported` |
| `StatusCheckProofs!VerdictsMissNothing` | `Spec => []VerdictMissesNothingEarlier` |
| `StatusCheckProofs!TipsAreTheNewest` | `Spec => []TipsEndWithTheNewest` |
| `StatusCheckProofs!ConfirmationsAreTrue` | `Spec => []ConfirmationIsTrue` |
| `StatusCheckProofs!NoFailureIsHidden` | `Spec => []FailuresAreShown` |
| `SnapshotQueryProofs!QueryIsTracked` | `Spec => []SInv` |
| `SnapshotQueryProofs!SnapshotTypes` | `Spec => []TypeOK` |
| `SnapshotQueryProofs!ExitZeroIsTrue` | `Spec => []ExitZeroIsTheAnswer` |
| `SnapshotQueryProofs!ResultsFit` | `Spec => []ResultsFitTheRequest` |
| `SnapshotQueryProofs!NothingIsMissed` | `Spec => []NothingMissed` |
| `SnapshotQueryProofs!CapturedDataStaysPrivate` | `Spec => []DataOnlyInPrivateFile` |
| `SnapshotQueryProofs!SummaryIsComplete` | `Spec => []SummaryShowsEveryLine` |
| `GrafanaProvisionerProofs!AccountsAreTracked` | `Spec => []Inv` |
| `GrafanaProvisionerProofs!ProvisionerTypes` | `Spec => []TypeOK` |
| `GrafanaProvisionerProofs!NoCredentialOutlivesSuccess` | `Spec => []NoCredentialBehindSuccess` |
| `GrafanaProvisionerProofs!ConfigurationIsTracked` | `Spec => []ConfigInv` |
| `GrafanaProvisionerProofs!SuccessMeansConfigured` | `Spec => []SuccessIsConfigured` |

Those without a module name are in `IngestServiceProofs`.

**IngestService.** The assumptions are those named in `IngestService`: there is a source, contents
are well typed, Target Lists are sets of users, legacy outputs have legacy
names, and a generation is neither `Legacy` nor `NoObject`.

`FactsWholeAtRest` says nothing of a source under publication, so it does not
survive the step that ends one. `IInv` adds what the key lists of the call
account for at each `pc`: while publishing, every object of the source is in
`existing` or `attempted`, and the attempted ones hold the new generation; while
reconciling, everything outside the new outputs is still to be deleted; while
cleaning up, everything that is left is still to be deleted, unless a delete
failed. `InputsOK` ties `prepared` to the version and list that were read, and
`SequencerOK` says that a call past the stale check carries a sequencer above the
saved one. There is one lemma per action. For the other sources the argument is
`OthersKeepFacts`: a PUT goes under a hashed name, which no other source takes
for its own, and a DELETE can hit only a legacy name they share, which no
publication uses.

`ImplementsFactStore` is proved from the same invariant. `AbstractView` shows a
source's facts as `Partial` while it is being published or `damage` names it,
and as what is `standing` otherwise; that this is what the bucket holds is
`FactsWholeAtRest`. There is one lemma per action, which names the step of
`FactStore` it is: the request that first changes something is `Touch`,
`FinishPublication` is `Complete`, the end of a clean-up is `FailClosed` or, when
something could not be deleted, `FailPartial`, and the requests in between leave
the view alone.

`EventsOfAReportAreInOrder` has three kinds of step (`StepOfAnEvent`): the event in
progress goes on or ends, one passes the stale check, or one is saved, which by
`SequencerOK` is above the saved one. That the saved sequencer never goes back
(`SequencerNeverDecreases`) is in no run, since it follows. `CallsOnlyAdvance` is the part of termination
that needs no fairness: every step of a call goes to a later stage or takes a key off
`todo`, which is finite because reports and listings are.

**IngestFunction.** `ConvergedWhenQuiet` and `BackfillAppliesTargetList` speak of
states in which nothing is left to do; `IInv` says of all others who still has to
do what. An item is `Waiting` while it belongs to a queued event, to what the
running invocation has not handled, or to the dead-letter queue. `LiveInv`: the
newest version of a report is waiting until its sequencer is saved. `NewestInv`:
once it is saved the report shows that version, or a backfill that covers the
report is waiting, because only a backfill still writes it; an older event is
skipped. `TargetInv`: a report asked for since the Target List changed shows the
list, or a backfill of it or an event newer than the saved sequencer is waiting.
`TargetCallInv` is needed for a call that has read the list before it
changed: the backfill asked for after the change is then queued behind it, since
there is one invocation at a time. `ScheduleInv` covers a page: a report that is
neither on it nor after its last key did not exist when it was listed, and
`PageOrLater` proves that of the listing itself, for any page size. A new version
uploaded meanwhile is waiting by its notification. A report whose notifications
the filter drops is exempt from `BackfillAppliesTargetList` when it was uploaded
only after the deployment: it may have been uploaded after its page was listed.
Needed of the constants: the order of keys names every source once, batches are
sequences of records, and `Nothing` and `Partial` are no generations.

`EventsDoNotBreed` is to `EventuallyQuiet` what `CallsOnlyAdvance` is to
`EveryCallEnds`. `ScheduleAhead` says that the last key of a truncated page lies after
the token the page was listed with, whatever the bucket holds (`PageIsAhead`); so a
continuation starts later than its page, and a retry has one attempt less to go.

**Sequencer.** A new event is compared with the saved sequencer only, and
`NewestUnderComparison` speaks of every sequencer saved before. The step from one
to the other is that `CompareSequencers` is transitive and antisymmetric on texts
of any length, which the first half of the module proves; `IInv` adds that nothing
was saved while there is no state object, and what an event was skipped for.

`EventsFollowTheirNumbers` needs that the comparison is the numeric one
(`ComparisonIsNumeric`). `Number` is recursive over the text; what is said of it is
shown by `Upwards`, induction stated with a set of naturals in place of a
predicate. `NumberIsValue` shows that the recursion defines a value of each head
of a text; zeros at the head keep it at 0 (`ZerosHaveNoValue`); and where one value
is below another, no digits that follow turn that round (`DigitsKeepOrder`). So a
longer text without leading zeros stands for a larger number, and among texts of
one length the first different digit decides. With that, `BeginInOrder` shows the
begin of a call to be one of `EventOrder`.

**ReportTransform.** `IInv` says that the facts are those of the rows to keep
before `next`, that each of these was valid and of a grain of its own, and what
`pc` says about the parts of the report already passed. The transform is then
compared with `IsAcceptable` when it ends. `Partitions` in the files is exact
because a kept row's date and client type are those of its usage fact.

**Instrumentation.** `NothingUnbindableStored` is not inductive, because a
request may be applied long after it was checked, even after its caller gave up.
`Inv` adds that every request under way, or in `late`, was built from accepted
input of its own call. `CreatedBinds` is the heart: what `CreateAccepts` lets
through, turned into a request, satisfies `Binding`. `Added` shows that nothing
but a create adds a configuration. Needed of the constants: foreign
configurations are not asked for by a call, and a create carries the fields of a
target.

The other properties speak of what a command reports, and rest on `TellInv`: a
configuration in the service is the one made from its create; an answer was given
for the request of the call, from the configurations in `seen`; and the report and
the exit code of a call are `OpResult` of that answer, or of an error. After that
no step is left to consider, and each property is one about the operators:
`SuccessWasApplied` about what `Effects` allows together with an answer,
`LookupFindsWhatWasCreated` about locations (two spellings of one target become the
same request, `parse_lookup_inputs`), `GetAgreesWithCreate` about reading back what
`to_capture_payload` and `to_code_location_dict` wrote. In addition the codes that
stand for "not given" (`None`) must differ from what can be given.

**StatusCheck.** The verdict compares a command with the events at its end, the
invariant compares each status result with two sets that bound it: what is
visible now (`Supported`) and, when every answer was complete, what was visible
when the first was asked for (`NothingPassedOver`). Both survive a growing set of
events, since visible events stay (`OkGrows`). `AfterOK` treats the decision
after any of the three requests. The properties of the report are conjuncts of the
invariant: `Listed` says that the results are in the order Application Signals
lists them in, `Counted` that the failed results are as many as the failed requests,
`Confirmed` what a get-status said of its answer. Needed of the constants: a time
argument is an integer or `Garbled`, `MaxTime` and `TipCount` are naturals, `TheHash`
is one of `Hashes`, events have one of the four statuses, and `None` is neither an
integer nor "failed".

**SnapshotQuery.** A command answers at the end, from a query that Logs Insights
ended at a moment nobody knows. `SInv` therefore says: the query asks what
`QueryOf` makes of the request (`Asks`); once complete, its results are `Answers` of
some state of the log that held all that was visible when the command began
(`Completes`); the report is none, a failure or the rendering of those results
(`Reports`); and the file holds captured data only once it is private (`Private`).
Whatever steps lie between, the properties then are lemmas about one query.
`NothingMissed` needs that no wanted record falls through the filter
(`WantedIsSelected`: of the parts that a record satisfies by another alternative
than the first, the last one starts a run of alternatives it satisfies throughout)
nor through the window, although both its bounds are cut to whole seconds
(`DueIsInWindow`). `ResultsFitTheRequest` needs the other direction of both: what is
in the cut window is in the one asked for but for less than a second before it
(`InWindowFits`), and what passes the filter passes each of its parts, if no custom
one has an `or` (`SelectedFits`). `Wanted` is narrower than the base filter, which lets
an environment pass that is named under the newer key alone. Needed of the
constants: the times and limits of requests are integers or what marks them as
garbled or missing, and fragments are sequences of sets of records.

`SummaryShowsEveryLine` is about `parse_snapshot_fields`. That the lines can be sorted at
all, texts of one number (`3` and `03`) coming in either order, is shown by induction
on the number of lines, with a set of naturals (`Upwards`): of finitely many lines
one comes last (`OneComesLast`), and the others sorted, followed by it, are sorted
(`SortedWithLast`). That a captured value is not lost on its way into the summary needs
no induction over its depth: a preview is null only for null (`PreviewShows`). Needed of
the constants: the key of a line is a text with a number or with a place in order, and
the objects of a message are functions with finitely many keys.

**GrafanaProvisioner.** An account carries the request and the attempt it
belongs to. `Inv` says in which phases the account of the attempt cannot be
there (before its creation, and after a deletion that was seen to succeed), and
that no later attempt has one yet. A success is reported only from such a phase;
afterwards nobody creates an account for that attempt.

`SuccessIsConfigured` needs the order of the calls: `Progress` says for each phase
which parts of the workspace are already as asked, and `ConfigInv` that nobody
undoes them, because every earlier request is `Settled` and CloudFormation sends
the next one only when it is done with the last; `stack.late` marks the case
that it was done too early.

Only model-checked: liveness, that is `EveryCallEnds`, `EventuallyQuiet`,
`CommandsEnd`, `CommandEnds`, `HealthCheckEnds` (TLAPS has no rules for fairness and
`ENABLED` here). What the two violated properties say is refuted by their runs.

## Not modelled

- Parquet encoding, logging, JSON parsing, wiring, IAM policies, dashboards, the
  CDK stacks: no behaviour the properties are about. In particular the 403 that
  S3 answers for a missing state object without list permission is not told from
  any other failure.
- What .NET's parsers make of a text, and CsvHelper's reading of quotes and blank
  lines: `ReportTransform` takes both as given. A listing that S3 truncates
  without a token (`RequireContinuationToken`) is one of the failing requests.
- A PUT that is still under way when the function is killed and lands later.
- Redrive from the dead-letter queue, and deletion of reports.
- Of the instrumentation commands: `--print-contract` and the help texts; the
  wording of reports and error texts; `max_results`, `synced_at` and the
  description of a configuration, which are passed on unseen; the escaping of
  values in a query (hashes and names are taken as they are); the profile, which
  selects credentials only; the client cached within one process, since each
  command is a process of its own; a user who writes to the output path while
  the command does, or who opened the file before its mode was changed and reads it
  after the write; an argument of `search` or `sample` that should be a text and is
  none, which ends the command with a traceback.
- A backfill payload with a blank continuation token: it is rejected as one of an
  unsupported mode is, which the model has.
- Of the provisioner: the expiry of a token 15 minutes after its creation, and
  what the dashboards contain.
- The other skills under `.pi`: instructions, and three sample handlers that are
  to be adapted and that nothing in the repository runs.

## Plan

1. `FactStore`, `IngestService`, their runs and the safety proofs (done).
2. `IngestFunction` and its runs (done).
3. `GrafanaProvisioner`, its run and proofs (done).
4. The instrumentation, status and snapshot commands, their runs, and the proofs
   about `Instrumentation`, `StatusCheck` and `SnapshotQuery` (done).
5. `Sequencer`: `CompareSequencers` against the numeric order, its run and proofs
   (done).
6. `ReportTransform`: header checks, filter, grains, partitions and unpivoting
   against a reference definition, its run and proofs (done).
7. Legacy outputs as a property of their own: what becomes of the legacy facts of
   another report of the same base name.
8. Proofs: `IngestService` implements `FactStore`, `IngestFunction` uses it, its
   events are accounted for, `IngestService` and `Sequencer` implement `EventOrder`;
   every invariant and every action property of a passing run (done).
