-------------------------- MODULE Instrumentation ---------------------------
(***************************************************************************)
(* The instrumentation commands of the aws-observability skill, apart from *)
(* the two status commands: create, list, get, delete and the two batch    *)
(* deletes, from the arguments in the JSON payload to the exit code.       *)
(*                                                                         *)
(* Each call is a process of its own.  It validates its input, builds a    *)
(* client, sends one API request and reports the answer.  Application      *)
(* Signals, which keeps the configurations, and the SDK, which repeats a   *)
(* request whose answer does not come, are external: a request can be      *)
(* applied and its answer lost, and a request given up can be applied      *)
(* later.  Other users of the service add and remove configurations.       *)
(***************************************************************************)
EXTENDS InstrumentationInput, FiniteSets

CONSTANTS
  Call,            \* the processes
  Requests,        \* what each of them may be asked: command, flags, payload
  AwsRegion,       \* the environment variables AWS_REGION
  AwsDefaultRegion, \* and AWS_DEFAULT_REGION, or None
  Foreign,         \* configurations other users of the service create
  MaxArns,         \* 50 in the code
  LocalErrors,     \* why a request may not leave: no endpoint, no credentials, others
  MaxOthers,       \* bound: changes by other users and expiries
  MaxAttempts      \* how often the SDK sends one request

DefaultRegion == "us-east-1"

FurtherToken == "t1"    \* of a next page

ASSUME MaxAttemptsAssumption == MaxAttempts \in Nat \ {0}
ASSUME NoneAssumption == None \notin Int /\ None \notin {"", DefaultRegion, FurtherToken}
ASSUME LanguageAssumption == None \notin {Canonical(language) : language \in Language}
ASSUME FlagAssumption == None \notin BOOLEAN
ASSUME ForeignAssumption ==
  \A g \in Foreign : g.asked = None /\ g.type \in Types /\ g.region # None
ASSUME RequestsAssumption ==
  \A c \in Call : \A r \in Requests[c] :
    /\ r.op \in { "create", "list", "get", "delete", "batch-delete-by-scope",
                  "batch-delete-by-arns" }
    /\ r.op \in {"create", "get", "delete"} =>
         DOMAIN r.target = { "language", "file_path", "code_unit", "class_name", "method_name",
                             "line_number" }
    /\ r.op = "create" =>
         /\ {r.capture.capture_return, r.capture.capture_stack_trace} \subseteq BOOLEAN \cup {None}
         /\ r.capture.limits # None

VARIABLES
  service,  \* the stored configurations
  late,     \* requests given up by their caller that may still be applied
  call,     \* the processes
  others    \* bound: how often somebody else changed the service

vars == <<service, late, call, others>>

NoReply == [kind |-> "none"]
NoReport == [kind |-> "none"]
NoRequest == [op |-> "none"]
NoApi == [method |-> "none"]

NewCall ==
  [ phase |-> "new", request |-> NoRequest, api |-> NoApi, attempts |-> 0,
    reply |-> NoReply, exit |-> None, report |-> NoReport,
    (* History: *)
    seen |-> {},       \* the stored configurations when the request was handled
    stored |-> {},     \* the configurations this call's requests stored
    removed |-> {} ]   \* and those they removed

-----------------------------------------------------------------------------
(* From the arguments to the request. *)
resolve_region(explicit) ==
  IF Truthy(explicit) THEN explicit
  ELSE IF Truthy(AwsRegion) THEN AwsRegion
  ELSE IF Truthy(AwsDefaultRegion) THEN AwsDefaultRegion ELSE DefaultRegion

(* The parameters without a default in the function of each command; the   *)
(* pair (service, environment) is one scope.                               *)
Required(op) ==
  IF op = "batch-delete-by-arns" THEN {"resource_arns", "type"} ELSE {"scope", "type"}

Binds(r) == Required(r.op) \subseteq DOMAIN r

Type(r) == normalize_instrumentation_type(r.type)

CreateAccepts(r) ==
  /\ validate_probe_constraints(Type(r), r.target)
  /\ parse_create_inputs(r.target)
  /\ validate_capture_names(r.capture.capture_arguments)
  /\ validate_capture_names(r.capture.capture_locals)
  /\ r.target.line_number # None => r.capture.capture_locals # None

LookupAccepts(r) == parse_lookup_inputs(r.hash, r.target) # None

(* A blank ARN, or one that is not a string, is None. *)
ArnsAccepted(r) ==
  /\ r.resource_arns # <<>>
  /\ Len(r.resource_arns) <= MaxArns
  /\ None \notin ToSet(r.resource_arns)

Accepts(r) ==
  /\ Type(r) # None
  /\ CASE r.op = "create" -> CreateAccepts(r)
       [] r.op \in {"get", "delete"} -> LookupAccepts(r)
       [] r.op = "batch-delete-by-arns" -> ArnsAccepted(r)
       [] OTHER -> TRUE

CreateRequest(r) ==
  [ method |-> "create", region |-> resolve_region(r.region), type |-> Type(r), scope |-> r.scope,
    Location |-> to_code_location_dict(CodeLocation(r.target)),
    CaptureConfiguration |-> to_capture_payload(CodeCapture(r.target, r.capture)),
    ExpiresAt |-> r.ttl_hours,
    AttributeFilters |-> IF r.attribute_filters = <<>> THEN None ELSE r.attribute_filters ]

ListRequest(r) ==
  [ method |-> "list", region |-> resolve_region(r.region), type |-> Type(r), scope |-> r.scope,
    NextToken |-> OrNone(r.next_token) ]

LookupRequest(r) ==
  [ method |-> r.op, region |-> resolve_region(r.region), type |-> Type(r), scope |-> r.scope,
    LocationIdentifier |-> parse_lookup_inputs(r.hash, r.target) ]

ScopeRequest(r) ==
  [ method |-> "batch-delete-scope", region |-> resolve_region(r.region), type |-> Type(r),
    scope |-> r.scope ]

ArnsRequest(r) ==
  [ method |-> "batch-delete-arns", region |-> resolve_region(r.region), type |-> Type(r),
    arns |-> ToSet(r.resource_arns) ]

ApiRequest(r) ==
  CASE r.op = "create" -> CreateRequest(r)
    [] r.op = "list" -> ListRequest(r)
    [] r.op \in {"get", "delete"} -> LookupRequest(r)
    [] r.op = "batch-delete-by-scope" -> ScopeRequest(r)
    [] r.op = "batch-delete-by-arns" -> ArnsRequest(r)

-----------------------------------------------------------------------------
(* Application Signals.  A configuration is known by its region, type,     *)
(* scope and location, which also make its ARN; the location's hash stands *)
(* for the location.  The enumeration of languages is case-sensitive.      *)
Arn(config) ==
  [region |-> config.region, type |-> config.type, scope |-> config.scope, hash |-> config.Location]

Configuration(api, r) ==
  [ region |-> api.region, type |-> api.type, scope |-> api.scope, Location |-> api.Location,
    CaptureConfiguration |-> api.CaptureConfiguration, ExpiresAt |-> api.ExpiresAt,
    AttributeFilters |-> api.AttributeFilters,
    asked |-> r ]    \* history: the request it comes from

Scoped(api) ==
  {g \in service : g.region = api.region /\ g.type = api.type /\ g.scope = api.scope}

Matching(api) ==
  CASE api.method \in {"get", "delete"} ->
         {g \in Scoped(api) : g.Location = api.LocationIdentifier.value}
    [] api.method = "batch-delete-arns" ->
         {g \in service : Arn(g) \in api.arns /\ g.region = api.region /\ g.type = api.type}
    [] OTHER -> Scoped(api)

(* What handling a request may do: the configurations it adds and removes  *)
(* and the answer.                                                         *)
Effect(add, remove, reply) == [add |-> add, remove |-> remove, reply |-> reply]
Refusal(why) == Effect({}, {}, [kind |-> "refused", why |-> why])

CreateEffects(api, r) ==
  LET config == Configuration(api, r) IN
  IF api.Location.Language.form # "api" THEN {Refusal("invalid")}
  ELSE IF \E g \in service : Arn(g) = Arn(config) THEN {Refusal("conflict")}
  ELSE {Effect({config}, {}, [kind |-> "created", hash |-> config.Location])}

DeleteEffects(api) ==
  IF Matching(api) = {} THEN {Refusal("notFound")}
  ELSE {Effect({}, Matching(api), [kind |-> "deleted"])}

(* A response gives the unions wrapped or flat, or no configuration.       *)
GetEffects(api) ==
  IF Matching(api) = {}
  THEN {Refusal("notFound"), Effect({}, {}, [kind |-> "configuration", config |-> None])}
  ELSE {Effect({}, {}, [kind |-> "configuration", config |-> g, wrapped |-> w]) :
          g \in Matching(api), w \in BOOLEAN}

(* A page may be empty and still have a token for the next one.            *)
ListEffects(api) ==
  {Effect({}, {}, [kind |-> "page", configs |-> p, next |-> FurtherToken]) :
     p \in SUBSET Matching(api)}
  \cup
  {Effect({}, {}, [kind |-> "page", configs |-> p, next |-> None]) :
     p \in IF api.NextToken = None THEN {Matching(api)} ELSE SUBSET Matching(api)}

BatchEffects(api) ==
  LET unknown == IF api.method = "batch-delete-arns" THEN api.arns \ {Arn(g) : g \in Matching(api)}
                 ELSE {}
  IN {Effect({}, gone, [ kind |-> "batch", successes |-> {Arn(g) : g \in gone},
                         errors |-> unknown \cup {Arn(g) : g \in Matching(api) \ gone} ]) :
        gone \in SUBSET Matching(api)}

(* Any request can also be refused, for permissions or for its rate.       *)
Effects(api, r) ==
  {Refusal("denied")} \cup
  CASE api.method = "create" -> CreateEffects(api, r)
    [] api.method = "delete" -> DeleteEffects(api)
    [] api.method = "get" -> GetEffects(api)
    [] api.method = "list" -> ListEffects(api)
    [] OTHER -> BatchEffects(api)

-----------------------------------------------------------------------------
(* From the answer to the report.  Lists of names are shown in three ways: *)
(* not set, empty, and the names; here they are the value itself.          *)
Show(capture, limits) ==
  IF capture = Unparsed THEN Unparsed
  ELSE [capture EXCEPT !.limits = [f \in LimitField |-> IF f \in limits THEN @[f] ELSE None]]

ListedLimits == {"MaxHits", "MaxStringLength", "MaxCollectionWidth"}

(* A configuration read from a response, with the limits a command shows.  *)
Rendered(config, wrapped, limits) ==
  LET Union(x) == IF wrapped THEN Wrapped(x) ELSE Flat(x)
  IN [ location |-> render_location_block(location_from_response(Union(config.Location))),
       capture |-> Show(capture_from_response(Union(config.CaptureConfiguration)), limits) ]

(* At line level the arguments and the return value are not shown.         *)
render_create_success_message(r) ==
  LET line == r.target.line_number # None
      capture == CodeCapture(r.target, r.capture)
  IN [ kind |-> "created",
       location |-> render_location_block(CodeLocation(r.target)),
       capture |-> [ Show(capture, LimitField) EXCEPT
                       !.capture_arguments = IF line THEN None ELSE @,
                       !.capture_return = IF line THEN None ELSE @ ] ]

\* Mutant: the next token is not looked at.
render_list_withoutGuidance(page) ==
  [ kind |-> IF page.configs = {} THEN "no active" ELSE "active",
    items |-> {Rendered(g, TRUE, ListedLimits) : g \in page.configs},
    pagination |-> FALSE ]

(* No pagination guidance when the page is empty. *)
render_list_instrumentations_output(page) ==
  [ kind |-> IF page.configs = {} THEN "no active" ELSE "active",
    items |-> {Rendered(g, TRUE, ListedLimits) : g \in page.configs},
    pagination |-> page.configs # {} /\ page.next # None ]

format_batch_delete_response(reply) ==
  [kind |-> "batch", successes |-> reply.successes, errors |-> reply.errors]

(* The template for a failed request; prose about causes only for an       *)
(* answer of the service, and only from create, get and delete.            *)
render_error(kind, op) ==
  [ kind |-> "failed",
    template |-> IF kind = "ClientError" /\ op \in {"create", "get", "delete"} THEN "tailored"
                 ELSE kind ]

Result(ok, report) == [exit |-> IF ok THEN 0 ELSE 1, report |-> report]

GetResult(reply) ==
  IF reply.config = None THEN Result(FALSE, [kind |-> "no instrumentation found"])
  ELSE LET shown == Rendered(reply.config, reply.wrapped, LimitField) IN
       Result(TRUE, [ kind |-> "configuration", location |-> shown.location,
                      capture |-> shown.capture ])

\* Mutant: a batch with errors passes for a success.
OpResultLenient(r, reply) ==
  CASE reply.kind = "refused" -> Result(FALSE, render_error("ClientError", r.op))
    [] reply.kind = "created" -> Result(TRUE, render_create_success_message(r))
    [] reply.kind = "deleted" -> Result(TRUE, [kind |-> "deleted"])
    [] reply.kind = "configuration" -> GetResult(reply)
    [] reply.kind = "page" -> Result(TRUE, render_list_instrumentations_output(reply))
    [] reply.kind = "batch" -> Result(TRUE, format_batch_delete_response(reply))

OpResult(r, reply) ==
  CASE reply.kind = "refused" -> Result(FALSE, render_error("ClientError", r.op))
    [] reply.kind = "created" -> Result(TRUE, render_create_success_message(r))
    [] reply.kind = "deleted" -> Result(TRUE, [kind |-> "deleted"])
    [] reply.kind = "configuration" -> GetResult(reply)
    [] reply.kind = "page" -> Result(TRUE, render_list_instrumentations_output(reply))
    [] reply.kind = "batch" -> Result(reply.errors = {}, format_batch_delete_response(reply))

-----------------------------------------------------------------------------
Init ==
  /\ service = {}
  /\ late = {}
  /\ call = [c \in Call |-> NewCall]
  /\ others = 0

Exit(c, exit, report) ==
  call' = [call EXCEPT ![c].phase = "done", ![c].exit = exit, ![c].report = report]

(* The payload lacks a required parameter: TypeError, exit 2. *)
InvalidArguments(c) ==
  \E r \in Requests[c] :
    /\ call[c].phase = "new"
    /\ ~Binds(r)
    /\ Exit(c, 2, [kind |-> "invalid arguments"])
    /\ UNCHANGED <<service, late, others>>

RejectInput(c) ==
  \E r \in Requests[c] :
    /\ call[c].phase = "new"
    /\ Binds(r)
    /\ ~Accepts(r)
    /\ Exit(c, 1, [kind |-> "input error"])
    /\ UNCHANGED <<service, late, others>>

(* The client cannot be built: an SDK without the operations is reported,  *)
(* an unknown profile escapes the command; both exit 1.                    *)
NoClient(c) ==
  \E r \in Requests[c], why \in {"SDK too old", "ProfileNotFound"} :
    /\ call[c].phase = "new"
    /\ Binds(r)
    /\ Accepts(r)
    /\ Exit(c, 1, [kind |-> "raised", why |-> why])
    /\ UNCHANGED <<service, late, others>>

Send(c) ==
  \E r \in Requests[c] :
    /\ call[c].phase = "new"
    /\ Binds(r)
    /\ Accepts(r)
    /\ call' = [call EXCEPT ![c].phase = "sent", ![c].request = r,
                            ![c].api = ApiRequest(r), ![c].attempts = 1]
    /\ UNCHANGED <<service, late, others>>

(* Nothing leaves the machine. *)
FailLocally(c) ==
  \E kind \in LocalErrors :
    /\ call[c].phase = "sent"
    /\ call[c].attempts = 1
    /\ Exit(c, 1, render_error(kind, call[c].request.op))
    /\ UNCHANGED <<service, late, others>>

(* The service handles a request. *)
Handle(c) ==
  /\ call[c].phase = "sent"
  /\ \E e \in Effects(call[c].api, call[c].request) :
       /\ service' = (service \ e.remove) \cup e.add
       /\ call' = [call EXCEPT ![c].phase = "answered", ![c].reply = e.reply,
                               ![c].seen = service,
                               ![c].stored = @ \cup e.add, ![c].removed = @ \cup e.remove]
  /\ UNCHANGED <<late, others>>

(* The answer arrives. *)
Report(c) ==
  LET result == OpResult(call[c].request, call[c].reply) IN
  /\ call[c].phase = "answered"
  /\ Exit(c, result.exit, result.report)
  /\ UNCHANGED <<service, late, others>>

(* The answer does not arrive in time.  A request not handled yet may      *)
(* still be on its way, which matters if it changes something.  The SDK    *)
(* repeats the request, or gives up.                                       *)
TimeOut(c) ==
  /\ call[c].phase \in {"sent", "answered"}
  /\ late' \in IF call[c].phase = "sent" /\ call[c].api.method \notin {"get", "list"}
              THEN {late, late \cup {c}} ELSE {late}
  /\ IF call[c].attempts < MaxAttempts
     THEN call' = [call EXCEPT ![c].phase = "sent", ![c].reply = NoReply, ![c].attempts = @ + 1]
     ELSE Exit(c, 1, render_error("ReadTimeoutError", call[c].request.op))
  /\ UNCHANGED <<service, others>>

(* A request its caller gave up is handled after all. *)
HandleLate(c) ==
  /\ c \in late
  /\ late' = late \ {c}
  /\ \E e \in Effects(call[c].api, call[c].request) :
       /\ service' = (service \ e.remove) \cup e.add
       /\ call' = [call EXCEPT ![c].stored = @ \cup e.add, ![c].removed = @ \cup e.remove]
  /\ UNCHANGED others

(* Another user adds a configuration; one expires or another user removes  *)
(* it.                                                                     *)
OthersChange(configs) ==
  /\ others < MaxOthers
  /\ others' = others + 1
  /\ service' = configs
  /\ UNCHANGED <<late, call>>

OthersCreate ==
  \E g \in Foreign :
    (\A x \in service : Arn(x) # Arn(g)) /\ OthersChange(service \cup {g})

OthersRemove == \E g \in service : OthersChange(service \ {g})

Next ==
  \/ \E c \in Call :
       \/ InvalidArguments(c)
       \/ RejectInput(c)
       \/ NoClient(c)
       \/ Send(c)
       \/ FailLocally(c)
       \/ Handle(c)
       \/ Report(c)
       \/ TimeOut(c)
       \/ HandleLate(c)
  \/ OthersCreate
  \/ OthersRemove

Spec == Init /\ [][Next]_vars

-----------------------------------------------------------------------------
(* Properties. *)
SameText(x, y) == OrNone(x) = OrNone(y)

TextField == {"file_path", "code_unit", "class_name", "method_name"}

(* Two descriptions of one target: the letter case of the language and     *)
(* omitting a field rather than giving it empty make no difference.        *)
SameTarget(t, u) ==
  /\ LowerWord(t.language) = LowerWord(u.language)
  /\ \A f \in TextField : SameText(t[f], u[f])
  /\ t.line_number = u.line_number

(* Two requests about configurations of one region, type and scope. *)
SameScope(r, s) ==
  /\ resolve_region(r.region) = resolve_region(s.region)
  /\ LowerWord(r.type) = LowerWord(s.type)
  /\ r.scope = s.scope

OwnConfigs(configs) == {g \in configs : g.asked # None}

(* The configurations a lookup, by hash or by code location, is about. *)
Meant(r, configs) ==
  {g \in OwnConfigs(configs) :
     SameScope(r, g.asked) /\ IF r.hash # None THEN g.Location = r.hash
                              ELSE SameTarget(r.target, g.asked.target)}

(* What the SDK in the service needs to act on a configuration. *)
Binding(g) ==
  LET language == g.Location.Language.word
      line == g.Location.LineNumber
      capture == g.CaptureConfiguration
  IN /\ g.Location.Language.form = "api"
     /\ ~Blank(g.Location.FilePath)
     /\ language = "java" =>
          /\ None \notin {g.Location.CodeUnit, g.Location.ClassName, g.Location.MethodName}
          /\ g.Location.ClassName \notin Dotted
     /\ language = "python" => None \notin {g.Location.CodeUnit, g.Location.MethodName}
     /\ language = "javascript" => line # None
     /\ line # None => line >= 1 /\ capture.CaptureLocals # None
     /\ g.type = "PROBE" => language # "javascript" /\ line = None
     /\ \A names \in {capture.CaptureArguments, capture.CaptureLocals} :
          names # None => names # <<>> /\ Wildcard \notin ToSet(names)

CallOK(c) ==
  /\ c.phase \in {"new", "sent", "answered", "done"}
  /\ c.exit \in {None, 0, 1, 2}
  /\ c.exit # None <=> c.phase = "done"
  /\ c.attempts \in 0..MaxAttempts
  /\ c.phase \in {"sent", "answered"} => c.attempts >= 1 /\ Accepts(c.request)

(* Types; a call sends only accepted input, ends with an exit code, and    *)
(* only a call that gave up leaves a request behind.                       *)
TypeOK ==
  /\ \A g \in service : g.type \in Types /\ g.region # None
  /\ \A c \in Call : CallOK(call[c])
  /\ late \subseteq {c \in Call : call[c].attempts >= 1}

(* The SDK drops silently what it cannot bind (di_location.py): no call,   *)
(* on time or late, ever stores such a configuration.                      *)
NothingUnbindableStored == \A g \in OwnConfigs(service) : Binding(g)

(* Exit code 0 is the truth about the service: a create stored the target  *)
(* it was asked for, a delete removed nothing else, a batch delete left    *)
(* none of its targets.                                                    *)
SuccessWasApplied ==
  \A c \in Call :
    LET r == call[c].request
        own == OwnConfigs(call[c].seen)
    IN call[c].exit = 0 =>
         CASE r.op = "create" ->
                \E g \in call[c].stored : SameScope(r, g.asked) /\ SameTarget(r.target, g.asked.target)
           [] r.op = "delete" ->
                call[c].removed # {} /\ OwnConfigs(call[c].removed) = Meant(r, OwnConfigs(call[c].removed))
           [] r.op = "batch-delete-by-scope" ->
                {g \in own : SameScope(r, g.asked)} \subseteq call[c].removed
           [] r.op = "batch-delete-by-arns" ->
                \A a \in ToSet(r.resource_arns) : \E g \in call[c].removed : Arn(g) = a
           [] OTHER -> call[c].stored \cup call[c].removed = {}

(* A get or a delete that describes the target of a create, however it     *)
(* spells it, is never told that there is no such configuration while      *)
(* there is.                                                               *)
LookupFindsWhatWasCreated ==
  \A c \in Call :
    LET r == call[c].request IN
    r.op \in {"get", "delete"} /\ call[c].reply = Refusal("notFound").reply
      => Meant(r, call[c].seen) = {}

(* What get reports of a configuration is what create reported when it     *)
(* made it; at line level create leaves two settings out.                  *)
GetAgreesWithCreate ==
  \A c, d \in Call :
    /\ call[c].report.kind = "created"
    /\ call[d].report.kind = "configuration"
    /\ call[d].reply.config \in call[c].stored
    => LET made == call[c].report
           got == call[d].report
       IN /\ SameTarget(made.location.details, got.location.details)
          /\ made.location.level = got.location.level
          /\ \A f \in DOMAIN made.capture :
               \/ made.capture[f] = got.capture[f]
               \/ made.location.level = "line" /\ f \in {"capture_arguments", "capture_return"}

(* A first page shown without a hint at a next one shows every             *)
(* configuration there is.                                                 *)
ListingWithoutGuidanceIsComplete ==
  \A c \in Call :
    LET r == call[c].request IN
    call[c].report.kind = "active" /\ ~call[c].report.pagination /\ r.next_token = None =>
      \A g \in OwnConfigs(call[c].seen) :
        SameScope(r, g.asked) =>
          \E item \in call[c].report.items : SameTarget(item.location.details, g.asked.target)
=============================================================================
