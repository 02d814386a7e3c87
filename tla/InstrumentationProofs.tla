----------------------- MODULE InstrumentationProofs ------------------------
(***************************************************************************)
(* What the commands let through, do and report, for every number of       *)
(* calls, every input and any answers, retries and late requests.          *)
(***************************************************************************)
EXTENDS Instrumentation, TLAPS

(***************************************************************************)
(* A call that has sent something, or whose request is still on its way,   *)
(* has accepted its input and keeps it.                                    *)
(***************************************************************************)
TargetFields == {"language", "file_path", "code_unit", "class_name", "method_name", "line_number"}
Operations == {"create", "list", "get", "delete", "batch-delete-by-scope", "batch-delete-by-arns"}
Fields == { "phase", "request", "api", "attempts", "reply", "exit", "report", "seen", "stored",
            "removed" }

WellFormed(r) ==
  /\ r.op \in {"create", "get", "delete"} => DOMAIN r.target = TargetFields
  /\ r.op = "create" =>
       /\ {r.capture.capture_return, r.capture.capture_stack_trace} \subseteq BOOLEAN \cup {None}
       /\ r.capture.limits # None

Sent(c) ==
  /\ c.request.op \in Operations
  /\ WellFormed(c.request)
  /\ Accepts(c.request)
  /\ c.api = ApiRequest(c.request)

CallInv(c) ==
  /\ DOMAIN c = Fields
  /\ c.phase # "new" /\ c.phase # "done" => Sent(c)

Inv ==
  /\ DOMAIN call = Call
  /\ \A c \in Call : CallInv(call[c])
  /\ \A c \in late : c \in Call /\ Sent(call[c])
  /\ NothingUnbindableStored

-----------------------------------------------------------------------------
(* What the service stores for a request is what the request carries.      *)
LEMMA Added ==
  ASSUME NEW api, NEW r, NEW e \in Effects(api, r), NEW g \in e.add
  PROVE  /\ api.method = "create"
         /\ api.Location.Language.form = "api"
         /\ g = Configuration(api, r)
<1>0. e.add # {}
  OBVIOUS
<1>1. CASE e = Refusal("denied")
  BY <1>0, <1>1 DEF Refusal, Effect
<1>2. CASE api.method = "create" /\ e \in CreateEffects(api, r)
  BY <1>2 DEF CreateEffects, Refusal, Effect
<1>3. CASE e \in DeleteEffects(api)
  BY <1>0, <1>3 DEF DeleteEffects, Refusal, Effect
<1>4. CASE e \in GetEffects(api)
  BY <1>0, <1>4 DEF GetEffects, Refusal, Effect
<1>5. CASE e \in ListEffects(api)
  BY <1>0, <1>5 DEF ListEffects, Effect
<1>6. CASE e \in BatchEffects(api)
  BY <1>0, <1>6 DEF BatchEffects, Effect
<1> QED
  BY <1>1, <1>2, <1>3, <1>4, <1>5, <1>6 DEF Effects

LEMMA TypeWord ==
  ASSUME NEW r, Type(r) # None
  PROVE  Type(r) \in Types /\ Type(r) = LowerWord(r.type)
<1>1. LowerWord(r.type) \in Types /\ Type(r) = r.type.word
  BY DEF Type, normalize_instrumentation_type
<1>2. LowerWord(r.type) = r.type.word
  BY <1>1 DEF LowerWord, Types
<1> QED
  BY <1>1, <1>2

(* create passes its target and its capture on as they are, but for the    *)
(* letter case of the language and empty texts.                            *)
LEMMA CreatedBinds ==
  ASSUME NEW r, r.op = "create", DOMAIN r.target = TargetFields, Accepts(r),
         CreateRequest(r).Location.Language.form = "api"
  PROVE  Binding(Configuration(CreateRequest(r), r))
<1> DEFINE t == r.target
           k == r.capture
           g == Configuration(CreateRequest(r), r)
<1>1. /\ CreateAccepts(r)
      /\ Type(r) \in Types
  BY TypeWord DEF Accepts
<1>2. /\ t.language # None /\ validate_location_inputs(t) /\ validate_probe_constraints(Type(r), t)
      /\ validate_capture_names(k.capture_arguments) /\ validate_capture_names(k.capture_locals)
      /\ t.line_number # None => k.capture_locals # None
  BY <1>1 DEF CreateAccepts, parse_create_inputs, HasLanguageAndFile
<1>3. /\ g.type = Type(r)
      /\ g.Location = to_code_location_dict(CodeLocation(t))
      /\ g.CaptureConfiguration.CaptureArguments = k.capture_arguments
      /\ g.CaptureConfiguration.CaptureLocals = k.capture_locals
  BY DEF Configuration, CreateRequest, CodeCapture, to_capture_payload
<1>4. /\ g.Location.Language.word = LowerWord(t.language)
      /\ g.Location.Language.form = "api"
      /\ g.Location.FilePath = t.file_path
      /\ g.Location.CodeUnit = OrNone(t.code_unit)
      /\ g.Location.ClassName = OrNone(t.class_name)
      /\ g.Location.MethodName = OrNone(t.method_name)
      /\ g.Location.LineNumber = t.line_number
  <2> DEFINE l == CodeLocation(t)
  <2>1. /\ l.file_path = t.file_path /\ l.code_unit = t.code_unit /\ l.class_name = t.class_name
        /\ l.method_name = t.method_name /\ l.line_number = t.line_number
        /\ l.language = (IF canonical_language(t.language) = None THEN t.language
                         ELSE canonical_language(t.language))
    BY DEF CodeLocation, TargetFields
  <2>2. l.language.word = LowerWord(t.language)
    BY <1>2, <2>1 DEF canonical_language, Canonical, Spelt, LowerWord
  <2> HIDE DEF l
  <2>3. g.Location = to_code_location_dict(l)
    BY <1>3 DEF l
  <2>4. g.Location.Language.form = "api"
    BY <1>3 DEF CreateRequest
  <2> QED
    BY <2>1, <2>2, <2>3, <2>4 DEF to_code_location_dict
<1> HIDE DEF g
<1>5. /\ ~Blank(t.file_path)
      /\ t.line_number # None => t.line_number >= 1
      /\ LowerWord(t.language) = "java" =>
           /\ Truthy(t.code_unit) /\ Truthy(t.class_name) /\ Truthy(t.method_name)
           /\ t.class_name \notin Dotted
      /\ LowerWord(t.language) = "python" => Truthy(t.code_unit) /\ Truthy(t.method_name)
      /\ LowerWord(t.language) = "javascript" => t.line_number # None
  BY <1>2 DEF validate_location_inputs
<1>6. \A x : Truthy(x) => OrNone(x) = x /\ x # None
  BY DEF Truthy, OrNone
<1>7. \A names \in {k.capture_arguments, k.capture_locals} :
        names # None => names # <<>> /\ Wildcard \notin ToSet(names)
  BY <1>2 DEF validate_capture_names
<1> QED
  BY <1>2, <1>3, <1>4, <1>5, <1>6, <1>7 DEF Binding, validate_probe_constraints, g

LEMMA StoredBinds ==
  ASSUME NEW c, Sent(c), NEW e \in Effects(c.api, c.request), NothingUnbindableStored,
         service' = (service \ e.remove) \cup e.add
  PROVE  NothingUnbindableStored'
<1>1. ASSUME NEW g \in e.add PROVE Binding(g)
  <2>1. /\ c.api.method = "create"
        /\ c.api.Location.Language.form = "api"
        /\ g = Configuration(c.api, c.request)
    BY Added
  <2>2. c.api = ApiRequest(c.request) /\ c.request.op \in Operations /\ Accepts(c.request)
    BY DEF Sent
  <2>3. c.request.op = "create"
    BY <2>1, <2>2 DEF ApiRequest, Operations, ListRequest, LookupRequest, ScopeRequest, ArnsRequest
  <2>4. c.api = CreateRequest(c.request)
    BY <2>2, <2>3 DEF ApiRequest
  <2>5. DOMAIN c.request.target = TargetFields
    BY <2>3 DEF Sent, WellFormed
  <2> QED
    BY <2>1, <2>2, <2>3, <2>4, <2>5, CreatedBinds
<1>2. \A g \in OwnConfigs(service') : Binding(g)
  BY <1>1 DEF NothingUnbindableStored, OwnConfigs
<1> QED
  BY <1>2 DEF NothingUnbindableStored, OwnConfigs, Binding, Blank, Truthy

(* A step of one call that stores nothing. *)
LEMMA OneCall ==
  ASSUME Inv, NEW c \in Call, NEW d, call' = [call EXCEPT ![c] = d], CallInv(d),
         late' \subseteq late \cup {c}, c \in late' => Sent(d),
         NothingUnbindableStored'
  PROVE  Inv'
<1>1. DOMAIN call' = Call /\ \A x \in Call : CallInv(call'[x])
  BY DEF Inv
<1>2. \A x \in late' : x \in Call /\ Sent(call'[x])
  BY DEF Inv
<1>3. (\A x \in Call : CallInv(call[x]))'
  BY <1>1 DEF CallInv, Sent
<1>4. (\A x \in late : x \in Call /\ Sent(call[x]))'
  BY <1>2 DEF Sent
<1> QED
  BY <1>1, <1>3, <1>4 DEF Inv

LEMMA NothingStored ==
  ASSUME NothingUnbindableStored, UNCHANGED service
  PROVE  NothingUnbindableStored'
BY DEF NothingUnbindableStored, OwnConfigs, Binding, Blank, Truthy

(* A call ends, and leaves at most its request behind. *)
LEMMA ExitOK ==
  ASSUME Inv, NEW c \in Call, NEW exit, NEW report, Exit(c, exit, report),
         late' \subseteq late \cup {c}, c \in late' => Sent(call[c]),
         UNCHANGED service
  PROVE  Inv'
<1> DEFINE d == [call[c] EXCEPT !.phase = "done", !.exit = exit, !.report = report]
<1>1. CallInv(call[c]) /\ DOMAIN call[c] = Fields
  BY DEF Inv, CallInv
<1>2. call' = [call EXCEPT ![c] = d]
  BY DEF Exit
<1>3. /\ DOMAIN d = Fields /\ d.phase = "done"
      /\ d.request = call[c].request /\ d.api = call[c].api
  BY <1>1 DEF Fields
<1> HIDE DEF d
<1>4. CallInv(d) /\ (c \in late' => Sent(d))
  BY <1>3 DEF CallInv, Sent
<1> QED
  BY <1>2, <1>4, OneCall, NothingStored DEF Inv

LEMMA EndsOK ==
  ASSUME Inv, NEW c \in Call,
         InvalidArguments(c) \/ RejectInput(c) \/ NoClient(c) \/ FailLocally(c) \/ Report(c)
  PROVE  Inv'
<1>1. /\ \E exit, report : Exit(c, exit, report)
      /\ UNCHANGED <<service, late>>
  BY DEF InvalidArguments, RejectInput, NoClient, FailLocally, Report
<1>2. c \in late' => Sent(call[c])
  BY <1>1 DEF Inv
<1> QED
  BY <1>1, <1>2, ExitOK

LEMMA SendOK ==
  ASSUME Inv, NEW c \in Call, Send(c)
  PROVE  Inv'
<1>1. PICK r \in Requests[c] :
        /\ Accepts(r)
        /\ call' = [call EXCEPT ![c].phase = "sent", ![c].request = r,
                                ![c].api = ApiRequest(r), ![c].attempts = 1]
        /\ UNCHANGED <<service, late>>
  BY DEF Send
<1> DEFINE d == [call[c] EXCEPT !.phase = "sent", !.request = r,
                                !.api = ApiRequest(r), !.attempts = 1]
<1>2. DOMAIN call[c] = Fields
  BY DEF Inv, CallInv
<1>3. call' = [call EXCEPT ![c] = d]
  BY <1>1
<1>4. DOMAIN d = Fields /\ d.phase = "sent" /\ d.request = r /\ d.api = ApiRequest(r)
  BY <1>2 DEF Fields
<1>5. r.op \in Operations /\ WellFormed(r)
  BY RequestsAssumption DEF Operations, TargetFields, WellFormed
<1> HIDE DEF d
<1>6. CallInv(d) /\ Sent(d)
  BY <1>1, <1>4, <1>5 DEF CallInv, Sent
<1> QED
  BY <1>1, <1>3, <1>6, OneCall, NothingStored DEF Inv

(* The service handles a request in time, ... *)
LEMMA HandleOK ==
  ASSUME Inv, NEW c \in Call, Handle(c)
  PROVE  Inv'
<1>1. Sent(call[c]) /\ DOMAIN call[c] = Fields /\ UNCHANGED late
  BY DEF Inv, CallInv, Handle
<1>2. PICK e \in Effects(call[c].api, call[c].request) :
        /\ service' = (service \ e.remove) \cup e.add
        /\ call' = [call EXCEPT ![c].phase = "answered", ![c].reply = e.reply,
                                ![c].seen = service,
                                ![c].stored = @ \cup e.add, ![c].removed = @ \cup e.remove]
  BY DEF Handle
<1> DEFINE d == [call[c] EXCEPT !.phase = "answered", !.reply = e.reply, !.seen = service,
                                !.stored = @ \cup e.add, !.removed = @ \cup e.remove]
<1>3. call' = [call EXCEPT ![c] = d]
  BY <1>2
<1>4. /\ DOMAIN d = Fields /\ d.phase = "answered"
      /\ d.request = call[c].request /\ d.api = call[c].api
  BY <1>1 DEF Fields
<1> HIDE DEF d
<1>5. CallInv(d) /\ Sent(d)
  BY <1>1, <1>4 DEF CallInv, Sent
<1>6. NothingUnbindableStored'
  BY <1>1, <1>2, StoredBinds DEF Inv
<1> QED
  BY <1>1, <1>3, <1>5, <1>6, OneCall

(* ... or after its caller has given up. *)
LEMMA HandleLateOK ==
  ASSUME Inv, NEW c \in Call, HandleLate(c)
  PROVE  Inv'
<1>1. Sent(call[c]) /\ CallInv(call[c]) /\ DOMAIN call[c] = Fields /\ late' = late \ {c}
  BY DEF Inv, CallInv, HandleLate
<1>2. PICK e \in Effects(call[c].api, call[c].request) :
        /\ service' = (service \ e.remove) \cup e.add
        /\ call' = [call EXCEPT ![c].stored = @ \cup e.add, ![c].removed = @ \cup e.remove]
  BY DEF HandleLate
<1> DEFINE d == [call[c] EXCEPT !.stored = @ \cup e.add, !.removed = @ \cup e.remove]
<1>3. call' = [call EXCEPT ![c] = d]
  BY <1>2
<1>4. /\ DOMAIN d = Fields /\ d.phase = call[c].phase
      /\ d.request = call[c].request /\ d.api = call[c].api
  BY <1>1 DEF Fields
<1> HIDE DEF d
<1>5. CallInv(d)
  BY <1>1, <1>4 DEF CallInv, Sent
<1>6. NothingUnbindableStored'
  BY <1>1, <1>2, StoredBinds DEF Inv
<1> QED
  BY <1>1, <1>3, <1>5, <1>6, OneCall

LEMMA TimeOutOK ==
  ASSUME Inv, NEW c \in Call, TimeOut(c)
  PROVE  Inv'
<1>1. /\ Sent(call[c]) /\ DOMAIN call[c] = Fields
      /\ late' \subseteq late \cup {c} /\ UNCHANGED service
  BY DEF Inv, CallInv, TimeOut
<1>2. CASE call[c].attempts < MaxAttempts
  <2> DEFINE d == [call[c] EXCEPT !.phase = "sent", !.reply = NoReply, !.attempts = @ + 1]
  <2>1. call' = [call EXCEPT ![c] = d]
    BY <1>2 DEF TimeOut
  <2>2. /\ DOMAIN d = Fields /\ d.phase = "sent"
        /\ d.request = call[c].request /\ d.api = call[c].api
    BY <1>1 DEF Fields
  <2> HIDE DEF d
  <2>3. CallInv(d) /\ Sent(d)
    BY <1>1, <2>2 DEF CallInv, Sent
  <2> QED
    BY <1>1, <2>1, <2>3, OneCall, NothingStored DEF Inv
<1>3. CASE ~(call[c].attempts < MaxAttempts)
  <2>1. \E exit, report : Exit(c, exit, report)
    BY <1>3 DEF TimeOut
  <2> QED
    BY <1>1, <2>1, ExitOK
<1> QED
  BY <1>2, <1>3

(* Other users create configurations that are their own affair. *)
LEMMA OthersOK ==
  ASSUME Inv, OthersCreate \/ OthersRemove
  PROVE  Inv'
<1>1. UNCHANGED <<late, call>> /\ \A g \in service' : g \in service \/ g.asked = None
  BY ForeignAssumption DEF OthersCreate, OthersRemove, OthersChange
<1>2. NothingUnbindableStored'
  BY <1>1 DEF Inv, NothingUnbindableStored, OwnConfigs, Binding, Blank, Truthy
<1> QED
  BY <1>1, <1>2 DEF Inv, CallInv, Sent

LEMMA InitOK == Init => Inv
BY DEF Init, Inv, CallInv, NewCall, Fields, NothingUnbindableStored, OwnConfigs

LEMMA NextOK == Inv /\ [Next]_vars => Inv'
<1> SUFFICES ASSUME Inv, [Next]_vars PROVE Inv'
  OBVIOUS
<1>1. ASSUME NEW c \in Call,
             InvalidArguments(c) \/ RejectInput(c) \/ NoClient(c) \/ FailLocally(c) \/ Report(c)
      PROVE  Inv'
  BY <1>1, EndsOK
<1>2. ASSUME NEW c \in Call, Send(c) PROVE Inv'
  BY <1>2, SendOK
<1>3. ASSUME NEW c \in Call, Handle(c) \/ HandleLate(c) \/ TimeOut(c) PROVE Inv'
  BY <1>3, HandleOK, HandleLateOK, TimeOutOK
<1>4. CASE OthersCreate \/ OthersRemove
  BY <1>4, OthersOK
<1>5. CASE UNCHANGED vars
  <2>1. UNCHANGED <<service, late, call>>
    BY <1>5 DEF vars
  <2>2. NothingUnbindableStored'
    BY <2>1, NothingStored DEF Inv
  <2> QED
    BY <2>1, <2>2 DEF Inv, CallInv, Sent
<1> QED
  BY <1>1, <1>2, <1>3, <1>4, <1>5 DEF Next

-----------------------------------------------------------------------------
(* Inv, which adds to the property what a call keeps of its request.       *)
THEOREM RequestsAreKept == Spec => []Inv
<1> QED
  BY InitOK, NextOK, PTL DEF Spec

(* create_instrumentation never has a configuration stored that the SDK in *)
(* the instrumented service would drop silently, whatever the input, and   *)
(* however often the request is repeated or how late it is handled.        *)
THEOREM NothingUnbindableIsStored == Spec => []NothingUnbindableStored
<1>1. Inv => NothingUnbindableStored
  BY DEF Inv
<1> QED
  BY <1>1, RequestsAreKept, PTL

-----------------------------------------------------------------------------
(***************************************************************************)
(* What a call reports is true of what its requests did.  The second       *)
(* invariant ties the answer a call has got to the configurations there    *)
(* were when it was given, and the report to the answer.  It needs of the  *)
(* stored configurations that each is what create made of its request.     *)
(***************************************************************************)
InScope(g, api) == g.region = api.region /\ g.type = api.type /\ g.scope = api.scope

Made(g) ==
  /\ g.asked.op = "create" /\ WellFormed(g.asked) /\ Accepts(g.asked)
  /\ g = Configuration(CreateRequest(g.asked), g.asked)

Known(configs) ==
  \A g \in configs : g.type \in Types /\ g.region # None /\ (g.asked # None => Made(g))

Located(g, api) == InScope(g, api) /\ g.Location = api.LocationIdentifier.value

(* What its requests have done to the service so far.                      *)
Changes(c) ==
  /\ Known(c.seen) /\ Known(c.removed)
  /\ \A g \in c.stored : c.request.op = "create" /\ g = Configuration(c.api, c.request)
  /\ c.request.op = "delete" => \A g \in c.removed : Located(g, c.api)
  /\ c.request.op \in {"get", "list"} => c.stored = {} /\ c.removed = {}

(* What the answer says of the configurations there were, by its kind.     *)
Kinds == {"none", "refused", "created", "deleted", "configuration", "page", "batch"}

NotFoundIsTrue(c) ==
  c.request.op \in {"get", "delete"} /\ c.reply = Refusal("notFound").reply
    => \A g \in c.seen : ~Located(g, c.api)

PageIsTrue(c) ==
  c.reply.kind = "page" =>
    /\ c.request.op = "list"
    /\ c.reply.next = None /\ c.api.NextToken = None
         => \A g \in c.seen : InScope(g, c.api) => g \in c.reply.configs

BatchIsTrue(c) ==
  c.reply.kind = "batch" =>
    /\ c.request.op \in {"batch-delete-by-scope", "batch-delete-by-arns"}
    /\ c.reply.errors = {} =>
         /\ c.request.op = "batch-delete-by-scope"
              => \A g \in c.seen : InScope(g, c.api) => g \in c.removed
         /\ c.request.op = "batch-delete-by-arns"
              => \A a \in c.api.arns : \E g \in c.removed : Arn(g) = a

Answer(c) ==
  /\ c.reply.kind \in Kinds
  /\ c.reply.kind = "created" => c.request.op = "create" /\ Configuration(c.api, c.request) \in c.stored
  /\ c.reply.kind = "deleted" => c.request.op = "delete" /\ c.removed # {}
  /\ c.reply.kind = "configuration" =>
       c.request.op = "get" /\ (c.reply.config # None => c.reply.wrapped \in BOOLEAN)
  /\ NotFoundIsTrue(c)
  /\ PageIsTrue(c)
  /\ BatchIsTrue(c)

(* A report is that of the answer, or an error of another kind.            *)
ErrorKinds == {"invalid arguments", "input error", "raised", "failed"}

Reported(c) ==
  /\ c.phase \in {"new", "sent", "answered", "done"}
  /\ c.phase # "done" => c.exit = None /\ c.report = NoReport
  /\ c.phase = "answered" => c.reply.kind # "none"
  /\ c.phase = "done" =>
       \/ c.exit \in {1, 2} /\ c.report.kind \in ErrorKinds
       \/ /\ c.reply.kind # "none"
          /\ c.exit = OpResult(c.request, c.reply).exit
          /\ c.report = OpResult(c.request, c.reply).report

Tried(c) ==
  /\ c.attempts \in 0..MaxAttempts
  /\ c.phase \in {"sent", "answered"} => c.attempts >= 1
  /\ c.phase = "new" =>
       c.stored = {} /\ c.removed = {} /\ c.reply.kind = "none" /\ c.attempts = 0
  /\ c.reply.kind # "none" => Sent(c)

Told(c) == Changes(c) /\ Answer(c) /\ Reported(c) /\ Tried(c)

TellInv ==
  /\ Known(service)
  /\ \A c \in Call : Told(call[c])
  /\ \A c \in late : call[c].attempts >= 1

-----------------------------------------------------------------------------
(* Requests and the configurations they are about.                         *)
LEMMA RequestFacts ==
  ASSUME NEW c, Sent(c)
  PROVE  /\ Type(c.request) # None
         /\ c.api.region = resolve_region(c.request.region)
         /\ c.api.type = Type(c.request)
         /\ c.request.op # "batch-delete-by-arns" => c.api.scope = c.request.scope
         /\ c.request.op = "create" => c.api = CreateRequest(c.request) /\ c.api.method = "create"
         /\ c.request.op = "list" =>
              c.api.method = "list" /\ c.api.NextToken = OrNone(c.request.next_token)
         /\ c.request.op \in {"get", "delete"} =>
              /\ c.api.method = c.request.op
              /\ c.api.LocationIdentifier = parse_lookup_inputs(c.request.hash, c.request.target)
              /\ LookupAccepts(c.request)
         /\ c.request.op = "batch-delete-by-scope" => c.api.method = "batch-delete-scope"
         /\ c.request.op = "batch-delete-by-arns" =>
              c.api.method = "batch-delete-arns" /\ c.api.arns = ToSet(c.request.resource_arns)
<1> DEFINE r == c.request
<1>1. Accepts(r) /\ r.op \in Operations /\ c.api = ApiRequest(r)
  BY DEF Sent
<1>2. Type(r) # None
  BY <1>1 DEF Accepts
<1>3. CASE r.op = "create"
  BY <1>1, <1>2, <1>3 DEF ApiRequest, CreateRequest
<1>4. CASE r.op = "list"
  BY <1>1, <1>2, <1>4 DEF ApiRequest, ListRequest
<1>5. CASE r.op \in {"get", "delete"}
  BY <1>1, <1>2, <1>5 DEF ApiRequest, LookupRequest, Accepts
<1>6. CASE r.op = "batch-delete-by-scope"
  BY <1>1, <1>2, <1>6 DEF ApiRequest, ScopeRequest
<1>7. CASE r.op = "batch-delete-by-arns"
  BY <1>1, <1>2, <1>7 DEF ApiRequest, ArnsRequest
<1> QED
  BY <1>1, <1>3, <1>4, <1>5, <1>6, <1>7 DEF Operations

(* A target that create accepted, and one that a lookup describes, have    *)
(* the same location just when they are the same target.                   *)
LEMMA OrNoneFacts ==
  /\ \A x : OrNone(OrNone(x)) = OrNone(x)
  /\ \A x : Truthy(x) => OrNone(x) = x /\ x # None
  /\ OrNone(None) = None
BY DEF OrNone, Truthy

LEMMA LocationFields ==
  ASSUME NEW t, DOMAIN t = TargetFields
  PROVE  /\ to_code_location_dict(CodeLocation(t)).Language = CodeLocation(t).language
         /\ to_code_location_dict(CodeLocation(t)) =
              [ Language |-> CodeLocation(t).language, FilePath |-> t.file_path,
                CodeUnit |-> OrNone(t.code_unit), ClassName |-> OrNone(t.class_name),
                MethodName |-> OrNone(t.method_name), LineNumber |-> t.line_number ]
         /\ CodeLocation(t).language = IF canonical_language(t.language) = None THEN t.language
                                       ELSE canonical_language(t.language)
<1> DEFINE l == CodeLocation(t)
<1>1. /\ l.file_path = t.file_path /\ l.code_unit = t.code_unit /\ l.class_name = t.class_name
      /\ l.method_name = t.method_name /\ l.line_number = t.line_number
      /\ l.language = (IF canonical_language(t.language) = None THEN t.language
                       ELSE canonical_language(t.language))
  BY DEF CodeLocation, TargetFields
<1> HIDE DEF l
<1>2. to_code_location_dict(l) =
        [ Language |-> l.language, FilePath |-> t.file_path,
          CodeUnit |-> OrNone(t.code_unit), ClassName |-> OrNone(t.class_name),
          MethodName |-> OrNone(t.method_name), LineNumber |-> t.line_number ]
  BY <1>1 DEF to_code_location_dict
<1> QED
  BY <1>1, <1>2 DEF l

LEMMA AcceptedTarget ==
  ASSUME NEW r, r.op = "create", Accepts(r)
  PROVE  /\ LowerWord(r.target.language) \in Language
         /\ r.target.language # None
         /\ Truthy(r.target.file_path)
BY DEF Accepts, CreateAccepts, parse_create_inputs, HasLanguageAndFile, validate_location_inputs,
   Language

LEMMA SameLocation ==
  ASSUME NEW t, DOMAIN t = TargetFields, t.language # None, Truthy(t.file_path),
         NEW u, DOMAIN u = TargetFields, u.language # None, Truthy(u.file_path),
         LowerWord(u.language) \in Language
  PROVE  SameTarget(t, u)
           <=> to_code_location_dict(CodeLocation(u)) = to_code_location_dict(CodeLocation(t))
<1> DEFINE lt == CodeLocation(t).language
           lu == CodeLocation(u).language
<1>1. LowerWord(t.language) = t.language.word /\ LowerWord(u.language) = u.language.word
  BY DEF LowerWord
<1>2. /\ lu = Canonical(u.language.word)
      /\ lt = IF LowerWord(t.language) \in Language THEN Canonical(t.language.word) ELSE t.language
  BY <1>1, LocationFields, LanguageAssumption DEF canonical_language
<1> HIDE DEF lt, lu
<1>3. lu.word = u.language.word
  BY <1>2 DEF Canonical, Spelt
<1>4. lt.word = t.language.word
  BY <1>2 DEF Canonical, Spelt
<1>5. LowerWord(t.language) = LowerWord(u.language) => lt = lu
  BY <1>1, <1>2
<1>6. LowerWord(t.language) = LowerWord(u.language) <=> lt = lu
  BY <1>1, <1>3, <1>4, <1>5
<1> QED
  BY <1>6, LocationFields, OrNoneFacts DEF SameTarget, SameText, TextField, lt, lu

LEMMA ScopeIsShared ==
  ASSUME NEW c, Sent(c), c.request.op # "batch-delete-by-arns",
         NEW g, Made(g)
  PROVE  SameScope(c.request, g.asked) <=> InScope(g, c.api)
<1> DEFINE a == g.asked
<1>1. /\ g.region = resolve_region(a.region) /\ g.type = Type(a) /\ g.scope = a.scope
      /\ Type(a) # None
  BY DEF Made, Configuration, CreateRequest, Accepts
<1>2. Type(a) = LowerWord(a.type)
  BY <1>1, TypeWord
<1>3. /\ c.api.region = resolve_region(c.request.region) /\ c.api.type = LowerWord(c.request.type)
      /\ c.api.scope = c.request.scope
  BY RequestFacts, TypeWord
<1> QED
  BY <1>1, <1>2, <1>3 DEF SameScope, InScope

(* What a get or a delete is meant for is what its request selects.        *)
LEMMA MeantIsLocated ==
  ASSUME NEW c, Sent(c), c.request.op \in {"get", "delete"},
         NEW configs, Known(configs), NEW g \in OwnConfigs(configs)
  PROVE  g \in Meant(c.request, configs) <=> Located(g, c.api)
<1> DEFINE r == c.request
           a == g.asked
<1>1. Made(g)
  BY DEF Known, OwnConfigs
<1>2. SameScope(r, a) <=> InScope(g, c.api)
  BY <1>1, ScopeIsShared
<1>3. /\ c.api.LocationIdentifier = parse_lookup_inputs(r.hash, r.target)
      /\ parse_lookup_inputs(r.hash, r.target) # None
  BY RequestFacts DEF LookupAccepts
<1>4. CASE r.hash # None
  <2>1. c.api.LocationIdentifier.value = r.hash
    BY <1>3, <1>4 DEF parse_lookup_inputs, ByHash
  <2> QED
    BY <1>2, <1>4, <2>1 DEF Meant, Located
<1>5. CASE r.hash = None
  <2>1. HasLanguageAndFile(r.target)
    BY <1>3, <1>5 DEF parse_lookup_inputs
  <2>2. c.api.LocationIdentifier.value = to_code_location_dict(CodeLocation(r.target))
    BY <1>3, <1>5, <2>1 DEF parse_lookup_inputs, ByCode
  <2>3. g.Location = to_code_location_dict(CodeLocation(a.target))
    BY <1>1 DEF Made, Configuration, CreateRequest
  <2>4. DOMAIN r.target = TargetFields /\ DOMAIN a.target = TargetFields
    BY <1>1 DEF Sent, Made, WellFormed
  <2>5. SameTarget(r.target, a.target) <=> g.Location = c.api.LocationIdentifier.value
    BY <1>1, <2>1, <2>2, <2>3, <2>4, SameLocation, AcceptedTarget DEF HasLanguageAndFile, Made
  <2> QED
    BY <1>2, <1>5, <2>5 DEF Meant, Located
<1> QED
  BY <1>4, <1>5

-----------------------------------------------------------------------------
(* What handling a request does, ... *)
LEMMA RegionIsKnown ==
  ASSUME NEW explicit
  PROVE  resolve_region(explicit) # None
BY OrNoneFacts, NoneAssumption DEF resolve_region

LEMMA EffectChanges ==
  ASSUME Known(service), NEW c, Sent(c), NEW e \in Effects(c.api, c.request)
  PROVE  /\ Known(e.add)
         /\ \A g \in e.add : c.request.op = "create" /\ g = Configuration(c.api, c.request)
         /\ e.remove \subseteq service
         /\ c.request.op = "delete" => \A g \in e.remove : Located(g, c.api)
         /\ c.request.op \in {"get", "list"} => e.add = {} /\ e.remove = {}
<1> DEFINE r == c.request
<1>1. \A g \in e.add : r.op = "create" /\ g = Configuration(c.api, r)
  <2> SUFFICES ASSUME NEW g \in e.add PROVE r.op = "create" /\ g = Configuration(c.api, r)
    OBVIOUS
  <2>1. c.api.method = "create" /\ g = Configuration(c.api, r)
    BY Added
  <2>2. r.op \in Operations
    BY DEF Sent
  <2> QED
    BY <2>1, <2>2, RequestFacts DEF Operations
<1>2. Known(e.add)
  <2> SUFFICES ASSUME NEW g \in e.add
               PROVE  g.type \in Types /\ g.region # None /\ (g.asked # None => Made(g))
    BY DEF Known
  <2>1. r.op = "create" /\ g = Configuration(CreateRequest(r), r)
    BY <1>1, RequestFacts
  <2>2. g.asked = r /\ g.type = Type(r) /\ g.region = resolve_region(r.region)
    BY <2>1 DEF Configuration, CreateRequest
  <2>3. WellFormed(r) /\ Accepts(r)
    BY DEF Sent
  <2> QED
    BY <2>1, <2>2, <2>3, RequestFacts, TypeWord, RegionIsKnown DEF Made
<1>3. Scoped(c.api) \subseteq service /\ Matching(c.api) \subseteq service
  BY DEF Scoped, Matching
<1>4. r.op \in {"get", "delete"} => \A g \in Matching(c.api) : Located(g, c.api)
  BY RequestFacts DEF Matching, Scoped, Located, InScope
<1>5. CASE e = Refusal("denied")
  BY <1>1, <1>2, <1>5 DEF Refusal, Effect
<1>6. CASE r.op = "create" /\ e \in CreateEffects(c.api, r)
  BY <1>1, <1>2, <1>6 DEF CreateEffects, Refusal, Effect
<1>7. CASE r.op = "delete" /\ e \in DeleteEffects(c.api)
  BY <1>1, <1>2, <1>3, <1>4, <1>7 DEF DeleteEffects, Refusal, Effect
<1>8. CASE r.op = "get" /\ e \in GetEffects(c.api)
  BY <1>1, <1>2, <1>8 DEF GetEffects, Refusal, Effect
<1>9. CASE r.op = "list" /\ e \in ListEffects(c.api)
  BY <1>1, <1>2, <1>9 DEF ListEffects, Effect
<1>10. CASE r.op \in {"batch-delete-by-scope", "batch-delete-by-arns"} /\ e \in BatchEffects(c.api)
  BY <1>1, <1>2, <1>3, <1>10 DEF BatchEffects, Effect
<1> QED
  BY <1>5, <1>6, <1>7, <1>8, <1>9, <1>10, RequestFacts DEF Effects, Sent, Operations

(* ... and what its answer says; d is the call that gets it.               *)
LEMMA EffectAnswer ==
  ASSUME NEW c, Sent(c), NEW e \in Effects(c.api, c.request),
         NEW d, d.request = c.request, d.api = c.api, d.seen = service, d.reply = e.reply,
         e.add \subseteq d.stored, e.remove \subseteq d.removed
  PROVE  Answer(d) /\ d.reply.kind # "none"
<1> DEFINE r == c.request
<1>1. CASE e = Refusal("denied")
  <2>1. e.reply = [kind |-> "refused", why |-> "denied"]
    BY <1>1 DEF Refusal, Effect
  <2>2. Refusal("notFound").reply = [kind |-> "refused", why |-> "notFound"]
    BY DEF Refusal, Effect
  <2> QED
    BY <2>1, <2>2 DEF Answer, Kinds, NotFoundIsTrue, PageIsTrue, BatchIsTrue
<1>2. CASE r.op = "create" /\ e \in CreateEffects(c.api, r)
  <2>1. \/ e.reply.kind = "refused"
        \/ e.reply.kind = "created" /\ Configuration(c.api, r) \in e.add
    BY <1>2 DEF CreateEffects, Refusal, Effect
  <2> QED
    BY <1>2, <2>1 DEF Answer, Kinds, NotFoundIsTrue, PageIsTrue, BatchIsTrue
<1>3. CASE r.op = "delete" /\ e \in DeleteEffects(c.api)
  <2>1. \/ e.reply.kind = "refused" /\ Matching(c.api) = {}
        \/ e.reply.kind = "deleted" /\ e.remove # {}
    BY <1>3 DEF DeleteEffects, Refusal, Effect
  <2>2. Matching(c.api) = {} => \A g \in service : ~Located(g, c.api)
    BY <1>3, RequestFacts DEF Matching, Scoped, Located, InScope
  <2> QED
    BY <1>3, <2>1, <2>2 DEF Answer, Kinds, NotFoundIsTrue, PageIsTrue, BatchIsTrue, Refusal, Effect
<1>4. CASE r.op = "get" /\ e \in GetEffects(c.api)
  <2>1. \/ e.reply.kind = "refused" /\ Matching(c.api) = {}
        \/ e.reply.kind = "configuration" /\ (e.reply.config # None => e.reply.wrapped \in BOOLEAN)
    BY <1>4 DEF GetEffects, Refusal, Effect
  <2>2. Matching(c.api) = {} => \A g \in service : ~Located(g, c.api)
    BY <1>4, RequestFacts DEF Matching, Scoped, Located, InScope
  <2> QED
    BY <1>4, <2>1, <2>2 DEF Answer, Kinds, NotFoundIsTrue, PageIsTrue, BatchIsTrue, Refusal, Effect
<1>5. CASE r.op = "list" /\ e \in ListEffects(c.api)
  <2>1. /\ e.reply.kind = "page"
        /\ e.reply.next = None /\ c.api.NextToken = None => e.reply.configs = Matching(c.api)
    <3>1. ASSUME NEW p, e = Effect({}, {}, [kind |-> "page", configs |-> p, next |-> FurtherToken])
          PROVE  e.reply.kind = "page" /\ e.reply.next # None
      BY <3>1, NoneAssumption DEF Effect
    <3>2. ASSUME NEW p \in IF c.api.NextToken = None THEN {Matching(c.api)} ELSE SUBSET Matching(c.api),
                 e = Effect({}, {}, [kind |-> "page", configs |-> p, next |-> None])
          PROVE  /\ e.reply.kind = "page"
                 /\ c.api.NextToken = None => e.reply.configs = Matching(c.api)
      BY <3>2 DEF Effect
    <3> QED
      BY <1>5, <3>1, <3>2 DEF ListEffects
  <2>2. \A g \in service : InScope(g, c.api) => g \in Matching(c.api)
    BY <1>5, RequestFacts DEF Matching, Scoped, InScope
  <2> QED
    BY <1>5, <2>1, <2>2 DEF Answer, Kinds, NotFoundIsTrue, PageIsTrue, BatchIsTrue
<1>6. CASE r.op \in {"batch-delete-by-scope", "batch-delete-by-arns"} /\ e \in BatchEffects(c.api)
  <2>1. PICK gone \in SUBSET Matching(c.api) :
          /\ e.remove = gone
          /\ e.reply.kind = "batch"
          /\ e.reply.errors = (IF c.api.method = "batch-delete-arns"
                                 THEN c.api.arns \ {Arn(g) : g \in Matching(c.api)} ELSE {})
                               \cup {Arn(g) : g \in Matching(c.api) \ gone}
    BY <1>6 DEF BatchEffects, Effect
  <2>2. ASSUME e.reply.errors = {}
        PROVE  /\ Matching(c.api) \subseteq d.removed
               /\ c.api.method = "batch-delete-arns" => \A a \in c.api.arns : \E g \in d.removed : Arn(g) = a
    BY <2>1, <2>2
  <2>3. r.op = "batch-delete-by-scope" => \A g \in service : InScope(g, c.api) => g \in Matching(c.api)
    BY RequestFacts DEF Matching, Scoped, InScope
  <2>4. BatchIsTrue(d)
    BY <1>6, <2>2, <2>3, RequestFacts DEF BatchIsTrue
  <2> QED
    BY <1>6, <2>1, <2>4 DEF Answer, Kinds, NotFoundIsTrue, PageIsTrue
<1> QED
  BY <1>1, <1>2, <1>3, <1>4, <1>5, <1>6, RequestFacts DEF Effects, Sent, Operations

-----------------------------------------------------------------------------
(* The steps.  What a late request does besides makes no answer untrue.    *)
LEMMA AnswerGrows ==
  ASSUME NEW c, Answer(c), NEW d,
         d.request = c.request, d.api = c.api, d.seen = c.seen, d.reply = c.reply,
         c.stored \subseteq d.stored, c.removed \subseteq d.removed
  PROVE  Answer(d)
<1>1. BatchIsTrue(d)
  BY DEF Answer, BatchIsTrue
<1> QED
  BY <1>1 DEF Answer, NotFoundIsTrue, PageIsTrue

LEMMA ChangesGrow ==
  ASSUME Known(service), NEW c, Changes(c), Sent(c), NEW e \in Effects(c.api, c.request),
         NEW d, d.request = c.request, d.api = c.api, d.seen = c.seen \/ d.seen = service,
         d.stored = c.stored \cup e.add, d.removed = c.removed \cup e.remove
  PROVE  Changes(d) /\ Known((service \ e.remove) \cup e.add)
<1>1. Known(d.seen) /\ Known(d.removed) /\ Known((service \ e.remove) \cup e.add)
  BY EffectChanges DEF Known, Changes
<1>2. /\ \A g \in d.stored : d.request.op = "create" /\ g = Configuration(d.api, d.request)
      /\ d.request.op = "delete" => \A g \in d.removed : Located(g, d.api)
      /\ d.request.op \in {"get", "list"} => d.stored = {} /\ d.removed = {}
  BY EffectChanges DEF Changes
<1> QED
  BY <1>1, <1>2 DEF Changes

LEMMA OneTold ==
  ASSUME Inv, TellInv, NEW c \in Call, NEW d, call' = [call EXCEPT ![c] = d], Told(d),
         Known(service'), late' \subseteq late \cup {c}, c \in late' => d.attempts >= 1
  PROVE  TellInv'
<1>1. DOMAIN call = Call /\ late \subseteq Call
  BY DEF Inv
<1>2. \A x \in Call : Told(call'[x])
  BY <1>1 DEF TellInv
<1>3. \A x \in late' : call'[x].attempts >= 1
  BY <1>1 DEF TellInv
<1> QED
  BY <1>2, <1>3 DEF TellInv

(* A call ends and says what it was told, or of an error. *)
LEMMA ExitTold ==
  ASSUME Inv, TellInv, NEW c \in Call, NEW exit, NEW report, Exit(c, exit, report),
         call[c].phase \in {"new", "sent", "answered"},
         \/ exit \in {1, 2} /\ report.kind \in ErrorKinds
         \/ /\ call[c].reply.kind # "none"
            /\ exit = OpResult(call[c].request, call[c].reply).exit
            /\ report = OpResult(call[c].request, call[c].reply).report,
         late' = late \/ (late' = late \cup {c} /\ call[c].phase # "new"),
         UNCHANGED service
  PROVE  TellInv'
<1> DEFINE d == [call[c] EXCEPT !.phase = "done", !.exit = exit, !.report = report]
<1>1. CallInv(call[c]) /\ DOMAIN call[c] = Fields /\ Told(call[c])
  BY DEF Inv, CallInv, TellInv
<1>2. call' = [call EXCEPT ![c] = d]
  BY DEF Exit
<1>3. /\ d.phase = "done" /\ d.exit = exit /\ d.report = report
      /\ d.request = call[c].request /\ d.api = call[c].api /\ d.reply = call[c].reply
      /\ d.seen = call[c].seen /\ d.stored = call[c].stored /\ d.removed = call[c].removed
      /\ d.attempts = call[c].attempts
  BY <1>1 DEF Fields
<1> HIDE DEF d
<1>4. Changes(d)
  BY <1>1, <1>3 DEF Told, Changes
<1>5. Answer(d)
  BY <1>1, <1>3, AnswerGrows DEF Told
<1>6. Reported(d)
  BY <1>1, <1>3 DEF Told, Reported
<1>7. Tried(d)
  BY <1>1, <1>3 DEF Told, Tried, Sent
<1>8. Told(d)
  BY <1>4, <1>5, <1>6, <1>7 DEF Told
<1>9. /\ late' \subseteq late \cup {c}
      /\ c \in late' => d.attempts >= 1
  BY <1>1, <1>3 DEF Told, Tried, TellInv
<1> QED
  BY <1>2, <1>8, <1>9, OneTold DEF TellInv

LEMMA ErrorsAreErrors ==
  ASSUME NEW kind, NEW op
  PROVE  render_error(kind, op).kind \in ErrorKinds
BY DEF render_error, ErrorKinds

LEMMA EndsTold ==
  ASSUME Inv, TellInv, NEW c \in Call,
         InvalidArguments(c) \/ RejectInput(c) \/ NoClient(c) \/ FailLocally(c) \/ Report(c)
  PROVE  TellInv'
<1>1. UNCHANGED <<service, late>> /\ call[c].phase \in {"new", "sent", "answered"}
  BY DEF InvalidArguments, RejectInput, NoClient, FailLocally, Report
<1>2. CASE Report(c)
  <2>1. call[c].reply.kind # "none"
    BY <1>2 DEF Report, TellInv, Told, Reported
  <2>2. \E exit, report : /\ Exit(c, exit, report)
                          /\ exit = OpResult(call[c].request, call[c].reply).exit
                          /\ report = OpResult(call[c].request, call[c].reply).report
    BY <1>2 DEF Report
  <2> QED
    BY <1>1, <2>1, <2>2, ExitTold
<1>3. CASE InvalidArguments(c) \/ RejectInput(c) \/ NoClient(c) \/ FailLocally(c)
  <2>1. \E exit, report : Exit(c, exit, report) /\ exit \in {1, 2} /\ report.kind \in ErrorKinds
    <3>1. CASE InvalidArguments(c)
      <4>1. Exit(c, 2, [kind |-> "invalid arguments"])
        BY <3>1 DEF InvalidArguments
      <4>2. [kind |-> "invalid arguments"].kind \in ErrorKinds
        BY DEF ErrorKinds
      <4> QED
        BY <4>1, <4>2
    <3>2. CASE RejectInput(c)
      <4>1. Exit(c, 1, [kind |-> "input error"])
        BY <3>2 DEF RejectInput
      <4>2. [kind |-> "input error"].kind \in ErrorKinds
        BY DEF ErrorKinds
      <4> QED
        BY <4>1, <4>2
    <3>3. CASE NoClient(c)
      <4>1. PICK why : Exit(c, 1, [kind |-> "raised", why |-> why])
        BY <3>3 DEF NoClient
      <4>2. [kind |-> "raised", why |-> why].kind \in ErrorKinds
        BY DEF ErrorKinds
      <4> QED
        BY <4>1, <4>2
    <3>4. CASE FailLocally(c)
      <4>1. PICK kind : Exit(c, 1, render_error(kind, call[c].request.op))
        BY <3>4 DEF FailLocally
      <4> QED
        BY <4>1, ErrorsAreErrors
    <3> QED
      BY <1>3, <3>1, <3>2, <3>3, <3>4
  <2> QED
    BY <1>1, <2>1, ExitTold
<1> QED
  BY <1>2, <1>3

LEMMA SendTold ==
  ASSUME Inv, TellInv, NEW c \in Call, Send(c)
  PROVE  TellInv'
<1>1. PICK r \in Requests[c] :
        /\ call[c].phase = "new"
        /\ call' = [call EXCEPT ![c].phase = "sent", ![c].request = r,
                                ![c].api = ApiRequest(r), ![c].attempts = 1]
        /\ UNCHANGED <<service, late>>
  BY DEF Send
<1> DEFINE d == [call[c] EXCEPT !.phase = "sent", !.request = r,
                                !.api = ApiRequest(r), !.attempts = 1]
<1>2. DOMAIN call[c] = Fields /\ Told(call[c])
  BY DEF Inv, CallInv, TellInv
<1>3. call' = [call EXCEPT ![c] = d]
  BY <1>1
<1>4. /\ d.phase = "sent" /\ d.attempts = 1 /\ d.reply = call[c].reply
      /\ d.exit = call[c].exit /\ d.report = call[c].report
      /\ d.seen = call[c].seen /\ d.stored = call[c].stored /\ d.removed = call[c].removed
  BY <1>2 DEF Fields
<1> HIDE DEF d
<1>5. /\ d.stored = {} /\ d.removed = {} /\ d.reply.kind = "none" /\ Known(d.seen)
      /\ d.exit = None /\ d.report = NoReport
  BY <1>1, <1>2, <1>4 DEF Told, Tried, Changes, Reported
<1>6. Changes(d)
  BY <1>5 DEF Changes, Known
<1>7. Answer(d)
  BY <1>5 DEF Answer, Kinds, NotFoundIsTrue, PageIsTrue, BatchIsTrue, Refusal, Effect
<1>8. Reported(d) /\ Tried(d)
  BY <1>4, <1>5, MaxAttemptsAssumption DEF Reported, Tried
<1>9. Told(d) /\ d.attempts >= 1
  BY <1>4, <1>6, <1>7, <1>8 DEF Told
<1> QED
  BY <1>1, <1>3, <1>9, OneTold DEF TellInv

LEMMA HandleTold ==
  ASSUME Inv, TellInv, NEW c \in Call, Handle(c)
  PROVE  TellInv'
<1>1. /\ Sent(call[c]) /\ DOMAIN call[c] = Fields /\ UNCHANGED late /\ Told(call[c])
      /\ call[c].phase = "sent"
  BY DEF Inv, CallInv, Handle, TellInv
<1>2. PICK e \in Effects(call[c].api, call[c].request) :
        /\ service' = (service \ e.remove) \cup e.add
        /\ call' = [call EXCEPT ![c].phase = "answered", ![c].reply = e.reply,
                                ![c].seen = service,
                                ![c].stored = @ \cup e.add, ![c].removed = @ \cup e.remove]
  BY DEF Handle
<1> DEFINE d == [call[c] EXCEPT !.phase = "answered", !.reply = e.reply, !.seen = service,
                                !.stored = @ \cup e.add, !.removed = @ \cup e.remove]
<1>3. call' = [call EXCEPT ![c] = d]
  BY <1>2
<1>4. /\ d.phase = "answered" /\ d.attempts = call[c].attempts
      /\ d.exit = call[c].exit /\ d.report = call[c].report
      /\ d.request = call[c].request /\ d.api = call[c].api
      /\ d.reply = e.reply /\ d.seen = service
      /\ d.stored = call[c].stored \cup e.add /\ d.removed = call[c].removed \cup e.remove
  BY <1>1 DEF Fields
<1> HIDE DEF d
<1>5. Changes(d) /\ Known(service')
  BY <1>1, <1>2, <1>4, ChangesGrow DEF TellInv, Told
<1>6. Answer(d) /\ d.reply.kind # "none"
  BY <1>1, <1>4, EffectAnswer
<1>7. Reported(d)
  BY <1>1, <1>4, <1>6 DEF Told, Reported
<1>8. Tried(d)
  BY <1>1, <1>4 DEF Told, Tried, Sent
<1>9. c \in late' => d.attempts >= 1
  BY <1>1, <1>4 DEF TellInv
<1> QED
  BY <1>1, <1>3, <1>5, <1>6, <1>7, <1>8, <1>9, OneTold DEF Told

LEMMA HandleLateTold ==
  ASSUME Inv, TellInv, NEW c \in Call, HandleLate(c)
  PROVE  TellInv'
<1>1. /\ Sent(call[c]) /\ DOMAIN call[c] = Fields /\ late' = late \ {c} /\ Told(call[c])
      /\ call[c].attempts >= 1
  BY DEF Inv, CallInv, HandleLate, TellInv
<1>2. PICK e \in Effects(call[c].api, call[c].request) :
        /\ service' = (service \ e.remove) \cup e.add
        /\ call' = [call EXCEPT ![c].stored = @ \cup e.add, ![c].removed = @ \cup e.remove]
  BY DEF HandleLate
<1> DEFINE d == [call[c] EXCEPT !.stored = @ \cup e.add, !.removed = @ \cup e.remove]
<1>3. call' = [call EXCEPT ![c] = d]
  BY <1>2
<1>4. /\ d.phase = call[c].phase /\ d.attempts = call[c].attempts
      /\ d.exit = call[c].exit /\ d.report = call[c].report
      /\ d.request = call[c].request /\ d.api = call[c].api
      /\ d.reply = call[c].reply /\ d.seen = call[c].seen
      /\ d.stored = call[c].stored \cup e.add /\ d.removed = call[c].removed \cup e.remove
  BY <1>1 DEF Fields
<1> HIDE DEF d
<1>5. Changes(d) /\ Known(service')
  BY <1>1, <1>2, <1>4, ChangesGrow DEF TellInv, Told
<1>6. Answer(d)
  BY <1>1, <1>4, AnswerGrows DEF Told
<1>7. Reported(d)
  BY <1>1, <1>4 DEF Told, Reported
<1>8. Tried(d)
  BY <1>1, <1>4 DEF Told, Tried, Sent
<1> QED
  BY <1>1, <1>3, <1>5, <1>6, <1>7, <1>8, OneTold DEF Told

LEMMA TimeOutTold ==
  ASSUME Inv, TellInv, NEW c \in Call, TimeOut(c)
  PROVE  TellInv'
<1>1. /\ Sent(call[c]) /\ DOMAIN call[c] = Fields /\ Told(call[c]) /\ UNCHANGED service
      /\ late' = late \/ late' = late \cup {c}
      /\ call[c].phase \in {"sent", "answered"}
  BY DEF Inv, CallInv, TimeOut, TellInv
<1>2. CASE call[c].attempts < MaxAttempts
  <2> DEFINE d == [call[c] EXCEPT !.phase = "sent", !.reply = NoReply, !.attempts = @ + 1]
  <2>1. call' = [call EXCEPT ![c] = d]
    BY <1>2 DEF TimeOut
  <2>2. /\ d.phase = "sent" /\ d.attempts = call[c].attempts + 1 /\ d.reply.kind = "none"
        /\ d.exit = call[c].exit /\ d.report = call[c].report
        /\ d.request = call[c].request /\ d.api = call[c].api
        /\ d.seen = call[c].seen /\ d.stored = call[c].stored /\ d.removed = call[c].removed
    BY <1>1 DEF Fields, NoReply
  <2> HIDE DEF d
  <2>3. Changes(d)
    BY <1>1, <2>2 DEF Told, Changes
  <2>4. Answer(d)
    BY <2>2 DEF Answer, Kinds, NotFoundIsTrue, PageIsTrue, BatchIsTrue, Refusal, Effect
  <2>5. Reported(d)
    BY <1>1, <2>2 DEF Told, Reported
  <2>6. Tried(d)
    BY <1>1, <1>2, <2>2, MaxAttemptsAssumption DEF Told, Tried
  <2>7. d.attempts >= 1
    BY <2>2, <2>6 DEF Tried
  <2> QED
    BY <1>1, <2>1, <2>3, <2>4, <2>5, <2>6, <2>7, OneTold DEF Told, TellInv
<1>3. CASE ~(call[c].attempts < MaxAttempts)
  <2>1. \E report : Exit(c, 1, report) /\ report.kind \in ErrorKinds
    BY <1>3, ErrorsAreErrors DEF TimeOut
  <2> QED
    BY <1>1, <2>1, ExitTold
<1> QED
  BY <1>2, <1>3

LEMMA OthersTold ==
  ASSUME Inv, TellInv, OthersCreate \/ OthersRemove
  PROVE  TellInv'
<1>1. UNCHANGED <<late, call>> /\ \A g \in service' : g \in service \/ g \in Foreign
  BY DEF OthersCreate, OthersRemove, OthersChange
<1>2. Known(service')
  BY <1>1, ForeignAssumption DEF TellInv, Known
<1> QED
  BY <1>1, <1>2 DEF TellInv

LEMMA InitTold == Init => TellInv
<1> SUFFICES ASSUME Init PROVE TellInv
  OBVIOUS
<1> DEFINE c == NewCall
<1>1. /\ c.phase = "new" /\ c.exit = None /\ c.report = NoReport /\ c.attempts = 0
      /\ c.reply.kind = "none" /\ c.seen = {} /\ c.stored = {} /\ c.removed = {}
  BY DEF NewCall, NoReply
<1> HIDE DEF c
<1>2. Changes(c) /\ Reported(c) /\ Tried(c)
  BY <1>1, MaxAttemptsAssumption DEF Changes, Known, Reported, Tried
<1>3. Answer(c)
  BY <1>1 DEF Answer, Kinds, NotFoundIsTrue, PageIsTrue, BatchIsTrue, Refusal, Effect
<1> QED
  BY <1>2, <1>3 DEF Init, TellInv, Told, Known, c

LEMMA NextTold == Inv /\ TellInv /\ [Next]_vars => TellInv'
<1> SUFFICES ASSUME Inv, TellInv, [Next]_vars PROVE TellInv'
  OBVIOUS
<1>1. ASSUME NEW c \in Call,
             InvalidArguments(c) \/ RejectInput(c) \/ NoClient(c) \/ FailLocally(c) \/ Report(c)
      PROVE  TellInv'
  BY <1>1, EndsTold
<1>2. ASSUME NEW c \in Call, Send(c) PROVE TellInv'
  BY <1>2, SendTold
<1>3. ASSUME NEW c \in Call, Handle(c) \/ HandleLate(c) \/ TimeOut(c) PROVE TellInv'
  BY <1>3, HandleTold, HandleLateTold, TimeOutTold
<1>4. CASE OthersCreate \/ OthersRemove
  BY <1>4, OthersTold
<1>5. CASE UNCHANGED vars
  BY <1>5 DEF vars, TellInv
<1> QED
  BY <1>1, <1>2, <1>3, <1>4, <1>5 DEF Next

(* TellInv, which ties reports to answers and answers to what was done.    *)
THEOREM AnswersAreTracked == Spec => []TellInv
<1> QED
  BY InitTold, NextTold, RequestsAreKept, PTL DEF Spec

-----------------------------------------------------------------------------
(* Reports. *)
LEMMA ResultFacts ==
  ASSUME NEW r, NEW reply, reply.kind \in Kinds \ {"none"}
  PROVE  LET exit == OpResult(r, reply).exit
             report == OpResult(r, reply).report
         IN /\ exit \in {0, 1}
            /\ exit = 0 => reply.kind # "refused" /\ (reply.kind = "batch" => reply.errors = {})
            /\ report.kind = "created" =>
                 reply.kind = "created" /\ report = render_create_success_message(r)
            /\ report.kind = "configuration" =>
                 /\ reply.kind = "configuration" /\ reply.config # None
                 /\ report.location = Rendered(reply.config, reply.wrapped, LimitField).location
                 /\ report.capture = Rendered(reply.config, reply.wrapped, LimitField).capture
            /\ report.kind = "active" =>
                 reply.kind = "page" /\ report = render_list_instrumentations_output(reply)
<1>1. CASE reply.kind = "refused"
  <2>1. OpResult(r, reply) = Result(FALSE, render_error("ClientError", r.op))
    BY <1>1 DEF OpResult
  <2> QED
    BY <1>1, <2>1 DEF Result, render_error
<1>2. CASE reply.kind = "created"
  <2>1. OpResult(r, reply) = Result(TRUE, render_create_success_message(r))
    BY <1>2 DEF OpResult
  <2>2. render_create_success_message(r).kind = "created"
    BY DEF render_create_success_message
  <2> QED
    BY <1>2, <2>1, <2>2 DEF Result
<1>3. CASE reply.kind = "deleted"
  <2>1. OpResult(r, reply) = Result(TRUE, [kind |-> "deleted"])
    BY <1>3 DEF OpResult
  <2> QED
    BY <1>3, <2>1 DEF Result
<1>4. CASE reply.kind = "configuration"
  <2>1. OpResult(r, reply) = GetResult(reply)
    BY <1>4 DEF OpResult
  <2>2. CASE reply.config = None
    <3> DEFINE nothing == [kind |-> "no instrumentation found"]
    <3>1. nothing.kind \notin {"created", "configuration", "active"}
      OBVIOUS
    <3>2. OpResult(r, reply) = Result(FALSE, nothing)
      BY <2>1, <2>2 DEF GetResult
    <3> HIDE DEF nothing
    <3>3. OpResult(r, reply).exit = 1 /\ OpResult(r, reply).report = nothing
      BY <3>2 DEF Result
    <3> QED
      BY <3>1, <3>3
  <2>3. CASE reply.config # None
    <3> DEFINE rendered == Rendered(reply.config, reply.wrapped, LimitField)
    <3>1. OpResult(r, reply) =
            Result(TRUE, [ kind |-> "configuration", location |-> rendered.location,
                           capture |-> rendered.capture ])
      BY <2>1, <2>3 DEF GetResult
    <3> HIDE DEF rendered
    <3>2. /\ OpResult(r, reply).exit = 0
          /\ OpResult(r, reply).report.kind = "configuration"
          /\ OpResult(r, reply).report.location = rendered.location
          /\ OpResult(r, reply).report.capture = rendered.capture
      BY <3>1 DEF Result
    <3> QED
      BY <1>4, <2>3, <3>2 DEF rendered
  <2> QED
    BY <2>2, <2>3
<1>5. CASE reply.kind = "page"
  <2>1. OpResult(r, reply) = Result(TRUE, render_list_instrumentations_output(reply))
    BY <1>5 DEF OpResult
  <2>2. render_list_instrumentations_output(reply).kind \in {"active", "no active"}
    BY DEF render_list_instrumentations_output
  <2>3. /\ OpResult(r, reply).exit = 0
        /\ OpResult(r, reply).report = render_list_instrumentations_output(reply)
    BY <2>1 DEF Result
  <2> QED
    BY <1>5, <2>2, <2>3
<1>6. CASE reply.kind = "batch"
  <2>1. OpResult(r, reply) = Result(reply.errors = {}, format_batch_delete_response(reply))
    BY <1>6 DEF OpResult
  <2>2. format_batch_delete_response(reply).kind = "batch"
    BY DEF format_batch_delete_response
  <2> QED
    BY <1>6, <2>1, <2>2 DEF Result
<1> QED
  BY <1>1, <1>2, <1>3, <1>4, <1>5, <1>6 DEF Kinds

LEMMA NoNumber == None # 0 /\ None # 1 /\ None # 2
<1>1. None \notin Int
  BY NoneAssumption
<1> QED
  BY <1>1

(* What a call says that is not an error comes from its answer. *)
LEMMA ReportFacts ==
  ASSUME NEW c, Told(c), c.exit = 0 \/ c.report.kind \in {"created", "configuration", "active"}
  PROVE  /\ Sent(c) /\ c.reply.kind \in Kinds \ {"none"}
         /\ c.exit = OpResult(c.request, c.reply).exit
         /\ c.report = OpResult(c.request, c.reply).report
<1>1. c.phase = "done"
  <2>1. NoReport.kind = "none"
    BY DEF NoReport
  <2> QED
    BY <2>1, NoNumber DEF Told, Reported
<1>2. ErrorKinds \cap {"created", "configuration", "active"} = {}
  BY DEF ErrorKinds
<1>3. ~(c.exit \in {1, 2} /\ c.report.kind \in ErrorKinds)
  BY <1>2
<1>4. /\ c.reply.kind # "none"
      /\ c.exit = OpResult(c.request, c.reply).exit
      /\ c.report = OpResult(c.request, c.reply).report
  BY <1>1, <1>3 DEF Told, Reported
<1> QED
  BY <1>4 DEF Told, Tried, Answer

(* The state keeps its types: only accepted input is sent, every call ends *)
(* with one of the exit codes 0, 1 and 2 of main, and a request still on   *)
(* its way belongs to a call that sent it.                                 *)
THEOREM InstrumentationTypes == Spec => []TypeOK
<1>1. ASSUME NEW c, CallInv(c), Told(c) PROVE CallOK(c)
  <2>1. c.exit \in {None, 0, 1, 2} /\ (c.exit # None <=> c.phase = "done")
    <3>1. CASE c.phase # "done"
      BY <1>1, <3>1 DEF Told, Reported
    <3>2. CASE c.phase = "done" /\ c.exit \in {1, 2}
      BY <3>2, NoNumber
    <3>3. CASE /\ c.phase = "done" /\ c.reply.kind # "none"
               /\ c.exit = OpResult(c.request, c.reply).exit
      <4>1. c.exit \in {0, 1}
        BY <1>1, <3>3, ResultFacts DEF Told, Answer
      <4> QED
        BY <3>3, <4>1, NoNumber
    <3> QED
      BY <1>1, <3>1, <3>2, <3>3 DEF Told, Reported
  <2> QED
    BY <1>1, <2>1 DEF CallOK, Told, Reported, Tried, CallInv, Sent
<1>2. Inv /\ TellInv => TypeOK
  BY <1>1 DEF Inv, TellInv, Known, TypeOK
<1> QED
  BY <1>2, RequestsAreKept, AnswersAreTracked, PTL

(* Exit code 0 of a command is the truth about the service.                *)
THEOREM SuccessIsTrue == Spec => []SuccessWasApplied
<1>1. ASSUME NEW c, Told(c), c.exit = 0
      PROVE  CASE c.request.op = "create" ->
                    \E g \in c.stored :
                      SameScope(c.request, g.asked) /\ SameTarget(c.request.target, g.asked.target)
               [] c.request.op = "delete" ->
                    c.removed # {} /\ OwnConfigs(c.removed) = Meant(c.request, OwnConfigs(c.removed))
               [] c.request.op = "batch-delete-by-scope" ->
                    {g \in OwnConfigs(c.seen) : SameScope(c.request, g.asked)} \subseteq c.removed
               [] c.request.op = "batch-delete-by-arns" ->
                    \A a \in ToSet(c.request.resource_arns) : \E g \in c.removed : Arn(g) = a
               [] OTHER -> c.stored \cup c.removed = {}
  <2> DEFINE r == c.request
  <2>1. /\ Sent(c) /\ c.reply.kind \in Kinds \ {"none", "refused"}
        /\ c.reply.kind = "batch" => c.reply.errors = {}
    BY <1>1, ReportFacts, ResultFacts
  <2>2. Changes(c) /\ Answer(c) /\ r.op \in Operations
    BY <1>1, <2>1 DEF Told, Sent
  <2>3. CASE r.op = "create"
    <3>1. Configuration(c.api, r) \in c.stored
      BY <2>1, <2>2, <2>3 DEF Answer, PageIsTrue, BatchIsTrue, Kinds
    <3>2. Configuration(c.api, r).asked = r
      BY DEF Configuration
    <3>3. SameScope(r, r) /\ SameTarget(r.target, r.target)
      BY DEF SameScope, SameTarget, SameText
    <3> QED
      BY <2>3, <3>1, <3>2, <3>3
  <2>4. CASE r.op = "delete"
    <3>1. c.removed # {}
      BY <2>1, <2>2, <2>4 DEF Answer, PageIsTrue, BatchIsTrue, Kinds
    <3>2. ASSUME NEW g \in OwnConfigs(c.removed) PROVE g \in Meant(r, OwnConfigs(c.removed))
      <4>1. g \in c.removed /\ Located(g, c.api) /\ Known(c.removed)
        BY <2>2, <2>4, <3>2 DEF OwnConfigs, Changes
      <4>2. Known(OwnConfigs(c.removed)) /\ g \in OwnConfigs(OwnConfigs(c.removed))
        BY <3>2, <4>1 DEF OwnConfigs, Known
      <4> QED
        BY <2>1, <2>4, <4>1, <4>2, MeantIsLocated
    <3>3. Meant(r, OwnConfigs(c.removed)) \subseteq OwnConfigs(c.removed)
      BY DEF Meant, OwnConfigs
    <3>4. OwnConfigs(c.removed) = Meant(r, OwnConfigs(c.removed))
      BY <3>2, <3>3
    <3> QED
      BY <2>4, <3>1, <3>4
  <2>5. CASE r.op = "batch-delete-by-scope"
    <3>1. \A g \in c.seen : InScope(g, c.api) => g \in c.removed
      BY <2>1, <2>2, <2>5 DEF Answer, PageIsTrue, BatchIsTrue, Kinds
    <3>2. \A g \in OwnConfigs(c.seen) : Made(g)
      BY <2>2 DEF OwnConfigs, Changes, Known
    <3>3. \A g \in OwnConfigs(c.seen) : SameScope(r, g.asked) => g \in c.removed
      BY <2>1, <2>5, <3>1, <3>2, ScopeIsShared DEF OwnConfigs
    <3> QED
      BY <2>5, <3>3
  <2>6. CASE r.op = "batch-delete-by-arns"
    <3>1. \A a \in c.api.arns : \E g \in c.removed : Arn(g) = a
      BY <2>1, <2>2, <2>6 DEF Answer, PageIsTrue, BatchIsTrue, Kinds
    <3> QED
      BY <2>1, <2>6, <3>1, RequestFacts
  <2>7. CASE r.op \in {"get", "list"}
    BY <2>2, <2>7 DEF Changes
  <2> QED
    BY <2>2, <2>3, <2>4, <2>5, <2>6, <2>7 DEF Operations
<1>2. TellInv => SuccessWasApplied
  BY <1>1 DEF TellInv, SuccessWasApplied
<1> QED
  BY <1>2, AnswersAreTracked, PTL

(* get and delete are never told of a target that create stored, however   *)
(* it is spelt, that it does not exist.                                    *)
THEOREM WhatWasCreatedIsFound == Spec => []LookupFindsWhatWasCreated
<1>1. ASSUME NEW c, Told(c), c.request.op \in {"get", "delete"},
             c.reply = Refusal("notFound").reply
      PROVE  Meant(c.request, c.seen) = {}
  <2>1. c.reply.kind = "refused"
    BY <1>1 DEF Refusal, Effect
  <2>2. Sent(c) /\ Known(c.seen) /\ \A g \in c.seen : ~Located(g, c.api)
    BY <1>1, <2>1 DEF Told, Tried, Changes, Answer, NotFoundIsTrue
  <2>3. Meant(c.request, c.seen) \subseteq OwnConfigs(c.seen)
    BY DEF Meant
  <2> QED
    BY <1>1, <2>2, <2>3, MeantIsLocated DEF OwnConfigs
<1>2. TellInv => LookupFindsWhatWasCreated
  BY <1>1 DEF TellInv, LookupFindsWhatWasCreated
<1> QED
  BY <1>2, AnswersAreTracked, PTL

-----------------------------------------------------------------------------
(* What a response carries of a configuration that create made is read     *)
(* back as what create was asked for.                                      *)
Details(t) ==
  [ language |-> CodeLocation(t).language, file_path |-> t.file_path,
    code_unit |-> OrNone(t.code_unit), class_name |-> OrNone(t.class_name),
    method_name |-> OrNone(t.method_name), line_number |-> t.line_number ]

Level(line_number) == IF line_number = None THEN "function" ELSE "line"

LEMMA BlockOf ==
  ASSUME NEW location, DOMAIN location = TargetFields
  PROVE  render_location_block(location) =
           [details |-> location, level |-> Level(location.line_number)]
<1>1. location # Unparsed
  BY DEF Unparsed, TargetFields
<1> QED
  BY <1>1 DEF render_location_block, Level

LEMMA LocationIsReadBack ==
  ASSUME NEW g, Made(g), NEW wrapped \in BOOLEAN, NEW limits
  PROVE  Rendered(g, wrapped, limits).location =
           [details |-> Details(g.asked.target), level |-> Level(g.asked.target.line_number)]
<1> DEFINE t == g.asked.target
           union == IF wrapped THEN Wrapped(g.Location) ELSE Flat(g.Location)
<1>1. DOMAIN t = TargetFields /\ LowerWord(t.language) \in Language
  BY AcceptedTarget DEF Made, WellFormed
<1>2. g.Location = to_code_location_dict(CodeLocation(t))
  BY DEF Made, Configuration, CreateRequest
<1>3. CodeLocation(t).language # None
  <2>1. LowerWord(t.language) = t.language.word
    BY <1>1 DEF LowerWord, Language
  <2>2. CodeLocation(t).language = Canonical(t.language.word)
    BY <1>1, <2>1, LocationFields, LanguageAssumption DEF canonical_language
  <2> QED
    BY <1>1, <2>1, <2>2, LanguageAssumption
<1>4. union.value = g.Location /\ union.wrapped = wrapped
  BY DEF Wrapped, Flat
<1> HIDE DEF union
<1>5. g.Location = [ Language |-> CodeLocation(t).language, FilePath |-> t.file_path,
                     CodeUnit |-> OrNone(t.code_unit), ClassName |-> OrNone(t.class_name),
                     MethodName |-> OrNone(t.method_name), LineNumber |-> t.line_number ]
  BY <1>1, <1>2, LocationFields
<1>6. union.value.Language # None
  BY <1>3, <1>4, <1>5
<1>7. location_from_response(union) = Details(t)
  BY <1>4, <1>5, <1>6 DEF location_from_response, Details
<1>8. DOMAIN Details(t) = TargetFields /\ Details(t).line_number = t.line_number
  BY DEF Details, TargetFields
<1>9. Rendered(g, wrapped, limits).location = render_location_block(location_from_response(union))
  BY DEF Rendered, union
<1> QED
  BY <1>7, <1>8, <1>9, BlockOf

LEMMA CaptureIsReadBack ==
  ASSUME NEW g, Made(g), NEW wrapped \in BOOLEAN, NEW limits
  PROVE  Rendered(g, wrapped, limits).capture =
           Show(CodeCapture(g.asked.target, g.asked.capture), limits)
<1> DEFINE cc == CodeCapture(g.asked.target, g.asked.capture)
           payload == g.CaptureConfiguration
           union == IF wrapped THEN Wrapped(payload) ELSE Flat(payload)
<1>1. payload = to_capture_payload(cc)
  BY DEF Made, Configuration, CreateRequest
<1>2. /\ cc.capture_return \in BOOLEAN /\ cc.capture_stack_trace \in BOOLEAN
      /\ cc.limits # None
  BY DEF Made, WellFormed, CodeCapture
<1>3. cc = [ capture_return |-> cc.capture_return, capture_stack_trace |-> cc.capture_stack_trace,
             capture_arguments |-> cc.capture_arguments, capture_locals |-> cc.capture_locals,
             limits |-> cc.limits ]
  BY DEF CodeCapture
<1>4. union.value = payload /\ union.wrapped = wrapped
  BY DEF Wrapped, Flat
<1>5. Rendered(g, wrapped, limits).capture = Show(capture_from_response(union), limits)
  BY DEF Rendered
<1> HIDE DEF cc, union, payload
<1>6. /\ union.value.CaptureReturn = cc.capture_return
      /\ union.value.CaptureStackTrace = cc.capture_stack_trace
      /\ union.value.CaptureArguments = cc.capture_arguments
      /\ union.value.CaptureLocals = cc.capture_locals
      /\ union.value.CaptureLimits = cc.limits
  BY <1>1, <1>4 DEF to_capture_payload
<1>7. union.value["CaptureReturn"] # None
  BY <1>2, <1>6, FlagAssumption
<1>8. capture_from_response(union) =
        [ capture_return |-> union.value.CaptureReturn = TRUE,
          capture_stack_trace |-> union.value.CaptureStackTrace = TRUE,
          capture_arguments |-> union.value.CaptureArguments,
          capture_locals |-> union.value.CaptureLocals,
          limits |-> IF union.value.CaptureLimits = None THEN NoLimits
                     ELSE union.value.CaptureLimits ]
  BY <1>7 DEF capture_from_response, HintKeys
<1>9. (cc.capture_return = TRUE) = cc.capture_return
  BY <1>2
<1>10. (cc.capture_stack_trace = TRUE) = cc.capture_stack_trace
  BY <1>2
<1>11. capture_from_response(union) = cc
  BY <1>2, <1>3, <1>6, <1>8, <1>9, <1>10
<1> QED
  BY <1>5, <1>11 DEF cc

(* Details differs from the target it is read from only in the letter case *)
(* of the language and in empty texts.                                     *)
LEMMA DetailsAreTheTarget ==
  ASSUME NEW t, DOMAIN t = TargetFields, t.language # None, Truthy(t.file_path)
  PROVE  /\ SameTarget(Details(t), t)
         /\ SameTarget(CodeLocation(t), Details(t))
         /\ DOMAIN CodeLocation(t) = TargetFields
         /\ CodeLocation(t).line_number = t.line_number
<1> DEFINE l == CodeLocation(t)
           d == Details(t)
<1>1. /\ DOMAIN l = TargetFields
      /\ l.file_path = t.file_path /\ l.code_unit = t.code_unit /\ l.class_name = t.class_name
      /\ l.method_name = t.method_name /\ l.line_number = t.line_number
      /\ l.language = (IF canonical_language(t.language) = None THEN t.language
                       ELSE canonical_language(t.language))
  BY DEF CodeLocation, TargetFields
<1>2. l.language.word = t.language.word /\ l.language # None
  BY <1>1 DEF canonical_language, Canonical, Spelt
<1>3. LowerWord(l.language) = LowerWord(t.language)
  BY <1>2 DEF LowerWord
<1>4. /\ d.language = l.language /\ d.file_path = t.file_path /\ d.code_unit = OrNone(t.code_unit)
      /\ d.class_name = OrNone(t.class_name) /\ d.method_name = OrNone(t.method_name)
      /\ d.line_number = t.line_number
  BY DEF Details
<1> HIDE DEF l, d
<1>5. SameTarget(d, t)
  BY <1>3, <1>4, OrNoneFacts DEF SameTarget, SameText, TextField
<1>6. SameTarget(l, d)
  BY <1>1, <1>4, OrNoneFacts DEF SameTarget, SameText, TextField
<1> QED
  BY <1>1, <1>5, <1>6 DEF l, d

(* get reports of a configuration what create reported when it made it.    *)
THEOREM ReportsAgree == Spec => []GetAgreesWithCreate
<1>1. ASSUME NEW c, Told(c), NEW d, Told(d),
             c.report.kind = "created", d.report.kind = "configuration",
             d.reply.config \in c.stored
      PROVE  LET made == c.report
                 got == d.report
             IN /\ SameTarget(made.location.details, got.location.details)
                /\ made.location.level = got.location.level
                /\ \A f \in DOMAIN made.capture :
                     \/ made.capture[f] = got.capture[f]
                     \/ made.location.level = "line" /\ f \in {"capture_arguments", "capture_return"}
  <2> DEFINE r == c.request
             g == d.reply.config
             w == d.reply.wrapped
             capture == Show(CodeCapture(r.target, r.capture), LimitField)
             line == r.target.line_number # None
  <2>1. /\ Sent(c) /\ c.reply.kind \in Kinds \ {"none"} /\ c.report = OpResult(r, c.reply).report
        /\ d.reply.kind \in Kinds \ {"none"} /\ d.report = OpResult(d.request, d.reply).report
    BY <1>1, ReportFacts
  <2>2. c.report = render_create_success_message(r)
    BY <1>1, <2>1, ResultFacts
  <2>3. /\ d.reply.kind = "configuration" /\ g # None
        /\ d.report.location = Rendered(g, w, LimitField).location
        /\ d.report.capture = Rendered(g, w, LimitField).capture
    BY <1>1, <2>1, ResultFacts
  <2>4. w \in BOOLEAN
    BY <1>1, <2>3 DEF Told, Answer
  <2>5. r.op = "create" /\ g = Configuration(c.api, r)
    BY <1>1 DEF Told, Changes
  <2>6. c.api = CreateRequest(r) /\ WellFormed(r) /\ Accepts(r)
    BY <2>1, <2>5, RequestFacts DEF Sent
  <2>7. g.asked = r
    BY <2>5 DEF Configuration
  <2>8. Made(g)
    BY <2>5, <2>6, <2>7 DEF Made
  <2>9. DOMAIN r.target = TargetFields /\ r.target.language # None /\ Truthy(r.target.file_path)
    BY <2>5, <2>6, AcceptedTarget DEF WellFormed
  <2>10. c.report.location =
           [details |-> CodeLocation(r.target), level |-> Level(r.target.line_number)]
    <3>1. c.report.location = render_location_block(CodeLocation(r.target))
      BY <2>2 DEF render_create_success_message
    <3> QED
      BY <2>9, <3>1, DetailsAreTheTarget, BlockOf
  <2>11. d.report.location = [details |-> Details(r.target), level |-> Level(r.target.line_number)]
    BY <2>3, <2>4, <2>7, <2>8, LocationIsReadBack
  <2>12. d.report.capture = capture
    BY <2>3, <2>4, <2>7, <2>8, CaptureIsReadBack
  <2>13. c.report.capture = [ capture EXCEPT !.capture_arguments = IF line THEN None ELSE @,
                                             !.capture_return = IF line THEN None ELSE @ ]
    BY <2>2 DEF render_create_success_message
  <2> HIDE DEF capture
  <2>14. \A f \in DOMAIN c.report.capture :
           \/ c.report.capture[f] = capture[f]
           \/ line /\ f \in {"capture_arguments", "capture_return"}
    <3>1. CASE line
      BY <2>13, <3>1
    <3>2. CASE ~line
      BY <2>13, <3>2
    <3> QED
      BY <3>1, <3>2
  <2>15. line => c.report.location.level = "line"
    BY <2>10 DEF Level
  <2>16. SameTarget(CodeLocation(r.target), Details(r.target))
    BY <2>9, DetailsAreTheTarget
  <2>17. /\ c.report.location.details = CodeLocation(r.target)
         /\ d.report.location.details = Details(r.target)
         /\ c.report.location.level = d.report.location.level
    BY <2>10, <2>11
  <2> QED
    BY <2>12, <2>14, <2>15, <2>16, <2>17
<1>2. TellInv => GetAgreesWithCreate
  BY <1>1 DEF TellInv, GetAgreesWithCreate
<1> QED
  BY <1>2, AnswersAreTracked, PTL

(* A first page without a hint at a next one shows every configuration.    *)
THEOREM ListingIsComplete == Spec => []ListingWithoutGuidanceIsComplete
<1>1. ASSUME NEW c, Told(c), c.report.kind = "active", ~c.report.pagination,
             c.request.next_token = None,
             NEW g \in OwnConfigs(c.seen), SameScope(c.request, g.asked)
      PROVE  \E item \in c.report.items : SameTarget(item.location.details, g.asked.target)
  <2> DEFINE page == c.reply
             item == Rendered(g, TRUE, ListedLimits)
  <2>1. /\ Sent(c) /\ page.kind \in Kinds \ {"none"}
        /\ c.report = OpResult(c.request, page).report
    BY <1>1, ReportFacts
  <2>2. page.kind = "page" /\ c.report = render_list_instrumentations_output(page)
    BY <1>1, <2>1, ResultFacts
  <2>3. /\ c.report.kind = IF page.configs = {} THEN "no active" ELSE "active"
        /\ c.report.items = {Rendered(x, TRUE, ListedLimits) : x \in page.configs}
        /\ c.report.pagination <=> page.configs # {} /\ page.next # None
    <3> DEFINE kind == IF page.configs = {} THEN "no active" ELSE "active"
               items == {Rendered(x, TRUE, ListedLimits) : x \in page.configs}
               pagination == page.configs # {} /\ page.next # None
    <3>1. c.report = [kind |-> kind, items |-> items, pagination |-> pagination]
      BY <2>2 DEF render_list_instrumentations_output
    <3> HIDE DEF kind, items, pagination
    <3>2. c.report.kind = kind /\ c.report.items = items
      BY <3>1
    <3>3. c.report.pagination = pagination
      BY <3>1
    <3> QED
      BY <3>2, <3>3 DEF kind, items, pagination
  <2>4. page.next = None
    BY <1>1, <2>3
  <2>5. c.request.op = "list" /\ PageIsTrue(c)
    BY <1>1, <2>2 DEF Told, Answer, PageIsTrue
  <2>6. c.api.NextToken = None
    BY <1>1, <2>1, <2>5, RequestFacts, OrNoneFacts
  <2>7. g \in c.seen /\ Made(g)
    BY <1>1 DEF Told, Changes, Known, OwnConfigs
  <2>8. InScope(g, c.api)
    BY <1>1, <2>1, <2>5, <2>7, ScopeIsShared
  <2>9. g \in page.configs
    BY <2>2, <2>4, <2>5, <2>6, <2>7, <2>8 DEF PageIsTrue
  <2>10. item.location.details = Details(g.asked.target)
    <3>1. item.location = [ details |-> Details(g.asked.target),
                            level |-> Level(g.asked.target.line_number) ]
      BY <2>7, LocationIsReadBack
    <3> HIDE DEF item
    <3> QED
      BY <3>1
  <2>11. DOMAIN g.asked.target = TargetFields /\ g.asked.target.language # None
         /\ Truthy(g.asked.target.file_path)
    BY <2>7, AcceptedTarget DEF Made, WellFormed
  <2>12. SameTarget(item.location.details, g.asked.target)
    BY <2>10, <2>11, DetailsAreTheTarget
  <2>13. item \in c.report.items
    BY <2>3, <2>9
  <2> QED
    BY <2>12, <2>13
<1>2. TellInv => ListingWithoutGuidanceIsComplete
  BY <1>1 DEF TellInv, ListingWithoutGuidanceIsComplete
<1> QED
  BY <1>2, AnswersAreTracked, PTL
=============================================================================
