------------------------- MODULE MCInstrumentation --------------------------
(* Small instances of Instrumentation for TLC. *)
EXTENDS Instrumentation

CONSTANTS c1, c2

Text(word) == Spelt(word, "other")

Python ==
  [ language |-> Text("python"), file_path |-> "f", code_unit |-> "u", class_name |-> None,
    method_name |-> "m", line_number |-> None ]
Java == [Python EXCEPT !.language = Text("java"), !.class_name = "K"]
JavaLine == [Java EXCEPT !.line_number = 1]
Script ==
  [ language |-> Canonical("javascript"), file_path |-> "f", code_unit |-> "", class_name |-> None,
    method_name |-> None, line_number |-> 1 ]

(* Each target with one field changed to what is often rejected. *)
Changed(t) ==
  {[t EXCEPT !.language = x] : x \in {None, Text("ruby")}}
  \cup {[t EXCEPT !.file_path = x] : x \in {"", Spaces}}
  \cup {[t EXCEPT !.code_unit = x] : x \in {None, ""}}
  \cup {[t EXCEPT !.class_name = "p.K"]}
  \cup {[t EXCEPT !.method_name = x] : x \in {None, ""}}
  \cup {[t EXCEPT !.line_number = x] : x \in {None, 0, 1}}

Capture(arguments, locals, return, stack, limits) ==
  [ capture_arguments |-> arguments, capture_locals |-> locals, capture_return |-> return,
    capture_stack_trace |-> stack, limits |-> limits ]

AtEntry == Capture(<<"a">>, None, None, FALSE, [NoLimits EXCEPT !["MaxStackFrames"] = 5])
AtLine == Capture(<<"a">>, <<"v">>, None, None, [NoLimits EXCEPT !["MaxHits"] = 0])

BadCaptures ==
  { Capture(<<>>, <<"v">>, None, None, NoLimits), Capture(<<"a", "*">>, <<"v">>, None, None, NoLimits),
    Capture(None, <<>>, None, None, NoLimits), Capture(None, <<"*">>, None, None, NoLimits) }

Create(region, type, target, capture) ==
  [ op |-> "create", region |-> region, type |-> type, scope |-> "s", target |-> target,
    capture |-> capture, ttl_hours |-> None, attribute_filters |-> <<>> ]

Lookup(op, region, type, hash, target) ==
  [ op |-> op, region |-> region, type |-> type, scope |-> "s", hash |-> hash, target |-> target ]

NoTarget ==
  [f \in {"language", "file_path", "code_unit", "class_name", "method_name", "line_number"} |-> None]

Hash(t) == to_code_location_dict(CodeLocation(t))

Breakpoint == Text("BREAKPOINT")
Probe == Canonical("PROBE")

Creates ==
  {Create(None, Breakpoint, t, AtEntry) : t \in UNION {{t} \cup Changed(t) : t \in {Python, Java}}}
  \cup {Create(None, Breakpoint, t, AtLine) : t \in {JavaLine, Script} \cup Changed(Script)}
  \cup {Create(None, Breakpoint, [JavaLine EXCEPT !.line_number = 0], AtLine)}
  \cup {Create(None, Probe, t, AtLine) : t \in {Python, JavaLine, Script}}
  \cup {Create(None, Breakpoint, t, k) : t \in {Python, JavaLine}, k \in BadCaptures}
  \cup {Create(None, Text("TRACE"), Python, AtEntry), Create("r2", Breakpoint, Python, AtEntry)}

Lookups ==
  {Lookup(op, None, Breakpoint, None, t) :
     op \in {"get", "delete"},
     t \in {NoTarget, [Java EXCEPT !.language = Canonical("java")], [Python EXCEPT !.class_name = ""],
            [Script EXCEPT !.code_unit = None, !.language = Text("javascript")]}}
  \cup {Lookup(op, None, Breakpoint, Hash(JavaLine), NoTarget) : op \in {"get", "delete"}}
  \cup {Lookup("delete", "r2", Breakpoint, None, Python)}

ForeignProbe ==
  [ region |-> "r1", type |-> "BREAKPOINT", scope |-> "s", Location |-> Hash([Python EXCEPT !.file_path = "g"]),
    CaptureConfiguration |-> to_capture_payload(AtEntry), ExpiresAt |-> None, AttributeFilters |-> None,
    asked |-> None ]
MCForeign == {ForeignProbe}

ByScope(type) == [op |-> "batch-delete-by-scope", region |-> None, type |-> type, scope |-> "s"]
ByArns(arns) ==
  [op |-> "batch-delete-by-arns", region |-> None, type |-> Breakpoint, resource_arns |-> arns]
PythonArn == [region |-> "r1", type |-> "BREAKPOINT", scope |-> "s", hash |-> Hash(Python)]

Batches ==
  { ByScope(Breakpoint), [op |-> "batch-delete-by-scope", region |-> None, type |-> Breakpoint],
    ByArns(<<PythonArn>>), ByArns(<<PythonArn, Arn(ForeignProbe)>>), ByArns(<<>>), ByArns(<<None>>),
    ByArns(<<PythonArn, PythonArn, PythonArn>>) }

Listing(token) ==
  [op |-> "list", region |-> None, type |-> Breakpoint, scope |-> "s", next_token |-> token]

MCRequests ==
  c1 :> Creates
  @@ c2 :> Lookups \cup Batches \cup {Listing(None), Listing("t1"), Create(None, Breakpoint, Java, AtEntry)}
=============================================================================
