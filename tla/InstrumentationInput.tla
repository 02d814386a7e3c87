------------------------ MODULE InstrumentationInput ------------------------
(***************************************************************************)
(* What the dynamic-instrumentation commands accept, and how a target and  *)
(* a capture are turned into a request and read back from a response:      *)
(* di_validation.py, di_location.py and di_capture.py.                     *)
(*                                                                         *)
(* A text is None, the empty string, Spaces or a name.  A key a payload    *)
(* does not carry is None in the record that stands for the payload.       *)
(* Letter case matters in two places, languages and types: such a word is  *)
(* Spelt(word, form), equal to the API's enumeration only in form "api".   *)
(***************************************************************************)
EXTENDS Integers, Sequences, SequencesExt

CONSTANTS
  None,
  Dotted          \* the names that contain a dot

Spaces == "  "
Wildcard == "*"

Spelt(word, form) == [word |-> word, form |-> form]
Canonical(word) == Spelt(word, "api")

Truthy(x) == x \notin {None, ""}
Blank(x) == ~Truthy(x) \/ x = Spaces
OrNone(x) == IF Truthy(x) THEN x ELSE None

Language == {"python", "java", "javascript"}
Types == {"BREAKPOINT", "PROBE"}

LowerWord(x) == IF x = None THEN "" ELSE x.word

canonical_language(language) ==
  IF LowerWord(language) \in Language THEN Canonical(language.word) ELSE None

(* None stands for the error. *)
normalize_instrumentation_type(type) ==
  IF LowerWord(type) \in Types THEN type.word ELSE None

validate_capture_names(names) ==
  names # None => names # <<>> /\ Wildcard \notin ToSet(names)

validate_probe_constraints(type, target) ==
  type = "PROBE" => LowerWord(target.language) # "javascript" /\ target.line_number = None

\* Mutant: a class name may be qualified.
validate_location_inputsDotted(target) ==
  /\ ~Blank(target.file_path)
  /\ target.line_number # None => target.line_number >= 1
  /\ CASE LowerWord(target.language) = "java" ->
            \A f \in {"code_unit", "class_name", "method_name"} : Truthy(target[f])
       [] LowerWord(target.language) = "python" ->
            Truthy(target.code_unit) /\ Truthy(target.method_name)
       [] LowerWord(target.language) = "javascript" -> target.line_number # None
       [] OTHER -> FALSE

validate_location_inputs(target) ==
  /\ ~Blank(target.file_path)
  /\ target.line_number # None => target.line_number >= 1
  /\ CASE LowerWord(target.language) = "java" ->
            /\ \A f \in {"code_unit", "class_name", "method_name"} : Truthy(target[f])
            /\ target.class_name \notin Dotted
       [] LowerWord(target.language) = "python" ->
            Truthy(target.code_unit) /\ Truthy(target.method_name)
       [] LowerWord(target.language) = "javascript" -> target.line_number # None
       [] OTHER -> FALSE

-----------------------------------------------------------------------------
(* The Location variants. *)
CodeLocation(target) ==
  [target EXCEPT !.language = IF canonical_language(@) = None THEN @ ELSE canonical_language(@)]

\* Mutant: empty optional fields are sent as they are.
to_code_location_dictRaw(location) ==
  [ Language |-> location.language,
    FilePath |-> location.file_path,
    CodeUnit |-> location.code_unit,
    ClassName |-> location.class_name,
    MethodName |-> location.method_name,
    LineNumber |-> location.line_number ]

to_code_location_dict(location) ==
  [ Language |-> location.language,
    FilePath |-> location.file_path,
    CodeUnit |-> OrNone(location.code_unit),
    ClassName |-> OrNone(location.class_name),
    MethodName |-> OrNone(location.method_name),
    LineNumber |-> location.line_number ]

ByCode(payload) == [kind |-> "CodeLocation", value |-> payload]
ByHash(hash) == [kind |-> "LocationHash", value |-> hash]

HasLanguageAndFile(target) == target.language # None /\ Truthy(target.file_path)

parse_create_inputs(target) == HasLanguageAndFile(target) /\ validate_location_inputs(target)

(* The identifier of a lookup: the hash wins, a code location is not       *)
(* validated, and None stands for the error.                               *)
parse_lookup_inputs(hash, target) ==
  CASE hash # None -> ByHash(hash)
    [] hash = None /\ HasLanguageAndFile(target) ->
         ByCode(to_code_location_dict(CodeLocation(target)))
    [] OTHER -> None

(* A union of a response that has no known variant. *)
Unparsed == [parsed |-> FALSE]

(* A response carries the location inside a CodeLocation union or flat.    *)
Wrapped(x) == [wrapped |-> TRUE, value |-> x]
Flat(x) == [wrapped |-> FALSE, value |-> x]

location_from_response(union) ==
  IF union.wrapped \/ union.value.Language # None \/ union.value.FilePath # None
  THEN [ language |-> union.value.Language, file_path |-> union.value.FilePath,
         code_unit |-> union.value.CodeUnit, class_name |-> union.value.ClassName,
         method_name |-> union.value.MethodName, line_number |-> union.value.LineNumber ]
  ELSE Unparsed

(* The LOCATION block and the level line under it. *)
render_location_block(location) ==
  [ details |-> location,
    level |-> IF location = Unparsed THEN None
              ELSE IF location.line_number = None THEN "function" ELSE "line" ]

-----------------------------------------------------------------------------
(* The Capture variants.  Limits are a function of their field.            *)
LimitField ==
  { "MaxHits", "MaxStringLength", "MaxCollectionWidth", "MaxCollectionDepth",
    "MaxStackFrames", "MaxStackTraceSize", "MaxObjectDepth", "MaxFieldsPerObject" }

NoLimits == [f \in LimitField |-> None]

(* The capture create_instrumentation builds, with its defaults. *)
CodeCapture(target, capture) ==
  [ capture_return |-> IF capture.capture_return = None THEN target.line_number = None
                       ELSE capture.capture_return,
    capture_stack_trace |-> IF capture.capture_stack_trace = None THEN TRUE
                            ELSE capture.capture_stack_trace,
    capture_arguments |-> capture.capture_arguments,
    capture_locals |-> capture.capture_locals,
    limits |-> capture.limits ]

\* Mutant: the names of the locals are left out.
to_capture_payloadNoLocals(capture) ==
  [ CaptureReturn |-> capture.capture_return,
    CaptureStackTrace |-> capture.capture_stack_trace,
    CaptureLimits |-> capture.limits,
    CaptureArguments |-> capture.capture_arguments,
    CaptureLocals |-> None ]

to_capture_payload(capture) ==
  [ CaptureReturn |-> capture.capture_return,
    CaptureStackTrace |-> capture.capture_stack_trace,
    CaptureLimits |-> capture.limits,
    CaptureArguments |-> capture.capture_arguments,
    CaptureLocals |-> capture.capture_locals ]

HintKeys == {"CaptureReturn", "CaptureLimits", "CaptureArguments", "CaptureStackTrace"}

capture_from_response(union) ==
  IF union.wrapped \/ \E k \in HintKeys : union.value[k] # None
  THEN [ capture_return |-> union.value.CaptureReturn = TRUE,
         capture_stack_trace |-> union.value.CaptureStackTrace = TRUE,
         capture_arguments |-> union.value.CaptureArguments,
         capture_locals |-> union.value.CaptureLocals,
         limits |-> IF union.value.CaptureLimits = None THEN NoLimits
                    ELSE union.value.CaptureLimits ]
  ELSE Unparsed
=============================================================================
