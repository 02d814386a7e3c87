-------------------------- MODULE SnapshotParsing ---------------------------
(***************************************************************************)
(* The compact summary of one snapshot (di_snapshot_parsing.py).  A JSON   *)
(* value is an atom, a list or a dict; text is a string whose order and    *)
(* digits are given by constants.                                          *)
(***************************************************************************)
EXTENDS Integers, Sequences, SequencesExt, TLC

CONSTANTS
  Null, True, \* JSON's null and true
  LineNumber, \* the texts made of digits, with the number each of them spells
  TextOrder   \* the other texts, with their place in lexical order

ASSUME OrderAssumption ==
  LineNumber \in [DOMAIN LineNumber -> Nat] /\ TextOrder \in [DOMAIN TextOrder -> Nat]

Atom(x) == [is |-> "atom", of |-> x]
List(s) == [is |-> "list", of |-> s]
Dict(f) == [is |-> "dict", of |-> f]

Nothing == Atom(Null)
IsDict(v) == v.is = "dict"
IsList(v) == v.is = "list"

Empty == <<>>
At(f, key) == IF key \in DOMAIN f THEN f[key] ELSE Nothing
(* What is not a dict, or not there, counts as an empty one.               *)
DictAt(f, key) == IF IsDict(At(f, key)) THEN f[key].of ELSE Empty
ListAt(f, key) == IF IsList(At(f, key)) THEN f[key].of ELSE <<>>
Keep(f, keys) == [key \in keys \cap DOMAIN f |-> f[key]]

-----------------------------------------------------------------------------
(* One captured value. *)
TypePart(c) == IF At(c, "type") \in {Nothing, Atom("")} THEN Empty ELSE Keep(c, {"type"})

(* A field of a captured object: objects and collections show their type.  *)
FieldPreview(v) ==
  IF ~IsDict(v) THEN v
  ELSE IF At(v.of, "is_null") = Atom(True) THEN Nothing
  ELSE IF "not_captured_reason" \in DOMAIN v.of THEN Atom(<<"<", v.of.not_captured_reason>>)
  ELSE IF "value" \in DOMAIN v.of THEN v.of.value
  ELSE Atom(<<"<", IF "type" \in DOMAIN v.of THEN v.of.type ELSE Atom("object")>>)

(* The preview of one value, given that of its first element.              *)
PreviewOf(v, firstElement) ==
  IF ~IsDict(v) THEN v
  ELSE
    LET c == v.of
        size == Keep(c, {"size"})
        shown ==
          IF At(c, "is_null") = Atom(True) THEN Keep(c, {"is_null"})
          ELSE IF "not_captured_reason" \in DOMAIN c THEN Keep(c, {"not_captured_reason"})
          ELSE IF "value" \in DOMAIN c
            THEN Keep(c, {"value"}) @@ size
                 @@ (IF At(c, "truncated") = Atom(True) THEN Keep(c, {"truncated"}) ELSE Empty)
          ELSE IF IsDict(At(c, "fields"))
            THEN ("fields_preview" :> Dict([f \in DOMAIN c.fields.of |-> FieldPreview(c.fields.of[f])]))
                 @@ size
          ELSE IF IsList(At(c, "elements"))
            THEN ("element_count" :> Atom(Len(c.elements.of)))
                 @@ (IF c.elements.of = <<>> THEN Empty ELSE "first_element" :> firstElement)
          ELSE IF IsList(At(c, "entries")) THEN "entry_count" :> Atom(Len(c.entries.of))
          ELSE Empty
        preview == TypePart(c) @@ shown
    IN IF preview = Empty THEN v ELSE Dict(preview)

FirstElements(v) ==
  IF IsDict(v) /\ ListAt(v.of, "elements") # <<>> THEN {v.of.elements.of[1]} ELSE {}

(* nested[i] is the first element of nested[i - 1], down to one without;   *)
(* preview[i] is its preview.                                              *)
preview_captured_value(v) ==
  LET nested[i \in Nat] ==
        IF i = 0 THEN {v} ELSE UNION {FirstElements(w) : w \in nested[i - 1]}
      preview[i \in Nat] ==
        IF nested[i] = {} THEN Nothing
        ELSE PreviewOf(CHOOSE w \in nested[i] : TRUE, preview[i + 1])
  IN PreviewOf(v, preview[1])

Previews(captured) == [name \in DOMAIN captured |-> preview_captured_value(captured[name])]

-----------------------------------------------------------------------------
(* The lines: numbers by value, then the other texts. *)
\* Mutant: the other texts come first.
line_keyTextFirst(text) ==
  IF text \in DOMAIN LineNumber THEN <<1, LineNumber[text]>> ELSE <<0, TextOrder[text]>>

line_key(text) ==
  IF text \in DOMAIN LineNumber THEN <<0, LineNumber[text]>> ELSE <<1, TextOrder[text]>>

(* Texts that spell one number come in any order.                          *)
LineBefore(a, b) ==
  LET k == line_key(a)
      l == line_key(b)
  IN k[1] < l[1] \/ (k[1] = l[1] /\ k[2] <= l[2])

SortedLines(texts) ==
  CHOOSE s \in SetToSeqs(texts) : \A i, j \in DOMAIN s : i < j => LineBefore(s[i], s[j])

Thrown(throwable) ==
  IF throwable = Empty THEN Nothing
  ELSE Dict([ type |-> At(throwable, "type"), message |-> At(throwable, "message"),
              stacktrace_frame_count |-> Atom(Len(ListAt(throwable, "stacktrace"))) ])

(* What each line captured: only dicts are looked at, and a line is kept   *)
(* where it captured something.                                            *)
LinesOf(lines) == {l \in DOMAIN lines : IsDict(lines[l])}

LinesWith(captured, none) ==
  LET kept == {l \in DOMAIN captured : captured[l] # none}
  IN [l \in kept |-> captured[l]]

(* The first five stack frames, without what is no frame.                  *)
StackPreview(stack) ==
  LET frames == SelectSeq(SubSeq(stack, 1, IF Len(stack) < 5 THEN Len(stack) ELSE 5), IsDict)
  IN [i \in DOMAIN frames |->
        [key \in {"file_path", "function", "line_number"} |-> At(frames[i].of, key)]]

(* One that is no JSON object is as good as {}.                            *)
DataOf(message) == IF IsDict(message) THEN message.of ELSE Empty

LineCaptures(message) == DictAt(DictAt(DictAt(DataOf(message), "body"), "captures"), "lines")

(* The summary of a message.                                               *)
parse_snapshot_fields(message) ==
  LET data == DataOf(message)
      attributes == DictAt(data, "attributes")
      body == DictAt(data, "body")
      captures == DictAt(body, "captures")
      entry == DictAt(captures, "entry")
      exit == DictAt(captures, "return")
      lines == LineCaptures(message)
      seen == LinesOf(lines)
      locals == LinesWith([l \in seen |-> Previews(DictAt(lines[l].of, "locals"))], Empty)
      arguments == LinesWith([l \in seen |-> Previews(DictAt(lines[l].of, "arguments"))], Empty)
      returned ==
        LinesWith([l \in seen |-> preview_captured_value(At(lines[l].of, "return_value"))], Nothing)
      thrown == LinesWith([l \in seen |-> Thrown(DictAt(lines[l].of, "throwable"))], Nothing)
  IN [ snapshot_id |-> At(attributes, "aws.di.snapshot_id"),
       location_hash |-> At(attributes, "aws.di.location_hash"),
       stack_preview |-> StackPreview(ListAt(body, "stack")),
       stack_frame_count |-> Len(ListAt(body, "stack")),
       entry_arguments |-> Previews(DictAt(entry, "arguments")),
       entry_locals |-> Previews(DictAt(entry, "locals")),
       return_arguments |-> Previews(DictAt(exit, "arguments")),
       return_locals |-> Previews(DictAt(exit, "locals")),
       return_value |-> preview_captured_value(At(exit, "return_value")),
       throwable |-> Thrown(DictAt(exit, "throwable")),
       line_numbers |->
         SortedLines(UNION {DOMAIN locals, DOMAIN arguments, DOMAIN returned, DOMAIN thrown}),
       line_locals |-> locals,
       line_arguments |-> arguments,
       line_return_values |-> returned,
       line_throwables |-> thrown ]
=============================================================================
