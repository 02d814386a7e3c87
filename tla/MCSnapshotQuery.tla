-------------------------- MODULE MCSnapshotQuery ---------------------------
(* Small instances of SnapshotQuery for TLC. *)
EXTENDS SnapshotQuery

CONSTANTS First, Late, TooLate, Later, Other, Elsewhere

(* Half a second is a tick; the status event is at 100.5 seconds. *)
EventTime == 201

MCLineNumber == ("3" :> 3) @@ ("03" :> 3) @@ ("4" :> 4) @@ ("12" :> 12)
MCTextOrder == "-1" :> 1

Locals(captured) == Dict("locals" :> Dict(captured))
Value == Dict([type |-> Atom("int"), value |-> Atom("5"), size |-> Atom(1)])
Object ==
  Dict([ type |-> Atom("Order"),
         fields |-> Dict([ a |-> Value, b |-> Dict("is_null" :> Atom(True)), c |-> Atom("raw"),
                           d |-> Dict("not_captured_reason" :> Atom("depth")),
                           e |-> Dict("type" :> Atom("Item")), f |-> Dict(Empty) ]) ])
Elements == Dict([type |-> Atom(""), elements |-> List(<<Object, Value>>)])

Big ==
  Dict([ attributes |-> Dict("aws.di.snapshot_id" :> Atom("s1")),
         traceId |-> Atom("t1"),
         body |->
           Dict([ stack |-> List(<<Atom("?"), Dict("function" :> Atom("f"))>>),
                  captures |->
                    Dict([ entry |-> Dict("arguments" :> Dict("x" :> Object)),
                           lines |->
                             Dict(("12" :> Locals("x" :> Elements))
                                  @@ ("3" :> Dict("return_value" :> Value))
                                  @@ ("03" :> Dict("throwable" :> Dict("type" :> Atom("E"))))
                                  @@ ("-1" :> Locals("y" :> Dict("is_null" :> Atom(True))))
                                  @@ ("4" :> Locals(Empty))) ]) ]) ])
Small == Dict("attributes" :> Dict("aws.di.snapshot_id" :> Atom("s2")))
MCLarge == {Big}

Record(time, hash, service, environment, name, message) ==
  [ time |-> time, hash |-> hash, service |-> service, environment |-> environment,
    environment_name |-> name, message |-> message ]

(* Snapshots at the bounds of the search window, in the sample window only *)
(* and of another location, and one whose environment is another but named *)
(* under the newer key alone.                                              *)
MCLog ==
  (First :> Record(191, "h", "svc", "prod", None, Small))
  @@ (Late :> Record(320, "h", None, None, None, Big))
  @@ (TooLate :> Record(321, "h", "svc", None, "prod", Small))
  @@ (Later :> Record(360, "h", "svc", None, "prod", Big))
  @@ (Other :> Record(250, "g", "svc", None, None, Small))
  @@ (Elsewhere :> Record(260, "h", "svc", None, "staging", Small))

Fragment(alternatives) == [text |-> alternatives, balanced |-> TRUE]
Unbalanced == [text |-> <<{First}>>, balanced |-> FALSE]
Narrow == Fragment(<<{First, Later, Other}>>)
Wide == Fragment(<<{First}, {Late, Later, Other}>>)

Search(limit, timeout, custom, start, end, out) ==
  [ op |-> "search", hash |-> "h", service |-> "svc", environment |-> "prod",
    status_timestamp |-> EventTime, limit |-> limit, max_timeout |-> timeout,
    custom_filters |-> custom, start_time |-> start, end_time |-> end, out |-> out ]

Sample(time, timeout, raw, out) ==
  [ op |-> "sample", hash |-> "h", service |-> "svc", environment |-> "prod",
    status_timestamp |-> time, max_timeout |-> timeout, include_raw |-> raw, out |-> out ]

MCRequests ==
  { Search(1, 1, None, None, None, FALSE), Search(2, 2, [list |-> <<Fragment(<<>>), Narrow>>], None, None, TRUE),
    Search(3, 1, [bare |-> Narrow], 190, 321, FALSE), Search(3, 1, None, 200, 319, FALSE),
    Search(0, 1, None, None, None, FALSE), Search(NotANumber, 1, None, None, None, TRUE),
    Search(1, NotANumber, None, None, None, FALSE), Search(1, 1, [list |-> <<Unbalanced>>], None, None, FALSE),
    Search(1, 1, None, 191, None, FALSE), Search(1, 1, None, 191, 191, FALSE),
    Search(1, 1, None, 191, Garbled, FALSE),
    Search(3, 1, [bare |-> Wide], None, None, FALSE),
    [Search(1, 1, None, None, None, FALSE) EXCEPT !.hash = None],
    Sample(EventTime, 1, FALSE, TRUE), Sample(EventTime, 1, TRUE, FALSE), Sample(Garbled, 1, FALSE, FALSE) }

File(kind, private) == [kind |-> kind, holds |-> "old", private |-> private]
MCFiles == {File("none", TRUE), File("file", FALSE), File("symlink", FALSE)}
=============================================================================
