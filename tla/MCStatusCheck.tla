--------------------------- MODULE MCStatusCheck ----------------------------
(* Small instances of StatusCheck for TLC. *)
EXTENDS StatusCheck

CONSTANT p1

Target ==
  [ language |-> Spelt("python", "other"), file_path |-> "f", code_unit |-> "u",
    class_name |-> None, method_name |-> "m", line_number |-> None ]
NoTarget == [f \in DOMAIN Target |-> None]

MCHash == to_code_location_dict(CodeLocation(Target))
OtherHash == [MCHash EXCEPT !.FilePath = "g"]
MCHashes == {MCHash, OtherHash}

Snapshot == Spelt("SNAPSHOT", "other")
Breakpoint == Spelt("BREAKPOINT", "api")

Check(type, signal, hash, start, end) ==
  [ op |-> "check-status", type |-> type, signal |-> signal, hash |-> hash,
    start_time |-> start, end_time |-> end ]

Checks ==
  { Check(Breakpoint, Snapshot, MCHash, 1, 2), Check(Breakpoint, Snapshot, MCHash, 0, 2),
    Check(Breakpoint, Snapshot, MCHash, 1, 1),
    Check(Breakpoint, Snapshot, MCHash, Garbled, 1), Check(Breakpoint, Snapshot, OtherHash, 0, 1),
    Check(Breakpoint, Snapshot, None, 0, 1), Check(None, Snapshot, MCHash, 0, 1),
    Check(Breakpoint, None, MCHash, 0, 1) }

Get(hash, target, status, start, end) ==
  [ op |-> "get-status", type |-> Breakpoint, signal |-> Snapshot, hash |-> hash, target |-> target,
    status |-> status, start_time |-> start, end_time |-> end ]

Word(status) == Spelt(status, "other")

Gets ==
  { Get(MCHash, NoTarget, Word("READY"), None, None), Get(None, Target, Word("ACTIVE"), 1, None),
    Get(OtherHash, NoTarget, Word("ERROR"), None, 1), Get(None, NoTarget, Word("READY"), None, None),
    Get(MCHash, Target, None, None, None), Get(MCHash, Target, Word("GONE"), None, None),
    Get(MCHash, Target, Word("ERROR"), Garbled, None), Get(MCHash, NoTarget, Word("DISABLED"), None, 1) }

MCRequests == p1 :> Checks \cup Gets
=============================================================================
