-------------------------- MODULE MCIngestService --------------------------
(* Small instances of IngestService for TLC. *)
EXTENDS IngestService, TLC

CONSTANTS s1, s2, p1, p2, u1, u2

MCBaseName == [s \in Source |-> "report"]

R(u, p, messages) == [user |-> u, partition |-> p, messages |-> messages, valid |-> TRUE]
Bad(u, p) == [user |-> u, partition |-> p, messages |-> FALSE, valid |-> FALSE]

(* One source, overwritten once: u1 and its model messages are gone, and   *)
(* u2 moves to another partition.                                          *)
OverwrittenReport ==
  s1 :> << [readable |-> TRUE, rows |-> {R(u1, p1, TRUE), R(u2, p2, FALSE)}],
           [readable |-> TRUE, rows |-> {R(u2, p1, FALSE)}] >>

(* Two sources with one base name, so they share a legacy key.  A row of   *)
(* u2 in s2 does not parse, which matters only while u2 is a target.       *)
SharedNameReport ==
  (s1 :> << [readable |-> TRUE, rows |-> {R(u1, p1, TRUE)}] >>)
  @@
  (s2 :> << [readable |-> TRUE, rows |-> {R(u1, p1, FALSE), Bad(u2, p1)}] >>)

MCLegacyOutputs ==
  {[table |-> "usage_daily", partition |-> p1, file |-> LegacyFileName(s1)]}
=============================================================================
