---------------------------- MODULE MCSequencer ----------------------------
(* A small instance of Sequencer for TLC. *)
EXTENDS Sequencer, SequencesExt

(* The characters 0, 9, B, a and g: two digits, a letter in each case such *)
(* that ordinal order and digit order differ, and no digit.                *)
Codes == {48, 57, 66, 97, 103}

(* Every text of up to two characters, and longer ones that differ in      *)
(* leading zeros or behind a common prefix.                                *)
MCText ==
  BoundedSeq(Codes, 2)
    \cup {<<48, 48, 57>>, <<48, 57, 97>>, <<57, 97, 66>>, <<57, 97, 97>>, <<48, 48, 48>>}
=============================================================================
