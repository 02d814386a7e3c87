----------------------------- MODULE Sequencer -----------------------------
(***************************************************************************)
(* The sequencers that order the events of one report.  IngestService      *)
(* takes a sequencer for a number; here it is the text S3 sends, as        *)
(* IngestService.cs compares and saves it: hexadecimal, of any length, in  *)
(* either letter case, perhaps with leading zeros.                         *)
(*                                                                         *)
(* A character is its code unit.  Events arrive in any order and any       *)
(* number of times, and a call may fail, or be killed, before or after it  *)
(* has saved its sequencer.  One call runs at a time, as the function has  *)
(* a reserved concurrency of one.  What a call does between the check and  *)
(* the save is left to IngestService.                                      *)
(***************************************************************************)
EXTENDS Integers, FiniteSets, Sequences

CONSTANTS
  Text,        \* the texts that occur as the sequencer of an event
  None,        \* no sequencer
  MaxRecorded  \* bound: how many sequencers are saved at most

ASSUME TextAssumption == Text \subseteq Seq(Nat)
ASSUME NoneAssumption == None \notin Seq(Nat)

Code0 == 48

(* Uri.IsHexDigit: 0-9, A-F and a-f. *)
HexDigit == 48 .. 57 \cup 65 .. 70 \cup 97 .. 102

IsHex(text) == \A i \in DOMAIN text : text[i] \in HexDigit

(* The sequencers IngestSource accepts; it throws at every other text. *)
Accepted == {text \in Text : text # <<>> /\ IsHex(text)}

LeadingZeros(text) ==
  Cardinality({n \in DOMAIN text : \A i \in 1 .. n : text[i] = Code0})

TrimStart(text) == SubSeq(text, LeadingZeros(text) + 1, Len(text))

Normalized(text) ==
  IF TrimStart(text) = <<>> THEN <<Code0>> ELSE TrimStart(text)

(* Mutant: an ordinal comparison that heeds the letter case. *)
SameCase(code) == code

ToUpper(code) == IF code \in 97 .. 122 THEN code - 32 ELSE code

Upper(text) == [i \in 1 .. Len(text) |-> ToUpper(text[i])]

(* left comes first in ordinal order, both being of one length. *)
OrdinalBefore(left, right) ==
  \E i \in DOMAIN left :
    /\ left[i] < right[i]
    /\ \A j \in 1 .. i - 1 : left[j] = right[j]

(* The shorter one, or by OrdinalIgnoreCase: code units in upper case. *)
Before(left, right) ==
  \/ Len(left) < Len(right)
  \/ Len(left) = Len(right) /\ OrdinalBefore(Upper(left), Upper(right))

(* The check that both are hexadecimal cannot fail: IngestSource has made  *)
(* it for the event and, when that was saved, for the state object.        *)
CompareSequencers(left, right) ==
  LET l == Normalized(left)
      r == Normalized(right)
  IN  IF Before(l, r) THEN -1 ELSE IF Before(r, l) THEN 1 ELSE 0

-----------------------------------------------------------------------------
VARIABLES
  saved,     \* the sequencer in the report's state object, None without one
  call,      \* the sequencer of the call that passed the check, or None
  (* History, read by no guard but that of the bound: *)
  recorded,  \* every sequencer that was ever saved
  skipped    \* the sequencer last skipped as stale, or None

vars == <<saved, call, recorded, skipped>>

Init ==
  /\ saved = None
  /\ call = None
  /\ recorded = {}
  /\ skipped = None

(* Mutant: a repeated sequencer alone is stale. *)
IsRepetition(text) == saved # None /\ CompareSequencers(text, saved) = 0

IsStale(text) == saved # None /\ CompareSequencers(text, saved) <= 0

SkipStale(text) ==
  /\ call = None
  /\ IsStale(text)
  /\ skipped' = text
  /\ UNCHANGED <<saved, call, recorded>>

Begin(text) ==
  /\ call = None
  /\ ~IsStale(text)
  /\ Cardinality(recorded) < MaxRecorded
  /\ call' = text
  /\ UNCHANGED <<saved, recorded, skipped>>

(* SaveSequencerAsync; whether the answer arrives makes no difference to   *)
(* the state object.                                                       *)
Save ==
  /\ call # None
  /\ saved' = call
  /\ recorded' = recorded \cup {call}
  /\ call' = None
  /\ UNCHANGED skipped

(* The call failed or was killed, or its save did not reach S3. *)
EndUnsaved ==
  /\ call # None
  /\ call' = None
  /\ UNCHANGED <<saved, recorded, skipped>>

Next ==
  \/ \E text \in Accepted : SkipStale(text) \/ Begin(text)
  \/ Save
  \/ EndUnsaved

Spec == Init /\ [][Next]_vars

-----------------------------------------------------------------------------
Hexadecimal == Seq(HexDigit) \ {<<>>}

(* Whatever texts arrive, only hexadecimal ones are processed, compared    *)
(* and saved, so the check inside CompareSequencers never fails.           *)
TypeOK ==
  /\ saved \in Hexadecimal \cup {None}
  /\ call \in Hexadecimal \cup {None}
  /\ recorded \in SUBSET Hexadecimal
  /\ skipped \in Hexadecimal \cup {None}

(* Under the code's own comparison, whatever was saved in between and in   *)
(* whatever writing: the saved sequencer is not below any that was ever    *)
(* saved, and the call that runs is above all of them.  Both would fail if *)
(* CompareSequencers were not transitive.                                  *)
NewestUnderComparison ==
  /\ \A r \in recorded : CompareSequencers(r, saved) <= 0
  /\ call # None => \A r \in recorded : CompareSequencers(call, r) > 0

Digit(code) ==
  IF code \in 48 .. 57 THEN code - 48
  ELSE IF code \in 65 .. 70 THEN code - 55 ELSE code - 87

(* The number a hexadecimal text stands for. *)
Number(text) ==
  LET value[n \in 0 .. Len(text)] ==
        IF n = 0 THEN 0 ELSE 16 * value[n - 1] + Digit(text[n])
  IN  value[Len(text)]

OldEventsAreSkipped ==
  call # None => \A r \in recorded : Number(call) > Number(r)

NewEventsAreNotSkipped ==
  skipped # None => \E r \in recorded : Number(skipped) <= Number(r)

(* Sequencers are ordered as numbers: a call runs for an event only when   *)
(* its number is above every one saved, and an event is skipped only when  *)
(* its number was reached.                                                 *)
EventsFollowTheirNumbers == OldEventsAreSkipped /\ NewEventsAreNotSkipped

(* 0 is kept for no sequencer. *)
PlaceOf(text) == IF text = None THEN 0 ELSE Number(text) + 1

Order == INSTANCE EventOrder WITH saved <- PlaceOf(saved), running <- PlaceOf(call)

(* The texts do what IngestService takes its numbers to do: a call begins  *)
(* only for an event above the one saved last, and saves none but its own. *)
TextsImplementEventOrder == Order!OrderSpec
=============================================================================
