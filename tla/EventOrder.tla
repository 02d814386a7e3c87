----------------------------- MODULE EventOrder -----------------------------
(***************************************************************************)
(* What the sequencers of one report are for: events are processed in      *)
(* ascending order, whatever order they come in.  An event is a number     *)
(* above 0, and 0 is none.                                                 *)
(***************************************************************************)
EXTENDS Naturals

VARIABLES
  saved,   \* the event whose sequencer is saved
  running  \* the event being processed, past the stale check

orderVars == <<saved, running>>

OrderInit == saved = 0 /\ running = 0

Begin == running = 0 /\ running' \in Nat /\ running' > saved /\ UNCHANGED saved

Save == running # 0 /\ saved' = running /\ running' = 0

(* Without a saved sequencer: the event will be delivered again.           *)
EndUnsaved == running # 0 /\ running' = 0 /\ UNCHANGED saved

OrderNext == Begin \/ Save \/ EndUnsaved

OrderSpec == OrderInit /\ [][OrderNext]_orderVars
=============================================================================
