----------------------------- MODULE FactStore -----------------------------
(***************************************************************************)
(* What ProcessCsvAsync promises its callers.                              *)
(*                                                                         *)
(* The facts of a source are seen as one value: the generation that was    *)
(* published completely, nothing, or Partial, which promises nothing.  A   *)
(* call reads one version and one Target List, makes the source Partial    *)
(* when it starts to publish, and ends by having published all of it,      *)
(* removed all of it, or left it Partial.  A saved sequencer makes later   *)
(* calls with an event that is not newer return without touching anything. *)
(*                                                                         *)
(* IngestService implements this module; IngestFunction is built on it.    *)
(***************************************************************************)
EXTENDS Naturals

CONSTANTS
  Source,       \* raw objects
  User,         \* e-mail addresses
  TargetLists,  \* the values the operator gives the Target List parameter
  Uploads,      \* Uploads[s]: how many versions of s are ever uploaded
  History,      \* History[s]: how many of them predate the deployment
  Nothing,      \* no facts
  Partial       \* part of a generation, or parts of several

ASSUME SourceAssumption == Source # {}
ASSUME UploadsAssumption ==
  /\ Uploads \in [Source -> Nat]
  /\ History \in [Source -> Nat]
  /\ \A s \in Source : History[s] <= Uploads[s]
ASSUME TargetListsAssumption == TargetLists \subseteq SUBSET User

None == 0

Generation == [version : Nat, targets : SUBSET User]

ASSUME ViewAssumption == Nothing \notin Generation /\ Partial \notin Generation

VARIABLES
  raw,         \* raw[s]: how many versions of s have been uploaded
  targetList,  \* the Target List parameter
  view,        \* view[s]: the facts of s
  seqState,    \* seqState[s]: the saved sequencer
  op           \* the call of ProcessCsvAsync

storeVars == <<raw, targetList, view, seqState, op>>

Phase == {"idle", "called", "read", "ready", "publishing", "saving", "done", "failed"}

OpType ==
  [phase : Phase, source : Source, version : Nat, sequencer : Nat,
   read : Nat, targets : SUBSET User]

NewOp(s, v, q) ==
  [phase |-> "called", source |-> s, version |-> v, sequencer |-> q,
   read |-> None, targets |-> {}]

NoOp == [NewOp(CHOOSE s \in Source : TRUE, None, None) EXCEPT !.phase = "idle"]

StoreInit ==
  /\ raw = History
  /\ targetList \in TargetLists
  /\ view = [s \in Source |-> Nothing]
  /\ seqState = [s \in Source |-> None]
  /\ op = NoOp

-----------------------------------------------------------------------------
Upload(s) ==
  /\ raw[s] < Uploads[s]
  /\ raw' = [raw EXCEPT ![s] = @ + 1]
  /\ UNCHANGED <<targetList, view, seqState, op>>

ChangeTargetList(targets) ==
  /\ targets # targetList
  /\ targetList' = targets
  /\ UNCHANGED <<raw, view, seqState, op>>

Call(s, v, q) ==
  /\ op.phase = "idle"
  /\ op' = NewOp(s, v, q)
  /\ UNCHANGED <<raw, targetList, view, seqState>>

IsStale == op.sequencer # None /\ op.sequencer <= seqState[op.source]

Skip ==
  /\ op.phase = "called"
  /\ IsStale
  /\ op' = [op EXCEPT !.phase = "done"]
  /\ UNCHANGED <<raw, targetList, view, seqState>>

ReadVersion ==
  /\ op.phase = "called"
  /\ ~IsStale
  /\ op' = [op EXCEPT !.phase = "read",
                      !.read = IF op.version = None THEN raw[op.source] ELSE op.version]
  /\ UNCHANGED <<raw, targetList, view, seqState>>

ReadTargetList ==
  /\ op.phase = "read"
  /\ op' = [op EXCEPT !.phase = "ready", !.targets = targetList]
  /\ UNCHANGED <<raw, targetList, view, seqState>>

(* An exception before anything was written. *)
FailUntouched ==
  /\ op.phase \in {"called", "read", "ready"}
  /\ op' = [op EXCEPT !.phase = "failed"]
  /\ UNCHANGED <<raw, targetList, view, seqState>>

Touch ==
  /\ op.phase = "ready"
  /\ op' = [op EXCEPT !.phase = "publishing"]
  /\ view' = [view EXCEPT ![op.source] = Partial]
  /\ UNCHANGED <<raw, targetList, seqState>>

Complete ==
  /\ op.phase = "publishing"
  /\ op' = [op EXCEPT !.phase = IF op.sequencer # None THEN "saving" ELSE "done"]
  /\ view' = [view EXCEPT ![op.source] =
                [version |-> op.read, targets |-> op.targets]]
  /\ UNCHANGED <<raw, targetList, seqState>>

FailClosed ==
  /\ op.phase = "publishing"
  /\ op' = [op EXCEPT !.phase = "failed"]
  /\ view' = [view EXCEPT ![op.source] = Nothing]
  /\ UNCHANGED <<raw, targetList, seqState>>

FailPartial ==
  /\ op.phase = "publishing"
  /\ op' = [op EXCEPT !.phase = "failed"]
  /\ UNCHANGED <<raw, targetList, view, seqState>>

Save ==
  /\ op.phase = "saving"
  /\ op' = [op EXCEPT !.phase = "done"]
  /\ seqState' = [seqState EXCEPT ![op.source] = op.sequencer]
  /\ UNCHANGED <<raw, targetList, view>>

SaveFails(saved) ==
  /\ op.phase = "saving"
  /\ op' = [op EXCEPT !.phase = "failed"]
  /\ seqState' = IF saved THEN [seqState EXCEPT ![op.source] = op.sequencer]
                 ELSE seqState
  /\ UNCHANGED <<raw, targetList, view>>

Return ==
  /\ op.phase \in {"done", "failed"}
  /\ op' = NoOp
  /\ UNCHANGED <<raw, targetList, view, seqState>>

Crash ==
  /\ op.phase # "idle"
  /\ op' = NoOp
  /\ UNCHANGED <<raw, targetList, view, seqState>>

(* The steps of a call, from its start to its result. *)
Step ==
  \/ Skip
  \/ ReadVersion
  \/ ReadTargetList
  \/ FailUntouched
  \/ Touch
  \/ Complete
  \/ FailClosed
  \/ FailPartial
  \/ Save
  \/ \E saved \in BOOLEAN : SaveFails(saved)

StoreNext ==
  \/ \E s \in Source : Upload(s)
  \/ \E targets \in TargetLists : ChangeTargetList(targets)
  \/ \E s \in Source : \E v \in 1 .. raw[s] : Call(s, v, v)
  \/ \E s \in Source : raw[s] > 0 /\ Call(s, None, None)
  \/ Step
  \/ Return
  \/ Crash

StoreSpec == StoreInit /\ [][StoreNext]_storeVars

StoreTypeOK ==
  /\ raw \in [Source -> Nat]
  /\ targetList \in SUBSET User
  /\ view \in [Source -> Generation \cup {Nothing, Partial}]
  /\ seqState \in [Source -> Nat]
  /\ op \in OpType
=============================================================================
