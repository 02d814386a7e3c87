--------------------------- MODULE IngestService ---------------------------
(***************************************************************************)
(* IngestService.ProcessCsvAsync: one CSV report object of the raw bucket  *)
(* is turned into Parquet facts in the analytics bucket.                   *)
(*                                                                         *)
(* Every awaited S3 or SSM request is one action with its outcomes: it     *)
(* succeeds, it fails without effect, or it fails although S3 has applied  *)
(* it (a timeout).  The Lambda may be killed between any two of them; no   *)
(* catch block runs then.  The function has a reserved concurrency of one, *)
(* so there is at most one call of ProcessCsvAsync at a time: the variable *)
(* call is its local state.  Who calls it, and in which order, is left     *)
(* open here: any version already uploaded, any number of times, live or   *)
(* from a backfill.                                                        *)
(*                                                                         *)
(* Rows are abstracted to the user they are about, the partition their     *)
(* body date and client type put them in, whether they carry per-model     *)
(* messages, and whether Transform accepts them.                           *)
(***************************************************************************)
EXTENDS Naturals, FiniteSets, Sequences

CONSTANTS
  Source,         \* raw objects: the identities hashed from bucket and key
  BaseName,       \* the last path segment of a source's key, without .csv
  Partition,      \* pairs of a report date and a client type
  User,           \* the e-mail addresses that occur in reports
  TargetLists,    \* the values the operator gives the Target List parameter
  Report,         \* Report[s]: the contents uploaded to s, oldest first
  LegacyOutputs,  \* keys written before output names carried a source hash
  Legacy,         \* the content of such an object
  NoObject,       \* what a key without an object holds
  Partial         \* the abstract state of facts that are not one publication

Row == [user : User, partition : Partition, messages : BOOLEAN, valid : BOOLEAN]

(* readable: Csv.Parse and the header checks succeed, every row has as     *)
(* many columns as the header, and no e-mail address is blank.             *)
Content == [readable : BOOLEAN, rows : SUBSET Row]

Table == {"usage_daily", "model_messages"}

OutputFileName(s) == <<"hashed", s>>
LegacyFileName(s) == <<"plain", BaseName[s]>>
FileName == {OutputFileName(s) : s \in Source} \cup {LegacyFileName(s) : s \in Source}

Key == [table : Table, partition : Partition, file : FileName]

OutputKey(t, p, s) == [table |-> t, partition |-> p, file |-> OutputFileName(s)]

(* What one publication writes under each of its keys. *)
Generation == [source : Source, version : Nat, targets : SUBSET User]

Object == Generation \cup {Legacy, NoObject}

ASSUME SourceAssumption == Source # {}
ASSUME ReportAssumption == Report \in [Source -> Seq(Content)]
ASSUME TargetListsAssumption == TargetLists \subseteq SUBSET User
ASSUME LegacyOutputsAssumption ==
  LegacyOutputs \subseteq {k \in Key : \E s \in Source : k.file = LegacyFileName(s)}
ASSUME ObjectAssumption ==
  Legacy \notin Generation /\ NoObject \notin Generation /\ Legacy # NoObject

(* A null version id or sequencer; uploaded versions are numbered from 1   *)
(* and the sequencer of the event for version v is v.                      *)
None == 0

(***************************************************************************)
(* ReportTransform.Transform and PrepareOutputsAsync.  Rows of other users *)
(* are dropped before anything else about them is checked.                 *)
(***************************************************************************)
RowsKept(s, v, targets) == {r \in Report[s][v].rows : r.user \in targets}

TransformFails(s, v, targets) ==
  \/ ~Report[s][v].readable
  \/ \E r \in RowsKept(s, v, targets) : ~r.valid

PreparedKeys(s, v, targets) ==
       {OutputKey("usage_daily", r.partition, s) : r \in RowsKept(s, v, targets)}
  \cup {OutputKey("model_messages", r.partition, s) :
          r \in {q \in RowsKept(s, v, targets) : q.messages}}

-----------------------------------------------------------------------------
VARIABLES
  raw,         \* raw[s]: how many versions of s have been uploaded
  targetList,  \* the addresses in the Target List parameter
  facts,       \* facts[k]: the object at analytics key k
  seqState,    \* seqState[s]: the sequencer saved for s, None when there is none
  call,        \* the local variables of the running ProcessCsvAsync
  (* History, read by no action's guard: *)
  published,   \* published[s]: the highest sequencer completely published
  standing,    \* standing[s]: the generation last published and not removed since
  damage       \* damage[s]: what may have left the facts of s incomplete

store == <<facts, seqState>>
history == <<published, standing, damage>>
vars == <<raw, targetList, facts, seqState, call, published, standing, damage>>

Reading == {"check", "read", "targets", "list"}
Publishing == {"publish", "reconcile", "cleanup"}
Pc == Reading \cup Publishing \cup {"idle", "save", "done", "failed"}

CallType ==
  [pc : Pc, source : Source, version : Nat, sequencer : Nat,
   read : Nat, targets : SUBSET User, prepared : SUBSET Key,
   existing : SUBSET Key, attempted : SUBSET Key, todo : SUBSET Key,
   complete : BOOLEAN, swept : BOOLEAN]

(* "unswept": the function was killed while publishing or cleaning up, or  *)
(* a cleanup delete failed.  "reconcile": a delete of an obsolete output   *)
(* failed when no output had been attempted.                               *)
Damage == {"unswept", "reconcile"}

NewCall(s, v, q) ==
  [pc |-> "check", source |-> s, version |-> v, sequencer |-> q,
   read |-> None, targets |-> {}, prepared |-> {},
   existing |-> {}, attempted |-> {}, todo |-> {},
   complete |-> FALSE, swept |-> TRUE]

(* The same value whatever call came before. *)
NoCall == [NewCall(CHOOSE s \in Source : TRUE, None, None) EXCEPT !.pc = "idle"]

Idle == call.pc = "idle"

(* The keys FindExistingOutputKeysAsync takes for outputs of s. *)
KeysOf(s) == {k \in Key : k.file \in {OutputFileName(s), LegacyFileName(s)}}

CallGeneration ==
  [source |-> call.source, version |-> call.read, targets |-> call.targets]

(* The facts of the source being processed may be left incomplete. *)
Damaged(how) ==
  /\ damage' = [damage EXCEPT ![call.source] = @ \cup {how}]
  /\ standing' = [standing EXCEPT ![call.source] = NoObject]

(* They are those of object g, a generation or none. *)
Settled(g) ==
  /\ damage' = [damage EXCEPT ![call.source] = {}]
  /\ standing' = [standing EXCEPT ![call.source] = g]

Init ==
  /\ raw = [s \in Source |-> 0]
  /\ targetList \in TargetLists
  /\ facts = [k \in Key |-> IF k \in LegacyOutputs THEN Legacy ELSE NoObject]
  /\ seqState = [s \in Source |-> None]
  /\ call = NoCall
  /\ published = [s \in Source |-> None]
  /\ standing = [s \in Source |-> NoObject]
  /\ damage = [s \in Source |-> {}]

-----------------------------------------------------------------------------
(* The environment: Kiro, the operator, and the callers of ProcessCsvAsync. *)

Upload(s) ==
  /\ raw[s] < Len(Report[s])
  /\ raw' = [raw EXCEPT ![s] = @ + 1]
  /\ UNCHANGED <<targetList, store, call, history>>

ChangeTargetList(targets) ==
  /\ targets # targetList
  /\ targetList' = targets
  /\ UNCHANGED <<raw, store, call, history>>

(* A record of an S3 notification carries version id and sequencer.  S3    *)
(* and Lambda deliver notifications late, repeatedly and in any order.     *)
StartLive(s, v) ==
  /\ Idle
  /\ call' = NewCall(s, v, v)
  /\ UNCHANGED <<raw, targetList, store, history>>

(* A backfill passes bucket and key only. *)
StartBackfill(s) ==
  /\ Idle
  /\ raw[s] > 0
  /\ call' = NewCall(s, None, None)
  /\ UNCHANGED <<raw, targetList, store, history>>

-----------------------------------------------------------------------------
(* Mutant: only what this call has written is removed. *)
CatchForgetsExisting(c) ==
  IF c.attempted # {} /\ ~c.complete
  THEN [c EXCEPT !.pc = "cleanup", !.todo = c.attempted]
  ELSE [c EXCEPT !.pc = "failed"]

(* Mutant: a sequencer-state timeout removes the published generation. *)
CatchIgnoresCompletion(c) ==
  IF c.attempted # {}
  THEN [c EXCEPT !.pc = "cleanup", !.todo = c.existing \cup c.attempted]
  ELSE [c EXCEPT !.pc = "failed"]

(* The catch block, entered with the locals c.  Deleting outputs starts    *)
(* only when a PUT was attempted and the new generation is not complete.   *)
Catch(c) ==
  IF c.attempted # {} /\ ~c.complete
  THEN [c EXCEPT !.pc = "cleanup", !.todo = c.existing \cup c.attempted]
  ELSE [c EXCEPT !.pc = "failed"]

(* Mutant: only a repeated event is recognised. *)
IsRepeated == call.sequencer # None /\ call.sequencer = seqState[call.source]

IsStale == call.sequencer # None /\ seqState[call.source] # None
             /\ call.sequencer <= seqState[call.source]

(* Mutant: the sequencer is claimed before the work is done. *)
ClaimSequencer ==
  /\ call.pc = "check"
  /\ call' = [call EXCEPT !.pc = IF IsStale THEN "done" ELSE "read"]
  /\ seqState' = IF IsStale \/ call.sequencer = None THEN seqState
                 ELSE [seqState EXCEPT ![call.source] = call.sequencer]
  /\ UNCHANGED <<raw, targetList, facts, history>>

CheckSequencer ==
  /\ call.pc = "check"
  /\ call' = [call EXCEPT !.pc = IF IsStale THEN "done" ELSE "read"]
  /\ UNCHANGED <<raw, targetList, store, history>>

(* A null version id reads whatever version is current at this moment. *)
ReadReport ==
  /\ call.pc = "read"
  /\ call' = [call EXCEPT !.pc = "targets",
                          !.read = IF call.version = None THEN raw[call.source]
                                                          ELSE call.version]
  /\ UNCHANGED <<raw, targetList, store, history>>

(* GetTargetListAsync, Transform and PrepareOutputsAsync: the parameter is *)
(* the only thing read, the rest is computed from it.  A list without any  *)
(* address is accepted, and the outputs are none.                          *)
TransformReport ==
  /\ call.pc = "targets"
  /\ call' =
       IF TransformFails(call.source, call.read, targetList)
       THEN Catch(call)
       ELSE [call EXCEPT !.pc = "list", !.targets = targetList,
               !.prepared = PreparedKeys(call.source, call.read, targetList)]
  /\ UNCHANGED <<raw, targetList, store, history>>

(* Mutant: outputs with a legacy name are not recognised. *)
ListHashedOnly ==
  /\ call.pc = "list"
  /\ call' = [call EXCEPT !.pc = "publish", !.todo = call.prepared,
               !.existing = {k \in KeysOf(call.source) :
                 facts[k] # NoObject /\ k.file = OutputFileName(call.source)}]
  /\ UNCHANGED <<raw, targetList, store, history>>

(* Both prefixes, page by page: nobody else changes the bucket meanwhile. *)
ListExisting ==
  /\ call.pc = "list"
  /\ call' = [call EXCEPT !.pc = "publish", !.todo = call.prepared,
               !.existing = {k \in KeysOf(call.source) : facts[k] # NoObject}]
  /\ UNCHANGED <<raw, targetList, store, history>>

(* Mutant: the call starts over instead of failing. *)
RequestStartsOver ==
  /\ call.pc \in Reading
  /\ call' = [call EXCEPT !.pc = "check"]
  /\ UNCHANGED <<raw, targetList, store, history>>

(* One of the requests so far throws, or the parameter's value is blank;   *)
(* nothing has been written.                                               *)
RequestFails ==
  /\ call.pc \in Reading
  /\ call' = Catch(call)
  /\ UNCHANGED <<raw, targetList, store, history>>

-----------------------------------------------------------------------------
(* A partition's usage file is written before its model file, and both     *)
(* before the next partition's.                                            *)
NextOutputs ==
  LET usage(k) == [k EXCEPT !.table = "usage_daily"]
      halfDone == {k \in call.todo : usage(k) \notin call.todo}
  IN  IF halfDone # {} THEN halfDone
      ELSE {k \in call.todo : k.table = "usage_daily"}

(* The locals when the PUT of k is under way. *)
Attempting(k) ==
  [call EXCEPT !.attempted = @ \cup {k}, !.todo = @ \ {k}]

PutOutput(k) ==
  /\ call.pc = "publish"
  /\ k \in NextOutputs
  /\ call' = Attempting(k)
  /\ facts' = [facts EXCEPT ![k] = CallGeneration]
  /\ UNCHANGED <<raw, targetList, seqState, history>>

(* Mutant: a key counts as attempted only when its PUT has returned. *)
PutFailsUntracked(k, reachedS3) ==
  /\ call.pc = "publish"
  /\ k \in NextOutputs
  /\ call' = Catch(call)
  /\ facts' = IF reachedS3 THEN [facts EXCEPT ![k] = CallGeneration] ELSE facts
  /\ UNCHANGED <<raw, targetList, seqState, history>>

PutOutputFails(k, reachedS3) ==
  /\ call.pc = "publish"
  /\ k \in NextOutputs
  /\ call' = Catch(Attempting(k))
  /\ facts' = IF reachedS3 THEN [facts EXCEPT ![k] = CallGeneration] ELSE facts
  /\ UNCHANGED <<raw, targetList, seqState, history>>

FinishPuts ==
  /\ call.pc = "publish"
  /\ call.todo = {}
  /\ call' = [call EXCEPT !.pc = "reconcile",
                          !.todo = call.existing \ call.prepared]
  /\ UNCHANGED <<raw, targetList, store, history>>

DeleteStale(k) ==
  /\ call.pc = "reconcile"
  /\ k \in call.todo
  /\ call' = [call EXCEPT !.todo = @ \ {k}]
  /\ facts' = [facts EXCEPT ![k] = NoObject]
  /\ UNCHANGED <<raw, targetList, seqState, history>>

(* With no output prepared nothing was attempted, and the catch block      *)
(* leaves the remaining outputs of the earlier generation alone.           *)
DeleteStaleFails(k, reachedS3) ==
  /\ call.pc = "reconcile"
  /\ k \in call.todo
  /\ call' = Catch(call)
  /\ facts' = IF reachedS3 THEN [facts EXCEPT ![k] = NoObject] ELSE facts
  /\ IF call.attempted = {} THEN Damaged("reconcile")
                             ELSE UNCHANGED <<standing, damage>>
  /\ UNCHANGED <<raw, targetList, seqState, published>>

(* publicationComplete = true.  This is where the new generation counts.   *)
FinishPublication ==
  /\ call.pc = "reconcile"
  /\ call.todo = {}
  /\ call' = [call EXCEPT !.complete = TRUE,
                          !.pc = IF call.sequencer # None THEN "save" ELSE "done"]
  /\ published' = [published EXCEPT ![call.source] =
                     IF call.sequencer > @ THEN call.sequencer ELSE @]
  /\ Settled(CallGeneration)
  /\ UNCHANGED <<raw, targetList, store>>

SaveSequencer ==
  /\ call.pc = "save"
  /\ call' = [call EXCEPT !.pc = "done"]
  /\ seqState' = [seqState EXCEPT ![call.source] = call.sequencer]
  /\ UNCHANGED <<raw, targetList, facts, history>>

SaveSequencerFails(reachedS3) ==
  /\ call.pc = "save"
  /\ call' = Catch(call)
  /\ seqState' = IF reachedS3
                 THEN [seqState EXCEPT ![call.source] = call.sequencer]
                 ELSE seqState
  /\ UNCHANGED <<raw, targetList, facts, history>>

-----------------------------------------------------------------------------
(* TryDeleteOutputsAsync: a failed delete is logged and the loop goes on.  *)

CleanupDelete(k) ==
  /\ call.pc = "cleanup"
  /\ k \in call.todo
  /\ call' = [call EXCEPT !.todo = @ \ {k}]
  /\ facts' = [facts EXCEPT ![k] = NoObject]
  /\ UNCHANGED <<raw, targetList, seqState, history>>

(* The delete had no effect; one that fails after taking effect is, for    *)
(* this loop, the same as CleanupDelete.                                   *)
CleanupDeleteFails(k) ==
  /\ call.pc = "cleanup"
  /\ k \in call.todo
  /\ call' = [call EXCEPT !.todo = @ \ {k}, !.swept = FALSE]
  /\ UNCHANGED <<raw, targetList, store, history>>

FinishCleanup ==
  /\ call.pc = "cleanup"
  /\ call.todo = {}
  /\ call' = [call EXCEPT !.pc = "failed"]
  /\ IF call.swept THEN Settled(NoObject) ELSE Damaged("unswept")
  /\ UNCHANGED <<raw, targetList, store, published>>

(* The caller gets the result, or the exception. *)
Return ==
  /\ call.pc \in {"done", "failed"}
  /\ call' = NoCall
  /\ UNCHANGED <<raw, targetList, store, history>>

(* Between the first PUT and the end of publication or cleanup. *)
Touched == call.pc \in Publishing /\ ~(call.pc = "publish" /\ call.attempted = {})

(* The 15 minute timeout, out of memory, a lost host. *)
Crash ==
  /\ ~Idle
  /\ call' = NoCall
  /\ IF Touched THEN Damaged("unswept") ELSE UNCHANGED <<standing, damage>>
  /\ UNCHANGED <<raw, targetList, store, published>>

-----------------------------------------------------------------------------
Environment ==
  \/ \E s \in Source : Upload(s)
  \/ \E targets \in TargetLists : ChangeTargetList(targets)
  \/ \E s \in Source : \E v \in 1 .. raw[s] : StartLive(s, v)
  \/ \E s \in Source : StartBackfill(s)

Read ==
  \/ CheckSequencer
  \/ ReadReport
  \/ TransformReport
  \/ ListExisting
  \/ RequestFails

Publish ==
  \/ \E k \in Key : PutOutput(k)
  \/ \E k \in Key, reachedS3 \in BOOLEAN : PutOutputFails(k, reachedS3)
  \/ FinishPuts
  \/ \E k \in Key : DeleteStale(k)
  \/ \E k \in Key, reachedS3 \in BOOLEAN : DeleteStaleFails(k, reachedS3)
  \/ FinishPublication
  \/ SaveSequencer
  \/ \E reachedS3 \in BOOLEAN : SaveSequencerFails(reachedS3)

Cleanup ==
  \/ \E k \in Key : CleanupDelete(k)
  \/ \E k \in Key : CleanupDeleteFails(k)
  \/ FinishCleanup

ProcessCsv == Read \/ Publish \/ Cleanup \/ Return

Next == Environment \/ ProcessCsv \/ Crash

Spec == Init /\ [][Next]_vars

(* Every awaited request returns or throws: the SDK bounds its attempts.   *)
FairSpec == Spec /\ WF_vars(ProcessCsv)

-----------------------------------------------------------------------------
(* Type invariant. *)
TypeOK ==
  /\ raw \in [Source -> Nat]
  /\ targetList \in SUBSET User
  /\ facts \in [Key -> Object]
  /\ seqState \in [Source -> Nat]
  /\ call \in CallType
  /\ published \in [Source -> Nat]
  /\ standing \in [Source -> Generation \cup {NoObject}]
  /\ damage \in [Source -> SUBSET Damage]

(* The facts a query on s sees are those of one publication, all of them   *)
(* and nothing beside them.                                                *)
HoldsExactly(s, g) ==
  \A k \in KeysOf(s) :
    facts[k] = IF k \in PreparedKeys(s, g.version, g.targets) THEN g ELSE NoObject

(* No fact of s under its hashed name at all: before the first publication *)
(* or after a failed one.                                                  *)
HoldsNone(s) ==
  \A k \in KeysOf(s) : k.file = OutputFileName(s) => facts[k] = NoObject

HoldsObject(s, g) == IF g = NoObject THEN HoldsNone(s) ELSE HoldsExactly(s, g)

BeingPublished(s) == call.source = s /\ Touched

(* Fail closed: whenever no publication of s is under way, its facts are   *)
(* exactly those of the last complete publication, or none once a failed   *)
(* one was cleaned up: never a mixture and never a part.  Exempt is what   *)
(* the code cannot or does not clean up: the function was killed, a        *)
(* cleanup delete failed, or a delete failed when nothing was published.   *)
FactsWholeAtRest ==
  \A s \in Source :
    ~BeingPublished(s) /\ damage[s] = {} => HoldsObject(s, standing[s])

(* What the catch block is for: an exception leaves the facts of a source  *)
(* those of one generation, or none, as long as the function is not killed *)
(* and its cleanup deletes succeed.                                        *)
Whole(s) ==
  \/ HoldsNone(s)
  \/ \E v \in 1 .. raw[s], targets \in TargetLists :
       HoldsExactly(s, [source |-> s, version |-> v, targets |-> targets])

ExceptionsFailClosed ==
  \A s \in Source :
    ~BeingPublished(s) /\ damage[s] \subseteq {"reconcile"} => Whole(s)

(* Older overwrite events do not replace newer facts: a complete           *)
(* publication of a version is not replaced by one of an earlier version.  *)
NewerFactsStay ==
  [][\A s \in Source :
       standing[s] # NoObject /\ standing'[s] # NoObject
         => standing'[s].version >= standing[s].version]_vars

(* A completed publication heals: whatever partial or mixed outputs        *)
(* earlier failures left, the facts of the source are now exactly the      *)
(* generation just read, with the Target List read in this call, and no    *)
(* legacy output beside them.                                              *)
PublicationIsExact ==
  call.complete => HoldsExactly(call.source, CallGeneration)

(* A saved sequencer is evidence: the events it makes ProcessCsvAsync skip *)
(* are not newer than one that was published completely.                   *)
SavedSequencerWasPublished ==
  \A s \in Source : seqState[s] <= published[s]

(* The saved sequencer of a source never goes back, in whichever order     *)
(* events are delivered, retried or repeated.                              *)
SequencerNeverDecreases ==
  [][\A s \in Source : seqState'[s] >= seqState[s]]_vars

(* The event of s that is past the stale check and may yet be saved. *)
EventInProgress(s) ==
  IF call.source = s /\ call.pc \in Reading \cup {"publish", "reconcile", "save"}
                     /\ call.pc # "check"
  THEN call.sequencer ELSE None

Order(s) == INSTANCE EventOrder WITH saved <- seqState[s], running <- EventInProgress(s)

(* For each report on its own, whatever the other requests of a call do,   *)
(* fail to do or do in spite of failing: an event is processed only when   *)
(* it is above the one saved, and what is saved is the event in progress.  *)
EventsOfAReportAreInOrder ==
  /\ \A s \in Source : Order(s)!OrderInit
  /\ [][\A s \in Source : [Order(s)!OrderNext]_(Order(s)!orderVars)]_vars

(* How far a call has come. *)
Stage(pc) ==
  CASE pc = "check" -> 1 [] pc = "read" -> 2 [] pc = "targets" -> 3 [] pc = "list" -> 4
    [] pc = "publish" -> 5 [] pc = "reconcile" -> 6 [] pc \in {"save", "cleanup"} -> 7
    [] pc \in {"done", "failed"} -> 8 [] pc = "idle" -> 9

(* No request is made again in place, and no loop over keys starts over:   *)
(* a step of a call leads to a later stage or takes something off the keys *)
(* its stage still has to do, so that a call of finitely many keys ends.   *)
CallsOnlyAdvance ==
  [][~Idle /\ call' # call =>
       \/ Stage(call'.pc) > Stage(call.pc)
       \/ /\ call'.pc = call.pc
          /\ call'.todo \subseteq call.todo /\ call'.todo # call.todo]_vars

(* Every call of ProcessCsvAsync comes to an end. *)
EveryCallEnds == ~Idle ~> Idle

-----------------------------------------------------------------------------
(* The abstract state FactStore promises.  Listing and the loop before the *)
(* first PUT have changed nothing yet.                                     *)
AbstractView(s) ==
  IF BeingPublished(s) \/ damage[s] # {} THEN Partial
  ELSE IF standing[s] = NoObject THEN NoObject
  ELSE [version |-> standing[s].version, targets |-> standing[s].targets]

AbstractPhase ==
  CASE call.pc \in {"check", "read"} -> "called"
    [] call.pc = "targets" -> "read"
    [] call.pc = "save" -> "saving"
    [] call.pc \in {"list"} \cup Publishing -> IF Touched THEN "publishing" ELSE "ready"
    [] OTHER -> call.pc

AbstractOp ==
  [phase |-> AbstractPhase, source |-> call.source, version |-> call.version,
   sequencer |-> call.sequencer, read |-> call.read, targets |-> call.targets]

Abstract == INSTANCE FactStore WITH
  Uploads <- [s \in Source |-> Len(Report[s])],
  History <- [s \in Source |-> 0],
  Nothing <- NoObject,
  view <- [s \in Source |-> AbstractView(s)],
  op <- AbstractOp

(* Seen through AbstractView, a call of ProcessCsvAsync publishes a        *)
(* version and a Target List as one value, or removes the source's facts,  *)
(* or is known to have failed to; IngestFunction relies on it.             *)
ImplementsFactStore == Abstract!StoreSpec
=============================================================================
