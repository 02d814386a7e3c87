------------------------ MODULE IngestServiceProofs ------------------------
(***************************************************************************)
(* The safety properties of IngestService, for every set of sources,       *)
(* partitions, users and report contents; and that IngestService           *)
(* implements FactStore.                                                   *)
(***************************************************************************)
EXTENDS IngestService, TLAPS

(***************************************************************************)
(* The strengthening that makes FactsWholeAtRest inductive: what the       *)
(* locals of the running call say about the analytics bucket at each step. *)
(***************************************************************************)

(* Nothing was put under a key of s that the locals do not account for. *)
NothingBeside(s, keys) == \A k \in KeysOf(s) \ keys : facts[k] = NoObject

InputsOK ==
  /\ targetList \in TargetLists
  /\ \A s \in Source : raw[s] <= Len(Report[s])
  /\ call.pc \in {"check", "read"} =>
       /\ raw[call.source] > 0
       /\ call.version <= raw[call.source]
  /\ call.pc \in {"targets", "list", "publish", "reconcile", "cleanup", "save"} =>
       call.read \in 1 .. raw[call.source]
  /\ call.pc \in {"list", "publish", "reconcile", "cleanup", "save"} =>
       /\ call.targets \in TargetLists
       /\ call.prepared = PreparedKeys(call.source, call.read, call.targets)

BeforePublication ==
  /\ call.pc \in Reading => call.attempted = {}
  /\ call.pc \in Reading \cup Publishing => ~call.complete
  /\ call.pc \in Reading \cup {"publish", "reconcile"} => call.swept

WhilePublishing ==
  call.pc = "publish" =>
    /\ call.existing \subseteq KeysOf(call.source)
    /\ call.attempted \cup call.todo = call.prepared
    /\ call.attempted \cap call.todo = {}
    /\ \A k \in call.attempted : facts[k] = CallGeneration
    /\ NothingBeside(call.source, call.existing \cup call.attempted)

WhileReconciling ==
  call.pc = "reconcile" =>
    /\ call.existing \subseteq KeysOf(call.source)
    /\ call.attempted = call.prepared
    /\ call.todo \subseteq call.existing \ call.prepared
    /\ \A k \in call.prepared : facts[k] = CallGeneration
    /\ NothingBeside(call.source, call.prepared \cup call.todo)

WhileCleaningUp ==
  call.pc = "cleanup" =>
    /\ call.todo \subseteq KeysOf(call.source)
    /\ call.swept => NothingBeside(call.source, call.todo)

AfterPublication ==
  /\ PublicationIsExact
  /\ call.pc = "save" =>
       /\ call.complete
       /\ call.sequencer # None
       /\ call.sequencer <= published[call.source]

SequencerOK ==
  /\ SavedSequencerWasPublished
  /\ call.pc \in {"read", "targets", "list", "publish", "reconcile", "save"} =>
       call.sequencer = None \/ seqState[call.source] < call.sequencer

IInv ==
  /\ TypeOK
  /\ InputsOK
  /\ BeforePublication
  /\ WhilePublishing
  /\ WhileReconciling
  /\ WhileCleaningUp
  /\ AfterPublication
  /\ SequencerOK
  /\ FactsWholeAtRest

-----------------------------------------------------------------------------
(* Outputs of a report carry the hashed name of their source... *)
LEMMA PreparedAreHashed ==
  ASSUME NEW s, NEW v, NEW targets
  PROVE  \A k \in PreparedKeys(s, v, targets) : k.file = OutputFileName(s)
BY DEF PreparedKeys, OutputKey

(* ... and are found again by FindExistingOutputKeysAsync. *)
LEMMA PreparedAreOwn ==
  ASSUME NEW s \in Source, NEW v \in 1 .. Len(Report[s]), NEW targets \in SUBSET User
  PROVE  PreparedKeys(s, v, targets) \subseteq KeysOf(s)
<1>1. Report[s][v] \in Content
  BY ReportAssumption
<1>2. \A r \in RowsKept(s, v, targets) : r.partition \in Partition
  BY <1>1 DEF RowsKept, Content, Row
<1>3. \A t \in Table, p \in Partition : OutputKey(t, p, s) \in KeysOf(s)
  BY DEF OutputKey, KeysOf, Key, FileName
<1> QED
  BY <1>2, <1>3 DEF PreparedKeys, Table

(* ... which no other source takes for an output of its own. *)
LEMMA HashedNamesDiffer ==
  ASSUME NEW s \in Source, NEW t \in Source, s # t,
         NEW k \in Key, k.file = OutputFileName(s)
  PROVE  k \notin KeysOf(t)
BY DEF KeysOf, OutputFileName, LegacyFileName

(* A hashed name is not a legacy name. *)
LEMMA LegacyIsNotHashed ==
  ASSUME NEW s \in Source, NEW t \in Source
  PROVE  LegacyFileName(s) # OutputFileName(t)
BY DEF OutputFileName, LegacyFileName

(* Between two calls the locals hold the values of no call in particular. *)
LEMMA NoCallType == NoCall \in CallType /\ NoCall.pc = "idle" /\ ~NoCall.complete
<1>1. (CHOOSE s \in Source : TRUE) \in Source
  BY SourceAssumption
<1> QED
  BY <1>1 DEF NoCall, NewCall, CallType, None, Pc, Reading, Publishing

(* A freshly deployed pipeline, legacy outputs of an earlier one included. *)
LEMMA InitIInv == Init => IInv
<1> SUFFICES ASSUME Init PROVE IInv
  OBVIOUS
<1>1. TypeOK
  BY NoCallType, TargetListsAssumption DEF Init, TypeOK, Object, None
<1>2. InputsOK
  BY NoCallType, ReportAssumption DEF Init, InputsOK
<1>3. BeforePublication /\ WhilePublishing /\ WhileReconciling /\ WhileCleaningUp
  BY NoCallType
  DEF Init, BeforePublication, WhilePublishing, WhileReconciling, WhileCleaningUp,
      Reading, Publishing
<1>4. AfterPublication /\ SequencerOK
  BY NoCallType
  DEF Init, AfterPublication, PublicationIsExact, SequencerOK, SavedSequencerWasPublished, None
<1>5. \A s \in Source, k \in Key :
        k.file = OutputFileName(s) => facts[k] = NoObject
  BY LegacyOutputsAssumption, LegacyIsNotHashed DEF Init
<1>6. FactsWholeAtRest
  BY <1>5 DEF Init, FactsWholeAtRest, HoldsObject, HoldsNone, KeysOf
<1> QED
  BY <1>1, <1>2, <1>3, <1>4, <1>6 DEF IInv

-----------------------------------------------------------------------------
(* A new version of a report only makes more versions readable. *)
LEMMA UploadIInv ==
  ASSUME IInv, NEW s \in Source, Upload(s)
  PROVE  IInv'
<1> USE DEF IInv, Upload, store, history
<1>1. TypeOK'
  BY DEF TypeOK
<1>2. InputsOK'
  <2>1. \A t \in Source : raw[t] \in Nat /\ raw'[t] \in Nat /\ raw[t] <= raw'[t]
    BY DEF TypeOK
  <2>2. Len(Report[s]) \in Nat /\ raw'[s] <= Len(Report[s])
    BY <2>1, ReportAssumption DEF TypeOK
  <2>3. call.source \in Source /\ call.version \in Nat
    BY DEF TypeOK, CallType
  <2> QED
    BY <2>1, <2>2, <2>3 DEF InputsOK, TypeOK
<1>3. BeforePublication'
  BY DEF BeforePublication
<1>4. WhilePublishing' /\ WhileReconciling' /\ WhileCleaningUp'
  BY DEF WhilePublishing, WhileReconciling, WhileCleaningUp, NothingBeside, CallGeneration
<1>5. AfterPublication' /\ SequencerOK'
  BY DEF AfterPublication, PublicationIsExact, HoldsExactly, CallGeneration, SequencerOK,
         SavedSequencerWasPublished
<1>6. FactsWholeAtRest'
  BY DEF FactsWholeAtRest, HoldsObject, HoldsNone, HoldsExactly, BeingPublished, Touched
<1> QED
  BY <1>1, <1>2, <1>3, <1>4, <1>5, <1>6

(* A new Target List is read by calls that have yet to read it. *)
LEMMA ChangeTargetListIInv ==
  ASSUME IInv, NEW targets \in TargetLists, ChangeTargetList(targets)
  PROVE  IInv'
<1> USE DEF IInv, ChangeTargetList, store, history
<1>1. TypeOK'
  BY TargetListsAssumption DEF TypeOK
<1>2. InputsOK'
  BY DEF InputsOK
<1>3. BeforePublication'
  BY DEF BeforePublication
<1>4. WhilePublishing' /\ WhileReconciling' /\ WhileCleaningUp'
  BY DEF WhilePublishing, WhileReconciling, WhileCleaningUp, NothingBeside, CallGeneration
<1>5. AfterPublication' /\ SequencerOK'
  BY DEF AfterPublication, PublicationIsExact, HoldsExactly, CallGeneration, SequencerOK,
         SavedSequencerWasPublished
<1>6. FactsWholeAtRest'
  BY DEF FactsWholeAtRest, HoldsObject, HoldsNone, HoldsExactly, BeingPublished, Touched
<1> QED
  BY <1>1, <1>2, <1>3, <1>4, <1>5, <1>6

-----------------------------------------------------------------------------
(* Steps that change nothing but the locals of a call that has not touched *)
(* the analytics bucket, before or after, leave the facts as they were.    *)
LEMMA UntouchedStep ==
  ASSUME FactsWholeAtRest, UNCHANGED <<facts, standing, damage>>, ~Touched
  PROVE  FactsWholeAtRest'
BY DEF FactsWholeAtRest, HoldsObject, HoldsNone, HoldsExactly, BeingPublished

(* A call begins, live or from a backfill, with nothing attempted. *)
LEMMA StartIInv ==
  ASSUME IInv, NEW s \in Source,
         \/ \E v \in 1 .. raw[s] : StartLive(s, v)
         \/ StartBackfill(s)
  PROVE  IInv'
<1>1. PICK v \in Nat : /\ Idle /\ raw[s] > 0 /\ v <= raw[s]
                      /\ call' = NewCall(s, v, v)
                      /\ UNCHANGED <<raw, targetList, store, history>>
  <2>1. raw[s] \in Nat
    BY DEF IInv, TypeOK
  <2> QED
    BY <2>1 DEF StartLive, StartBackfill, None
<1>2. /\ call'.pc = "check" /\ call'.source = s /\ call'.version = v
      /\ call'.attempted = {} /\ call'.complete = FALSE /\ call'.swept = TRUE
  BY <1>1 DEF NewCall
<1>3. call' \in CallType
  BY <1>1 DEF NewCall, CallType, None, Pc, Reading
<1> USE DEF store, history
<1>4. TypeOK'
  BY <1>1, <1>3 DEF IInv, TypeOK
<1>5. InputsOK'
  BY <1>1, <1>2 DEF IInv, InputsOK
<1>6. BeforePublication' /\ WhilePublishing' /\ WhileReconciling' /\ WhileCleaningUp'
  BY <1>2 DEF BeforePublication, WhilePublishing, WhileReconciling, WhileCleaningUp
<1>7. AfterPublication' /\ SequencerOK'
  BY <1>1, <1>2
  DEF IInv, AfterPublication, PublicationIsExact, SequencerOK, SavedSequencerWasPublished
<1>8. FactsWholeAtRest'
  BY <1>1, UntouchedStep DEF IInv, Idle, Touched, Publishing
<1> QED
  BY <1>4, <1>5, <1>6, <1>7, <1>8 DEF IInv

(* IsStaleEventAsync lets a call pass only with a sequencer above the saved one. *)
LEMMA CheckSequencerIInv ==
  ASSUME IInv, CheckSequencer
  PROVE  IInv'
<1> USE DEF IInv, CheckSequencer, store, history
<1>1. /\ call'.pc \in {"done", "read"}
      /\ call'.pc = "read" => ~IsStale
      /\ call' = [call EXCEPT !.pc = call'.pc]
  BY DEF TypeOK, CallType
<1>2. TypeOK'
  BY DEF TypeOK, CallType, Pc, Reading
<1>3. InputsOK'
  BY <1>1 DEF InputsOK, TypeOK, CallType
<1>4. BeforePublication' /\ WhilePublishing' /\ WhileReconciling' /\ WhileCleaningUp'
  BY <1>1 DEF BeforePublication, WhilePublishing, WhileReconciling, WhileCleaningUp,
              TypeOK, CallType, Reading, Publishing
<1>5. AfterPublication'
  BY <1>1 DEF AfterPublication, PublicationIsExact, BeforePublication, Reading,
              TypeOK, CallType
<1>6. SequencerOK'
  BY <1>1 DEF SequencerOK, SavedSequencerWasPublished, IsStale, None, TypeOK, CallType
<1>7. FactsWholeAtRest'
  BY <1>1, UntouchedStep DEF Touched, Publishing
<1> QED
  BY <1>2, <1>3, <1>4, <1>5, <1>6, <1>7

(* ReadObjectTextAsync reads a version that has been uploaded. *)
LEMMA ReadReportIInv ==
  ASSUME IInv, ReadReport
  PROVE  IInv'
<1> USE DEF IInv, ReadReport, store, history
<1>1. /\ call'.read \in 1 .. raw[call.source]
      /\ call' = [call EXCEPT !.pc = "targets", !.read = call'.read]
  BY DEF InputsOK, TypeOK, CallType, None
<1>2. TypeOK'
  BY <1>1 DEF TypeOK, CallType, Pc, Reading
<1>3. InputsOK'
  BY <1>1 DEF InputsOK, TypeOK, CallType
<1>4. BeforePublication' /\ WhilePublishing' /\ WhileReconciling' /\ WhileCleaningUp'
  BY <1>1 DEF BeforePublication, WhilePublishing, WhileReconciling, WhileCleaningUp,
              TypeOK, CallType, Reading, Publishing
<1>5. AfterPublication' /\ SequencerOK'
  BY <1>1 DEF AfterPublication, PublicationIsExact, BeforePublication, Reading,
              SequencerOK, SavedSequencerWasPublished, TypeOK, CallType
<1>6. FactsWholeAtRest'
  BY <1>1, UntouchedStep DEF Touched, Publishing
<1> QED
  BY <1>2, <1>3, <1>4, <1>5, <1>6

(* While nothing has been attempted, an exception just ends the call. *)
LEMMA FailedIInv ==
  ASSUME IInv, call.pc \in Reading, call' = Catch(call),
         UNCHANGED <<raw, targetList, store, history>>
  PROVE  IInv'
<1> USE DEF IInv, store, history
<1>1. call' = [call EXCEPT !.pc = "failed"]
  BY DEF Catch, BeforePublication
<1>2. TypeOK'
  BY <1>1 DEF TypeOK, CallType, Pc
<1>3. InputsOK'
  BY <1>1 DEF InputsOK, TypeOK, CallType
<1>4. BeforePublication' /\ WhilePublishing' /\ WhileReconciling' /\ WhileCleaningUp'
  BY <1>1 DEF BeforePublication, WhilePublishing, WhileReconciling, WhileCleaningUp,
              TypeOK, CallType, Reading, Publishing
<1>5. AfterPublication' /\ SequencerOK'
  BY <1>1 DEF AfterPublication, PublicationIsExact, BeforePublication, Reading,
              SequencerOK, SavedSequencerWasPublished, TypeOK, CallType
<1>6. FactsWholeAtRest'
  BY <1>1, UntouchedStep DEF Touched, Publishing, Reading
<1> QED
  BY <1>2, <1>3, <1>4, <1>5, <1>6

(* Transform and PrepareOutputsAsync fix the outputs of this call. *)
LEMMA TransformReportIInv ==
  ASSUME IInv, TransformReport
  PROVE  IInv'
<1> USE DEF IInv, TransformReport, store, history
<1>1. CASE TransformFails(call.source, call.read, targetList)
  BY <1>1, FailedIInv DEF Reading
<1>2. CASE ~TransformFails(call.source, call.read, targetList)
  <2>1. /\ call' = [call EXCEPT !.pc = "list", !.targets = targetList,
                      !.prepared = PreparedKeys(call.source, call.read, targetList)]
        /\ call \in CallType
    BY <1>2 DEF TypeOK
  <2>2. PreparedKeys(call.source, call.read, targetList) \subseteq KeysOf(call.source)
    <3>1. call.source \in Source /\ call.read \in 1 .. Len(Report[call.source])
      BY ReportAssumption DEF InputsOK, TypeOK, CallType
    <3> QED
      BY <3>1, PreparedAreOwn DEF TypeOK
  <2>3. TypeOK'
    BY <2>1, <2>2 DEF TypeOK, CallType, Pc, Reading, KeysOf
  <2>4. InputsOK'
    BY <2>1 DEF InputsOK, CallType
  <2>5. BeforePublication' /\ WhilePublishing' /\ WhileReconciling' /\ WhileCleaningUp'
    BY <2>1 DEF BeforePublication, WhilePublishing, WhileReconciling, WhileCleaningUp,
                CallType, Reading, Publishing
  <2>6. AfterPublication' /\ SequencerOK'
    BY <2>1 DEF AfterPublication, PublicationIsExact, BeforePublication, Reading,
                SequencerOK, SavedSequencerWasPublished, CallType
  <2>7. FactsWholeAtRest'
    BY <2>1, UntouchedStep DEF Touched, Publishing, CallType
  <2> QED
    BY <2>3, <2>4, <2>5, <2>6, <2>7
<1> QED
  BY <1>1, <1>2

(* From the listing on, every object of the source is accounted for. *)
LEMMA ListExistingIInv ==
  ASSUME IInv, ListExisting
  PROVE  IInv'
<1> USE DEF IInv, ListExisting, store, history
<1>1. /\ call' = [call EXCEPT !.pc = "publish", !.todo = call.prepared,
                    !.existing = {k \in KeysOf(call.source) : facts[k] # NoObject}]
      /\ call \in CallType
      /\ call.attempted = {}
  BY DEF TypeOK, BeforePublication, Reading
<1>2. TypeOK'
  BY <1>1 DEF TypeOK, CallType, Pc, Publishing, KeysOf
<1>3. InputsOK'
  BY <1>1 DEF InputsOK, CallType
<1>4. BeforePublication' /\ WhileReconciling' /\ WhileCleaningUp'
  BY <1>1 DEF BeforePublication, WhileReconciling, WhileCleaningUp,
              CallType, Reading, Publishing
<1>5. WhilePublishing'
  BY <1>1 DEF WhilePublishing, NothingBeside, CallType, KeysOf
<1>6. AfterPublication' /\ SequencerOK'
  BY <1>1 DEF AfterPublication, PublicationIsExact, BeforePublication, Reading,
              SequencerOK, SavedSequencerWasPublished, CallType
<1>7. FactsWholeAtRest'
  BY <1>1, UntouchedStep DEF Touched, Publishing, CallType
<1> QED
  BY <1>2, <1>3, <1>4, <1>5, <1>6, <1>7

-----------------------------------------------------------------------------
(* What a step on an output of s does to the facts of the other sources: a *)
(* PUT goes under a hashed name of s, a DELETE may hit a legacy name they  *)
(* share with s.                                                           *)
LEMMA OthersKeepFacts ==
  ASSUME NEW s \in Source, NEW t \in Source, s # t,
         NEW k \in KeysOf(s), NEW g, NEW object,
         facts \in [Key -> Object],
         facts' = [facts EXCEPT ![k] = object],
         object = NoObject \/ k.file = OutputFileName(s),
         HoldsObject(t, g)
  PROVE  HoldsObject(t, g)'
<1>1. k \in Key
  BY DEF KeysOf
<1>2. CASE k \notin KeysOf(t)
  BY <1>2 DEF HoldsObject, HoldsNone, HoldsExactly, KeysOf
<1>3. CASE k \in KeysOf(t)
  <2>1. object = NoObject
    BY <1>1, <1>3, HashedNamesDiffer
  <2>2. k.file # OutputFileName(t)
    BY <1>1, HashedNamesDiffer
  <2>3. g # NoObject => k \notin PreparedKeys(t, g.version, g.targets)
    BY <2>2, PreparedAreHashed
  <2> QED
    BY <1>1, <2>1, <2>3 DEF HoldsObject, HoldsNone, HoldsExactly, KeysOf
<1> QED
  BY <1>2, <1>3

(* While the call's source is touched, only other sources are at rest. *)
LEMMA TouchedStep ==
  ASSUME FactsWholeAtRest, facts \in [Key -> Object], call.source \in Source,
         NEW k \in KeysOf(call.source), NEW object,
         facts' = [facts EXCEPT ![k] = object],
         object = NoObject \/ k.file = OutputFileName(call.source),
         \A t \in Source \ {call.source} :
           standing'[t] = standing[t] /\ damage'[t] = damage[t],
         call'.source = call.source,
         BeingPublished(call.source)' \/ damage'[call.source] # {}
  PROVE  FactsWholeAtRest'
<1> SUFFICES ASSUME NEW t \in Source, ~BeingPublished(t)', damage'[t] = {}
             PROVE  HoldsObject(t, standing[t])'
  BY DEF FactsWholeAtRest
<1>1. t # call.source
  BY DEF BeingPublished
<1>2. HoldsObject(t, standing[t])
  BY <1>1 DEF FactsWholeAtRest, BeingPublished
<1>3. \A g : HoldsObject(t, g) => HoldsObject(t, g)'
  BY <1>1, OthersKeepFacts
<1> QED
  BY <1>1, <1>2, <1>3

(* Nor does a request on its outputs that had no effect. *)
LEMMA TouchedStepWithoutEffect ==
  ASSUME FactsWholeAtRest, facts' = facts,
         \A t \in Source \ {call.source} :
           standing'[t] = standing[t] /\ damage'[t] = damage[t],
         call'.source = call.source,
         BeingPublished(call.source)' \/ damage'[call.source] # {}
  PROVE  FactsWholeAtRest'
BY DEF FactsWholeAtRest, HoldsObject, HoldsNone, HoldsExactly, BeingPublished

(* What the locals are while outputs are published or removed. *)
LEMMA CallFacts ==
  ASSUME IInv, call.pc \in Publishing
  PROVE  /\ call \in CallType
         /\ call.source \in Source
         /\ CallGeneration \in Generation
         /\ call.prepared \subseteq KeysOf(call.source)
         /\ \A k \in call.prepared : k.file = OutputFileName(call.source)
         /\ KeysOf(call.source) \subseteq Key
<1>1. call \in CallType /\ call.source \in Source
  BY DEF IInv, TypeOK, CallType
<1>2. /\ call.read \in 1 .. Len(Report[call.source])
      /\ call.targets \in SUBSET User
      /\ call.prepared = PreparedKeys(call.source, call.read, call.targets)
  BY <1>1, ReportAssumption, TargetListsAssumption
  DEF IInv, InputsOK, Publishing, TypeOK
<1>3. CallGeneration \in Generation
  BY <1>1, <1>2 DEF CallGeneration, Generation, CallType
<1> QED
  BY <1>1, <1>2, <1>3, PreparedAreOwn, PreparedAreHashed DEF KeysOf

(* A PUT moves a key from those to do to those attempted. *)
LEMMA PutOutputIInv ==
  ASSUME IInv, NEW k \in Key, PutOutput(k)
  PROVE  IInv'
<1> USE DEF IInv, PutOutput, history
<1>1. k \in call.todo
  BY DEF NextOutputs
<1>2. /\ call' = [call EXCEPT !.attempted = @ \cup {k}, !.todo = @ \ {k}]
      /\ call \in CallType
      /\ k \in call.prepared
  BY <1>1 DEF Attempting, WhilePublishing, TypeOK
<1>3. /\ k \in KeysOf(call.source)
      /\ k.file = OutputFileName(call.source)
      /\ CallGeneration \in Generation
      /\ call.source \in Source
  BY <1>2, CallFacts DEF Publishing
<1>4. TypeOK'
  <2>1. call' \in CallType
    <3>1. call.attempted \cup {k} \subseteq Key /\ call.todo \ {k} \subseteq Key
      BY <1>2 DEF CallType
    <3> QED
      BY <1>2, <3>1 DEF CallType
  <2>2. facts' \in [Key -> Object]
    BY <1>3 DEF TypeOK, Object
  <2> QED
    BY <2>1, <2>2 DEF TypeOK
<1>5. InputsOK' /\ BeforePublication' /\ WhileReconciling' /\ WhileCleaningUp'
  BY <1>2 DEF InputsOK, BeforePublication, WhileReconciling, WhileCleaningUp,
              CallType, Reading, Publishing
<1>6. WhilePublishing'
  <2>1. CallGeneration' = CallGeneration
    BY <1>2 DEF CallGeneration, CallType
  <2>2. facts'[k] = CallGeneration /\ \A j \in Key \ {k} : facts'[j] = facts[j]
    BY DEF TypeOK
  <2> QED
    BY <1>2, <1>3, <2>1, <2>2 DEF WhilePublishing, NothingBeside, CallType, KeysOf
<1>7. AfterPublication' /\ SequencerOK'
  BY <1>2 DEF AfterPublication, PublicationIsExact, BeforePublication, Publishing,
              SequencerOK, SavedSequencerWasPublished, CallType
<1>8. FactsWholeAtRest'
  <2>1. BeingPublished(call.source)' /\ call'.source = call.source
    BY <1>2 DEF BeingPublished, Touched, Publishing, CallType
  <2> QED
    BY <1>3, <2>1, TouchedStep DEF TypeOK
<1> QED
  BY <1>4, <1>5, <1>6, <1>7, <1>8

(* A PUT that fails, with or without effect, leads to the clean-up of its key too. *)
LEMMA PutOutputFailsIInv ==
  ASSUME IInv, NEW k \in Key, NEW reachedS3 \in BOOLEAN, PutOutputFails(k, reachedS3)
  PROVE  IInv'
<1> USE DEF IInv, PutOutputFails, history
<1>1. k \in call.todo
  BY DEF NextOutputs
<1>2. call \in CallType /\ k \in call.prepared /\ ~call.complete
  BY <1>1 DEF WhilePublishing, BeforePublication, Publishing, TypeOK
<1>3. call' = [call EXCEPT !.pc = "cleanup", !.attempted = @ \cup {k},
                 !.todo = call.existing \cup call.attempted \cup {k}]
  BY <1>2 DEF Catch, Attempting, CallType
<1>4. /\ k \in KeysOf(call.source)
      /\ k.file = OutputFileName(call.source)
      /\ CallGeneration \in Generation
      /\ call.source \in Source
      /\ call.prepared \subseteq KeysOf(call.source)
  BY <1>2, CallFacts DEF Publishing
<1>5. TypeOK'
  <2>1. call' \in CallType
    <3>1. call.existing \cup call.attempted \cup {k} \subseteq Key
      BY <1>2 DEF CallType
    <3> QED
      BY <1>2, <1>3, <3>1 DEF CallType, Pc, Publishing
  <2>2. facts' \in [Key -> Object]
    BY <1>4 DEF TypeOK, Object
  <2> QED
    BY <2>1, <2>2 DEF TypeOK
<1>6. InputsOK' /\ BeforePublication' /\ WhileReconciling' /\ WhilePublishing'
  BY <1>2, <1>3 DEF InputsOK, BeforePublication, WhileReconciling, WhilePublishing,
                    CallType, Reading, Publishing
<1>7. WhileCleaningUp'
  <2>1. \A j \in Key \ {k} : facts'[j] = facts[j]
    BY DEF TypeOK
  <2> QED
    BY <1>2, <1>3, <1>4, <2>1
    DEF WhilePublishing, WhileCleaningUp, NothingBeside, CallType, KeysOf
<1>8. AfterPublication' /\ SequencerOK'
  BY <1>2, <1>3 DEF AfterPublication, PublicationIsExact, SequencerOK,
                    SavedSequencerWasPublished, CallType
<1>9. FactsWholeAtRest'
  <2>1. BeingPublished(call.source)' /\ call'.source = call.source
    BY <1>2, <1>3 DEF BeingPublished, Touched, Publishing, CallType
  <2>2. CASE reachedS3
    BY <1>4, <2>1, <2>2, TouchedStep DEF TypeOK
  <2>3. CASE ~reachedS3
    BY <2>1, <2>3, TouchedStepWithoutEffect
  <2> QED
    BY <2>2, <2>3
<1> QED
  BY <1>5, <1>6, <1>7, <1>8, <1>9

(* With all outputs put, what remains is what this call no longer wants. *)
LEMMA FinishPutsIInv ==
  ASSUME IInv, FinishPuts
  PROVE  IInv'
<1> USE DEF IInv, FinishPuts, store, history
<1>1. /\ call' = [call EXCEPT !.pc = "reconcile", !.todo = call.existing \ call.prepared]
      /\ call \in CallType
      /\ call.attempted = call.prepared
  BY DEF TypeOK, WhilePublishing
<1>2. TypeOK'
  BY <1>1 DEF TypeOK, CallType, Pc, Publishing
<1>3. InputsOK' /\ BeforePublication' /\ WhilePublishing' /\ WhileCleaningUp'
  BY <1>1 DEF InputsOK, BeforePublication, WhilePublishing, WhileCleaningUp,
              CallType, Reading, Publishing
<1>4. WhileReconciling'
  BY <1>1 DEF WhilePublishing, WhileReconciling, NothingBeside, CallGeneration, CallType
<1>5. AfterPublication' /\ SequencerOK'
  BY <1>1 DEF AfterPublication, PublicationIsExact, BeforePublication, Publishing,
              SequencerOK, SavedSequencerWasPublished, CallType
<1>6. FactsWholeAtRest'
  <2>1. BeingPublished(call.source)' /\ call'.source = call.source
    BY <1>1 DEF BeingPublished, Touched, Publishing, CallType
  <2> QED
    BY <2>1, TouchedStepWithoutEffect
<1> QED
  BY <1>2, <1>3, <1>4, <1>5, <1>6

(* Deleting an obsolete output leaves the new ones alone. *)
LEMMA DeleteStaleIInv ==
  ASSUME IInv, NEW k \in Key, DeleteStale(k)
  PROVE  IInv'
<1> USE DEF IInv, DeleteStale, history
<1>1. /\ call' = [call EXCEPT !.todo = @ \ {k}]
      /\ call \in CallType
      /\ call.source \in Source
      /\ k \in KeysOf(call.source) \ call.prepared
  BY DEF TypeOK, CallType, WhileReconciling
<1>2. \A j \in Key \ {k} : facts'[j] = facts[j]
  BY DEF TypeOK
<1>3. facts'[k] = NoObject
  BY DEF TypeOK
<1>4. TypeOK'
  <2>1. call' \in CallType
    BY <1>1 DEF CallType
  <2>2. facts' \in [Key -> Object]
    BY DEF TypeOK, Object
  <2> QED
    BY <2>1, <2>2 DEF TypeOK
<1>5. InputsOK' /\ BeforePublication' /\ WhilePublishing' /\ WhileCleaningUp'
  BY <1>1 DEF InputsOK, BeforePublication, WhilePublishing, WhileCleaningUp,
              CallType, Reading, Publishing
<1>6. WhileReconciling'
  <2>1. CallGeneration' = CallGeneration
    BY <1>1 DEF CallGeneration, CallType
  <2>2. call.prepared \subseteq KeysOf(call.source)
    BY CallFacts DEF Publishing
  <2> QED
    BY <1>1, <1>2, <1>3, <2>1, <2>2 DEF WhileReconciling, NothingBeside, CallType, KeysOf
<1>7. AfterPublication' /\ SequencerOK'
  BY <1>1 DEF AfterPublication, PublicationIsExact, BeforePublication, Publishing,
              SequencerOK, SavedSequencerWasPublished, CallType
<1>8. FactsWholeAtRest'
  <2>1. BeingPublished(call.source)' /\ call'.source = call.source
    BY <1>1 DEF BeingPublished, Touched, Publishing, CallType
  <2> QED
    BY <1>1, <2>1, TouchedStep DEF TypeOK
<1> QED
  BY <1>4, <1>5, <1>6, <1>7, <1>8

(* A failed delete leads to the clean-up, or is recorded as damage. *)
LEMMA DeleteStaleFailsIInv ==
  ASSUME IInv, NEW k \in Key, NEW reachedS3 \in BOOLEAN, DeleteStaleFails(k, reachedS3)
  PROVE  IInv'
<1> USE DEF IInv, DeleteStaleFails
<1>1. /\ call \in CallType
      /\ call.source \in Source
      /\ k \in KeysOf(call.source)
      /\ ~call.complete
      /\ call.swept
  BY DEF TypeOK, CallType, WhileReconciling, BeforePublication, Publishing
<1>2. call' = IF call.attempted = {}
              THEN [call EXCEPT !.pc = "failed"]
              ELSE [call EXCEPT !.pc = "cleanup", !.todo = call.existing \cup call.attempted]
  BY <1>1 DEF Catch
<1>3. \A j \in Key \ {k} : facts'[j] = facts[j]
  BY DEF TypeOK
<1>4. TypeOK'
  <2>1. call' \in CallType
    <3>1. call.existing \cup call.attempted \subseteq Key
      BY <1>1 DEF CallType
    <3> QED
      <4>1. [call EXCEPT !.pc = "failed"] \in CallType
        BY <1>1 DEF CallType, Pc
      <4>2. [call EXCEPT !.pc = "cleanup", !.todo = call.existing \cup call.attempted]
              \in CallType
        BY <1>1, <3>1 DEF CallType, Pc, Publishing
      <4> QED
        BY <1>2, <4>1, <4>2
  <2>2. facts' \in [Key -> Object]
    BY DEF TypeOK, Object
  <2>3. /\ standing' \in [Source -> Generation \cup {NoObject}]
        /\ damage' \in [Source -> SUBSET Damage]
    BY <1>1 DEF TypeOK, Damaged, Damage
  <2> QED
    BY <2>1, <2>2, <2>3 DEF TypeOK
<1>5. InputsOK' /\ BeforePublication' /\ WhilePublishing' /\ WhileReconciling'
  BY <1>1, <1>2 DEF InputsOK, BeforePublication, WhilePublishing, WhileReconciling,
              CallType, Reading, Publishing
<1>6. WhileCleaningUp'
  <2>1. call.prepared \subseteq KeysOf(call.source)
    BY CallFacts DEF Publishing
  <2>2. CASE call.attempted = {}
    BY <1>1, <1>2, <2>2 DEF WhileCleaningUp, CallType
  <2>3. CASE call.attempted # {}
    <3>1. /\ call'.pc = "cleanup" /\ call'.source = call.source
          /\ call'.todo = call.existing \cup call.attempted
      BY <1>1, <1>2, <2>3 DEF CallType
    <3>2. call'.todo \subseteq KeysOf(call.source)
      BY <2>1, <3>1 DEF WhileReconciling
    <3>3. \A j \in KeysOf(call.source) \ call'.todo : j \in Key \ {k} /\ facts[j] = NoObject
      BY <3>1 DEF WhileReconciling, NothingBeside, KeysOf
    <3> QED
      BY <1>3, <3>1, <3>2, <3>3 DEF WhileCleaningUp, NothingBeside, KeysOf
  <2> QED
    BY <2>2, <2>3
<1>7. AfterPublication' /\ SequencerOK'
  BY <1>1, <1>2 DEF AfterPublication, PublicationIsExact, SequencerOK,
                    SavedSequencerWasPublished, CallType
<1>8. FactsWholeAtRest'
  <2>1. call'.source = call.source
    BY <1>1, <1>2 DEF CallType
  <2>2. BeingPublished(call.source)' \/ damage'[call.source] # {}
    <3>1. CASE call.attempted = {}
      <4>1. damage' = [damage EXCEPT ![call.source] = @ \cup {"reconcile"}]
        BY <3>1 DEF Damaged
      <4>2. damage \in [Source -> SUBSET Damage]
        BY DEF TypeOK
      <4>3. "reconcile" \in damage'[call.source]
        BY <1>1, <4>1, <4>2
      <4> QED
        BY <4>3
    <3>2. CASE call.attempted # {}
      BY <1>1, <1>2, <3>2 DEF BeingPublished, Touched, Publishing, CallType
    <3> QED
      BY <3>1, <3>2
  <2>3. \A t \in Source \ {call.source} :
           standing'[t] = standing[t] /\ damage'[t] = damage[t]
    BY DEF Damaged, TypeOK
  <2>4. CASE reachedS3
    BY <1>1, <2>1, <2>2, <2>3, <2>4, TouchedStep DEF TypeOK
  <2>5. CASE ~reachedS3
    BY <2>1, <2>2, <2>3, <2>5, TouchedStepWithoutEffect
  <2> QED
    BY <2>4, <2>5
<1> QED
  BY <1>4, <1>5, <1>6, <1>7, <1>8

(* When publication is complete the facts are exactly the new generation. *)
LEMMA FinishPublicationIInv ==
  ASSUME IInv, FinishPublication
  PROVE  IInv'
<1> USE DEF IInv, FinishPublication, store
<1>1. /\ call \in CallType
      /\ call.source \in Source
      /\ CallGeneration \in Generation
      /\ call.prepared = PreparedKeys(call.source, call.read, call.targets)
  BY CallFacts DEF Publishing, InputsOK
<1>2. /\ call'.pc \in {"save", "done"}
      /\ call'.pc = "save" => call.sequencer # None
      /\ call' = [call EXCEPT !.complete = TRUE, !.pc = call'.pc]
  BY <1>1 DEF CallType
<1>3. CallGeneration' = CallGeneration
  BY <1>1, <1>2 DEF CallGeneration, CallType
<1>4. HoldsExactly(call.source, CallGeneration)
  <2>1. /\ CallGeneration.version = call.read
        /\ CallGeneration.targets = call.targets
    BY DEF CallGeneration
  <2> QED
    BY <1>1, <2>1 DEF WhileReconciling, NothingBeside, HoldsExactly
<1>5. /\ published' \in [Source -> Nat]
      /\ \A s \in Source : published[s] <= published'[s]
      /\ call.sequencer <= published'[call.source]
  BY <1>1 DEF TypeOK, CallType
<1>6. TypeOK'
  <2>1. call' \in CallType
    BY <1>1, <1>2 DEF CallType, Pc
  <2>2. /\ standing' \in [Source -> Generation \cup {NoObject}]
        /\ damage' \in [Source -> SUBSET Damage]
    BY <1>1 DEF TypeOK, Settled
  <2> QED
    BY <1>5, <2>1, <2>2 DEF TypeOK
<1>7. InputsOK' /\ BeforePublication'
  BY <1>1, <1>2 DEF InputsOK, BeforePublication, CallType, Reading, Publishing
<1>8. WhilePublishing' /\ WhileReconciling' /\ WhileCleaningUp'
  BY <1>2 DEF WhilePublishing, WhileReconciling, WhileCleaningUp
<1>9. HoldsExactly(call.source, CallGeneration)'
  BY <1>1, <1>2, <1>3, <1>4 DEF HoldsExactly, CallType
<1>10. AfterPublication'
  BY <1>1, <1>2, <1>5, <1>9 DEF AfterPublication, PublicationIsExact, CallType
<1>11. SequencerOK'
  <2>1. \A s \in Source : seqState[s] \in Nat /\ published[s] \in Nat /\ published'[s] \in Nat
    BY <1>5 DEF TypeOK
  <2>2. SavedSequencerWasPublished'
    BY <1>5, <2>1 DEF SequencerOK, SavedSequencerWasPublished
  <2> QED
    BY <1>1, <1>2, <2>2 DEF SequencerOK, CallType
<1>12. FactsWholeAtRest'
  <2> SUFFICES ASSUME NEW t \in Source, ~BeingPublished(t)', damage'[t] = {}
               PROVE  HoldsObject(t, standing[t])'
    BY DEF FactsWholeAtRest
  <2>1. CASE t = call.source
    <3>1. standing'[t] = CallGeneration /\ CallGeneration # NoObject
      BY <1>1, <2>1, ObjectAssumption DEF Settled, TypeOK
    <3> QED
      BY <1>3, <1>4, <2>1, <3>1 DEF HoldsObject, HoldsExactly
  <2>2. CASE t # call.source
    <3>1. standing'[t] = standing[t] /\ damage'[t] = damage[t]
      BY <2>2 DEF Settled, TypeOK
    <3>2. HoldsObject(t, standing[t])
      BY <2>2, <3>1 DEF FactsWholeAtRest, BeingPublished
    <3> QED
      BY <3>1, <3>2 DEF HoldsObject, HoldsNone, HoldsExactly
  <2> QED
    BY <2>1, <2>2
<1> QED
  BY <1>6, <1>7, <1>8, <1>10, <1>11, <1>12

-----------------------------------------------------------------------------
(* The sequencer saved is one just published. *)
LEMMA SaveSequencerIInv ==
  ASSUME IInv, SaveSequencer
  PROVE  IInv'
<1> USE DEF IInv, SaveSequencer, history
<1>1. /\ call' = [call EXCEPT !.pc = "done"]
      /\ call \in CallType
      /\ call.source \in Source
      /\ call.sequencer \in Nat
      /\ call.sequencer <= published[call.source]
  BY DEF TypeOK, CallType, AfterPublication
<1>2. TypeOK'
  <2>1. call' \in CallType
    BY <1>1 DEF CallType, Pc
  <2> QED
    BY <1>1, <2>1 DEF TypeOK
<1>3. InputsOK' /\ BeforePublication' /\ WhilePublishing' /\ WhileReconciling'
        /\ WhileCleaningUp'
  BY <1>1 DEF InputsOK, BeforePublication, WhilePublishing, WhileReconciling,
              WhileCleaningUp, CallType, Reading, Publishing
<1>4. AfterPublication'
  BY <1>1 DEF AfterPublication, PublicationIsExact, HoldsExactly, CallGeneration, CallType
<1>5. SequencerOK'
  BY <1>1 DEF SequencerOK, SavedSequencerWasPublished, TypeOK, CallType
<1>6. FactsWholeAtRest'
  BY UntouchedStep DEF Touched, Publishing
<1> QED
  BY <1>2, <1>3, <1>4, <1>5, <1>6

(* A failed save, with or without effect, leaves the facts in place. *)
LEMMA SaveSequencerFailsIInv ==
  ASSUME IInv, NEW reachedS3 \in BOOLEAN, SaveSequencerFails(reachedS3)
  PROVE  IInv'
<1> USE DEF IInv, SaveSequencerFails, history
<1>1. /\ call' = [call EXCEPT !.pc = "failed"]
      /\ call \in CallType
      /\ call.source \in Source
      /\ call.sequencer \in Nat
      /\ call.sequencer <= published[call.source]
  BY DEF TypeOK, CallType, AfterPublication, Catch
<1>2. TypeOK'
  <2>1. call' \in CallType
    BY <1>1 DEF CallType, Pc
  <2> QED
    BY <1>1, <2>1 DEF TypeOK
<1>3. InputsOK' /\ BeforePublication' /\ WhilePublishing' /\ WhileReconciling'
        /\ WhileCleaningUp'
  BY <1>1 DEF InputsOK, BeforePublication, WhilePublishing, WhileReconciling,
              WhileCleaningUp, CallType, Reading, Publishing
<1>4. AfterPublication'
  BY <1>1 DEF AfterPublication, PublicationIsExact, HoldsExactly, CallGeneration, CallType
<1>5. SequencerOK'
  BY <1>1 DEF SequencerOK, SavedSequencerWasPublished, TypeOK, CallType
<1>6. FactsWholeAtRest'
  BY UntouchedStep DEF Touched, Publishing
<1> QED
  BY <1>2, <1>3, <1>4, <1>5, <1>6

(* TryDeleteOutputsAsync removes one of the outputs it was given. *)
LEMMA CleanupDeleteIInv ==
  ASSUME IInv, NEW k \in Key, CleanupDelete(k)
  PROVE  IInv'
<1> USE DEF IInv, CleanupDelete, history
<1>1. /\ call' = [call EXCEPT !.todo = @ \ {k}]
      /\ call \in CallType
      /\ call.source \in Source
      /\ k \in KeysOf(call.source)
      /\ ~call.complete
  BY DEF TypeOK, CallType, WhileCleaningUp, BeforePublication, Publishing
<1>2. facts'[k] = NoObject /\ \A j \in Key \ {k} : facts'[j] = facts[j]
  BY DEF TypeOK
<1>3. TypeOK'
  <2>1. call' \in CallType
    BY <1>1 DEF CallType
  <2>2. facts' \in [Key -> Object]
    BY DEF TypeOK, Object
  <2> QED
    BY <2>1, <2>2 DEF TypeOK
<1>4. InputsOK' /\ BeforePublication' /\ WhilePublishing' /\ WhileReconciling'
  BY <1>1 DEF InputsOK, BeforePublication, WhilePublishing, WhileReconciling,
              CallType, Reading, Publishing
<1>5. WhileCleaningUp'
  BY <1>1, <1>2 DEF WhileCleaningUp, NothingBeside, CallType, KeysOf
<1>6. AfterPublication' /\ SequencerOK'
  BY <1>1 DEF AfterPublication, PublicationIsExact, SequencerOK,
              SavedSequencerWasPublished, CallType
<1>7. FactsWholeAtRest'
  <2>1. BeingPublished(call.source)' /\ call'.source = call.source
    BY <1>1 DEF BeingPublished, Touched, Publishing, CallType
  <2> QED
    BY <1>1, <2>1, TouchedStep DEF TypeOK
<1> QED
  BY <1>3, <1>4, <1>5, <1>6, <1>7

(* ... or fails to, and the clean-up no longer counts as complete. *)
LEMMA CleanupDeleteFailsIInv ==
  ASSUME IInv, NEW k \in Key, CleanupDeleteFails(k)
  PROVE  IInv'
<1> USE DEF IInv, CleanupDeleteFails, store, history
<1>1. /\ call' = [call EXCEPT !.todo = @ \ {k}, !.swept = FALSE]
      /\ call \in CallType
      /\ ~call.complete
  BY DEF TypeOK, BeforePublication, Publishing
<1>2. TypeOK'
  <2>1. call' \in CallType
    BY <1>1 DEF CallType
  <2> QED
    BY <2>1 DEF TypeOK
<1>3. InputsOK' /\ BeforePublication' /\ WhilePublishing' /\ WhileReconciling'
  BY <1>1 DEF InputsOK, BeforePublication, WhilePublishing, WhileReconciling,
              CallType, Reading, Publishing
<1>4. WhileCleaningUp'
  BY <1>1 DEF WhileCleaningUp, CallType
<1>5. AfterPublication' /\ SequencerOK'
  BY <1>1 DEF AfterPublication, PublicationIsExact, SequencerOK,
              SavedSequencerWasPublished, CallType
<1>6. FactsWholeAtRest'
  <2>1. BeingPublished(call.source)' /\ call'.source = call.source
    BY <1>1 DEF BeingPublished, Touched, Publishing, CallType
  <2> QED
    BY <2>1, TouchedStepWithoutEffect
<1> QED
  BY <1>2, <1>3, <1>4, <1>5, <1>6

(* A clean-up without a failed delete leaves no output of the source. *)
LEMMA FinishCleanupIInv ==
  ASSUME IInv, FinishCleanup
  PROVE  IInv'
<1> USE DEF IInv, FinishCleanup, store
<1>1. /\ call' = [call EXCEPT !.pc = "failed"]
      /\ call \in CallType
      /\ call.source \in Source
      /\ ~call.complete
  BY DEF TypeOK, CallType, BeforePublication, Publishing
<1>2. TypeOK'
  <2>1. call' \in CallType
    BY <1>1 DEF CallType, Pc
  <2>2. /\ standing' \in [Source -> Generation \cup {NoObject}]
        /\ damage' \in [Source -> SUBSET Damage]
    BY <1>1 DEF TypeOK, Settled, Damaged, Damage
  <2> QED
    BY <2>1, <2>2 DEF TypeOK
<1>3. InputsOK' /\ BeforePublication' /\ WhilePublishing' /\ WhileReconciling'
        /\ WhileCleaningUp'
  BY <1>1 DEF InputsOK, BeforePublication, WhilePublishing, WhileReconciling,
              WhileCleaningUp, CallType, Reading, Publishing
<1>4. AfterPublication' /\ SequencerOK'
  BY <1>1 DEF AfterPublication, PublicationIsExact, SequencerOK,
              SavedSequencerWasPublished, CallType
<1>5. FactsWholeAtRest'
  <2> SUFFICES ASSUME NEW t \in Source, damage'[t] = {}
               PROVE  HoldsObject(t, standing[t])'
    BY DEF FactsWholeAtRest
  <2>1. CASE t = call.source
    <3>1. call.swept
      BY <1>1, <2>1 DEF Damaged, TypeOK
    <3>2. standing'[t] = NoObject
      BY <1>1, <2>1, <3>1 DEF Settled, TypeOK
    <3>3. HoldsNone(t)
      BY <2>1, <3>1 DEF WhileCleaningUp, NothingBeside, HoldsNone
    <3> QED
      BY <3>2, <3>3 DEF HoldsObject, HoldsNone
  <2>2. CASE t # call.source
    <3>1. standing'[t] = standing[t] /\ damage'[t] = damage[t]
      BY <2>2 DEF Settled, Damaged, TypeOK
    <3>2. HoldsObject(t, standing[t])
      BY <2>2, <3>1 DEF FactsWholeAtRest, BeingPublished
    <3> QED
      BY <3>1, <3>2 DEF HoldsObject, HoldsNone, HoldsExactly
  <2> QED
    BY <2>1, <2>2
<1> QED
  BY <1>2, <1>3, <1>4, <1>5

(* Once the call is over its locals say nothing any more. *)
LEMMA NoCallIInv ==
  ASSUME IInv, call' = NoCall, UNCHANGED <<raw, targetList, store, published>>,
         standing' \in [Source -> Generation \cup {NoObject}],
         damage' \in [Source -> SUBSET Damage],
         FactsWholeAtRest'
  PROVE  IInv'
<1> USE DEF IInv, store
<1>1. TypeOK'
  BY NoCallType DEF TypeOK
<1>2. InputsOK' /\ BeforePublication' /\ WhilePublishing' /\ WhileReconciling'
        /\ WhileCleaningUp'
  BY NoCallType DEF InputsOK, BeforePublication, WhilePublishing, WhileReconciling,
                    WhileCleaningUp, Reading, Publishing
<1>3. AfterPublication' /\ SequencerOK'
  BY NoCallType DEF AfterPublication, PublicationIsExact, SequencerOK,
                    SavedSequencerWasPublished
<1> QED
  BY <1>1, <1>2, <1>3

(* Returning to the caller changes no facts. *)
LEMMA ReturnIInv ==
  ASSUME IInv, Return
  PROVE  IInv'
<1>1. FactsWholeAtRest'
  BY UntouchedStep DEF IInv, Return, store, history, Touched, Publishing
<1> QED
  BY <1>1, NoCallIInv DEF IInv, TypeOK, Return, history

(* Killing the function mid-publication is recorded as damage. *)
LEMMA CrashIInv ==
  ASSUME IInv, Crash
  PROVE  IInv'
<1> USE DEF Crash, store
<1>1. call.source \in Source
  BY DEF IInv, TypeOK, CallType
<1>2. /\ standing' \in [Source -> Generation \cup {NoObject}]
      /\ damage' \in [Source -> SUBSET Damage]
  BY <1>1 DEF IInv, TypeOK, Damaged, Damage
<1>3. FactsWholeAtRest'
  <2>1. CASE ~Touched
    BY <2>1, UntouchedStep DEF IInv
  <2>2. CASE Touched
    <3> SUFFICES ASSUME NEW t \in Source, damage'[t] = {}
                 PROVE  HoldsObject(t, standing[t])'
      BY DEF FactsWholeAtRest
    <3>1. t # call.source
      BY <2>2 DEF Damaged, IInv, TypeOK
    <3>2. standing'[t] = standing[t] /\ damage'[t] = damage[t]
      BY <2>2, <3>1 DEF Damaged, IInv, TypeOK
    <3>3. HoldsObject(t, standing[t])
      BY <3>1, <3>2 DEF IInv, FactsWholeAtRest, BeingPublished
    <3> QED
      BY <3>2, <3>3 DEF HoldsObject, HoldsNone, HoldsExactly
  <2> QED
    BY <2>1, <2>2
<1> QED
  BY <1>2, <1>3, NoCallIInv

(* A step of the rest of the world changes nothing. *)
LEMMA StutteringIInv ==
  ASSUME IInv, UNCHANGED vars
  PROVE  IInv'
BY DEF vars, IInv, TypeOK, InputsOK, BeforePublication, WhilePublishing,
       WhileReconciling, WhileCleaningUp, NothingBeside, AfterPublication,
       PublicationIsExact, CallGeneration, SequencerOK, SavedSequencerWasPublished,
       FactsWholeAtRest, BeingPublished, Touched, HoldsObject, HoldsNone, HoldsExactly

(* Every step of the environment, of ProcessCsvAsync and of the Lambda     *)
(* runtime preserves the invariant.                                        *)
LEMMA NextIInv ==
  ASSUME IInv, [Next]_vars
  PROVE  IInv'
<1>1. CASE Environment
  BY <1>1, UploadIInv, ChangeTargetListIInv, StartIInv DEF Environment
<1>2. CASE Read
  <2>1. RequestFails => IInv'
    BY FailedIInv DEF RequestFails
  <2> QED
    BY <1>2, <2>1, CheckSequencerIInv, ReadReportIInv, TransformReportIInv,
       ListExistingIInv DEF Read
<1>3. CASE Publish
  BY <1>3, PutOutputIInv, PutOutputFailsIInv, FinishPutsIInv, DeleteStaleIInv,
     DeleteStaleFailsIInv, FinishPublicationIInv, SaveSequencerIInv,
     SaveSequencerFailsIInv DEF Publish
<1>4. CASE Cleanup
  BY <1>4, CleanupDeleteIInv, CleanupDeleteFailsIInv, FinishCleanupIInv DEF Cleanup
<1>5. CASE Return
  BY <1>5, ReturnIInv
<1>6. CASE Crash
  BY <1>6, CrashIInv
<1>7. CASE UNCHANGED vars
  BY <1>7, StutteringIInv
<1> QED
  BY <1>1, <1>2, <1>3, <1>4, <1>5, <1>6, <1>7 DEF Next, ProcessCsv

(* The inductive invariant holds in every reachable state. *)
THEOREM InvariantHolds == Spec => []IInv
<1>1. Init => IInv
  BY InitIInv
<1>2. IInv /\ [Next]_vars => IInv'
  BY NextIInv
<1> QED
  BY <1>1, <1>2, PTL DEF Spec

(* The variables, the locals of the call included, keep their types. *)
THEOREM TypeCorrect == Spec => []TypeOK
<1>1. IInv => TypeOK
  BY DEF IInv
<1> QED
  BY <1>1, InvariantHolds, PTL

(* ProcessCsvAsync fails closed: whenever no publication of a source is    *)
(* under way and nothing prevented its clean-up, a query on the source     *)
(* sees one complete generation or none.                                   *)
THEOREM FactsAreWholeAtRest == Spec => []FactsWholeAtRest
<1>1. IInv => FactsWholeAtRest
  BY DEF IInv
<1> QED
  BY <1>1, InvariantHolds, PTL

(* From publicationComplete = true to the end of the call the source's     *)
(* facts are exactly the generation just prepared, whatever was there.     *)
THEOREM CompletePublicationIsExact == Spec => []PublicationIsExact
<1>1. IInv => PublicationIsExact
  BY DEF IInv, AfterPublication
<1> QED
  BY <1>1, InvariantHolds, PTL

(* SaveSequencerAsync stores no sequencer whose event, or a newer one, was *)
(* not published completely.                                               *)
THEOREM SavedSequencersArePublished == Spec => []SavedSequencerWasPublished
<1>1. IInv => SavedSequencerWasPublished
  BY DEF IInv, SequencerOK
<1> QED
  BY <1>1, InvariantHolds, PTL

(* SaveSequencerAsync never moves a source's sequencer back.               *)
THEOREM SequencersNeverDecrease == Spec => SequencerNeverDecreases
<1>1. ASSUME IInv, [Next]_vars
      PROVE  \A s \in Source : seqState'[s] >= seqState[s]
  <2>1. seqState \in [Source -> Nat] /\ call \in CallType
    BY <1>1 DEF IInv, TypeOK
  <2>2. \/ seqState' = seqState
        \/ /\ call.pc = "save"
           /\ seqState' = [seqState EXCEPT ![call.source] = call.sequencer]
    BY <1>1 DEF Next, Environment, Upload, ChangeTargetList, StartLive, StartBackfill,
                ProcessCsv, Read, CheckSequencer, ReadReport, TransformReport,
                ListExisting, RequestFails, Publish, PutOutput, PutOutputFails,
                FinishPuts, DeleteStale, DeleteStaleFails, FinishPublication,
                SaveSequencer, SaveSequencerFails, Cleanup, CleanupDelete,
                CleanupDeleteFails, FinishCleanup, Return, Crash, store, vars
  <2>3. CASE seqState' = seqState
    BY <2>1, <2>3
  <2>4. CASE /\ call.pc = "save"
             /\ seqState' = [seqState EXCEPT ![call.source] = call.sequencer]
    <3>1. call.sequencer = None \/ seqState[call.source] < call.sequencer
      BY <1>1, <2>4 DEF IInv, SequencerOK
    <3>2. call.sequencer # None
      BY <1>1, <2>4 DEF IInv, AfterPublication
    <3> QED
      BY <2>1, <2>4, <3>1, <3>2 DEF CallType
  <2> QED
    BY <2>2, <2>3, <2>4
<1> QED
  BY <1>1, InvariantHolds, PTL DEF Spec, SequencerNeverDecreases

-----------------------------------------------------------------------------
(***************************************************************************)
(* The refinement: what IngestFunction assumes of ProcessCsvAsync is what  *)
(* ProcessCsvAsync does.                                                   *)
(*                                                                         *)
(* Each step of IngestService is shown to be one step of FactStore, or     *)
(* none, seen through AbstractView and AbstractOp.  The facts of a source  *)
(* change only between two states that both are Partial, so it suffices    *)
(* to follow standing, damage and the phase of the call.                   *)
(***************************************************************************)
View == [s \in Source |-> AbstractView(s)]

(* AbstractPhase without CASE, before and after a step. *)
LEMMA Phases ==
  ASSUME call.pc \in Pc, call'.pc \in Pc
  PROVE  /\ call.pc \in {"check", "read"} => AbstractPhase = "called"
         /\ call.pc = "targets" => AbstractPhase = "read"
         /\ call.pc = "save" => AbstractPhase = "saving"
         /\ call.pc \in {"list"} \cup Publishing =>
              AbstractPhase = IF Touched THEN "publishing" ELSE "ready"
         /\ call.pc \in {"idle", "done", "failed"} => AbstractPhase = call.pc
         /\ call'.pc \in {"check", "read"} => AbstractPhase' = "called"
         /\ call'.pc = "targets" => AbstractPhase' = "read"
         /\ call'.pc = "save" => AbstractPhase' = "saving"
         /\ call'.pc \in {"list"} \cup Publishing =>
              AbstractPhase' = IF Touched' THEN "publishing" ELSE "ready"
         /\ call'.pc \in {"idle", "done", "failed"} => AbstractPhase' = call'.pc
BY DEF AbstractPhase, Pc, Reading, Publishing

(* A step that neither enters nor leaves a publication changes no facts    *)
(* FactStore sees.                                                         *)
LEMMA SameView ==
  ASSUME UNCHANGED <<standing, damage>>,
         \A s \in Source : BeingPublished(s)' <=> BeingPublished(s)
  PROVE  View' = View
BY DEF View, AbstractView

(* A step of a call changes the view of the call's source only. *)
LEMMA OwnView ==
  ASSUME call'.source = call.source, call.source \in Source,
         \A t \in Source \ {call.source} :
           standing'[t] = standing[t] /\ damage'[t] = damage[t]
  PROVE  View' = [View EXCEPT ![call.source] = AbstractView(call.source)']
<1>1. \A t \in Source \ {call.source} : AbstractView(t)' = AbstractView(t)
  BY DEF AbstractView, BeingPublished
<1> QED
  BY <1>1 DEF View

(* The fields of the call FactStore sees after it has read something. *)
LEMMA OpUpdates ==
  ASSUME NEW phase, NEW version, NEW targets
  PROVE  /\ [AbstractOp EXCEPT !.phase = phase, !.read = version] =
              [phase |-> phase, source |-> call.source, version |-> call.version,
               sequencer |-> call.sequencer, read |-> version, targets |-> call.targets]
         /\ [AbstractOp EXCEPT !.phase = phase, !.targets = targets] =
              [phase |-> phase, source |-> call.source, version |-> call.version,
               sequencer |-> call.sequencer, read |-> call.read, targets |-> targets]
<1>1. PICK op : op = [AbstractOp EXCEPT !.phase = phase]
  OBVIOUS
<1>2. op = [phase |-> phase, source |-> call.source, version |-> call.version,
            sequencer |-> call.sequencer, read |-> call.read, targets |-> call.targets]
  BY <1>1 DEF AbstractOp
<1>3. /\ [op EXCEPT !.read = version] =
           [phase |-> phase, source |-> call.source, version |-> call.version,
            sequencer |-> call.sequencer, read |-> version, targets |-> call.targets]
      /\ [op EXCEPT !.targets = targets] =
           [phase |-> phase, source |-> call.source, version |-> call.version,
            sequencer |-> call.sequencer, read |-> call.read, targets |-> targets]
  BY <1>2
<1> QED
  BY <1>1, <1>3

LEMMA UploadImplements ==
  ASSUME IInv, NEW s \in Source, Upload(s)
  PROVE  Abstract!Upload(s)
<1>1. View' = View /\ AbstractOp' = AbstractOp
  BY SameView DEF Upload, store, history, BeingPublished, Touched, AbstractOp, AbstractPhase
<1> QED
  BY <1>1 DEF Upload, store, history, Abstract!Upload, View

LEMMA ChangeTargetListImplements ==
  ASSUME IInv, NEW targets \in TargetLists, ChangeTargetList(targets)
  PROVE  Abstract!ChangeTargetList(targets)
<1>1. View' = View /\ AbstractOp' = AbstractOp
  BY SameView DEF ChangeTargetList, store, history, BeingPublished, Touched, AbstractOp,
                  AbstractPhase
<1> QED
  BY <1>1 DEF ChangeTargetList, store, history, Abstract!ChangeTargetList, View

(* A call starts with nothing read, live or from a backfill. *)
LEMMA StartImplements ==
  ASSUME IInv, NEW s \in Source, NEW v, NEW q, Idle, call' = NewCall(s, v, q),
         UNCHANGED <<raw, targetList, store, history>>
  PROVE  Abstract!Call(s, v, q)
<1>1. ~Touched /\ ~Touched' /\ call.pc \in Pc /\ call'.pc = "check" /\ call'.pc \in Pc
  BY DEF Idle, NewCall, Touched, Publishing, Pc, Reading
<1>2. View' = View
  BY <1>1, SameView DEF BeingPublished, history
<1>3. AbstractPhase = "idle" /\ AbstractPhase' = "called"
  BY <1>1, Phases DEF Idle
<1>4. AbstractOp.phase = "idle" /\ AbstractOp' = Abstract!NewOp(s, v, q)
  BY <1>3 DEF AbstractOp, NewCall, Abstract!NewOp, None, Abstract!None
<1> QED
  BY <1>2, <1>4 DEF store, Abstract!Call, View
(* A stale event returns without a step; any other is still unread.        *)
LEMMA CheckSequencerImplements ==
  ASSUME IInv, CheckSequencer
  PROVE  Abstract!Skip \/ UNCHANGED Abstract!storeVars
<1>1. /\ call \in CallType /\ call.source \in Source /\ seqState[call.source] \in Nat
      /\ call.pc = "check"
      /\ call' = [call EXCEPT !.pc = IF IsStale THEN "done" ELSE "read"]
  BY DEF IInv, TypeOK, CallType, CheckSequencer
<1>2. ~Touched /\ ~Touched'
  BY <1>1 DEF Touched, Publishing, CallType
<1>3. View' = View
  BY <1>2, SameView DEF BeingPublished, CheckSequencer, history
<1>4. call.pc \in Pc /\ call'.pc \in Pc
  BY <1>1 DEF CallType, Pc, Reading
<1>5. AbstractPhase = "called" /\ AbstractPhase' = IF IsStale THEN "done" ELSE "called"
  BY <1>1, <1>4, Phases DEF CallType
<1>6. AbstractOp.phase = "called" /\ AbstractOp' = [AbstractOp EXCEPT !.phase = AbstractPhase']
  BY <1>1, <1>5 DEF AbstractOp, CallType
<1>7. IsStale => Abstract!IsStale
  BY <1>1 DEF IsStale, Abstract!IsStale, AbstractOp, None, Abstract!None
<1>8. ~IsStale => AbstractOp' = AbstractOp
  BY <1>5, <1>6 DEF AbstractOp
<1> QED
  BY <1>3, <1>5, <1>6, <1>7, <1>8
     DEF CheckSequencer, store, history, View, Abstract!Skip, Abstract!storeVars

LEMMA ReadReportImplements ==
  ASSUME IInv, ReadReport
  PROVE  Abstract!ReadVersion
<1>1. /\ call \in CallType /\ call.source \in Source /\ seqState[call.source] \in Nat
      /\ call.pc = "read"
      /\ call' = [call EXCEPT !.pc = "targets", !.read = call'.read]
      /\ call'.read = IF call.version = None THEN raw[call.source] ELSE call.version
  BY DEF IInv, TypeOK, CallType, ReadReport
<1>2. ~Touched /\ ~Touched'
  BY <1>1 DEF Touched, Publishing, CallType
<1>3. View' = View
  BY <1>2, SameView DEF BeingPublished, ReadReport, history
<1>4. call.pc \in Pc /\ call'.pc \in Pc
  BY <1>1 DEF CallType, Pc, Reading
<1>5. AbstractPhase = "called" /\ AbstractPhase' = "read"
  BY <1>1, <1>4, Phases DEF CallType
<1>6. /\ AbstractOp.phase = "called"
      /\ AbstractOp' = [AbstractOp EXCEPT !.phase = "read", !.read = call'.read]
  <2>1. /\ call'.source = call.source
        /\ call'.version = call.version
        /\ call'.sequencer = call.sequencer
        /\ call'.targets = call.targets
    BY <1>1 DEF CallType
  <2>2. AbstractOp' = [phase |-> "read", source |-> call.source, version |-> call.version,
                       sequencer |-> call.sequencer, read |-> call'.read,
                       targets |-> call.targets]
    BY <1>5, <2>1 DEF AbstractOp
  <2>3. AbstractOp.phase = "called"
    BY <1>5 DEF AbstractOp
  <2> QED
    BY <2>2, <2>3, OpUpdates
<1>7. ~Abstract!IsStale
  BY <1>1 DEF IInv, SequencerOK, Abstract!IsStale, AbstractOp, None, Abstract!None, CallType
<1>8. call'.read = IF AbstractOp.version = Abstract!None THEN raw[AbstractOp.source]
                                                        ELSE AbstractOp.version
  BY <1>1 DEF AbstractOp, None, Abstract!None
<1> QED
  BY <1>3, <1>6, <1>7, <1>8 DEF ReadReport, store, history, View, Abstract!ReadVersion

(* An exception before the first PUT has touched nothing. *)
LEMMA FailedImplements ==
  ASSUME IInv, call.pc \in Reading, call' = Catch(call),
         UNCHANGED <<raw, targetList, store, history>>
  PROVE  Abstract!FailUntouched
<1>1. call \in CallType /\ call' = [call EXCEPT !.pc = "failed"]
  BY DEF IInv, TypeOK, BeforePublication, Catch
<1>2. ~Touched /\ ~Touched'
  BY <1>1 DEF Touched, Publishing, Reading, CallType
<1>3. View' = View
  BY <1>2, SameView DEF BeingPublished, history
<1>4. call.pc \in Pc /\ call'.pc \in Pc /\ call'.pc = "failed"
  BY <1>1 DEF CallType, Pc, Reading
<1>5. AbstractPhase \in {"called", "read", "ready"} /\ AbstractPhase' = "failed"
  BY <1>2, <1>4, Phases DEF Reading
<1>6. AbstractOp' = [AbstractOp EXCEPT !.phase = "failed"]
  BY <1>1, <1>5 DEF AbstractOp, CallType
<1> QED
  BY <1>3, <1>5, <1>6 DEF store, View, AbstractOp, Abstract!FailUntouched

LEMMA TransformReportImplements ==
  ASSUME IInv, TransformReport
  PROVE  Abstract!ReadTargetList \/ Abstract!FailUntouched
<1>1. CASE TransformFails(call.source, call.read, targetList)
  BY <1>1, FailedImplements DEF TransformReport, Reading
<1>2. CASE ~TransformFails(call.source, call.read, targetList)
  <2>1. /\ call \in CallType
        /\ call.pc = "targets"
        /\ call' = [call EXCEPT !.pc = "list", !.targets = targetList,
                      !.prepared = PreparedKeys(call.source, call.read, targetList)]
    BY <1>2 DEF IInv, TypeOK, TransformReport
  <2>2. ~Touched /\ ~Touched'
    BY <2>1 DEF Touched, Publishing, CallType
  <2>3. View' = View
    BY <2>2, SameView DEF BeingPublished, TransformReport, history
  <2>4. call.pc \in Pc /\ call'.pc \in Pc /\ call'.pc = "list"
    BY <2>1 DEF CallType, Pc, Reading
  <2>5. AbstractPhase = "read" /\ AbstractPhase' = "ready"
    BY <2>1, <2>2, <2>4, Phases
  <2>6. /\ AbstractOp.phase = "read"
        /\ AbstractOp' = [AbstractOp EXCEPT !.phase = "ready", !.targets = targetList]
    <3>1. /\ call'.source = call.source
          /\ call'.version = call.version
          /\ call'.sequencer = call.sequencer
          /\ call'.read = call.read
          /\ call'.targets = targetList
      BY <2>1 DEF CallType
    <3>2. AbstractOp' = [phase |-> "ready", source |-> call.source, version |-> call.version,
                         sequencer |-> call.sequencer, read |-> call.read,
                         targets |-> targetList]
      BY <2>5, <3>1 DEF AbstractOp
    <3>3. AbstractOp.phase = "read"
      BY <2>5 DEF AbstractOp
    <3> QED
      BY <3>2, <3>3, OpUpdates
  <2> QED
    BY <2>3, <2>6 DEF TransformReport, store, history, View, Abstract!ReadTargetList
<1> QED
  BY <1>1, <1>2

(* Listing changes nothing FactStore sees. *)
LEMMA ListExistingImplements ==
  ASSUME IInv, ListExisting
  PROVE  UNCHANGED Abstract!storeVars
<1>1. /\ call \in CallType /\ call.pc = "list" /\ call.attempted = {}
      /\ call' = [call EXCEPT !.pc = "publish", !.todo = call.prepared,
                    !.existing = {k \in KeysOf(call.source) : facts[k] # NoObject}]
  BY DEF IInv, TypeOK, BeforePublication, Reading, ListExisting
<1>2. ~Touched /\ ~Touched'
  BY <1>1 DEF Touched, Publishing, CallType
<1>3. View' = View
  BY <1>2, SameView DEF BeingPublished, ListExisting, history
<1>4. call.pc \in Pc /\ call'.pc = "publish" /\ call'.pc \in Pc
  BY <1>1 DEF CallType, Pc, Publishing
<1>5. AbstractPhase' = AbstractPhase
  BY <1>1, <1>2, <1>4, Phases DEF Publishing
<1>6. AbstractOp' = AbstractOp
  BY <1>1, <1>5 DEF AbstractOp, CallType
<1> QED
  BY <1>3, <1>6 DEF ListExisting, store, history, View, Abstract!storeVars
-----------------------------------------------------------------------------
(* What FactStore sees of a call besides its phase. *)
SameIdentity ==
  /\ call'.source = call.source
  /\ call'.version = call.version
  /\ call'.sequencer = call.sequencer
  /\ call'.read = call.read
  /\ call'.targets = call.targets

(* The first step that may change an object makes the source Partial, and  *)
(* the following ones leave it so.                                         *)
LEMMA StillPublishing ==
  ASSUME IInv, call.pc \in Publishing, call'.pc \in Publishing, Touched', SameIdentity,
         UNCHANGED <<raw, targetList, seqState, standing, damage>>
  PROVE  Abstract!Touch \/ UNCHANGED Abstract!storeVars
<1>1. call.source \in Source /\ call.pc \in Pc /\ call'.pc \in Pc
  BY DEF IInv, TypeOK, CallType, Pc
<1>2. AbstractPhase' = "publishing"
  BY <1>1, Phases
<1>3. CASE Touched
  <2>1. AbstractPhase = "publishing"
    BY <1>1, <1>3, Phases
  <2>2. View' = View
    BY <1>3, SameView DEF BeingPublished, SameIdentity
  <2> QED
    BY <1>2, <2>1, <2>2 DEF SameIdentity, AbstractOp, View, Abstract!storeVars
<1>4. CASE ~Touched
  <2>1. AbstractPhase = "ready"
    BY <1>1, <1>4, Phases
  <2>2. AbstractView(call.source)' = Partial
    BY DEF AbstractView, BeingPublished, SameIdentity
  <2>3. View' = [View EXCEPT ![call.source] = Partial]
    BY <1>1, <2>2, OwnView DEF SameIdentity
  <2>4. /\ AbstractOp.phase = "ready"
        /\ AbstractOp.source = call.source
        /\ AbstractOp' = [AbstractOp EXCEPT !.phase = "publishing"]
    BY <1>2, <2>1 DEF SameIdentity, AbstractOp
  <2> QED
    BY <2>3, <2>4 DEF View, Abstract!Touch
<1> QED
  BY <1>3, <1>4

LEMMA PutOutputImplements ==
  ASSUME IInv, NEW k \in Key,
         \/ PutOutput(k)
         \/ \E reachedS3 \in BOOLEAN : PutOutputFails(k, reachedS3)
  PROVE  Abstract!Touch \/ UNCHANGED Abstract!storeVars
<1>1. call \in CallType /\ call.pc = "publish" /\ ~call.complete
  BY DEF IInv, TypeOK, BeforePublication, Publishing, PutOutput, PutOutputFails
<1>2. call'.attempted = call.attempted \cup {k} /\ call'.pc \in {"publish", "cleanup"}
  BY <1>1 DEF PutOutput, PutOutputFails, Attempting, Catch, CallType
<1>3. SameIdentity
  BY <1>1 DEF PutOutput, PutOutputFails, Attempting, Catch, CallType, SameIdentity
<1>4. Touched'
  BY <1>2 DEF Touched, Publishing
<1> QED
  BY <1>1, <1>2, <1>3, <1>4, StillPublishing
     DEF PutOutput, PutOutputFails, history, Publishing

LEMMA FinishPutsImplements ==
  ASSUME IInv, FinishPuts
  PROVE  Abstract!Touch \/ UNCHANGED Abstract!storeVars
<1>1. /\ call \in CallType /\ call.pc = "publish"
      /\ call' = [call EXCEPT !.pc = "reconcile", !.todo = call.existing \ call.prepared]
  BY DEF IInv, TypeOK, FinishPuts
<1>2. call'.pc = "reconcile" /\ SameIdentity
  BY <1>1 DEF CallType, SameIdentity
<1>3. Touched'
  BY <1>2 DEF Touched, Publishing
<1> QED
  BY <1>1, <1>2, <1>3, StillPublishing DEF FinishPuts, store, history, Publishing

LEMMA DeleteImplements ==
  ASSUME IInv, NEW k \in Key, DeleteStale(k) \/ CleanupDelete(k) \/ CleanupDeleteFails(k)
  PROVE  Abstract!Touch \/ UNCHANGED Abstract!storeVars
<1>1. /\ call \in CallType /\ call.pc \in {"reconcile", "cleanup"}
      /\ \/ call' = [call EXCEPT !.todo = @ \ {k}]
         \/ call' = [call EXCEPT !.todo = @ \ {k}, !.swept = FALSE]
  BY DEF IInv, TypeOK, DeleteStale, CleanupDelete, CleanupDeleteFails
<1>2. call'.pc = call.pc /\ SameIdentity
  BY <1>1 DEF CallType, SameIdentity
<1>3. Touched'
  BY <1>1, <1>2 DEF Touched, Publishing
<1> QED
  BY <1>1, <1>2, <1>3, StillPublishing
     DEF DeleteStale, CleanupDelete, CleanupDeleteFails, store, history, Publishing
(* An exception ends the publication without a clean-up that succeeded: the *)
(* source stays Partial.                                                    *)
LEMMA LeftPartial ==
  ASSUME IInv, call.pc \in Publishing, Touched, call'.pc = "failed", SameIdentity,
         Damaged("reconcile") \/ Damaged("unswept"),
         UNCHANGED <<raw, targetList, seqState>>
  PROVE  Abstract!FailPartial
<1>1. /\ call.source \in Source /\ call.pc \in Pc /\ call'.pc \in Pc
      /\ standing \in [Source -> Generation \cup {NoObject}]
      /\ damage \in [Source -> SUBSET Damage]
  BY DEF IInv, TypeOK, CallType, Pc
<1>2. /\ \A t \in Source \ {call.source} :
           standing'[t] = standing[t] /\ damage'[t] = damage[t]
      /\ damage'[call.source] # {}
  BY <1>1 DEF Damaged
<1>3. AbstractView(call.source) = Partial /\ AbstractView(call.source)' = Partial
  BY <1>2 DEF AbstractView, BeingPublished, SameIdentity
<1>4. View' = View
  BY <1>1, <1>2, <1>3, OwnView DEF SameIdentity, View
<1>5. AbstractPhase = "publishing" /\ AbstractPhase' = "failed"
  BY <1>1, Phases
<1>6. AbstractOp.phase = "publishing" /\ AbstractOp' = [AbstractOp EXCEPT !.phase = "failed"]
  BY <1>5 DEF SameIdentity, AbstractOp
<1> QED
  BY <1>4, <1>6 DEF View, Abstract!FailPartial

(* An obsolete output that could not be deleted.  The catch block cleans up *)
(* only if something had been published.                                    *)
LEMMA DeleteStaleFailsImplements ==
  ASSUME IInv, NEW k \in Key, NEW reachedS3 \in BOOLEAN, DeleteStaleFails(k, reachedS3)
  PROVE  Abstract!FailPartial \/ Abstract!Touch \/ UNCHANGED Abstract!storeVars
<1>1. /\ call \in CallType /\ call.pc = "reconcile" /\ ~call.complete
      /\ call' = Catch(call)
      /\ UNCHANGED <<raw, targetList, seqState>>
  BY DEF IInv, TypeOK, BeforePublication, Publishing, DeleteStaleFails
<1>2. SameIdentity /\ Touched
  BY <1>1 DEF Catch, CallType, SameIdentity, Touched, Publishing
<1>3. CASE call.attempted = {}
  <2>1. call'.pc = "failed" /\ Damaged("reconcile")
    BY <1>1, <1>3 DEF Catch, CallType, DeleteStaleFails
  <2> QED
    BY <1>1, <1>2, <2>1, LeftPartial DEF Publishing
<1>4. CASE call.attempted # {}
  <2>1. call'.pc = "cleanup"
    BY <1>1, <1>4 DEF Catch, CallType
  <2>2. Touched'
    BY <2>1 DEF Touched, Publishing
  <2> QED
    BY <1>1, <1>2, <1>4, <2>1, <2>2, StillPublishing DEF DeleteStaleFails, Publishing
<1> QED
  BY <1>3, <1>4

LEMMA FinishCleanupImplements ==
  ASSUME IInv, FinishCleanup
  PROVE  Abstract!FailClosed \/ Abstract!FailPartial
<1>1. /\ call \in CallType /\ call.source \in Source /\ call.pc = "cleanup"
      /\ call' = [call EXCEPT !.pc = "failed"]
      /\ call.pc \in Pc
  BY DEF IInv, TypeOK, CallType, FinishCleanup
<1>2. /\ SameIdentity /\ Touched /\ ~Touched' /\ call'.pc = "failed" /\ call'.pc \in Pc
  BY <1>1 DEF CallType, SameIdentity, Touched, Publishing, Pc
<1>3. CASE ~call.swept
  BY <1>1, <1>2, <1>3, LeftPartial DEF FinishCleanup, store, Publishing
<1>4. CASE call.swept
  <2>1. /\ \A t \in Source \ {call.source} :
             standing'[t] = standing[t] /\ damage'[t] = damage[t]
        /\ damage'[call.source] = {} /\ standing'[call.source] = NoObject
    BY <1>1, <1>4 DEF FinishCleanup, Settled, IInv, TypeOK
  <2>2. AbstractView(call.source)' = NoObject
    BY <1>2, <2>1 DEF AbstractView, BeingPublished, SameIdentity
  <2>3. View' = [View EXCEPT ![call.source] = NoObject]
    BY <1>1, <1>2, <2>1, <2>2, OwnView DEF SameIdentity
  <2>4. AbstractPhase = "publishing" /\ AbstractPhase' = "failed"
    BY <1>1, <1>2, Phases DEF Publishing
  <2>5. /\ AbstractOp.phase = "publishing"
        /\ AbstractOp.source = call.source
        /\ AbstractOp' = [AbstractOp EXCEPT !.phase = "failed"]
    BY <1>2, <2>4 DEF SameIdentity, AbstractOp
  <2> QED
    BY <2>3, <2>5 DEF FinishCleanup, store, View, Abstract!FailClosed
<1> QED
  BY <1>3, <1>4

(* publicationComplete = true: the source is exactly what was read. *)
LEMMA FinishPublicationImplements ==
  ASSUME IInv, FinishPublication
  PROVE  Abstract!Complete
<1>1. /\ call \in CallType /\ call.source \in Source /\ call.pc = "reconcile"
      /\ call' = [call EXCEPT !.complete = TRUE,
                              !.pc = IF call.sequencer # None THEN "save" ELSE "done"]
      /\ call.pc \in Pc
  BY DEF IInv, TypeOK, CallType, FinishPublication
<1>2. /\ SameIdentity /\ Touched /\ ~Touched' /\ call'.pc \in Pc
      /\ call'.pc = IF call.sequencer # None THEN "save" ELSE "done"
  BY <1>1 DEF CallType, SameIdentity, Touched, Publishing, Pc
<1>3. /\ \A t \in Source \ {call.source} :
           standing'[t] = standing[t] /\ damage'[t] = damage[t]
      /\ damage'[call.source] = {} /\ standing'[call.source] = CallGeneration
  BY <1>1 DEF FinishPublication, Settled, IInv, TypeOK
<1>4. CallGeneration # NoObject
  BY <1>1, ObjectAssumption DEF CallGeneration, Generation, CallType
<1>5. AbstractView(call.source)' = [version |-> call.read, targets |-> call.targets]
  BY <1>2, <1>3, <1>4 DEF AbstractView, BeingPublished, SameIdentity, CallGeneration
<1>6. View' = [View EXCEPT ![call.source] = [version |-> call.read, targets |-> call.targets]]
  BY <1>1, <1>2, <1>3, <1>5, OwnView DEF SameIdentity
<1>7. /\ AbstractPhase = "publishing"
      /\ AbstractPhase' = IF call.sequencer # None THEN "saving" ELSE "done"
  BY <1>1, <1>2, Phases DEF Publishing
<1>8. /\ AbstractOp.phase = "publishing"
      /\ AbstractOp.source = call.source
      /\ AbstractOp.sequencer = call.sequencer
      /\ AbstractOp.read = call.read
      /\ AbstractOp.targets = call.targets
      /\ AbstractOp' = [AbstractOp EXCEPT !.phase = AbstractPhase']
  BY <1>2, <1>7 DEF SameIdentity, AbstractOp
<1> QED
  BY <1>6, <1>7, <1>8
     DEF FinishPublication, store, View, None, Abstract!None, Abstract!Complete

LEMMA SaveSequencerImplements ==
  ASSUME IInv, SaveSequencer \/ \E reachedS3 \in BOOLEAN : SaveSequencerFails(reachedS3)
  PROVE  Abstract!Save \/ \E saved \in BOOLEAN : Abstract!SaveFails(saved)
<1>1. /\ call \in CallType /\ call.pc = "save" /\ call.complete
      /\ call.pc \in Pc
  BY DEF IInv, TypeOK, CallType, AfterPublication, SaveSequencer, SaveSequencerFails
<1>2. /\ SameIdentity /\ call'.pc = IF SaveSequencer THEN "done" ELSE "failed"
  BY <1>1 DEF SaveSequencer, SaveSequencerFails, Catch, CallType, SameIdentity
<1>3. ~Touched /\ ~Touched' /\ call'.pc \in Pc
  BY <1>1, <1>2 DEF Touched, Publishing, Pc
<1>4. View' = View
  BY <1>3, SameView DEF BeingPublished, SaveSequencer, SaveSequencerFails, history
<1>5. AbstractPhase = "saving" /\ AbstractPhase' = IF SaveSequencer THEN "done" ELSE "failed"
  BY <1>1, <1>2, <1>3, Phases
<1>6. /\ AbstractOp.phase = "saving"
      /\ AbstractOp.source = call.source
      /\ AbstractOp.sequencer = call.sequencer
      /\ AbstractOp' = [AbstractOp EXCEPT !.phase = AbstractPhase']
  BY <1>2, <1>5 DEF SameIdentity, AbstractOp
<1>7. CASE SaveSequencer
  BY <1>4, <1>5, <1>6, <1>7 DEF SaveSequencer, View, Abstract!Save
<1>8. ASSUME NEW reachedS3 \in BOOLEAN, SaveSequencerFails(reachedS3), ~SaveSequencer
      PROVE  Abstract!SaveFails(reachedS3)
  BY <1>4, <1>5, <1>6, <1>8 DEF SaveSequencerFails, View, Abstract!SaveFails
<1> QED
  BY <1>7, <1>8
-----------------------------------------------------------------------------
(* Between two calls FactStore sees the same value as ProcessCsvAsync. *)
LEMMA NoOpFields ==
  Abstract!NoOp = [phase |-> "idle", source |-> NoCall.source, version |-> NoCall.version,
                   sequencer |-> NoCall.sequencer, read |-> NoCall.read,
                   targets |-> NoCall.targets]
<1>1. PICK s : s = CHOOSE t \in Source : TRUE
  OBVIOUS
<1>2. Abstract!NoOp = [Abstract!NewOp(s, 0, 0) EXCEPT !.phase = "idle"]
  BY <1>1 DEF Abstract!NoOp, Abstract!None
<1>3. NoCall = [NewCall(s, 0, 0) EXCEPT !.pc = "idle"]
  BY <1>1 DEF NoCall, None
<1>4. /\ NoCall.source = s
      /\ NoCall.version = 0
      /\ NoCall.sequencer = 0
      /\ NoCall.read = 0
      /\ NoCall.targets = {}
  BY <1>3 DEF NewCall, None
<1> QED
  BY <1>2, <1>4 DEF Abstract!NewOp, Abstract!None

LEMMA NoOpIsNoCall ==
  ASSUME call' = NoCall, call.pc \in Pc
  PROVE  AbstractOp' = Abstract!NoOp
<1>1. call'.pc = "idle" /\ call'.pc \in Pc
  BY NoCallType DEF Pc
<1>2. AbstractPhase' = "idle"
  BY <1>1, Phases
<1> QED
  BY <1>2, NoOpFields DEF AbstractOp

LEMMA ReturnImplements ==
  ASSUME IInv, Return
  PROVE  Abstract!Return
<1>1. /\ call.pc \in {"done", "failed"} /\ call.pc \in Pc
      /\ call' = NoCall
  BY DEF Return, Pc
<1>2. ~Touched /\ ~Touched' /\ call'.pc = "idle" /\ call'.pc \in Pc
  BY <1>1, NoCallType DEF Touched, Publishing, Pc
<1>3. View' = View
  BY <1>2, SameView DEF BeingPublished, Return, history
<1>4. AbstractPhase = call.pc
  BY <1>1, <1>2, Phases
<1> QED
  BY <1>1, <1>3, <1>4, NoOpIsNoCall DEF Return, store, View, AbstractOp, Abstract!Return

(* A killed publication leaves the source Partial. *)
LEMMA CrashImplements ==
  ASSUME IInv, Crash
  PROVE  Abstract!Crash
<1>1. /\ call.pc # "idle" /\ call.pc \in Pc /\ call.source \in Source
      /\ call' = NoCall
      /\ damage \in [Source -> SUBSET Damage]
      /\ standing \in [Source -> Generation \cup {NoObject}]
  BY DEF Crash, Idle, IInv, TypeOK, CallType
<1>2. ~Touched' /\ call'.pc = "idle" /\ call'.pc \in Pc
  BY <1>1, NoCallType DEF Touched, Publishing, Pc
<1>3. View' = View
  <2>1. CASE ~Touched
    BY <1>2, <2>1, SameView DEF BeingPublished, Crash
  <2>2. CASE Touched
    <3>1. /\ \A t \in Source \ {call.source} :
               standing'[t] = standing[t] /\ damage'[t] = damage[t]
          /\ damage'[call.source] # {}
      BY <1>1, <2>2 DEF Crash, Damaged
    <3>2. \A t \in Source : AbstractView(t)' = AbstractView(t)
      BY <1>2, <2>2, <3>1 DEF AbstractView, BeingPublished
    <3> QED
      BY <3>2 DEF View
  <2> QED
    BY <2>1, <2>2
<1>4. AbstractPhase # "idle"
  BY <1>1, <1>2, Phases DEF Pc, Reading, Publishing
<1> QED
  BY <1>1, <1>3, <1>4, NoOpIsNoCall DEF Crash, store, View, AbstractOp, Abstract!Crash

(* A fresh deployment, whatever legacy outputs it finds. *)
LEMMA InitImplements ==
  ASSUME Init
  PROVE  Abstract!StoreInit
<1>1. call.pc = "idle"
  BY NoCallType DEF Init
<1>2. AbstractPhase = "idle"
  BY <1>1 DEF AbstractPhase, Publishing
<1>3. AbstractOp = Abstract!NoOp
  BY <1>2, NoOpFields DEF Init, AbstractOp
<1>4. \A s \in Source : AbstractView(s) = NoObject
  BY <1>1 DEF Init, AbstractView, BeingPublished, Touched, Publishing
<1> QED
  BY <1>3, <1>4 DEF Init, None, Abstract!StoreInit, Abstract!None

LEMMA EnvironmentImplements ==
  ASSUME IInv, Environment
  PROVE  Abstract!StoreNext
<1>1. ASSUME NEW s \in Source, Upload(s) PROVE Abstract!StoreNext
  BY <1>1, UploadImplements DEF Abstract!StoreNext
<1>2. ASSUME NEW targets \in TargetLists, ChangeTargetList(targets)
      PROVE  Abstract!StoreNext
  BY <1>2, ChangeTargetListImplements DEF Abstract!StoreNext
<1>3. ASSUME NEW s \in Source, NEW v \in 1 .. raw[s], StartLive(s, v)
      PROVE  Abstract!StoreNext
  <2>1. Abstract!Call(s, v, v)
    BY <1>3, StartImplements DEF StartLive
  <2> QED
    BY <2>1 DEF Abstract!StoreNext
<1>4. ASSUME NEW s \in Source, StartBackfill(s) PROVE Abstract!StoreNext
  <2>1. raw[s] > 0 /\ Abstract!Call(s, None, None)
    BY <1>4, StartImplements DEF StartBackfill
  <2> QED
    BY <2>1 DEF None, Abstract!None, Abstract!StoreNext
<1> QED
  BY <1>1, <1>2, <1>3, <1>4 DEF Environment

LEMMA ProcessCsvImplements ==
  ASSUME IInv, ProcessCsv
  PROVE  Abstract!StoreNext \/ UNCHANGED Abstract!storeVars
<1>1. CASE Read
  <2>1. RequestFails => Abstract!FailUntouched
    BY FailedImplements DEF RequestFails
  <2> QED
    BY <1>1, <2>1, CheckSequencerImplements, ReadReportImplements,
       TransformReportImplements, ListExistingImplements
       DEF Read, Abstract!StoreNext, Abstract!Step
<1>2. CASE Publish
  BY <1>2, PutOutputImplements, FinishPutsImplements, DeleteImplements,
     DeleteStaleFailsImplements, FinishPublicationImplements, SaveSequencerImplements
     DEF Publish, Abstract!StoreNext, Abstract!Step
<1>3. CASE Cleanup
  BY <1>3, DeleteImplements, FinishCleanupImplements
     DEF Cleanup, Abstract!StoreNext, Abstract!Step
<1>4. CASE Return
  BY <1>4, ReturnImplements DEF Abstract!StoreNext
<1> QED
  BY <1>1, <1>2, <1>3, <1>4 DEF ProcessCsv

(* Every step of ProcessCsvAsync, of its callers and of the Lambda runtime *)
(* is a step of FactStore or none.                                         *)
LEMMA NextImplements ==
  ASSUME IInv, [Next]_vars
  PROVE  [Abstract!StoreNext]_(Abstract!storeVars)
<1>1. CASE UNCHANGED vars
  <2>1. View' = View /\ AbstractOp' = AbstractOp
    BY <1>1, SameView DEF vars, BeingPublished, Touched, AbstractOp, AbstractPhase
  <2> QED
    BY <1>1, <2>1 DEF vars, View, Abstract!storeVars
<1>2. CASE Crash
  BY <1>2, CrashImplements DEF Abstract!StoreNext
<1> QED
  BY <1>1, <1>2, EnvironmentImplements, ProcessCsvImplements DEF Next

(* What IngestFunction assumes of ProcessCsvAsync holds of it: seen from   *)
(* outside, a call publishes one version under one Target List as a whole, *)
(* or removes all facts of the source, or leaves the source known to be    *)
(* partial; and an event not newer than the saved sequencer does nothing.  *)
THEOREM ServiceImplementsFactStore == Spec => ImplementsFactStore
<1>1. Init => Abstract!StoreInit
  BY InitImplements
<1>2. IInv /\ [Next]_vars => [Abstract!StoreNext]_(Abstract!storeVars)
  BY NextImplements
<1> QED
  BY <1>1, <1>2, InvariantHolds, PTL DEF Spec, ImplementsFactStore, Abstract!StoreSpec

-----------------------------------------------------------------------------
(* The order of the events of one report.                                  *)
InProgress == {"read", "targets", "list", "publish", "reconcile", "save"}

LEMMA InProgressMeaning ==
  ASSUME NEW s \in Source
  PROVE  EventInProgress(s) =
           IF call.source = s /\ call.pc \in InProgress THEN call.sequencer ELSE None
BY DEF EventInProgress, InProgress, Reading

(* A step starts no event, ends the one in progress, goes on with it,      *)
(* takes one past the stale check, or saves it.                            *)
Goes ==
  /\ UNCHANGED seqState
  /\ \/ UNCHANGED call
     \/ call'.pc \notin InProgress
     \/ call.pc \in InProgress /\ call'.source = call.source
                              /\ call'.sequencer = call.sequencer

PassesCheck ==
  /\ UNCHANGED seqState
  /\ call.pc = "check" /\ ~IsStale
  /\ call'.source = call.source /\ call'.sequencer = call.sequencer

Saves ==
  /\ call.pc = "save"
  /\ seqState' = [seqState EXCEPT ![call.source] = call.sequencer]
  /\ call'.pc \notin InProgress

LEMMA CatchEnds ==
  ASSUME NEW c \in CallType
  PROVE  Catch(c).pc \notin InProgress
BY DEF Catch, CallType, InProgress

LEMMA StepOfAnEvent ==
  ASSUME IInv, [Next]_vars
  PROVE  Goes \/ PassesCheck \/ Saves
<1>1. call \in CallType
  BY DEF IInv, TypeOK
<1>2. CASE Environment
  BY <1>2 DEF Environment, Upload, ChangeTargetList, StartLive, StartBackfill, NewCall,
     Goes, InProgress, store
<1>3. CASE Read
  <2>1. CASE CheckSequencer
    BY <1>1, <2>1 DEF CheckSequencer, CallType, Goes, PassesCheck, InProgress, store
  <2>2. CASE ReadReport \/ ListExisting
    BY <1>1, <2>2 DEF ReadReport, ListExisting, CallType, Goes, InProgress, store
  <2>3. CASE TransformReport \/ RequestFails
    BY <1>1, <2>3, CatchEnds
       DEF TransformReport, RequestFails, CallType, Goes, InProgress, store
  <2> QED
    BY <1>3, <2>1, <2>2, <2>3 DEF Read
<1>4. CASE Publish
  <2>1. ASSUME NEW k \in Key, PutOutput(k) \/ DeleteStale(k)
        PROVE  Goes
    BY <1>1, <2>1 DEF PutOutput, DeleteStale, Attempting, CallType, Goes, InProgress
  <2>2. ASSUME NEW k \in Key, NEW reachedS3 \in BOOLEAN, PutOutputFails(k, reachedS3)
        PROVE  Goes
    <3>1. Attempting(k) \in CallType
      BY <1>1 DEF Attempting, CallType
    <3> QED
      BY <2>2, <3>1, CatchEnds DEF PutOutputFails, Goes
  <2>3. ASSUME NEW k \in Key, NEW reachedS3 \in BOOLEAN, DeleteStaleFails(k, reachedS3)
        PROVE  Goes
    BY <1>1, <2>3, CatchEnds DEF DeleteStaleFails, Goes
  <2>4. CASE FinishPuts \/ FinishPublication
    BY <1>1, <2>4 DEF FinishPuts, FinishPublication, CallType, Goes, InProgress, store
  <2>5. CASE SaveSequencer
    BY <1>1, <2>5 DEF SaveSequencer, CallType, Saves, InProgress
  <2>6. ASSUME NEW reachedS3 \in BOOLEAN, SaveSequencerFails(reachedS3)
        PROVE  Goes \/ Saves
    BY <1>1, <2>6, CatchEnds DEF SaveSequencerFails, Goes, Saves
  <2> QED
    BY <1>4, <2>1, <2>2, <2>3, <2>4, <2>5, <2>6 DEF Publish
<1>5. CASE Cleanup
  BY <1>1, <1>5 DEF Cleanup, CleanupDelete, CleanupDeleteFails, FinishCleanup, CallType,
     Goes, InProgress, store
<1>6. CASE Return \/ Crash
  BY <1>6, NoCallType DEF Return, Crash, Goes, InProgress, store
<1>7. CASE UNCHANGED vars
  BY <1>7 DEF vars, store, Goes
<1> QED
  BY <1>2, <1>3, <1>4, <1>5, <1>6, <1>7 DEF Next, ProcessCsv

LEMMA StepInOrder ==
  ASSUME IInv, [Next]_vars, NEW s \in Source
  PROVE  [Order(s)!OrderNext]_(Order(s)!orderVars)
<1> SUFFICES Order(s)!OrderNext \/ UNCHANGED Order(s)!orderVars
  OBVIOUS
<1>1. /\ call \in CallType /\ call' \in CallType
      /\ seqState \in [Source -> Nat]
  BY NextIInv DEF IInv, TypeOK
<1>2. PICK before : before = EventInProgress(s)
  OBVIOUS
<1>3. PICK after : after = EventInProgress(s)'
  OBVIOUS
<1>4. before = IF call.source = s /\ call.pc \in InProgress THEN call.sequencer ELSE None
  BY <1>2, InProgressMeaning
<1>5. after = IF call'.source = s /\ call'.pc \in InProgress THEN call'.sequencer ELSE None
  BY <1>3 DEF EventInProgress, InProgress, Reading
<1>6. before \in Nat /\ after \in Nat
  BY <1>1, <1>4, <1>5 DEF CallType, None
<1>7. CASE seqState'[s] = seqState[s] /\ after \in {before, None}
  BY <1>2, <1>3, <1>7 DEF None, Order!OrderNext, Order!EndUnsaved, Order!orderVars
<1>8. CASE Goes
  <2>1. seqState'[s] = seqState[s] /\ after \in {before, None}
    BY <1>4, <1>5, <1>8 DEF Goes
  <2> QED
    BY <1>7, <2>1
<1>9. CASE PassesCheck
  <2>1. before = None
    BY <1>4, <1>9 DEF PassesCheck, InProgress
  <2>2. after = None \/ (s = call.source /\ after = call.sequencer)
    BY <1>5, <1>9 DEF PassesCheck
  <2>3. CASE after = None
    BY <1>7, <1>9, <2>1, <2>3 DEF PassesCheck
  <2>4. CASE s = call.source /\ after = call.sequencer /\ after # None
    <3>1. after > seqState[s]
      BY <1>1, <1>6, <1>9, <2>4 DEF PassesCheck, IsStale, None, CallType
    <3>2. seqState'[s] = seqState[s]
      BY <1>9 DEF PassesCheck
    <3> QED
      BY <1>2, <1>3, <1>6, <2>1, <3>1, <3>2 DEF None, Order!OrderNext, Order!Begin
  <2> QED
    BY <2>2, <2>3, <2>4
<1>10. CASE Saves
  <2>1. after = None
    BY <1>5, <1>10 DEF Saves
  <2>2. CASE s = call.source
    <3>1. before = call.sequencer /\ before # None
      BY <1>4, <1>10, <2>2 DEF Saves, InProgress, IInv, AfterPublication
    <3>2. seqState'[s] = before
      BY <1>1, <1>10, <2>2, <3>1 DEF Saves
    <3> QED
      BY <1>2, <1>3, <2>1, <3>1, <3>2 DEF None, Order!OrderNext, Order!Save
  <2>3. CASE s # call.source
    BY <1>1, <1>7, <1>10, <2>1, <2>3 DEF Saves
  <2> QED
    BY <2>2, <2>3
<1> QED
  BY <1>8, <1>9, <1>10, StepOfAnEvent

(* Each report, whatever happens to the requests of a call, has its events *)
(* processed in ascending order: one begins only above the saved one, and  *)
(* only the one in progress is saved.  Sequencer shows the same of the     *)
(* texts the code compares.                                                *)
THEOREM ServiceKeepsEventOrder == Spec => EventsOfAReportAreInOrder
<1>1. Init => \A s \in Source : Order(s)!OrderInit
  <2> SUFFICES ASSUME Init, NEW s \in Source
               PROVE  Order(s)!OrderInit
    OBVIOUS
  <2>1. EventInProgress(s) = 0
    BY NoCallType, InProgressMeaning DEF Init, InProgress, None
  <2>2. seqState[s] = 0
    BY DEF Init, None
  <2> QED
    BY <2>1, <2>2 DEF Order!OrderInit
<1>2. IInv /\ [Next]_vars
        => [\A s \in Source : [Order(s)!OrderNext]_(Order(s)!orderVars)]_vars
  BY StepInOrder
<1> QED
  BY <1>1, <1>2, InvariantHolds, PTL DEF Spec, EventsOfAReportAreInOrder

-----------------------------------------------------------------------------
(* How far a step takes a call.                                            *)
Advances ==
  \/ Stage(call'.pc) > Stage(call.pc)
  \/ call'.pc = call.pc /\ call'.todo \subseteq call.todo /\ call'.todo # call.todo

LEMMA CatchAdvances ==
  ASSUME NEW c \in CallType,
         call.pc \in Reading \cup {"publish", "reconcile"} \/ (call.pc = "save" /\ c.complete)
  PROVE  Stage(Catch(c).pc) > Stage(call.pc)
<1>1. Catch(c).pc = "failed" \/ (Catch(c).pc = "cleanup" /\ ~c.complete)
  BY DEF Catch, CallType
<1> QED
  BY <1>1 DEF Stage, Reading

LEMMA StepAdvances ==
  ASSUME IInv, ProcessCsv \/ Crash
  PROVE  Advances
<1>1. call \in CallType
  BY DEF IInv, TypeOK
<1>2. CASE Read
  <2>1. CASE CheckSequencer \/ ReadReport \/ ListExisting
    <3>1. \/ call.pc = "check" /\ call'.pc \in {"read", "done"}
          \/ call.pc = "read" /\ call'.pc = "targets"
          \/ call.pc = "list" /\ call'.pc = "publish"
      BY <1>1, <2>1 DEF CheckSequencer, ReadReport, ListExisting, CallType
    <3> QED
      BY <3>1 DEF Advances, Stage
  <2>2. CASE TransformReport
    <3>1. CASE call' = Catch(call)
      BY <1>1, <2>2, <3>1, CatchAdvances DEF TransformReport, Advances, Reading
    <3>2. CASE call'.pc = "list"
      BY <2>2, <3>2 DEF TransformReport, Advances, Stage
    <3> QED
      BY <1>1, <2>2, <3>1, <3>2 DEF TransformReport, CallType
  <2>3. CASE RequestFails
    BY <1>1, <2>3, CatchAdvances DEF RequestFails, Advances
  <2> QED
    BY <1>2, <2>1, <2>2, <2>3 DEF Read
<1>3. CASE Publish
  <2>1. ASSUME NEW k \in Key, PutOutput(k)
        PROVE  Advances
    <3>1. k \in call.todo
      BY <2>1 DEF PutOutput, NextOutputs
    <3>2. call'.pc = call.pc /\ call'.todo = call.todo \ {k}
      BY <1>1, <2>1 DEF PutOutput, Attempting, CallType
    <3> QED
      BY <3>1, <3>2 DEF Advances
  <2>2. ASSUME NEW k \in Key, DeleteStale(k)
        PROVE  Advances
    <3>1. k \in call.todo /\ call'.pc = call.pc /\ call'.todo = call.todo \ {k}
      BY <1>1, <2>2 DEF DeleteStale, CallType
    <3> QED
      BY <3>1 DEF Advances
  <2>3. ASSUME NEW k \in Key, NEW reachedS3 \in BOOLEAN,
               PutOutputFails(k, reachedS3) \/ DeleteStaleFails(k, reachedS3)
        PROVE  Advances
    <3>1. Attempting(k) \in CallType
      BY <1>1 DEF Attempting, CallType
    <3> QED
      BY <1>1, <2>3, <3>1, CatchAdvances DEF PutOutputFails, DeleteStaleFails, Advances
  <2>4. CASE FinishPuts \/ FinishPublication \/ SaveSequencer
    <3>1. \/ call.pc = "publish" /\ call'.pc = "reconcile"
          \/ call.pc = "reconcile" /\ call'.pc \in {"save", "done"}
          \/ call.pc = "save" /\ call'.pc = "done"
      BY <1>1, <2>4 DEF FinishPuts, FinishPublication, SaveSequencer, CallType
    <3> QED
      BY <3>1 DEF Advances, Stage
  <2>5. ASSUME NEW reachedS3 \in BOOLEAN, SaveSequencerFails(reachedS3)
        PROVE  Advances
    <3>1. call.complete
      BY <2>5 DEF SaveSequencerFails, IInv, AfterPublication
    <3> QED
      BY <1>1, <2>5, <3>1, CatchAdvances DEF SaveSequencerFails, Advances
  <2> QED
    BY <1>3, <2>1, <2>2, <2>3, <2>4, <2>5 DEF Publish
<1>4. CASE Cleanup
  <2>1. ASSUME NEW k \in Key, CleanupDelete(k) \/ CleanupDeleteFails(k)
        PROVE  Advances
    <3>1. k \in call.todo /\ call'.pc = call.pc /\ call'.todo = call.todo \ {k}
      BY <1>1, <2>1 DEF CleanupDelete, CleanupDeleteFails, CallType
    <3> QED
      BY <3>1 DEF Advances
  <2>2. CASE FinishCleanup
    BY <1>1, <2>2 DEF FinishCleanup, CallType, Advances, Stage
  <2> QED
    BY <1>4, <2>1, <2>2 DEF Cleanup
<1>5. CASE Return \/ Crash
  <2>1. call'.pc = "idle" /\ call.pc \in Pc /\ call.pc # "idle"
    BY <1>1, <1>5, NoCallType DEF Return, Crash, Idle, CallType
  <2> QED
    BY <2>1 DEF Advances, Stage, Pc, Reading, Publishing
<1> QED
  BY <1>2, <1>3, <1>4, <1>5 DEF ProcessCsv

(* No request is repeated in place, whatever fails: the steps of a call    *)
(* lead through its stages in one direction, and within a stage each takes *)
(* a key off the rest.                                                     *)
THEOREM CallsNeverStartOver == Spec => CallsOnlyAdvance
<1>1. ASSUME IInv, Next, ~Idle, call' # call
      PROVE  Advances
  <2>1. CASE Environment
    BY <1>1, <2>1 DEF Environment, Upload, ChangeTargetList, StartLive, StartBackfill
  <2> QED
    BY <1>1, <2>1, StepAdvances DEF Next
<1>2. IInv /\ [Next]_vars
        => [~Idle /\ call' # call =>
              \/ Stage(call'.pc) > Stage(call.pc)
              \/ /\ call'.pc = call.pc
                 /\ call'.todo \subseteq call.todo /\ call'.todo # call.todo]_vars
  BY <1>1 DEF Advances
<1> QED
  BY <1>2, InvariantHolds, PTL DEF Spec, CallsOnlyAdvance
=============================================================================
