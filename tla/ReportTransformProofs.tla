----------------------- MODULE ReportTransformProofs -----------------------
(***************************************************************************)
(* What the row loop of ReportTransform computes, for every report, every  *)
(* Target List and every behaviour of the parsers.                         *)
(***************************************************************************)
EXTENDS ReportTransform, SequenceTheorems, TLAPS

(* The rows in front of row n that are kept. *)
KeptBefore(n) == {i \in 2 .. n - 1 : IsTarget(report, i, targetList)}

Types ==
  /\ report \in Reports
  /\ next \in Nat
  /\ pc \in {"parse", "header", "rows", "prepare", "done", "thrown"}

(* Where the control is, and what was found in order on the way there. *)
Control ==
  /\ pc \in {"parse", "header"} => next = 2
  /\ pc \in {"header", "rows", "prepare", "done"} => IsTable(report)
  /\ pc \in {"rows", "prepare", "done"} =>
       IsHeader(report) /\ next <= Len(report.records) + 1
  /\ pc \in {"prepare", "done"} => next = Len(report.records) + 1

(* The rows in front of the next one were in order... *)
RowsInOrder ==
  /\ next >= 2
  /\ \A i \in 2 .. next - 1 : ~ EmailMissing(report, i)
  /\ \A i \in KeptBefore(next) : IsValid(report, i)
  /\ \A i, j \in KeptBefore(next) : Grain(report, i) = Grain(report, j) => i = j

(* ...and the facts are those of the kept ones. *)
FactsOfRows ==
  /\ usage = {UsageFact(report, i) : i \in KeptBefore(next)}
  /\ models = UNION {Unpivot(report, i) : i \in KeptBefore(next)}
  /\ usageGrains = {Grain(report, i) : i \in KeptBefore(next)}

Outputs ==
  /\ pc = "done" => outputs = PreparedOutputs
  /\ pc # "done" => outputs = {}

IInv ==
  /\ Types
  /\ Control
  /\ RowsInOrder
  /\ FactsOfRows
  /\ Outputs
  /\ pc = "thrown" => ~ IsAcceptable

data == <<report, targetList, next, usageGrains, usage, models>>

LEMMA RecordsAreCounted ==
  ASSUME Types
  PROVE  Len(report.records) \in Nat
<1>1. report.records \in Seq(Seq(Cell))  BY ReportsAssumption DEF Types
<1> QED BY <1>1, LenProperties

(* A step that moves the control only. *)
LEMMA DataUnchanged ==
  ASSUME IInv, UNCHANGED data
  PROVE  RowsInOrder' /\ FactsOfRows' /\ (IsAcceptable' <=> IsAcceptable)
<1>1. /\ report' = report /\ targetList' = targetList /\ next' = next
      /\ usageGrains' = usageGrains /\ usage' = usage /\ models' = models
  BY DEF data
<1>2. KeptBefore(next)' = KeptBefore(next)  BY <1>1 DEF KeptBefore
<1>3. RowsInOrder'  BY <1>1, <1>2 DEF IInv, RowsInOrder
<1>4. FactsOfRows'  BY <1>1, <1>2 DEF IInv, FactsOfRows
<1>5. IsAcceptable' <=> IsAcceptable  BY <1>1 DEF IsAcceptable, Kept
<1> QED BY <1>3, <1>4, <1>5

LEMMA NothingKeptYet == next = 2 => KeptBefore(next) = {}
BY DEF KeptBefore

LEMMA InitEstablishesIInv == Init => IInv
<1> SUFFICES ASSUME Init PROVE IInv  OBVIOUS
<1>1. KeptBefore(next) = {}  BY NothingKeptYet DEF Init
<1>2. Types  BY DEF Init, Types
<1>3. RowsInOrder  BY <1>1 DEF Init, RowsInOrder
<1>4. FactsOfRows  BY <1>1 DEF Init, FactsOfRows
<1> QED BY <1>2, <1>3, <1>4 DEF Init, IInv, Control, Outputs

(* When the loop has passed row next, the kept rows in front are as before *)
(* and row next is one of them if its user is a target.                    *)
LEMMA KeptAfterRow ==
  ASSUME Types, next >= 2, report' = report, targetList' = targetList,
         next' = next + 1
  PROVE  KeptBefore(next)' =
           KeptBefore(next)
             \cup (IF IsTarget(report, next, targetList) THEN {next} ELSE {})
<1>1. 2 .. next' - 1 = (2 .. next - 1) \cup {next}  BY DEF Types
<1> QED BY <1>1 DEF KeptBefore

LEMMA ParsePreservesIInv ==
  ASSUME IInv, Parse
  PROVE  IInv'
<1>1. UNCHANGED data  BY DEF Parse, GoOn, Throw, data
<1>2. report' = report /\ next' = next /\ outputs' = outputs
  BY DEF Parse, GoOn, Throw
<1>3. \/ IsTable(report) /\ pc' = "header"
      \/ ~ IsTable(report) /\ pc' = "thrown"
  BY DEF Parse, GoOn, Throw
<1>4. Types' /\ Control' /\ Outputs'
  BY <1>2, <1>3 DEF IInv, Types, Control, Outputs, Parse
<1>5. pc' = "thrown" => ~ IsAcceptable'
  BY <1>1, <1>3, DataUnchanged DEF IsAcceptable
<1> QED BY <1>1, <1>4, <1>5, DataUnchanged DEF IInv

LEMMA CheckHeaderPreservesIInv ==
  ASSUME IInv, CheckHeader
  PROVE  IInv'
<1>1. UNCHANGED data  BY DEF CheckHeader, GoOn, Throw, data
<1>2. report' = report /\ next' = next /\ outputs' = outputs
  BY DEF CheckHeader, GoOn, Throw
<1>3. \/ IsHeader(report) /\ pc' = "rows"
      \/ ~ IsHeader(report) /\ pc' = "thrown"
  BY DEF CheckHeader, GoOn, Throw
<1>4. Types' /\ Outputs'
  BY <1>2, <1>3 DEF IInv, Types, Outputs, CheckHeader
<1>5. Control'
  <2>1. IsHeader(report) => next <= Len(report.records) + 1
    <3>1. report.records \in Seq(Seq(Cell))  BY ReportsAssumption DEF IInv, Types
    <3>2. Len(report.records) \in Nat  BY <3>1, LenProperties
    <3>3. report.records # <<>> => Len(report.records) # 0
      BY <3>1, EmptySeq
    <3>4. next = 2  BY DEF IInv, Control, CheckHeader
    <3> QED BY <3>2, <3>3, <3>4 DEF IsHeader
  <2> QED BY <2>1, <1>2, <1>3 DEF IInv, Control, CheckHeader
<1>6. pc' = "thrown" => ~ IsAcceptable'
  BY <1>1, <1>3, DataUnchanged DEF IsAcceptable
<1> QED BY <1>1, <1>4, <1>5, <1>6, DataUnchanged DEF IInv

LEMMA SkipRowPreservesIInv ==
  ASSUME IInv, SkipRow
  PROVE  IInv'
<1>1. /\ report' = report /\ targetList' = targetList /\ next' = next + 1
      /\ pc' = pc /\ outputs' = outputs /\ usage' = usage
      /\ models' = models /\ usageGrains' = usageGrains
      /\ pc = "rows" /\ next \in Nat /\ next >= 2 /\ next <= Len(report.records)
      /\ Len(report.records) \in Nat
  BY RecordsAreCounted DEF IInv, Types, RowsInOrder, SkipRow, InRow, Rows
<1>2. KeptBefore(next)' = KeptBefore(next)
  BY <1>1, KeptAfterRow DEF IInv, SkipRow
<1>3. Types' /\ Control' /\ Outputs'
  BY <1>1 DEF IInv, Types, Control, Outputs
<1>4. RowsInOrder'
  <2>1. \A i \in 2 .. next' - 1 : ~ EmailMissing(report', i)
    BY <1>1 DEF IInv, RowsInOrder, SkipRow
  <2> QED BY <2>1, <1>1, <1>2 DEF IInv, RowsInOrder
<1>5. FactsOfRows'  BY <1>1, <1>2 DEF IInv, FactsOfRows
<1> QED BY <1>1, <1>3, <1>4, <1>5 DEF IInv

LEMMA KeepRowPreservesIInv ==
  ASSUME IInv, KeepRow
  PROVE  IInv'
<1>1. /\ report' = report /\ targetList' = targetList /\ next' = next + 1
      /\ pc' = pc /\ outputs' = outputs
      /\ pc = "rows" /\ next \in Nat /\ next >= 2 /\ next <= Len(report.records)
      /\ Len(report.records) \in Nat
  BY RecordsAreCounted DEF IInv, Types, RowsInOrder, KeepRow, InRow, Rows
<1>2. KeptBefore(next)' = KeptBefore(next) \cup {next}
  BY <1>1, KeptAfterRow DEF IInv, KeepRow
<1>3. Types' /\ Control' /\ Outputs'
  BY <1>1 DEF IInv, Types, Control, Outputs
<1>4. RowsInOrder'
  <2>1. \A i \in 2 .. next' - 1 : ~ EmailMissing(report', i)
    BY <1>1 DEF IInv, RowsInOrder, KeepRow
  <2>2. \A i \in KeptBefore(next)' : IsValid(report', i)
    BY <1>1, <1>2 DEF IInv, RowsInOrder, KeepRow
  <2>3. \A i \in KeptBefore(next) : Grain(report, i) # Grain(report, next)
    BY DEF IInv, FactsOfRows, KeepRow
  <2>4. \A i, j \in KeptBefore(next)' :
          Grain(report', i) = Grain(report', j) => i = j
    BY <2>3, <1>1, <1>2 DEF IInv, RowsInOrder
  <2> QED BY <2>1, <2>2, <2>4, <1>1 DEF RowsInOrder
<1>5. FactsOfRows'
  <2>1. usage' = {UsageFact(report', i) : i \in KeptBefore(next)'}
    BY <1>1, <1>2 DEF IInv, FactsOfRows, KeepRow
  <2>2. models' = UNION {Unpivot(report', i) : i \in KeptBefore(next)'}
    BY <1>1, <1>2 DEF IInv, FactsOfRows, KeepRow
  <2>3. usageGrains' = {Grain(report', i) : i \in KeptBefore(next)'}
    BY <1>1, <1>2 DEF IInv, FactsOfRows, KeepRow
  <2> QED BY <2>1, <2>2, <2>3 DEF FactsOfRows
<1> QED BY <1>1, <1>3, <1>4, <1>5 DEF IInv

(* Whichever way a row is rejected, the report is unacceptable. *)
LEMMA RejectRowPreservesIInv ==
  ASSUME IInv, RejectRow
  PROVE  IInv'
<1>1. UNCHANGED data /\ pc' = "thrown" /\ outputs' = outputs
  BY DEF RejectRow, Throw, data
<1>2. /\ pc = "rows" /\ next \in Rows(report) /\ next \in Nat
      /\ Len(report.records) \in Nat
  BY RecordsAreCounted DEF RejectRow, InRow, IInv, Types
<1>3. ~ IsAcceptable
  <2>1. CASE EmailMissing(report, next)  BY <2>1, <1>2 DEF IsAcceptable
  <2>2. CASE IsTarget(report, next, targetList) /\ ~ IsValid(report, next)
    BY <2>2, <1>2 DEF IsAcceptable, Kept
  <2>3. CASE IsTarget(report, next, targetList) /\ Grain(report, next) \in usageGrains
    <3>1. PICK i \in KeptBefore(next) : Grain(report, i) = Grain(report, next)
      BY <2>3 DEF IInv, FactsOfRows
    <3>2. i \in Kept /\ i # next
      BY <3>1, <1>2 DEF KeptBefore, Kept, Rows
    <3>3. next \in Kept  BY <2>3, <1>2 DEF Kept
    <3> QED BY <3>1, <3>2, <3>3 DEF IsAcceptable
  <2> QED BY <2>1, <2>2, <2>3 DEF RejectRow
<1>4. Types' /\ Control' /\ Outputs'
  BY <1>1, <1>2 DEF IInv, Types, Control, Outputs, data
<1> QED BY <1>1, <1>3, <1>4, DataUnchanged DEF IInv

LEMMA EndRowsPreservesIInv ==
  ASSUME IInv, EndRows
  PROVE  IInv'
<1>1. /\ UNCHANGED data /\ pc' = "prepare" /\ outputs' = outputs
      /\ next' = next /\ report' = report
  BY DEF EndRows, GoOn, data
<1>2. next = Len(report.records) + 1
  <2>1. /\ Len(report.records) \in Nat /\ next \in Nat /\ next >= 2
        /\ next <= Len(report.records) + 1
    BY RecordsAreCounted DEF IInv, Types, Control, RowsInOrder, EndRows
  <2> QED BY <2>1 DEF EndRows, Rows
<1>3. Types' /\ Control' /\ Outputs'
  BY <1>1, <1>2 DEF IInv, Types, Control, Outputs, EndRows
<1> QED BY <1>1, <1>3, DataUnchanged DEF IInv

LEMMA PrepareOutputsPreservesIInv ==
  ASSUME IInv, PrepareOutputs
  PROVE  IInv'
<1>1. /\ UNCHANGED data /\ pc' = "done" /\ outputs' = PreparedOutputs
      /\ next' = next /\ report' = report /\ usage' = usage /\ models' = models
  BY DEF PrepareOutputs, data
<1>2. PreparedOutputs' = PreparedOutputs
  BY <1>1 DEF PreparedOutputs, Partitions
<1>3. Types' /\ Control' /\ Outputs'
  BY <1>1, <1>2 DEF IInv, Types, Control, Outputs, PrepareOutputs
<1> QED BY <1>1, <1>3, DataUnchanged DEF IInv

LEMMA NextPreservesIInv == IInv /\ [Next]_vars => IInv'
<1> SUFFICES ASSUME IInv, [Next]_vars PROVE IInv'  OBVIOUS
<1>1. CASE UNCHANGED vars
  <2>1. UNCHANGED data /\ UNCHANGED <<pc, outputs, report, next, usage, models>>
    BY <1>1 DEF vars, data
  <2>2. PreparedOutputs' = PreparedOutputs
    BY <2>1 DEF PreparedOutputs, Partitions
  <2> QED BY <2>1, <2>2, DataUnchanged DEF IInv, Types, Control, Outputs
<1> QED BY <1>1, ParsePreservesIInv, CheckHeaderPreservesIInv, SkipRowPreservesIInv,
           KeepRowPreservesIInv, RejectRowPreservesIInv, EndRowsPreservesIInv,
           PrepareOutputsPreservesIInv DEF Next

(* The inductive invariant: at every row the facts are those of the kept   *)
(* rows in front, all of which were in order.                              *)
THEOREM FactsFollowTheRows == Spec => []IInv
BY InitEstablishesIInv, NextPreservesIInv, PTL DEF Spec

-----------------------------------------------------------------------------
LEMMA UsageFactOf ==
  ASSUME IInv, NEW f \in usage
  PROVE  \E i \in KeptBefore(next) : f = UsageFact(report, i)
BY DEF IInv, FactsOfRows

LEMMA ModelFactOf ==
  ASSUME IInv, NEW f \in models
  PROVE  \E i \in KeptBefore(next) : f \in Unpivot(report, i)
BY DEF IInv, FactsOfRows

(* A model fact is labelled as its row, and counts messages. *)
LEMMA UnpivotedFact ==
  ASSUME NEW i, IsValid(report, i), NEW f \in ModelCells(report, i)
  PROVE  /\ f.date = UsageFact(report, i).date
         /\ f.clientType = UsageFact(report, i).clientType
         /\ f.userEmail = Field(report, i, "User_Email")
         /\ f.messages \in Nat
<1>1. PICK c \in ModelColumns(report) : f = ModelFact(report, i, c)
  BY DEF ModelCells
<1>2. IsNonNegativeLong(report.records[i][c])  BY DEF IsValid
<1>3. Long[report.records[i][c]] \in Nat
  BY <1>2, ParserAssumption DEF IsNonNegativeLong
<1> QED BY <1>1, <1>3 DEF ModelFact, UsageFact

(* All state keeps its type, and no model fact counts zero messages. *)
THEOREM TransformTypes == Spec => []TypeOK
<1>1. IInv => \A f \in models : f.messages \in Nat \ {0}
  <2> SUFFICES ASSUME IInv, NEW f \in models PROVE f.messages \in Nat \ {0}
    OBVIOUS
  <2>1. PICK i \in KeptBefore(next) : f \in Unpivot(report, i)  BY ModelFactOf
  <2>2. f \in ModelCells(report, i) /\ f.messages # 0  BY <2>1 DEF Unpivot
  <2>3. IsValid(report, i)  BY DEF IInv, RowsInOrder
  <2> QED BY <2>2, <2>3, UnpivotedFact
<1>2. Spec => [](targetList \subseteq Cell)
  <2>1. Init => targetList \subseteq Cell
    BY TargetListAssumption, ParserAssumption DEF Init
  <2>2. targetList \subseteq Cell /\ [Next]_vars => (targetList \subseteq Cell)'
    BY DEF Next, Parse, CheckHeader, SkipRow, KeepRow, RejectRow, EndRows,
           PrepareOutputs, Throw, GoOn, vars
  <2> QED BY <2>1, <2>2, PTL DEF Spec
<1>3. IInv /\ targetList \subseteq Cell => TypeOK
  BY <1>1 DEF IInv, Types, Outputs, TypeOK
<1> QED BY <1>2, <1>3, FactsFollowTheRows, PTL

(* Fail closed: whatever the report and the list, there is never a fact of *)
(* a user who is not in the Target List.                                   *)
THEOREM OnlyTargetsAreKept == Spec => []OnlyTargetUsers
<1>1. IInv => OnlyTargetUsers
  <2> SUFFICES ASSUME IInv PROVE OnlyTargetUsers  OBVIOUS
  <2>1. ASSUME NEW f \in usage PROVE Fold[f.userEmail] \in targetList
    <3>1. PICK i \in KeptBefore(next) : f = UsageFact(report, i)
      BY <2>1, UsageFactOf
    <3>2. f.userEmail = Field(report, i, "User_Email")
      BY <3>1 DEF UsageFact
    <3> QED BY <3>2 DEF KeptBefore, IsTarget
  <2>2. ASSUME NEW f \in models PROVE Fold[f.userEmail] \in targetList
    <3>1. PICK i \in KeptBefore(next) : f \in Unpivot(report, i)
      BY <2>2, ModelFactOf
    <3>2. IsValid(report, i) /\ f \in ModelCells(report, i)
      BY <3>1 DEF IInv, RowsInOrder, Unpivot
    <3>3. f.userEmail = Field(report, i, "User_Email")
      BY <3>2, UnpivotedFact
    <3> QED BY <3>3 DEF KeptBefore, IsTarget
  <2> QED BY <2>1, <2>2 DEF OnlyTargetUsers
<1> QED BY <1>1, FactsFollowTheRows, PTL

(* No two rows become facts of one user, day and client type. *)
LEMMA UsageGrainsAreUnique == Spec => []OneUsageFactPerGrain
<1>1. IInv => OneUsageFactPerGrain
  <2> SUFFICES ASSUME IInv, NEW f \in usage, NEW g \in usage,
                      f.userId = g.userId, f.date = g.date,
                      f.clientType = g.clientType
               PROVE  f = g
    BY DEF OneUsageFactPerGrain
  <2>1. PICK i \in KeptBefore(next) : f = UsageFact(report, i)  BY UsageFactOf
  <2>2. PICK j \in KeptBefore(next) : g = UsageFact(report, j)  BY UsageFactOf
  <2>3. Grain(report, i) = Grain(report, j)
    BY <2>1, <2>2 DEF UsageFact, Grain
  <2>4. i = j  BY <2>3 DEF IInv, RowsInOrder
  <2> QED BY <2>1, <2>2, <2>4
<1> QED BY <1>1, FactsFollowTheRows, PTL

(* Nor do two cells of a report whose columns are distinct models become   *)
(* facts of one user, day, client type and model.                          *)
LEMMA ModelGrainsAreUnique == Spec => []OneModelFactPerGrain
<1>1. IInv => OneModelFactPerGrain
  <2> SUFFICES ASSUME IInv, NEW f \in models, NEW g \in models, ModelsAreDistinct,
                      f.userId = g.userId, f.date = g.date,
                      f.clientType = g.clientType, f.model = g.model
               PROVE  f = g
    BY DEF OneModelFactPerGrain
  <2>1. PICK i \in KeptBefore(next) : f \in Unpivot(report, i)  BY ModelFactOf
  <2>2. PICK j \in KeptBefore(next) : g \in Unpivot(report, j)  BY ModelFactOf
  <2>3. PICK c \in ModelColumns(report) : f = ModelFact(report, i, c)
    BY <2>1 DEF Unpivot, ModelCells
  <2>4. PICK d \in ModelColumns(report) : g = ModelFact(report, j, d)
    BY <2>2 DEF Unpivot, ModelCells
  <2>5. Grain(report, i) = Grain(report, j)
    BY <2>3, <2>4 DEF ModelFact, Grain
  <2>6. i = j  BY <2>5 DEF IInv, RowsInOrder
  <2>7. ModelOf[Header(report)[c]] = ModelOf[Header(report)[d]]
    BY <2>3, <2>4 DEF ModelFact
  <2>8. c = d  BY <2>7 DEF ModelsAreDistinct
  <2> QED BY <2>3, <2>4, <2>6, <2>8
<1> QED BY <1>1, FactsFollowTheRows, PTL

(* Neither table ever holds two facts of one grain. *)
THEOREM GrainsAreUnique == Spec => []OneFactPerGrain
BY UsageGrainsAreUnique, ModelGrainsAreUnique, PTL DEF OneFactPerGrain

LEMMA KeptAtTheEnd ==
  ASSUME IInv, pc = "done"
  PROVE  KeptBefore(next) = Kept
<1>1. Len(report.records) \in Nat /\ next = Len(report.records) + 1
  BY RecordsAreCounted DEF IInv, Control
<1> QED BY <1>1 DEF KeptBefore, Kept, Rows

LEMMA DoneIsAcceptable ==
  ASSUME IInv, pc = "done"
  PROVE  IsAcceptable
<1>1. Len(report.records) \in Nat /\ next = Len(report.records) + 1
  BY RecordsAreCounted DEF IInv, Control
<1>2. 2 .. next - 1 = Rows(report)  BY <1>1 DEF Rows
<1> QED BY <1>2, KeptAtTheEnd DEF IInv, Control, RowsInOrder, IsAcceptable

(* A report is rejected exactly when a row to keep is bad or repeated, an  *)
(* address is missing or the table is not well-formed.                     *)
THEOREM RejectionIsExact == Spec => []RejectedWhenUnacceptable
<1>1. IInv => RejectedWhenUnacceptable
  BY DoneIsAcceptable DEF IInv, RejectedWhenUnacceptable
<1> QED BY <1>1, FactsFollowTheRows, PTL

(* All usage facts are in the usage files. *)
LEMMA UsageFilesAreComplete ==
  ASSUME outputs = PreparedOutputs
  PROVE  FactsIn("usage_daily") = usage
<1>1. ASSUME NEW f \in usage PROVE f \in FactsIn("usage_daily")
  <2> DEFINE p == [date |-> f.date, clientType |-> f.clientType]
             o == OutputFile("usage_daily", p, usage)
  <2>1. p \in Partitions  BY DEF Partitions
  <2>2. o \in outputs  BY <2>1 DEF PreparedOutputs
  <2>3. o.table = "usage_daily" /\ f \in o.facts  BY DEF OutputFile, Within
  <2> QED BY <2>2, <2>3 DEF FactsIn, Files
<1>2. ASSUME NEW o \in Files("usage_daily") PROVE o.facts \subseteq usage
  BY DEF Files, PreparedOutputs, OutputFile, Within
<1> QED BY <1>1, <1>2 DEF FactsIn

(* All model facts are in the model files, given that each has a partition. *)
LEMMA ModelFilesAreComplete ==
  ASSUME outputs = PreparedOutputs,
         \A f \in models : [date |-> f.date, clientType |-> f.clientType] \in Partitions
  PROVE  FactsIn("model_messages") = models
<1>1. ASSUME NEW f \in models PROVE f \in FactsIn("model_messages")
  <2> DEFINE p == [date |-> f.date, clientType |-> f.clientType]
             o == OutputFile("model_messages", p, models)
  <2>1. p \in Partitions  OBVIOUS
  <2>2. f \in Within(p, models)  BY DEF Within
  <2>3. o \in outputs  BY <2>1, <2>2 DEF PreparedOutputs
  <2>4. o.table = "model_messages" /\ f \in o.facts  BY <2>2 DEF OutputFile
  <2> QED BY <2>3, <2>4 DEF FactsIn, Files
<1>2. ASSUME NEW o \in Files("model_messages") PROVE o.facts \subseteq models
  BY DEF Files, PreparedOutputs, OutputFile, Within
<1> QED BY <1>1, <1>2 DEF FactsIn

LEMMA FilesAreWellFormed ==
  ASSUME outputs = PreparedOutputs, NEW o \in outputs
  PROVE  /\ o.facts # {}
         /\ \A f \in o.facts :
              o.partition = [date |-> f.date, clientType |-> f.clientType]
         /\ \A q \in outputs :
              o.table = q.table /\ o.partition = q.partition => o = q
<1>1. \A q \in outputs :
        \E p \in Partitions :
          \/ q = OutputFile("usage_daily", p, usage)
          \/ q = OutputFile("model_messages", p, models) /\ Within(p, models) # {}
  BY DEF PreparedOutputs
<1>2. \A p \in Partitions : /\ Within(p, usage) # {}
                            /\ p = [date |-> p.date, clientType |-> p.clientType]
  BY DEF Partitions, Within
<1>3. PICK p \in Partitions :
        \/ o = OutputFile("usage_daily", p, usage)
        \/ o = OutputFile("model_messages", p, models) /\ Within(p, models) # {}
  BY <1>1
<1>4. o.facts # {}  BY <1>2, <1>3 DEF OutputFile
<1>5. \A f \in o.facts : o.partition = [date |-> f.date, clientType |-> f.clientType]
  BY <1>2, <1>3 DEF OutputFile, Within
<1>6. ASSUME NEW q \in outputs, o.table = q.table, o.partition = q.partition
      PROVE  o = q
  <2>1. PICK r \in Partitions :
          \/ q = OutputFile("usage_daily", r, usage)
          \/ q = OutputFile("model_messages", r, models)
    BY <1>1
  <2> QED BY <2>1, <1>3, <1>6 DEF OutputFile
<1> QED BY <1>4, <1>5, <1>6

(* The files hold exactly one fact for each kept row and each of its       *)
(* models in use, filed under that row's date and client type.             *)
THEOREM FilesAreExact == Spec => []FilesHoldTheReport
<1>1. IInv => FilesHoldTheReport
  <2> SUFFICES ASSUME IInv, pc = "done" PROVE FilesHoldTheReport
    BY DEF FilesHoldTheReport
  <2>1. outputs = PreparedOutputs  BY DEF IInv, Outputs
  <2>2. usage = {UsageFact(report, i) : i \in Kept}
    BY KeptAtTheEnd DEF IInv, FactsOfRows
  <2>3. models = UNION {Unpivot(report, i) : i \in Kept}
    BY KeptAtTheEnd DEF IInv, FactsOfRows
  <2>4. \A i \in Kept : IsValid(report, i)
    BY DoneIsAcceptable DEF IsAcceptable
  <2>5. \A i \in Kept :
          Unpivot(report, i) = {f \in ModelCells(report, i) : f.messages > 0}
    <3> SUFFICES ASSUME NEW i \in Kept, NEW f \in ModelCells(report, i)
                 PROVE  f.messages # 0 <=> f.messages > 0
      BY DEF Unpivot
    <3>1. f.messages \in Nat  BY <2>4, UnpivotedFact
    <3> QED BY <3>1
  <2>6. ASSUME NEW f \in models
        PROVE  [date |-> f.date, clientType |-> f.clientType] \in Partitions
    <3>1. PICK i \in Kept : f \in Unpivot(report, i)  BY <2>3
    <3>2. f \in ModelCells(report, i)  BY <3>1 DEF Unpivot
    <3>3. /\ f.date = UsageFact(report, i).date
          /\ f.clientType = UsageFact(report, i).clientType
      BY <3>2, <2>4, UnpivotedFact
    <3>4. UsageFact(report, i) \in usage  BY <2>2
    <3> QED BY <3>3, <3>4 DEF Partitions
  <2>7. FactsIn("usage_daily") = {UsageFact(report, i) : i \in Kept}
    BY <2>1, <2>2, UsageFilesAreComplete
  <2>8. FactsIn("model_messages") =
          UNION {{f \in ModelCells(report, i) : f.messages > 0} : i \in Kept}
    <3>1. FactsIn("model_messages") = models
      BY <2>1, <2>6, ModelFilesAreComplete
    <3>2. UNION {Unpivot(report, i) : i \in Kept} =
            UNION {{f \in ModelCells(report, i) : f.messages > 0} : i \in Kept}
      BY <2>5
    <3> QED BY <3>1, <3>2, <2>3
  <2> QED BY <2>1, <2>7, <2>8, FilesAreWellFormed DEF FilesHoldTheReport
<1> QED BY <1>1, FactsFollowTheRows, PTL
=============================================================================
