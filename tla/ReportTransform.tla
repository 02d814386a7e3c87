-------------------------- MODULE ReportTransform --------------------------
(***************************************************************************)
(* From the text of a User Activity Report and the Target List parameter   *)
(* to the fact files of one source: GetTargetListAsync, Csv.Parse,         *)
(* ReportTransform.Transform and PrepareOutputsAsync, row by row.          *)
(*                                                                         *)
(* Column names and cells are values that are told apart; what the .NET    *)
(* parsers make of a cell is given by constants.  A fact is remembered     *)
(* with the row, and a model fact with the column, that it comes from, so  *)
(* that a set of facts stands for the list the code appends to.  That the  *)
(* parameter is blank, or a list cannot be serialized, fails the call as   *)
(* IngestService has it, and is left out here.                             *)
(***************************************************************************)
EXTENDS Integers, FiniteSets, Sequences

CONSTANTS
  Cell,      \* the texts of headers, cells and Target List entries
  Blank,     \* those that are empty or white space
  Fold,      \* Fold[text]: text in the form OrdinalIgnoreCase compares
  Date,      \* the texts that are ISO dates
  Long,      \* Long[text]: the number long.TryParse accepts a text as
  Double,    \* Double[text]: the same for double.TryParse
  NotFinite, \* a NaN or infinite double
  Bool,      \* Bool[text]: the value bool.TryParse accepts a text as
  ModelOf,   \* ModelOf[column]: the model group of a match of ModelColumnPattern
  Reports,   \* reports: [malformed, records]
  TargetListValues  \* values of the parameter, split at commas and trimmed

ASSUME ReportsAssumption ==
  Reports \subseteq [malformed : BOOLEAN, records : Seq(Seq(Cell))]
ASSUME TargetListAssumption == TargetListValues \subseteq SUBSET Cell
ASSUME ParserAssumption ==
  /\ Blank \subseteq Cell /\ Date \subseteq Cell
  /\ DOMAIN Long \cup DOMAIN Double \cup DOMAIN Bool \subseteq Cell
  /\ Fold \in [Cell -> Cell]
  /\ \A text \in DOMAIN Long : Long[text] \in Int

(* The columns parsed into a value, by the kind of parser. *)
LongColumns == {"Chat_Conversations", "Total_Messages"}
DoubleColumns == {"Credits_Used", "Overage_Cap", "Overage_Credits_Used"}
BoolColumns == {"Overage_Enabled", "New_User"}
StringColumns == {"Subscription_Tier", "ProfileId"}
ValueColumns == LongColumns \cup DoubleColumns \cup BoolColumns \cup StringColumns

RequiredColumns == ValueColumns \cup {"Date", "UserId", "Client_Type", "User_Email"}

SupportedClientTypes == {"KIRO_CLI", "KIRO_IDE", "PLUGIN"}

IsNonNegativeLong(text) == text \in DOMAIN Long /\ Long[text] >= 0

IsNonNegativeFiniteDouble(text) ==
  text \in DOMAIN Double /\ Double[text] # NotFinite /\ Double[text] >= 0

Accepts(column, text) ==
  \/ column \in LongColumns /\ IsNonNegativeLong(text)
  \/ column \in DoubleColumns /\ IsNonNegativeFiniteDouble(text)
  \/ column \in BoolColumns /\ text \in DOMAIN Bool
  \/ column \in StringColumns /\ text \notin Blank

Value(column, text) ==
  CASE column \in LongColumns -> Long[text]
    [] column \in DoubleColumns -> Double[text]
    [] column \in BoolColumns -> Bool[text]
    [] OTHER -> text

-----------------------------------------------------------------------------
(* What Csv.Parse and Transform compute from a report r. *)

Header(r) == r.records[1]
Rows(r) == 2 .. Len(r.records)

(* Field: the index finds the one column of that name. *)
Field(r, i, column) ==
  r.records[i][CHOOSE c \in DOMAIN Header(r) : Header(r)[c] = column]

(* Csv.Parse reads everything before Transform looks at any of it. *)
IsTable(r) ==
  /\ ~ r.malformed
  /\ \A i \in DOMAIN r.records : Len(r.records[i]) = Len(Header(r))

(* An empty report has no header; TryAdd refuses a second column of a name. *)
IsHeader(r) ==
  /\ r.records # <<>>
  /\ \A c \in DOMAIN Header(r) : Header(r)[c] \notin Blank
  /\ \A c, d \in DOMAIN Header(r) : Header(r)[c] = Header(r)[d] => c = d
  /\ \A column \in RequiredColumns : \E c \in DOMAIN Header(r) : Header(r)[c] = column

ModelColumns(r) == {c \in DOMAIN Header(r) : Header(r)[c] \in DOMAIN ModelOf}

EmailMissing(r, i) == Field(r, i, "User_Email") \in Blank

(* Mutant: without targets, everybody is kept. *)
IsTargetOrNoList(r, i, targets) ==
  targets = {} \/ Fold[Field(r, i, "User_Email")] \in targets

(* A HashSet of the entries that ignores letter case; no entry, no user. *)
IsTarget(r, i, targets) == Fold[Field(r, i, "User_Email")] \in targets

IsValid(r, i) ==
  /\ Field(r, i, "Date") \in Date
  /\ Field(r, i, "Client_Type") \in SupportedClientTypes
  /\ Field(r, i, "UserId") \notin Blank
  /\ \A v \in ValueColumns : Accepts(v, Field(r, i, v))
  /\ \A c \in ModelColumns(r) : IsNonNegativeLong(r.records[i][c])

(* Mutant: a user is told by the e-mail address in the row. *)
GrainByEmail(r, i) ==
  [date |-> Field(r, i, "Date"), userId |-> Field(r, i, "User_Email"),
   clientType |-> Field(r, i, "Client_Type")]

Grain(r, i) ==
  [date |-> Field(r, i, "Date"), userId |-> Field(r, i, "UserId"),
   clientType |-> Field(r, i, "Client_Type")]

UsageFact(r, i) ==
  [row |-> i, date |-> Field(r, i, "Date"), clientType |-> Field(r, i, "Client_Type"),
   userId |-> Field(r, i, "UserId"), userEmail |-> Field(r, i, "User_Email"),
   values |-> [v \in ValueColumns |-> Value(v, Field(r, i, v))]]

ModelFact(r, i, c) ==
  [row |-> i, column |-> c, date |-> Field(r, i, "Date"),
   clientType |-> Field(r, i, "Client_Type"),
   userId |-> Field(r, i, "UserId"), userEmail |-> Field(r, i, "User_Email"),
   model |-> ModelOf[Header(r)[c]], messages |-> Long[r.records[i][c]]]

ModelCells(r, i) == {ModelFact(r, i, c) : c \in ModelColumns(r)}

(* Cells that hold zero become no fact. *)
Unpivot(r, i) == {f \in ModelCells(r, i) : f.messages # 0}

-----------------------------------------------------------------------------
VARIABLES
  report,     \* what the parser reads: records, or the text is malformed
  targetList, \* the entries of the parameter
  pc,
  next,       \* the record the row loop looks at next
  usageGrains,
  usage,      \* the UsageDaily facts of all partitions
  models,     \* the ModelMessages facts of all partitions
  outputs     \* what PrepareOutputsAsync has serialized

vars == <<report, targetList, pc, next, usageGrains, usage, models, outputs>>

Init ==
  /\ report \in Reports
  /\ targetList \in {{Fold[entry] : entry \in value} : value \in TargetListValues}
  /\ pc = "parse"
  /\ next = 2
  /\ usageGrains = {}
  /\ usage = {}
  /\ models = {}
  /\ outputs = {}

(* An InvalidDataException: the call prepares nothing. *)
Throw ==
  /\ pc' = "thrown"
  /\ UNCHANGED <<report, targetList, next, usageGrains, usage, models, outputs>>

GoOn(to) ==
  /\ pc' = to
  /\ UNCHANGED <<report, targetList, next, usageGrains, usage, models, outputs>>

Parse ==
  /\ pc = "parse"
  /\ IF IsTable(report) THEN GoOn("header") ELSE Throw

CheckHeader ==
  /\ pc = "header"
  /\ IF IsHeader(report) THEN GoOn("rows") ELSE Throw

InRow == pc = "rows" /\ next \in Rows(report)

SkipRow ==
  /\ InRow
  /\ ~ EmailMissing(report, next)
  /\ ~ IsTarget(report, next, targetList)
  /\ next' = next + 1
  /\ UNCHANGED <<report, targetList, pc, usageGrains, usage, models, outputs>>

KeepRow ==
  /\ InRow
  /\ ~ EmailMissing(report, next)
  /\ IsTarget(report, next, targetList)
  /\ IsValid(report, next)
  /\ Grain(report, next) \notin usageGrains
  /\ usageGrains' = usageGrains \cup {Grain(report, next)}
  /\ usage' = usage \cup {UsageFact(report, next)}
  /\ models' = models \cup Unpivot(report, next)
  /\ next' = next + 1
  /\ UNCHANGED <<report, targetList, pc, outputs>>

(* Mutant: a row is checked whether or not its user is a target. *)
RejectAnyRow ==
  /\ InRow
  /\ EmailMissing(report, next) \/ ~ IsValid(report, next) \/ Grain(report, next) \in usageGrains
  /\ Throw

(* Only an e-mail address is required of rows of other users. *)
RejectRow ==
  /\ InRow
  /\ \/ EmailMissing(report, next)
     \/ /\ IsTarget(report, next, targetList)
        /\ ~ IsValid(report, next) \/ Grain(report, next) \in usageGrains
  /\ Throw

EndRows ==
  /\ pc = "rows"
  /\ next \notin Rows(report)
  /\ GoOn("prepare")

(* The keys of the dictionary of partitions: each got a usage fact. *)
Partitions == {[date |-> f.date, clientType |-> f.clientType] : f \in usage}

Within(partition, facts) ==
  {f \in facts : f.date = partition.date /\ f.clientType = partition.clientType}

OutputFile(table, partition, facts) ==
  [table |-> table, partition |-> partition, facts |-> Within(partition, facts)]

PreparedOutputs ==
  {OutputFile("usage_daily", p, usage) : p \in Partitions}
    \cup {OutputFile("model_messages", p, models) :
            p \in {q \in Partitions : Within(q, models) # {}}}

PrepareOutputs ==
  /\ pc = "prepare"
  /\ outputs' = PreparedOutputs
  /\ pc' = "done"
  /\ UNCHANGED <<report, targetList, next, usageGrains, usage, models>>

Next ==
  \/ Parse \/ CheckHeader
  \/ SkipRow \/ KeepRow \/ RejectRow \/ EndRows
  \/ PrepareOutputs

Spec == Init /\ [][Next]_vars

-----------------------------------------------------------------------------
(* The state keeps its type; counts of messages are positive.              *)
TypeOK ==
  /\ report \in Reports
  /\ targetList \subseteq Cell
  /\ pc \in {"parse", "header", "rows", "prepare", "done", "thrown"}
  /\ next \in Nat
  /\ \A f \in models : f.messages \in Nat \ {0}
  /\ outputs # {} => pc = "done"

(* The pipeline fails closed: at no moment is there a fact of a user whose *)
(* address is not in the Target List, and an empty list admits nobody.     *)
OnlyTargetUsers ==
  \A f \in usage \cup models : Fold[f.userEmail] \in targetList

(* Two rows never become facts of one user, day and client type, whatever  *)
(* addresses they give for the user.                                       *)
OneUsageFactPerGrain ==
  \A f, g \in usage :
    /\ f.userId = g.userId
    /\ f.date = g.date
    /\ f.clientType = g.clientType
    => f = g

ModelsAreDistinct ==
  \A c, d \in ModelColumns(report) :
    ModelOf[Header(report)[c]] = ModelOf[Header(report)[d]] => c = d

(* Nor do two cells become facts of one user, day, client type and model,  *)
(* if the header names each model once.  It may name one twice: the        *)
(* pattern's $ lets a line feed at the end of a name pass.                 *)
OneModelFactPerGrain ==
  (models # {} => ModelsAreDistinct) =>
    \A f, g \in models :
      /\ f.userId = g.userId
      /\ f.date = g.date
      /\ f.clientType = g.clientType
      /\ f.model = g.model
      => f = g

(* The facts of either table can be told apart by their grain. *)
OneFactPerGrain == OneUsageFactPerGrain /\ OneModelFactPerGrain

(* What a report says, without going through it row by row. *)
Kept == {i \in Rows(report) : IsTarget(report, i, targetList)}

IsAcceptable ==
  /\ IsTable(report) /\ IsHeader(report)
  /\ \A i \in Rows(report) : ~ EmailMissing(report, i)
  /\ \A i \in Kept : IsValid(report, i)
  /\ \A i, j \in Kept : Grain(report, i) = Grain(report, j) => i = j

(* A report is rejected as a whole when one row is without an address, a   *)
(* row to keep is bad or repeats another one to keep, and for nothing      *)
(* else: no value in a row of another user keeps the report out.           *)
RejectedWhenUnacceptable ==
  /\ pc = "thrown" => ~ IsAcceptable
  /\ pc = "done" => IsAcceptable

Files(table) == {o \in outputs : o.table = table}
FactsIn(table) == UNION {o.facts : o \in Files(table)}

(* The files hold one fact for each row to keep and one for each of its    *)
(* models in use, under the date and client type of that row; there is no  *)
(* empty file, and no two files for one table and partition.               *)
FilesHoldTheReport ==
  pc = "done" =>
    /\ FactsIn("usage_daily") = {UsageFact(report, i) : i \in Kept}
    /\ FactsIn("model_messages") =
         UNION {{f \in ModelCells(report, i) : f.messages > 0} : i \in Kept}
    /\ \A o \in outputs :
         /\ o.facts # {}
         /\ \A f \in o.facts :
              o.partition = [date |-> f.date, clientType |-> f.clientType]
    /\ \A o, q \in outputs :
         o.table = q.table /\ o.partition = q.partition => o = q
=============================================================================
