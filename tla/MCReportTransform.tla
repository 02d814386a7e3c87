------------------------- MODULE MCReportTransform -------------------------
(* Small instances of ReportTransform for TLC. *)
EXTENDS ReportTransform, SequencesExt

Static ==
  <<"Date", "UserId", "Client_Type", "Chat_Conversations", "Credits_Used",
    "Overage_Cap", "Overage_Credits_Used", "Overage_Enabled", "ProfileId",
    "Subscription_Tier", "Total_Messages", "New_User", "User_Email">>

Columns == Static \o <<"auto_messages", "glm_5_messages">>

(* The pattern's $ also matches in front of a line feed at the end. *)
MCModelOf ==
  [column \in {"auto_messages", "auto_messages\n", "glm_5_messages"} |->
     IF column = "glm_5_messages" THEN "glm_5" ELSE "auto"]

MCBlank == {"", " "}
MCDate == {"2026-07-01", "2026-07-02"}
MCLong == "0" :> 0 @@ "2" :> 2 @@ "-1" :> -1
MCDouble == "0" :> 0 @@ "2" :> 2 @@ "-1" :> -1 @@ "NaN" :> NotFinite
MCBool == "true" :> TRUE @@ "FALSE" :> FALSE

Emails == {"a@x", "A@x", "b@x"}
MCCell ==
  ToSet(Columns) \cup MCBlank \cup MCDate \cup DOMAIN MCDouble \cup DOMAIN MCBool
    \cup Emails \cup SupportedClientTypes \cup DOMAIN MCModelOf
    \cup {"u1", "u2", "arn", "PRO", "WEB", "07/01/2026"}
MCFold == [text \in MCCell |-> IF text = "A@x" THEN "a@x" ELSE text]

Cells(date, user, client, cost, email, auto, glm) ==
  <<date, user, client, "2", cost, "2", "0", "FALSE", "arn", "PRO", "2", "true",
    email, auto, glm>>
Good == Cells("2026-07-01", "u1", "KIRO_CLI", "2", "a@x", "2", "0")

Set(column, text) ==
  [c \in DOMAIN Columns |-> IF Columns[c] = column THEN text ELSE Good[c]]

(* Rows of the same user on another day, with another client, under the    *)
(* same address in capitals or another one; and of another user.           *)
GoodRows ==
  { Good, Set("Date", "2026-07-02"), Set("Client_Type", "PLUGIN"),
    Set("User_Email", "A@x"), Set("User_Email", "b@x"), Set("UserId", "u2"),
    Cells("2026-07-01", "u1", "KIRO_CLI", "2", "b@x", "0", "-1"),
    Cells("2026-07-01", "u1", "KIRO_IDE", "2", "b@x", "0", "0") }

(* And one fault of each kind. *)
BadRows ==
  { Set("Date", "07/01/2026"), Set("Client_Type", "WEB"), Set("UserId", " "),
    Set("Credits_Used", "NaN"), Set("Overage_Cap", "-1"), Set("New_User", "2"),
    Set("ProfileId", ""), Set("Total_Messages", "-1"), Set("auto_messages", "-1"),
    Set("glm_5_messages", "NaN"), Set("User_Email", ""), Tail(Good) }

Table(header, rows) == [malformed |-> FALSE, records |-> <<header>> \o rows]

(* Headers with a column missing, twice or blank, and no header at all. *)
BadHeaders ==
  { Table([Columns EXCEPT ![4] = "UserId"], <<Good>>),
    Table([Columns EXCEPT ![15] = "auto_messages"], <<Good>>),
    Table([Columns EXCEPT ![15] = " "], <<Good>>),
    [malformed |-> FALSE, records |-> <<>>],
    [malformed |-> TRUE, records |-> <<Columns, Good>>] }

Body == BoundedSeq(GoodRows, 3) \cup {<<r, s>> : r \in GoodRows, s \in BadRows}
(* Columns are found by name, in any order. *)
Reversed == Table(Reverse(Columns), <<Reverse(Good), Reverse(Set("UserId", "u2"))>>)

(* A header field in quotes may end in a line feed. *)
LineFeed ==
  {Table([Columns EXCEPT ![15] = "auto_messages\n"], <<r>>) :
     r \in {Good, Set("glm_5_messages", "2")}}

MCReports ==
  {Table(Columns, rows) : rows \in Body} \cup BadHeaders \cup {Reversed} \cup LineFeed

(* Nobody, one user, the same in capitals, and both. *)
MCTargetLists == {{}, {"a@x"}, {"A@x"}, {"b@x"}, {"a@x", "b@x"}}
=============================================================================
