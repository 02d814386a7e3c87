------------------------- MODULE MCIngestFunction --------------------------
(* Small instances of IngestFunction for TLC. *)
EXTENDS IngestFunction, TLC

CONSTANTS s1, s2, s3, u1, u2

Unbounded == [from |-> 0, to |-> 0]

(* One report, overwritten while its events and a backfill are delivered   *)
(* late, twice and together.                                               *)
OverlapOrder == <<s1>>
OverlapUploads == s1 :> 2
OverlapHistory == s1 :> 0
OverlapDate == s1 :> 1
OverlapWindows == {Unbounded}
OverlapBatches == {<<Item(s1, 1)>>, <<Item(NoKey, 0), Item(s1, 2), Item(s1, 1)>>}

(* Three reports that predate the deployment, two to a page: one whose key *)
(* has no date, and two with different dates, of which the key of the last *)
(* ends in .CSV.                                                           *)
PagesOrder == <<s1, s2, s3>>
PagesHistory == s1 :> 1 @@ s2 :> 1 @@ s3 :> 1
PagesUploads == s1 :> 1 @@ s2 :> 2 @@ s3 :> 2
PagesDate == s1 :> NoDate @@ s2 :> 1 @@ s3 :> 2
PagesWindows == {Unbounded, [from |-> 1, to |-> 1], [from |-> 2, to |-> 1]}
=============================================================================
