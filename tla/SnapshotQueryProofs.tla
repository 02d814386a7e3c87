------------------------ MODULE SnapshotQueryProofs -------------------------
(***************************************************************************)
(* What search and sample answer and where they leave it, for any records, *)
(* requests, filters, order of arrival and end of the query.               *)
(***************************************************************************)
EXTENDS SnapshotQuery, FiniteSetTheorems, WellFoundedInduction, SequenceTheorems, TLAPS

(***************************************************************************)
(* Filters.  A record that satisfies some alternative of every part of a   *)
(* filter is selected: it satisfies the run of alternatives that starts in *)
(* the last part of which it satisfies another alternative than the first. *)
(***************************************************************************)
LEMMA LeastNatural ==
  ASSUME NEW T \in SUBSET Nat, T # {}
  PROVE  \E x \in T : \A y \in T : x <= y
<1>1. PICK x \in T : \A y \in T : <<y, x>> \notin OpToRel(<, Nat)
  <2> HIDE DEF OpToRel
  <2> QED
    BY NatLessThanWellFounded, WFMin
<1>2. ASSUME NEW y \in T PROVE x <= y
  <2>1. <<y, x>> \notin OpToRel(<, Nat)
    BY <1>1
  <2>2. ~(y < x)
    BY <2>1 DEF OpToRel
  <2> QED
    BY <2>2
<1> QED
  BY <1>2

LEMMA LastPosition ==
  ASSUME NEW n \in Nat, NEW T \in SUBSET (1..n), T # {}
  PROVE  \E x \in T : \A y \in T : y <= x
<1> DEFINE D == {n - x : x \in T}
<1>0. \A x \in T : x \in 1..n
  OBVIOUS
<1>1. D \in SUBSET Nat /\ D # {}
  <2>1. \A x \in T : n - x \in Nat
    BY <1>0
  <2>2. PICK x \in T : TRUE
    OBVIOUS
  <2>3. n - x \in D
    OBVIOUS
  <2> QED
    BY <2>1, <2>3
<1>2. PICK d \in D : \A y \in D : d <= y
  BY <1>1, LeastNatural
<1>3. PICK x \in T : d = n - x
  BY <1>2
<1>4. ASSUME NEW y \in T PROVE y <= x
  <2>1. d <= n - y
    BY <1>2
  <2>2. x \in 1..n /\ y \in 1..n
    BY <1>0, Zenon
  <2> QED
    BY <1>3, <2>1, <2>2
<1> QED
  BY <1>4

(* The parts of a filter: the base filter, then the custom ones.           *)
Base(r) == build_base_filters(r)[1]

LEMMA PartsFacts ==
  ASSUME NEW r \in Requests
  PROVE  /\ Len(Parts(r)) \in Nat \ {0} /\ DOMAIN Parts(r) = 1..Len(Parts(r))
         /\ Parts(r)[1] = <<Base(r)>>
         /\ \A i \in DOMAIN Parts(r) : Parts(r)[i] \in Seq(SUBSET Records)
         /\ \A i \in 2..Len(Parts(r)) :
              \E fragment \in Range(Fragments(r)) : Parts(r)[i] = fragment.text
         /\ \A fragment \in Range(Fragments(r)) :
              \E i \in 2..Len(Parts(r)) : Parts(r)[i] = fragment.text
<1> DEFINE fs == Fragments(r)
           F == [text : Seq(SUBSET Records), balanced : BOOLEAN]
           n == Len(fs)
<1>1. fs \in Seq(F)
  BY FragmentsAssumption
<1> HIDE DEF F
<1>2. n \in Nat /\ DOMAIN fs = 1..n /\ \A i \in 1..n : fs[i] \in F
  BY <1>1, ElementOfSeq, LenProperties
<1> USE DEF F
<1> HIDE DEF fs
<1>3. Parts(r) = [i \in 1..n + 1 |-> IF i = 1 THEN build_base_filters(r) ELSE fs[i - 1].text]
  BY DEF Parts, fs
<1>4. Base(r) \in SUBSET Records /\ build_base_filters(r) = <<Base(r)>>
  BY DEF Base, build_base_filters
<1>5. \A i \in 1..n + 1 : Parts(r)[i] \in Seq(SUBSET Records)
  <2> SUFFICES ASSUME NEW i \in 1..n + 1 PROVE Parts(r)[i] \in Seq(SUBSET Records)
    OBVIOUS
  <2>1. CASE i = 1
    BY <1>3, <1>4, <2>1
  <2>2. CASE i # 1
    <3>1. i - 1 \in 1..n
      BY <1>2, <2>2
    <3> QED
      BY <1>2, <1>3, <2>2, <3>1
  <2> QED
    BY <2>1, <2>2
<1>6. Parts(r) \in Seq(Seq(SUBSET Records))
  BY <1>2, <1>3, <1>5
<1>7. Len(Parts(r)) = n + 1
  BY <1>2, <1>3, <1>6
<1>8. \A i \in 2..n + 1 : i - 1 \in 1..n /\ Parts(r)[i] = fs[i - 1].text
  BY <1>2, <1>3
<1>9. \A i \in 1..n : i + 1 \in 2..n + 1 /\ Parts(r)[i + 1] = fs[i].text
  BY <1>2, <1>3
<1>10. Range(fs) = {fs[i] : i \in 1..n}
  BY <1>2 DEF Range
<1>11. \A i \in 2..n + 1 : \E fragment \in Range(fs) : Parts(r)[i] = fragment.text
  BY <1>8, <1>10
<1>12. \A fragment \in Range(fs) : \E i \in 2..n + 1 : Parts(r)[i] = fragment.text
  BY <1>9, <1>10
<1>13. 1 \in 1..n + 1 /\ n + 1 \in Nat \ {0} /\ DOMAIN Parts(r) = 1..n + 1
  BY <1>2, <1>3
<1>14. Parts(r)[1] = <<Base(r)>>
  BY <1>3, <1>4, <1>13
<1> QED
  BY <1>5, <1>7, <1>11, <1>12, <1>13, <1>14 DEF fs

(* The base filter keeps to the location, and lets every environment pass  *)
(* that is not known to be another one.                                    *)
LEMMA BaseOfTheLocation ==
  ASSUME NEW r, NEW e
  PROVE  /\ e \in Base(r) => e \in Records /\ OfTheLocation(e, r)
         /\ e \in Records /\ OfTheLocation(e, r)
              /\ (NamedEnvironments(e) # {} => r.environment \in NamedEnvironments(e))
              => e \in Base(r)
BY DEF Base, build_base_filters, OfTheLocation, NamedEnvironments

LEMMA WantedIsSelected ==
  ASSUME NEW r \in Requests
  PROVE  Wanted(r) \subseteq Filter(r)
<1> SUFFICES ASSUME NEW e \in Wanted(r) PROVE e \in Filter(r)
  OBVIOUS
<1> DEFINE parts == Parts(r)
           n == Len(parts)
           From(i) == IF i = 1 THEN 1 ELSE 2
           T == {i \in 1..n : \E a \in From(i)..Len(parts[i]) : e \in parts[i][a]}
<1>1. /\ n \in Nat \ {0} /\ DOMAIN parts = 1..n /\ parts[1] = <<Base(r)>>
      /\ \A i \in 1..n : parts[i] \in Seq(SUBSET Records)
      /\ \A i \in 2..n : \E fragment \in Range(Fragments(r)) : parts[i] = fragment.text
  BY PartsFacts
<1>2. e \in Records /\ e \in Base(r)
  BY BaseOfTheLocation DEF Wanted
<1>3. \A i \in 2..n : parts[i] # <<>> => \E a \in 1..Len(parts[i]) : e \in parts[i][a]
  <2> SUFFICES ASSUME NEW i \in 2..n, parts[i] # <<>>
               PROVE  \E a \in 1..Len(parts[i]) : e \in parts[i][a]
    OBVIOUS
  <2>1. PICK fragment \in Range(Fragments(r)) : parts[i] = fragment.text
    BY <1>1
  <2>2. e \in UNION Range(parts[i])
    BY <2>1 DEF Wanted, PassesCustomFilters, Selects
  <2>3. i \in 1..n /\ DOMAIN parts[i] = 1..Len(parts[i])
    BY <1>1
  <2> QED
    BY <2>2, <2>3 DEF Range
<1> HIDE DEF parts
<1>4. 1 \in T /\ T \in SUBSET (1..n)
  <2>1. Len(parts[1]) = 1 /\ parts[1][1] = Base(r)
    BY <1>1
  <2>2. 1 \in From(1)..Len(parts[1]) /\ e \in parts[1][1] /\ 1 \in 1..n
    BY <1>1, <1>2, <2>1
  <2> QED
    BY <2>2
<1>5. PICK i \in T : \A j \in T : j <= i
  BY <1>1, <1>4, LastPosition
<1>6. PICK a \in From(i)..Len(parts[i]) : e \in parts[i][a]
  BY <1>5
<1>7. ASSUME NEW j \in i + 1..n, parts[j] # <<>> PROVE e \in parts[j][1]
  <2>1. j \in 2..n /\ ~(j <= i)
    BY <1>1, <1>4
  <2>2. PICK b \in 1..Len(parts[j]) : e \in parts[j][b]
    BY <1>3, <1>7, <2>1
  <2>3. j \notin T
    BY <1>5, <2>1
  <2>4. ~(b \in 2..Len(parts[j]))
    BY <1>1, <2>1, <2>2, <2>3
  <2>5. Len(parts[j]) \in Nat
    BY <1>1, <2>1
  <2>6. b = 1
    BY <2>2, <2>4, <2>5
  <2> QED
    BY <2>2, <2>6
<1>8. i \in DOMAIN parts
  BY <1>1, <1>4
<1> QED
  BY <1>2, <1>6, <1>7, <1>8 DEF Filter, parts

LEMMA SelectedFits ==
  ASSUME NEW r \in Requests, ~HasAlternatives(r), NEW e \in Filter(r)
  PROVE  OfTheLocation(e, r) /\ PassesCustomFilters(e, r)
<1> DEFINE parts == Parts(r)
           n == Len(parts)
<1>1. /\ n \in Nat \ {0} /\ DOMAIN parts = 1..n /\ parts[1] = <<Base(r)>>
      /\ \A i \in 1..n : parts[i] \in Seq(SUBSET Records)
      /\ \A i \in 2..n : \E fragment \in Range(Fragments(r)) : parts[i] = fragment.text
      /\ \A fragment \in Range(Fragments(r)) : \E i \in 2..n : parts[i] = fragment.text
  BY PartsFacts
<1>2. PICK i \in DOMAIN parts : \E a \in (IF i = 1 THEN 1 ELSE 2)..Len(parts[i]) :
        /\ e \in parts[i][a]
        /\ a = Len(parts[i]) =>
             \A j \in i + 1..Len(parts) :
               parts[j] # <<>> /\ (\A k \in i + 1..j - 1 : Len(parts[k]) <= 1) => e \in parts[j][1]
  BY DEF Filter
<1> HIDE DEF parts
<1>3. \A k \in 2..n : Len(parts[k]) <= 1 /\ Len(parts[k]) \in Nat
  <2> SUFFICES ASSUME NEW k \in 2..n PROVE Len(parts[k]) <= 1 /\ Len(parts[k]) \in Nat
    OBVIOUS
  <2>1. Len(parts[k]) \in Nat
    BY <1>1
  <2>2. ~(Len(parts[k]) > 1)
    BY <1>1 DEF HasAlternatives
  <2> QED
    BY <2>1, <2>2
<1>4. i = 1
  BY <1>1, <1>2, <1>3
<1>5. Len(parts[1]) = 1 /\ parts[1][1] = Base(r)
  BY <1>1
<1>6. /\ e \in Base(r)
      /\ \A j \in 2..n :
           parts[j] # <<>> /\ (\A k \in 2..j - 1 : Len(parts[k]) <= 1) => e \in parts[j][1]
  BY <1>2, <1>4, <1>5
<1>7. \A j \in 2..n : parts[j] # <<>> => e \in parts[j][1]
  <2> SUFFICES ASSUME NEW j \in 2..n, parts[j] # <<>> PROVE e \in parts[j][1]
    OBVIOUS
  <2>1. \A k \in 2..j - 1 : Len(parts[k]) <= 1
    BY <1>1, <1>3
  <2> QED
    BY <1>6, <2>1
<1>8. ASSUME NEW fragment \in Range(Fragments(r)), fragment.text # <<>>
      PROVE  e \in Selects(fragment.text)
  <2>1. PICK j \in 2..n : parts[j] = fragment.text
    BY <1>1
  <2>2. e \in parts[j][1]
    BY <1>7, <1>8, <2>1
  <2>3. 1 \in DOMAIN parts[j]
    BY <1>1, <1>8, <2>1
  <2> QED
    BY <2>1, <2>2, <2>3 DEF Selects, Range
<1> QED
  BY <1>6, <1>8, BaseOfTheLocation DEF PassesCustomFilters

-----------------------------------------------------------------------------
(* The window, cut to whole seconds, covers what was asked for but for the *)
(* last second.                                                            *)
LEMMA WholeSeconds ==
  ASSUME NEW time \in Int
  PROVE  /\ Epoch(time) \in Int
         /\ Epoch(time) * Second <= time
         /\ time < Epoch(time) * Second + Second
BY SecondAssumption DEF Epoch

LEMMA WindowFacts ==
  ASSUME NEW r \in Requests, Accepts(r)
  PROVE  Window(r).start \in Int /\ Window(r).end \in Int
<1>1. r.status_timestamp \in Int
  BY RequestsAssumption DEF Accepts
<1>2. SearchBefore \in Int /\ SearchAfter \in Int /\ SampleBefore \in Int /\ SampleAfter \in Int
  BY SecondAssumption DEF SearchBefore, SearchAfter, SampleBefore, SampleAfter
<1>3. CASE r.op = "sample"
  BY <1>1, <1>2, <1>3 DEF Window
<1>4. CASE r.op = "search" /\ r.start_time = None
  BY <1>1, <1>2, <1>4 DEF Window
<1>5. CASE r.op = "search" /\ r.start_time # None
  <2>1. {r.start_time, r.end_time} \subseteq Int \cup {None, Garbled}
    BY <1>5, RequestsAssumption
  <2>2. r.start_time \in Int /\ r.end_time \in Int
    BY <1>5, <2>1 DEF Accepts
  <2>3. Window(r) = [start |-> r.start_time, end |-> r.end_time]
    BY <1>5 DEF Window
  <2> QED
    BY <2>2, <2>3
<1> QED
  BY <1>3, <1>4, <1>5, RequestsAssumption

LEMMA DueIsInWindow ==
  ASSUME NEW r \in Requests, Accepts(r), NEW e \in Records,
         Window(r).start <= Log[e].time, Log[e].time <= Window(r).end - Second
  PROVE  InWindow(e, QueryOf(r))
<1> DEFINE start == Window(r).start
           end == Window(r).end
           time == Log[e].time
<1>1. start \in Int /\ end \in Int /\ time \in Int
  BY WindowFacts, LogAssumption DEF Records
<1>2. /\ QueryOf(r).start = Epoch(start)
      /\ QueryOf(r).end = Epoch(end)
  BY DEF QueryOf
<1> HIDE DEF start, end, time
<1>3. Epoch(start) \in Int /\ Epoch(start) * Second <= start
  BY <1>1, WholeSeconds
<1>4. Epoch(end) \in Int /\ end < Epoch(end) * Second + Second
  BY <1>1, WholeSeconds
<1>5. start <= time /\ time <= end - Second
  BY DEF start, end, time
<1>6. Epoch(start) * Second <= time /\ time <= Epoch(end) * Second
  <2> DEFINE a == Epoch(start) * Second
             b == Epoch(end) * Second
  <2>1. a \in Int /\ b \in Int /\ Second \in Int
    BY <1>3, <1>4, SecondAssumption
  <2>2. a <= start /\ end < b + Second
    BY <1>3, <1>4
  <2> HIDE DEF a, b
  <2>3. a <= time /\ time <= b
    BY <1>1, <1>5, <2>1, <2>2
  <2> QED
    BY <2>3 DEF a, b
<1> QED
  BY <1>2, <1>6 DEF InWindow, time

LEMMA InWindowFits ==
  ASSUME NEW r \in Requests, Accepts(r), NEW e \in Records, InWindow(e, QueryOf(r))
  PROVE  Window(r).start - Second < Log[e].time /\ Log[e].time <= Window(r).end
<1> DEFINE start == Window(r).start
           end == Window(r).end
           time == Log[e].time
           a == Epoch(start) * Second
           b == Epoch(end) * Second
<1>1. start \in Int /\ end \in Int /\ time \in Int
  BY WindowFacts, LogAssumption DEF Records
<1>2. QueryOf(r).start = Epoch(start) /\ QueryOf(r).end = Epoch(end)
  BY DEF QueryOf
<1>3. a <= time /\ time <= b
  BY <1>2 DEF InWindow
<1> HIDE DEF start, end, time
<1>4. a \in Int /\ b \in Int /\ Second \in Int
  BY <1>1, WholeSeconds, SecondAssumption
<1>5. start < a + Second /\ b <= end
  BY <1>1, WholeSeconds
<1> HIDE DEF a, b
<1>6. start - Second < time /\ time <= end
  BY <1>1, <1>3, <1>4, <1>5
<1> QED
  BY <1>6 DEF start, end, time

(* What Logs Insights answers to a query that asks the same.               *)
Question == {"filter", "start", "end", "order", "limit"}

LEMMA AnswerFacts ==
  ASSUME NEW r, NEW visible, NEW s \in Answers(visible, QueryOf(r))
  PROVE  /\ \A e \in Range(s) : e \in visible /\ e \in Filter(r) /\ InWindow(e, QueryOf(r))
         /\ \A e \in visible \cap Filter(r) :
              InWindow(e, QueryOf(r)) /\ e \notin Range(s) =>
                /\ Len(s) = IF r.op = "search" THEN r.limit ELSE 1
                /\ \A i \in DOMAIN s : IF r.op = "search" THEN Log[s[i]].time <= Log[e].time
                                       ELSE Log[s[i]].time >= Log[e].time
<1> DEFINE q == QueryOf(r)
           found == {e \in visible \cap q.filter : InWindow(e, q)}
           limit == IF r.op = "search" THEN r.limit ELSE 1
<1>1. /\ q.filter = Filter(r)
      /\ q.order = (IF r.op = "search" THEN "asc" ELSE "desc")
      /\ q.limit = limit
  BY DEF QueryOf
<1> HIDE DEF q, limit
<1>2. /\ s \in UNION {[1..n -> found] : n \in 0..q.limit}
      /\ \A e \in found \ Range(s) :
           /\ Len(s) = q.limit
           /\ \A i \in DOMAIN s : IF q.order = "asc" THEN Log[s[i]].time <= Log[e].time
                                  ELSE Log[s[i]].time >= Log[e].time
  BY DEF Answers, q
<1>3. \A i \in DOMAIN s : s[i] \in found
  BY <1>2
<1>4. \A e \in Range(s) : e \in visible /\ e \in Filter(r) /\ InWindow(e, q)
  BY <1>1, <1>3 DEF Range
<1>5. ASSUME NEW e \in visible \cap Filter(r), InWindow(e, q), e \notin Range(s)
      PROVE  /\ Len(s) = limit
             /\ \A i \in DOMAIN s : IF r.op = "search" THEN Log[s[i]].time <= Log[e].time
                                    ELSE Log[s[i]].time >= Log[e].time
  <2>1. e \in found \ Range(s)
    BY <1>1, <1>5
  <2>2. (q.order = "asc") <=> r.op = "search"
    BY <1>1
  <2> QED
    BY <1>1, <1>2, <2>1, <2>2
<1> QED
  BY <1>4, <1>5 DEF q, limit

LEMMA SameQuestion ==
  ASSUME NEW visible, NEW p, NEW q, \A f \in Question : p[f] = q[f]
  PROVE  Answers(visible, p) = Answers(visible, q)
<1>1. p.filter = q.filter /\ p.start = q.start /\ p.end = q.end /\ p.order = q.order /\ p.limit = q.limit
  BY DEF Question
<1>2. \A e : InWindow(e, p) <=> InWindow(e, q)
  BY <1>1 DEF InWindow
<1>3. {e \in visible \cap p.filter : InWindow(e, p)} = {e \in visible \cap q.filter : InWindow(e, q)}
  BY <1>1, <1>2
<1> QED
  BY <1>1, <1>3 DEF Answers

-----------------------------------------------------------------------------
(***************************************************************************)
(* The inductive invariant.  The query, once started, is that of the       *)
(* request; a completed one answers from a state of the log that had all   *)
(* that was visible when the command began; the report is a failure or the *)
(* rendering of that answer; and captured data is in a file only after it  *)
(* was made private.                                                       *)
(***************************************************************************)
CallFields == {"phase", "request", "waited", "report", "exit", "before"}
QueryFields == Question \cup {"status", "results"}

Typed ==
  /\ logs \subseteq Records /\ call.before \subseteq logs
  /\ DOMAIN call = CallFields
  /\ call.phase \in Phases
  /\ call.exit \in {None, 0, 1, 2, Sigkill}
  /\ call.phase = "done" <=> call.exit # None

Asks ==
  /\ call.phase \in {"new", "validate"} => query.status = "none"
  /\ call.phase = "validate" => call.request \in Requests
  /\ call.phase = "poll" => query.status # "none"
  /\ query.status # "none" =>
       /\ call.request \in Requests /\ Accepts(call.request)
       /\ DOMAIN query = QueryFields
       /\ \A f \in Question : query[f] = QueryOf(call.request)[f]

Completes ==
  query.status = "Complete" =>
    \E visible \in SUBSET Records :
      call.before \subseteq visible /\ query.results \in Answers(visible, query)

Good == {"Complete", "SUCCESS", "NO_SNAPSHOTS_FOUND"}

Rendering(report) ==
  /\ query.status = "Complete"
  /\ report = render(call.request, query.results)
  /\ report.status \in Good

Reports ==
  /\ call.phase \in {"new", "validate", "poll"} => call.report = NoReport
  /\ call.report = NoReport \/ is_failure(call.report) \/ Rendering(call.report)
  /\ call.phase \in {"open", "chmod", "write"} \/ call.exit = 0 => call.report # NoReport
  /\ call.exit = 0 => ~is_failure(call.report)
  /\ call.exit = 0 /\ call.request.out => file.holds \in {"part", "result"}

Private ==
  /\ DOMAIN file = {"kind", "holds", "private"}
  /\ file.private \in BOOLEAN
  /\ call.phase = "write" => file.private
  /\ DataOnlyInPrivateFile

SInv == Typed /\ Asks /\ Completes /\ Reports /\ Private

LEMMA NoNumber == None # 0 /\ None # 1 /\ None # 2 /\ None # Sigkill
BY NoneAssumption DEF Sigkill

LEMMA StatusFacts ==
  /\ "none" \notin Good /\ "crash" \notin Good /\ "none" \notin QueryFailures
  /\ Good \cap QueryFailures = {}
  /\ NoReport.status = "none"
BY DEF Good, QueryFailures, NoReport

(* What a rendering says of the results it was made from.                  *)
LEMMA RenderFacts ==
  ASSUME NEW r, NEW results
  PROVE  LET report == render(r, results) IN
         /\ report.status \in Good \cup {"crash"}
         /\ report.status # "crash" => report.results = results
         /\ report.status = "NO_SNAPSHOTS_FOUND" => results = <<>>
<1>1. CASE r.op = "search"
  BY <1>1 DEF render, render_search, Good
<1>2. CASE r.op # "search"
  BY <1>2 DEF render, render_sample, Good
<1> QED
  BY <1>1, <1>2

(* A step of the command that leaves its request and the query alone.      *)
LEMMA Settles ==
  ASSUME SInv, UNCHANGED <<logs, query>>,
         DOMAIN call' = CallFields, call'.request = call.request, call'.before = call.before,
         call'.phase \in Phases \ {"new", "validate", "poll"},
         call'.exit \in {None, 0, 1, 2, Sigkill}, call'.phase = "done" <=> call'.exit # None
  PROVE  Typed' /\ Asks' /\ Completes'
<1>1. Typed'
  BY DEF SInv, Typed
<1>2. Asks'
  BY DEF SInv, Asks
<1>3. Completes'
  BY DEF SInv, Completes
<1> QED
  BY <1>1, <1>2, <1>3

LEMMA EndOK ==
  ASSUME SInv, NEW exit \in {1, 2, Sigkill}, EndWith(exit), UNCHANGED <<logs, query>>,
         Private'
  PROVE  SInv'
<1>1. /\ DOMAIN call' = CallFields
      /\ call'.request = call.request /\ call'.before = call.before
      /\ call'.phase = "done" /\ call'.exit = exit /\ call'.report = call.report
  BY DEF SInv, Typed, EndWith, CallFields
<1>2. exit # None /\ exit # 0
  BY NoNumber DEF Sigkill
<1>3. Typed' /\ Asks' /\ Completes'
  <2>1. "done" \in Phases \ {"new", "validate", "poll"}
    BY DEF Phases
  <2> QED
    BY <1>1, <1>2, <2>1, Settles
<1>4. Reports'
  BY <1>1, <1>2 DEF SInv, Reports, Rendering, is_failure
<1> QED
  BY <1>3, <1>4 DEF SInv

LEMMA FinishOK ==
  ASSUME SInv, call.phase \in {"validate", "poll"}, NEW report, Finish(report),
         report.status = "crash" \/ is_failure(report) \/ Rendering(report),
         UNCHANGED <<logs, query, file>>
  PROVE  SInv'
<1>0. DOMAIN call = CallFields /\ call.exit = None /\ call.report = NoReport
  BY DEF SInv, Typed, Reports
<1>1. /\ DOMAIN call' = CallFields
      /\ call'.request = call.request /\ call'.before = call.before
      /\ call'.exit = 0 => ~call'.request.out
      /\ \/ call'.phase = "done" /\ call'.exit = 1 /\ call'.report = NoReport
         \/ /\ call'.phase = "open" /\ call'.exit = None
            /\ call'.report = report /\ report.status # "crash"
         \/ /\ call'.phase = "done" /\ call'.exit = (IF is_failure(report) THEN 1 ELSE 0)
            /\ call'.report = report /\ report.status # "crash"
  <2>1. CASE report.status = "crash"
    BY <1>0, <2>1, NoNumber DEF Finish, CallFields
  <2>2. CASE report.status # "crash" /\ call.request.out
    BY <1>0, <2>2, NoNumber DEF Finish, CallFields
  <2>3. CASE report.status # "crash" /\ ~call.request.out
    BY <1>0, <2>3 DEF Finish, CallFields
  <2> QED
    BY <2>1, <2>2, <2>3
<1>2. Typed' /\ Asks' /\ Completes'
  <2>1. {"open", "done"} \subseteq Phases \ {"new", "validate", "poll"}
    BY DEF Phases
  <2> QED
    BY <1>1, <2>1, NoNumber, Settles
<1>3. Reports'
  <2>1. report.status # "crash" => report # NoReport
    BY StatusFacts DEF is_failure, Rendering
  <2>2. Rendering(report) => ~is_failure(report)
    BY StatusFacts DEF is_failure, Rendering
  <2>3. ~is_failure(NoReport)
    BY StatusFacts DEF is_failure
  <2> QED
    BY <1>1, <2>1, <2>2, <2>3, NoNumber DEF Reports, Rendering, is_failure
<1>4. Private'
  BY <1>1 DEF SInv, Private, DataOnlyInPrivateFile
<1> QED
  BY <1>2, <1>3, <1>4 DEF SInv

(* The steps. *)
LEMMA StopsOK ==
  ASSUME SInv, InvalidArguments \/ BadTimeout \/ OpenFails \/ FileStepFails \/ Killed
  PROVE  SInv'
<1>1. \E exit \in {1, 2, Sigkill} : EndWith(exit)
  BY DEF InvalidArguments, BadTimeout, OpenFails, FileStepFails, Killed
<1>2. UNCHANGED <<logs, query, file>>
  BY DEF InvalidArguments, BadTimeout, OpenFails, FileStepFails, Killed
<1>3. call'.phase = "done"
  BY <1>1 DEF SInv, Typed, EndWith, CallFields
<1>4. Private'
  BY <1>2, <1>3 DEF SInv, Private, DataOnlyInPrivateFile
<1> QED
  BY <1>1, <1>2, <1>4, EndOK

LEMMA BeginOK ==
  ASSUME SInv, NEW r \in Requests, Begin(r)
  PROVE  SInv'
<1>1. DOMAIN call = CallFields /\ call.phase = "new" /\ UNCHANGED <<logs, query, file>>
  BY DEF SInv, Typed, Begin
<1>2. /\ DOMAIN call' = CallFields /\ call'.phase = "validate" /\ call'.request = r
      /\ call'.before = logs /\ call'.exit = call.exit /\ call'.report = call.report
  BY <1>1 DEF Begin, CallFields
<1>3. Typed'
  BY <1>1, <1>2 DEF SInv, Typed, Phases
<1>4. Asks' /\ Completes'
  BY <1>1, <1>2 DEF SInv, Asks, Completes
<1>5. Reports'
  BY <1>1, <1>2 DEF SInv, Typed, Reports, Rendering, is_failure
<1>6. Private'
  BY <1>1, <1>2 DEF SInv, Private, DataOnlyInPrivateFile
<1> QED
  BY <1>3, <1>4, <1>5, <1>6 DEF SInv

LEMMA FailuresAreFailures ==
  /\ \A how \in {"Error", "Timeout", "Failed", "Cancelled"} : is_failure(Failure(how))
  /\ is_failure([status |-> "ERROR"])
BY DEF is_failure, Failure, Reported, QueryFailures

LEMMA FailsOK ==
  ASSUME SInv, RejectInput \/ StartFails \/ PollingTimeout \/ GetResultsFails
  PROVE  SInv'
<1>1. call.phase \in {"validate", "poll"} /\ UNCHANGED <<logs, query, file>>
  BY DEF RejectInput, StartFails, PollingTimeout, GetResultsFails, Waits
<1>2. \E report : Finish(report) /\ is_failure(report)
  BY FailuresAreFailures DEF RejectInput, StartFails, PollingTimeout, GetResultsFails
<1> QED
  BY <1>1, <1>2, FinishOK

LEMMA StartOK ==
  ASSUME SInv, Start
  PROVE  SInv'
<1>1. /\ DOMAIN call = CallFields /\ call.phase = "validate" /\ call.request \in Requests
      /\ Accepts(call.request)
      /\ query' = QueryOf(call.request)
      /\ UNCHANGED <<logs, file>>
  BY DEF SInv, Typed, Asks, Start
<1>2. /\ DOMAIN call' = CallFields /\ call'.phase = "poll" /\ call'.request = call.request
      /\ call'.before = call.before /\ call'.exit = call.exit /\ call'.report = call.report
  BY <1>1 DEF Start, CallFields
<1>3. DOMAIN query' = QueryFields /\ query'.status = "Running"
  BY <1>1 DEF QueryOf, QueryFields, Question
<1>4. Typed'
  BY <1>1, <1>2 DEF SInv, Typed, Phases
<1>5. Asks'
  BY <1>1, <1>2, <1>3 DEF Asks
<1>6. Completes'
  BY <1>3 DEF Completes
<1>7. Reports'
  BY <1>1, <1>2 DEF SInv, Typed, Reports, Rendering, is_failure
<1>8. Private'
  BY <1>1, <1>2 DEF SInv, Private, DataOnlyInPrivateFile
<1> QED
  BY <1>4, <1>5, <1>6, <1>7, <1>8 DEF SInv

LEMMA GetResultsOK ==
  ASSUME SInv, GetResults
  PROVE  SInv'
<1>1. DOMAIN call = CallFields /\ call.phase = "poll" /\ UNCHANGED <<logs, query, file>>
  BY DEF SInv, Typed, GetResults, Waits
<1>2. CASE query.status = "Complete"
  <2> DEFINE report == render(call.request, query.results)
  <2>1. Finish(report)
    BY <1>2 DEF GetResults
  <2>2. report.status = "crash" \/ Rendering(report)
    BY <1>2, RenderFacts DEF Rendering
  <2> QED
    BY <1>1, <2>1, <2>2, FinishOK
<1>3. CASE query.status \in {"Failed", "Cancelled"}
  BY <1>1, <1>3, FailuresAreFailures, FinishOK DEF GetResults
<1>4. CASE query.status \notin {"Complete", "Failed", "Cancelled"}
  <2>1. PICK nap \in 1..MaxNap : call' = [call EXCEPT !.waited = @ + nap]
    BY <1>4 DEF GetResults
  <2>2. /\ DOMAIN call' = CallFields
        /\ \A f \in CallFields \ {"waited"} : call'[f] = call[f]
    BY <1>1, <2>1
  <2>3. /\ call'.phase = call.phase /\ call'.request = call.request /\ call'.before = call.before
        /\ call'.exit = call.exit /\ call'.report = call.report
    BY <2>2 DEF CallFields
  <2>4. Typed'
    BY <1>1, <2>2, <2>3 DEF SInv, Typed
  <2>5. Asks' /\ Completes'
    BY <1>1, <2>3 DEF SInv, Asks, Completes
  <2>6. Reports'
    BY <1>1, <2>3 DEF SInv, Reports, Rendering, is_failure
  <2>7. Private'
    BY <1>1, <2>3 DEF SInv, Private, DataOnlyInPrivateFile
  <2> QED
    BY <2>4, <2>5, <2>6, <2>7 DEF SInv
<1> QED
  BY <1>2, <1>3, <1>4

(* Writing the result, but for its failures.                               *)
LEMMA FileOK ==
  ASSUME SInv, UNCHANGED <<logs, query>>, call.phase \in {"open", "chmod"},
         NEW phase \in {"chmod", "write"}, call' = [call EXCEPT !.phase = phase],
         Private'
  PROVE  SInv'
<1>1. DOMAIN call = CallFields /\ call.exit = None
  BY DEF SInv, Typed
<1>2. /\ DOMAIN call' = CallFields /\ call'.phase = phase /\ call'.request = call.request
      /\ call'.before = call.before /\ call'.exit = None /\ call'.report = call.report
  BY <1>1 DEF CallFields
<1>3. Typed' /\ Asks' /\ Completes'
  <2>1. phase \in Phases \ {"new", "validate", "poll"} /\ phase # "done"
    BY DEF Phases
  <2> QED
    BY <1>2, <2>1, Settles
<1>4. Reports'
  BY <1>2, NoNumber DEF SInv, Reports, Rendering, is_failure
<1> QED
  BY <1>3, <1>4 DEF SInv

LEMMA OpenOutOK ==
  ASSUME SInv, OpenOut
  PROVE  SInv'
<1>1. call'.phase = "chmod"
  BY DEF SInv, Typed, OpenOut, CallFields
<1>2. Private'
  BY <1>1 DEF SInv, Private, OpenOut, DataOnlyInPrivateFile
<1> QED
  BY <1>2, FileOK DEF OpenOut

LEMMA FchmodOK ==
  ASSUME SInv, Fchmod
  PROVE  SInv'
<1>1. Private'
  BY DEF SInv, Private, Fchmod, DataOnlyInPrivateFile
<1> QED
  BY <1>1, FileOK DEF Fchmod

LEMMA WriteOutOK ==
  ASSUME SInv, WriteOut
  PROVE  SInv'
<1>1. DOMAIN call = CallFields /\ call.phase = "write" /\ call.report # NoReport
  BY DEF SInv, Typed, Reports, WriteOut
<1>2. PICK holds \in {"part", "result"} : file' = [file EXCEPT !.holds = holds]
  BY DEF WriteOut
<1>3. /\ DOMAIN call' = CallFields
      /\ call'.request = call.request /\ call'.before = call.before /\ call'.phase = "done"
      /\ call'.exit = (IF is_failure(call.report) THEN 1 ELSE 0) /\ call'.report = call.report
      /\ UNCHANGED <<logs, query>>
  BY <1>1 DEF WriteOut, EndWith, CallFields
<1>4. Typed' /\ Asks' /\ Completes'
  <2>1. "done" \in Phases \ {"new", "validate", "poll"}
    BY DEF Phases
  <2> QED
    BY <1>3, <2>1, NoNumber, Settles
<1>5. Reports'
  <2>1. file'.holds \in {"part", "result"}
    BY <1>2 DEF SInv, Private
  <2> QED
    BY <1>1, <1>3, <2>1 DEF SInv, Reports, Rendering, is_failure
<1>6. Private'
  BY <1>1, <1>2, <1>3 DEF SInv, Private, DataOnlyInPrivateFile
<1> QED
  BY <1>4, <1>5, <1>6 DEF SInv

(* Logs Insights.                                                          *)
LEMMA IngestOK ==
  ASSUME SInv, Ingest
  PROVE  SInv'
<1>1. logs' \subseteq Records /\ logs \subseteq logs' /\ UNCHANGED <<query, call, file>>
  BY DEF SInv, Typed, Ingest
<1>2. Typed'
  BY <1>1 DEF SInv, Typed
<1>3. Asks' /\ Completes'
  BY <1>1 DEF SInv, Asks, Completes
<1>4. Reports' /\ Private'
  BY <1>1 DEF SInv, Reports, Rendering, is_failure, Private, DataOnlyInPrivateFile
<1> QED
  BY <1>2, <1>3, <1>4 DEF SInv

LEMMA QueryEndsOK ==
  ASSUME SInv, QueryEnds
  PROVE  SInv'
<1>1. query.status = "Running" /\ DOMAIN query = QueryFields /\ UNCHANGED <<logs, call, file>>
  BY DEF SInv, Asks, QueryEnds
<1>2. /\ DOMAIN query' = QueryFields
      /\ \A f \in Question : query'[f] = query[f]
      /\ query'.status \in {"Complete", "Failed", "Cancelled", "Timeout"}
      /\ query'.status = "Complete" => query'.results \in Answers(logs, query)
  <2>1. CASE \E results \in Answers(logs, query) :
               query' = [query EXCEPT !.status = "Complete", !.results = results]
    BY <1>1, <2>1 DEF QueryFields, Question
  <2>2. CASE \E status \in {"Failed", "Cancelled", "Timeout"} :
               query' = [query EXCEPT !.status = status]
    BY <1>1, <2>2 DEF QueryFields, Question
  <2> QED
    BY <2>1, <2>2 DEF QueryEnds
<1>3. call.phase \notin {"new", "validate"}
  BY <1>1 DEF SInv, Asks
<1>4. Typed'
  BY <1>1 DEF SInv, Typed
<1>5. Asks'
  BY <1>1, <1>2, <1>3 DEF SInv, Asks
<1>6. Completes'
  <2>1. logs \in SUBSET Records /\ call.before \subseteq logs
    BY DEF SInv, Typed
  <2>2. Answers(logs, query) = Answers(logs, query')
    BY <1>2, SameQuestion
  <2> QED
    BY <1>1, <1>2, <2>1, <2>2 DEF Completes
<1>7. Reports'
  BY <1>1 DEF SInv, Reports, Rendering, is_failure
<1>8. Private'
  BY <1>1 DEF SInv, Private, DataOnlyInPrivateFile
<1> QED
  BY <1>4, <1>5, <1>6, <1>7, <1>8 DEF SInv

LEMMA InitOK == Init => SInv
<1> SUFFICES ASSUME Init PROVE SInv
  OBVIOUS
<1>1. /\ DOMAIN call = CallFields /\ call.phase = "new" /\ call.exit = None /\ call.before = {}
      /\ call.report = NoReport /\ query.status = "none" /\ logs = {}
  BY DEF Init, NoQuery, CallFields
<1>2. Typed
  BY <1>1 DEF Typed, Phases
<1>3. Asks /\ Completes
  BY <1>1 DEF Asks, Completes
<1>4. Reports
  BY <1>1, NoNumber DEF Reports
<1>5. Private
  BY <1>1, FilesAssumption DEF Init, Private, DataOnlyInPrivateFile
<1> QED
  BY <1>2, <1>3, <1>4, <1>5 DEF SInv

LEMMA NextOK == SInv /\ [Next]_vars => SInv'
<1> SUFFICES ASSUME SInv, [Next]_vars PROVE SInv'
  OBVIOUS
<1>1. CASE InvalidArguments \/ BadTimeout \/ OpenFails \/ FileStepFails \/ Killed
  BY <1>1, StopsOK
<1>2. CASE \E r \in Requests : Begin(r)
  BY <1>2, BeginOK
<1>3. CASE RejectInput \/ StartFails \/ PollingTimeout \/ GetResultsFails
  BY <1>3, FailsOK
<1>4. CASE Start \/ GetResults
  BY <1>4, StartOK, GetResultsOK
<1>5. CASE OpenOut \/ Fchmod \/ WriteOut
  BY <1>5, OpenOutOK, FchmodOK, WriteOutOK
<1>6. CASE Ingest \/ QueryEnds
  BY <1>6, IngestOK, QueryEndsOK
<1>7. CASE UNCHANGED vars
  <2>1. UNCHANGED <<logs, query, call, file>>
    BY <1>7 DEF vars
  <2>2. Typed' /\ Asks' /\ Completes'
    BY <2>1 DEF SInv, Typed, Asks, Completes
  <2>3. Reports' /\ Private'
    BY <2>1 DEF SInv, Reports, Rendering, is_failure, Private, DataOnlyInPrivateFile
  <2> QED
    BY <2>2, <2>3 DEF SInv
<1> QED
  BY <1>1, <1>2, <1>3, <1>4, <1>5, <1>6, <1>7 DEF Next, Starting, Polling, Writing

-----------------------------------------------------------------------------
(***************************************************************************)
(* The lines of a summary.  Whatever texts they are, they can be sorted:   *)
(* by induction on how many there are, in the form of a set of naturals.   *)
(***************************************************************************)
LEMMA Upwards ==
  ASSUME NEW n \in Nat, NEW S, 0 \in S,
         \A k \in 0..n - 1 : k \in S => k + 1 \in S
  PROVE  n \in S
<1> SUFFICES ASSUME n \notin S PROVE FALSE
  OBVIOUS
<1> DEFINE T == {k \in 0..n : k \notin S}
<1>1. T \in SUBSET Nat /\ n \in T
  OBVIOUS
<1>2. PICK x \in T : \A y \in T : x <= y
  BY <1>1, LeastNatural
<1>3. x \in 0..n /\ x # 0 /\ x \notin S
  OBVIOUS
<1>4. x - 1 \in 0..n - 1 /\ x - 1 + 1 = x
  BY <1>3
<1>5. x - 1 \notin T
  BY <1>2, <1>3
<1> QED
  BY <1>3, <1>4, <1>5

LineText == DOMAIN LineNumber \cup DOMAIN TextOrder

LEMMA LineOrder ==
  /\ \A a, b \in LineText : LineBefore(a, b) \/ LineBefore(b, a)
  /\ \A a, b, c \in LineText : LineBefore(a, b) /\ LineBefore(b, c) => LineBefore(a, c)
BY OrderAssumption DEF LineText, LineBefore, line_key

Sorted(s) == \A i, j \in DOMAIN s : i < j => LineBefore(s[i], s[j])
Sortable(texts) == \E s \in SetToSeqs(texts) : Sorted(s)

LEMMA SeqsOf ==
  ASSUME NEW T, IsFiniteSet(T)
  PROVE  /\ Cardinality(T) \in Nat
         /\ SetToSeqs(T) = Injection(1..Cardinality(T), T)
         /\ \A s \in SetToSeqs(T) : DOMAIN s = 1..Cardinality(T) /\ Range(s) = T
<1> DEFINE n == Cardinality(T)
<1>1. n \in Nat
  BY FS_CardinalityType
<1>2. SetToSeqs(T) = Injection(1..n, T)
  BY DEF SetToSeqs, Injection, IsInjective
<1> HIDE DEF n
<1>3. IsFiniteSet(1..n) /\ Cardinality(1..n) = n
  BY <1>1, FS_Interval
<1>4. ASSUME NEW s \in Injection(1..n, T) PROVE DOMAIN s = 1..n /\ Range(s) = T
  <2>1. s \in Surjection(1..n, T)
    BY <1>3, FS_Injection DEF n
  <2> QED
    BY <2>1 DEF Surjection, Range
<1> QED
  BY <1>1, <1>2, <1>4 DEF n

(* Of n + 1 texts one comes last: the last of n of them, or the other one. *)
LEMMA OneComesLast ==
  ASSUME NEW n \in Nat, NEW T \in SUBSET LineText, IsFiniteSet(T), Cardinality(T) = n + 1,
         \A U \in SUBSET T : IsFiniteSet(U) /\ Cardinality(U) = n => Sortable(U)
  PROVE  \E m \in T : \A t \in T : LineBefore(t, m)
<1>1. PICK x \in T : TRUE
  BY FS_EmptySet
<1>2. IsFiniteSet(T \ {x}) /\ Cardinality(T \ {x}) = n
  BY FS_RemoveElement
<1>3. PICK s \in SetToSeqs(T \ {x}) : Sorted(s)
  BY <1>2 DEF Sortable
<1>4. DOMAIN s = 1..n /\ Range(s) = T \ {x}
  BY <1>2, SeqsOf
<1>5. CASE n = 0
  <2>1. T = {x}
    BY <1>2, <1>5, FS_EmptySet
  <2> QED
    BY <2>1, LineOrder
<1>6. CASE n # 0
  <2>1. n \in 1..n /\ s[n] \in T
    BY <1>4, <1>6 DEF Range
  <2>2. ASSUME NEW t \in T \ {x} PROVE LineBefore(t, s[n])
    <3>1. PICK i \in 1..n : s[i] = t
      BY <1>4 DEF Range
    <3>2. CASE i = n
      BY <2>1, <3>1, <3>2, LineOrder
    <3>3. CASE i # n
      BY <1>3, <1>4, <2>1, <3>1, <3>3 DEF Sorted
    <3> QED
      BY <3>2, <3>3
  <2>3. CASE LineBefore(x, s[n])
    BY <2>1, <2>2, <2>3
  <2>4. CASE LineBefore(s[n], x)
    <3>1. ASSUME NEW t \in T PROVE LineBefore(t, x)
      <4>1. CASE t = x
        BY <4>1, LineOrder
      <4>2. CASE t # x
        BY <2>1, <2>2, <2>4, <4>2, LineOrder
      <4> QED
        BY <4>1, <4>2
    <3> QED
      BY <3>1
  <2> QED
    BY <2>1, <2>3, <2>4, LineOrder
<1> QED
  BY <1>5, <1>6

(* It goes to the end of the others, sorted.                               *)
LEMMA SortedWithLast ==
  ASSUME NEW n \in Nat, NEW T, IsFiniteSet(T), Cardinality(T) = n + 1,
         NEW m \in T, \A t \in T : LineBefore(t, m), Sortable(T \ {m})
  PROVE  Sortable(T)
<1>1. IsFiniteSet(T \ {m}) /\ Cardinality(T \ {m}) = n
  BY FS_RemoveElement
<1>2. PICK s \in SetToSeqs(T \ {m}) : Sorted(s)
  BY DEF Sortable
<1>3. s \in Injection(1..n, T \ {m})
  BY <1>1, <1>2, SeqsOf
<1>4. /\ DOMAIN s = 1..n /\ \A i \in 1..n : s[i] \in T /\ s[i] # m
      /\ \A i, j \in 1..n : s[i] = s[j] => i = j
  BY <1>3 DEF Injection, IsInjective
<1> DEFINE l == [i \in 1..n + 1 |-> IF i = n + 1 THEN m ELSE s[i]]
<1>5. \A i \in 1..n + 1 : i = n + 1 \/ i \in 1..n
  OBVIOUS
<1>6. l \in [1..n + 1 -> T] /\ \A i, j \in 1..n + 1 : l[i] = l[j] => i = j
  BY <1>4, <1>5
<1>7. l \in SetToSeqs(T)
  BY <1>6, SeqsOf DEF Injection, IsInjective
<1>8. ASSUME NEW i \in 1..n + 1, NEW j \in 1..n + 1, i < j PROVE LineBefore(l[i], l[j])
  <2>1. i \in 1..n /\ l[i] = s[i]
    BY <1>8
  <2>2. CASE j = n + 1
    BY <1>4, <2>1, <2>2
  <2>3. CASE j # n + 1
    <3>1. j \in 1..n /\ l[j] = s[j]
      BY <2>3
    <3> QED
      BY <1>2, <1>4, <1>8, <2>1, <3>1 DEF Sorted
  <2> QED
    BY <2>2, <2>3
<1>9. Sorted(l)
  BY <1>8 DEF Sorted
<1> QED
  BY <1>7, <1>9 DEF Sortable

LEMMA LinesAreSortable ==
  ASSUME NEW T \in SUBSET LineText, IsFiniteSet(T)
  PROVE  Sortable(T)
<1> DEFINE S == {n \in Nat : \A U \in SUBSET LineText :
                    IsFiniteSet(U) /\ Cardinality(U) = n => Sortable(U)}
<1>1. 0 \in S
  <2> SUFFICES ASSUME NEW U \in SUBSET LineText, IsFiniteSet(U), Cardinality(U) = 0
               PROVE  Sortable(U)
    OBVIOUS
  <2> DEFINE none == [i \in 1..0 |-> i]
  <2>1. SetToSeqs(U) = Injection(1..0, U)
    BY SeqsOf
  <2>2. none \in Injection(1..0, U)
    BY DEF Injection, IsInjective
  <2>3. Sorted(none)
    BY DEF Sorted
  <2> QED
    BY <2>1, <2>2, <2>3 DEF Sortable
<1>2. ASSUME NEW n \in Nat, n \in S PROVE n + 1 \in S
  <2> SUFFICES ASSUME NEW U \in SUBSET LineText, IsFiniteSet(U), Cardinality(U) = n + 1
               PROVE  Sortable(U)
    OBVIOUS
  <2>1. \A V \in SUBSET U : IsFiniteSet(V) /\ Cardinality(V) = n => Sortable(V)
    BY <1>2
  <2>2. PICK m \in U : \A t \in U : LineBefore(t, m)
    BY <2>1, OneComesLast
  <2>3. IsFiniteSet(U \ {m}) /\ Cardinality(U \ {m}) = n
    <3>1. /\ IsFiniteSet(U \ {m})
          /\ Cardinality(U \ {m}) = IF m \in U THEN Cardinality(U) - 1 ELSE Cardinality(U)
      BY FS_RemoveElement, Zenon
    <3>2. Cardinality(U) - 1 = n
      OBVIOUS
    <3> QED
      BY <3>1, <3>2
  <2>4. Sortable(U \ {m})
    <3>1. U \ {m} \in SUBSET U
      OBVIOUS
    <3> QED
      BY <2>1, <2>3, <3>1, Zenon
  <2> QED
    BY <2>2, <2>4, SortedWithLast
<1>3. Cardinality(T) \in Nat
  BY FS_CardinalityType
<1>4. Cardinality(T) \in S
  <2> HIDE DEF S
  <2> QED
    BY <1>1, <1>2, <1>3, Upwards
<1> QED
  BY <1>4

LEMMA SortedLinesFacts ==
  ASSUME NEW T \in SUBSET LineText, IsFiniteSet(T)
  PROVE  LET s == SortedLines(T)
         IN Range(s) = T /\ Sorted(s) /\ s \in [DOMAIN s -> T] /\ DOMAIN s \subseteq Nat
<1>1. SortedLines(T) \in SetToSeqs(T) /\ Sorted(SortedLines(T))
  BY LinesAreSortable DEF Sortable, Sorted, SortedLines
<1>2. SortedLines(T) \in [1..Cardinality(T) -> T]
  BY <1>1, SeqsOf DEF Injection
<1> QED
  BY <1>1, <1>2, SeqsOf

(* A summary says nothing of a value only when it is null, and nothing of  *)
(* a collection of values only when it is empty.                           *)
LEMMA PreviewShows ==
  ASSUME NEW v
  PROVE  preview_captured_value(v) = Nothing <=> v = Nothing
<1>1. ASSUME NEW x PROVE PreviewOf(v, x) = Nothing <=> v = Nothing
  <2>1. CASE ~IsDict(v)
    BY <2>1 DEF PreviewOf
  <2>2. CASE IsDict(v)
    <3>1. PreviewOf(v, x) = v \/ \E f : PreviewOf(v, x) = Dict(f)
      BY <2>2 DEF PreviewOf
    <3>2. v # Nothing /\ \A f : Dict(f) # Nothing
      BY <2>2 DEF IsDict, Dict, Nothing, Atom
    <3> QED
      BY <3>1, <3>2
  <2> QED
    BY <2>1, <2>2
<1>2. \E x : preview_captured_value(v) = PreviewOf(v, x)
  BY DEF preview_captured_value
<1> QED
  BY <1>1, <1>2

LEMMA PreviewsShow ==
  ASSUME NEW f, IsObject(f)
  PROVE  DOMAIN Previews(f) = DOMAIN f /\ (Previews(f) = Empty <=> f = Empty)
<1>1. DOMAIN Previews(f) = DOMAIN f
  BY DEF Previews
<1>2. CASE DOMAIN f = {}
  <2>1. f = Empty
    BY <1>2 DEF IsObject, Empty
  <2>2. Previews(f) = Empty
    BY <1>2 DEF Previews, Empty
  <2> QED
    BY <1>1, <2>1, <2>2
<1>3. CASE DOMAIN f # {}
  BY <1>1, <1>3 DEF Empty
<1> QED
  BY <1>2, <1>3
(* What the summary lists: the lines that captured something, sorted, and  *)
(* the locals of each of them.                                             *)
Listing(lines, summary) ==
  LET listed == summary.line_numbers
  IN /\ Range(listed) = {l \in DOMAIN lines : Captured(lines[l])}
     /\ listed \in [DOMAIN listed -> LineText] /\ DOMAIN listed \subseteq Nat /\ Sorted(listed)
     /\ \A l \in Range(listed) : \A name \in DOMAIN DictAt(lines[l].of, "locals") :
          name \in DOMAIN summary.line_locals[l]

LEMMA SummaryListing ==
  ASSUME NEW e \in DOMAIN Log
  PROVE  Listing(LineCaptures(Log[e].message), parse_snapshot_fields(Log[e].message))
<1> DEFINE message == Log[e].message
           lines == LineCaptures(message)
           seen == LinesOf(lines)
           at(l, what) == DictAt(lines[l].of, what)
           locals == LinesWith([l \in seen |-> Previews(at(l, "locals"))], Empty)
           arguments == LinesWith([l \in seen |-> Previews(at(l, "arguments"))], Empty)
           returned == LinesWith([l \in seen |-> preview_captured_value(At(lines[l].of, "return_value"))],
                                 Nothing)
           thrown == LinesWith([l \in seen |-> Thrown(at(l, "throwable"))], Nothing)
           found == UNION {DOMAIN locals, DOMAIN arguments, DOMAIN returned, DOMAIN thrown}
           summary == parse_snapshot_fields(message)
<1>1. summary.line_numbers = SortedLines(found) /\ summary.line_locals = locals
  BY DEF parse_snapshot_fields
<1>2. /\ IsFiniteSet(DOMAIN lines) /\ DOMAIN lines \subseteq LineText
      /\ \A l \in seen : \A what \in {"locals", "arguments", "throwable"} : IsObject(at(l, what))
  BY LinesAssumption DEF LineText, IsObject
<1>3. DOMAIN locals = {l \in seen : at(l, "locals") # Empty}
  <2>1. DOMAIN locals = {l \in seen : Previews(at(l, "locals")) # Empty}
    BY DEF LinesWith
  <2> QED
    BY <1>2, <2>1, PreviewsShow
<1>4. DOMAIN arguments = {l \in seen : at(l, "arguments") # Empty}
  <2>1. DOMAIN arguments = {l \in seen : Previews(at(l, "arguments")) # Empty}
    BY DEF LinesWith
  <2> QED
    BY <1>2, <2>1, PreviewsShow
<1>5. DOMAIN returned = {l \in seen : At(lines[l].of, "return_value") # Nothing}
  <2>1. DOMAIN returned =
          {l \in seen : preview_captured_value(At(lines[l].of, "return_value")) # Nothing}
    BY DEF LinesWith
  <2> QED
    BY <2>1, PreviewShows
<1>6. DOMAIN thrown = {l \in seen : at(l, "throwable") # Empty}
  <2>1. DOMAIN thrown = {l \in seen : Thrown(at(l, "throwable")) # Nothing}
    BY DEF LinesWith
  <2>2. \A t : Thrown(t) = Nothing <=> t = Empty
    BY DEF Thrown, Dict, Nothing, Atom
  <2> QED
    BY <2>1, <2>2
<1>7. \A l \in DOMAIN locals : locals[l] = Previews(at(l, "locals"))
  BY DEF LinesWith
<1> HIDE DEF locals, arguments, returned, thrown, lines, summary
<1>8. found = {l \in DOMAIN lines : Captured(lines[l])}
  BY <1>3, <1>4, <1>5, <1>6 DEF Captured, LinesOf
<1> HIDE DEF found
<1>9. IsFiniteSet(found) /\ found \in SUBSET LineText
  BY <1>2, <1>8, FS_Subset
<1>10. Range(SortedLines(found)) = found /\ Sorted(SortedLines(found))
  BY <1>9, SortedLinesFacts
<1>11. ASSUME NEW l \in found, NEW name \in DOMAIN at(l, "locals")
       PROVE  name \in DOMAIN summary.line_locals[l]
  <2>1. l \in seen /\ IsObject(at(l, "locals"))
    BY <1>2, <1>8 DEF Captured, LinesOf
  <2>2. at(l, "locals") # Empty
    BY <1>11 DEF Empty
  <2>3. l \in DOMAIN locals
    BY <1>3, <2>1, <2>2
  <2> QED
    BY <1>1, <1>7, <1>11, <2>1, <2>3, PreviewsShow
<1> QED
  BY <1>1, <1>8, <1>9, <1>10, <1>11, SortedLinesFacts DEF Listing, lines, summary

-----------------------------------------------------------------------------
(***************************************************************************)
(* The theorems.                                                           *)
(***************************************************************************)
(* A command that exits with 0 holds the rendering of what its query       *)
(* found.                                                                  *)
LEMMA AnswerIsRendered ==
  ASSUME SInv, Answered
  PROVE  /\ Rendering(call.report)
         /\ call.report.results = query.results
         /\ call.request \in Requests /\ Accepts(call.request)
         /\ \E visible \in SUBSET Records :
              /\ call.before \subseteq visible
              /\ query.results \in Answers(visible, QueryOf(call.request))
<1>1. call.report # NoReport /\ ~is_failure(call.report)
  BY DEF SInv, Reports, Answered
<1>2. Rendering(call.report)
  BY <1>1 DEF SInv, Reports
<1>3. query.status = "Complete"
  BY <1>2 DEF Rendering
<1>4. call.report.results = query.results
  BY <1>2, RenderFacts, StatusFacts DEF Rendering
<1>5. /\ call.request \in Requests /\ Accepts(call.request)
      /\ \A f \in Question : query[f] = QueryOf(call.request)[f]
  BY <1>3 DEF SInv, Asks
<1>6. PICK visible \in SUBSET Records :
        call.before \subseteq visible /\ query.results \in Answers(visible, query)
  BY <1>3 DEF SInv, Completes
<1>7. Answers(visible, query) = Answers(visible, QueryOf(call.request))
  BY <1>5, SameQuestion
<1> QED
  BY <1>2, <1>4, <1>5, <1>6, <1>7

(* Every report, answer and file of a command comes from the query of its  *)
(* request: SInv holds in every state, for any log, request, order of      *)
(* arrival and end of the query.                                           *)
THEOREM QueryIsTracked == Spec => []SInv
BY InitOK, NextOK, PTL DEF Spec

(* An exit code comes with the end of the command and only then, and what  *)
(* is reported has one of the documented statuses, in every state of       *)
(* search, sample and their query.                                         *)
THEOREM SnapshotTypes == Spec => []TypeOK
<1>1. SInv => TypeOK
  <2> SUFFICES ASSUME SInv PROVE TypeOK
    OBVIOUS
  <2>1. call.report.status \in Statuses
    <3>1. CASE call.report = NoReport
      BY <3>1, StatusFacts DEF Statuses
    <3>2. CASE is_failure(call.report)
      BY <3>2 DEF is_failure, Statuses
    <3>3. CASE Rendering(call.report)
      BY <3>3 DEF Rendering, Good, Statuses
    <3> QED
      BY <3>1, <3>2, <3>3 DEF SInv, Reports
  <2> QED
    BY <2>1 DEF SInv, Typed, Asks, Private, TypeOK
<1> QED
  BY <1>1, QueryIsTracked, PTL

(* Exit code 0 comes with a report of all that a query found that ran to   *)
(* its end, however validation, start, polling and rendering may fail, and *)
(* with --out only after the write.  That the file then holds all of the   *)
(* report is not said: the write may take a part of it.                    *)
THEOREM ExitZeroIsTrue == Spec => []ExitZeroIsTheAnswer
<1>1. SInv => ExitZeroIsTheAnswer
  <2> SUFFICES ASSUME SInv, Answered
               PROVE  /\ query.status = "Complete"
                      /\ call.report.results = query.results
                      /\ call.report.status = "NO_SNAPSHOTS_FOUND" => query.results = <<>>
                      /\ call.request.out => file.holds \in {"part", "result"}
    BY DEF ExitZeroIsTheAnswer
  <2>1. Rendering(call.report) /\ call.report.results = query.results
    BY AnswerIsRendered
  <2> QED
    BY <2>1, RenderFacts DEF Rendering, SInv, Reports, Answered
<1> QED
  BY <1>1, QueryIsTracked, PTL

(* What search and sample answer with lies in the window asked for, cut to *)
(* whole seconds, whatever the custom filters; and if none joins           *)
(* alternatives by "or", it was captured at the location asked for and     *)
(* satisfies every one.                                                    *)
THEOREM ResultsFit == Spec => []ResultsFitTheRequest
<1>1. SInv => ResultsFitTheRequest
  <2> DEFINE r == call.request
  <2> SUFFICES ASSUME SInv, Answered, NEW e \in Range(call.report.results)
               PROVE  /\ Window(r).start - Second < Log[e].time /\ Log[e].time <= Window(r).end
                      /\ HasAlternatives(r) \/ (OfTheLocation(e, r) /\ PassesCustomFilters(e, r))
    BY DEF ResultsFitTheRequest
  <2>1. /\ call.report.results = query.results /\ r \in Requests /\ Accepts(r)
        /\ \E visible \in SUBSET Records : query.results \in Answers(visible, QueryOf(r))
    BY AnswerIsRendered
  <2>2. e \in Records /\ e \in Filter(r) /\ InWindow(e, QueryOf(r))
    BY <2>1, AnswerFacts
  <2>3. Window(r).start - Second < Log[e].time /\ Log[e].time <= Window(r).end
    BY <2>1, <2>2, InWindowFits
  <2>4. ~HasAlternatives(r) => OfTheLocation(e, r) /\ PassesCustomFilters(e, r)
    BY <2>1, <2>2, SelectedFits
  <2> QED
    BY <2>3, <2>4
<1> QED
  BY <1>1, QueryIsTracked, PTL

(* An answer leaves out no wanted record that was visible when the command *)
(* began and lies in the window, unless nearer ones use up the limit.      *)
(* Custom filters that join alternatives by "or" lose none either.         *)
THEOREM NothingIsMissed == Spec => []NothingMissed
<1>1. SInv => NothingMissed
  <2> SUFFICES ASSUME SInv PROVE NothingMissed
    OBVIOUS
  <2> DEFINE r == call.request
             shown == call.report.results
             limit == IF r.op = "search" THEN r.limit ELSE 1
             due == {e \in call.before \cap Wanted(r) :
                       Window(r).start <= Log[e].time /\ Log[e].time <= Window(r).end - Second}
  <2>1. SUFFICES ASSUME Answered, NEW e \in due \ Range(shown)
                 PROVE  /\ Len(shown) = limit
                        /\ \A i \in DOMAIN shown : IF r.op = "search"
                                                   THEN Log[shown[i]].time <= Log[e].time
                                                   ELSE Log[shown[i]].time >= Log[e].time
    BY DEF NothingMissed
  <2>2. shown = query.results /\ r \in Requests /\ Accepts(r)
    BY <2>1, AnswerIsRendered
  <2>3. PICK visible \in SUBSET Records :
          call.before \subseteq visible /\ query.results \in Answers(visible, QueryOf(r))
    BY <2>1, AnswerIsRendered
  <2>4. e \in visible \cap Filter(r)
    BY <2>1, <2>2, <2>3, WantedIsSelected
  <2>5. InWindow(e, QueryOf(r))
    BY <2>1, <2>2, <2>3, DueIsInWindow
  <2>6. e \notin Range(query.results)
    BY <2>1, <2>2
  <2> HIDE DEF r, shown, limit
  <2>7. /\ Len(query.results) = IF r.op = "search" THEN r.limit ELSE 1
        /\ \A i \in DOMAIN query.results : IF r.op = "search"
                                           THEN Log[query.results[i]].time <= Log[e].time
                                           ELSE Log[query.results[i]].time >= Log[e].time
    BY <2>3, <2>4, <2>5, <2>6, AnswerFacts
  <2> QED
    BY <2>2, <2>7 DEF limit
<1> QED
  BY <1>1, QueryIsTracked, PTL

(* Captured data is only ever in a file of the user alone, whatever was at *)
(* the --out path before and wherever the command fails or is killed.      *)
THEOREM CapturedDataStaysPrivate == Spec => []DataOnlyInPrivateFile
<1>1. SInv => DataOnlyInPrivateFile
  BY DEF SInv, Private
<1> QED
  BY <1>1, QueryIsTracked, PTL

(* The compact summary of a sampled snapshot lists exactly the lines that  *)
(* captured something, numbers by value and before other texts, with every *)
(* local, for any snapshot whose lines are told apart by texts.            *)
THEOREM SummaryIsComplete == Spec => []SummaryShowsEveryLine
<1>1. SInv => SummaryShowsEveryLine
  <2> SUFFICES ASSUME SInv, Answered, call.report.status = "SUCCESS", call.report.parsed
               PROVE  SummaryShowsEveryLine
    BY DEF SummaryShowsEveryLine
  <2> DEFINE e == call.report.results[1]
             lines == LineCaptures(Log[e].message)
             summary == call.report.sample_snapshot
             listed == summary.line_numbers
  <2>1. e \in DOMAIN Log /\ summary = parse_snapshot_fields(Log[e].message)
    <3> DEFINE results == query.results
               report == render(call.request, results)
    <3>1. call.report = report /\ call.report.results = results
      BY AnswerIsRendered DEF Rendering
    <3>2. report = render_sample(results, call.request.include_raw)
      <4>1. render_search(results).status # "SUCCESS"
        BY DEF render_search
      <4> QED
        BY <3>1, <4>1 DEF render
    <3>3. results # <<>> /\ results \in Seq(Records)
      <4>1. results # <<>>
        BY <3>1, <3>2 DEF render_sample
      <4>2. PICK visible \in SUBSET Records : results \in Answers(visible, QueryOf(call.request))
        BY AnswerIsRendered
      <4> QED
        BY <4>1, <4>2 DEF Answers
    <3>4. results[1] \in Records
      BY <3>3
    <3>5. summary = Compact[results[1]]
      <4> DEFINE message == Log[results[1]].message
                 use_parsed == message \in Large /\ ~call.request.include_raw
      <4>1. report = [ status |-> "SUCCESS", results |-> results, parsed |-> use_parsed,
                       sample_snapshot |-> IF use_parsed THEN Compact[results[1]]
                                           ELSE AsJson(message) ]
        BY <3>2, <3>3 DEF render_sample
      <4> HIDE DEF use_parsed, report, results, message
      <4>2. report.parsed = use_parsed
        BY <4>1
      <4>3. report.sample_snapshot = IF use_parsed THEN Compact[results[1]] ELSE AsJson(message)
        BY <4>1
      <4>4. use_parsed
        BY <3>1, <4>2
      <4> QED
        BY <3>1, <4>3, <4>4
    <3> QED
      BY <3>1, <3>4, <3>5 DEF Compact, Records
  <2>2. Listing(lines, summary)
    BY <2>1, SummaryListing
  <2> HIDE DEF lines, summary
  <2>3. ASSUME NEW i \in DOMAIN listed, NEW j \in DOMAIN listed,
               i < j, listed[j] \in DOMAIN LineNumber
        PROVE  /\ listed[i] \in DOMAIN LineNumber
               /\ LineNumber[listed[i]] <= LineNumber[listed[j]]
    <3>1. LineBefore(listed[i], listed[j]) /\ listed[i] \in LineText
      BY <2>2, <2>3 DEF Listing, Sorted
    <3> QED
      BY <2>3, <3>1, OrderAssumption DEF LineBefore, line_key, LineText
  <2> QED
    BY <2>2, <2>3 DEF Listing, SummaryShowsEveryLine, lines, summary
<1> QED
  BY <1>1, QueryIsTracked, PTL
=============================================================================
