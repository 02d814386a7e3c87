---------------------- MODULE GrafanaProvisionerProofs ----------------------
(***************************************************************************)
(* The temporary service accounts of the provisioner and the configuration *)
(* it leaves, for every number of requests, attempts and health checks.    *)
(***************************************************************************)
EXTENDS GrafanaProvisioner, TLAPS

(***************************************************************************)
(* The inductive invariant says at each phase of an invocation whether the *)
(* account of the attempt can be there, and that no later one is.          *)
(***************************************************************************)
Phase == DOMAIN Following \cup
         {"none", "queued", "deleteToken", "deleteAccount", "success", "failed", "ended"}
AccountName == Request \X (1..MaxAttempts)

Fields == { "phase", "attempt", "type", "version", "account", "token", "failed", "cleanup",
            "polls", "answered" }

Workspace ==
  [ granted : SUBSET Version, folder : BOOLEAN, plugin : {"absent", "installing", "ready"},
    dataSource : Version \cup {None}, fleet : Version \cup {None},
    drilldown : Version \cup {None}, accounts : SUBSET AccountName, tokens : SUBSET AccountName ]

Stack ==
  [ number : 0..MaxRequests, open : BOOLEAN,
    answer : {"none", "success", "failed", "timeout"}, late : BOOLEAN ]

(* The phases in which the account is known, and those in which there is   *)
(* none.                                                                   *)
Holding == (DOMAIN Following \ {"permissions", "account"}) \cup {"deleteToken", "deleteAccount"}
Clear == {"permissions", "account", "success"}

InvocationOK(n, c, accounts, number) ==
  /\ DOMAIN c = Fields
  /\ c.phase \in Phase
  /\ c.attempt \in 0..MaxAttempts
  /\ c.polls \in 0..MaxPolls
  /\ c.phase = "none" <=> n > number
  /\ c.phase = "none" => c.attempt = 0
  /\ c.phase # "none" => c.version \in Version
  /\ c.phase = "queued" => c.attempt < MaxAttempts
  /\ c.phase \notin {"none", "queued"} => c.attempt > 0
  /\ c.phase \in {"permissions", "account"} => c.account = None
  /\ c.phase \in Holding => c.account = <<n, c.attempt>>
  /\ c.phase = "token" => <<n, c.attempt>> \in accounts
  /\ c.phase \in Clear => <<n, c.attempt>> \notin accounts
  /\ c.answered = "success" => c.phase = "ended" /\ <<n, c.attempt>> \notin accounts
  /\ \A k \in 1..MaxAttempts : k > c.attempt => <<n, k>> \notin accounts

Inv ==
  /\ stack \in Stack
  /\ workspace \in Workspace
  /\ workspace.tokens \subseteq workspace.accounts
  /\ DOMAIN inv = Request
  /\ \A n \in Request : InvocationOK(n, inv[n], workspace.accounts, stack.number)

-----------------------------------------------------------------------------
LEMMA Bounds == MaxRequests \in Nat /\ Request \subseteq Nat /\ MaxAttempts \in Nat \ {0} /\ MaxPolls \in Nat
BY DeploymentsAssumption, BoundAssumption DEF MaxRequests, Request

LEMMA Steps == DOMAIN Following = {"permissions", "account", "token", "folder", "plugin",
                                   "dataSource", "verify", "assets", "fleet", "drilldown"}
BY DEF Following

LEMMA InitOK == Init => Inv
<1> SUFFICES ASSUME Init PROVE Inv
  OBVIOUS
<1>2. stack \in Stack /\ workspace \in Workspace
  BY Bounds DEF Init, Stack, Workspace
<1>3. \A n \in Request : InvocationOK(n, NewInvocation, {}, 0)
  BY Bounds, Steps DEF InvocationOK, NewInvocation, Request, Holding, Clear, Fields, Phase
<1> QED
  BY <1>2, <1>3 DEF Init, Inv

(* The step of one invocation, which touches no account but its own.       *)
LEMMA OneInvocation ==
  ASSUME Inv, NEW n \in Request, NEW d,
         inv' = [inv EXCEPT ![n] = d],
         stack' \in Stack, stack'.number = stack.number,
         workspace' \in Workspace, workspace'.tokens \subseteq workspace'.accounts,
         \A a \in AccountName : a[1] # n => (a \in workspace'.accounts <=> a \in workspace.accounts),
         InvocationOK(n, d, workspace'.accounts, stack.number)
  PROVE  Inv'
<1>1. DOMAIN inv' = Request
  BY DEF Inv
<1>2. ASSUME NEW m \in Request
      PROVE  InvocationOK(m, inv'[m], workspace'.accounts, stack.number)
  <2>1. CASE m = n
    BY <2>1 DEF Inv
  <2>2. CASE m # n
    <3>1. inv'[m] = inv[m] /\ InvocationOK(m, inv[m], workspace.accounts, stack.number)
      BY <2>2 DEF Inv
    <3>2. ASSUME NEW k PROVE <<m, k>> \in workspace'.accounts <=> <<m, k>> \in workspace.accounts
      <4>1. CASE <<m, k>> \in AccountName
        BY <2>2, <4>1
      <4>2. CASE <<m, k>> \notin AccountName
        BY <4>2 DEF Inv, Workspace
      <4> QED
        BY <4>1, <4>2
    <3> QED
      BY <3>1, <3>2 DEF InvocationOK
  <2> QED
    BY <2>1, <2>2
<1> QED
  BY <1>1, <1>2 DEF Inv

(* What is left of an attempt that is over. *)
LEMMA OverFacts ==
  ASSUME NEW c, NEW phase
  PROVE  LET o == Over(c, phase) IN
         /\ DOMAIN o = Fields
         /\ o.phase = phase /\ o.attempt = c.attempt /\ o.version = c.version
         /\ o.answered = "none" /\ o.polls = 0
BY DEF Over, NewInvocation, Fields

(* An attempt that is over leaves no more accounts than it had. *)
LEMMA EndedOK ==
  ASSUME Inv, NEW n \in Request, Running(n),
         inv' = [inv EXCEPT ![n] = Ended(@)],
         stack' \in Stack, stack'.number = stack.number, workspace' = workspace
  PROVE  Inv'
<1> DEFINE c == inv[n]
           phase == IF c.attempt < MaxAttempts THEN "queued" ELSE "ended"
           d == Over(c, phase)
<1>1. InvocationOK(n, c, workspace.accounts, stack.number)
  BY DEF Inv
<1>2. inv' = [inv EXCEPT ![n] = d]
  BY DEF Ended, Inv
<1>3. /\ DOMAIN d = Fields
      /\ d.phase = phase /\ d.attempt = c.attempt /\ d.version = c.version
      /\ d.answered = "none" /\ d.polls = 0
  BY OverFacts
<1> HIDE DEF d
<1>4. InvocationOK(n, d, workspace.accounts, stack.number)
  BY <1>1, <1>3, Bounds, Steps DEF InvocationOK, Holding, Clear, Running, Phase
<1> QED
  BY <1>2, <1>3, <1>4, OneInvocation DEF Inv

LEMMA InvokeOK ==
  ASSUME Inv, NEW n \in Request, Invoke(n)
  PROVE  Inv'
<1> DEFINE c == inv[n]
           phase == IF c.type = "Delete" THEN "success"
                    ELSE IF c.version \in Incomplete THEN "failed" ELSE "permissions"
           d == [ NewInvocation EXCEPT !.type = c.type, !.version = c.version,
                                       !.attempt = c.attempt + 1, !.phase = phase ]
<1>1. InvocationOK(n, c, workspace.accounts, stack.number) /\ c.phase = "queued"
  BY DEF Inv, Invoke
<1>2. inv' = [inv EXCEPT ![n] = d] /\ UNCHANGED <<stack, workspace>>
  BY DEF Invoke
<1>3. c.attempt < MaxAttempts /\ c.attempt \in Nat /\ phase \in {"success", "failed", "permissions"}
  BY <1>1, Bounds DEF InvocationOK
<1> HIDE DEF phase
<1>4. /\ DOMAIN d = Fields
      /\ d.phase = phase /\ d.attempt = c.attempt + 1 /\ d.version = c.version
      /\ d.answered = "none" /\ d.polls = 0 /\ d.account = None
  BY DEF NewInvocation, Fields
<1> HIDE DEF d
<1>5. InvocationOK(n, d, workspace.accounts, stack.number)
  BY <1>1, <1>3, <1>4, Bounds, Steps DEF InvocationOK, Holding, Clear, Phase
<1> QED
  BY <1>2, <1>4, <1>5, OneInvocation DEF Inv

(* A call that is applied, or not, and adds at most the account of its     *)
(* attempt or a token for it.                                              *)
LEMMA AppliedFacts ==
  ASSUME Inv, NEW n \in Request, NEW step \in DOMAIN Following \ {"verify"}, inv[n].phase = step
  PROVE  LET w == Applied(workspace, n, step) IN
         /\ w \in Workspace
         /\ w.tokens \subseteq w.accounts
         /\ w.accounts = IF step = "account" THEN workspace.accounts \cup {<<n, inv[n].attempt>>}
                         ELSE workspace.accounts
<1>1. /\ inv[n].version \in Version
      /\ <<n, inv[n].attempt>> \in AccountName
      /\ step = "token" => <<n, inv[n].attempt>> \in workspace.accounts
  BY Bounds, Steps DEF Inv, InvocationOK, AccountName
<1>2. workspace \in Workspace /\ workspace.tokens \subseteq workspace.accounts
  BY DEF Inv
<1>3. CASE step = "permissions"
  BY <1>1, <1>2, <1>3 DEF Applied, Workspace
<1>4. CASE step = "account"
  BY <1>1, <1>2, <1>4 DEF Applied, Workspace, Account
<1>5. CASE step = "token"
  BY <1>1, <1>2, <1>5 DEF Applied, Workspace, Account
<1>6. CASE step = "folder"
  BY <1>1, <1>2, <1>6 DEF Applied, Workspace
<1>7. CASE step = "plugin"
  BY <1>1, <1>2, <1>7 DEF Applied, Workspace
<1>8. CASE step \in {"dataSource", "fleet", "drilldown"}
  BY <1>1, <1>2, <1>8 DEF Applied, Workspace
<1>9. CASE step = "assets"
  BY <1>1, <1>2, <1>9 DEF Applied, Workspace
<1> QED
  BY <1>3, <1>4, <1>5, <1>6, <1>7, <1>8, <1>9, Steps

LEMMA CallOK ==
  ASSUME Inv, NEW n \in Request, NEW step \in DOMAIN Following \ {"verify"}, Call(n, step)
  PROVE  Inv'
<1> DEFINE c == inv[n]
           d == Advanced(n, step)
<1>1. /\ InvocationOK(n, c, workspace.accounts, stack.number) /\ c.phase = step
      /\ inv' = [inv EXCEPT ![n] = d] /\ workspace' = Applied(workspace, n, step)
      /\ UNCHANGED stack
  BY DEF Inv, Call
<1>2. <<n, c.attempt>> \in AccountName /\ c.attempt \in Nat
  BY <1>1, Bounds, Steps DEF InvocationOK, AccountName
<1>3. Following[step] \in Phase
  BY Steps DEF Following, Phase
<1>4. /\ DOMAIN d = Fields
      /\ d.phase = Following[step] /\ d.attempt = c.attempt /\ d.version = c.version
      /\ d.account = (IF step = "account" THEN <<n, c.attempt>> ELSE c.account)
      /\ d.answered = c.answered /\ d.polls = c.polls
  BY <1>1 DEF Advanced, InvocationOK, Account, Fields
<1> HIDE DEF d
<1>5. /\ workspace' \in Workspace /\ workspace'.tokens \subseteq workspace'.accounts
      /\ workspace'.accounts = IF step = "account" THEN workspace.accounts \cup {<<n, c.attempt>>}
                               ELSE workspace.accounts
  BY <1>1, AppliedFacts
<1>6. /\ step = "permissions" => Following[step] = "account"
      /\ step = "account" => Following[step] = "token"
      /\ step \notin {"permissions", "account"} => Following[step] \in Holding \ {"token"}
  BY Steps DEF Following, Holding
<1>7. InvocationOK(n, d, workspace'.accounts, stack.number)
  BY <1>1, <1>2, <1>3, <1>4, <1>5, <1>6, Steps DEF InvocationOK, Holding, Clear
<1>8. \A a \in AccountName : a[1] # n => (a \in workspace'.accounts <=> a \in workspace.accounts)
  BY <1>5
<1> QED
  BY <1>1, <1>4, <1>5, <1>7, <1>8, OneInvocation DEF Inv

(* An exception leads to the clean-up, or to the answer FAILED. *)
LEMMA ThrownFacts ==
  ASSUME NEW c, DOMAIN c = Fields
  PROVE  LET d == Thrown(c) IN
         /\ DOMAIN d = Fields
         /\ d.phase \in {"failed", "deleteToken", "deleteAccount"}
         /\ c.account = None => d.phase = "failed"
         /\ d.attempt = c.attempt /\ d.version = c.version /\ d.polls = c.polls
         /\ d.account = c.account /\ d.answered = c.answered
BY DEF Thrown, Fields

LEMMA ThrownOK ==
  ASSUME Inv, NEW n \in Request, NEW step \in DOMAIN Following, inv[n].phase = step,
         inv' = [inv EXCEPT ![n] = Thrown(@)],
         workspace' \in Workspace, workspace'.tokens \subseteq workspace'.accounts,
         \/ workspace'.accounts = workspace.accounts
         \/ /\ step = "account"
            /\ workspace'.accounts = workspace.accounts \cup {<<n, inv[n].attempt>>},
         UNCHANGED stack
  PROVE  Inv'
<1> DEFINE c == inv[n]
           d == Thrown(c)
<1>1. /\ InvocationOK(n, c, workspace.accounts, stack.number)
      /\ inv' = [inv EXCEPT ![n] = d]
  BY DEF Inv
<1>2. /\ DOMAIN d = Fields
      /\ d.phase \in {"failed", "deleteToken", "deleteAccount"}
      /\ c.account = None => d.phase = "failed"
      /\ d.attempt = c.attempt /\ d.version = c.version /\ d.polls = c.polls
      /\ d.account = c.account /\ d.answered = c.answered
  BY <1>1, ThrownFacts DEF InvocationOK
<1> HIDE DEF d
<1>3. InvocationOK(n, d, workspace'.accounts, stack.number)
  <2>1. c.phase \notin {"none", "queued", "ended"} /\ c.answered # "success" /\ c.attempt \in Nat
    BY <1>1, Bounds, Steps DEF InvocationOK
  <2>2. d.phase # "failed" => c.account = <<n, c.attempt>>
    BY <1>1, <1>2, Steps DEF InvocationOK, Holding
  <2>3. \A k \in 1..MaxAttempts : k > c.attempt => <<n, k>> \notin workspace'.accounts
    BY <1>1, <2>1 DEF InvocationOK
  <2> QED
    BY <1>1, <1>2, <2>1, <2>2, <2>3, Steps DEF InvocationOK, Holding, Clear, Phase
<1>4. \A a \in AccountName : a[1] # n => (a \in workspace'.accounts <=> a \in workspace.accounts)
  OBVIOUS
<1> QED
  BY <1>1, <1>3, <1>4, OneInvocation DEF Inv

LEMMA CallFailsOK ==
  ASSUME Inv, NEW n \in Request, NEW step \in DOMAIN Following \ {"verify"}, CallFails(n, step)
  PROVE  Inv'
<1>1. workspace \in Workspace /\ workspace.tokens \subseteq workspace.accounts
  BY DEF Inv
<1>2. /\ workspace' \in Workspace /\ workspace'.tokens \subseteq workspace'.accounts
      /\ \/ workspace'.accounts = workspace.accounts
         \/ /\ step = "account"
            /\ workspace'.accounts = workspace.accounts \cup {<<n, inv[n].attempt>>}
  <2> DEFINE w == Applied(workspace, n, step)
  <2>1. /\ w \in Workspace
        /\ w.tokens \subseteq w.accounts
        /\ w.accounts = IF step = "account" THEN workspace.accounts \cup {<<n, inv[n].attempt>>}
                        ELSE workspace.accounts
    BY AppliedFacts DEF CallFails
  <2>2. workspace' = workspace \/ workspace' = w
    BY DEF CallFails
  <2> HIDE DEF w
  <2>3. CASE workspace' = workspace
    BY <1>1, <2>3
  <2>4. CASE workspace' = w
    BY <2>1, <2>4
  <2> QED
    BY <2>2, <2>3, <2>4
<1> QED
  BY <1>2, ThrownOK DEF CallFails

LEMMA VerifyOK ==
  ASSUME Inv, NEW n \in Request, Verify(n) \/ VerifyFails(n)
  PROVE  Inv'
<1> DEFINE c == inv[n]
           polled == [c EXCEPT !.polls = @ + 1]
           passed == Advanced(n, "verify")
<1>1. /\ InvocationOK(n, c, workspace.accounts, stack.number) /\ c.phase = "verify"
      /\ UNCHANGED <<stack, workspace>>
      /\ stack \in Stack /\ workspace \in Workspace /\ workspace.tokens \subseteq workspace.accounts
  BY DEF Inv, Verify, VerifyFails
<1>2. \/ inv' = [inv EXCEPT ![n] = Thrown(@)]
      \/ inv' = [inv EXCEPT ![n] = passed]
      \/ inv' = [inv EXCEPT ![n] = polled] /\ ~(c.polls >= MaxPolls)
  BY DEF Verify, VerifyFails
<1>3. CASE inv' = [inv EXCEPT ![n] = Thrown(@)]
  BY <1>1, <1>3, Steps, ThrownOK
<1>4. CASE inv' = [inv EXCEPT ![n] = passed]
  <2>1. /\ DOMAIN passed = Fields
        /\ passed.phase = "assets" /\ passed.attempt = c.attempt /\ passed.version = c.version
        /\ passed.account = c.account /\ passed.answered = c.answered /\ passed.polls = c.polls
    BY <1>1 DEF Advanced, Following, InvocationOK, Fields
  <2> HIDE DEF passed
  <2>2. InvocationOK(n, passed, workspace.accounts, stack.number)
    BY <1>1, <2>1, Steps DEF InvocationOK, Holding, Clear, Phase
  <2> QED
    BY <1>1, <1>4, <2>2, OneInvocation
<1>5. CASE inv' = [inv EXCEPT ![n] = polled] /\ ~(c.polls >= MaxPolls)
  <2>1. /\ DOMAIN polled = Fields
        /\ polled.phase = c.phase /\ polled.attempt = c.attempt /\ polled.version = c.version
        /\ polled.account = c.account /\ polled.answered = c.answered /\ polled.polls = c.polls + 1
    BY <1>1 DEF InvocationOK, Fields
  <2>2. polled.polls \in 0..MaxPolls
    BY <1>1, <1>5, <2>1, Bounds DEF InvocationOK
  <2> HIDE DEF polled
  <2>3. InvocationOK(n, polled, workspace.accounts, stack.number)
    BY <1>1, <2>1, <2>2 DEF InvocationOK
  <2> QED
    BY <1>1, <1>5, <2>3, OneInvocation
<1> QED
  BY <1>2, <1>3, <1>4, <1>5

LEMMA DeleteTokenOK ==
  ASSUME Inv, NEW n \in Request, DeleteToken(n)
  PROVE  Inv'
<1> DEFINE c == inv[n]
           d(seen) == [c EXCEPT !.phase = "deleteAccount", !.cleanup = seen]
<1>1. PICK seen : inv' = [inv EXCEPT ![n] = d(seen)]
  BY DEF DeleteToken
<1> DEFINE e == d(seen)
<1>2. InvocationOK(n, c, workspace.accounts, stack.number) /\ c.phase = "deleteToken"
  BY DEF Inv, DeleteToken
<1>3. /\ DOMAIN e = Fields
      /\ e.phase = "deleteAccount" /\ e.attempt = c.attempt /\ e.version = c.version
      /\ e.account = c.account /\ e.answered = c.answered /\ e.polls = c.polls
  BY <1>2 DEF InvocationOK, Fields
<1>4. /\ UNCHANGED stack /\ workspace' \in Workspace
      /\ workspace'.accounts = workspace.accounts
      /\ workspace'.tokens \subseteq workspace'.accounts
  BY DEF DeleteToken, Inv, Workspace
<1>5. inv' = [inv EXCEPT ![n] = e]
  BY <1>1
<1> HIDE DEF e
<1>6. InvocationOK(n, e, workspace'.accounts, stack.number)
  BY <1>2, <1>3, <1>4, Steps DEF InvocationOK, Holding, Clear, Phase
<1> QED
  BY <1>4, <1>5, <1>6, OneInvocation DEF Inv

(* SUCCESS is the outcome only when the account is gone. *)
LEMMA DeleteAccountOK ==
  ASSUME Inv, NEW n \in Request, DeleteAccount(n)
  PROVE  Inv'
<1> DEFINE c == inv[n]
           d(clean, phase) == [c EXCEPT !.cleanup = clean, !.phase = phase]
           w == [workspace EXCEPT !.accounts = @ \ {c.account}, !.tokens = @ \ {c.account}]
<1>1. PICK applied \in BOOLEAN, seen \in BOOLEAN :
        /\ seen => applied
        /\ workspace' = IF applied THEN w ELSE workspace
        /\ inv' = [inv EXCEPT ![n].cleanup = c.cleanup /\ seen,
                              ![n].phase = IF c.failed \/ ~(c.cleanup /\ seen) THEN "failed"
                                           ELSE "success"]
  BY DEF DeleteAccount
<1> DEFINE phase == IF c.failed \/ ~(c.cleanup /\ seen) THEN "failed" ELSE "success"
           clean == c.cleanup /\ seen
           e == d(clean, phase)
<1>2. /\ InvocationOK(n, c, workspace.accounts, stack.number) /\ c.phase = "deleteAccount"
      /\ UNCHANGED stack /\ workspace \in Workspace
  BY DEF Inv, DeleteAccount
<1>3. phase \in {"failed", "success"} /\ (phase = "success" => applied)
  BY <1>1
<1>4. inv' = [inv EXCEPT ![n] = e]
  BY <1>1
<1>5. /\ workspace' \in Workspace
      /\ workspace'.tokens \subseteq workspace'.accounts
      /\ workspace'.accounts = IF applied THEN workspace.accounts \ {<<n, c.attempt>>}
                               ELSE workspace.accounts
  BY <1>1, <1>2 DEF Inv, Workspace, InvocationOK, Holding
<1> HIDE DEF phase, clean
<1>6. /\ DOMAIN e = Fields
      /\ e.phase = phase /\ e.attempt = c.attempt /\ e.version = c.version
      /\ e.account = c.account /\ e.answered = c.answered /\ e.polls = c.polls
  BY <1>2 DEF InvocationOK, Fields
<1> HIDE DEF e
<1>7. InvocationOK(n, e, workspace'.accounts, stack.number)
  BY <1>2, <1>3, <1>5, <1>6, Steps DEF InvocationOK, Holding, Clear, Phase
<1>8. \A a \in AccountName : a[1] # n => (a \in workspace'.accounts <=> a \in workspace.accounts)
  BY <1>5
<1> QED
  BY <1>2, <1>4, <1>5, <1>7, <1>8, OneInvocation DEF Inv

LEMMA DeliveredFacts ==
  ASSUME Inv, NEW n, NEW status \in {"success", "failed"}
  PROVE  Delivered(n, status) \in Stack /\ Delivered(n, status).number = stack.number
BY DEF Inv, Delivered, Stack

LEMMA RespondOK ==
  ASSUME Inv, NEW n \in Request, NEW status \in {"success", "failed"}, Respond(n, status)
  PROVE  Inv'
<1> DEFINE c == inv[n]
           o == Over(c, "ended")
           d == [o EXCEPT !.answered = status]
<1>1. /\ InvocationOK(n, c, workspace.accounts, stack.number) /\ c.phase = status
      /\ inv' = [inv EXCEPT ![n] = d] /\ workspace' = workspace
      /\ stack' \in Stack /\ stack'.number = stack.number
  BY DeliveredFacts DEF Inv, Respond
<1>2. /\ DOMAIN o = Fields
      /\ o.phase = "ended" /\ o.attempt = c.attempt /\ o.version = c.version /\ o.polls = 0
  BY OverFacts
<1> HIDE DEF o
<1>3. /\ DOMAIN d = Fields
      /\ d.phase = "ended" /\ d.attempt = c.attempt /\ d.version = c.version /\ d.polls = 0
      /\ d.answered = status
  BY <1>2 DEF Fields
<1> HIDE DEF d
<1>4. InvocationOK(n, d, workspace.accounts, stack.number)
  BY <1>1, <1>3, Bounds, Steps DEF InvocationOK, Holding, Clear, Phase
<1> QED
  BY <1>1, <1>4, OneInvocation DEF Inv

LEMMA RespondFailsOK ==
  ASSUME Inv, NEW n \in Request, NEW status \in {"success", "failed"}, RespondFails(n, status)
  PROVE  Inv'
<1> DEFINE c == inv[n]
           d == [c EXCEPT !.phase = "failed"]
<1>1. /\ InvocationOK(n, c, workspace.accounts, stack.number) /\ c.phase = status
      /\ workspace' = workspace
  BY DEF Inv, RespondFails
<1>2. stack' \in Stack /\ stack'.number = stack.number
  <2>1. PICK s \in {stack, Delivered(n, status)}, late \in BOOLEAN :
          stack' = [s EXCEPT !.late = @ \/ late]
    <3> DEFINE next == IF status = "success" THEN [c EXCEPT !.phase = "failed"] ELSE Ended(c)
               late(s) == next.phase = "queued" /\ ~(s.open /\ s.number = n)
    <3>1. PICK s \in {stack, Delivered(n, status)} : stack' = [s EXCEPT !.late = @ \/ late(s)]
      BY DEF RespondFails
    <3>2. late(s) \in BOOLEAN
      OBVIOUS
    <3> HIDE DEF late
    <3> QED
      BY <3>1, <3>2
  <2>2. s \in Stack /\ s.number = stack.number
    BY <2>1, DeliveredFacts DEF Inv
  <2> QED
    BY <2>1, <2>2 DEF Stack
<1>3. CASE status = "success"
  <2>1. inv' = [inv EXCEPT ![n] = d]
    BY <1>3 DEF RespondFails
  <2>2. /\ DOMAIN d = Fields
        /\ d.phase = "failed" /\ d.attempt = c.attempt /\ d.version = c.version
        /\ d.account = c.account /\ d.answered = c.answered /\ d.polls = c.polls
    BY <1>1 DEF InvocationOK, Fields
  <2> HIDE DEF d
  <2>3. InvocationOK(n, d, workspace.accounts, stack.number)
    BY <1>1, <1>3, <2>2, Steps DEF InvocationOK, Holding, Clear, Phase
  <2> QED
    BY <1>1, <1>2, <2>1, <2>3, OneInvocation DEF Inv
<1>4. CASE status = "failed"
  <2>1. inv' = [inv EXCEPT ![n] = Ended(@)] /\ Running(n)
    BY <1>1, <1>4 DEF RespondFails, Running
  <2> QED
    BY <1>1, <1>2, <2>1, EndedOK
<1> QED
  BY <1>3, <1>4

LEMMA KillOK ==
  ASSUME Inv, NEW n \in Request, Kill(n)
  PROVE  Inv'
<1> DEFINE late == stack.late \/ ~(stack.open /\ stack.number = n)
<1>1. stack' = [stack EXCEPT !.late = late]
  BY DEF Kill
<1>2. late \in BOOLEAN /\ stack \in Stack
  BY DEF Inv, Stack
<1> HIDE DEF late
<1>3. stack' \in Stack /\ stack'.number = stack.number
  BY <1>1, <1>2 DEF Stack
<1> QED
  BY <1>3, EndedOK DEF Kill

LEMMA SendOK ==
  ASSUME Inv, Send
  PROVE  Inv'
<1> DEFINE n == stack.number + 1
<1>1. /\ stack \in Stack /\ stack.number \in Nat /\ stack.number < MaxRequests
      /\ n \in Request
      /\ UNCHANGED workspace
  BY Bounds DEF Inv, Stack, Send, Request
<1>2. stack' \in Stack /\ stack'.number = n
  <2>1. stack' = [stack EXCEPT !.number = n, !.open = TRUE, !.answer = "none"] /\ n \in 0..MaxRequests
    BY <1>1, Bounds DEF Send
  <2> QED
    BY <1>1, <2>1 DEF Stack
<1>3. PICK r \in Deployments[n] :
        inv' = [inv EXCEPT ![n] = [inv[n] EXCEPT !.phase = "queued", !.type = r.type,
                                                 !.version = r.version]]
  BY DEF Send, Inv
<1>4. r.version \in Version
  BY <1>1, <1>3, DeploymentsAssumption DEF Request, MaxRequests
<1> DEFINE c == inv[n]
           d == [c EXCEPT !.phase = "queued", !.type = r.type, !.version = r.version]
<1>5. InvocationOK(n, c, workspace.accounts, stack.number) /\ c.phase = "none" /\ c.attempt = 0
  BY <1>1 DEF Inv, InvocationOK
<1>6. /\ DOMAIN d = Fields
      /\ d.phase = "queued" /\ d.attempt = 0 /\ d.version = r.version
      /\ d.answered = c.answered /\ d.polls = c.polls
  BY <1>5 DEF InvocationOK, Fields
<1>7. inv' = [inv EXCEPT ![n] = d]
  BY <1>3
<1> HIDE DEF d
<1>8. InvocationOK(n, d, workspace.accounts, n)
  BY <1>1, <1>4, <1>5, <1>6, Bounds, Steps DEF InvocationOK, Holding, Clear, Phase
<1>9. ASSUME NEW m \in Request, m # n
      PROVE  InvocationOK(m, inv[m], workspace.accounts, n)
  <2>1. m > stack.number <=> m > n
    BY <1>1, <1>9, Bounds
  <2> QED
    BY <2>1 DEF Inv, InvocationOK
<1> HIDE DEF n
<1>10. \A m \in Request : InvocationOK(m, inv'[m], workspace.accounts, n)
  BY <1>1, <1>7, <1>8, <1>9 DEF Inv
<1> QED
  BY <1>1, <1>2, <1>7, <1>10 DEF Inv

LEMMA OthersOK ==
  ASSUME Inv, GiveUp \/ PluginRegisters
  PROVE  Inv'
<1>1. /\ inv' = inv /\ stack' \in Stack /\ stack'.number = stack.number
      /\ workspace' \in Workspace /\ workspace'.accounts = workspace.accounts
      /\ workspace'.tokens = workspace.tokens
  BY DEF GiveUp, PluginRegisters, Inv, Stack, Workspace
<1> QED
  BY <1>1 DEF Inv

LEMMA NextOK == Inv /\ [Next]_vars => Inv'
<1> SUFFICES ASSUME Inv, [Next]_vars PROVE Inv'
  OBVIOUS
<1>1. ASSUME NEW n \in Request, Invoke(n) \/ Kill(n) PROVE Inv'
  BY <1>1, InvokeOK, KillOK
<1>2. ASSUME NEW n \in Request, NEW step \in DOMAIN Following \ {"verify"},
             Call(n, step) \/ CallFails(n, step)
      PROVE  Inv'
  BY <1>2, CallOK, CallFailsOK
<1>3. ASSUME NEW n \in Request, Verify(n) \/ VerifyFails(n) PROVE Inv'
  BY <1>3, VerifyOK
<1>4. ASSUME NEW n \in Request, DeleteToken(n) \/ DeleteAccount(n) PROVE Inv'
  BY <1>4, DeleteTokenOK, DeleteAccountOK
<1>5. ASSUME NEW n \in Request, NEW status \in {"success", "failed"},
             Respond(n, status) \/ RespondFails(n, status)
      PROVE  Inv'
  BY <1>5, RespondOK, RespondFailsOK
<1>6. CASE Send \/ GiveUp \/ PluginRegisters
  BY <1>6, SendOK, OthersOK
<1>7. CASE UNCHANGED vars
  BY <1>7 DEF vars, Inv
<1> QED
  BY <1>1, <1>2, <1>3, <1>4, <1>5, <1>6, <1>7 DEF Next, Work

-----------------------------------------------------------------------------
(* Inv, which says of every invocation whether its account can be there.   *)
THEOREM AccountsAreTracked == Spec => []Inv
<1> QED
  BY InitOK, NextOK, PTL DEF Spec

(* The variables keep their types; no attempt and no health check is made  *)
(* beyond its bound, and every account is one of an attempt that was made. *)
THEOREM ProvisionerTypes == Spec => []TypeOK
<1>1. Inv => TypeOK
  <2> SUFFICES ASSUME Inv PROVE TypeOK
    OBVIOUS
  <2>1. ASSUME NEW a \in workspace.accounts PROVE a \in (1..stack.number) \X (1..MaxAttempts)
    <3>1. PICK n \in Request, k \in 1..MaxAttempts : a = <<n, k>>
      BY DEF Inv, Workspace, AccountName
    <3>2. InvocationOK(n, inv[n], workspace.accounts, stack.number)
      BY DEF Inv
    <3>3. inv[n].attempt > 0
      BY <3>1, <3>2, Bounds DEF InvocationOK
    <3>4. ~(n > stack.number)
      BY <3>2, <3>3 DEF InvocationOK
    <3> QED
      BY <3>1, <3>4, Bounds DEF Request, Inv, Stack
  <2>2. \A n \in Request : inv[n].polls \in 0..MaxPolls /\ inv[n].attempt \in 0..MaxAttempts
    BY DEF Inv, InvocationOK
  <2> QED
    BY <2>1, <2>2 DEF Inv, TypeOK, Stack, Workspace
<1> QED
  BY <1>1, AccountsAreTracked, PTL

(* DeleteEphemeralCredentialsAsync: an attempt that reported SUCCESS left   *)
(* neither its service account nor a token of it in the workspace.         *)
THEOREM NoCredentialOutlivesSuccess == Spec => []NoCredentialBehindSuccess
<1>1. Inv => NoCredentialBehindSuccess
  BY DEF Inv, InvocationOK, NoCredentialBehindSuccess, Account
<1> QED
  BY <1>1, AccountsAreTracked, PTL

-----------------------------------------------------------------------------
(***************************************************************************)
(* What the current request has configured.  While no request was left at  *)
(* work, late being FALSE, every other one is settled: it sends an answer  *)
(* at most.  The workspace then follows the calls of the current attempt.  *)
(***************************************************************************)
Settled(c) == c.phase \in {"failed", "ended"}

ConfiguredIn(w, v) ==
  /\ v \in w.granted /\ w.folder /\ w.plugin = "ready"
  /\ w.dataSource = v /\ w.fleet = v /\ w.drilldown = v

Progress(c, w) ==
  /\ c.phase \in DOMAIN Following \ {"permissions"} => c.version \in w.granted
  /\ c.phase \in DOMAIN Following \ {"permissions", "account", "token", "folder"} => w.folder
  /\ c.phase \in {"verify", "assets", "fleet", "drilldown"} => w.dataSource = c.version
  /\ c.phase \in {"assets", "fleet", "drilldown"} => w.plugin = "ready"
  /\ c.phase = "drilldown" => w.fleet = c.version
  /\ c.phase \in {"deleteToken", "deleteAccount"} /\ ~c.failed => ConfiguredIn(w, c.version)
  /\ c.phase = "success" /\ c.type # "Delete" => ConfiguredIn(w, c.version)

ConfigInv ==
  LET n == stack.number IN
  /\ stack.open => n > 0 /\ stack.answer = "none"
  /\ stack.answer = "success" => n > 0
  /\ ~stack.late =>
       /\ \A m \in Request : m < n \/ (m = n /\ ~stack.open) => Settled(inv[m])
       /\ stack.open => Progress(inv[n], workspace)
       /\ stack.answer = "success" /\ inv[n].type # "Delete" =>
            ConfiguredIn(workspace, inv[n].version)

LEMMA ConfigInit == Init => ConfigInv
BY Bounds DEF Init, ConfigInv, Request

(* A step of an attempt at work: it is the current request's, unless one   *)
(* was left behind.                                                        *)
LEMMA WorkStep ==
  ASSUME Inv, ConfigInv, NEW n \in Request, NEW d,
         inv[n].phase \notin {"none", "failed", "ended"},
         inv' = [inv EXCEPT ![n] = d], stack' = stack,
         Progress(inv[n], workspace) => Progress(d, workspace')
  PROVE  ConfigInv'
<1>1. DOMAIN inv = Request /\ stack \in Stack /\ stack.number \in Nat /\ n \in Nat
  BY Bounds DEF Inv, Stack
<1>2. ~(n > stack.number)
  BY DEF Inv, InvocationOK
<1>3. CASE stack.late
  BY <1>3 DEF ConfigInv
<1>4. CASE ~stack.late
  <2>1. n = stack.number /\ stack.open
    BY <1>1, <1>2, <1>4 DEF ConfigInv, Settled
  <2>2. stack.answer = "none" /\ n > 0 /\ Progress(d, workspace')
    BY <1>4, <2>1 DEF ConfigInv
  <2>3. \A m \in Request : m < stack.number => inv'[m] = inv[m] /\ Settled(inv[m])
    BY <1>1, <1>4, <2>1 DEF ConfigInv
  <2> QED
    BY <1>1, <1>4, <2>1, <2>2, <2>3 DEF ConfigInv
<1> QED
  BY <1>3, <1>4

LEMMA InvokeConfig ==
  ASSUME Inv, ConfigInv, NEW n \in Request, Invoke(n)
  PROVE  ConfigInv'
<1> DEFINE c == inv[n]
           phase == IF c.type = "Delete" THEN "success"
                    ELSE IF c.version \in Incomplete THEN "failed" ELSE "permissions"
           d == [ NewInvocation EXCEPT !.type = c.type, !.version = c.version,
                                       !.attempt = c.attempt + 1, !.phase = phase ]
<1>1. /\ c.phase = "queued" /\ UNCHANGED <<stack, workspace>>
      /\ inv' = [inv EXCEPT ![n] = d]
  BY DEF Invoke
<1>2. d.phase = phase /\ d.type = c.type
  BY DEF NewInvocation
<1>3. d.phase \in {"failed", "permissions"} \/ (d.type = "Delete" /\ d.phase = "success")
  BY <1>2
<1> HIDE DEF d
<1>4. Progress(d, workspace')
  BY <1>3, Steps DEF Progress
<1> QED
  BY <1>1, <1>4, WorkStep

(* A call that is applied keeps what was configured and adds its own part. *)
LEMMA CallConfig ==
  ASSUME Inv, ConfigInv, NEW n \in Request, NEW step \in DOMAIN Following \ {"verify"}, Call(n, step)
  PROVE  ConfigInv'
<1> DEFINE c == inv[n]
           d == Advanced(n, step)
           w == Applied(workspace, n, step)
<1>1. /\ InvocationOK(n, c, workspace.accounts, stack.number) /\ c.phase = step
      /\ inv' = [inv EXCEPT ![n] = d] /\ workspace' = w /\ stack' = stack
      /\ workspace \in Workspace
  BY DEF Inv, Call
<1>2. d.phase = Following[step] /\ d.version = c.version
  BY <1>1 DEF Advanced, InvocationOK, Fields
<1> HIDE DEF d
<1>3. ASSUME Progress(c, workspace) PROVE Progress(d, w)
  <2>1. CASE step = "permissions"
    BY <1>1, <1>2, <2>1, Steps DEF Following, Progress, Applied, Workspace
  <2>2. CASE step = "account"
    BY <1>1, <1>2, <1>3, <2>2, Steps DEF Following, Progress, Applied, Workspace
  <2>9. CASE step = "token"
    BY <1>1, <1>2, <1>3, <2>9, Steps DEF Following, Progress, Applied, Workspace
  <2>3. CASE step = "folder"
    BY <1>1, <1>2, <1>3, <2>3, Steps DEF Following, Progress, Applied, Workspace
  <2>4. CASE step = "plugin"
    BY <1>1, <1>2, <1>3, <2>4, Steps DEF Following, Progress, Applied, Workspace
  <2>5. CASE step = "dataSource"
    BY <1>1, <1>2, <1>3, <2>5, Steps DEF Following, Progress, Applied, Workspace
  <2>6. CASE step = "assets"
    BY <1>1, <1>2, <1>3, <2>6, Steps DEF Following, Progress, Applied, Workspace
  <2>7. CASE step = "fleet"
    BY <1>1, <1>2, <1>3, <2>7, Steps DEF Following, Progress, Applied, Workspace
  <2>8. CASE step = "drilldown"
    BY <1>1, <1>2, <1>3, <2>8, Steps DEF Following, Progress, Applied, Workspace, ConfiguredIn
  <2> QED
    BY <2>1, <2>2, <2>3, <2>4, <2>5, <2>6, <2>7, <2>8, <2>9, Steps
<1>4. c.phase \notin {"none", "failed", "ended"}
  BY <1>1, Steps
<1> QED
  BY <1>1, <1>3, <1>4, WorkStep

(* After an exception nothing is claimed of the workspace. *)
LEMMA ThrownConfig ==
  ASSUME Inv, ConfigInv, NEW n \in Request, inv[n].phase \in DOMAIN Following,
         inv' = [inv EXCEPT ![n] = Thrown(@)], stack' = stack
  PROVE  ConfigInv'
<1> DEFINE d == Thrown(inv[n])
<1>1. DOMAIN inv[n] = Fields /\ inv' = [inv EXCEPT ![n] = d]
  BY DEF Inv, InvocationOK
<1>2. d.failed = TRUE /\ d.phase \in {"failed", "deleteToken", "deleteAccount"}
  BY <1>1 DEF Thrown, Fields
<1> HIDE DEF d
<1>3. Progress(d, workspace')
  BY <1>2, Steps DEF Progress
<1>4. inv[n].phase \notin {"none", "failed", "ended"}
  BY Steps
<1> QED
  BY <1>1, <1>3, <1>4, WorkStep

LEMMA VerifyConfig ==
  ASSUME Inv, ConfigInv, NEW n \in Request, Verify(n) \/ VerifyFails(n)
  PROVE  ConfigInv'
<1> DEFINE c == inv[n]
           polled == [c EXCEPT !.polls = @ + 1]
           passed == Advanced(n, "verify")
<1>1. /\ DOMAIN c = Fields /\ c.phase = "verify" /\ UNCHANGED <<stack, workspace>>
  BY DEF Inv, InvocationOK, Verify, VerifyFails
<1>2. \/ inv' = [inv EXCEPT ![n] = Thrown(@)]
      \/ inv' = [inv EXCEPT ![n] = passed] /\ workspace.plugin = "ready"
      \/ inv' = [inv EXCEPT ![n] = polled]
  BY DEF Verify, VerifyFails
<1>3. CASE inv' = [inv EXCEPT ![n] = Thrown(@)]
  BY <1>1, <1>3, Steps, ThrownConfig
<1>4. CASE inv' = [inv EXCEPT ![n] = passed] /\ workspace.plugin = "ready"
  <2>1. passed.phase = "assets" /\ passed.version = c.version
    BY <1>1 DEF Advanced, Following, Fields
  <2> HIDE DEF passed
  <2>2. Progress(c, workspace) => Progress(passed, workspace)
    BY <1>1, <1>4, <2>1, Steps DEF Progress
  <2> QED
    BY <1>1, <1>4, <2>2, WorkStep
<1>5. CASE inv' = [inv EXCEPT ![n] = polled]
  <2>1. polled.phase = "verify" /\ polled.version = c.version
    BY <1>1 DEF Fields
  <2> HIDE DEF polled
  <2>2. Progress(c, workspace) => Progress(polled, workspace)
    BY <1>1, <2>1, Steps DEF Progress
  <2> QED
    BY <1>1, <1>5, <2>2, WorkStep
<1> QED
  BY <1>2, <1>3, <1>4, <1>5

(* Deleting the credentials leaves the configuration alone. *)
LEMMA DeleteConfig ==
  ASSUME Inv, ConfigInv, NEW n \in Request, DeleteToken(n) \/ DeleteAccount(n)
  PROVE  ConfigInv'
<1> DEFINE c == inv[n]
<1>1. /\ InvocationOK(n, c, workspace.accounts, stack.number) /\ stack' = stack
      /\ workspace \in Workspace /\ c.phase \in {"deleteToken", "deleteAccount"}
  BY DEF Inv, DeleteToken, DeleteAccount
<1>2. /\ workspace'.granted = workspace.granted /\ workspace'.folder = workspace.folder
      /\ workspace'.plugin = workspace.plugin /\ workspace'.dataSource = workspace.dataSource
      /\ workspace'.fleet = workspace.fleet /\ workspace'.drilldown = workspace.drilldown
  BY <1>1 DEF DeleteToken, DeleteAccount, Workspace
<1>3. PICK clean, phase :
        /\ inv' = [inv EXCEPT ![n] = [c EXCEPT !.cleanup = clean, !.phase = phase]]
        /\ phase \in {"deleteAccount", "failed"} \/ (phase = "success" /\ ~c.failed)
  <2>1. CASE DeleteToken(n)
    <3>1. PICK seen : inv' = [inv EXCEPT ![n].phase = "deleteAccount", ![n].cleanup = seen]
      BY <2>1 DEF DeleteToken
    <3>2. inv' = [inv EXCEPT ![n] = [c EXCEPT !.phase = "deleteAccount", !.cleanup = seen]]
      BY <3>1
    <3>3. [c EXCEPT !.phase = "deleteAccount", !.cleanup = seen]
            = [c EXCEPT !.cleanup = seen, !.phase = "deleteAccount"]
      <4> HIDE DEF c
      <4> QED
        OBVIOUS
    <3>4. inv' = [inv EXCEPT ![n] = [c EXCEPT !.cleanup = seen, !.phase = "deleteAccount"]]
      BY <3>2, <3>3, Zenon
    <3> QED
      BY <3>4
  <2>2. CASE DeleteAccount(n)
    <3>1. PICK seen \in BOOLEAN :
            inv' = [inv EXCEPT ![n].cleanup = c.cleanup /\ seen,
                               ![n].phase = IF c.failed \/ ~(c.cleanup /\ seen) THEN "failed"
                                            ELSE "success"]
      BY <2>2 DEF DeleteAccount
    <3> DEFINE clean == c.cleanup /\ seen
               phase == IF c.failed \/ ~clean THEN "failed" ELSE "success"
    <3>2. inv' = [inv EXCEPT ![n] = [c EXCEPT !.cleanup = clean, !.phase = phase]]
      BY <3>1
    <3>3. phase = "failed" \/ (phase = "success" /\ ~c.failed)
      OBVIOUS
    <3> QED
      BY <3>2, <3>3
  <2> QED
    BY <2>1, <2>2
<1> DEFINE d == [c EXCEPT !.cleanup = clean, !.phase = phase]
<1>4. d.phase = phase /\ d.version = c.version /\ d.failed = c.failed /\ d.type = c.type
  BY <1>1 DEF InvocationOK, Fields
<1>5. inv' = [inv EXCEPT ![n] = d]
  BY <1>3
<1> HIDE DEF d
<1>6. ASSUME Progress(c, workspace) PROVE Progress(d, workspace')
  <2>1. ~c.failed => ConfiguredIn(workspace', c.version)
    BY <1>1, <1>2, <1>6 DEF Progress, ConfiguredIn
  <2> QED
    BY <1>3, <1>4, <2>1, Steps DEF Progress
<1> QED
  BY <1>1, <1>5, <1>6, WorkStep

(* An attempt answers, or is over.  If that leaves it at work behind the   *)
(* back of CloudFormation, late is set.                                    *)
LEMMA AnswerStep ==
  ASSUME Inv, ConfigInv, NEW n \in Request, NEW d, NEW s, NEW status,
         d.type = inv[n].type, d.version = inv[n].version,
         inv' = [inv EXCEPT ![n] = d], workspace' = workspace,
         s \in {stack, Delivered(n, status)}, status = "success" => inv[n].phase = "success",
         inv[n].phase # "none",
         stack' \in Stack, stack'.number = stack.number,
         stack'.open = s.open, stack'.answer = s.answer,
         d.phase \in {"queued", "failed", "ended"},
         ~stack'.late => ~stack.late /\ (Settled(d) \/ (s.open /\ n = stack.number))
  PROVE  ConfigInv'
<1>1. /\ DOMAIN inv = Request /\ stack \in Stack /\ stack.number \in Nat /\ n \in Nat \ {0}
      /\ ~(n > stack.number)
  <2>1. /\ DOMAIN inv = Request /\ stack \in Stack
        /\ InvocationOK(n, inv[n], workspace.accounts, stack.number)
    BY DEF Inv
  <2>2. stack.number \in Nat /\ n \in Nat \ {0}
    BY <2>1, Bounds DEF Stack, Request
  <2> QED
    BY <2>1, <2>2 DEF InvocationOK
<1>2. /\ s.open => stack.open
      /\ s.answer = stack.answer \/ (s.answer = status /\ stack.open /\ stack.number = n /\ ~s.open)
      /\ ~s.open => ~stack.open \/ stack.number = n
  BY <1>1 DEF Delivered, Stack
<1>3. Progress(d, workspace)
  BY Steps DEF Progress
<1>4. stack'.open => stack'.number > 0 /\ stack'.answer = "none"
  BY <1>1, <1>2 DEF ConfigInv
<1>5. stack'.answer = "success" => stack'.number > 0
  BY <1>1, <1>2 DEF ConfigInv
<1>6. ASSUME ~stack'.late
      PROVE  /\ \A m \in Request : m < stack'.number \/ (m = stack'.number /\ ~stack'.open) =>
                  Settled(inv'[m])
             /\ stack'.open => Progress(inv'[stack'.number], workspace')
             /\ stack'.answer = "success" /\ inv'[stack'.number].type # "Delete" =>
                  ConfiguredIn(workspace', inv'[stack'.number].version)
  <2>1. ~stack.late /\ (Settled(d) \/ (s.open /\ n = stack.number))
    BY <1>6
  <2>2. ASSUME NEW m \in Request, m < stack.number \/ (m = stack.number /\ ~s.open)
        PROVE  Settled(inv'[m])
    <3>1. CASE m = n
      BY <1>1, <2>1, <2>2, <3>1
    <3>2. CASE m # n
      BY <1>1, <1>2, <2>1, <2>2, <3>2 DEF ConfigInv
    <3> QED
      BY <3>1, <3>2
  <2>3. ASSUME s.open PROVE Progress(inv'[stack.number], workspace)
    <3>1. CASE n = stack.number
      BY <1>1, <1>3, <3>1
    <3>2. CASE n # stack.number
      BY <1>1, <1>2, <2>1, <2>3, <3>2 DEF ConfigInv
    <3> QED
      BY <3>1, <3>2
  <2>4. ASSUME s.answer = "success", inv'[stack.number].type # "Delete"
        PROVE  ConfiguredIn(workspace, inv'[stack.number].version)
    <3>1. /\ inv'[stack.number].type = inv[stack.number].type
          /\ inv'[stack.number].version = inv[stack.number].version
      <4>1. CASE n = stack.number
        BY <1>1, <4>1
      <4>2. CASE n # stack.number
        BY <1>1, <4>2
      <4> QED
        BY <4>1, <4>2
    <3>2. CASE s.answer = stack.answer
      BY <2>1, <2>4, <3>1, <3>2 DEF ConfigInv
    <3>3. CASE s.answer = status /\ stack.open /\ stack.number = n
      <4>1. inv[n].phase = "success" /\ Progress(inv[n], workspace)
        BY <2>1, <2>4, <3>3 DEF ConfigInv
      <4> QED
        BY <2>4, <3>1, <3>3, <4>1 DEF Progress
    <3> QED
      BY <1>2, <3>2, <3>3
  <2> QED
    BY <2>2, <2>3, <2>4
<1> QED
  BY <1>4, <1>5, <1>6 DEF ConfigInv

LEMMA EndedFacts ==
  ASSUME NEW c
  PROVE  /\ Ended(c).type = c.type /\ Ended(c).version = c.version
         /\ Ended(c).phase \in {"queued", "ended"}
BY DEF Ended, Over, NewInvocation

LEMMA RespondConfig ==
  ASSUME Inv, ConfigInv, NEW n \in Request, NEW status \in {"success", "failed"}, Respond(n, status)
  PROVE  ConfigInv'
<1> DEFINE c == inv[n]
           d == [Over(c, "ended") EXCEPT !.answered = status]
           s == Delivered(n, status)
<1>1. d.type = c.type /\ d.version = c.version /\ d.phase = "ended"
  BY DEF Over, NewInvocation
<1>2. inv' = [inv EXCEPT ![n] = d] /\ stack' = s /\ workspace' = workspace /\ c.phase = status
  BY DEF Respond
<1>3. s \in Stack /\ s.number = stack.number
  BY DeliveredFacts
<1>4. ~s.late => ~stack.late
  BY DEF Delivered, Inv, Stack
<1> HIDE DEF d
<1>5. Settled(d) /\ c.phase # "none"
  BY <1>1, <1>2 DEF Settled
<1> HIDE DEF s
<1>6. s \in {stack, Delivered(n, status)}
  BY DEF s
<1> QED
  BY <1>1, <1>2, <1>3, <1>4, <1>5, <1>6, AnswerStep

LEMMA RespondFailsConfig ==
  ASSUME Inv, ConfigInv, NEW n \in Request, NEW status \in {"success", "failed"},
         RespondFails(n, status)
  PROVE  ConfigInv'
<1> DEFINE c == inv[n]
           d == IF status = "success" THEN [c EXCEPT !.phase = "failed"] ELSE Ended(c)
           late(s) == d.phase = "queued" /\ ~(s.open /\ s.number = n)
<1>1. PICK s \in {stack, Delivered(n, status)} :
        /\ stack' = [s EXCEPT !.late = @ \/ late(s)]
        /\ inv' = [inv EXCEPT ![n] = d]
        /\ workspace' = workspace /\ c.phase = status
  BY DEF RespondFails
<1>2. d.type = c.type /\ d.version = c.version /\ d.phase \in {"queued", "failed", "ended"}
  BY EndedFacts DEF Inv, InvocationOK, Fields
<1>3. s \in Stack /\ s.number = stack.number /\ s.late = stack.late
  BY <1>1, DeliveredFacts DEF Inv, Delivered, Stack
<1>4. late(s) \in BOOLEAN
  OBVIOUS
<1>5. ~late(s) => Settled(d) \/ (s.open /\ n = stack.number)
  BY <1>2, <1>3 DEF Settled
<1> HIDE DEF d, late
<1>6. /\ stack' \in Stack /\ stack'.number = stack.number
      /\ stack'.open = s.open /\ stack'.answer = s.answer
      /\ ~stack'.late => ~stack.late /\ ~late(s)
  BY <1>1, <1>3, <1>4 DEF Stack
<1>7. c.phase # "none"
  BY <1>1
<1> QED
  BY <1>1, <1>2, <1>5, <1>6, <1>7, AnswerStep

LEMMA KillConfig ==
  ASSUME Inv, ConfigInv, NEW n \in Request, Kill(n)
  PROVE  ConfigInv'
<1> DEFINE c == inv[n]
           d == Ended(c)
           late == ~(stack.open /\ stack.number = n)
<1>1. /\ stack' = [stack EXCEPT !.late = @ \/ late]
      /\ inv' = [inv EXCEPT ![n] = d]
      /\ workspace' = workspace /\ c.phase # "none"
  BY DEF Kill, Running
<1>2. d.type = c.type /\ d.version = c.version /\ d.phase \in {"queued", "ended"}
  BY EndedFacts
<1>3. ~late => stack.open /\ n = stack.number
  OBVIOUS
<1>4. late \in BOOLEAN
  OBVIOUS
<1> HIDE DEF d, late
<1>5. /\ stack' \in Stack /\ stack'.number = stack.number
      /\ stack'.open = stack.open /\ stack'.answer = stack.answer
      /\ ~stack'.late => ~stack.late /\ ~late
  BY <1>1, <1>4 DEF Stack, Inv
<1> QED
  BY <1>1, <1>2, <1>3, <1>5, AnswerStep, "none" # "success"

(* A new request starts with nothing under way. *)
LEMMA SendConfig ==
  ASSUME Inv, ConfigInv, Send
  PROVE  ConfigInv'
<1> DEFINE n == stack.number + 1
<1>1. /\ stack \in Stack /\ stack.number \in Nat /\ DOMAIN inv = Request /\ n \in Request
      /\ ~stack.open /\ stack.number < MaxRequests
  BY Bounds DEF Inv, Stack, Send, Request
<1>2. /\ stack'.number = n /\ stack'.open = TRUE /\ stack'.answer = "none"
      /\ stack'.late = stack.late
  BY <1>1 DEF Send, Stack
<1>3. PICK d : /\ inv' = [inv EXCEPT ![n] = d]
               /\ d.phase = "queued"
  <2>1. PICK r \in Deployments[n] :
          inv' = [inv EXCEPT ![n] = [inv[n] EXCEPT !.phase = "queued", !.type = r.type,
                                                   !.version = r.version]]
    BY DEF Send, Inv
  <2>2. [inv[n] EXCEPT !.phase = "queued", !.type = r.type, !.version = r.version].phase = "queued"
    BY <1>1 DEF Inv, InvocationOK, Fields
  <2> QED
    BY <2>1, <2>2
<1>4. Progress(inv'[n], workspace')
  BY <1>1, <1>3, Steps DEF Progress
<1>5. ASSUME ~stack.late, NEW m \in Request, m < n PROVE Settled(inv'[m])
  <2>1. m \in Nat /\ m # n /\ (m < stack.number \/ m = stack.number)
    BY <1>1, <1>5, Bounds
  <2> QED
    BY <1>1, <1>3, <1>5, <2>1 DEF ConfigInv
<1>6. n > 0 /\ ~(n < n)
  BY <1>1
<1> HIDE DEF n
<1> QED
  BY <1>2, <1>4, <1>5, <1>6 DEF ConfigInv

LEMMA OthersConfig ==
  ASSUME Inv, ConfigInv, GiveUp \/ PluginRegisters
  PROVE  ConfigInv'
<1>1. CASE GiveUp
  <2>1. stack'.late /\ stack'.open = FALSE /\ stack'.answer = "timeout"
    BY <1>1 DEF GiveUp, Inv, Stack
  <2> QED
    BY <2>1 DEF ConfigInv
<1>2. CASE PluginRegisters
  <2>1. /\ UNCHANGED <<stack, inv>>
        /\ workspace'.granted = workspace.granted /\ workspace'.folder = workspace.folder
        /\ workspace'.plugin = "ready" /\ workspace'.dataSource = workspace.dataSource
        /\ workspace'.fleet = workspace.fleet /\ workspace'.drilldown = workspace.drilldown
    BY <1>2 DEF PluginRegisters, Inv, Workspace
  <2>2. \A v : ConfiguredIn(workspace, v) => ConfiguredIn(workspace', v)
    BY <2>1 DEF ConfiguredIn
  <2>3. \A c : Progress(c, workspace) => Progress(c, workspace')
    BY <2>1, <2>2 DEF Progress
  <2> QED
    BY <2>1, <2>2, <2>3 DEF ConfigInv
<1> QED
  BY <1>1, <1>2

LEMMA ConfigNext == Inv /\ ConfigInv /\ [Next]_vars => ConfigInv'
<1> SUFFICES ASSUME Inv, ConfigInv, [Next]_vars PROVE ConfigInv'
  OBVIOUS
<1>1. ASSUME NEW n \in Request, Invoke(n) \/ Kill(n) PROVE ConfigInv'
  BY <1>1, InvokeConfig, KillConfig
<1>2. ASSUME NEW n \in Request, NEW step \in DOMAIN Following \ {"verify"},
             Call(n, step) \/ CallFails(n, step)
      PROVE  ConfigInv'
  <2>1. CASE Call(n, step)
    BY <2>1, CallConfig
  <2>2. CASE CallFails(n, step)
    BY <2>2, ThrownConfig DEF CallFails
  <2> QED
    BY <1>2, <2>1, <2>2
<1>3. ASSUME NEW n \in Request, Verify(n) \/ VerifyFails(n) PROVE ConfigInv'
  BY <1>3, VerifyConfig
<1>4. ASSUME NEW n \in Request, DeleteToken(n) \/ DeleteAccount(n) PROVE ConfigInv'
  BY <1>4, DeleteConfig
<1>5. ASSUME NEW n \in Request, NEW status \in {"success", "failed"},
             Respond(n, status) \/ RespondFails(n, status)
      PROVE  ConfigInv'
  BY <1>5, RespondConfig, RespondFailsConfig
<1>6. CASE Send \/ GiveUp \/ PluginRegisters
  BY <1>6, SendConfig, OthersConfig
<1>7. CASE UNCHANGED vars
  BY <1>7 DEF vars, ConfigInv
<1> QED
  BY <1>1, <1>2, <1>3, <1>4, <1>5, <1>6, <1>7 DEF Next, Work

(* ConfigInv, which follows the configuration through every attempt of the *)
(* current request as long as no other request is at work.                 *)
THEOREM ConfigurationIsTracked == Spec => []ConfigInv
<1> QED
  BY ConfigInit, ConfigNext, AccountsAreTracked, PTL DEF Spec

(* HandleAsync answers SUCCESS only after every call of ProvisionAsync: a  *)
(* deployment that CloudFormation takes for done has left the workspace    *)
(* configured as it asked, whatever failed, was retried or killed before,  *)
(* unless a request was still at work when CloudFormation was done with it.*)
THEOREM SuccessMeansConfigured == Spec => []SuccessIsConfigured
<1>1. ConfigInv => SuccessIsConfigured
  BY DEF ConfigInv, SuccessIsConfigured, Configured, ConfiguredIn
<1> QED
  BY <1>1, ConfigurationIsTracked, PTL
=============================================================================
