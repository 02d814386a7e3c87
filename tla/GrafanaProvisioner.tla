------------------------- MODULE GrafanaProvisioner -------------------------
(***************************************************************************)
(* The custom resource that configures the Grafana workspace at every      *)
(* deployment (CustomResourceHandler.cs).  CloudFormation sends one        *)
(* request after the other, gives up on one after its ServiceTimeout, and  *)
(* Lambda delivers a request again when its invocation failed.  An         *)
(* invocation makes its calls with a service account of its own.           *)
(*                                                                         *)
(* The workspace, CloudFormation and Lambda's retries are external.        *)
(***************************************************************************)
EXTENDS Integers, Sequences

CONSTANTS
  None,
  Version,     \* the resource properties and dashboard assets of a deployment
  Incomplete,  \* those that lack a property
  Deployments, \* what each request of CloudFormation may be: a type and a version
  MaxAttempts, \* deliveries of one request by Lambda: 3
  MaxPolls     \* health checks that fit in the registration timeout

ASSUME VersionAssumption == Incomplete \subseteq Version
ASSUME DeploymentsAssumption ==
  Deployments \in Seq(SUBSET [type : {"Create", "Update", "Delete"}, version : Version])
ASSUME BoundAssumption == MaxAttempts \in Nat \ {0} /\ MaxPolls \in Nat

MaxRequests == Len(Deployments)  \* bound: requests of CloudFormation

VARIABLES
  stack,      \* CloudFormation and its current request
  workspace,  \* the configuration inside the workspace
  inv         \* the invocation of each request

vars == <<stack, workspace, inv>>

Request == 1..MaxRequests

NewInvocation ==
  [ phase |-> "none", attempt |-> 0, type |-> "none", version |-> None,
    account |-> None, token |-> FALSE, failed |-> FALSE, cleanup |-> TRUE, polls |-> 0,
    answered |-> "none" ]  \* history: the answer of the last attempt

Init ==
  /\ stack = [number |-> 0, open |-> FALSE, answer |-> "none", late |-> FALSE]
  /\ workspace = [ granted |-> {}, folder |-> FALSE, plugin |-> "absent", dataSource |-> None,
                   fleet |-> None, drilldown |-> None, accounts |-> {}, tokens |-> {} ]
  /\ inv = [n \in Request |-> NewInvocation]

-----------------------------------------------------------------------------
(* CloudFormation.  A stack is created, updated and deleted. *)
Send ==
  /\ ~stack.open
  /\ stack.number < MaxRequests
  /\ \E r \in Deployments[stack.number + 1] :
       inv' = [inv EXCEPT ![stack.number + 1] =
                 [@ EXCEPT !.phase = "queued", !.type = r.type, !.version = r.version]]
  /\ stack' = [stack EXCEPT !.number = @ + 1, !.open = TRUE, !.answer = "none"]
  /\ UNCHANGED workspace

(* ServiceTimeout is longer than the function's time limit: the first      *)
(* attempt is over, and Lambda goes on with its deliveries.                *)
GiveUp ==
  /\ stack.open
  /\ LET c == inv[stack.number] IN
     c.attempt > 1 \/ (c.attempt = 1 /\ c.phase \in {"queued", "ended"})
  /\ stack' = [stack EXCEPT !.open = FALSE, !.answer = "timeout", !.late = TRUE]
  /\ UNCHANGED <<workspace, inv>>

(* Only the first answer to the current request counts. *)
Delivered(n, status) ==
  IF stack.open /\ stack.number = n THEN [stack EXCEPT !.open = FALSE, !.answer = status]
  ELSE stack

-----------------------------------------------------------------------------
(* The calls of one invocation, in their order. *)
Following ==
  [ permissions |-> "account", account |-> "token", token |-> "folder", folder |-> "plugin",
    plugin |-> "dataSource", dataSource |-> "verify", verify |-> "assets", assets |-> "fleet",
    fleet |-> "drilldown", drilldown |-> "deleteToken" ]

(* The account of the running attempt.  All accounts get the same name, so *)
(* the workspace refuses a second one while an earlier one is left.        *)
Account(n) == <<n, inv[n].attempt>>
Accepted(w, step) == step = "account" => w.accounts = {}

(* What a call does to the workspace when it is applied. *)
Applied(w, n, step) ==
  LET v == inv[n].version IN
  CASE step = "permissions" -> [w EXCEPT !.granted = @ \cup {v}]
    [] step = "account"     -> [w EXCEPT !.accounts = @ \cup {Account(n)}]
    [] step = "token"       -> [w EXCEPT !.tokens = @ \cup {Account(n)}]
    [] step = "folder"      -> [w EXCEPT !.folder = TRUE]
    [] step = "plugin"      -> [w EXCEPT !.plugin = IF @ = "absent" THEN "installing" ELSE @]
    [] step = "dataSource"  -> [w EXCEPT !.dataSource = v]
    [] step = "fleet"       -> [w EXCEPT !.fleet = v]
    [] step = "drilldown"   -> [w EXCEPT !.drilldown = v]
    [] step = "assets"      -> w

\* Mutant: the finally block forgets that there was an exception.
ThrownUnnoticed(c) ==
  [c EXCEPT !.phase = IF c.account = None THEN "failed"
                      ELSE IF c.token THEN "deleteToken" ELSE "deleteAccount"]

(* The finally block begins when the account is known; an exception before *)
(* that goes to the handler at once.                                       *)
Thrown(c) ==
  [c EXCEPT !.failed = TRUE,
            !.phase = IF c.account = None THEN "failed"
                      ELSE IF c.token THEN "deleteToken" ELSE "deleteAccount"]

Advanced(n, step) ==
  [inv[n] EXCEPT !.phase = Following[step],
                 !.account = IF step = "account" THEN Account(n) ELSE @,
                 !.token = @ \/ step = "token"]

(* Lambda starts the invocation: Delete has nothing to do, and properties  *)
(* that lack one are refused before any call.                              *)
Invoke(n) ==
  /\ inv[n].phase = "queued"
  /\ inv' = [inv EXCEPT ![n] =
       [ NewInvocation EXCEPT
           !.type = inv[n].type, !.version = inv[n].version, !.attempt = inv[n].attempt + 1,
           !.phase = IF inv[n].type = "Delete" THEN "success"
                     ELSE IF inv[n].version \in Incomplete THEN "failed" ELSE "permissions" ]]
  /\ UNCHANGED <<stack, workspace>>

Call(n, step) ==
  /\ inv[n].phase = step
  /\ Accepted(workspace, step)
  /\ workspace' = Applied(workspace, n, step)
  /\ inv' = [inv EXCEPT ![n] = Advanced(n, step)]
  /\ UNCHANGED stack

(* A call fails, or a dashboard with an unexpected UID is refused; it may  *)
(* have been applied all the same.                                         *)
CallFails(n, step) ==
  /\ inv[n].phase = step
  /\ \/ UNCHANGED workspace
     \/ Accepted(workspace, step) /\ workspace' = Applied(workspace, n, step)
  /\ inv' = [inv EXCEPT ![n] = Thrown(@)]
  /\ UNCHANGED stack

\* Mutant: the time spent is not looked at.
VerifyForever(n) ==
  /\ inv[n].phase = "verify"
  /\ inv' = IF workspace.plugin = "ready" /\ workspace.dataSource # None
             THEN [inv EXCEPT ![n] = Advanced(n, "verify")] ELSE inv
  /\ UNCHANGED <<stack, workspace>>

(* The health check answers 404 until the plugin has registered. *)
Verify(n) ==
  /\ inv[n].phase = "verify"
  /\ IF workspace.plugin = "ready" /\ workspace.dataSource # None
       THEN inv' = [inv EXCEPT ![n] = Advanced(n, "verify")]
     ELSE IF inv[n].polls >= MaxPolls THEN inv' = [inv EXCEPT ![n] = Thrown(@)]
     ELSE inv' = [inv EXCEPT ![n].polls = @ + 1]
  /\ UNCHANGED <<stack, workspace>>

(* The data source is not healthy, or the check fails. *)
VerifyFails(n) ==
  /\ inv[n].phase = "verify"
  /\ inv' = [inv EXCEPT ![n] = Thrown(@)]
  /\ UNCHANGED <<stack, workspace>>

-----------------------------------------------------------------------------
(* DeleteEphemeralCredentialsAsync.  The account is deleted even when its  *)
(* token could not be, and takes its tokens with it.                       *)
DeleteToken(n) ==
  /\ inv[n].phase = "deleteToken"
  /\ \E applied, seen \in BOOLEAN :
       /\ seen => applied
       /\ workspace' = IF applied THEN [workspace EXCEPT !.tokens = @ \ {inv[n].account}]
                       ELSE workspace
       /\ inv' = [inv EXCEPT ![n].phase = "deleteAccount", ![n].cleanup = seen]
  /\ UNCHANGED stack

\* Mutant: a failed deletion is only logged.
DeleteAccountQuiet(n) ==
  /\ inv[n].phase = "deleteAccount"
  /\ \E applied \in BOOLEAN :
       workspace' = IF applied THEN [workspace EXCEPT !.accounts = @ \ {inv[n].account},
                                                     !.tokens = @ \ {inv[n].account}]
                    ELSE workspace
  /\ inv' = [inv EXCEPT ![n].phase = IF inv[n].failed \/ ~inv[n].cleanup THEN "failed"
                                     ELSE "success"]
  /\ UNCHANGED stack

DeleteAccount(n) ==
  /\ inv[n].phase = "deleteAccount"
  /\ \E applied, seen \in BOOLEAN :
       /\ seen => applied
       /\ workspace' = IF applied THEN [workspace EXCEPT !.accounts = @ \ {inv[n].account},
                                                         !.tokens = @ \ {inv[n].account}]
                       ELSE workspace
       /\ LET clean == inv[n].cleanup /\ seen IN
          inv' = [inv EXCEPT ![n].cleanup = clean,
                             ![n].phase = IF inv[n].failed \/ ~clean THEN "failed" ELSE "success"]
  /\ UNCHANGED stack

-----------------------------------------------------------------------------
(* RespondAsync.  When the answer SUCCESS cannot be sent, as far as the    *)
(* client can tell, FAILED is sent; when that cannot be sent either, the   *)
(* invocation fails, and Lambda delivers the request again.                *)
Over(c, phase) ==
  [ NewInvocation EXCEPT !.type = c.type, !.version = c.version, !.attempt = c.attempt,
                         !.phase = phase ]

Ended(c) == Over(c, IF c.attempt < MaxAttempts THEN "queued" ELSE "ended")

Respond(n, status) ==
  /\ inv[n].phase = status
  /\ stack' = Delivered(n, status)
  /\ inv' = [inv EXCEPT ![n] = [Over(@, "ended") EXCEPT !.answered = status]]
  /\ UNCHANGED workspace

RespondFails(n, status) ==
  /\ inv[n].phase = status
  /\ LET next == IF status = "success" THEN [inv[n] EXCEPT !.phase = "failed"] ELSE Ended(inv[n])
         retried == next.phase = "queued"
     IN /\ inv' = [inv EXCEPT ![n] = next]
        /\ \E s \in {stack, Delivered(n, status)} :
             stack' = [s EXCEPT !.late = @ \/ (retried /\ ~(s.open /\ s.number = n))]
  /\ UNCHANGED workspace

Running(n) == inv[n].phase \notin {"none", "queued", "ended"}

(* The function's own time limit, or a crash. *)
Kill(n) ==
  /\ Running(n)
  /\ inv' = [inv EXCEPT ![n] = Ended(@)]
  /\ stack' = [stack EXCEPT !.late = @ \/ ~(stack.open /\ stack.number = n)]
  /\ UNCHANGED workspace

Work(n) ==
  \/ \E step \in DOMAIN Following \ {"verify"} : Call(n, step) \/ CallFails(n, step)
  \/ Verify(n)
  \/ VerifyFails(n)
  \/ DeleteToken(n)
  \/ DeleteAccount(n)
  \/ \E status \in {"success", "failed"} : Respond(n, status) \/ RespondFails(n, status)

-----------------------------------------------------------------------------
(* The workspace by itself.  That a token expires some time after its      *)
(* invocation is left out.                                                 *)
PluginRegisters ==
  /\ workspace.plugin = "installing"
  /\ workspace' = [workspace EXCEPT !.plugin = "ready"]
  /\ UNCHANGED <<stack, inv>>

Next ==
  \/ Send
  \/ GiveUp
  \/ \E n \in Request : Invoke(n) \/ Work(n) \/ Kill(n)
  \/ PluginRegisters

(* The loop of health checks does not stop by itself, and a check ends.    *)
Spec == Init /\ [][Next]_vars /\ \A n \in Request : WF_vars(Verify(n))

-----------------------------------------------------------------------------
(* Properties. *)
(* Types; tokens belong to accounts, and only the invocations of requests  *)
(* that were sent have any.                                                *)
TypeOK ==
  /\ stack.number \in 0..MaxRequests
  /\ stack.answer \in {"none", "success", "failed", "timeout"}
  /\ workspace.granted \subseteq Version
  /\ {workspace.dataSource, workspace.fleet, workspace.drilldown} \subseteq Version \cup {None}
  /\ workspace.tokens \subseteq workspace.accounts
  /\ workspace.accounts \subseteq (1..stack.number) \X (1..MaxAttempts)
  /\ \A n \in Request : inv[n].polls \in 0..MaxPolls /\ inv[n].attempt \in 0..MaxAttempts

(* "A short-lived Grafana service-account token exists for the duration of *)
(* an invocation and is deleted in the finally block": no account or token *)
(* outlives an attempt that reported success.                              *)
NoCredentialBehindSuccess ==
  \A n \in Request : inv[n].answered = "success" => Account(n) \notin workspace.accounts

Configured(v) ==
  /\ v \in workspace.granted
  /\ workspace.folder
  /\ workspace.plugin = "ready"
  /\ workspace.dataSource = v /\ workspace.fleet = v /\ workspace.drilldown = v

(* When CloudFormation holds a SUCCESS the workspace is what the           *)
(* deployment asked for, in every part, as long as no request was still at *)
(* work when CloudFormation was done with it.                              *)
SuccessIsConfigured ==
  LET n == stack.number IN
  stack.answer = "success" /\ ~stack.late /\ inv[n].type # "Delete" => Configured(inv[n].version)

(* Waiting for the plugin ends, though it need never register: this is the *)
(* only loop, so no invocation is held by the workspace.                   *)
HealthCheckEnds == \A n \in Request : inv[n].phase = "verify" ~> inv[n].phase # "verify"
=============================================================================
