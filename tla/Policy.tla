------------------------------- MODULE Policy -------------------------------
(***************************************************************************)
(* The policy engine, its approvals and the audit trail:                   *)
(* crates/terminal-session/src/policy.rs and audit.rs behind the calls of  *)
(* crates/terminal-workspace/src/engine.rs, with the saving and restoring  *)
(* of the three.                                                           *)
(*                                                                         *)
(* Commands, paths and hosts are the classes the rules sort them into; an  *)
(* action hash is a value that differs when the action does; time is a     *)
(* counter.  Every context names a project root.  Each call holds the      *)
(* engine's mutex, so a call is an action.                                 *)
(***************************************************************************)
EXTENDS Integers, FiniteSets, Sequences

CONSTANTS
    Contexts,      \* records [workflow, agent, hash]: what approvals are asked for
    Uses,          \* records of the same kind: what is run under them
    TTL,           \* the time an approval lives
    MaxRecords,    \* ApprovalStore.max_records
    MaxAudit,      \* AuditTrail.max_memory_events
    MaxTime, MaxRequests, MaxActs, MaxRestarts   \* bounds

None == "None"
Low == 0
Medium == 1
High == 2
Critical == 3

Ids == 1..MaxRequests

(* The scope Workspace has the roots and the answers of ProjectOnly.       *)
FilesystemScope == {"NoFilesystem", "WorktreeOnly", "ProjectOnly", "CustomPaths"}
NetworkPolicy == {"Blocked", "Allowed", "Allowlist", "Prompt"}
Grantors == {"human", "policy"}
AuditEventKind ==
    {"ActionAllowed", "ActionRequiredApproval", "ActionDenied", "FilesystemDenied",
     "NetworkDenied", "SecretDenied", "PolicyEvaluated", "BudgetIncreased",
     "ApprovalRequested", "ApprovalGranted", "ApprovalRejected", "WorkflowResumed"}

VARIABLES
    now,
    config,     \* autonomy (index in Levels), filesystem, network, allowances,
                \* cap and used of the agent budget
    approvals,  \* ApprovalStore.approvals; ids grow, so ids tell the order
    requested,  \* approvals requested so far
    audit,      \* AuditTrail.events, newest first
    saved,      \* what the state file holds of all this
    granted,    \* history: the approvals a human granted, as they were then
    honored,    \* history: how often each was honored
    acts, restarts

policyState == [config |-> config, approvals |-> approvals, audit |-> audit,
                granted |-> granted, honored |-> honored]
vars == <<now, config, approvals, requested, audit, saved, granted, honored,
          acts, restarts>>

(* Requests and everything else that is done to the policy share a bound.  *)
Room == acts + requested < MaxActs
Act == Room /\ acts' = acts + 1

-----------------------------------------------------------------------------
(* Evaluation: what the engine answers to an action under a policy c.      *)

Unlimited == -1

auto_threshold(level) == CASE level \in {1, 2} -> Low [] level = 3 -> Medium
                           [] level = 4 -> High

(* Fault: the line above what is critical is lifted with the level.        *)
FaultCriticalRuns(level, risk, inScope) ==
    IF inScope /\ risk <= auto_threshold(level) + 1 THEN "Allow" ELSE "RequireApproval"

autonomy_decision(level, risk, inScope) ==
    IF inScope /\ risk # Critical /\ risk <= auto_threshold(level)
    THEN "Allow" ELSE "RequireApproval"

filesystem_in_scope(c) == c.filesystem # "NoFilesystem"

(* A process is what the worst dangerous-command rule it matches (those of *)
(* critical risk forbid, the others ask), the user's allowlist and the     *)
(* tables of known programs make of it, in that order.                     *)
RuleClasses == {"forbidden", "gated"}
RiskClasses == {"low", "medium", "unknown"}
evaluate_process(c, what) ==
    CASE what = "forbidden" -> "Deny"
      [] what \in {"gated", "unknown"} -> "RequireApproval"
      [] what = "listed" -> "Allow"
      [] what = "low" -> autonomy_decision(c.autonomy, Low, filesystem_in_scope(c))
      [] what = "medium" -> autonomy_decision(c.autonomy, Medium, filesystem_in_scope(c))

evaluate_shell(c, what) ==
    IF what = "trivial" /\ filesystem_in_scope(c) THEN "Allow" ELSE "RequireApproval"

(* The places PathValidator lets through; a task of an isolated worktree   *)
(* has that one too, and "elsewhere" is outside every root or has a "..".  *)
roots(c) ==
    {"worktree"} \cup
    CASE c.filesystem = "ProjectOnly" -> {"project"}
      [] c.filesystem = "CustomPaths" -> {"project", "custom"}
      [] OTHER -> {}
validate(c, place) == c.filesystem # "NoFilesystem" /\ place \in roots(c)
FsRisk(op) == CASE op \in {"Read", "Write"} -> Low
                [] op = "Delete" -> High
                [] op = "RecursiveDelete" -> Critical
evaluate_filesystem(c, op, place) ==
    IF validate(c, place) THEN autonomy_decision(c.autonomy, FsRisk(op), TRUE) ELSE "Deny"

network_permits(c, host) ==
    c.network \in {"Allowed", "Prompt"} \/ (c.network = "Allowlist" /\ host = "listed")
evaluate_network(c, host) ==
    IF ~network_permits(c, host) THEN "Deny"
    ELSE IF c.network = "Prompt" THEN "RequireApproval"
    ELSE autonomy_decision(c.autonomy, Medium, TRUE)

SecretCategories == {"Safe", "Sensitive", "Critical"}
(* Of the allowances that cover a path the first one decides.              *)
secrets_evaluate(c, category) ==
    CASE category = "Safe" -> TRUE
      [] category = "Sensitive" -> c.allowances # <<>>
      [] category = "Critical" -> c.allowances # <<>> /\ Head(c.allowances) = "human"
evaluate_secret(c, category) ==
    IF ~secrets_evaluate(c, category) THEN "Deny"
    ELSE IF category = "Critical" THEN "RequireApproval"
    ELSE autonomy_decision(c.autonomy, Medium, TRUE)

can_afford(c, delta) == c.cap = Unlimited \/ c.used + delta <= c.cap
evaluate_agent_spawn(c) ==
    IF can_afford(c, 1) THEN autonomy_decision(c.autonomy, Medium, filesystem_in_scope(c))
    ELSE "Deny"

A(kind, what, place) == [kind |-> kind, what |-> what, place |-> place]
Actions ==
    {A("Process", w, "-") : w \in RuleClasses \cup {"listed"} \cup RiskClasses}
    \cup {A("Shell", w, "-") : w \in {"trivial", "other"}}
    \cup {A("Filesystem", op, p) : op \in {"Read", "Write", "Delete", "RecursiveDelete"},
                                   p \in {"worktree", "project", "custom", "elsewhere"}}
    \cup {A("Network", h, "-") : h \in {"listed", "other"}}
    \cup {A("Secret", k, "-") : k \in SecretCategories}
    \cup {A(k, "-", "-") : k \in {"AgentSpawn", "Budget", "AutonomyChange", "WorkspaceControl"}}

evaluate(c, a) ==
    CASE a.kind = "Process" -> evaluate_process(c, a.what)
      [] a.kind = "Shell" -> evaluate_shell(c, a.what)
      [] a.kind = "Filesystem" -> evaluate_filesystem(c, a.what, a.place)
      [] a.kind = "Network" -> evaluate_network(c, a.what)
      [] a.kind = "Secret" -> evaluate_secret(c, a.what)
      [] a.kind = "AgentSpawn" -> evaluate_agent_spawn(c)
      [] a.kind \in {"Budget", "AutonomyChange"} -> "RequireApproval"
      [] a.kind = "WorkspaceControl" -> "Allow"

-----------------------------------------------------------------------------
(* The audit trail.                                                        *)

Truncated(s, n) == SubSeq(s, 1, IF Len(s) < n THEN Len(s) ELSE n)
Recorded(trail, event) == Truncated(<<event>> \o trail, MaxAudit)
record(event) == audit' = Recorded(audit, event)

(* Fault: the saved events are recorded in the order they are stored in.   *)
FaultNewestFirst(trail) ==
    [i \in 1..Len(trail) |-> trail[Len(trail) + 1 - i]]

(* AuditTrail::from_events records the persisted events again, oldest      *)
(* first.                                                                  *)
RecordedAgain[s \in Seq(AuditEventKind)] ==
    IF s = <<>> THEN <<>> ELSE Recorded(RecordedAgain[Tail(s)], Head(s))
from_events(trail) == RecordedAgain[trail]

-----------------------------------------------------------------------------
Init ==
    /\ now = 0
    /\ config = [autonomy |-> 3, filesystem |-> "WorktreeOnly", network |-> "Blocked",
                 allowances |-> <<>>, cap |-> Unlimited, used |-> 0]
    /\ approvals = {} /\ requested = 0 /\ audit = <<>>
    /\ granted = {} /\ honored = [i \in Ids |-> 0]
    /\ saved = policyState
    /\ acts = 0 /\ restarts = 0

Tick == /\ now < MaxTime /\ now' = now + 1
        /\ UNCHANGED <<config, approvals, requested, audit, saved, granted, honored,
                       acts, restarts>>

(* What the trail calls a denial.                                          *)
DeniedKind(a) ==
    CASE a.kind = "Filesystem" -> "FilesystemDenied"
      [] a.kind = "Network" -> "NetworkDenied"
      [] a.kind = "Secret" -> "SecretDenied"
      [] OTHER -> "ActionDenied"

(* evaluate_action: the decision is the caller's, its record the trail's.  *)
EvaluateAction(a) ==
    /\ Act
    /\ LET decision == evaluate(config, a)
       IN record(CASE decision = "Allow" -> "ActionAllowed"
                   [] decision = "RequireApproval" -> "ActionRequiredApproval"
                   [] OTHER -> DeniedKind(a))
    /\ UNCHANGED <<now, config, approvals, requested, saved, granted, honored, restarts>>

(* The user's changes to the policy.                                       *)
Configure(c, event) ==
    /\ Act /\ config' = c /\ record(event)
    /\ UNCHANGED <<now, approvals, requested, saved, granted, honored, restarts>>

SetAutonomy(level) ==
    /\ level # config.autonomy
    /\ Configure([config EXCEPT !.autonomy = level], "PolicyEvaluated")
SetFilesystemScope(scope) ==
    Configure([config EXCEPT !.filesystem = scope], "PolicyEvaluated")
SetNetworkPolicy(network) ==
    Configure([config EXCEPT !.network = network], "PolicyEvaluated")
GrantSecretAllowance(by) ==
    Configure([config EXCEPT !.allowances = Append(@, by)], "PolicyEvaluated")
(* increase_budget: unauthorized it changes and records nothing.           *)
IncreaseBudget(cap) ==
    Configure([config EXCEPT !.cap = cap], "BudgetIncreased")
RecordBudget ==
    /\ Act /\ config' = [config EXCEPT !.used = @ + 1]
    /\ UNCHANGED <<now, approvals, requested, audit, saved, granted, honored, restarts>>

-----------------------------------------------------------------------------
(* Approvals.                                                              *)

Status(id) == (CHOOSE a \in approvals : a.id = id).status
Known(id) == \E a \in approvals : a.id = id
SetStatus(id, status) ==
    approvals' = {IF a.id = id THEN [a EXCEPT !.status = status] ELSE a : a \in approvals}

(* Pending approvals go when they expire; over the bound the oldest of the *)
(* decided ones go, a granted one never.                                   *)
Kept(a) == a.status \in {"Pending", "Granted"}
(* Fault: what is no longer pending is as good as gone.                    *)
FaultPruneGranted(s) ==
    LET live == {a \in s : ~(a.status = "Pending" /\ now > a.expires)}
        old(a) == {b \in live : b.status # "Pending" /\ b.id < a.id}
    IN {a \in live : \/ a.status = "Pending"
                     \/ Cardinality(old(a)) >= Cardinality(live) - MaxRecords}

prune(s) ==
    LET live == {a \in s : ~(a.status = "Pending" /\ now > a.expires)}
        older(a) == {b \in live : ~Kept(b) /\ b.id < a.id}
    IN {a \in live : Kept(a) \/ Cardinality(older(a)) >= Cardinality(live) - MaxRecords}

NewApproval(c) ==
    [id |-> requested + 1, workflow |-> c.workflow, agent |-> c.agent, hash |-> c.hash,
     expires |-> now + TTL, status |-> "Pending"]

Request(c) ==
    /\ Room /\ requested < MaxRequests /\ requested' = requested + 1
    /\ approvals' = prune(approvals \cup {NewApproval(c)})
    /\ record("ApprovalRequested")
    /\ UNCHANGED <<now, config, saved, granted, honored, acts, restarts>>

Grant(id) ==
    /\ Known(id) /\ Status(id) = "Pending"
    /\ LET a == CHOOSE b \in approvals : b.id = id
       IN IF now > a.expires
          THEN SetStatus(id, "Expired") /\ UNCHANGED <<audit, granted>>
          ELSE /\ SetStatus(id, "Granted") /\ record("ApprovalGranted")
               /\ granted' = granted \cup {a}
    /\ UNCHANGED <<now, config, requested, saved, honored, acts, restarts>>

Reject(id) ==
    /\ Known(id) /\ Status(id) = "Pending"
    /\ SetStatus(id, "Rejected") /\ record("ApprovalRejected")
    /\ UNCHANGED <<now, config, requested, saved, granted, honored, acts, restarts>>

(* honor: what becomes of approval a when u is to be run under it.         *)
Honored(a, u) ==
    IF \/ a.workflow # u.workflow
       \/ None \notin {a.agent, u.agent} /\ a.agent # u.agent
    THEN a.status
    ELSE IF now > a.expires THEN "Expired"
    ELSE IF a.status # "Granted" THEN a.status
    ELSE IF a.hash # u.hash THEN "Invalidated"
    ELSE "Consumed"

(* Fault: what let an action through is not marked as consumed.            *)
FaultHonorKeeps(id, u) ==
    /\ \E a \in approvals : a.id = id /\ Honored(a, u) = "Consumed"
    /\ honored' = [honored EXCEPT ![id] = @ + 1]
    /\ UNCHANGED <<now, config, approvals, requested, audit, saved, granted, acts, restarts>>

Honor(id, u) ==
    /\ Known(id)
    /\ LET a == CHOOSE b \in approvals : b.id = id
           status == Honored(a, u)
       IN /\ status # a.status   \* else only an error is returned
          /\ SetStatus(id, status)
          /\ honored' = [honored EXCEPT ![id] = @ + (IF status = "Consumed" THEN 1 ELSE 0)]
    /\ UNCHANGED <<now, config, requested, audit, saved, granted, acts, restarts>>

-----------------------------------------------------------------------------
Save ==
    /\ restarts < MaxRestarts   \* else nothing reads it
    /\ saved # policyState /\ saved' = policyState
    /\ UNCHANGED <<now, config, approvals, requested, audit, granted, honored,
                   acts, restarts>>

(* The application ends, with or without a last save, and starts again;    *)
(* what was not saved is forgotten, by the histories too.                  *)
Restart ==
    /\ restarts < MaxRestarts /\ restarts' = restarts + 1
    /\ config' = saved.config /\ approvals' = saved.approvals
    /\ LET pending == {a \in saved.approvals : a.status = "Pending"}
           marks == <<"WorkflowResumed">>
                    \o (IF pending = {} THEN <<>> ELSE <<"ApprovalRequested">>)
           trail == from_events(saved.audit)
       IN audit' = IF Len(marks) = 1 THEN Recorded(trail, marks[1])
                   ELSE Recorded(Recorded(trail, marks[1]), marks[2])
    /\ granted' = saved.granted /\ honored' = saved.honored
    /\ UNCHANGED <<now, requested, saved, acts>>

Next ==
    \/ Tick \/ Save \/ Restart
    \/ \E a \in Actions : EvaluateAction(a)
    \/ \E level \in 1..4 : SetAutonomy(level)
    \/ \E s \in FilesystemScope : SetFilesystemScope(s)
    \/ \E n \in NetworkPolicy : SetNetworkPolicy(n)
    \/ \E by \in Grantors : GrantSecretAllowance(by)
    \/ \E cap \in 0..1 : IncreaseBudget(cap)
    \/ RecordBudget
    \/ \E c \in Contexts : Request(c)
    \/ \E id \in Ids : Grant(id) \/ Reject(id)
    \/ \E id \in Ids, u \in Uses : Honor(id, u)

Spec == Init /\ [][Next]_vars

-----------------------------------------------------------------------------
TypeOK ==
    /\ now \in 0..MaxTime /\ requested \in 0..MaxRequests
    /\ config \in [autonomy : 1..4, filesystem : FilesystemScope, network : NetworkPolicy,
                   allowances : Seq(Grantors), cap : Nat \cup {Unlimited}, used : Nat]
    /\ \A a \in approvals :
           /\ a.id \in 1..requested /\ a.expires \in 0..(MaxTime + TTL)
           /\ [workflow |-> a.workflow, agent |-> a.agent, hash |-> a.hash] \in Contexts
           /\ a.status \in {"Pending", "Granted", "Rejected", "Consumed", "Expired",
                            "Invalidated"}
    /\ \A a, b \in approvals : a.id = b.id => a = b
    /\ audit \in Seq(AuditEventKind) /\ Len(audit) <= MaxAudit

(* A granted approval lets one action through, and none before a human     *)
(* granted it or after it expired, whatever is saved, restored and pruned. *)
HonoredOnce ==
    \A id \in Ids :
        /\ honored[id] <= 1
        /\ honored[id] = 1 => \E a \in granted : a.id = id
        /\ \A a \in approvals : a.id = id /\ a.status \in {"Pending", "Granted"}
                                => honored[id] = 0

(* An approval a human gave leaves the store by its use, its expiry or a   *)
(* changed action, not to make room, and what it let through is what was   *)
(* asked: same workflow, same action, the agent asked for if one was.      *)
GrantIsHonest ==
    [][restarts' = restarts =>
        /\ \A a \in approvals : a.status = "Granted" =>
               \E b \in approvals' : b.id = a.id
        /\ honored' # honored =>
               \A u \in Uses, id \in Ids : Honor(id, u) =>
                   \E a \in granted : /\ a.id = id /\ now <= a.expires
                                      /\ a.workflow = u.workflow /\ a.hash = u.hash
                                      /\ None \in {a.agent, u.agent} \/ a.agent = u.agent]_vars

(* The autonomy level only moves the line between what runs and what is    *)
(* asked: a denial is one at every level, a higher level asks no more than *)
(* a lower one, and what is critical is asked at all of them.  (A policy   *)
(* does not depend on approvals: those set before there are any will do.)  *)
AutonomyOnlyAsks ==
    [][config' # config /\ requested = 0 => \A a \in Actions, level \in 1..3 :
        LET lower == evaluate([config' EXCEPT !.autonomy = level], a)
            higher == evaluate([config' EXCEPT !.autonomy = level + 1], a)
        IN /\ lower = "Deny" <=> higher = "Deny"
           /\ lower = "Allow" => higher = "Allow"
           /\ a.what \in {"RecursiveDelete", "Critical"} => higher # "Allow"]_config

(* The trail is the most recent part of what happened, in its order: a     *)
(* call puts one event before it, a restart two before the saved one.      *)
AuditIsRecentHistory ==
    [][LET before == IF restarts' = restarts THEN audit ELSE saved.audit
       IN \E k \in 0..2 : \A i \in 1..Len(audit') :
              i > k => audit'[i] = (before \o <<None>>)[i - k]]_audit

=============================================================================
