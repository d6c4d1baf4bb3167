----------------------------- MODULE PolicyProofs -----------------------------
(***************************************************************************)
(* Theorems about Policy, for any contexts, uses and bounds: an approval   *)
(* lets one action through, once, the one it was asked for, and a level of *)
(* autonomy moves nothing but the line between running and asking.         *)
(***************************************************************************)
EXTENDS Policy, FiniteSetTheorems, SequenceTheorems, TLAPS

(* What the parameters are: numbers, and records of three fields.          *)
Bounds ==
    /\ {TTL, MaxRecords, MaxAudit, MaxTime, MaxRequests, MaxActs, MaxRestarts} \subseteq Nat
    /\ \A c \in Contexts : c = [workflow |-> c.workflow, agent |-> c.agent, hash |-> c.hash]

-----------------------------------------------------------------------------
(* What the autonomy level decides.                                        *)

Config == [autonomy : 1..4, filesystem : FilesystemScope, network : NetworkPolicy,
           allowances : Seq(Grantors), cap : Nat \cup {Unlimited}, used : Nat]

AtLevel(c, level) == [c EXCEPT !.autonomy = level]

LEMMA OtherFields ==
    ASSUME NEW c \in Config, NEW level \in 1..4
    PROVE  LET d == AtLevel(c, level)
           IN  /\ d \in Config /\ d.autonomy = level /\ d.filesystem = c.filesystem
               /\ d.network = c.network /\ d.allowances = c.allowances
               /\ d.cap = c.cap /\ d.used = c.used
  BY DEF Config, AtLevel

(* A level lets more through than the one below it, and forbids nothing.   *)
LEMMA LevelsGrow ==
    ASSUME NEW level \in 1..3, NEW risk \in {Low, Medium, High, Critical}, NEW inScope \in BOOLEAN
    PROVE  LET lower == autonomy_decision(level, risk, inScope)
               higher == autonomy_decision(level + 1, risk, inScope)
           IN  /\ {lower, higher} \subseteq {"Allow", "RequireApproval"}
               /\ lower = "Allow" => higher = "Allow"
               /\ risk = Critical => higher = "RequireApproval"
<1>1. auto_threshold(level) <= auto_threshold(level + 1)
  <2>1. CASE level = 1
    BY <2>1 DEF auto_threshold, Low, Medium, High
  <2>2. CASE level = 2
    BY <2>2 DEF auto_threshold, Low, Medium, High
  <2>3. CASE level = 3
    BY <2>3 DEF auto_threshold, Low, Medium, High
  <2> QED BY <2>1, <2>2, <2>3
<1>2. auto_threshold(level) \in Int /\ auto_threshold(level + 1) \in Int /\ risk \in Int
  <2>1. \A l \in 1..4 : auto_threshold(l) \in Int
    BY DEF auto_threshold, Low, Medium, High
  <2>2. level \in 1..4 /\ level + 1 \in 1..4
    OBVIOUS
  <2> QED BY <2>1, <2>2 DEF Low, Medium, High, Critical
<1> QED BY <1>1, <1>2 DEF autonomy_decision

LEMMA LevelsOnlyAsk ==
    ASSUME NEW c \in Config, NEW a \in Actions, NEW level \in 1..3
    PROVE  LET lower == evaluate(AtLevel(c, level), a)
               higher == evaluate(AtLevel(c, level + 1), a)
           IN  /\ lower = "Deny" <=> higher = "Deny"
               /\ lower = "Allow" => higher = "Allow"
               /\ a.what \in {"RecursiveDelete", "Critical"} => higher # "Allow"
<1> DEFINE d == AtLevel(c, level)
           e == AtLevel(c, level + 1)
<1>1. /\ d.autonomy = level /\ e.autonomy = level + 1 /\ d.filesystem = e.filesystem
      /\ d.network = e.network /\ d.allowances = e.allowances /\ d.cap = e.cap /\ d.used = e.used
  <2>1. level \in 1..4 /\ level + 1 \in 1..4
    OBVIOUS
  <2> QED BY <2>1, OtherFields
<1> HIDE DEF d, e
<1> DEFINE Asks(x, y) == /\ x = "Deny" <=> y = "Deny"
                         /\ x = "Allow" => y = "Allow"
<1>2. \A risk \in {Low, Medium, High, Critical}, inScope \in BOOLEAN :
         /\ Asks(autonomy_decision(level, risk, inScope), autonomy_decision(level + 1, risk, inScope))
         /\ autonomy_decision(level + 1, Critical, inScope) # "Allow"
  BY LevelsGrow
<1>3. filesystem_in_scope(d) = filesystem_in_scope(e) /\ filesystem_in_scope(d) \in BOOLEAN
  BY <1>1 DEF filesystem_in_scope
<1>4. \A what \in RuleClasses \cup {"listed"} \cup RiskClasses :
         Asks(evaluate_process(d, what), evaluate_process(e, what))
  BY <1>1, <1>2, <1>3 DEF evaluate_process, RuleClasses, RiskClasses
<1>5. \A what : evaluate_shell(d, what) = evaluate_shell(e, what)
  BY <1>3 DEF evaluate_shell
<1>6. \A op \in {"Read", "Write", "Delete", "RecursiveDelete"} : \A place :
         /\ Asks(evaluate_filesystem(d, op, place), evaluate_filesystem(e, op, place))
         /\ op = "RecursiveDelete" => evaluate_filesystem(e, op, place) # "Allow"
  <2>1. \A place : validate(d, place) <=> validate(e, place)
    BY <1>1 DEF validate, roots
  <2>2. \A op \in {"Read", "Write", "Delete", "RecursiveDelete"} :
           /\ FsRisk(op) \in {Low, Medium, High, Critical}
           /\ op = "RecursiveDelete" => FsRisk(op) = Critical
    BY DEF FsRisk
  <2> SUFFICES ASSUME NEW op \in {"Read", "Write", "Delete", "RecursiveDelete"}, NEW place
               PROVE  /\ Asks(evaluate_filesystem(d, op, place), evaluate_filesystem(e, op, place))
                      /\ op = "RecursiveDelete" => evaluate_filesystem(e, op, place) # "Allow"
    OBVIOUS
  <2>3. CASE ~validate(d, place)
    <3>1. evaluate_filesystem(d, op, place) = "Deny" /\ evaluate_filesystem(e, op, place) = "Deny"
      BY <2>1, <2>3 DEF evaluate_filesystem
    <3> QED BY <3>1
  <2>4. CASE validate(d, place)
    <3>1. /\ evaluate_filesystem(d, op, place) = autonomy_decision(level, FsRisk(op), TRUE)
          /\ evaluate_filesystem(e, op, place) = autonomy_decision(level + 1, FsRisk(op), TRUE)
      BY <1>1, <2>1, <2>4 DEF evaluate_filesystem
    <3> HIDE DEF Asks
    <3>2. /\ Asks(autonomy_decision(level, FsRisk(op), TRUE),
                  autonomy_decision(level + 1, FsRisk(op), TRUE))
          /\ op = "RecursiveDelete" => autonomy_decision(level + 1, FsRisk(op), TRUE) # "Allow"
      BY <1>2, <2>2
    <3> QED BY <3>1, <3>2
  <2> QED BY <2>3, <2>4
<1>7. \A host : Asks(evaluate_network(d, host), evaluate_network(e, host))
  BY <1>1, <1>2 DEF evaluate_network, network_permits
<1>8. \A k \in SecretCategories :
         /\ Asks(evaluate_secret(d, k), evaluate_secret(e, k))
         /\ k = "Critical" => evaluate_secret(e, k) # "Allow"
  <2>1. \A k : secrets_evaluate(d, k) <=> secrets_evaluate(e, k)
    BY <1>1 DEF secrets_evaluate
  <2>2. Asks(autonomy_decision(level, Medium, TRUE), autonomy_decision(level + 1, Medium, TRUE))
    BY <1>2
  <2> SUFFICES ASSUME NEW k \in SecretCategories
               PROVE  /\ Asks(evaluate_secret(d, k), evaluate_secret(e, k))
                      /\ k = "Critical" => evaluate_secret(e, k) # "Allow"
    OBVIOUS
  <2>3. CASE ~secrets_evaluate(d, k)
    BY <2>1, <2>3 DEF evaluate_secret
  <2>4. CASE secrets_evaluate(d, k) /\ k = "Critical"
    BY <2>1, <2>4 DEF evaluate_secret
  <2>5. CASE secrets_evaluate(d, k) /\ k # "Critical"
    BY <1>1, <2>1, <2>2, <2>5 DEF evaluate_secret
  <2> QED BY <2>3, <2>4, <2>5
<1>9. Asks(evaluate_agent_spawn(d), evaluate_agent_spawn(e))
  BY <1>1, <1>2, <1>3 DEF evaluate_agent_spawn, can_afford
<1>10. \/ a.kind = "Process" /\ a.what \in RuleClasses \cup {"listed"} \cup RiskClasses
       \/ a.kind = "Shell" /\ a.what \in {"trivial", "other"}
       \/ a.kind = "Filesystem" /\ a.what \in {"Read", "Write", "Delete", "RecursiveDelete"}
       \/ a.kind = "Network" /\ a.what \in {"listed", "other"}
       \/ a.kind = "Secret" /\ a.what \in SecretCategories
       \/ a.kind \in {"AgentSpawn", "Budget", "AutonomyChange", "WorkspaceControl"} /\ a.what = "-"
  BY DEF Actions, A
<1>11. /\ Asks(evaluate(d, a), evaluate(e, a))
       /\ a.what \in {"RecursiveDelete", "Critical"} => evaluate(e, a) # "Allow"
  <2>1. CASE a.kind = "Process" /\ a.what \in RuleClasses \cup {"listed"} \cup RiskClasses
    <3>1. a.what \notin {"RecursiveDelete", "Critical"}
      BY <2>1 DEF RuleClasses, RiskClasses
    <3> QED BY <1>4, <2>1, <3>1 DEF evaluate
  <2>2. CASE a.kind = "Shell" /\ a.what \in {"trivial", "other"}
    BY <1>5, <2>2 DEF evaluate
  <2>3. CASE a.kind = "Filesystem" /\ a.what \in {"Read", "Write", "Delete", "RecursiveDelete"}
    BY <1>6, <2>3 DEF evaluate
  <2>4. CASE a.kind = "Network" /\ a.what \in {"listed", "other"}
    BY <1>7, <2>4 DEF evaluate
  <2>5. CASE a.kind = "Secret" /\ a.what \in SecretCategories
    <3>1. a.what # "RecursiveDelete"
      BY <2>5 DEF SecretCategories
    <3> QED BY <1>8, <2>5, <3>1 DEF evaluate
  <2>6. CASE a.kind \in {"AgentSpawn", "Budget", "AutonomyChange", "WorkspaceControl"} /\ a.what = "-"
    BY <1>9, <2>6 DEF evaluate
  <2> QED BY <1>10, <2>1, <2>2, <2>3, <2>4, <2>5, <2>6
<1> QED BY <1>11 DEF d, e

-----------------------------------------------------------------------------
(* The store of approvals.                                                 *)

ApprovalStatus == {"Pending", "Granted", "Rejected", "Consumed", "Expired", "Invalidated"}
Workflows == {c.workflow : c \in Contexts}
Agents == {c.agent : c \in Contexts}
Hashes == {c.hash : c \in Contexts}
Approval == [id : Ids, workflow : Workflows, agent : Agents, hash : Hashes,
             expires : 0..(MaxTime + TTL), status : ApprovalStatus]

Context(a) == [workflow |-> a.workflow, agent |-> a.agent, hash |-> a.hash]

(* The records of an approval that differ in its status only.              *)
SameAs(a, b) ==
    /\ a.id = b.id /\ a.workflow = b.workflow /\ a.agent = b.agent
    /\ a.hash = b.hash /\ a.expires = b.expires

(* What holds of a store ap, the approvals gr that were granted and how    *)
(* often each was honored, when n were requested.                          *)
Typed(ap, gr, ho, n) ==
    /\ ap \subseteq Approval /\ gr \subseteq Approval /\ ho \in [Ids -> 0..1]
    /\ \A a \in ap : a.id <= n /\ Context(a) \in Contexts
    /\ \A a, b \in ap : a.id = b.id => a = b

Earned(ap, gr, ho, n) ==
    /\ \A a \in ap : a.status = "Granted" => \E g \in gr : SameAs(g, a)
    /\ \A a \in ap : a.status \in {"Pending", "Granted"} => ho[a.id] = 0
    /\ \A id \in Ids : ho[id] = 1 => id <= n /\ \E g \in gr : g.id = id

Sound(ap, gr, ho, n) == Typed(ap, gr, ho, n) /\ Earned(ap, gr, ho, n)

Store ==
    /\ requested \in 0..MaxRequests /\ now \in 0..MaxTime /\ restarts \in Nat
    /\ Sound(approvals, granted, honored, requested)
    /\ Sound(saved.approvals, saved.granted, saved.honored, requested)

LEMMA ApprovalFields ==
    ASSUME NEW a \in Approval, NEW status \in ApprovalStatus
    PROVE  LET b == [a EXCEPT !.status = status]
           IN  /\ b \in Approval /\ b.status = status /\ SameAs(a, b) /\ Context(b) = Context(a)
               /\ a.id \in Ids /\ a.expires \in Int
<1>1. [a EXCEPT !.status = status] \in Approval /\ [a EXCEPT !.status = status].status = status
      /\ SameAs(a, [a EXCEPT !.status = status])
  BY DEF Approval, SameAs
<1>2. a.id \in Ids /\ a.expires \in Int
  BY DEF Approval
<1> QED BY <1>1, <1>2 DEF SameAs, Context

(* A decision about the approval of that id.                               *)
LEMMA Decides ==
    ASSUME NEW ap, NEW gr, NEW ho, NEW n, Typed(ap, gr, ho, n),
           NEW a \in ap, NEW status \in ApprovalStatus
    PROVE  LET after == {IF b.id = a.id THEN [b EXCEPT !.status = status] ELSE b : b \in ap}
           IN  after = (ap \ {a}) \cup {[a EXCEPT !.status = status]}
  BY DEF Typed

LEMMA DecidesTyped ==
    ASSUME NEW ap, NEW gr, NEW ho, NEW n, Typed(ap, gr, ho, n),
           NEW a \in ap, NEW status \in ApprovalStatus
    PROVE  Typed((ap \ {a}) \cup {[a EXCEPT !.status = status]}, gr, ho, n)
<1>1. a \in Approval
  BY DEF Typed
<1> DEFINE b == [a EXCEPT !.status = status]
<1>2. b \in Approval /\ SameAs(a, b) /\ Context(b) = Context(a)
  BY <1>1, ApprovalFields
<1> HIDE DEF b
<1>3. b.id = a.id
  BY <1>2 DEF SameAs
<1>4. Typed((ap \ {a}) \cup {b}, gr, ho, n)
  BY <1>2, <1>3 DEF Typed
<1> QED BY <1>4 DEF b

(* Only what expired, and of the decided what makes room, is pruned.       *)
LEMMA Prunes ==
    ASSUME NEW s
    PROVE  /\ prune(s) \subseteq s
           /\ \A a \in s : a.status = "Granted" => a \in prune(s)
  BY DEF prune, Kept

LEMMA Fewer ==
    ASSUME NEW ap, NEW gr, NEW ho, NEW n, Sound(ap, gr, ho, n), NEW few \in SUBSET ap
    PROVE  Sound(few, gr, ho, n)
  BY DEF Sound, Typed, Earned

LEMMA Later ==
    ASSUME NEW ap, NEW gr, NEW ho, NEW n \in Int, Sound(ap, gr, ho, n)
    PROVE  Sound(ap, gr, ho, n + 1)
<1>1. \A id \in Ids : id \in Int /\ (id <= n => id <= n + 1)
  BY DEF Ids
<1>2. \A a \in ap : a.id \in Ids
  BY DEF Sound, Typed, Approval
<1>3. Typed(ap, gr, ho, n + 1)
  BY <1>1, <1>2 DEF Sound, Typed
<1>4. Earned(ap, gr, ho, n + 1)
  BY <1>1 DEF Sound, Earned
<1> QED BY <1>3, <1>4 DEF Sound

LEMMA RequestStore ==
    ASSUME Bounds, Store, NEW c \in Contexts, Request(c)
    PROVE  Store'
<1> DEFINE a == NewApproval(c)
           n == requested + 1
<1>1. /\ requested' = n /\ n \in 0..MaxRequests /\ n \in Ids /\ requested \in Int /\ n \in Int
      /\ approvals' = prune(approvals \cup {a})
      /\ UNCHANGED <<now, saved, granted, honored, restarts>>
  BY DEF Request, Bounds, Store, Ids
<1>2. now + TTL \in 0..(MaxTime + TTL)
  BY DEF Bounds, Store
<1>3. a \in Approval /\ a.id = n /\ a.status = "Pending" /\ Context(a) \in Contexts
  <2>1. c.workflow \in Workflows /\ c.agent \in Agents /\ c.hash \in Hashes
    BY DEF Workflows, Agents, Hashes
  <2>2. a \in Approval /\ a.id = n /\ a.status = "Pending"
    BY <1>1, <1>2, <2>1 DEF NewApproval, Approval, ApprovalStatus
  <2>3. Context(a) = [workflow |-> c.workflow, agent |-> c.agent, hash |-> c.hash]
    BY DEF NewApproval, Context
  <2> QED BY <2>2, <2>3 DEF Bounds
<1> HIDE DEF a, n
<1>4. Sound(approvals, granted, honored, n) /\ Sound(saved.approvals, saved.granted, saved.honored, n)
  BY <1>1, Later DEF Store, n
<1>5. \A b \in approvals : b.id # n
  <2>1. \A b \in approvals : b.id \in Ids /\ b.id <= requested
    BY DEF Store, Sound, Typed, Approval
  <2> QED BY <1>1, <2>1 DEF Ids, n
<1>6. honored[n] = 0 /\ n <= n
  <2>1. honored[n] \in 0..1 /\ (honored[n] = 1 => n <= requested)
    BY <1>1 DEF Store, Sound, Typed, Earned
  <2> QED BY <1>1, <2>1 DEF n
<1>7. Sound(approvals \cup {a}, granted, honored, n)
  <2>1. Typed(approvals \cup {a}, granted, honored, n)
    BY <1>3, <1>4, <1>5, <1>6 DEF Sound, Typed
  <2>2. Earned(approvals \cup {a}, granted, honored, n)
    BY <1>3, <1>4, <1>6 DEF Sound, Earned
  <2> QED BY <2>1, <2>2 DEF Sound
<1>8. Sound(approvals', granted, honored, n)
  BY <1>1, <1>7, Prunes, Fewer
<1> QED BY <1>1, <1>4, <1>8 DEF Store

(* What a human decides is recorded with the approval as it was.           *)
LEMMA GrantStore ==
    ASSUME Bounds, Store, NEW id \in Ids, Grant(id)
    PROVE  Store'
<1> DEFINE a == CHOOSE b \in approvals : b.id = id
<1>1. /\ Typed(approvals, granted, honored, requested)
      /\ Earned(approvals, granted, honored, requested)
      /\ UNCHANGED <<now, requested, saved, honored, restarts>>
  BY DEF Grant, Store, Sound
<1>2. a \in approvals /\ a.id = id /\ a \in Approval /\ a.status = "Pending"
  <2>1. a \in approvals /\ a.id = id
    BY DEF Grant, Known
  <2> QED BY <2>1, <1>1 DEF Grant, Status, Typed
<1>3. \/ SetStatus(id, "Expired") /\ UNCHANGED granted
      \/ SetStatus(id, "Granted") /\ granted' = granted \cup {a}
  BY DEF Grant
<1> HIDE DEF a
<1>4. \A status \in ApprovalStatus : SetStatus(id, status) =>
         /\ approvals' = (approvals \ {a}) \cup {[a EXCEPT !.status = status]}
         /\ Typed(approvals', granted, honored, requested)
  BY <1>1, <1>2, Decides, DecidesTyped DEF SetStatus
<1>5. Sound(approvals', granted', honored, requested)
  <2>1. CASE SetStatus(id, "Expired") /\ UNCHANGED granted
    <3> DEFINE b == [a EXCEPT !.status = "Expired"]
    <3>1. "Expired" \in ApprovalStatus
      BY DEF ApprovalStatus
    <3>2. approvals' = (approvals \ {a}) \cup {b} /\ Typed(approvals', granted, honored, requested)
      BY <1>4, <2>1, <3>1
    <3>3. b.status = "Expired"
      BY <1>2, <3>1, ApprovalFields
    <3> HIDE DEF b
    <3>4. Earned(approvals', granted, honored, requested)
      BY <1>1, <3>2, <3>3 DEF Earned
    <3> QED BY <2>1, <3>2, <3>4 DEF Sound
  <2>2. CASE SetStatus(id, "Granted") /\ granted' = granted \cup {a}
    <3> DEFINE b == [a EXCEPT !.status = "Granted"]
    <3>1. "Granted" \in ApprovalStatus
      BY DEF ApprovalStatus
    <3>2. approvals' = (approvals \ {a}) \cup {b} /\ Typed(approvals', granted, honored, requested)
      BY <1>4, <2>2, <3>1
    <3>3. b.status = "Granted" /\ SameAs(a, b)
      BY <1>2, <3>1, ApprovalFields
    <3> HIDE DEF b
    <3>4. Typed(approvals', granted', honored, requested)
      BY <1>2, <2>2, <3>2 DEF Typed
    <3>5. honored[a.id] = 0 /\ b.id = a.id
      BY <1>1, <1>2, <3>3 DEF Earned, SameAs
    <3>6. Earned(approvals', granted', honored, requested)
      BY <1>1, <2>2, <3>2, <3>3, <3>5 DEF Earned
    <3> QED BY <3>4, <3>6 DEF Sound
  <2> QED BY <1>3, <2>1, <2>2
<1> QED BY <1>1, <1>5 DEF Store

LEMMA RejectStore ==
    ASSUME Bounds, Store, NEW id \in Ids, Reject(id)
    PROVE  Store'
<1> DEFINE b(a) == [a EXCEPT !.status = "Rejected"]
<1>1. /\ Typed(approvals, granted, honored, requested)
      /\ Earned(approvals, granted, honored, requested)
      /\ UNCHANGED <<now, requested, saved, granted, honored, restarts>>
  BY DEF Reject, Store, Sound
<1>2. PICK a \in approvals : a.id = id
  BY DEF Reject, Known
<1>3. "Rejected" \in ApprovalStatus /\ a \in Approval /\ SetStatus(id, "Rejected")
  BY <1>1 DEF ApprovalStatus, Typed, Reject
<1>4. /\ approvals' = (approvals \ {a}) \cup {b(a)}
      /\ Typed((approvals \ {a}) \cup {b(a)}, granted, honored, requested)
  BY <1>1, <1>2, <1>3, Decides, DecidesTyped DEF SetStatus
<1>5. b(a).status = "Rejected"
  BY <1>3, ApprovalFields
<1> HIDE DEF b
<1>6. Earned(approvals', granted, honored, requested)
  BY <1>1, <1>4, <1>5 DEF Earned
<1> QED BY <1>1, <1>4, <1>6 DEF Store, Sound

(* What honor makes of an approval: it is expired, invalidated, or used.   *)
LEMMA Honors ==
    ASSUME Store, NEW id \in Ids, NEW u, Honor(id, u)
    PROVE  \E a \in approvals, status \in {"Expired", "Invalidated", "Consumed"} :
             /\ a.id = id /\ a \in Approval /\ status = Honored(a, u) /\ status # a.status
             /\ approvals' = (approvals \ {a}) \cup {[a EXCEPT !.status = status]}
             /\ Typed(approvals', granted, honored, requested)
             /\ honored' = IF status = "Consumed" THEN [honored EXCEPT ![id] = @ + 1] ELSE honored
             /\ UNCHANGED <<now, requested, saved, granted, restarts>>
<1> DEFINE a == CHOOSE b \in approvals : b.id = id
           status == Honored(a, u)
<1>1. a \in approvals /\ a.id = id
  BY DEF Honor, Known
<1>2. /\ status # a.status /\ SetStatus(id, status)
      /\ honored' = [honored EXCEPT ![id] = @ + (IF status = "Consumed" THEN 1 ELSE 0)]
      /\ UNCHANGED <<now, requested, saved, granted, restarts>>
  BY DEF Honor
<1> HIDE DEF a
<1>3. status \in {"Expired", "Invalidated", "Consumed"}
  BY <1>2 DEF Honored
<1>4. status \in ApprovalStatus
  BY <1>3 DEF ApprovalStatus
<1> HIDE DEF status
<1>5. Typed(approvals, granted, honored, requested) /\ a \in Approval
  BY <1>1 DEF Store, Sound, Typed
<1>6. /\ approvals' = (approvals \ {a}) \cup {[a EXCEPT !.status = status]}
      /\ Typed(approvals', granted, honored, requested)
  BY <1>1, <1>2, <1>4, <1>5, Decides, DecidesTyped DEF SetStatus
<1>7. honored' = IF status = "Consumed" THEN [honored EXCEPT ![id] = @ + 1] ELSE honored
  <2>1. honored \in [Ids -> 0..1] /\ honored[id] + 0 = honored[id]
    BY <1>5 DEF Typed
  <2>2. CASE status = "Consumed"
    BY <1>2, <2>2
  <2>3. CASE status # "Consumed"
    BY <1>2, <2>1, <2>3
  <2> QED BY <2>2, <2>3
<1> QED BY <1>1, <1>2, <1>3, <1>5, <1>6, <1>7 DEF status

LEMMA HonorStore ==
    ASSUME Bounds, Store, NEW id \in Ids, NEW u, Honor(id, u)
    PROVE  Store'
<1>1. PICK a \in approvals, status \in {"Expired", "Invalidated", "Consumed"} :
             /\ a.id = id /\ a \in Approval /\ status = Honored(a, u) /\ status # a.status
             /\ approvals' = (approvals \ {a}) \cup {[a EXCEPT !.status = status]}
             /\ Typed(approvals', granted, honored, requested)
             /\ honored' = IF status = "Consumed" THEN [honored EXCEPT ![id] = @ + 1] ELSE honored
             /\ UNCHANGED <<now, requested, saved, granted, restarts>>
  BY Honors
<1> DEFINE b == [a EXCEPT !.status = status]
<1>2. status \in ApprovalStatus
  BY DEF ApprovalStatus
<1>3. b.status = status /\ SameAs(a, b) /\ b.id = id
  BY <1>1, <1>2, ApprovalFields DEF SameAs
<1>4. approvals' = (approvals \ {a}) \cup {b}
  BY <1>1
<1> HIDE DEF b
<1>5. /\ Earned(approvals, granted, honored, requested)
      /\ Typed(approvals, granted, honored, requested)
      /\ \A c \in approvals : c.id = id => c = a
  BY <1>1 DEF Store, Sound, Typed
<1>6. CASE status # "Consumed"
  <2>1. honored' = honored
    BY <1>1, <1>6
  <2>2. Earned(approvals', granted, honored, requested)
    BY <1>3, <1>4, <1>5 DEF Earned
  <2> QED BY <1>1, <2>1, <2>2 DEF Store, Sound
<1>7. CASE status = "Consumed"
  <2>1. a.status = "Granted"
    BY <1>1, <1>7 DEF Honored
  <2>2. honored[id] = 0 /\ (\E g \in granted : g.id = id) /\ id <= requested
    BY <1>1, <1>5, <2>1 DEF Earned, SameAs, Typed
  <2>3. /\ honored' \in [Ids -> 0..1] /\ honored'[id] = 1
        /\ \A i \in Ids : i # id => honored'[i] = honored[i]
    BY <1>1, <1>5, <1>7, <2>2 DEF Typed
  <2>4. Typed(approvals', granted, honored', requested)
    BY <1>1, <2>3 DEF Typed
  <2>5. Earned(approvals', granted, honored', requested)
    <3>1. \A c \in approvals' : c = b \/ (c \in approvals /\ c.id # id /\ c.id \in Ids)
      BY <1>4, <1>5 DEF Typed, Approval
    <3> QED BY <1>3, <1>5, <1>7, <2>2, <2>3, <3>1 DEF Earned
  <2> QED BY <1>1, <2>4, <2>5 DEF Store, Sound
<1> QED BY <1>6, <1>7

(* The calls that leave the approvals alone.                               *)
Others ==
    \/ Tick \/ (\E a \in Actions : EvaluateAction(a))
    \/ (\E level \in 1..4 : SetAutonomy(level))
    \/ (\E s \in FilesystemScope : SetFilesystemScope(s))
    \/ (\E n \in NetworkPolicy : SetNetworkPolicy(n))
    \/ (\E by \in Grantors : GrantSecretAllowance(by))
    \/ (\E cap \in 0..1 : IncreaseBudget(cap))
    \/ RecordBudget \/ UNCHANGED vars

LEMMA OtherSteps ==
    ASSUME Others
    PROVE  /\ UNCHANGED <<approvals, requested, saved, granted, honored, restarts>>
           /\ now' = now \/ (now < MaxTime /\ now' = now + 1)
<1>1. CASE Tick
  BY <1>1 DEF Tick
<1>2. CASE \E a \in Actions : EvaluateAction(a)
  BY <1>2 DEF EvaluateAction
<1>3. CASE \E level \in 1..4 : SetAutonomy(level)
  BY <1>3 DEF SetAutonomy, Configure
<1>4. CASE \E s \in FilesystemScope : SetFilesystemScope(s)
  BY <1>4 DEF SetFilesystemScope, Configure
<1>5. CASE \E n \in NetworkPolicy : SetNetworkPolicy(n)
  BY <1>5 DEF SetNetworkPolicy, Configure
<1>6. CASE \E by \in Grantors : GrantSecretAllowance(by)
  BY <1>6 DEF GrantSecretAllowance, Configure
<1>7. CASE \E cap \in 0..1 : IncreaseBudget(cap)
  BY <1>7 DEF IncreaseBudget, Configure
<1>8. CASE RecordBudget \/ UNCHANGED vars
  BY <1>8 DEF RecordBudget, vars
<1> QED BY <1>1, <1>2, <1>3, <1>4, <1>5, <1>6, <1>7, <1>8 DEF Others

LEMMA Steps ==
    ASSUME [Next]_vars
    PROVE  \/ Others \/ Save \/ Restart
           \/ \E c \in Contexts : Request(c)
           \/ \E id \in Ids : Grant(id) \/ Reject(id)
           \/ \E id \in Ids, u \in Uses : Honor(id, u)
  BY DEF Next, Others

LEMMA StoreKept == Bounds /\ Store /\ [Next]_vars => Store'
<1> SUFFICES ASSUME Bounds, Store, [Next]_vars PROVE Store'
  OBVIOUS
<1>1. CASE Others
  <2>1. now' \in 0..MaxTime
    BY <1>1, OtherSteps DEF Store, Bounds
  <2> QED BY <1>1, <2>1, OtherSteps DEF Store
<1>2. CASE Save
  BY <1>2 DEF Save, policyState, Store
<1>3. CASE Restart
  BY <1>3 DEF Restart, Store
<1> QED BY <1>1, <1>2, <1>3, Steps, RequestStore, GrantStore, RejectStore, HonorStore

LEMMA StoreStarts == Bounds /\ Init => Store
<1> SUFFICES ASSUME Bounds, Init PROVE Store
  OBVIOUS
<1>1. /\ approvals = {} /\ granted = {} /\ honored = [i \in Ids |-> 0]
      /\ requested = 0 /\ now = 0 /\ restarts = 0
      /\ saved.approvals = approvals /\ saved.granted = granted /\ saved.honored = honored
  BY DEF Init, policyState
<1>2. 0 \in 0..MaxRequests /\ 0 \in 0..MaxTime
  BY DEF Bounds
<1>3. Sound({}, {}, [i \in Ids |-> 0], 0)
  BY DEF Sound, Typed, Earned
<1> QED BY <1>1, <1>2, <1>3 DEF Store

(* An approval lets one action through, and none before a human granted it *)
(* or after it expired, however often it is saved, restored and pruned:    *)
(* honor marks it consumed in the same call.                               *)
THEOREM GrantedOnce == ASSUME Bounds PROVE Spec => []HonoredOnce
<1>1. Store => HonoredOnce
  <2> SUFFICES ASSUME Store, NEW id \in Ids
               PROVE  /\ honored[id] <= 1
                      /\ honored[id] = 1 => \E a \in granted : a.id = id
                      /\ \A a \in approvals : a.id = id /\ a.status \in {"Pending", "Granted"}
                                              => honored[id] = 0
    BY DEF HonoredOnce
  <2>1. honored[id] \in 0..1
    BY DEF Store, Sound, Typed
  <2> QED BY <2>1 DEF Store, Sound, Earned
<1>2. Init => Store
  BY StoreStarts
<1>3. Store /\ [Next]_vars => Store'
  BY StoreKept
<1> QED BY <1>1, <1>2, <1>3, PTL DEF Spec

-----------------------------------------------------------------------------
(* What an approval lets through.                                          *)

GrantStays ==
    restarts' = restarts =>
        \A a \in approvals : a.status = "Granted" => \E b \in approvals' : b.id = a.id

LEMMA Stays == Bounds /\ Store /\ [Next]_vars => GrantStays
<1> SUFFICES ASSUME Bounds, Store, [Next]_vars, restarts' = restarts,
                    NEW a \in approvals, a.status = "Granted"
             PROVE  \E b \in approvals' : b.id = a.id
  BY DEF GrantStays
<1>1. CASE Others \/ Save
  BY <1>1, OtherSteps DEF Save
<1>2. CASE Restart
  <2>1. restarts' = restarts + 1
    BY <1>2 DEF Restart
  <2> QED BY <2>1 DEF Store
<1>3. ASSUME NEW c \in Contexts, Request(c) PROVE a \in approvals'
  BY <1>3, Prunes DEF Request
<1>4. ASSUME NEW id, NEW status, SetStatus(id, status)
      PROVE  \E b \in approvals' : b.id = a.id
  <2>1. a \in Approval
    BY DEF Store, Sound, Typed
  <2>2. [a EXCEPT !.status = status].id = a.id
    BY <2>1 DEF Approval
  <2> QED BY <1>4, <2>2 DEF SetStatus
<1>5. ASSUME NEW id \in Ids, Grant(id) \/ Reject(id) \/ \E u \in Uses : Honor(id, u)
      PROVE  \E status : SetStatus(id, status)
  BY <1>5 DEF Grant, Reject, Honor
<1> QED BY <1>1, <1>2, <1>3, <1>4, <1>5, Steps

(* What is honored was granted, for this workflow, agent and action, and   *)
(* has not expired.                                                        *)
UseIsHonest ==
    restarts' = restarts /\ honored' # honored =>
        \A u \in Uses, id \in Ids : Honor(id, u) =>
            \E a \in granted : /\ a.id = id /\ now <= a.expires
                               /\ a.workflow = u.workflow /\ a.hash = u.hash
                               /\ None \in {a.agent, u.agent} \/ a.agent = u.agent

LEMMA Honest == Store => UseIsHonest
<1> SUFFICES ASSUME Store, honored' # honored, NEW u \in Uses, NEW id \in Ids, Honor(id, u)
             PROVE  \E a \in granted : /\ a.id = id /\ now <= a.expires
                                       /\ a.workflow = u.workflow /\ a.hash = u.hash
                                       /\ None \in {a.agent, u.agent} \/ a.agent = u.agent
  BY DEF UseIsHonest
<1>1. PICK a \in approvals, status \in {"Expired", "Invalidated", "Consumed"} :
             /\ a.id = id /\ a \in Approval /\ status = Honored(a, u) /\ status # a.status
             /\ honored' = IF status = "Consumed" THEN [honored EXCEPT ![id] = @ + 1] ELSE honored
  BY Honors
<1>2. Honored(a, u) = "Consumed" /\ a.status # "Consumed"
  BY <1>1
<1>3. /\ a.workflow = u.workflow /\ a.hash = u.hash /\ a.status = "Granted"
      /\ None \in {a.agent, u.agent} \/ a.agent = u.agent
      /\ ~(now > a.expires)
  BY <1>2 DEF Honored
<1>4. now <= a.expires
  BY <1>1, <1>3 DEF Store, Approval
<1>5. PICK g \in granted : SameAs(g, a)
  BY <1>3 DEF Store, Sound, Earned
<1> QED BY <1>1, <1>3, <1>4, <1>5 DEF SameAs

(* A granted approval leaves the store by its use, its expiry or a changed *)
(* action, never by prune, and honor lets through what was asked for: the  *)
(* same workflow, action and agent, in time.                               *)
THEOREM GrantHonest == ASSUME Bounds PROVE Spec => GrantIsHonest
<1>1. Store /\ [Next]_vars =>
        (restarts' = restarts =>
          /\ \A a \in approvals : a.status = "Granted" =>
                 \E b \in approvals' : b.id = a.id
          /\ honored' # honored =>
                 \A u \in Uses, id \in Ids : Honor(id, u) =>
                     \E a \in granted : /\ a.id = id /\ now <= a.expires
                                        /\ a.workflow = u.workflow /\ a.hash = u.hash
                                        /\ None \in {a.agent, u.agent} \/ a.agent = u.agent)
  BY Stays, Honest DEF GrantStays, UseIsHonest
<1>2. Init => Store
  BY StoreStarts
<1>3. Store /\ [Next]_vars => Store'
  BY StoreKept
<1> QED BY <1>1, <1>2, <1>3, PTL DEF Spec, GrantIsHonest

-----------------------------------------------------------------------------
(* The configuration.                                                      *)

Configured == config \in Config /\ saved.config \in Config

LEMMA ConfigKept == Configured /\ [Next]_vars => Configured'
<1> SUFFICES ASSUME Configured, [Next]_vars PROVE Configured'
  OBVIOUS
<1>0. config \in Config /\ config.allowances \in Seq(Grantors) /\ config.used \in Nat
  BY DEF Configured, Config
<1>1. ASSUME NEW level \in 1..4, SetAutonomy(level) PROVE config' \in Config
  BY <1>0, <1>1 DEF SetAutonomy, Configure, Config
<1>2. ASSUME NEW s \in FilesystemScope, SetFilesystemScope(s) PROVE config' \in Config
  BY <1>0, <1>2 DEF SetFilesystemScope, Configure, Config
<1>3. ASSUME NEW n \in NetworkPolicy, SetNetworkPolicy(n) PROVE config' \in Config
  BY <1>0, <1>3 DEF SetNetworkPolicy, Configure, Config
<1>4. ASSUME NEW by \in Grantors, GrantSecretAllowance(by) PROVE config' \in Config
  <2>1. Append(config.allowances, by) \in Seq(Grantors)
    BY <1>0
  <2> DEFINE more == Append(config.allowances, by)
  <2>2. config' = [config EXCEPT !.allowances = more]
    BY <1>4 DEF GrantSecretAllowance, Configure
  <2> HIDE DEF more
  <2>3. more \in Seq(Grantors)
    BY <2>1 DEF more
  <2> QED BY <1>0, <2>2, <2>3 DEF Config
<1>5. ASSUME NEW cap \in 0..1, IncreaseBudget(cap) PROVE config' \in Config
  BY <1>0, <1>5 DEF IncreaseBudget, Configure, Config
<1>6. CASE RecordBudget
  <2>1. config' = [config EXCEPT !.used = @ + 1] /\ UNCHANGED saved
    BY <1>6 DEF RecordBudget
  <2>2. config.used + 1 \in Nat
    BY <1>0
  <2>3. config' \in Config
    BY <1>0, <2>1, <2>2 DEF Config
  <2> QED BY <2>1, <2>3 DEF Configured
<1>7. CASE Others
  <2>1. UNCHANGED saved
    BY <1>7, OtherSteps
  <2>2. CASE Tick \/ UNCHANGED vars
    BY <2>2 DEF Tick, vars, Configured
  <2>3. CASE \E a \in Actions : EvaluateAction(a)
    BY <2>3 DEF EvaluateAction, Configured
  <2> QED BY <1>1, <1>2, <1>3, <1>4, <1>5, <1>6, <1>7, <2>1, <2>2, <2>3 DEF Others, Configured
<1>8. CASE Save
  BY <1>8 DEF Save, policyState, Configured
<1>9. CASE Restart
  BY <1>9 DEF Restart, Configured
<1>10. ASSUME NEW id \in Ids, Grant(id) \/ Reject(id) \/ \E u \in Uses : Honor(id, u)
       PROVE  Configured'
  BY <1>10 DEF Grant, Reject, Honor, Configured
<1>11. ASSUME NEW c \in Contexts, Request(c) PROVE Configured'
  BY <1>11 DEF Request, Configured
<1> QED BY <1>7, <1>8, <1>9, <1>10, <1>11, Steps

LEMMA ConfigStarts == Init => Configured
<1> SUFFICES ASSUME Init PROVE Configured
  OBVIOUS
<1>1. <<>> \in Seq(Grantors)
  OBVIOUS
<1>2. config \in Config
  BY <1>1 DEF Init, Config, FilesystemScope, NetworkPolicy
<1> QED BY <1>2 DEF Init, policyState, Configured

(* Whatever the policy becomes, a denial is one at every level of autonomy,*)
(* a higher level asks no more than a lower one, and what is critical is   *)
(* asked at all of them (autonomy_decision, evaluate).                     *)
THEOREM LevelsAsk == Spec => AutonomyOnlyAsks
<1>1. Configured' =>
        (config' # config /\ requested = 0 => \A a \in Actions, level \in 1..3 :
          LET lower == evaluate([config' EXCEPT !.autonomy = level], a)
              higher == evaluate([config' EXCEPT !.autonomy = level + 1], a)
          IN /\ lower = "Deny" <=> higher = "Deny"
             /\ lower = "Allow" => higher = "Allow"
             /\ a.what \in {"RecursiveDelete", "Critical"} => higher # "Allow")
  BY LevelsOnlyAsk DEF Configured, AtLevel
<1> QED BY <1>1, ConfigKept, ConfigStarts, PTL DEF Spec, AutonomyOnlyAsks

-----------------------------------------------------------------------------
(* The audit trail.                                                        *)

Trail == Seq(AuditEventKind)

LEMMA TrailLen ==
    ASSUME NEW s \in Trail
    PROVE  /\ Len(s) \in Nat /\ DOMAIN s = 1..Len(s)
           /\ \A i \in 1..Len(s) : s[i] \in AuditEventKind
  BY LenProperties DEF Trail

LEMMA Truncates ==
    ASSUME Bounds, NEW s \in Trail
    PROVE  LET u == Truncated(s, MaxAudit)
           IN  /\ u \in Trail /\ Len(u) <= MaxAudit /\ Len(u) <= Len(s)
               /\ \A i \in 1..Len(u) : u[i] = s[i]
               /\ Len(s) <= MaxAudit => u = s
               /\ Len(u) = MaxAudit \/ Len(u) = Len(s)
<1> DEFINE n == IF Len(s) < MaxAudit THEN Len(s) ELSE MaxAudit
           u == SubSeq(s, 1, n)
<1>1. /\ Len(s) \in Nat /\ MaxAudit \in Nat /\ s \in Seq(AuditEventKind)
      /\ \A i \in 1..Len(s) : s[i] \in AuditEventKind
  BY TrailLen DEF Bounds, Trail
<1>2. n \in Nat /\ n <= Len(s) /\ n <= MaxAudit /\ (n = MaxAudit \/ n = Len(s))
      /\ (Len(s) <= MaxAudit => n = Len(s))
  BY <1>1
<1> HIDE DEF n
<1>3. u \in Trail /\ Len(u) = n /\ \A i \in 1..n : u[i] = s[i]
  BY <1>1, <1>2 DEF Trail
<1>4. n = Len(s) => u = s
  BY <1>1, <1>3, SeqEqual DEF Trail
<1>5. Truncated(s, MaxAudit) = u
  BY DEF Truncated, n
<1> QED BY <1>2, <1>3, <1>4, <1>5

(* A new event comes first, and the others follow as they were.            *)
LEMMA Records ==
    ASSUME Bounds, NEW t \in Trail, NEW e \in AuditEventKind
    PROVE  LET u == Recorded(t, e)
           IN  /\ u \in Trail /\ Len(u) <= MaxAudit
               /\ \A i \in 1..Len(u) : i > 1 => i - 1 \in 1..Len(t) /\ u[i] = t[i - 1]
<1> DEFINE s == <<e>> \o t
           u == Truncated(s, MaxAudit)
<1>1. /\ Len(t) \in Nat /\ s \in Trail /\ Len(s) = Len(t) + 1
      /\ \A i \in 1..Len(s) : i > 1 => s[i] = t[i - 1]
  BY TrailLen DEF Trail
<1> HIDE DEF s
<1>2. /\ u \in Trail /\ Len(u) <= MaxAudit /\ Len(u) <= Len(s)
      /\ \A i \in 1..Len(u) : u[i] = s[i]
  BY <1>1, Truncates
<1>3. Len(u) \in Nat
  BY <1>2, TrailLen
<1>4. Recorded(t, e) = u
  BY DEF Recorded, s
<1> HIDE DEF u
<1>5. \A i \in 1..Len(u) : i \in 1..Len(s) /\ (i > 1 => i - 1 \in 1..Len(t))
  BY <1>1, <1>2, <1>3
<1> QED BY <1>1, <1>2, <1>4, <1>5

(* What is recorded of a trail that was cut is what is recorded of it.     *)
LEMMA RecordsCut ==
    ASSUME Bounds, NEW s \in Trail, s # <<>>
    PROVE  Recorded(Truncated(Tail(s), MaxAudit), Head(s)) = Truncated(s, MaxAudit)
<1> DEFINE t == Truncated(Tail(s), MaxAudit)
           w == <<Head(s)>> \o t
           u == Truncated(s, MaxAudit)
           v == Truncated(w, MaxAudit)
<1>1. /\ Tail(s) \in Trail /\ Head(s) \in AuditEventKind /\ Len(s) \in Nat \ {0}
      /\ Len(Tail(s)) = Len(s) - 1 /\ Head(s) = s[1]
      /\ \A i \in 1..Len(Tail(s)) : Tail(s)[i] = s[i + 1]
  BY TrailLen DEF Trail
<1>2. /\ t \in Trail /\ Len(t) \in Nat /\ Len(t) <= Len(s) - 1
      /\ \A i \in 1..Len(t) : t[i] = Tail(s)[i]
      /\ Len(t) = MaxAudit \/ Len(t) = Len(s) - 1
  BY <1>1, Truncates, TrailLen
<1> HIDE DEF t
<1>3. /\ w \in Trail /\ Len(w) = Len(t) + 1 /\ w[1] = s[1]
      /\ \A i \in 1..Len(w) : i > 1 => w[i] = t[i - 1]
  <2> DEFINE h == Head(s)
  <2>1. h \in AuditEventKind /\ h = s[1] /\ t \in Seq(AuditEventKind) /\ w = <<h>> \o t
    BY <1>1, <1>2 DEF Trail
  <2> HIDE DEF h, w
  <2> QED BY <2>1 DEF Trail
<1> HIDE DEF w
<1>4. \A i \in 1..Len(w) : w[i] = s[i]
  <2> SUFFICES ASSUME NEW i \in 1..Len(w), i > 1 PROVE w[i] = s[i]
    BY <1>2, <1>3
  <2>1. i - 1 \in 1..Len(t) /\ i - 1 \in 1..Len(Tail(s)) /\ (i - 1) + 1 = i
    <3>0. Len(Tail(s)) \in Nat
      BY <1>1, TrailLen
    <3>1. Len(t) \in Nat /\ Len(t) <= Len(Tail(s)) /\ Len(w) = Len(t) + 1
      BY <1>1, <1>2, <1>3
    <3>2. \A a, b \in Nat : \A j \in 1..(a + 1) :
             a <= b /\ j > 1 => j - 1 \in 1..a /\ j - 1 \in 1..b /\ (j - 1) + 1 = j
      OBVIOUS
    <3>3. i \in 1..(Len(t) + 1)
      BY <3>1
    <3> QED BY <3>0, <3>1, <3>2, <3>3
  <2>2. w[i] = t[i - 1] /\ t[i - 1] = Tail(s)[i - 1] /\ Tail(s)[i - 1] = s[i]
    BY <1>1, <1>2, <1>3, <2>1
  <2> QED BY <2>2
<1>5. /\ u \in Trail /\ Len(u) \in Nat /\ Len(u) <= MaxAudit /\ Len(u) <= Len(s)
      /\ \A i \in 1..Len(u) : u[i] = s[i]
      /\ Len(u) = MaxAudit \/ Len(u) = Len(s)
  BY Truncates, TrailLen
<1>6. /\ v \in Trail /\ Len(v) \in Nat /\ Len(v) <= MaxAudit /\ Len(v) <= Len(w)
      /\ \A i \in 1..Len(v) : v[i] = w[i]
      /\ Len(v) = MaxAudit \/ Len(v) = Len(w)
  BY <1>3, Truncates, TrailLen
<1> HIDE DEF u, v
<1>7. Len(u) = Len(v)
  <2>1. \A m, a, b, c, d \in Nat :
           /\ b <= a - 1 /\ (b = m \/ b = a - 1)
           /\ c <= m /\ c <= a /\ (c = m \/ c = a)
           /\ d <= m /\ d <= b + 1 /\ (d = m \/ d = b + 1)
           => c = d
    OBVIOUS
  <2>2. MaxAudit \in Nat
    BY DEF Bounds
  <2> QED BY <1>1, <1>2, <1>3, <1>5, <1>6, <2>1, <2>2
<1>8. \A i \in 1..Len(u) : u[i] = v[i]
  <2>1. \A i \in 1..Len(v) : i \in 1..Len(w)
    BY <1>2, <1>3, <1>6
  <2> QED BY <1>4, <1>5, <1>6, <1>7, <2>1
<1>9. u = v
  BY <1>5, <1>6, <1>7, <1>8, SeqEqual DEF Trail
<1> QED BY <1>9 DEF Recorded, u, v, w, t

(* A set of numbers has a least one: counting what is below a member is    *)
(* one-to-one, and so reaches zero.                                        *)
LEMMA Least ==
    ASSUME NEW T \in SUBSET Nat, NEW n \in T
    PROVE  \E i \in T : \A j \in T : ~(j < i)
<1> DEFINE K == {x \in T : x <= n}
           Below(i) == {j \in K : j < i}
           N == Cardinality(K)
           f == [i \in K |-> Cardinality(Below(i))]
<1>1. K \in SUBSET (0..n) /\ IsFiniteSet(K) /\ N \in Nat /\ n \in K
  <2>1. n \in Int /\ 0 \in Int
    OBVIOUS
  <2>2. IsFiniteSet(0..n)
    BY <2>1, FS_Interval
  <2>3. K \in SUBSET (0..n) /\ n \in K
    <3>1. \A x \in T : x \in Nat
      OBVIOUS
    <3>2. n <= n /\ \A x \in Nat : x <= n => x \in 0..n
      BY <2>1
    <3> QED BY <3>1, <3>2
  <2> HIDE DEF K
  <2> QED BY <2>2, <2>3, FS_Subset, FS_CardinalityType
<1>2. ASSUME NEW i \in K
      PROVE  IsFiniteSet(Below(i)) /\ Cardinality(Below(i)) \in 0..(N - 1)
  <2>1. Below(i) \in SUBSET (K \ {i})
    <3>1. i \in Int
      BY <1>1
    <3> QED BY <3>1
  <2> HIDE DEF Below, K
  <2>2. IsFiniteSet(K \ {i}) /\ Cardinality(K \ {i}) = N - 1
    BY <1>1, FS_RemoveElement
  <2>3. IsFiniteSet(Below(i)) /\ Cardinality(Below(i)) \in Nat
        /\ Cardinality(Below(i)) <= Cardinality(K \ {i})
    BY <2>1, <2>2, FS_Subset, FS_CardinalityType
  <2> QED BY <1>1, <2>2, <2>3
<1>3. ASSUME NEW i \in K, NEW j \in K, i < j
      PROVE  Cardinality(Below(i)) # Cardinality(Below(j))
  <2>0. \A x \in K : x \in Int
    BY <1>1
  <2>1. Below(i) \in SUBSET Below(j) /\ i \in Below(j) /\ i \notin Below(i)
    <3>1. ~(i < i) /\ \A x \in K : x < i => x < j
      BY <1>3, <2>0
    <3> QED BY <1>3, <3>1
  <2>2. Below(i) # Below(j)
    BY <2>1
  <2> HIDE DEF Below, K
  <2> QED BY <1>2, <2>1, <2>2, FS_Subset
<1>4. f \in Injection(K, 0..(N - 1))
  <2>1. f \in [K -> 0..(N - 1)]
    BY <1>2
  <2>2. \A i, j \in K : f[i] = f[j] => i = j
    <3>1. \A i, j \in K : i < j \/ j < i \/ i = j
      BY <1>1
    <3> QED BY <1>3, <3>1
  <2> HIDE DEF f
  <2> QED BY <2>1, <2>2 DEF Injection, IsInjective
<1> HIDE DEF f
<1>5. N # 0
  <2> HIDE DEF K
  <2> QED BY <1>1, FS_EmptySet
<1>6. IsFiniteSet(0..(N - 1)) /\ Cardinality(0..(N - 1)) = N
  <2>1. \A a, b \in Int : IsFiniteSet(a..b) /\ Cardinality(a..b) = IF a > b THEN 0 ELSE b - a + 1
    BY FS_Interval
  <2>2. N - 1 \in Int /\ ~(0 > N - 1) /\ (N - 1) - 0 + 1 = N
    BY <1>1, <1>5
  <2> HIDE DEF N
  <2> QED BY <2>1, <2>2
<1>7. f \in Surjection(K, 0..(N - 1))
  <2> HIDE DEF N, K
  <2>1. Cardinality(0..(N - 1)) = Cardinality(K)
    BY <1>6 DEF N
  <2> QED BY <1>1, <1>4, <1>6, <2>1, FS_Injection
<1>8. PICK i \in K : f[i] = 0
  <2>1. 0 \in 0..(N - 1)
    BY <1>1, <1>5
  <2> HIDE DEF N, K
  <2> QED BY <1>7, <2>1 DEF Surjection
<1>9. Below(i) = {}
  <2>1. Cardinality(Below(i)) = 0
    BY <1>8 DEF f
  <2> HIDE DEF Below, K
  <2> QED BY <1>2, <2>1, FS_EmptySet
<1>10. ASSUME NEW j \in T, j < i PROVE FALSE
  <2>1. i \in Int /\ i <= n /\ j \in Int /\ n \in Int
    BY <1>1
  <2>2. j \in K
    BY <1>10, <2>1
  <2> QED BY <1>9, <1>10, <2>2
<1> QED BY <1>10

(* Recording the events of a trail again, oldest first, gives the trail.   *)
LEMMA RecordsAgain ==
    ASSUME Bounds, NEW s \in Trail
    PROVE  from_events(s) = Truncated(s, MaxAudit)
<1> DEFINE g == [u \in Trail |-> Truncated(u, MaxAudit)]
           K == AuditEventKind
<1>1. g = [u \in Seq(K) |-> IF u = <<>> THEN <<>> ELSE Recorded(g[Tail(u)], Head(u))]
  <2>1. ASSUME NEW u \in Trail
        PROVE  g[u] = IF u = <<>> THEN <<>> ELSE Recorded(g[Tail(u)], Head(u))
    <3>1. CASE u = <<>>
      <4>1. Len(<<>>) = 0 /\ MaxAudit \in Nat
        BY DEF Bounds
      <4> QED BY <3>1, <4>1, Truncates
    <3>2. CASE u # <<>>
      <4>1. Tail(u) \in Trail
        BY <3>2 DEF Trail
      <4> QED BY <3>2, <4>1, RecordsCut
    <3> QED BY <3>1, <3>2
  <2> QED BY <2>1 DEF Trail
<1>2. RecordedAgain =
        [u \in Seq(K) |-> IF u = <<>> THEN <<>> ELSE Recorded(RecordedAgain[Tail(u)], Head(u))]
  <2> HIDE DEF g
  <2> QED BY <1>1 DEF RecordedAgain
<1>3. \A u \in Trail : RecordedAgain[u] = g[u]
  <2> DEFINE Wrong == {u \in Trail : RecordedAgain[u] # g[u]}
             T == {Len(u) : u \in Wrong}
  <2> SUFFICES ASSUME NEW x \in Wrong PROVE FALSE
    OBVIOUS
  <2>1. T \in SUBSET Nat /\ Len(x) \in T
    BY TrailLen
  <2>2. PICK n \in T : \A m \in T : ~(m < n)
    <3> HIDE DEF T
    <3> QED BY <2>1, Least
  <2>3. PICK u \in Wrong : \A v \in Wrong : ~(Len(v) < Len(u))
    BY <2>2
  <2> HIDE DEF g
  <2>4. u \in Trail /\ RecordedAgain[u] # g[u]
    OBVIOUS
  <2>5. RecordedAgain[u] = IF u = <<>> THEN <<>> ELSE Recorded(RecordedAgain[Tail(u)], Head(u))
    BY <1>2, <2>4 DEF Trail
  <2>6. g[u] = IF u = <<>> THEN <<>> ELSE Recorded(g[Tail(u)], Head(u))
    BY <1>1, <2>4 DEF Trail
  <2>7. u # <<>> /\ RecordedAgain[Tail(u)] # g[Tail(u)]
    BY <2>4, <2>5, <2>6
  <2>8. Tail(u) \in Trail /\ Len(Tail(u)) < Len(u)
    BY <2>4, <2>7 DEF Trail
  <2> QED BY <2>3, <2>7, <2>8
<1> QED BY <1>3 DEF from_events

Audited ==
    /\ audit \in Trail /\ Len(audit) <= MaxAudit
    /\ saved.audit \in Trail /\ Len(saved.audit) <= MaxAudit

(* The trail after is the one before behind k new events, cut at the end.  *)
Recent(before, after, k) ==
    \A i \in 1..Len(after) : i > k => i - k \in 1..Len(before) /\ after[i] = before[i - k]

LEMMA RecordRecent ==
    ASSUME Bounds, NEW t \in Trail, NEW e \in AuditEventKind
    PROVE  /\ Recorded(t, e) \in Trail /\ Len(Recorded(t, e)) <= MaxAudit
           /\ Recent(t, Recorded(t, e), 1)
  BY Records DEF Recent

LEMMA RecordsRecent ==
    ASSUME Bounds, NEW t \in Trail, NEW d \in AuditEventKind, NEW e \in AuditEventKind
    PROVE  LET u == Recorded(Recorded(t, d), e)
           IN  u \in Trail /\ Len(u) <= MaxAudit /\ Recent(t, u, 2)
<1> DEFINE m == Recorded(t, d)
           u == Recorded(m, e)
<1>1. /\ m \in Trail /\ Len(m) \in Nat
      /\ \A i \in 1..Len(m) : i > 1 => i - 1 \in 1..Len(t) /\ m[i] = t[i - 1]
  BY Records, TrailLen
<1> HIDE DEF m
<1>2. /\ u \in Trail /\ Len(u) <= MaxAudit /\ Len(u) \in Nat
      /\ \A i \in 1..Len(u) : i > 1 => i - 1 \in 1..Len(m) /\ u[i] = m[i - 1]
  BY <1>1, Records, TrailLen
<1> HIDE DEF u
<1>3. ASSUME NEW i \in 1..Len(u), i > 2
      PROVE  i - 2 \in 1..Len(t) /\ u[i] = t[i - 2]
  <2>1. i > 1 /\ i - 1 > 1 /\ (i - 1) - 1 = i - 2
    BY <1>2, <1>3
  <2>2. i - 1 \in 1..Len(m) /\ u[i] = m[i - 1]
    BY <1>2, <2>1
  <2>3. (i - 1) - 1 \in 1..Len(t) /\ m[i - 1] = t[(i - 1) - 1]
    BY <1>1, <2>1, <2>2
  <2> QED BY <2>1, <2>2, <2>3
<1> QED BY <1>2, <1>3 DEF Recent, u, m

LEMMA KeptRecent == ASSUME NEW t \in Trail PROVE Recent(t, t, 0)
<1>1. \A i \in 1..Len(t) : i - 0 = i
  BY TrailLen
<1> QED BY <1>1 DEF Recent

LEMMA AuditKept ==
    ASSUME Bounds, Store, Audited, [Next]_vars
    PROVE  /\ Audited'
           /\ \E k \in 0..2 :
                Recent(IF restarts' = restarts THEN audit ELSE saved.audit, audit', k)
<1>0. {0, 1, 2} \subseteq 0..2
  OBVIOUS
<1>1. CASE UNCHANGED <<audit, saved, restarts>>
  BY <1>0, <1>1, KeptRecent DEF Audited
<1>2. ASSUME NEW e \in AuditEventKind, record(e), UNCHANGED <<saved, restarts>>
      PROVE  /\ Audited'
             /\ \E k \in 0..2 :
                  Recent(IF restarts' = restarts THEN audit ELSE saved.audit, audit', k)
  <2>1. audit' = Recorded(audit, e)
    BY <1>2 DEF record
  <2> QED BY <1>0, <1>2, <2>1, RecordRecent DEF Audited
<1>3. CASE Save
  <2>1. UNCHANGED <<audit, restarts>> /\ saved'.audit = audit
    BY <1>3 DEF Save, policyState
  <2> QED BY <1>0, <2>1, KeptRecent DEF Audited
<1>4. CASE Restart
  <2> DEFINE pending == {a \in saved.approvals : a.status = "Pending"}
             marks == <<"WorkflowResumed">>
                      \o (IF pending = {} THEN <<>> ELSE <<"ApprovalRequested">>)
  <2>1. from_events(saved.audit) = saved.audit
    BY RecordsAgain, Truncates DEF Audited
  <2>2. /\ UNCHANGED saved /\ restarts' # restarts
        /\ audit' = IF Len(marks) = 1 THEN Recorded(saved.audit, marks[1])
                    ELSE Recorded(Recorded(saved.audit, marks[1]), marks[2])
    BY <1>4, <2>1 DEF Restart, Store
  <2> HIDE DEF pending
  <2>5. "WorkflowResumed" \in AuditEventKind /\ "ApprovalRequested" \in AuditEventKind
    BY DEF AuditEventKind
  <2>3. CASE pending = {}
    <3>1. marks = <<"WorkflowResumed">> \o <<>>
      BY <2>3
    <3>2. Len(marks) = 1 /\ marks[1] = "WorkflowResumed"
      BY <3>1
    <3> HIDE DEF marks
    <3>3. audit' = Recorded(saved.audit, "WorkflowResumed")
      BY <2>2, <3>2
    <3> QED BY <1>0, <2>2, <2>5, <3>3, RecordRecent DEF Audited
  <2>4. CASE pending # {}
    <3>1. marks = <<"WorkflowResumed">> \o <<"ApprovalRequested">>
      BY <2>4
    <3>2. Len(marks) = 2 /\ marks[1] = "WorkflowResumed" /\ marks[2] = "ApprovalRequested"
      BY <3>1
    <3> HIDE DEF marks
    <3>3. audit' = Recorded(Recorded(saved.audit, "WorkflowResumed"), "ApprovalRequested")
      BY <2>2, <3>2
    <3> QED BY <1>0, <2>2, <2>5, <3>3, RecordsRecent DEF Audited
  <2> QED BY <2>3, <2>4
<1>5. CASE Tick \/ RecordBudget \/ UNCHANGED vars
  BY <1>1, <1>5 DEF Tick, RecordBudget, vars
<1>6. ASSUME NEW a \in Actions, EvaluateAction(a)
      PROVE  UNCHANGED <<saved, restarts>> /\ \E e \in AuditEventKind : record(e)
  BY <1>6 DEF EvaluateAction, DeniedKind, AuditEventKind
<1>7. ASSUME NEW c, NEW e \in AuditEventKind, Configure(c, e)
      PROVE  record(e) /\ UNCHANGED <<saved, restarts>>
  BY <1>7 DEF Configure
<1>8. "PolicyEvaluated" \in AuditEventKind /\ "BudgetIncreased" \in AuditEventKind
  BY DEF AuditEventKind
<1>9. CASE Others
  BY <1>2, <1>5, <1>6, <1>7, <1>8, <1>9
     DEF Others, SetAutonomy, SetFilesystemScope, SetNetworkPolicy, GrantSecretAllowance, IncreaseBudget
<1>10. ASSUME NEW c \in Contexts, Request(c)
       PROVE  UNCHANGED <<saved, restarts>> /\ \E e \in AuditEventKind : record(e)
  BY <1>10 DEF Request, AuditEventKind
<1>11. ASSUME NEW id \in Ids, Grant(id) \/ Reject(id) \/ \E u \in Uses : Honor(id, u)
       PROVE  /\ UNCHANGED <<saved, restarts>>
              /\ UNCHANGED audit \/ \E e \in AuditEventKind : record(e)
  BY <1>11 DEF Grant, Reject, Honor, AuditEventKind
<1> QED BY <1>1, <1>2, <1>3, <1>4, <1>9, <1>10, <1>11, Steps

LEMMA AuditStarts == Bounds /\ Init => Audited
<1> SUFFICES ASSUME Bounds, Init PROVE Audited
  OBVIOUS
<1>1. <<>> \in Trail /\ Len(<<>>) <= MaxAudit
  BY DEF Trail, Bounds
<1> QED BY <1>1 DEF Init, policyState, Audited

(* The trail is the most recent part of what happened, in its order, after *)
(* a restart too: from_events records what was saved again, and the marks  *)
(* of the restart come before it (record, from_events, restore).           *)
THEOREM AuditIsRecent == ASSUME Bounds PROVE Spec => AuditIsRecentHistory
<1>1. Store /\ Audited /\ [Next]_vars =>
        LET before == IF restarts' = restarts THEN audit ELSE saved.audit
        IN \E k \in 0..2 : \A i \in 1..Len(audit') :
               i > k => audit'[i] = (before \o <<None>>)[i - k]
  <2> SUFFICES ASSUME Store, Audited, [Next]_vars
               PROVE  LET before == IF restarts' = restarts THEN audit ELSE saved.audit
                      IN \E k \in 0..2 : \A i \in 1..Len(audit') :
                             i > k => audit'[i] = (before \o <<None>>)[i - k]
    OBVIOUS
  <2> DEFINE before == IF restarts' = restarts THEN audit ELSE saved.audit
  <2>1. PICK k \in 0..2 : Recent(before, audit', k)
    BY AuditKept
  <2>2. before \in Trail
    BY DEF Audited
  <2> HIDE DEF before
  <2>3. \A j \in 1..Len(before) : (before \o <<None>>)[j] = before[j]
    <3>1. before \in Seq(AuditEventKind \cup {None}) /\ <<None>> \in Seq(AuditEventKind \cup {None})
          /\ Len(<<None>>) = 1
      BY <2>2, TrailLen DEF Trail
    <3> HIDE DEF None
    <3> QED BY <3>1, ConcatProperties
  <2>4. \A i \in 1..Len(audit') : i > k => audit'[i] = (before \o <<None>>)[i - k]
    BY <2>1, <2>3 DEF Recent
  <2> QED BY <2>4 DEF before
<1>2. Init => Store /\ Audited
  BY StoreStarts, AuditStarts
<1>3. Store /\ Audited /\ [Next]_vars => Store' /\ Audited'
  BY StoreKept, AuditKept
<1> QED BY <1>1, <1>2, <1>3, PTL DEF Spec, AuditIsRecentHistory

(* Every record of the policy keeps its type, and the trail its bound,     *)
(* through any number of saves and restarts.                               *)
THEOREM PolicyTypes == ASSUME Bounds PROVE Spec => []TypeOK
<1>1. Store /\ Audited /\ Configured => TypeOK
  <2> SUFFICES ASSUME Store, Audited, Configured PROVE TypeOK
    OBVIOUS
  <2>1. \A a \in approvals : /\ a \in Approval /\ a.id <= requested /\ Context(a) \in Contexts
    BY DEF Store, Sound, Typed
  <2>2. requested \in 0..MaxRequests
    BY DEF Store
  <2>3. \A a \in Approval : /\ a.id \in Ids /\ a.expires \in 0..(MaxTime + TTL)
                            /\ a.status \in ApprovalStatus
    BY DEF Approval
  <2>4. \A a \in approvals : a.id \in 1..requested
    <3>1. \A i \in Ids : i <= requested => i \in 1..requested
      BY <2>2 DEF Ids
    <3> QED BY <2>1, <2>3, <3>1
  <2>5. \A a, b \in approvals : a.id = b.id => a = b
    BY DEF Store, Sound, Typed
  <2> QED BY <2>1, <2>3, <2>4, <2>5
          DEF TypeOK, Store, Audited, Configured, Config, Trail, Context, ApprovalStatus
<1>2. Init => Store /\ Audited /\ Configured
  BY StoreStarts, AuditStarts, ConfigStarts
<1>3. Store /\ Audited /\ Configured /\ [Next]_vars => Store' /\ Audited' /\ Configured'
  BY StoreKept, AuditKept, ConfigKept
<1> QED BY <1>1, <1>2, <1>3, PTL DEF Spec
=============================================================================
