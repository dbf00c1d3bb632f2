--------------------------- MODULE IngressSyncProofs ---------------------------
(***************************************************************************)
(* What a sync leaves in the firewall, for any number of users, addresses,  *)
(* operators' addresses and manual grants.                                  *)
(***************************************************************************)
EXTENDS IngressSync, TLAPS

\* Adding a rule leaves a table of rules.
LEMMA AddTyped ==
  ASSUME TypeOK, NEW k, NEW d \in Descriptions, Add(k, d)
  PROVE  rules' \in [Keys -> Descriptions \cup {None}]
BY DEF TypeOK, Add

\* So does removing one.
LEMMA RemoveTyped ==
  ASSUME TypeOK, NEW k, Remove(k) \/ RemoveListed(k)
  PROVE  rules' \in [Keys -> Descriptions \cup {None}]
BY DEF TypeOK, Remove, RemoveListed

\* manage-ip.sh is at one of its steps with an address, or does not run.
LEMMA HandTyped ==
  /\ [at |-> "none", ip |-> None] \in Hand
  /\ \A what \in {"add", "add web", "remove", "remove web"}, ip \in Ips :
       [at |-> what, ip |-> ip] \in Hand
BY DEF Hand

\* A manage-ip.sh that runs has an address.
LEMMA HandRuns ==
  ASSUME hand \in Hand, hand.at # "none"
  PROVE  /\ hand.ip \in Ips
         /\ \A what \in {"add web", "remove web"} : [hand EXCEPT !.at = what] \in Hand
<1>1. hand \in [at : {"add", "add web", "remove", "remove web"}, ip : Ips]
  <2>1. hand \notin [at : {"none"}, ip : {None}]
    OBVIOUS
  <2> QED BY <2>1, Zenon DEF Hand
<1>2. hand.ip \in Ips
  BY <1>1
<1>3. ASSUME NEW what \in {"add web", "remove web"}
      PROVE  [hand EXCEPT !.at = what] \in [at : {"add web", "remove web"}, ip : Ips]
  BY <1>1, <1>3
<1> QED BY <1>2, <1>3 DEF Hand

\* At first only Terraform's rules are there.
LEMMA TypeInit == Init => TypeOK
<1> SUFFICES ASSUME Init PROVE TypeOK
  OBVIOUS
<1>1. job \in Job
  BY DEF Init, NoJob, Job, Steps
<1>2. rules \in [Keys -> Descriptions \cup {None}]
  BY DEF Init, Descriptions
<1> QED BY <1>1, <1>2, SomeIps, HandTyped DEF Init, TypeOK

\* The steps of sync-ip-addresses.sh keep the types.
LEMMA TypeSync ==
  ASSUME TypeOK, Sync
  PROVE  TypeOK'
<1>1. CASE Refresh
  BY <1>1 DEF TypeOK, Refresh, Goto, Job, Steps, UsersRules
<1>2. CASE GrantAdmin
  BY <1>2, AddTyped DEF TypeOK, GrantAdmin, Goto, Job, Steps, Descriptions
<1>3. CASE GetIps
  <2>1. Registered \subseteq Ips
    BY DEF Registered, TypeOK
  <2> QED BY <1>3, <2>1 DEF TypeOK, GetIps, Job, Steps
<1>4. CASE GrantWeb
  BY <1>4, AddTyped DEF TypeOK, GrantWeb, Job, Steps, Descriptions
<1>5. CASE GrantCluster
  BY <1>5, AddTyped DEF TypeOK, GrantCluster, Job, Steps, Descriptions
<1>6. CASE ListGroup
  <2>1. \A g \in {"web", "cluster"} : Listed(g, job.file) \subseteq Keys
    BY DEF Listed, TypeOK
  <2> QED BY <1>6, <2>1 DEF TypeOK, ListGroup, Goto, Job, Steps
<1>7. CASE Revoke
  BY <1>7, RemoveTyped DEF TypeOK, Revoke, Job, Steps
<1>8. CASE SyncExit
  <2>1. NoJob \in Job /\ [NoJob EXCEPT !.script = "open", !.at = "loop"] \in Job
    BY DEF NoJob, Job, Steps
  <2>2. job' \in Job
    BY <1>8, <2>1 DEF SyncExit
  <2> QED BY <1>8, <2>2 DEF TypeOK, SyncExit
<1> QED BY <1>1, <1>2, <1>3, <1>4, <1>5, <1>6, <1>7, <1>8 DEF Sync

\* The registration scripts keep the types, also when get_ips is not answered or
\* the script dies.
LEMMA TypeScripts ==
  ASSUME TypeOK,
         \/ OpenRegistration \/ LoopSync \/ Unpublish \/ PressEnter \/ GetIpsUnanswered \/ Die
         \/ StartSync("open", "open") \/ StartSync("close", "unpublish")
         \/ StartSync("sync", "refresh")
  PROVE  TypeOK'
<1>1. CASE OpenRegistration
  BY <1>1, AddTyped DEF TypeOK, OpenRegistration, NoJob, Job, Steps, Descriptions, UsersRules
<1>2. CASE LoopSync \/ PressEnter
  BY <1>2 DEF TypeOK, LoopSync, PressEnter, Goto, Job, Steps
<1>3. CASE Unpublish
  BY <1>3, RemoveTyped DEF TypeOK, Unpublish, Job, Steps
<1>4. CASE GetIpsUnanswered
  BY <1>4 DEF TypeOK, GetIpsUnanswered, Job, Steps
<1>5. CASE Die
  BY <1>5 DEF TypeOK, Die, NoJob, Job, Steps
<1>6. ASSUME NEW script \in {"open", "close", "sync"},
             NEW step \in {"open", "unpublish", "refresh"}, StartSync(script, step)
      PROVE  TypeOK'
  BY <1>6 DEF TypeOK, StartSync, NoJob, Job, Steps
<1> QED BY <1>1, <1>2, <1>3, <1>4, <1>5, <1>6

\* manage-ip.sh, the operator's address and the people keep the types.
LEMMA TypePeople ==
  ASSUME TypeOK,
         \/ \E ip \in ManualIps : HandStart("add", ip) \/ HandStart("remove", ip)
         \/ \E ip \in AdminIps : AdminMoves(ip)
         \/ HandAdd \/ HandRemove
         \/ \E u \in Users, ip \in Ips : LogIn(u, ip)
         \/ \E u \in Users : Deleted(u)
  PROVE  TypeOK'
<1>1. ASSUME NEW ip \in ManualIps, HandStart("add", ip) \/ HandStart("remove", ip)
      PROVE  TypeOK'
  <2>1. hand' \in Hand
    BY <1>1, SomeIps, HandTyped DEF HandStart
  <2> QED BY <1>1, <2>1 DEF TypeOK, HandStart
<1>2. ASSUME NEW ip \in AdminIps, AdminMoves(ip) PROVE TypeOK'
  BY <1>2, SomeIps DEF TypeOK, AdminMoves
<1>3. CASE HandAdd
  <2>1. rules' \in [Keys -> Descriptions \cup {None}]
    BY <1>3, AddTyped DEF HandAdd, Descriptions
  <2>2. hand' \in Hand
    BY <1>3, HandTyped, HandRuns DEF TypeOK, HandAdd
  <2> QED BY <1>3, <2>1, <2>2 DEF TypeOK, HandAdd
<1>4. CASE HandRemove
  <2>1. rules' \in [Keys -> Descriptions \cup {None}]
    BY <1>4, RemoveTyped DEF HandRemove
  <2>2. hand' \in Hand
    BY <1>4, HandTyped, HandRuns DEF TypeOK, HandRemove
  <2>3. undone' \subseteq Ips
    BY <1>4, HandRuns DEF TypeOK, HandRemove
  <2> QED BY <1>4, <2>1, <2>2, <2>3 DEF TypeOK, HandRemove
<1>5. ASSUME NEW u \in Users, NEW ip \in Ips, LogIn(u, ip) PROVE TypeOK'
  BY <1>5 DEF TypeOK, LogIn
<1>6. ASSUME NEW u \in Users, Deleted(u) PROVE TypeOK'
  BY <1>6 DEF TypeOK, Deleted
<1> QED BY <1>1, <1>2, <1>3, <1>4, <1>5, <1>6

\* No step of anybody leaves the types.
LEMMA TypeNext == TypeOK /\ [Next]_vars => TypeOK'
<1> SUFFICES ASSUME TypeOK, [Next]_vars PROVE TypeOK'
  OBVIOUS
<1>1. CASE UNCHANGED vars
  BY <1>1 DEF vars, TypeOK
<1> QED BY <1>1, TypeSync, TypeScripts, TypePeople DEF Next, Script, Operator

\* Rules, snapshot, accounts and the script's state are well typed in every
\* reachable state.
THEOREM TypeCorrect == Spec => []TypeOK
BY TypeInit, TypeNext, PTL DEF Spec

(***************************************************************************)
(* What the cloud's calls keep.                                             *)
(***************************************************************************)
\* What a rule is made of.
LEMMA RuleFields ==
  \A g, c, w : Rule(g, c, w).sg = g /\ Rule(g, c, w).cidr = c /\ Rule(g, c, w).what = w
BY DEF Rule

\* A user's rules are rules.
LEMMA UserRulesAreKeys ==
  ASSUME NEW ip \in Ips
  PROVE  /\ Rule("web", ip, "tcp 80") \in Keys /\ Rule("cluster", ip, "all") \in Keys
         /\ Rule("web", ip, "all") \in Keys
         /\ PublicRule # Rule("web", ip, "tcp 80")
BY NoneIsNoIp DEF Rule, Keys, PublicRule, Anywhere

\* Rules for different addresses are different rules, and so are a user's rules
\* and one that manage-ip.sh makes in the web server's group.
LEMMA RulesDiffer ==
  ASSUME NEW ip, NEW k
  PROVE  /\ k.cidr # ip => /\ k # Rule("web", ip, "tcp 80")
                           /\ k # Rule("cluster", ip, "all")
         /\ k.what = "all" => k # Rule("web", ip, "tcp 80")
         /\ k.sg = "web" => k # Rule("cluster", ip, "all")
<1>1. Rule("web", ip, "tcp 80").cidr = ip /\ Rule("cluster", ip, "all").cidr = ip
  BY DEF Rule
<1>2. Rule("web", ip, "tcp 80").what = "tcp 80" /\ Rule("cluster", ip, "all").sg = "cluster"
  BY DEF Rule
<1>3. Rule("web", ip, "tcp 80").what # "all" /\ Rule("cluster", ip, "all").sg # "web"
  BY <1>2
<1> QED BY <1>1, <1>3, Zenon

\* An address has access when both its rules are there.
LEMMA AccessIs ==
  \A ip : /\ HasAccess(ip) <=> /\ rules[Rule("web", ip, "tcp 80")] # None
                               /\ rules[Rule("cluster", ip, "all")] # None
          /\ HasAccess(ip)' <=> /\ rules'[Rule("web", ip, "tcp 80")] # None
                                /\ rules'[Rule("cluster", ip, "all")] # None
BY DEF HasAccess, UserRules, Present

\* An addition takes no rule away, whether the rule was there or not.
LEMMA AddKeeps ==
  ASSUME TypeOK, NEW k \in Keys, NEW d \in Descriptions, Add(k, d)
  PROVE  /\ rules'[k] # None
         /\ \A j \in Keys : rules[j] # None => rules'[j] # None
         /\ \A j \in Keys : j # k => rules'[j] = rules[j]
BY NoneIsNoDescription DEF TypeOK, Add

\* A removal touches no other rule, and adds none.
LEMMA RemoveKeeps ==
  ASSUME TypeOK, NEW k \in Keys, Remove(k) \/ RemoveListed(k)
  PROVE  /\ \A j \in Keys : j # k => rules'[j] = rules[j]
         /\ \A j \in Keys : rules[j] = None => rules'[j] = None
BY DEF TypeOK, Remove, RemoveListed

(***************************************************************************)
(* Phases: the order of a sync's steps.                                     *)
(***************************************************************************)
\* No step leaves an answer outside the sync that asked for it.
LEMMA PhasesNext == TypeOK /\ Phases /\ [Next]_vars => Phases'
<1> SUFFICES ASSUME TypeOK, Phases, [Next]_vars PROVE Phases'
  OBVIOUS
<1>1. CASE job' = job
  BY <1>1 DEF Phases
<1>2. CASE Refresh \/ GrantAdmin \/ LoopSync \/ PressEnter
  BY <1>2 DEF Refresh, GrantAdmin, LoopSync, PressEnter, At, Goto, Phases, TypeOK, Job
<1>3. CASE GetIps \/ GetIpsUnanswered
  BY <1>3 DEF GetIps, GetIpsUnanswered, At, Phases, TypeOK, Job
<1>4. CASE GrantWeb
  BY <1>4 DEF GrantWeb, At, Phases, TypeOK, Job
<1>5. CASE GrantCluster
  BY <1>5 DEF GrantCluster, At, Phases, TypeOK, Job
<1>6. CASE ListGroup
  BY <1>6 DEF ListGroup, At, Phases, TypeOK, Job
<1>7. CASE Revoke
  BY <1>7 DEF Revoke, At, Phases, TypeOK, Job
<1>8. CASE SyncExit \/ OpenRegistration \/ Die
  <2>1. job' = [NoJob EXCEPT !.script = "open", !.at = "loop"] \/ job' = NoJob
    BY <1>8 DEF SyncExit, OpenRegistration, Die
  <2>2. CASE job' = [NoJob EXCEPT !.script = "open", !.at = "loop"]
    BY <2>2 DEF NoJob, Phases
  <2>3. CASE job' = NoJob
    BY <2>3 DEF NoJob, Phases
  <2> QED BY <2>1, <2>2, <2>3
<1>9. CASE Unpublish
  BY <1>9 DEF Unpublish, At, Phases, TypeOK, Job
<1>10. CASE \/ StartSync("open", "open") \/ StartSync("close", "unpublish")
            \/ StartSync("sync", "refresh")
  BY <1>10 DEF StartSync, NoJob, Phases
<1>11. CASE \/ HandAdd \/ HandRemove
            \/ \E ip \in ManualIps : HandStart("add", ip) \/ HandStart("remove", ip)
            \/ \E ip \in AdminIps : AdminMoves(ip)
            \/ \E u \in Users, ip \in Ips : LogIn(u, ip)
            \/ \E u \in Users : Deleted(u)
  BY <1>1, <1>11 DEF HandAdd, HandRemove, HandStart, AdminMoves, LogIn, Deleted
<1>12. CASE UNCHANGED vars
  BY <1>1, <1>12 DEF vars
<1> QED
  BY <1>2, <1>3, <1>4, <1>5, <1>6, <1>7, <1>8, <1>9, <1>10, <1>11, <1>12
     DEF Next, Script, Sync, Operator

(***************************************************************************)
(* The steps that matter to what a sync grants and revokes: those it takes   *)
(* with an answer, and those of others in the meantime.                      *)
(***************************************************************************)
\* Neither the scripts nor a manage-ip.sh that is under way.
People ==
  \/ \E ip \in ManualIps : HandStart("add", ip) \/ HandStart("remove", ip)
  \/ \E ip \in AdminIps : AdminMoves(ip)
  \/ \E u \in Users, ip \in Ips : LogIn(u, ip)
  \/ \E u \in Users : Deleted(u)

\* The steps after which a sync may have an answer.
Answers ==
  \/ GetIps \/ GrantWeb \/ GrantCluster \/ ListGroup \/ Revoke \/ HandAdd \/ HandRemove \/ People
  \/ UNCHANGED vars

\* After any other step no sync has one.
LEMMA UnansweredNext == TypeOK /\ Phases /\ [Next]_vars /\ ~Answers => ~job'.answered
<1> SUFFICES ASSUME TypeOK, Phases, [Next]_vars, ~Answers PROVE ~job'.answered
  OBVIOUS
<1>1. CASE Refresh \/ GrantAdmin \/ LoopSync \/ PressEnter \/ Unpublish
  BY <1>1 DEF Refresh, GrantAdmin, LoopSync, PressEnter, Unpublish, At, Goto, Phases, TypeOK, Job
<1>2. CASE GetIpsUnanswered
  BY <1>2 DEF GetIpsUnanswered, TypeOK, Job
<1>3. CASE SyncExit \/ OpenRegistration \/ Die
  <2>1. job' = [NoJob EXCEPT !.script = "open", !.at = "loop"] \/ job' = NoJob
    BY <1>3 DEF SyncExit, OpenRegistration, Die
  <2>2. CASE job' = [NoJob EXCEPT !.script = "open", !.at = "loop"]
    BY <2>2 DEF NoJob
  <2>3. CASE job' = NoJob
    BY <2>3 DEF NoJob
  <2> QED BY <2>1, <2>2, <2>3
<1>4. CASE \/ StartSync("open", "open") \/ StartSync("close", "unpublish")
           \/ StartSync("sync", "refresh")
  BY <1>4 DEF StartSync, NoJob
<1> QED BY <1>1, <1>2, <1>3, <1>4 DEF Next, Answers, People, Script, Sync, Operator

(***************************************************************************)
(* Progress: what a sync has granted stays granted.                         *)
(***************************************************************************)
\* The rules of ip that are there stay there.
Kept(ip) ==
  \A k \in {Rule("web", ip, "tcp 80"), Rule("cluster", ip, "all")} :
    rules[k] # None => rules'[k] # None

\* A step that leaves the sync alone, and the rules of every address it granted,
\* undoes no progress.
LEMMA ProgressKept ==
  ASSUME Progress, undone \subseteq undone',
         job'.answered =>
           /\ job.answered /\ job'.file = job.file /\ job'.todo = job.todo
           /\ job'.at = job.at /\ job'.ip = job.ip /\ job'.stale \subseteq job.stale
           /\ \A ip \in job.file \ undone' : Kept(ip)
  PROVE  Progress'
<1> SUFFICES ASSUME job'.answered PROVE Progress'
  BY DEF Progress
<1>1. ASSUME NEW ip \in job.file \ undone'
      PROVE  /\ ip \notin job.todo => HasAccess(ip)'
             /\ job.at = "grant cluster" /\ ip = job.ip => Present(Rule("web", ip, "tcp 80"))'
  <2>1. ip \in job.file \ undone /\ Kept(ip)
    OBVIOUS
  <2> QED BY <2>1, AccessIs DEF Progress, Present, Kept
<1> QED BY <1>1 DEF Progress

\* No step takes back what the sync granted, but manage-ip.sh.
LEMMA ProgressNext == TypeOK /\ Phases /\ Progress /\ [Next]_vars => Progress'
<1> SUFFICES ASSUME TypeOK, Phases, Progress, [Next]_vars PROVE Progress'
  OBVIOUS
<1>1. CASE rules' = rules /\ job' = job /\ undone' = undone
  BY <1>1, ProgressKept DEF Kept
<1>2. CASE ~job'.answered
  BY <1>2 DEF Progress
<1>3. CASE ~Answers
  BY <1>3, UnansweredNext, <1>2
<1>4. CASE UNCHANGED vars
  BY <1>1, <1>4 DEF vars
<1>5. CASE GetIps
  BY <1>5 DEF GetIps, Progress, TypeOK, Job
<1>6. CASE GrantWeb
  <2>1. PICK ip \in job.todo : /\ Add(Rule("web", ip, "tcp 80"), "WORKSHOP_USER")
                              /\ job' = [job EXCEPT !.ip = ip, !.at = "grant cluster"]
    BY <1>6 DEF GrantWeb
  <2>2. ip \in Ips /\ undone' = undone
    BY <1>6 DEF GrantWeb, TypeOK, Job
  <2>3. /\ rules'[Rule("web", ip, "tcp 80")] # None
        /\ \A j \in Keys : rules[j] # None => rules'[j] # None
    BY <2>1, <2>2, AddKeeps, UserRulesAreKeys DEF Descriptions
  <2>4. \A i \in Ips : HasAccess(i) => HasAccess(i)'
    BY <2>3, UserRulesAreKeys, AccessIs
  <2>5. /\ job'.answered = job.answered /\ job'.file = job.file /\ job'.todo = job.todo
        /\ job'.at = "grant cluster" /\ job'.ip = ip /\ job.file \subseteq Ips
    BY <2>1 DEF TypeOK, Job
  <2> QED BY <2>2, <2>3, <2>4, <2>5 DEF Progress, Present
<1>7. CASE GrantCluster
  <2>1. /\ job'.answered = job.answered /\ job'.file = job.file
        /\ job'.todo = job.todo \ {job.ip} /\ job'.at = "grant" /\ undone' = undone
        /\ job.at = "grant cluster" /\ job.file \subseteq Ips
    BY <1>7 DEF GrantCluster, At, TypeOK, Job
  <2> SUFFICES ASSUME job.answered PROVE Progress'
    BY <2>1 DEF Progress
  <2>2. job.ip \in Ips
    BY <2>1 DEF Phases, TypeOK, Job
  <2>3. /\ rules'[Rule("cluster", job.ip, "all")] # None
        /\ \A j \in Keys : rules[j] # None => rules'[j] # None
    BY <1>7, <2>2, AddKeeps, UserRulesAreKeys DEF GrantCluster, Descriptions
  <2>4. \A i \in Ips : HasAccess(i) => HasAccess(i)'
    BY <2>3, UserRulesAreKeys, AccessIs
  <2>5. ASSUME NEW ip \in job.file \ undone, ip = job.ip PROVE HasAccess(ip)'
    <3>1. rules[Rule("web", job.ip, "tcp 80")] # None
      BY <2>1, <2>5 DEF Progress, Present
    <3>2. rules'[Rule("web", ip, "tcp 80")] # None
      BY <2>2, <2>3, <2>5, <3>1, UserRulesAreKeys
    <3>3. rules'[Rule("cluster", ip, "all")] # None
      BY <2>3, <2>5
    <3> QED BY <3>2, <3>3, AccessIs
  <2>6. ASSUME NEW ip \in job.file \ undone, ip \notin job'.todo PROVE HasAccess(ip)'
    <3>1. CASE ip = job.ip
      BY <2>5, <3>1
    <3>2. CASE ip # job.ip
      <4>1. ip \in Ips /\ ip \notin job.todo
        BY <2>1, <2>6, <3>2
      <4> QED BY <2>4, <4>1 DEF Progress
    <3> QED BY <3>1, <3>2
  <2> QED BY <2>1, <2>6 DEF Progress
<1>8. CASE ListGroup
  <2>1. /\ job'.answered = job.answered /\ job'.file = job.file /\ job'.todo = job.todo
        /\ job'.at # "grant cluster" /\ undone' = undone /\ rules' = rules
        /\ job'.at = "revoke" => \A k \in job'.stale : k.cidr \notin job.file
    BY <1>8 DEF ListGroup, Listed, At, TypeOK, Job
  <2> QED BY <2>1 DEF Progress, HasAccess, UserRules, Present
<1>9. CASE Revoke
  <2>1. PICK k \in job.stale : RemoveListed(k) /\ job' = [job EXCEPT !.stale = @ \ {k}]
    BY <1>9 DEF Revoke
  <2>2. /\ k \in Keys /\ job.file \subseteq Ips /\ undone' = undone
        /\ job.answered => k.cidr \notin job.file
    BY <1>9 DEF Revoke, At, Progress, TypeOK, Job
  <2>3. job.answered => \A ip \in job.file : Kept(ip)
    <3>1. ASSUME job.answered, NEW ip \in job.file PROVE Kept(ip)
      <4>1. k # Rule("web", ip, "tcp 80") /\ k # Rule("cluster", ip, "all")
        BY <2>2, <3>1, RulesDiffer
      <4>2. rules'[Rule("web", ip, "tcp 80")] = rules[Rule("web", ip, "tcp 80")]
        BY <2>1, <2>2, <3>1, <4>1, RemoveKeeps, UserRulesAreKeys
      <4>3. rules'[Rule("cluster", ip, "all")] = rules[Rule("cluster", ip, "all")]
        BY <2>1, <2>2, <3>1, <4>1, RemoveKeeps, UserRulesAreKeys
      <4> QED BY <4>2, <4>3 DEF Kept
    <3> QED BY <3>1
  <2>5. /\ job'.answered = job.answered /\ job'.file = job.file /\ job'.todo = job.todo
        /\ job'.at = job.at /\ job'.ip = job.ip /\ job'.stale \subseteq job.stale
    BY <2>1 DEF TypeOK, Job
  <2> QED BY <1>2, <2>2, <2>3, <2>5, ProgressKept
<1>10. CASE HandAdd
  <2>1. job' = job /\ undone' = undone /\ hand.ip \in Ips
    BY <1>10, HandRuns DEF HandAdd, TypeOK
  <2>2. \A j \in Keys : rules[j] # None => rules'[j] # None
    BY <1>10, <2>1, AddKeeps, UserRulesAreKeys DEF HandAdd, Descriptions
  <2>3. \A ip \in job.file : Kept(ip)
    BY <2>2, UserRulesAreKeys DEF Kept, TypeOK, Job
  <2> QED BY <2>1, <2>3, ProgressKept
<1>11. CASE HandRemove
  <2>1. job' = job /\ hand.ip \in Ips
    BY <1>11, HandRuns DEF HandRemove, TypeOK
  <2> SUFFICES ASSUME job.answered PROVE Progress'
    BY <2>1 DEF Progress
  <2>2. CASE Remove(Rule("cluster", hand.ip, "all")) /\ undone' = undone \cup {hand.ip}
    <3>1. ASSUME NEW ip \in job.file \ undone' PROVE Kept(ip)
      <4>1. Rule("cluster", hand.ip, "all").cidr # ip /\ ip \in Ips
        BY <2>2, RuleFields DEF TypeOK, Job
      <4>2. /\ Rule("cluster", hand.ip, "all") # Rule("web", ip, "tcp 80")
            /\ Rule("cluster", hand.ip, "all") # Rule("cluster", ip, "all")
        BY <4>1, RulesDiffer
      <4>3. rules'[Rule("web", ip, "tcp 80")] = rules[Rule("web", ip, "tcp 80")]
        BY <2>1, <2>2, <4>1, <4>2, RemoveKeeps, UserRulesAreKeys
      <4>4. rules'[Rule("cluster", ip, "all")] = rules[Rule("cluster", ip, "all")]
        BY <2>1, <2>2, <4>1, <4>2, RemoveKeeps, UserRulesAreKeys
      <4> QED BY <4>3, <4>4 DEF Kept
    <3> QED BY <2>1, <2>2, <3>1, ProgressKept
  <2>3. CASE Remove(Rule("web", hand.ip, "all")) /\ undone' = undone
    <3>1. ASSUME NEW ip \in job.file PROVE Kept(ip)
      <4>1. /\ Rule("web", hand.ip, "all").what = "all" /\ Rule("web", hand.ip, "all").sg = "web"
            /\ ip \in Ips
        BY RuleFields DEF TypeOK, Job
      <4>2. /\ Rule("web", hand.ip, "all") # Rule("web", ip, "tcp 80")
            /\ Rule("web", hand.ip, "all") # Rule("cluster", ip, "all")
        BY <4>1, RulesDiffer
      <4>3. rules'[Rule("web", ip, "tcp 80")] = rules[Rule("web", ip, "tcp 80")]
        BY <2>1, <2>3, <4>1, <4>2, RemoveKeeps, UserRulesAreKeys
      <4>4. rules'[Rule("cluster", ip, "all")] = rules[Rule("cluster", ip, "all")]
        BY <2>1, <2>3, <4>1, <4>2, RemoveKeeps, UserRulesAreKeys
      <4> QED BY <4>3, <4>4 DEF Kept
    <3> QED BY <2>1, <2>3, <3>1, ProgressKept
  <2> QED BY <1>11, <2>2, <2>3 DEF HandRemove, Phases
<1>12. CASE People
  BY <1>1, <1>12 DEF People, HandStart, AdminMoves, LogIn, Deleted
<1> QED BY <1>3, <1>4, <1>5, <1>6, <1>7, <1>8, <1>9, <1>10, <1>11, <1>12 DEF Next, Answers, People, Script, Sync, Operator

(***************************************************************************)
(* Closed: who logs in once the web server is closed needs a rule.          *)
(***************************************************************************)
\* Only open-registration.sh makes the public rule.
LEMMA PublicRuleOnly ==
  ASSUME TypeOK, ~Present(PublicRule), [Next]_vars, ~OpenRegistration
  PROVE  ~Present(PublicRule)'
<1>0. PublicRule \in Keys
  BY DEF PublicRule, Keys, Rule, Anywhere
<1> SUFFICES rules'[PublicRule] = None
  BY DEF Present
<1>1. CASE rules' = rules
  BY <1>1 DEF Present
<1>2. ASSUME NEW ip \in Ips, NEW d \in Descriptions, NEW g \in {"web", "cluster"},
             NEW w \in {"tcp 80", "all"}, Rule(g, ip, w) \in Keys, Add(Rule(g, ip, w), d)
      PROVE  rules'[PublicRule] = None
  <2>1. Rule(g, ip, w) # PublicRule
    BY NoneIsNoIp DEF Rule, PublicRule, Anywhere
  <2> QED BY <1>0, <1>2, <2>1, AddKeeps DEF Present
<1>3. ASSUME NEW k \in Keys, Remove(k) \/ RemoveListed(k)
      PROVE  rules'[PublicRule] = None
  BY <1>0, <1>3, RemoveKeeps DEF Present
<1>4. CASE GrantAdmin
  BY <1>2, <1>4, UserRulesAreKeys DEF GrantAdmin, TypeOK, Descriptions
<1>5. CASE GrantWeb
  BY <1>2, <1>5, UserRulesAreKeys DEF GrantWeb, TypeOK, Job, Descriptions
<1>6. CASE GrantCluster
  <2>1. CASE job.ip \in Ips
    BY <1>2, <1>6, <2>1, UserRulesAreKeys DEF GrantCluster, Descriptions
  <2>2. CASE job.ip = None
    <3>1. Rule("cluster", job.ip, "all") # PublicRule
      BY DEF Rule, PublicRule
    <3> QED BY <1>0, <1>6, <3>1 DEF GrantCluster, Add, Present, TypeOK
  <2> QED BY <2>1, <2>2 DEF TypeOK, Job
<1>7. CASE Revoke
  BY <1>3, <1>7 DEF Revoke, TypeOK, Job
<1>8. CASE Unpublish
  BY <1>0, <1>3, <1>8 DEF Unpublish
<1>9. CASE HandAdd
  BY <1>2, <1>9, HandRuns, UserRulesAreKeys DEF HandAdd, TypeOK, Descriptions
<1>10. CASE HandRemove
  BY <1>3, <1>10, HandRuns, UserRulesAreKeys DEF HandRemove, TypeOK
<1>11. CASE \/ Refresh \/ GetIps \/ ListGroup \/ SyncExit \/ LoopSync \/ GetIpsUnanswered \/ Die
            \/ PressEnter \/ StartSync("open", "open") \/ StartSync("close", "unpublish")
            \/ StartSync("sync", "refresh")
  BY <1>1, <1>11 DEF Refresh, GetIps, ListGroup, SyncExit, LoopSync, GetIpsUnanswered, Die,
                     PressEnter, StartSync
<1>12. CASE People
  BY <1>1, <1>12 DEF People, HandStart, AdminMoves, LogIn, Deleted
<1>13. CASE UNCHANGED vars
  BY <1>1, <1>13 DEF vars
<1> QED
  BY <1>4, <1>5, <1>6, <1>7, <1>8, <1>9, <1>10, <1>11, <1>12, <1>13
     DEF Next, People, Script, Sync, Operator

\* After the public rule is removed it stays away, and so does everybody without a
\* rule of their own.
LEMMA ClosedNext == TypeOK /\ Phases /\ Closed /\ [Next]_vars => Closed'
<1> SUFFICES ASSUME TypeOK, Phases, Closed, [Next]_vars PROVE Closed'
  OBVIOUS
<1>1. CASE ~job'.closing
  BY <1>1 DEF Closed
<1>2. CASE SyncExit \/ OpenRegistration \/ Die
  <2>1. job' = [NoJob EXCEPT !.script = "open", !.at = "loop"] \/ job' = NoJob
    BY <1>2 DEF SyncExit, OpenRegistration, Die
  <2>2. CASE job' = [NoJob EXCEPT !.script = "open", !.at = "loop"]
    BY <1>1, <2>2 DEF NoJob
  <2>3. CASE job' = NoJob
    BY <1>1, <2>3 DEF NoJob
  <2> QED BY <2>1, <2>2, <2>3
<1>3. CASE \/ StartSync("open", "open") \/ StartSync("close", "unpublish")
           \/ StartSync("sync", "refresh")
  BY <1>1, <1>3 DEF StartSync, NoJob
<1>4. CASE Unpublish
  <2>1. ~Present(PublicRule)'
    BY <1>4 DEF Unpublish, Remove, Present, TypeOK, PublicRule, Keys, Rule, Anywhere
  <2>2. job'.script # "none" /\ job'.at = "refresh" /\ ~job'.answered
    BY <1>4 DEF Unpublish, At, Phases, TypeOK, Job
  <2> QED BY <2>1, <2>2 DEF Closed
<1>5. CASE Refresh \/ GrantAdmin \/ LoopSync \/ PressEnter \/ GetIpsUnanswered
  <2>1. ~Present(PublicRule) => ~Present(PublicRule)'
    BY <1>5, PublicRuleOnly DEF OpenRegistration, Refresh, GrantAdmin, LoopSync, PressEnter, GetIpsUnanswered, At, TypeOK, Job
  <2>2. /\ job'.script = job.script /\ ~job'.answered /\ job'.closing = job.closing
        /\ job.closing => job'.at \in {"admin", "ips", "grant"}
    BY <1>5 DEF Refresh, GrantAdmin, LoopSync, PressEnter, GetIpsUnanswered, At, Goto, Phases, Closed, TypeOK, Job
  <2> QED BY <2>1, <2>2 DEF Closed
<1>6. CASE GetIps
  <2>1. job'.file = Registered /\ late' = late /\ userIp' = userIp
    BY <1>6 DEF GetIps, TypeOK, Job
  <2>2. \A u \in Users : userIp[u] \in Registered \cup {None}
    BY DEF Registered
  <2>3. /\ job'.script = job.script /\ job'.closing = job.closing /\ job'.at = "grant"
        /\ rules' = rules
    BY <1>6 DEF GetIps, TypeOK, Job
  <2> QED BY <2>1, <2>2, <2>3 DEF Closed, Present
<1>7. CASE GrantWeb \/ GrantCluster \/ ListGroup \/ Revoke
  <2>1. ~Present(PublicRule) => ~Present(PublicRule)'
    <3>1. job.at # "open"
      BY <1>7 DEF GrantWeb, GrantCluster, ListGroup, Revoke, At
    <3> QED BY <3>1, PublicRuleOnly DEF OpenRegistration, At
  <2>2. /\ job'.script = job.script /\ job'.closing = job.closing
        /\ job'.answered = job.answered /\ job'.file = job.file
        /\ job'.at \in {"grant", "grant cluster", "revoke", "exit"}
        /\ userIp' = userIp /\ late' = late
    BY <1>7 DEF GrantWeb, GrantCluster, ListGroup, Revoke, At, TypeOK, Job
  <2> QED BY <2>1, <2>2 DEF Closed
<1>8. CASE HandAdd \/ HandRemove
  <2>1. job' = job /\ userIp' = userIp /\ late' = late
    BY <1>8 DEF HandAdd, HandRemove
  <2>2. job.closing => ~Present(PublicRule)'
    BY PublicRuleOnly DEF OpenRegistration, At, Closed
  <2> QED BY <2>1, <2>2 DEF Closed
<1>9. ASSUME NEW u \in Users, NEW ip \in Ips, LogIn(u, ip) PROVE Closed'
  <2>1. job' = job /\ rules' = rules
    BY <1>9 DEF LogIn
  <2>2. job.closing => \A v \in Users \ late' : v \in Users \ late /\ userIp'[v] = userIp[v]
    BY <1>9 DEF LogIn, Closed, TypeOK
  <2> QED BY <2>1, <2>2 DEF Closed, Present
<1>10. ASSUME NEW u \in Users, Deleted(u) PROVE Closed'
  <2>1. /\ job' = job /\ rules' = rules /\ late' = late
        /\ \A v \in Users : userIp'[v] \in {userIp[v], None}
    BY <1>10 DEF Deleted, TypeOK
  <2> QED BY <2>1 DEF Closed, Present
<1>11. CASE \/ \E ip \in ManualIps : HandStart("add", ip) \/ HandStart("remove", ip)
            \/ \E ip \in AdminIps : AdminMoves(ip)
  BY <1>11 DEF HandStart, AdminMoves, Closed, Present
<1>12. CASE UNCHANGED vars
  BY <1>12 DEF vars, Closed, Present
<1> QED
  BY <1>2, <1>3, <1>4, <1>5, <1>6, <1>7, <1>8, <1>9, <1>10, <1>11, <1>12
     DEF Next, Script, Sync, Operator

(***************************************************************************)
(* Fresh: nothing that must go is forgotten.                                *)
(***************************************************************************)
\* On AWS an addition that is no user's makes no rule a user's.
LEMMA AddOther ==
  ASSUME TypeOK, Cloud = "aws", NEW k, NEW d \in Descriptions \ {"WORKSHOP_USER"}, Add(k, d)
  PROVE  UsersRules' \subseteq UsersRules
BY CloudIsKnown DEF TypeOK, Add, UsersRules

\* An addition for a user makes that rule a user's at most.
LEMMA AddUser ==
  ASSUME TypeOK, NEW k, Add(k, "WORKSHOP_USER")
  PROVE  UsersRules' \subseteq UsersRules \cup {k}
BY DEF TypeOK, Add, UsersRules

\* A removal leaves the other rules as they are, and a rule removed is no user's.
LEMMA RemoveUser ==
  ASSUME TypeOK, Cloud = "aws", NEW k, Remove(k) \/ RemoveListed(k)
  PROVE  UsersRules' \subseteq UsersRules \ {k}
<1>1. rules' = [rules EXCEPT ![k] = None]
  BY DEF Remove, RemoveListed
<1>2. None # "WORKSHOP_USER"
  BY NoneIsNoDescription DEF Descriptions
<1> QED BY <1>1, <1>2 DEF TypeOK, UsersRules

\* A step that leaves the sync and the snapshot alone and makes no rule a user's
\* forgets nothing.
LEMMA FreshKept ==
  ASSUME Fresh, job' = job, listed' = listed, Cloud = "aws" => UsersRules' \subseteq UsersRules
  PROVE  Fresh'
BY DEF Fresh, Refreshes, ToRevoke

\* A sync that refreshed the snapshot knows every rule of a user that it must
\* revoke until it has revoked it.
LEMMA FreshNext == TypeOK /\ Phases /\ Closed /\ Fresh /\ [Next]_vars => Fresh'
<1> SUFFICES ASSUME TypeOK, Phases, Closed, Fresh, [Next]_vars, Cloud = "aws" PROVE Fresh'
  BY DEF Fresh
<1>1. CASE rules' = rules /\ listed' = listed /\ job' = job
  BY <1>1, FreshKept DEF UsersRules
<1>2. CASE ~job'.answered /\ job'.at \notin {"admin", "ips"}
  BY <1>2 DEF Fresh
<1>3. CASE SyncExit \/ OpenRegistration \/ Die
  <2>1. job' = [NoJob EXCEPT !.script = "open", !.at = "loop"] \/ job' = NoJob
    BY <1>3 DEF SyncExit, OpenRegistration, Die
  <2>2. CASE job' = [NoJob EXCEPT !.script = "open", !.at = "loop"]
    BY <1>2, <2>2 DEF NoJob
  <2>3. CASE job' = NoJob
    BY <1>2, <2>3 DEF NoJob
  <2> QED BY <2>1, <2>2, <2>3
<1>4. CASE \/ StartSync("open", "open") \/ StartSync("close", "unpublish")
           \/ StartSync("sync", "refresh")
  BY <1>2, <1>4 DEF StartSync, NoJob
<1>5. CASE Unpublish \/ PressEnter \/ GetIpsUnanswered
  <2>1. ~job'.answered /\ job'.at \notin {"admin", "ips"}
    BY <1>5 DEF Unpublish, PressEnter, GetIpsUnanswered, At, Goto, Phases, TypeOK, Job
  <2> QED BY <1>2, <2>1
<1>6. CASE LoopSync
  <2>1. job'.script = "open" /\ job'.closing = FALSE
    BY <1>6 DEF LoopSync, At, Goto, Phases, Closed, TypeOK, Job
  <2> QED BY <2>1 DEF Fresh, Refreshes
<1>7. CASE Refresh
  <2>1. ~job'.answered /\ UsersRules' \subseteq listed'
    BY <1>7 DEF Refresh, At, Goto, Phases, TypeOK, Job, UsersRules
  <2> QED BY <2>1 DEF Fresh
<1>8. CASE GrantAdmin
  <2>1. UsersRules' \subseteq UsersRules /\ listed' = listed
    BY <1>8, AddOther DEF GrantAdmin, Descriptions
  <2>2. /\ job.at = "admin" /\ ~job'.answered /\ job'.script = job.script
        /\ job'.closing = job.closing /\ job.script # "none"
    BY <1>8 DEF GrantAdmin, At, Goto, Phases, TypeOK, Job
  <2> QED BY <2>1, <2>2 DEF Fresh, Refreshes
<1>9. CASE GetIps
  <2>1. /\ job.at = "ips" /\ job'.at = "grant" /\ job'.script = job.script
        /\ job'.closing = job.closing /\ job.script # "none" /\ listed' = listed
        /\ UsersRules' = UsersRules
    BY <1>9 DEF GetIps, At, TypeOK, Job, UsersRules
  <2> QED BY <2>1 DEF Fresh, Refreshes, ToRevoke
<1>10. CASE GrantWeb
  <2>1. PICK ip \in job.todo : /\ Add(Rule("web", ip, "tcp 80"), "WORKSHOP_USER")
                              /\ job' = [job EXCEPT !.ip = ip, !.at = "grant cluster"]
    BY <1>10 DEF GrantWeb
  <2>2. Rule("web", ip, "tcp 80").cidr = ip
    BY DEF Rule
  <2>3. UsersRules' \subseteq UsersRules \cup {Rule("web", ip, "tcp 80")}
    BY <2>1, AddUser
  <2>4. /\ job.at = "grant" /\ job'.at = "grant cluster" /\ job'.script = job.script
        /\ job'.closing = job.closing /\ job.script # "none" /\ listed' = listed
        /\ job'.answered = job.answered /\ job'.file = job.file
        /\ job.answered => ip \in job.file
    BY <1>10, <2>1 DEF GrantWeb, At, Phases, TypeOK, Job
  <2> QED BY <2>2, <2>3, <2>4 DEF Fresh, Refreshes, ToRevoke
<1>11. CASE GrantCluster
  <2>1. Rule("cluster", job.ip, "all").cidr = job.ip
    BY DEF Rule
  <2>2. UsersRules' \subseteq UsersRules \cup {Rule("cluster", job.ip, "all")}
    BY <1>11, AddUser DEF GrantCluster
  <2>3. /\ job.at = "grant cluster" /\ job'.at = "grant" /\ job'.script = job.script
        /\ job'.closing = job.closing /\ job.script # "none" /\ listed' = listed
        /\ job'.answered = job.answered /\ job'.file = job.file
        /\ job.answered => job.ip \in job.file
    BY <1>11 DEF GrantCluster, At, Phases, TypeOK, Job
  <2> QED BY <2>1, <2>2, <2>3 DEF Fresh, Refreshes, ToRevoke
<1>12. CASE ListGroup
  <2>1. /\ job'.script = job.script /\ job'.closing = job.closing /\ job.script # "none"
        /\ job'.answered = job.answered /\ job'.file = job.file
        /\ listed' = listed /\ UsersRules' = UsersRules /\ job'.at \notin {"admin", "ips"}
    BY <1>12 DEF ListGroup, At, TypeOK, Job, UsersRules
  <2> SUFFICES ASSUME job.answered, Refreshes, NEW k \in UsersRules, k.cidr \notin job.file
               PROVE  ToRevoke(k)'
    BY <2>1 DEF Fresh, Refreshes
  <2>2. ToRevoke(k) /\ k \in Keys
    BY <2>1 DEF Fresh, UsersRules
  <2>3. k.sg \in {"web", "cluster"}
    BY <2>2 DEF Keys
  <2>4. CASE job.at = "grant"
    <3>1. job' = [job EXCEPT !.at = "revoke", !.sg = "web", !.stale = Listed("web", job.file)]
      BY <1>12, <2>4 DEF ListGroup, At
    <3>2. job'.at = "revoke" /\ job'.sg = "web" /\ job'.stale = Listed("web", job.file)
      BY <3>1 DEF TypeOK, Job
    <3>3. k \in listed
      BY <2>2, <2>4 DEF ToRevoke
    <3> QED BY <2>1, <2>3, <3>2, <3>3 DEF ToRevoke, Listed
  <2>5. CASE job.at = "revoke" /\ job.sg = "web"
    <3>1. /\ job' = [job EXCEPT !.sg = "cluster", !.stale = Listed("cluster", job.file)]
          /\ job.stale = {}
      BY <1>12, <2>5 DEF ListGroup, At
    <3>2. job'.at = "revoke" /\ job'.stale = Listed("cluster", job.file)
      BY <2>5, <3>1 DEF TypeOK, Job
    <3>3. k.sg = "cluster" /\ k \in listed
      BY <2>2, <2>5, <3>1 DEF ToRevoke
    <3> QED BY <2>1, <3>2, <3>3 DEF ToRevoke, Listed
  <2>6. CASE job.at = "revoke" /\ job.sg = "cluster"
    <3>1. job.stale = {}
      BY <1>12, <2>6 DEF ListGroup, At
    <3> QED BY <2>2, <2>6, <3>1 DEF ToRevoke
  <2> QED BY <1>12, <2>4, <2>5, <2>6 DEF ListGroup, At
<1>13. CASE Revoke
  <2>1. PICK k \in job.stale : RemoveListed(k) /\ job' = [job EXCEPT !.stale = @ \ {k}]
    BY <1>13 DEF Revoke
  <2>2. UsersRules' \subseteq UsersRules \ {k}
    BY <2>1, RemoveUser
  <2>3. /\ job'.script = job.script /\ job'.closing = job.closing /\ job'.at = job.at
        /\ job'.answered = job.answered /\ job'.file = job.file /\ job'.sg = job.sg
        /\ job'.stale = job.stale \ {k} /\ listed' = listed /\ job.at = "revoke"
    BY <1>13, <2>1 DEF Revoke, At, TypeOK, Job
  <2> QED BY <2>2, <2>3 DEF Fresh, Refreshes, ToRevoke
<1>14. CASE HandAdd
  <2>1. UsersRules' \subseteq UsersRules /\ job' = job /\ listed' = listed
    BY <1>14, AddOther DEF HandAdd, Descriptions
  <2> QED BY <2>1, FreshKept
<1>15. CASE HandRemove
  <2>1. UsersRules' \subseteq UsersRules /\ job' = job /\ listed' = listed
    BY <1>15, RemoveUser DEF HandRemove
  <2> QED BY <2>1, FreshKept
<1>16. CASE People
  BY <1>1, <1>16 DEF People, HandStart, AdminMoves, LogIn, Deleted
<1>17. CASE UNCHANGED vars
  BY <1>1, <1>17 DEF vars
<1> QED
  BY <1>3, <1>4, <1>5, <1>6, <1>7, <1>8, <1>9, <1>10, <1>11, <1>12, <1>13, <1>14, <1>15, <1>16, <1>17
     DEF Next, People, Script, Sync, Operator

(***************************************************************************)
(* The inductive invariant and what follows from it.                        *)
(***************************************************************************)
\* Nothing runs at first.
LEMMA IInvInit == Init => IInv
BY TypeInit DEF Init, NoJob, IInv, Phases, Progress, Closed, Fresh

\* Every step preserves the strengthening.
LEMMA IInvNext == IInv /\ [Next]_vars => IInv'
BY TypeNext, PhasesNext, ProgressNext, ClosedNext, FreshNext DEF IInv

\* The strengthening holds of every reachable state.
THEOREM Inductive == Spec => []IInv
BY IInvInit, IInvNext, PTL DEF Spec

\* A sync that the web server answered has granted both rules to every address it
\* was given by the time it exits, on both clouds, whoever else was at work.
THEOREM SyncGrants == Spec => []Granted
<1>1. IInv => Granted
  BY DEF IInv, Phases, Progress, Granted, At
<1> QED BY <1>1, Inductive, PTL

\* Closing registration leaves out nobody who logged in while it was open, if
\* the web server answered the last sync.
THEOREM CloseLeavesNobodyOut == Spec => []LeavesNobodyOutIfAnswered
<1>1. IInv => LeavesNobodyOutIfAnswered
  <2> SUFFICES ASSUME IInv, job.answered, At("exit"), job.closing, NEW u \in Users \ late,
                      userIp[u] # None, userIp[u] \notin undone
               PROVE  HasAccess(userIp[u])
    BY DEF LeavesNobodyOutIfAnswered, LeavesNobodyOut
  <2>1. userIp[u] \in job.file \ undone
    BY DEF IInv, Closed
  <2>2. userIp[u] \notin job.todo
    BY DEF IInv, Phases, At
  <2> QED BY <2>1, <2>2 DEF IInv, Progress
<1> QED BY <1>1, Inductive, PTL

\* On AWS, a sync that refreshed the snapshot leaves no rule of a user who is not
\* on the web server's list.
THEOREM SyncRevokes == ASSUME Cloud = "aws" PROVE Spec => []StaleRevoked
<1>1. IInv => StaleRevoked
  BY DEF IInv, Fresh, ToRevoke, StaleRevoked, At
<1> QED BY <1>1, Inductive, PTL
=============================================================================
