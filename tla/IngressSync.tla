------------------------------ MODULE IngressSync ------------------------------
(***************************************************************************)
(* Who the firewall lets in.  The environment is closed to the Internet;    *)
(* open-registration.sh opens the web server to everybody, runs             *)
(* sync-ip-addresses.sh in a loop to let each registered user's address in, *)
(* and closes the web server again with one last sync.  The scripts learn   *)
(* what to grant from the web server (get_ips) and what to revoke from      *)
(* TF_JSON_FILE, a snapshot of the rules that is as old as the last refresh. *)
(* Users log in, and the operator runs manage-ip.sh, at any time between    *)
(* the scripts' cloud calls.                                                *)
(***************************************************************************)
EXTENDS Naturals, FiniteSets

CONSTANTS
  Users,   \* people who register
  Ips,     \* public addresses
  AdminIps,   \* the addresses the operator's machine may have
  LaunchIp,   \* the address the environment was launched from, None if nobody is there
  ManualIps,  \* the addresses manage-ip.sh is run for
  Cloud,   \* "aws" or "azure": lib/common-aws.sh or lib/common-azure.sh
  None     \* no rule / no address

ASSUME CloudIsKnown == Cloud \in {"aws", "azure"}
ASSUME NoneIsNoIp == None \notin Ips /\ "0.0.0.0/0" \notin Ips
ASSUME SomeIps == AdminIps \subseteq Ips /\ ManualIps \subseteq Ips /\ LaunchIp \in Ips \cup {None}

Anywhere == "0.0.0.0/0"

\* A rule is identified by its group, its source and what it opens; the
\* description is not part of its identity.
Keys == [sg : {"web"}, cidr : Ips \cup {Anywhere}, what : {"tcp 80"}]
          \cup [sg : {"web", "cluster"}, cidr : Ips, what : {"all"}]

Descriptions == {"LAUNCH", "PUBLIC REGISTRATION", "WEB_ADMIN", "WORKSHOP_USER", "MANUAL"}

ASSUME NoneIsNoDescription == None \notin Descriptions

VARIABLES
  rules,    \* rules[k]: the description of rule k in the cloud, or None
  listed,   \* TF_JSON_FILE: the WORKSHOP_USER rules as of the last refresh
  userIp,   \* userIp[u]: last_remote_ip of u's row in the web server, or None
  adminIp,  \* the address of the operator's machine
  job,      \* the registration script that runs, if any
  hand,     \* the manage-ip.sh that runs, if any
  late,     \* history: users whose last login did not need the public rule
  undone    \* history: addresses manage-ip.sh removed since the last get_ips

vars == <<rules, listed, userIp, adminIp, job, hand, late, undone>>

Steps == {"open", "loop", "unpublish", "refresh", "admin", "ips", "grant", "grant cluster",
          "revoke", "exit"}

\* script: which one; at: its next step; sg: the group being revoked from;
\* ip: the address half granted; file: IP_FILE; answered: get_ips got its list;
\* todo, stale: addresses to grant, rules to revoke; closing: past the loop.
Job == [script : {"none", "open", "close", "sync"}, at : Steps, sg : {"web", "cluster"},
        ip : Ips \cup {None}, file : SUBSET Ips, answered : BOOLEAN, todo : SUBSET Ips,
        stale : SUBSET Keys, closing : BOOLEAN]

NoJob == [script |-> "none", at |-> "exit", sg |-> "web", ip |-> None, file |-> {},
          answered |-> FALSE, todo |-> {}, stale |-> {}, closing |-> FALSE]

\* manage-ip.sh: its next step, and the address it is run for.
Hand == [at : {"none"}, ip : {None}]
          \cup [at : {"add", "add web", "remove", "remove web"}, ip : Ips]

Rule(g, c, w) == [sg |-> g, cidr |-> c, what |-> w]

PublicRule == Rule("web", Anywhere, "tcp 80")

UserRules(ip) == {Rule("web", ip, "tcp 80"), Rule("cluster", ip, "all")}

Present(k) == rules[k] # None

\* On Azure a rule has a name: Terraform's rules for the launch address are none
\* of the scripts' rules, and the scripts never touch them.
WebOpenTo(ip) ==
  \/ Cloud = "azure" /\ ip = LaunchIp
  \/ Present(PublicRule)
  \/ \E what \in {"tcp 80", "all"} : Present(Rule("web", ip, what))

HasAccess(ip) == \A k \in UserRules(ip) : Present(k)

-----------------------------------------------------------------------------
(* The cloud's calls.                                                        *)

\* Mutant: without "force", a rule the snapshot lists is not added.
AddUnlisted(k, d) ==
  rules' = [rules EXCEPT ![k] = IF @ = None /\ k \notin listed THEN d ELSE @]

\* authorize-security-group-ingress reports a rule that exists, and the script
\* goes on; nsg rule create overwrites it.
Add(k, d) == rules' = [rules EXCEPT ![k] = IF @ = None \/ Cloud = "azure" THEN d ELSE @]

Remove(k) == rules' = [rules EXCEPT ![k] = None]

\* A rule removed with the protocol and port get_ingress printed for it.  On
\* Azure the port of an all-ports rule prints as "*", so that the rule's name,
\* made with "all", is not found.
RemoveListed(k) ==
  rules' = [rules EXCEPT ![k] = IF Cloud = "azure" /\ k.what = "all" THEN @ ELSE None]

\* Mutant: everything the group grants to workshop users is revoked.
AnyListed(g, file) == {k \in listed : k.sg = g}

\* get_ingress of the users' rules in group g, less the addresses in IP_FILE.
Listed(g, file) == {k \in listed : k.sg = g /\ k.cidr \notin file}

UsersRules == {k \in Keys : rules[k] = "WORKSHOP_USER"}

\* Mutant: a user without an address is listed too.
RegisteredAll == {userIp[u] : u \in Users}

\* /api/ips, an address once for all users who share it.
Registered == {userIp[u] : u \in Users} \ {None}

-----------------------------------------------------------------------------
\* What Terraform created: on AWS, the rules the scripts would add for that address.
Init ==
  /\ rules = [k \in Keys |-> IF Cloud = "aws" /\ k.cidr = LaunchIp /\ k.what = "all"
                               THEN "LAUNCH" ELSE None]
  /\ listed = {}
  /\ userIp = [u \in Users |-> None]
  /\ adminIp \in AdminIps
  /\ job = NoJob
  /\ hand = [at |-> "none", ip |-> None]
  /\ late = {}
  /\ undone = {}

At(step) == job.script # "none" /\ job.at = step

\* Only the syncs of the loop run with --no_refresh.
Refreshes == job.script # "open" \/ job.closing

Goto(step) == job' = [job EXCEPT !.at = step]

-----------------------------------------------------------------------------
(* sync-ip-addresses.sh                                                      *)

\* Mutant: the snapshot is trusted instead of refreshed.
RefreshNot ==
  /\ At("refresh")
  /\ Goto("admin")
  /\ UNCHANGED <<rules, listed, userIp, adminIp, hand, late, undone>>

\* refresh_tf_state and ensure_tf_json_file, unless --no_refresh.
Refresh ==
  /\ At("refresh")
  /\ listed' = UsersRules
  /\ Goto("admin")
  /\ UNCHANGED <<rules, userIp, adminIp, hand, late, undone>>

GrantAdmin ==
  /\ At("admin")
  /\ Add(Rule("web", adminIp, "tcp 80"), "WEB_ADMIN")
  /\ Goto("ips")
  /\ UNCHANGED <<listed, userIp, adminIp, hand, late, undone>>

\* get_ips > IP_FILE, answered by the web server.
GetIps ==
  /\ At("ips")
  /\ job' = [job EXCEPT !.file = Registered, !.todo = Registered, !.answered = TRUE, !.at = "grant"]
  /\ undone' = {}
  /\ UNCHANGED <<rules, listed, userIp, adminIp, hand, late>>

\* curl cannot connect: it prints nothing, jq of nothing succeeds and prints
\* nothing, and the pipeline's status is jq's.
GetIpsUnanswered ==
  /\ At("ips")
  /\ job' = [job EXCEPT !.file = {}, !.todo = {}, !.answered = FALSE, !.at = "grant"]
  /\ undone' = {}
  /\ UNCHANGED <<rules, listed, userIp, adminIp, hand, late>>

GrantWeb ==
  /\ At("grant")
  /\ \E ip \in job.todo :
       /\ Add(Rule("web", ip, "tcp 80"), "WORKSHOP_USER")
       /\ job' = [job EXCEPT !.ip = ip, !.at = "grant cluster"]
  /\ UNCHANGED <<listed, userIp, adminIp, hand, late, undone>>

GrantCluster ==
  /\ At("grant cluster")
  /\ Add(Rule("cluster", job.ip, "all"), "WORKSHOP_USER")
  /\ job' = [job EXCEPT !.ip = None, !.todo = @ \ {job.ip}, !.at = "grant"]
  /\ UNCHANGED <<listed, userIp, adminIp, hand, late, undone>>

\* The loop over the two groups: what to revoke is read once for each.
ListGroup ==
  /\ \/ /\ At("grant") /\ job.todo = {}
        /\ job' = [job EXCEPT !.at = "revoke", !.sg = "web", !.stale = Listed("web", job.file)]
     \/ /\ At("revoke") /\ job.stale = {} /\ job.sg = "web"
        /\ job' = [job EXCEPT !.sg = "cluster", !.stale = Listed("cluster", job.file)]
     \/ /\ At("revoke") /\ job.stale = {} /\ job.sg = "cluster"
        /\ job' = [job EXCEPT !.at = "exit"]
  /\ UNCHANGED <<rules, listed, userIp, adminIp, hand, late, undone>>

Revoke ==
  /\ At("revoke")
  /\ \E k \in job.stale :
       /\ RemoveListed(k)
       /\ job' = [job EXCEPT !.stale = @ \ {k}]
  /\ UNCHANGED <<listed, userIp, adminIp, hand, late, undone>>

\* The sync exits; the loop of open-registration.sh goes on after it.
SyncExit ==
  /\ At("exit")
  /\ IF job.script = "open" /\ ~job.closing
       THEN job' = [NoJob EXCEPT !.script = "open", !.at = "loop"]
       ELSE job' = NoJob
  /\ undone' = {}
  /\ UNCHANGED <<rules, listed, userIp, adminIp, hand, late>>

-----------------------------------------------------------------------------
(* open-registration.sh, close-registration.sh and a sync by hand.           *)

StartSync(script, step) ==
  /\ job.script = "none"
  /\ job' = [NoJob EXCEPT !.script = script, !.at = step]
  /\ UNCHANGED <<rules, listed, userIp, adminIp, hand, late, undone>>

\* Refreshes the snapshot and opens the web server to everybody.
OpenRegistration ==
  /\ At("open")
  /\ listed' = UsersRules
  /\ Add(PublicRule, "PUBLIC REGISTRATION")
  /\ job' = [NoJob EXCEPT !.script = "open", !.at = "loop"]
  /\ UNCHANGED <<userIp, adminIp, hand, late, undone>>

\* One second without ENTER: a sync that does not refresh.
LoopSync ==
  /\ At("loop")
  /\ Goto("admin")
  /\ UNCHANGED <<rules, listed, userIp, adminIp, hand, late, undone>>

PressEnter ==
  /\ At("loop")
  /\ Goto("unpublish")
  /\ UNCHANGED <<rules, listed, userIp, adminIp, hand, late, undone>>

\* Mutant: the last sync runs while the web server is still open.
UnpublishNot ==
  /\ At("unpublish")
  /\ job' = [job EXCEPT !.closing = TRUE, !.at = "refresh"]
  /\ UNCHANGED <<rules, listed, userIp, adminIp, hand, late, undone>>

\* The web server is closed first, and the last sync follows.
Unpublish ==
  /\ At("unpublish")
  /\ Remove(PublicRule)
  /\ job' = [job EXCEPT !.closing = TRUE, !.at = "refresh"]
  /\ UNCHANGED <<listed, userIp, adminIp, hand, late, undone>>

\* A failing call ends the script (errexit), as does closing its window: the
\* caller of a sync ends with it, and whatever was granted stays.
Die ==
  /\ job.script # "none"
  /\ job' = NoJob
  /\ undone' = {}
  /\ UNCHANGED <<rules, listed, userIp, adminIp, hand, late>>

-----------------------------------------------------------------------------
(* manage-ip.sh, in another window: the cluster's group, then the web's.     *)

HandStart(what, ip) ==
  /\ hand.at = "none"
  /\ hand' = [at |-> what, ip |-> ip]
  /\ UNCHANGED <<rules, listed, userIp, adminIp, job, late, undone>>

HandAdd ==
  \/ /\ hand.at = "add"
     /\ Add(Rule("cluster", hand.ip, "all"), "MANUAL")
     /\ hand' = [hand EXCEPT !.at = "add web"]
     /\ UNCHANGED <<listed, userIp, adminIp, job, late, undone>>
  \/ /\ hand.at = "add web"
     /\ Add(Rule("web", hand.ip, "all"), "MANUAL")
     /\ hand' = [at |-> "none", ip |-> None]
     /\ UNCHANGED <<listed, userIp, adminIp, job, late, undone>>

HandRemove ==
  \/ /\ hand.at = "remove"
     /\ Remove(Rule("cluster", hand.ip, "all"))
     /\ hand' = [hand EXCEPT !.at = "remove web"]
     /\ undone' = IF job.script = "none" THEN {} ELSE undone \cup {hand.ip}
     /\ UNCHANGED <<listed, userIp, adminIp, job, late>>
  \/ /\ hand.at = "remove web"
     /\ Remove(Rule("web", hand.ip, "all"))
     /\ hand' = [at |-> "none", ip |-> None]
     /\ UNCHANGED <<listed, userIp, adminIp, job, late, undone>>

-----------------------------------------------------------------------------
(* The people.                                                               *)

\* A login or registration from an address the firewall lets in (routes.py
\* stores it as last_remote_ip).
LogIn(u, ip) ==
  /\ WebOpenTo(ip)
  /\ userIp' = [userIp EXCEPT ![u] = ip]
  /\ late' = IF Present(PublicRule) THEN late \ {u} ELSE late \cup {u}
  /\ UNCHANGED <<rules, listed, adminIp, job, hand, undone>>

\* The admin deletes the user's account.
Deleted(u) ==
  /\ userIp[u] # None
  /\ userIp' = [userIp EXCEPT ![u] = None]
  /\ UNCHANGED <<rules, listed, adminIp, job, hand, late, undone>>

\* The operator's machine changes its address, for the next get_public_ip.
AdminMoves(ip) ==
  /\ ip # adminIp
  /\ adminIp' = ip
  /\ UNCHANGED <<rules, listed, userIp, job, hand, late, undone>>

-----------------------------------------------------------------------------
Sync == Refresh \/ GrantAdmin \/ GetIps \/ GrantWeb \/ GrantCluster \/ ListGroup \/ Revoke \/ SyncExit

Script == Sync \/ OpenRegistration \/ LoopSync \/ Unpublish

Operator ==
  \/ StartSync("open", "open") \/ StartSync("close", "unpublish") \/ StartSync("sync", "refresh")
  \/ PressEnter
  \/ \E ip \in ManualIps : HandStart("add", ip) \/ HandStart("remove", ip)
  \/ \E ip \in AdminIps : AdminMoves(ip)
  \/ HandAdd \/ HandRemove

Next ==
  \/ Script \/ GetIpsUnanswered \/ Die \/ Operator
  \/ \E u \in Users, ip \in Ips : LogIn(u, ip)
  \/ \E u \in Users : Deleted(u)

Spec == Init /\ [][Next]_vars

\* The script keeps going while nobody interferes, and the web server answers
\* again and again.
FairSpec == Spec /\ WF_vars(Script) /\ SF_vars(GetIps)

-----------------------------------------------------------------------------
TypeOK ==
  /\ rules \in [Keys -> Descriptions \cup {None}]
  /\ listed \subseteq Keys
  /\ userIp \in [Users -> Ips \cup {None}]
  /\ adminIp \in Ips
  /\ job \in Job
  /\ hand \in Hand
  /\ late \subseteq Users
  /\ undone \subseteq Ips

\* What a sync promises when it exits, if the web server answered it: every
\* address it was given has both its rules, although the revocations that
\* follow the grants work from an older list of rules.
Granted ==
  At("exit") /\ job.answered => \A ip \in job.file \ undone : HasAccess(ip)

\* ... and, if it refreshed the snapshot, no other address is let in as a
\* user's: not one of an earlier sync, of the loop, or of a script that died.
StaleRevoked ==
  At("exit") /\ job.answered /\ Refreshes => \A k \in UsersRules : k.cidr \in job.file

\* Closing registration leaves nobody out: when the script that removed the
\* public rule is done, whoever last logged in while it was there still has
\* access from that address.
LeavesNobodyOut ==
  At("exit") /\ job.closing =>
    \A u \in Users \ late :
      userIp[u] # None /\ userIp[u] \notin undone => HasAccess(userIp[u])

LeavesNobodyOutIfAnswered == job.answered => LeavesNobodyOut

\* Why these hold: a strengthening that every step preserves.

\* Only open-registration.sh loops, and an answer is only there between get_ips
\* and the end of the sync.
Phases ==
  /\ job.at = "loop" => job.script = "open"
  /\ job.answered =>
       /\ job.script # "none" /\ job.at \in {"grant", "grant cluster", "revoke", "exit"}
       /\ job.todo \subseteq job.file
       /\ job.at \in {"revoke", "exit"} => job.todo = {}
       /\ job.at = "grant cluster" => job.ip \in job.todo

\* What is granted stays: nothing to revoke is on IP_FILE.
Progress ==
  job.answered =>
    /\ \A ip \in job.file \ undone :
         /\ ip \notin job.todo => HasAccess(ip)
         /\ job.at = "grant cluster" /\ ip = job.ip => Present(Rule("web", ip, "tcp 80"))
    /\ job.at = "revoke" => \A k \in job.stale : k.cidr \notin job.file

\* Once the public rule is gone, a login needs a rule of its own.
Closed ==
  job.closing =>
    /\ job.script # "none" /\ ~Present(PublicRule)
    /\ job.at \in {"refresh", "admin", "ips", "grant", "grant cluster", "revoke", "exit"}
    /\ job.answered => \A u \in Users \ late : userIp[u] \in job.file \cup {None}

\* The rules of users that are not on IP_FILE are those still to be revoked.
ToRevoke(k) ==
  \/ job.at \in {"grant", "grant cluster"} /\ k \in listed
  \/ job.at = "revoke" /\ k \in job.stale
  \/ job.at = "revoke" /\ job.sg = "web" /\ k.sg = "cluster" /\ k \in listed

Fresh ==
  Cloud = "aws" /\ job.script # "none" /\ Refreshes =>
    /\ job.at \in {"admin", "ips"} => UsersRules \subseteq listed
    /\ job.answered => \A k \in UsersRules : k.cidr \in job.file \/ ToRevoke(k)

IInv == TypeOK /\ Phases /\ Progress /\ Closed /\ Fresh

\* While open-registration.sh loops, a user who stays where they are is let in.
UserLetIn ==
  \A u \in Users, ip \in Ips :
    job.script = "open" /\ userIp[u] = ip
      ~> HasAccess(ip) \/ userIp[u] # ip \/ job.script # "open" \/ job.closing
=============================================================================
