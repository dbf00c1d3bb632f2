------------------------------ MODULE WebServer ------------------------------
(***************************************************************************)
(* The workshop web server: web/app/routes.py over the tables of           *)
(* web/app/models.py.  start-web.sh runs it as four gunicorn workers on one *)
(* PostgreSQL database, so a request is a worker's sequence of SQL          *)
(* statements in its own READ COMMITTED transaction, and statements of      *)
(* other workers fall between them.  A handler that reads rows and writes   *)
(* later is therefore several actions of this module: its start, its reads, *)
(* and its commit.  What a request has read stays in req[w] and may be      *)
(* stale by the time it is used.                                            *)
(*                                                                          *)
(* SQLAlchemy writes only the columns whose value differs from the value it *)
(* loaded; the commit actions do the same.                                  *)
(***************************************************************************)
EXTENDS Naturals, FiniteSets

CONSTANTS
  Workers,       \* gunicorn worker processes (-w 4 in start-web.sh)
  Browsers,      \* clients holding a session cookie
  Emails,        \* e-mail addresses people register with
  Ips,           \* public addresses requests come from
  Hosts,         \* deployed instances: (ip_address, namespace, instance_id)
  OwnPwds,       \* password hashes made from passwords people choose
  Codes,         \* hashes of registration codes
  MaxUserId,     \* bound: user ids the sequence may hand out
  MaxClusterId,  \* bound: cluster ids the sequence may hand out
  None           \* SQL NULL / no row

ASSUME IdBounds == MaxUserId \in Nat \ {0} /\ MaxClusterId \in Nat \ {0}
ASSUME HashesDiffer == OwnPwds \cap Codes = {}
ASSUME NoneIsNull ==
  None \notin Emails \cup Ips \cup Hosts \cup OwnPwds \cup Codes \cup Browsers

VARIABLES
  users,          \* table "user", by id; NoRow where there is none
  nextUserId,     \* its id sequence
  clusters,       \* table "cluster", by id: the host, or None
  nextClusterId,  \* its id sequence
  regCode,        \* Config row registration.code, or None
  session,        \* session[b]: user id in browser b's cookie, 0 if anonymous
  signedAs,       \* signedAs[b]: history, the e-mail b last authenticated as
  req             \* req[w]: the request worker w is handling

vars == <<users, nextUserId, clusters, nextClusterId, regCode, session, signedAs, req>>

UserIds == 1..MaxUserId
ClusterIds == 1..MaxClusterId
Hashes == OwnPwds \cup Codes

Row == [email : Emails \cup {None}, pwd : Hashes \cup {None}, force : BOOLEAN,
        admin : BOOLEAN, cluster : ClusterIds \cup {0}, ip : Ips \cup {None}]

NoRow == [email |-> None, pwd |-> None, force |-> FALSE, admin |-> FALSE,
          cluster |-> 0, ip |-> None]

Ops == {"idle", "login", "register", "setpwd", "resetuser", "dropcluster", "mkadmin"}

\* What a request carries between its statements.  "row" is the user row as the
\* request loaded it (or the row it will insert), "taken" the cluster ids it saw
\* assigned, "deps" the users it saw on the cluster it deletes.
Request == [op : Ops, at : {"taken", "pick", "commit"}, browser : Browsers \cup {None},
            uid : UserIds \cup {0}, row : Row, pwd : Hashes \cup {None},
            ip : Ips \cup {None}, taken : SUBSET ClusterIds,
            cluster : ClusterIds \cup {0}, deps : SUBSET UserIds]

Idle == [op |-> "idle", at |-> "commit", browser |-> None, uid |-> 0, row |-> NoRow,
         pwd |-> None, ip |-> None, taken |-> {}, cluster |-> 0, deps |-> {}]

-----------------------------------------------------------------------------
(* Queries: each is one SELECT over committed rows.                          *)

Exists(id) == users[id].email # None

UsersWith(e) == {id \in UserIds : users[id].email = e}

Pool == {c \in ClusterIds : clusters[c] # None}

Assigned == {users[id].cluster : id \in UserIds} \ {0}

UsersOn(c) == {id \in UserIds : Exists(id) /\ users[id].cluster = c}

Admins == {id \in UserIds : Exists(id) /\ users[id].admin}

\* flask_login: the user of the cookie, unless its row is gone (load_user).
LoggedIn(b) == session[b] # 0 /\ Exists(session[b])

AdminBrowser(b) == session[b] \in Admins

\* An uncommitted INSERT holds its e-mail in the unique index: a second INSERT
\* of that e-mail waits for it.
EmailHeld(e) == \E w \in Workers : req[w].op = "register" /\ req[w].row.email = e

\* Mutant: the e-mail is checked against the table, without a unique index.
EmailUnseen(e) == UsersWith(e) = {}

EmailFree(e) == UsersWith(e) = {} /\ ~EmailHeld(e)

\* The cluster a request may commit: none, or one whose row still exists
\* (foreign key user.cluster_id -> cluster.id).
ForeignKeyOk(c) == c = 0 \/ c \in Pool

Free(w) == req[w].op = "idle"

-----------------------------------------------------------------------------
Init ==
  /\ users = [id \in UserIds |-> NoRow]
  /\ nextUserId = 1
  /\ clusters = [c \in ClusterIds |-> None]
  /\ nextClusterId = 1
  /\ regCode = None
  /\ session = [b \in Browsers |-> 0]
  /\ signedAs = [b \in Browsers |-> None]
  /\ req = [w \in Workers |-> Idle]

\* Worker w ends its request: the response is sent, the transaction is over.
Done(w) == req' = [req EXCEPT ![w] = Idle]

Holds(w, r) == req' = [req EXCEPT ![w] = r]

-----------------------------------------------------------------------------
(* Mutants of login: a known user never goes on to pick a cluster, or always   *)
(* does.                                                                     *)
LoginNeverPicks(w, b, e, p, ip) ==
  /\ Free(w) /\ ~LoggedIn(b)
  /\ \E id \in UsersWith(e) :
       /\ users[id].pwd = p /\ ~users[id].force
       /\ Holds(w, [Idle EXCEPT !.op = "login", !.browser = b, !.uid = id,
                                !.row = users[id], !.ip = ip])
  /\ UNCHANGED <<users, nextUserId, clusters, nextClusterId, regCode, session, signedAs>>

LoginAlwaysPicks(w, b, e, p, ip) ==
  /\ Free(w) /\ ~LoggedIn(b)
  /\ \E id \in UsersWith(e) :
       /\ users[id].pwd = p /\ ~users[id].force
       /\ Holds(w, [Idle EXCEPT !.op = "login", !.browser = b, !.uid = id,
                                !.row = users[id], !.ip = ip, !.at = "taken"])
  /\ UNCHANGED <<users, nextUserId, clusters, nextClusterId, regCode, session, signedAs>>

(* POST /login, for a known user with the right password and no forced reset *)
(* (the other outcomes redirect and change nothing).  A user without a       *)
(* cluster goes on to pick one.                                              *)
LoginStart(w, b, e, p, ip) ==
  /\ Free(w) /\ ~LoggedIn(b)
  /\ \E id \in UsersWith(e) :
       /\ users[id].pwd = p
       /\ ~users[id].force
       /\ Holds(w, [Idle EXCEPT !.op = "login", !.browser = b, !.uid = id,
                                !.row = users[id], !.ip = ip,
                                !.at = IF users[id].cluster = 0 THEN "taken" ELSE "commit"])
  /\ UNCHANGED <<users, nextUserId, clusters, nextClusterId, regCode, session, signedAs>>

\* cluster_ids = [u.cluster_id for u in User.query.all() if u.cluster_id]
ReadTaken(w) ==
  /\ req[w].op \in {"login", "register"} /\ req[w].at = "taken"
  /\ Holds(w, [req[w] EXCEPT !.taken = Assigned, !.at = "pick"])
  /\ UNCHANGED <<users, nextUserId, clusters, nextClusterId, regCode, session, signedAs>>

\* Mutants: any cluster will do; the missing row itself is stored.
CandidatesAny(w) == IF Pool = {} THEN {0} ELSE Pool

CandidatesNull(w) == IF Pool \ req[w].taken = {} THEN {None} ELSE Pool \ req[w].taken

\* Cluster.query.filter(~Cluster.id.in_(cluster_ids)).first(): some cluster not
\* seen taken (the query has no order), or none.
Candidates(w) == IF Pool \ req[w].taken = {} THEN {0} ELSE Pool \ req[w].taken

PickCluster(w) ==
  /\ req[w].op \in {"login", "register"} /\ req[w].at = "pick"
  /\ \E c \in Candidates(w) : Holds(w, [req[w] EXCEPT !.cluster = c, !.at = "commit"])
  /\ UNCHANGED <<users, nextUserId, clusters, nextClusterId, regCode, session, signedAs>>

\* The columns login changed are written to the row as it is now; the cookie
\* goes out with the response.
LoginCommit(w) ==
  LET r == req[w] IN
  /\ r.op = "login" /\ r.at = "commit"
  /\ Exists(r.uid) /\ ForeignKeyOk(r.cluster)
  /\ users' = [users EXCEPT
       ![r.uid].cluster = IF r.cluster # 0 THEN r.cluster ELSE @,
       ![r.uid].ip = IF r.ip # r.row.ip THEN r.ip ELSE @]
  /\ session' = [session EXCEPT ![r.browser] = r.uid]
  /\ signedAs' = [signedAs EXCEPT ![r.browser] = r.row.email]
  /\ Done(w)
  /\ UNCHANGED <<nextUserId, clusters, nextClusterId, regCode>>

-----------------------------------------------------------------------------
(* POST /register.  User.query.all() flushes the pending INSERT first, so the *)
(* row takes its id and its e-mail before the clusters are read.              *)

\* Mutant: an id is reused once its row is gone, as SQLite's default rowid is.
LowestFreeId == CHOOSE id \in UserIds :
  /\ ~Exists(id) \/ \A i \in UserIds : Exists(i)
  /\ \A i \in UserIds : i < id => Exists(i)

FreshUserId == nextUserId

RegisterStart(w, b, e, p, ip) ==
  /\ Free(w) /\ ~LoggedIn(b)
  /\ nextUserId <= MaxUserId
  /\ EmailFree(e)
  /\ Holds(w, [Idle EXCEPT !.op = "register", !.browser = b, !.uid = FreshUserId,
                           !.row = [NoRow EXCEPT !.email = e, !.pwd = p, !.ip = ip],
                           !.taken = Assigned, !.at = "pick"])
  /\ nextUserId' = nextUserId + 1
  /\ UNCHANGED <<users, clusters, nextClusterId, regCode, session, signedAs>>

\* Mutant: the cluster's foreign key is not enforced.
RegisterCommitUnchecked(w) ==
  LET r == req[w] IN
  /\ r.op = "register" /\ r.at = "commit"
  /\ users' = [users EXCEPT ![r.uid] = [r.row EXCEPT !.cluster = r.cluster]]
  /\ session' = [session EXCEPT ![r.browser] = r.uid]
  /\ signedAs' = [signedAs EXCEPT ![r.browser] = r.row.email]
  /\ Done(w)
  /\ UNCHANGED <<nextUserId, clusters, nextClusterId, regCode>>

RegisterCommit(w) ==
  LET r == req[w] IN
  /\ r.op = "register" /\ r.at = "commit"
  /\ ForeignKeyOk(r.cluster)
  /\ users' = [users EXCEPT ![r.uid] = [r.row EXCEPT !.cluster = r.cluster]]
  /\ session' = [session EXCEPT ![r.browser] = r.uid]
  /\ signedAs' = [signedAs EXCEPT ![r.browser] = r.row.email]
  /\ Done(w)
  /\ UNCHANGED <<nextUserId, clusters, nextClusterId, regCode>>

-----------------------------------------------------------------------------
(* POST /passwordreset with a new password: sets it, clears the forced reset  *)
(* and logs the browser out.                                                  *)
SetPwdStart(w, b, e, p) ==
  /\ Free(w)
  /\ \E id \in UsersWith(e) :
       Holds(w, [Idle EXCEPT !.op = "setpwd", !.browser = b, !.uid = id,
                             !.row = users[id], !.pwd = p])
  /\ UNCHANGED <<users, nextUserId, clusters, nextClusterId, regCode, session, signedAs>>

\* A new hash always differs from the loaded one (salt); the flag is written
\* only if it was loaded as set.
SetPwdCommit(w) ==
  LET r == req[w] IN
  /\ r.op = "setpwd" /\ Exists(r.uid)
  /\ users' = [users EXCEPT ![r.uid].pwd = r.pwd,
                            ![r.uid].force = IF r.row.force THEN FALSE ELSE @]
  /\ session' = [session EXCEPT ![r.browser] = 0]
  /\ signedAs' = [signedAs EXCEPT ![r.browser] = None]
  /\ Done(w)
  /\ UNCHANGED <<nextUserId, clusters, nextClusterId, regCode>>

\* GET /logout
Logout(w, b) ==
  /\ Free(w) /\ LoggedIn(b)
  /\ session' = [session EXCEPT ![b] = 0]
  /\ signedAs' = [signedAs EXCEPT ![b] = None]
  /\ UNCHANGED <<users, nextUserId, clusters, nextClusterId, regCode, req>>

-----------------------------------------------------------------------------
(* The admin's pages, POST /users and POST /clusters.                         *)

\* 'Delete': the row goes; cookies and requests that name it stay.
UserDelete(w, b, id) ==
  /\ Free(w) /\ AdminBrowser(b) /\ Exists(id)
  /\ users' = [users EXCEPT ![id] = NoRow]
  /\ UNCHANGED <<nextUserId, clusters, nextClusterId, regCode, session, signedAs, req>>

\* 'Reset Pwd': reads the user and the registration code's hash.
ResetUserStart(w, b, id) ==
  /\ Free(w) /\ AdminBrowser(b) /\ Exists(id)
  /\ regCode # None
  /\ Holds(w, [Idle EXCEPT !.op = "resetuser", !.uid = id, !.row = users[id], !.pwd = regCode])
  /\ UNCHANGED <<users, nextUserId, clusters, nextClusterId, regCode, session, signedAs>>

\* Both columns are written only where they differ from what was loaded.
ResetUserCommit(w) ==
  LET r == req[w] IN
  /\ r.op = "resetuser" /\ Exists(r.uid)
  /\ users' = [users EXCEPT ![r.uid].pwd = IF r.pwd # r.row.pwd THEN r.pwd ELSE @,
                            ![r.uid].force = IF r.row.force THEN @ ELSE TRUE]
  /\ Done(w)
  /\ UNCHANGED <<nextUserId, clusters, nextClusterId, regCode, session, signedAs>>

\* Deleting a cluster: the flush reads the users on it ...
ClusterDeleteStart(w, b, c) ==
  /\ Free(w) /\ AdminBrowser(b) /\ c \in Pool
  /\ Holds(w, [Idle EXCEPT !.op = "dropcluster", !.cluster = c, !.deps = UsersOn(c)])
  /\ UNCHANGED <<users, nextUserId, clusters, nextClusterId, regCode, session, signedAs>>

\* Mutant: users who got the cluster meanwhile do not stop the delete.
ClusterDeleteUnchecked(w) ==
  LET r == req[w] IN
  /\ r.op = "dropcluster"
  /\ \A id \in r.deps : Exists(id)
  /\ users' = [id \in UserIds |->
                 IF id \in r.deps THEN [users[id] EXCEPT !.cluster = 0] ELSE users[id]]
  /\ clusters' = [clusters EXCEPT ![r.cluster] = None]
  /\ Done(w)
  /\ UNCHANGED <<nextUserId, nextClusterId, regCode, session, signedAs>>

\* ... sets their cluster to NULL and deletes the row.  The foreign key rejects
\* the delete if another user is on the cluster by then.
ClusterDeleteCommit(w) ==
  LET r == req[w] IN
  /\ r.op = "dropcluster"
  /\ \A id \in r.deps : Exists(id)
  /\ UsersOn(r.cluster) \subseteq r.deps
  /\ users' = [id \in UserIds |->
                 IF id \in r.deps THEN [users[id] EXCEPT !.cluster = 0] ELSE users[id]]
  /\ clusters' = [clusters EXCEPT ![r.cluster] = None]
  /\ Done(w)
  /\ UNCHANGED <<nextUserId, nextClusterId, regCode, session, signedAs>>

-----------------------------------------------------------------------------
(* The REST API the launcher's scripts call.                                  *)

\* Mutant: an existing admin does not stop the creation of another.
CreateAnyAdmin(w, e, p) ==
  /\ Free(w)
  /\ \E id \in (IF UsersWith(e) = {} THEN {0} ELSE UsersWith(e)) :
       Holds(w, [Idle EXCEPT !.op = "mkadmin", !.uid = id, !.pwd = p,
                             !.row = [NoRow EXCEPT !.email = e, !.admin = TRUE, !.pwd = p]])
  /\ UNCHANGED <<users, nextUserId, clusters, nextClusterId, regCode, session, signedAs>>

\* POST /api/admins: refused when an admin exists; a user with that e-mail is
\* promoted, otherwise an admin is inserted.
CreateAdminStart(w, e, p) ==
  /\ Free(w) /\ Admins = {}
  /\ \E id \in (IF UsersWith(e) = {} THEN {0} ELSE UsersWith(e)) :
       Holds(w, [Idle EXCEPT !.op = "mkadmin", !.uid = id, !.pwd = p,
                             !.row = [NoRow EXCEPT !.email = e, !.admin = TRUE, !.pwd = p]])
  /\ UNCHANGED <<users, nextUserId, clusters, nextClusterId, regCode, session, signedAs>>

PromoteCommit(w) ==
  LET r == req[w] IN
  /\ r.op = "mkadmin" /\ r.uid # 0 /\ Exists(r.uid)
  /\ users' = [users EXCEPT ![r.uid].admin = TRUE, ![r.uid].pwd = r.pwd]
  /\ Done(w)
  /\ UNCHANGED <<nextUserId, clusters, nextClusterId, regCode, session, signedAs>>

InsertAdminCommit(w) ==
  LET r == req[w] IN
  /\ r.op = "mkadmin" /\ r.uid = 0
  /\ nextUserId <= MaxUserId
  /\ EmailFree(r.row.email)
  /\ users' = [users EXCEPT ![FreshUserId] = r.row]
  /\ nextUserId' = nextUserId + 1
  /\ Done(w)
  /\ UNCHANGED <<clusters, nextClusterId, regCode, session, signedAs>>

\* POST /api/clusters, with an admin's credentials; a host already registered
\* is refused with 400 (unique ip_address, unique namespace and instance_id).
AddCluster(w, h) ==
  /\ Free(w) /\ Admins # {}
  /\ nextClusterId <= MaxClusterId
  /\ \A c \in Pool : clusters[c] # h
  /\ clusters' = [clusters EXCEPT ![nextClusterId] = h]
  /\ nextClusterId' = nextClusterId + 1
  /\ UNCHANGED <<users, nextUserId, regCode, session, signedAs, req>>

\* POST and DELETE /api/config for registration.code.
SetRegCode(w, code) ==
  /\ Free(w) /\ Admins # {}
  /\ regCode' = code
  /\ UNCHANGED <<users, nextUserId, clusters, nextClusterId, session, signedAs, req>>

-----------------------------------------------------------------------------
\* A violated constraint, an UPDATE that finds no row or the worker's death ends
\* a request with a rollback.
Rollback(w) ==
  /\ ~Free(w)
  /\ Done(w)
  /\ UNCHANGED <<users, nextUserId, clusters, nextClusterId, regCode, session, signedAs>>

Visitor(w) ==
  \/ \E b \in Browsers, e \in Emails, ip \in Ips :
       \/ \E p \in Hashes : LoginStart(w, b, e, p, ip)
       \/ \E p \in OwnPwds : RegisterStart(w, b, e, p, ip)
  \/ ReadTaken(w) \/ PickCluster(w) \/ LoginCommit(w) \/ RegisterCommit(w)
  \/ \E b \in Browsers, e \in Emails, p \in OwnPwds : SetPwdStart(w, b, e, p)
  \/ SetPwdCommit(w)
  \/ \E b \in Browsers : Logout(w, b)

AdminPages(w) ==
  \/ \E b \in Browsers, id \in UserIds : UserDelete(w, b, id) \/ ResetUserStart(w, b, id)
  \/ \E b \in Browsers, c \in ClusterIds : ClusterDeleteStart(w, b, c)
  \/ ResetUserCommit(w) \/ ClusterDeleteCommit(w)

RestApi(w) ==
  \/ \E e \in Emails, p \in OwnPwds : CreateAdminStart(w, e, p)
  \/ PromoteCommit(w) \/ InsertAdminCommit(w)
  \/ \E h \in Hosts : AddCluster(w, h)
  \/ \E code \in Codes \cup {None} : SetRegCode(w, code)

Next == \E w \in Workers : Visitor(w) \/ AdminPages(w) \/ RestApi(w) \/ Rollback(w)

Spec == Init /\ [][Next]_vars

-----------------------------------------------------------------------------
\* Every variable holds values of its table's or cookie's type.
TypeOK ==
  /\ users \in [UserIds -> Row]
  /\ nextUserId \in 1..(MaxUserId + 1)
  /\ clusters \in [ClusterIds -> Hosts \cup {None}]
  /\ nextClusterId \in 1..(MaxClusterId + 1)
  /\ regCode \in Codes \cup {None}
  /\ session \in [Browsers -> UserIds \cup {0}]
  /\ signedAs \in [Browsers -> Emails \cup {None}]
  /\ req \in [Workers -> Request]

\* A user's page never shows a cluster that is gone: whatever logins,
\* registrations and cluster deletions overlap, user.cluster_id names a row.
RefIntegrity == \A id \in UserIds : users[id].cluster \in Pool \cup {0}

\* One account per e-mail, though registrations and /api/admins check first and
\* insert later.
UniqueEmail ==
  \A i, j \in UserIds : Exists(i) /\ users[i].email = users[j].email => i = j

\* A browser is never served as somebody else: the cookie holds an id, and that
\* id is never given to another person after the account it named is deleted.
SessionIdentity ==
  \A b \in Browsers : LoggedIn(b) => users[session[b]].email = signedAs[b]

\* Every cluster has at most one user (routes.py lines 64-66 and 117-119 look
\* for a free one).  It needs requests that do not overlap.
ExclusiveCluster ==
  \A i, j \in UserIds : users[i].cluster # 0 /\ users[i].cluster = users[j].cluster => i = j

\* One admin account at a time (line 207), even through promotions, deletions
\* of the admin and requests that check before they insert.
SingleAdmin == \A i, j \in Admins : i = j

\* Nobody is let in without a cluster while one is free: a browser that gets a
\* new session gets it with a cluster, unless all clusters are assigned.
LoginAssigns ==
  [][\A b \in Browsers :
       session'[b] # session[b] /\ session'[b] # 0
         => users'[session'[b]].cluster # 0 \/ Pool \subseteq Assigned]_vars

\* A user keeps the cluster they were given until that cluster or the account
\* is deleted: no login, promotion, reset or other deletion takes it.
AssignmentStable ==
  [][\A id \in UserIds :
       users[id].cluster # 0 /\ users'[id].cluster # users[id].cluster
         => \/ clusters'[users[id].cluster] = None
            \/ users'[id].email = None]_vars

-----------------------------------------------------------------------------
(* What makes the invariants inductive: deleted rows are blank, ids come from  *)
(* below the sequence, and every request in flight names what it may commit.   *)
Blank == \A id \in UserIds : ~Exists(id) => users[id] = NoRow

Numbered ==
  /\ \A id \in UserIds : Exists(id) => id < nextUserId
  /\ \A b \in Browsers : session[b] < nextUserId

\* Of request r at worker w: the id and e-mail of a pending registration are
\* nobody else's, and a login still names the person it authenticated.
RequestOk(w, r) ==
  /\ r.op = "register" =>
       /\ r.uid \in UserIds /\ r.uid < nextUserId /\ ~Exists(r.uid)
       /\ r.row.email # None /\ UsersWith(r.row.email) = {}
       /\ \A b \in Browsers : session[b] # r.uid
       /\ \A v \in Workers \ {w} :
            /\ req[v].op \in {"register", "login"} => req[v].uid # r.uid
            /\ req[v].op = "register" => req[v].row.email # r.row.email
  /\ r.op = "login" =>
       /\ r.uid \in UserIds /\ r.uid < nextUserId
       /\ Exists(r.uid) => users[r.uid].email = r.row.email
       /\ \A v \in Workers \ {w} : req[v].op = "register" => req[v].uid # r.uid
  /\ r.op = "mkadmin" /\ r.uid = 0 => r.row.email # None /\ r.row.cluster = 0

RequestsOk == \A w \in Workers : RequestOk(w, req[w])

Sound ==
  /\ Blank /\ Numbered /\ RequestsOk
  /\ RefIntegrity /\ UniqueEmail /\ SessionIdentity

IInv == TypeOK /\ Sound

\* Requests answer a browser that exists and delete a cluster that has an id.
Addressed == \A w \in Workers :
  /\ req[w].op \in {"login", "register", "setpwd"} => req[w].browser \in Browsers
  /\ req[w].op = "dropcluster" => req[w].cluster \in ClusterIds

-----------------------------------------------------------------------------
\* The promise of Registry.  An id is spent once the sequence is past it and no
\* request is still to insert it.
Pending == {req[w].uid : w \in {v \in Workers : req[v].op = "register"}}

R == INSTANCE Registry WITH
       Ids <- UserIds,
       email <- [id \in UserIds |-> users[id].email],
       claim <- [id \in UserIds |-> users[id].cluster],
       spent <- (1..(nextUserId - 1)) \ Pending,
       pool <- Pool,
       signedIn <- session

\* Interleaved requests amount to the indivisible operations of Registry.
RegistryRefined == R!Spec
=============================================================================
