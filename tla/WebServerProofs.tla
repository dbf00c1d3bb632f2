--------------------------- MODULE WebServerProofs ---------------------------
(***************************************************************************)
(* What holds of the web server for any number of workers, browsers, users  *)
(* and clusters.                                                            *)
(***************************************************************************)
EXTENDS WebServer, TLAPS

(***************************************************************************)
(* Typing.  The lemmas on Request and Row keep the proofs of the actions    *)
(* free of record arithmetic.                                               *)
(***************************************************************************)
LEMMA RowTyped ==
  ASSUME NEW r \in Row
  PROVE  /\ r.email \in Emails \cup {None} /\ r.pwd \in Hashes \cup {None}
         /\ r.force \in BOOLEAN /\ r.admin \in BOOLEAN
         /\ r.cluster \in ClusterIds \cup {0} /\ r.ip \in Ips \cup {None}
BY DEF Row

\* The absent row is a row: a users table may hold it.
LEMMA NoRowTyped == NoRow \in Row
BY DEF NoRow, Row

\* A worker between two requests holds a well-typed request.
LEMMA IdleTyped == Idle \in Request
BY NoRowTyped DEF Idle, Request, Ops

\* The initial state is well typed.
LEMMA TypeInit == Init => TypeOK
BY NoRowTyped, IdleTyped, IdBounds DEF Init, TypeOK

\* A worker that goes on with a well-typed request leaves the workers well typed.
LEMMA HoldsTyped ==
  ASSUME TypeOK, NEW w \in Workers, NEW r \in Request, Holds(w, r)
  PROVE  req' \in [Workers -> Request]
BY DEF TypeOK, Holds

\* A worker that ends its request leaves the workers well typed.
LEMMA DoneTyped ==
  ASSUME TypeOK, NEW w \in Workers, Done(w)
  PROVE  req' \in [Workers -> Request]
BY IdleTyped DEF TypeOK, Done

\* Writing two typed columns of a row leaves a table of rows.
LEMMA WriteClusterTyped ==
  ASSUME TypeOK, NEW u, NEW c \in ClusterIds \cup {0}, NEW i \in Ips \cup {None},
         users' = [users EXCEPT ![u].cluster = c, ![u].ip = i]
  PROVE  users' \in [UserIds -> Row]
<1>1. ASSUME NEW id \in UserIds PROVE users'[id] \in Row
  BY DEF TypeOK, Row
<1> QED BY <1>1 DEF TypeOK

\* Writing a hash and the force flag (password_reset_page, users_page) leaves a
\* table of rows.
LEMMA WritePwdTyped ==
  ASSUME TypeOK, NEW u, NEW p \in Hashes \cup {None}, NEW f \in BOOLEAN,
         users' = [users EXCEPT ![u].pwd = p, ![u].force = f]
  PROVE  users' \in [UserIds -> Row]
<1>1. ASSUME NEW id \in UserIds PROVE users'[id] \in Row
  BY DEF TypeOK, Row
<1> QED BY <1>1 DEF TypeOK

\* What visitors do keeps every table, cookie and request well typed.
LEMMA TypeVisitor ==
  ASSUME TypeOK, NEW w \in Workers, Visitor(w)
  PROVE  TypeOK'
<1>1. ASSUME NEW b \in Browsers, NEW e \in Emails, NEW ip \in Ips, NEW p \in Hashes,
             LoginStart(w, b, e, p, ip)
      PROVE  TypeOK'
  <2>1. PICK id \in UsersWith(e) :
          Holds(w, [Idle EXCEPT !.op = "login", !.browser = b, !.uid = id,
                                !.row = users[id], !.ip = ip,
                                !.at = IF users[id].cluster = 0 THEN "taken" ELSE "commit"])
    BY <1>1 DEF LoginStart
  <2>2. id \in UserIds /\ users[id] \in Row
    BY DEF UsersWith, TypeOK
  <2>3. [Idle EXCEPT !.op = "login", !.browser = b, !.uid = id,
                     !.row = users[id], !.ip = ip,
                     !.at = IF users[id].cluster = 0 THEN "taken" ELSE "commit"] \in Request
    BY <2>2, IdleTyped DEF Request, Ops, Idle
  <2> QED BY <1>1, <2>1, <2>3, HoldsTyped DEF LoginStart, TypeOK
<1>2. ASSUME NEW b \in Browsers, NEW e \in Emails, NEW ip \in Ips, NEW p \in OwnPwds,
             RegisterStart(w, b, e, p, ip)
      PROVE  TypeOK'
  <2>1. Assigned \subseteq ClusterIds
    BY RowTyped DEF Assigned, TypeOK
  <2>2. [NoRow EXCEPT !.email = e, !.pwd = p, !.ip = ip] \in Row
    BY NoRowTyped DEF Row, NoRow, Hashes
  <2>3. FreshUserId \in UserIds /\ nextUserId' \in 1..(MaxUserId + 1)
    BY <1>2, IdBounds DEF RegisterStart, FreshUserId, UserIds, TypeOK
  <2>4. [Idle EXCEPT !.op = "register", !.browser = b, !.uid = FreshUserId,
                     !.row = [NoRow EXCEPT !.email = e, !.pwd = p, !.ip = ip],
                     !.taken = Assigned, !.at = "pick"] \in Request
    BY <2>1, <2>2, <2>3, IdleTyped DEF Request, Ops, Idle
  <2> QED BY <1>2, <2>3, <2>4, HoldsTyped DEF RegisterStart, TypeOK
<1>3. CASE ReadTaken(w)
  <2>1. Assigned \subseteq ClusterIds
    BY RowTyped DEF Assigned, TypeOK
  <2>2. [req[w] EXCEPT !.taken = Assigned, !.at = "pick"] \in Request
    BY <2>1 DEF Request, TypeOK
  <2> QED BY <1>3, <2>2, HoldsTyped DEF ReadTaken, TypeOK
<1>4. CASE PickCluster(w)
  <2>1. PICK c \in Candidates(w) : Holds(w, [req[w] EXCEPT !.cluster = c, !.at = "commit"])
    BY <1>4 DEF PickCluster
  <2>2. c \in ClusterIds \cup {0}
    BY DEF Candidates, Pool
  <2>3. [req[w] EXCEPT !.cluster = c, !.at = "commit"] \in Request
    BY <2>2 DEF Request, TypeOK
  <2> QED BY <1>4, <2>1, <2>3, HoldsTyped DEF PickCluster, TypeOK
<1>5. CASE LoginCommit(w)
  <2>1. req[w] \in Request
    BY DEF TypeOK
  <2>2. users' \in [UserIds -> Row]
    <3>1. CASE req[w].uid \in UserIds
      <4>1. users[req[w].uid] \in Row
        BY <3>1 DEF TypeOK
      <4> DEFINE c == IF req[w].cluster # 0 THEN req[w].cluster ELSE users[req[w].uid].cluster
                 i == IF req[w].ip # req[w].row.ip THEN req[w].ip ELSE users[req[w].uid].ip
      <4>2. c \in ClusterIds \cup {0} /\ i \in Ips \cup {None}
        BY <2>1, <4>1, RowTyped DEF Request
      <4>3. users' = [users EXCEPT ![req[w].uid].cluster = c, ![req[w].uid].ip = i]
        BY <1>5 DEF LoginCommit
      <4> HIDE DEF c, i
      <4> QED BY <4>2, <4>3, WriteClusterTyped
    <3>2. CASE req[w].uid \notin UserIds
      BY <1>5, <3>2 DEF LoginCommit, TypeOK
    <3> QED BY <3>1, <3>2
  <2> QED BY <1>5, <2>1, <2>2, DoneTyped, RowTyped DEF LoginCommit, TypeOK, Request
<1>6. CASE RegisterCommit(w)
  <2>1. req[w] \in Request
    BY DEF TypeOK
  <2>2. users' \in [UserIds -> Row]
    BY <1>6, <2>1, RowTyped DEF RegisterCommit, TypeOK, Request, Row
  <2> QED BY <1>6, <2>1, <2>2, DoneTyped, RowTyped DEF RegisterCommit, TypeOK, Request
<1>7. ASSUME NEW b \in Browsers, NEW e \in Emails, NEW p \in OwnPwds, SetPwdStart(w, b, e, p)
      PROVE  TypeOK'
  <2>1. PICK id \in UsersWith(e) :
          Holds(w, [Idle EXCEPT !.op = "setpwd", !.browser = b, !.uid = id,
                                !.row = users[id], !.pwd = p])
    BY <1>7 DEF SetPwdStart
  <2>2. [Idle EXCEPT !.op = "setpwd", !.browser = b, !.uid = id,
                     !.row = users[id], !.pwd = p] \in Request
    BY IdleTyped DEF Request, Ops, Idle, UsersWith, TypeOK, Hashes
  <2> QED BY <1>7, <2>1, <2>2, HoldsTyped DEF SetPwdStart, TypeOK
<1>8. CASE SetPwdCommit(w)
  <2>1. req[w] \in Request
    BY DEF TypeOK
  <2>2. users' \in [UserIds -> Row]
    <3>1. CASE req[w].uid \in UserIds
      <4>1. users[req[w].uid] \in Row
        BY <3>1 DEF TypeOK
      <4> DEFINE p == req[w].pwd
                 f == IF req[w].row.force THEN FALSE ELSE users[req[w].uid].force
      <4>2. p \in Hashes \cup {None} /\ f \in BOOLEAN
        BY <2>1, <4>1, RowTyped DEF Request
      <4>3. users' = [users EXCEPT ![req[w].uid].pwd = p, ![req[w].uid].force = f]
        BY <1>8 DEF SetPwdCommit
      <4> HIDE DEF p, f
      <4> QED BY <4>2, <4>3, WritePwdTyped
    <3>2. CASE req[w].uid \notin UserIds
      BY <1>8, <3>2 DEF SetPwdCommit, TypeOK
    <3> QED BY <3>1, <3>2
  <2> QED BY <1>8, <2>1, <2>2, DoneTyped DEF SetPwdCommit, TypeOK
<1>9. ASSUME NEW b \in Browsers, Logout(w, b) PROVE TypeOK'
  BY <1>9 DEF Logout, TypeOK
<1> QED BY <1>1, <1>2, <1>3, <1>4, <1>5, <1>6, <1>7, <1>8, <1>9 DEF Visitor

\* So does what the admin's pages do.
LEMMA TypeAdminPages ==
  ASSUME TypeOK, NEW w \in Workers, AdminPages(w)
  PROVE  TypeOK'
<1>1. ASSUME NEW b \in Browsers, NEW id \in UserIds, UserDelete(w, b, id) PROVE TypeOK'
  BY <1>1, NoRowTyped DEF UserDelete, TypeOK
<1>2. ASSUME NEW b \in Browsers, NEW id \in UserIds, ResetUserStart(w, b, id) PROVE TypeOK'
  <2>1. [Idle EXCEPT !.op = "resetuser", !.uid = id, !.row = users[id], !.pwd = regCode]
          \in Request
    BY IdleTyped DEF Request, Ops, Idle, TypeOK, Hashes
  <2> QED BY <1>2, <2>1, HoldsTyped DEF ResetUserStart, TypeOK
<1>3. ASSUME NEW b \in Browsers, NEW c \in ClusterIds, ClusterDeleteStart(w, b, c)
      PROVE  TypeOK'
  <2>1. [Idle EXCEPT !.op = "dropcluster", !.cluster = c, !.deps = UsersOn(c)] \in Request
    BY IdleTyped DEF Request, Ops, Idle, UsersOn
  <2> QED BY <1>3, <2>1, HoldsTyped DEF ClusterDeleteStart, TypeOK
<1>4. CASE ResetUserCommit(w)
  <2>1. req[w] \in Request
    BY DEF TypeOK
  <2>2. users' \in [UserIds -> Row]
    <3>1. CASE req[w].uid \in UserIds
      <4>1. users[req[w].uid] \in Row
        BY <3>1 DEF TypeOK
      <4> DEFINE p == IF req[w].pwd # req[w].row.pwd THEN req[w].pwd ELSE users[req[w].uid].pwd
                 f == IF req[w].row.force THEN users[req[w].uid].force ELSE TRUE
      <4>2. p \in Hashes \cup {None} /\ f \in BOOLEAN
        BY <2>1, <4>1, RowTyped DEF Request
      <4>3. users' = [users EXCEPT ![req[w].uid].pwd = p, ![req[w].uid].force = f]
        BY <1>4 DEF ResetUserCommit
      <4> HIDE DEF p, f
      <4> QED BY <4>2, <4>3, WritePwdTyped
    <3>2. CASE req[w].uid \notin UserIds
      BY <1>4, <3>2 DEF ResetUserCommit, TypeOK
    <3> QED BY <3>1, <3>2
  <2> QED BY <1>4, <2>2, DoneTyped DEF ResetUserCommit, TypeOK
<1>5. CASE ClusterDeleteCommit(w)
  <2>1. ASSUME NEW id \in UserIds PROVE users'[id] \in Row
    BY <1>5 DEF ClusterDeleteCommit, TypeOK, Row
  <2>2. users' \in [UserIds -> Row] /\ clusters' \in [ClusterIds -> Hosts \cup {None}]
    BY <1>5, <2>1 DEF ClusterDeleteCommit, TypeOK
  <2> QED BY <1>5, <2>2, DoneTyped DEF ClusterDeleteCommit, TypeOK
<1> QED BY <1>1, <1>2, <1>3, <1>4, <1>5 DEF AdminPages

\* And so do the calls of the REST API.
LEMMA TypeRestApi ==
  ASSUME TypeOK, NEW w \in Workers, RestApi(w)
  PROVE  TypeOK'
<1>1. ASSUME NEW e \in Emails, NEW p \in OwnPwds, CreateAdminStart(w, e, p) PROVE TypeOK'
  <2> DEFINE r == [NoRow EXCEPT !.email = e, !.admin = TRUE, !.pwd = p]
  <2>1. r \in Row
    BY NoRowTyped DEF Row, NoRow, Hashes
  <2> HIDE DEF r
  <2>2. PICK id \in (IF UsersWith(e) = {} THEN {0} ELSE UsersWith(e)) :
          Holds(w, [Idle EXCEPT !.op = "mkadmin", !.uid = id, !.pwd = p, !.row = r])
    BY <1>1 DEF CreateAdminStart, r
  <2>3. id \in UserIds \cup {0}
    BY DEF UsersWith
  <2>4. [Idle EXCEPT !.op = "mkadmin", !.uid = id, !.pwd = p, !.row = r] \in Request
    BY <2>1, <2>3, IdleTyped DEF Request, Ops, Idle, Hashes
  <2> QED BY <1>1, <2>2, <2>4, HoldsTyped DEF CreateAdminStart, TypeOK
<1>2. CASE PromoteCommit(w)
  <2>1. ASSUME NEW id \in UserIds PROVE users'[id] \in Row
    <3>1. req[w].pwd \in Hashes \cup {None} /\ users[id] \in Row
      BY DEF TypeOK, Request
    <3>2. users'[id] = IF id = req[w].uid
                         THEN [[users[id] EXCEPT !.admin = TRUE] EXCEPT !.pwd = req[w].pwd]
                         ELSE users[id]
      BY <1>2 DEF PromoteCommit, TypeOK
    <3> QED BY <3>1, <3>2 DEF Row
  <2>2. users' \in [UserIds -> Row]
    BY <1>2, <2>1 DEF PromoteCommit, TypeOK
  <2> QED BY <1>2, <2>2, DoneTyped DEF PromoteCommit, TypeOK
<1>3. CASE InsertAdminCommit(w)
  <2>1. req[w].row \in Row
    BY DEF TypeOK, Request
  <2>2. users' \in [UserIds -> Row]
    BY <1>3, <2>1 DEF InsertAdminCommit, TypeOK
  <2>3. nextUserId' \in 1..(MaxUserId + 1)
    <3>1. nextUserId \in 1..(MaxUserId + 1) /\ nextUserId <= MaxUserId /\ nextUserId' = nextUserId + 1
      BY <1>3 DEF InsertAdminCommit, TypeOK
    <3> QED BY <3>1, IdBounds
  <2> QED BY <1>3, <2>2, <2>3, DoneTyped DEF InsertAdminCommit, TypeOK
<1>4. ASSUME NEW h \in Hosts, AddCluster(w, h) PROVE TypeOK'
  <2>1. nextClusterId' \in 1..(MaxClusterId + 1)
    <3>1. /\ nextClusterId \in 1..(MaxClusterId + 1)
          /\ nextClusterId <= MaxClusterId
          /\ nextClusterId' = nextClusterId + 1
      BY <1>4 DEF AddCluster, TypeOK
    <3> QED BY <3>1, IdBounds
  <2> QED BY <1>4, <2>1 DEF AddCluster, TypeOK
<1>5. ASSUME NEW code \in Codes \cup {None}, SetRegCode(w, code) PROVE TypeOK'
  BY <1>5 DEF SetRegCode, TypeOK
<1> QED BY <1>1, <1>2, <1>3, <1>4, <1>5 DEF RestApi

\* No statement of any handler leaves the types of the tables and cookies.
LEMMA TypeNext == TypeOK /\ [Next]_vars => TypeOK'
<1> SUFFICES ASSUME TypeOK, [Next]_vars PROVE TypeOK'
  OBVIOUS
<1>1. ASSUME NEW w \in Workers, Rollback(w) PROVE TypeOK'
  BY <1>1, DoneTyped DEF Rollback, TypeOK
<1>2. CASE UNCHANGED vars
  BY <1>2 DEF vars, TypeOK
<1> QED BY <1>1, <1>2, TypeVisitor, TypeAdminPages, TypeRestApi DEF Next

\* Every table, cookie and request is well typed in every reachable state,
\* whatever the workers interleave.
THEOREM TypeCorrect == Spec => []TypeOK
BY TypeInit, TypeNext, PTL DEF Spec

(***************************************************************************)
(* The inductive invariant.  Sound follows for the three kinds of step: one *)
(* that only moves a request on, one that commits columns of existing rows, *)
(* and the two that insert a row.                                           *)
(***************************************************************************)
LEMMA SoundInit == Init => Sound
BY IdBounds DEF Init, Sound, Blank, Numbered, RequestsOk, RequestOk, RefIntegrity, UniqueEmail,
   SessionIdentity, Exists, LoggedIn, NoRow, Idle, UserIds

\* User ids and cookies are naturals and 0 is no id, so that the sequence's order
\* applies to them.
LEMMA IdsAreNat ==
  ASSUME TypeOK
  PROVE  /\ UserIds \subseteq Nat /\ 0 \notin UserIds /\ nextUserId \in Nat
         /\ \A b \in Browsers : session[b] \in Nat
<1>1. UserIds \subseteq Nat /\ 0 \notin UserIds
  BY IdBounds DEF UserIds
<1>2. nextUserId \in Nat
  BY IdBounds DEF TypeOK
<1>3. ASSUME NEW b \in Browsers PROVE session[b] \in Nat
  <2>1. session[b] \in UserIds \/ session[b] = 0
    BY DEF TypeOK
  <2> QED BY <2>1, IdBounds DEF UserIds
<1> QED BY <1>1, <1>2, <1>3

\* A worker between two requests has nothing half done that could be wrong.
LEMMA IdleOk == ASSUME NEW w PROVE RequestOk(w, Idle)
BY DEF RequestOk, Idle

\* A step that only replaces worker w's request by one that is in order.
LEMMA RequestStep ==
  ASSUME IInv, NEW w \in Workers, NEW r, RequestOk(w, r),
         req' = [req EXCEPT ![w] = r],
         UNCHANGED <<users, nextUserId, clusters, session, signedAs>>
  PROVE  Sound'
<1>1. Blank' /\ Numbered' /\ RefIntegrity' /\ UniqueEmail' /\ SessionIdentity'
  BY DEF IInv, Sound, Blank, Numbered, RefIntegrity, UniqueEmail, SessionIdentity, Exists, Pool, LoggedIn
<1>2. ASSUME NEW v \in Workers PROVE RequestOk(v, req[v])'
  <2>1. CASE v = w
    <3>1. req'[v] = r
      BY <2>1 DEF IInv, TypeOK
    <3> QED BY <2>1, <3>1 DEF RequestOk, Exists, UsersWith, IInv, TypeOK
  <2>2. CASE v # w
    <3>1. req'[v] = req[v] /\ RequestOk(v, req[v]) /\ req'[w] = r
      BY <2>2 DEF IInv, Sound, RequestsOk, TypeOK
    <3>2. ASSUME NEW u \in Workers \ {v, w} PROVE req'[u] = req[u]
      BY DEF IInv, TypeOK
    <3> QED BY <2>2, <3>1, <3>2 DEF RequestOk, Exists, UsersWith
  <2> QED BY <2>1, <2>2
<1> QED BY <1>1, <1>2 DEF Sound, RequestsOk

\* A commit that keeps everybody's e-mail; a cookie it sets names the user who
\* logged in.
LEMMA ColumnsStep ==
  ASSUME IInv, NEW w \in Workers, Done(w), UNCHANGED nextUserId, RefIntegrity',
         \A id \in UserIds : /\ users'[id].email = users[id].email
                             /\ ~Exists(id) => users'[id] = users[id],
         \A b \in Browsers :
           \/ session'[b] = session[b] /\ signedAs'[b] = signedAs[b]
           \/ session'[b] = 0
           \/ /\ req[w].op = "login" /\ Exists(req[w].uid)
              /\ session'[b] = req[w].uid /\ signedAs'[b] = req[w].row.email
  PROVE  Sound'
<1>1. \A id \in UserIds : Exists(id)' <=> Exists(id)
  BY DEF Exists
<1>2. \A e : UsersWith(e)' = UsersWith(e)
  BY DEF UsersWith
<1>3. Blank'
  BY <1>1 DEF IInv, Sound, Blank
<1>4. RequestOk(w, req[w]) /\ nextUserId \in Nat /\ nextUserId > 0
  BY IdBounds DEF IInv, Sound, RequestsOk, TypeOK
<1>5. Numbered'
  BY <1>1, <1>4 DEF IInv, Sound, Numbered, RequestOk
<1>6. UniqueEmail'
  BY <1>1 DEF IInv, Sound, UniqueEmail
<1>7. SessionIdentity'
  <2> SUFFICES ASSUME NEW b \in Browsers, LoggedIn(b)' PROVE users'[session'[b]].email = signedAs'[b]
    BY DEF SessionIdentity
  <2>1. session[b] \in UserIds \cup {0}
    BY DEF IInv, TypeOK
  <2>2. CASE session'[b] = session[b] /\ signedAs'[b] = signedAs[b]
    BY <1>1, <2>1, <2>2 DEF IInv, Sound, SessionIdentity, LoggedIn
  <2>3. CASE session'[b] = 0
    BY <2>3 DEF LoggedIn
  <2>4. CASE /\ req[w].op = "login" /\ Exists(req[w].uid)
             /\ session'[b] = req[w].uid /\ signedAs'[b] = req[w].row.email
    BY <1>4, <2>4 DEF RequestOk
  <2> QED BY <2>2, <2>3, <2>4
<1>8. ASSUME NEW v \in Workers PROVE RequestOk(v, req[v])'
  <2>1. CASE v = w
    BY <2>1 DEF Done, RequestOk, Idle, IInv, TypeOK
  <2>2. CASE v # w
    <3>1. req'[v] = req[v] /\ RequestOk(v, req[v])
      BY <2>2 DEF Done, IInv, Sound, RequestsOk, TypeOK
    <3>2. \A u \in Workers : req'[u] = req[u] \/ req'[u].op = "idle"
      BY DEF Done, Idle, IInv, TypeOK
    <3>3. ASSUME req[v].op = "register", NEW b \in Browsers PROVE session'[b] # req[v].uid
      BY <1>4, <2>2, <3>1, <3>3 DEF RequestOk, UserIds
    <3> HIDE DEF UserIds
    <3> QED BY <1>1, <1>2, <3>1, <3>2, <3>3 DEF RequestOk
  <2> QED BY <2>1, <2>2
<1> QED BY <1>3, <1>5, <1>6, <1>7, <1>8 DEF Sound, RequestsOk

\* Inserting the row r under the id of a pending registration, or a fresh one.
LEMMA InsertStep ==
  ASSUME IInv, NEW w \in Workers, Done(w), NEW id \in UserIds, NEW r,
         users' = [users EXCEPT ![id] = r],
         ~Exists(id), id < nextUserId', nextUserId' \in Nat, nextUserId <= nextUserId',
         r.email # None, UsersWith(r.email) = {},
         r.cluster \in Pool \cup {0}, UNCHANGED clusters,
         \A v \in Workers \ {w} :
           /\ req[v].op \in {"register", "login"} => req[v].uid # id
           /\ req[v].op = "register" => req[v].row.email # r.email,
         \A b \in Browsers :
           \/ session'[b] = session[b] /\ signedAs'[b] = signedAs[b] /\ session[b] # id
           \/ session'[b] = id /\ signedAs'[b] = r.email
  PROVE  Sound'
<1>1. users'[id] = r /\ \A i \in UserIds \ {id} : users'[i] = users[i]
  BY DEF IInv, TypeOK
<1>2. \A i \in UserIds : Exists(i)' <=> Exists(i) \/ i = id
  BY <1>1 DEF Exists
<1>3. nextUserId \in Nat /\ UserIds \subseteq Nat
  BY IdBounds DEF IInv, TypeOK, UserIds
<1>4. Blank'
  BY <1>1, <1>2 DEF IInv, Sound, Blank
<1>5. Numbered'
  <2>1. ASSUME NEW b \in Browsers PROVE session'[b] < nextUserId'
    <3>1. session[b] \in Nat /\ session[b] < nextUserId
      BY IdsAreNat DEF IInv, Sound, Numbered
    <3> QED BY <1>3, <3>1
  <2>2. ASSUME NEW i \in UserIds, Exists(i)' PROVE i < nextUserId'
    BY <1>2, <1>3, <2>2 DEF IInv, Sound, Numbered
  <2> QED BY <2>1, <2>2 DEF Numbered
<1>6. RefIntegrity'
  BY <1>1 DEF IInv, Sound, RefIntegrity, Pool
<1>7. UniqueEmail'
  BY <1>1, <1>2 DEF IInv, Sound, UniqueEmail, UsersWith
<1>8. SessionIdentity'
  <2> SUFFICES ASSUME NEW b \in Browsers, LoggedIn(b)'
               PROVE  users'[session'[b]].email = signedAs'[b]
    BY DEF SessionIdentity
  <2>1. session[b] \in UserIds \cup {0}
    BY DEF IInv, TypeOK
  <2>2. CASE session'[b] = session[b] /\ signedAs'[b] = signedAs[b] /\ session[b] # id
    BY <1>1, <1>2, <2>1, <2>2 DEF IInv, Sound, SessionIdentity, LoggedIn
  <2>3. CASE session'[b] = id /\ signedAs'[b] = r.email
    BY <1>1, <2>3
  <2> QED BY <2>2, <2>3
<1>9. ASSUME NEW v \in Workers PROVE RequestOk(v, req[v])'
  <2>1. CASE v = w
    BY <2>1 DEF Done, RequestOk, Idle, IInv, TypeOK
  <2>2. CASE v # w
    <3>1. req'[v] = req[v] /\ RequestOk(v, req[v])
      BY <2>2 DEF Done, IInv, Sound, RequestsOk, TypeOK
    <3>2. \A u \in Workers : req'[u] = req[u] \/ req'[u].op = "idle"
      BY DEF Done, Idle, IInv, TypeOK
    <3>3. /\ req[v].op \in {"register", "login"} => req[v].uid # id
          /\ req[v].op = "register" => req[v].row.email # r.email
      BY <2>2
    <3>4. req[v].op = "register" => UsersWith(req[v].row.email)' = {}
      BY <1>1, <3>1, <3>3 DEF UsersWith, RequestOk
    <3>5. req[v].op = "register" => \A b \in Browsers : session'[b] # req[v].uid
      BY <3>1, <3>3 DEF RequestOk
    <3>6. req[v].op \in {"register", "login"} => req[v].uid < nextUserId'
      <4> SUFFICES ASSUME req[v].op \in {"register", "login"} PROVE req[v].uid < nextUserId'
        OBVIOUS
      <4>1. req[v].uid \in UserIds /\ req[v].uid < nextUserId
        BY <3>1 DEF RequestOk
      <4>2. req[v].uid \in Nat
        BY <1>3, <4>1
      <4> QED BY <1>3, <4>1, <4>2
    <3>7. CASE req[v].op = "register"
      <4>1. /\ req[v].uid \in UserIds /\ ~Exists(req[v].uid)' /\ req[v].row.email # None
            /\ \A u \in Workers \ {v} :
                 /\ req'[u].op \in {"register", "login"} => req'[u].uid # req[v].uid
                 /\ req'[u].op = "register" => req'[u].row.email # req[v].row.email
        BY <1>2, <3>1, <3>2, <3>3, <3>7 DEF RequestOk
      <4> QED BY <3>1, <3>4, <3>5, <3>6, <3>7, <4>1 DEF RequestOk
    <3>8. CASE req[v].op = "login"
      <4>1. /\ req[v].uid \in UserIds
            /\ Exists(req[v].uid)' => users'[req[v].uid].email = req[v].row.email
            /\ \A u \in Workers \ {v} : req'[u].op = "register" => req'[u].uid # req[v].uid
        BY <1>1, <1>2, <3>1, <3>2, <3>3, <3>8 DEF RequestOk
      <4> QED BY <3>1, <3>6, <3>8, <4>1 DEF RequestOk
    <3>9. CASE req[v].op \notin {"register", "login"}
      BY <3>1, <3>9 DEF RequestOk
    <3> QED BY <3>7, <3>8, <3>9
  <2> QED BY <2>1, <2>2
<1> QED BY <1>4, <1>5, <1>6, <1>7, <1>8, <1>9 DEF Sound, RequestsOk

(***************************************************************************)
(* Every action is one of those steps.                                      *)
(***************************************************************************)
LEMMA SoundVisitor ==
  ASSUME IInv, NEW w \in Workers, Visitor(w)
  PROVE  Sound'
<1>1. ASSUME NEW b \in Browsers, NEW e \in Emails, NEW ip \in Ips, NEW p \in Hashes,
             LoginStart(w, b, e, p, ip)
      PROVE  Sound'
  <2>1. PICK id \in UsersWith(e) :
          Holds(w, [Idle EXCEPT !.op = "login", !.browser = b, !.uid = id,
                                !.row = users[id], !.ip = ip,
                                !.at = IF users[id].cluster = 0 THEN "taken" ELSE "commit"])
    BY <1>1 DEF LoginStart
  <2> DEFINE r == [Idle EXCEPT !.op = "login", !.browser = b, !.uid = id,
                               !.row = users[id], !.ip = ip,
                               !.at = IF users[id].cluster = 0 THEN "taken" ELSE "commit"]
  <2>2. r.op = "login" /\ r.uid = id /\ r.row = users[id]
    BY DEF Idle
  <2>3. id \in UserIds /\ Exists(id) /\ id < nextUserId
    BY NoneIsNull DEF UsersWith, Exists, IInv, Sound, Numbered
  <2>4. \A v \in Workers : req[v].op = "register" => req[v].uid # id
    BY <2>3 DEF IInv, Sound, RequestsOk, RequestOk
  <2> HIDE DEF r
  <2>5. RequestOk(w, r)
    BY <2>2, <2>3, <2>4 DEF RequestOk
  <2>6. req' = [req EXCEPT ![w] = r]
    BY <2>1 DEF Holds, r
  <2> QED BY <1>1, <2>5, <2>6, RequestStep DEF LoginStart
<1>2. ASSUME NEW b \in Browsers, NEW e \in Emails, NEW ip \in Ips, NEW p \in OwnPwds,
             RegisterStart(w, b, e, p, ip)
      PROVE  Sound'
  <2> DEFINE r == [Idle EXCEPT !.op = "register", !.browser = b, !.uid = FreshUserId,
                               !.row = [NoRow EXCEPT !.email = e, !.pwd = p, !.ip = ip],
                               !.taken = Assigned, !.at = "pick"]
  <2>0. PICK n : n = nextUserId
    OBVIOUS
  <2>1. r.op = "register" /\ r.uid = n /\ r.row.email = e
    BY <2>0 DEF Idle, NoRow, FreshUserId
  <2>2. req' = [req EXCEPT ![w] = r] /\ nextUserId' = n + 1
    BY <1>2, <2>0 DEF RegisterStart, Holds
  <2> HIDE DEF r
  <2>3. n \in UserIds /\ n \in Nat /\ UserIds \subseteq Nat
    BY <1>2, <2>0, IdBounds DEF RegisterStart, IInv, TypeOK, UserIds
  <2>4. /\ ~Exists(n) /\ e # None /\ UsersWith(e) = {}
        /\ \A b2 \in Browsers : session[b2] < n
        /\ \A i \in UserIds : Exists(i) => i < n
    BY <1>2, <2>0, <2>3, NoneIsNull DEF RegisterStart, EmailFree, IInv, Sound, Numbered
  <2>5. \A v \in Workers :
          /\ req[v].op \in {"register", "login"} => req[v].uid < n
          /\ req[v].op = "register" => req[v].row.email # e
    BY <1>2, <2>0 DEF RegisterStart, EmailFree, EmailHeld, IInv, Sound, RequestsOk, RequestOk
  <2>6. UNCHANGED <<users, clusters, session, signedAs>>
    BY <1>2 DEF RegisterStart
  <2>7. Blank' /\ RefIntegrity' /\ UniqueEmail' /\ SessionIdentity'
    BY <2>6 DEF IInv, Sound, Blank, RefIntegrity, UniqueEmail, SessionIdentity, Exists, Pool, LoggedIn
  <2>8. Numbered'
    <3>1. ASSUME NEW i \in UserIds, Exists(i)' PROVE i < nextUserId'
      BY <2>2, <2>3, <2>4, <2>6, <3>1 DEF Exists
    <3>2. ASSUME NEW b2 \in Browsers PROVE session'[b2] < nextUserId'
      <4>1. session[b2] \in Nat /\ session[b2] < n
        BY <2>4, IdsAreNat DEF IInv
      <4> QED BY <2>2, <2>3, <2>6, <4>1
    <3> QED BY <3>1, <3>2 DEF Numbered
  <2>9. ASSUME NEW v \in Workers PROVE RequestOk(v, req[v])'
    <3>1. \A u \in Workers : req'[u] = IF u = w THEN r ELSE req[u]
      BY <2>2 DEF IInv, TypeOK
    <3>2. \A u \in Workers : req[u].op \in {"register", "login"} => req[u].uid # n
      BY <2>3, <2>5
    <3>3. \A id : Exists(id)' = Exists(id)
      BY <2>6 DEF Exists
    <3>4. \A em : UsersWith(em)' = UsersWith(em)
      BY <2>6 DEF UsersWith
    <3>5. CASE v = w
      <4>1. n < nextUserId'
        BY <2>2, <2>3
      <4>2. ASSUME NEW b2 \in Browsers PROVE session'[b2] # n
        <5>1. session'[b2] < n
          BY <2>4, <2>6
        <5> QED BY <2>3, <5>1
      <4>3. req'[v] = r /\ \A u \in Workers \ {v} : req'[u] = req[u]
        BY <3>1, <3>5
      <4> QED BY <2>1, <2>3, <2>4, <2>5, <3>2, <3>3, <3>4, <4>1, <4>2, <4>3 DEF RequestOk
    <3>6. CASE v # w
      <4>1. req'[v] = req[v] /\ RequestOk(v, req[v])
        BY <3>1, <3>6 DEF IInv, Sound, RequestsOk
      <4>2. ASSUME req[v].op \in {"register", "login"}
            PROVE  req[v].uid < nextUserId'
        <5>1. req[v].uid \in UserIds /\ req[v].uid < n
          BY <2>5, <4>1, <4>2 DEF RequestOk
        <5>2. req[v].uid \in Nat
          BY <2>3, <5>1
        <5> QED BY <2>2, <2>3, <5>1, <5>2
      <4>3. CASE req[v].op = "register"
        BY <2>1, <2>5, <2>6, <3>1, <3>2, <3>3, <3>4, <4>1, <4>2, <4>3 DEF RequestOk
      <4>4. CASE req[v].op = "login"
        BY <2>1, <2>6, <3>1, <3>2, <3>3, <4>1, <4>2, <4>4 DEF RequestOk
      <4>5. CASE req[v].op \notin {"register", "login"}
        BY <4>1, <4>5 DEF RequestOk
      <4> QED BY <4>3, <4>4, <4>5
    <3> QED BY <3>5, <3>6
  <2> QED BY <2>7, <2>8, <2>9 DEF Sound, RequestsOk
<1>3. CASE ReadTaken(w)
  <2> DEFINE r == [req[w] EXCEPT !.taken = Assigned, !.at = "pick"]
  <2>1. r.op = req[w].op /\ r.uid = req[w].uid /\ r.row = req[w].row
    BY DEF IInv, TypeOK, Request
  <2>2. req' = [req EXCEPT ![w] = r]
    BY <1>3 DEF ReadTaken, Holds
  <2> HIDE DEF r
  <2>3. RequestOk(w, r)
    BY <2>1 DEF IInv, Sound, RequestsOk, RequestOk
  <2> QED BY <1>3, <2>2, <2>3, RequestStep DEF ReadTaken
<1>4. CASE PickCluster(w)
  <2>1. PICK c \in Candidates(w) : Holds(w, [req[w] EXCEPT !.cluster = c, !.at = "commit"])
    BY <1>4 DEF PickCluster
  <2> DEFINE r == [req[w] EXCEPT !.cluster = c, !.at = "commit"]
  <2>2. r.op = req[w].op /\ r.uid = req[w].uid /\ r.row = req[w].row
    BY DEF IInv, TypeOK, Request
  <2>3. req' = [req EXCEPT ![w] = r]
    BY <2>1 DEF Holds
  <2> HIDE DEF r
  <2>4. RequestOk(w, r)
    BY <2>2 DEF IInv, Sound, RequestsOk, RequestOk
  <2> QED BY <1>4, <2>3, <2>4, RequestStep DEF PickCluster
<1>5. CASE LoginCommit(w)
  <2> DEFINE u == req[w].uid
  <2>1. /\ req[w].op = "login" /\ Exists(u) /\ ForeignKeyOk(req[w].cluster)
        /\ UNCHANGED <<nextUserId, clusters>> /\ Done(w)
    BY <1>5 DEF LoginCommit
  <2>2. \A id \in UserIds :
          /\ users'[id].email = users[id].email
          /\ users'[id].cluster = IF id = u /\ req[w].cluster # 0 THEN req[w].cluster
                                  ELSE users[id].cluster
          /\ id # u => users'[id] = users[id]
    BY <1>5 DEF LoginCommit, IInv, TypeOK, Row
  <2>3. RefIntegrity'
    BY <2>1, <2>2 DEF ForeignKeyOk, IInv, Sound, RefIntegrity, Pool
  <2>4. \A b \in Browsers :
          \/ session'[b] = session[b] /\ signedAs'[b] = signedAs[b]
          \/ session'[b] = u /\ signedAs'[b] = req[w].row.email
    BY <1>5 DEF LoginCommit, IInv, TypeOK
  <2> QED BY <2>1, <2>2, <2>3, <2>4, ColumnsStep
<1>6. CASE RegisterCommit(w)
  <2> DEFINE r == [req[w].row EXCEPT !.cluster = req[w].cluster]
             u == req[w].uid
  <2>1. /\ req[w].op = "register" /\ ForeignKeyOk(req[w].cluster) /\ Done(w)
        /\ UNCHANGED <<nextUserId, clusters>> /\ users' = [users EXCEPT ![u] = r]
    BY <1>6 DEF RegisterCommit
  <2>2. r.email = req[w].row.email /\ r.cluster = req[w].cluster
    BY DEF IInv, TypeOK, Request, Row
  <2> HIDE DEF r
  <2>3. RequestOk(w, req[w])
    BY DEF IInv, Sound, RequestsOk
  <2>4. /\ u \in UserIds /\ ~Exists(u) /\ u < nextUserId /\ r.email # None
        /\ UsersWith(r.email) = {} /\ \A b \in Browsers : session[b] # u
        /\ \A v \in Workers \ {w} :
             /\ req[v].op \in {"register", "login"} => req[v].uid # u
             /\ req[v].op = "register" => req[v].row.email # r.email
    BY <2>1, <2>2, <2>3 DEF RequestOk
  <2>5. r.cluster \in Pool \cup {0} /\ nextUserId' \in Nat /\ nextUserId <= nextUserId'
    BY <2>1, <2>2, IdsAreNat DEF ForeignKeyOk, IInv
  <2>6. \A b \in Browsers :
          \/ session'[b] = session[b] /\ signedAs'[b] = signedAs[b] /\ session[b] # u
          \/ session'[b] = u /\ signedAs'[b] = r.email
    BY <1>6, <2>2, <2>4 DEF RegisterCommit, IInv, TypeOK
  <2> HIDE DEF u
  <2> QED BY <2>1, <2>4, <2>5, <2>6, InsertStep
<1>7. ASSUME NEW b \in Browsers, NEW e \in Emails, NEW p \in OwnPwds, SetPwdStart(w, b, e, p)
      PROVE  Sound'
  <2>1. PICK id \in UsersWith(e) :
          Holds(w, [Idle EXCEPT !.op = "setpwd", !.browser = b, !.uid = id,
                                !.row = users[id], !.pwd = p])
    BY <1>7 DEF SetPwdStart
  <2> DEFINE r == [Idle EXCEPT !.op = "setpwd", !.browser = b, !.uid = id,
                               !.row = users[id], !.pwd = p]
  <2>2. r.op = "setpwd"
    BY DEF Idle
  <2>3. req' = [req EXCEPT ![w] = r]
    BY <2>1 DEF Holds
  <2> HIDE DEF r
  <2> QED BY <1>7, <2>2, <2>3, RequestStep DEF SetPwdStart, RequestOk
<1>8. CASE SetPwdCommit(w)
  <2> DEFINE u == req[w].uid
  <2>1. Exists(u) /\ UNCHANGED <<nextUserId, clusters>> /\ Done(w)
    BY <1>8 DEF SetPwdCommit
  <2>2. \A id \in UserIds :
          /\ users'[id].email = users[id].email
          /\ users'[id].cluster = users[id].cluster
          /\ id # u => users'[id] = users[id]
    <3>1. users \in [UserIds -> Row]
      BY DEF IInv, TypeOK
    <3>2. users' = [users EXCEPT ![u].pwd = req[w].pwd,
                                 ![u].force = IF req[w].row.force THEN FALSE ELSE @]
      BY <1>8 DEF SetPwdCommit
    <3>3. \A id \in UserIds : id # u => users'[id] = users[id]
      BY <3>1, <3>2
    <3>4. u \in UserIds => users'[u].email = users[u].email /\ users'[u].cluster = users[u].cluster
      BY <3>1, <3>2 DEF Row
    <3> QED
      BY <3>3, <3>4
  <2>3. RefIntegrity'
    BY <2>1, <2>2 DEF IInv, Sound, RefIntegrity, Pool
  <2>4. \A b \in Browsers :
          \/ session'[b] = session[b] /\ signedAs'[b] = signedAs[b]
          \/ session'[b] = 0
    BY <1>8 DEF SetPwdCommit, IInv, TypeOK
  <2> QED BY <2>1, <2>2, <2>3, <2>4, ColumnsStep
<1>9. ASSUME NEW b \in Browsers, Logout(w, b) PROVE Sound'
  <2>1. UNCHANGED <<users, nextUserId, clusters, req>>
    BY <1>9 DEF Logout
  <2>2. \A b2 \in Browsers : \/ session'[b2] = session[b2] /\ signedAs'[b2] = signedAs[b2]
                            \/ session'[b2] = 0
    BY <1>9 DEF Logout, IInv, TypeOK
  <2>3. Blank' /\ RefIntegrity' /\ UniqueEmail'
    BY <2>1 DEF IInv, Sound, Blank, RefIntegrity, UniqueEmail, Exists, Pool
  <2>4. Numbered' /\ SessionIdentity'
    BY <2>1, <2>2, IdBounds DEF IInv, TypeOK, Sound, Numbered, SessionIdentity, Exists, LoggedIn
  <2>5. ASSUME NEW v \in Workers PROVE RequestOk(v, req[v])'
    <3>1. RequestOk(v, req[v]) /\ 0 \notin UserIds
      BY DEF IInv, Sound, RequestsOk, UserIds
    <3> HIDE DEF UserIds
    <3> QED BY <2>1, <2>2, <3>1 DEF RequestOk, Exists, UsersWith
  <2> QED BY <2>3, <2>4, <2>5 DEF Sound, RequestsOk
<1> QED BY <1>1, <1>2, <1>3, <1>4, <1>5, <1>6, <1>7, <1>8, <1>9 DEF Visitor

\* The pages of the admin (deletes, password resets) preserve the invariant.
LEMMA SoundAdminPages ==
  ASSUME IInv, NEW w \in Workers, AdminPages(w)
  PROVE  Sound'
<1>1. ASSUME NEW b \in Browsers, NEW u \in UserIds, UserDelete(w, b, u) PROVE Sound'
  <2>1. /\ UNCHANGED <<nextUserId, clusters, session, signedAs, req>>
        /\ \A id \in UserIds : users'[id] = IF id = u THEN NoRow ELSE users[id]
    BY <1>1 DEF UserDelete, IInv, TypeOK
  <2>2. \A id \in UserIds : Exists(id)' <=> Exists(id) /\ id # u
    BY <2>1 DEF Exists, NoRow
  <2>3. Blank' /\ Numbered'
    BY <2>1, <2>2 DEF IInv, Sound, Blank, Numbered
  <2>4. RefIntegrity'
    BY <2>1 DEF IInv, Sound, RefIntegrity, Pool, NoRow
  <2>5. UniqueEmail'
    <3>1. ASSUME NEW i \in UserIds, NEW j \in UserIds, Exists(i)', users'[i].email = users'[j].email
          PROVE  i = j
      <4>1. Exists(j)'
        BY <3>1 DEF Exists
      <4> QED BY <2>1, <2>2, <3>1, <4>1 DEF IInv, Sound, UniqueEmail
    <3> QED BY <3>1 DEF UniqueEmail
  <2>6. SessionIdentity'
    BY <2>1, <2>2 DEF IInv, TypeOK, Sound, SessionIdentity, LoggedIn
  <2>7. ASSUME NEW v \in Workers PROVE RequestOk(v, req[v])'
    <3>1. RequestOk(v, req[v])
      BY DEF IInv, Sound, RequestsOk
    <3>2. \A e : e # None /\ UsersWith(e) = {} => UsersWith(e)' = {}
      BY <2>1 DEF UsersWith, NoRow
    <3>3. Exists(req[v].uid)' /\ req[v].uid \in UserIds
            => Exists(req[v].uid) /\ users'[req[v].uid] = users[req[v].uid]
      BY <2>1, <2>2
    <3> QED BY <2>1, <3>1, <3>2, <3>3 DEF RequestOk
  <2> QED BY <2>3, <2>4, <2>5, <2>6, <2>7 DEF Sound, RequestsOk
<1>2. ASSUME NEW b \in Browsers, NEW id \in UserIds, ResetUserStart(w, b, id) PROVE Sound'
  <2> DEFINE r == [Idle EXCEPT !.op = "resetuser", !.uid = id, !.row = users[id], !.pwd = regCode]
  <2>1. r.op = "resetuser" /\ req' = [req EXCEPT ![w] = r]
    BY <1>2 DEF ResetUserStart, Holds, Idle
  <2> HIDE DEF r
  <2> QED BY <1>2, <2>1, RequestStep DEF ResetUserStart, RequestOk
<1>3. ASSUME NEW b \in Browsers, NEW c \in ClusterIds, ClusterDeleteStart(w, b, c)
      PROVE  Sound'
  <2> DEFINE r == [Idle EXCEPT !.op = "dropcluster", !.cluster = c, !.deps = UsersOn(c)]
  <2>1. r.op = "dropcluster" /\ req' = [req EXCEPT ![w] = r]
    BY <1>3 DEF ClusterDeleteStart, Holds, Idle
  <2> HIDE DEF r
  <2> QED BY <1>3, <2>1, RequestStep DEF ClusterDeleteStart, RequestOk
<1>4. CASE ResetUserCommit(w)
  <2> DEFINE u == req[w].uid
  <2>1. Exists(u) /\ UNCHANGED <<nextUserId, clusters, session, signedAs>> /\ Done(w)
    BY <1>4 DEF ResetUserCommit
  <2>2. \A id \in UserIds :
          /\ users'[id].email = users[id].email
          /\ users'[id].cluster = users[id].cluster
          /\ id # u => users'[id] = users[id]
    BY <1>4 DEF ResetUserCommit, IInv, TypeOK, Row
  <2>3. RefIntegrity'
    BY <2>1, <2>2 DEF IInv, Sound, RefIntegrity, Pool
  <2> QED BY <2>1, <2>2, <2>3, ColumnsStep
<1>5. CASE ClusterDeleteCommit(w)
  <2> DEFINE c == req[w].cluster
  <2>1. /\ UNCHANGED <<nextUserId, session, signedAs>> /\ Done(w)
        /\ \A id \in req[w].deps : Exists(id)
        /\ UsersOn(c) \subseteq req[w].deps
        /\ \A id \in UserIds :
             users'[id] = IF id \in req[w].deps THEN [users[id] EXCEPT !.cluster = 0] ELSE users[id]
        /\ \A d \in ClusterIds : clusters'[d] = IF d = c THEN None ELSE clusters[d]
    BY <1>5 DEF ClusterDeleteCommit, IInv, TypeOK
  <2>2. \A id \in UserIds :
          /\ users'[id].email = users[id].email
          /\ users'[id].cluster = IF id \in req[w].deps THEN 0 ELSE users[id].cluster
    <3> TAKE id \in UserIds
    <3>1. users[id] \in Row
      BY DEF IInv, TypeOK
    <3>2. CASE id \in req[w].deps
      <4>1. users'[id] = [users[id] EXCEPT !.cluster = 0]
        BY <2>1, <3>2
      <4> QED BY <3>1, <3>2, <4>1 DEF Row
    <3>3. CASE id \notin req[w].deps
      BY <2>1, <3>3
    <3> QED BY <3>2, <3>3
  <2>3. Pool' = Pool \ {c}
    BY <2>1 DEF Pool
  <2>4. ASSUME NEW id \in UserIds PROVE users'[id].cluster \in Pool' \cup {0}
    <3>1. CASE id \in req[w].deps
      BY <2>2, <3>1
    <3>2. CASE id \notin req[w].deps
      <4>1. users[id].cluster \in Pool \cup {0} /\ users'[id].cluster = users[id].cluster
        BY <2>2, <3>2 DEF IInv, Sound, RefIntegrity
      <4>2. users[id].cluster = c => ~Exists(id)
        BY <2>1, <3>2 DEF UsersOn
      <4>3. ~Exists(id) => users[id].cluster = 0
        BY DEF IInv, Sound, Blank, NoRow
      <4> QED BY <2>3, <4>1, <4>2, <4>3
    <3> QED BY <3>1, <3>2
  <2>5. RefIntegrity'
    BY <2>4 DEF RefIntegrity
  <2> QED BY <2>1, <2>2, <2>5, ColumnsStep
<1> QED BY <1>1, <1>2, <1>3, <1>4, <1>5 DEF AdminPages

\* The REST handlers (create_admin, add_cluster, config) preserve the invariant.
LEMMA SoundRestApi ==
  ASSUME IInv, NEW w \in Workers, RestApi(w)
  PROVE  Sound'
<1>1. ASSUME NEW e \in Emails, NEW p \in OwnPwds, CreateAdminStart(w, e, p) PROVE Sound'
  <2>1. PICK id \in (IF UsersWith(e) = {} THEN {0} ELSE UsersWith(e)) :
          Holds(w, [Idle EXCEPT !.op = "mkadmin", !.uid = id, !.pwd = p,
                                !.row = [NoRow EXCEPT !.email = e, !.admin = TRUE, !.pwd = p]])
    BY <1>1 DEF CreateAdminStart
  <2> DEFINE r == [Idle EXCEPT !.op = "mkadmin", !.uid = id, !.pwd = p,
                               !.row = [NoRow EXCEPT !.email = e, !.admin = TRUE, !.pwd = p]]
  <2>2. r.op = "mkadmin" /\ r.row.email = e /\ e # None /\ r.row.cluster = 0
    BY NoneIsNull DEF Idle, NoRow
  <2>3. req' = [req EXCEPT ![w] = r]
    BY <2>1 DEF Holds
  <2> HIDE DEF r
  <2> QED BY <1>1, <2>2, <2>3, RequestStep DEF CreateAdminStart, RequestOk
<1>2. CASE PromoteCommit(w)
  <2> DEFINE u == req[w].uid
  <2>1. Exists(u) /\ UNCHANGED <<nextUserId, clusters, session, signedAs>> /\ Done(w)
    BY <1>2 DEF PromoteCommit
  <2>2. \A id \in UserIds :
          /\ users'[id].email = users[id].email
          /\ users'[id].cluster = users[id].cluster
          /\ id # u => users'[id] = users[id]
    BY <1>2 DEF PromoteCommit, IInv, TypeOK, Row
  <2>3. RefIntegrity'
    BY <2>1, <2>2 DEF IInv, Sound, RefIntegrity, Pool
  <2> QED BY <2>1, <2>2, <2>3, ColumnsStep
<1>3. CASE InsertAdminCommit(w)
  <2> DEFINE r == req[w].row
  <2>0. PICK n : n = nextUserId
    OBVIOUS
  <2>1. /\ req[w].op = "mkadmin" /\ req[w].uid = 0 /\ EmailFree(r.email) /\ Done(w)
        /\ users' = [users EXCEPT ![n] = r] /\ nextUserId' = n + 1
        /\ UNCHANGED <<clusters, session, signedAs>>
    BY <1>3, <2>0 DEF InsertAdminCommit, FreshUserId
  <2>2. n \in UserIds /\ n \in Nat
    <3>1. n \in 1..(MaxUserId + 1) /\ n <= MaxUserId
      BY <1>3, <2>0 DEF InsertAdminCommit, IInv, TypeOK
    <3> QED BY <3>1, IdBounds DEF UserIds
  <2>3. ~Exists(n) /\ r.email # None
    BY <2>0, <2>1, <2>2 DEF IInv, Sound, Numbered, RequestsOk, RequestOk
  <2>4. UsersWith(r.email) = {}
    BY <2>1 DEF EmailFree
  <2>5. r.cluster \in Pool \cup {0}
    BY <2>1 DEF IInv, Sound, RequestsOk, RequestOk
  <2>6. \A v \in Workers \ {w} :
          /\ req[v].op \in {"register", "login"} => req[v].uid # n
          /\ req[v].op = "register" => req[v].row.email # r.email
    BY <2>0, <2>1, <2>2 DEF EmailFree, EmailHeld, IInv, Sound, RequestsOk, RequestOk
  <2>7. \A b \in Browsers : session[b] # n
    BY <2>0, <2>2 DEF IInv, Sound, Numbered
  <2>8. n < nextUserId' /\ nextUserId' \in Nat /\ nextUserId <= nextUserId'
    BY <2>0, <2>1, <2>2
  <2> HIDE DEF r
  <2> QED BY <2>1, <2>2, <2>3, <2>4, <2>5, <2>6, <2>7, <2>8, InsertStep
<1>4. ASSUME NEW h \in Hosts, AddCluster(w, h) PROVE Sound'
  <2>1. UNCHANGED <<users, nextUserId, session, signedAs, req>> /\ Pool \subseteq Pool'
    BY <1>4, NoneIsNull DEF AddCluster, Pool, IInv, TypeOK
  <2> QED BY <2>1 DEF IInv, Sound, Blank, Numbered, RequestsOk, RequestOk, RefIntegrity, UniqueEmail,
          SessionIdentity, Exists, UsersWith, LoggedIn
<1>5. ASSUME NEW code \in Codes \cup {None}, SetRegCode(w, code) PROVE Sound'
  BY <1>5 DEF SetRegCode, IInv, Sound, Blank, Numbered, RequestsOk, RequestOk, RefIntegrity,
     UniqueEmail, SessionIdentity, Exists, UsersWith, LoggedIn, Pool
<1> QED BY <1>1, <1>2, <1>3, <1>4, <1>5 DEF RestApi

\* The invariant is inductive: every statement of every handler, rolled back or
\* not, preserves it.
LEMMA IInvNext == IInv /\ [Next]_vars => IInv'
<1> SUFFICES ASSUME IInv, [Next]_vars PROVE Sound'
  BY TypeNext DEF IInv
<1>1. ASSUME NEW w \in Workers, Rollback(w) PROVE Sound'
  BY <1>1, IdleOk, RequestStep DEF Rollback, Done
<1>2. CASE UNCHANGED vars
  BY <1>2 DEF vars, IInv, Sound, Blank, Numbered, RequestsOk, RequestOk, RefIntegrity,
     UniqueEmail, SessionIdentity, Exists, UsersWith, LoggedIn, Pool
<1> QED BY <1>1, <1>2, SoundVisitor, SoundAdminPages, SoundRestApi DEF Next

\* Whatever the workers interleave: rows are in use only below the sequence, ids
\* held by unfinished requests are fresh and distinct, and the three promises
\* about assignments, accounts and cookies hold.
THEOREM InvariantHolds == Spec => []IInv
<1>1. Init => IInv
  BY TypeInit, SoundInit DEF IInv
<1> QED BY <1>1, IInvNext, PTL DEF Spec

\* No user is ever left with a cluster whose row is gone, however logins,
\* registrations and cluster deletions overlap.
THEOREM ReferencesHold == Spec => []RefIntegrity
<1>1. IInv => RefIntegrity
  BY DEF IInv, Sound
<1> QED BY <1>1, InvariantHolds, PTL

\* Two accounts never share an e-mail, though both ways of creating one check
\* before they insert.
THEOREM EmailsUnique == Spec => []UniqueEmail
<1>1. IInv => UniqueEmail
  BY DEF IInv, Sound
<1> QED BY <1>1, InvariantHolds, PTL

\* A cookie never serves a browser as a person it did not authenticate, also
\* after the account it names is deleted.
THEOREM SessionsHonest == Spec => []SessionIdentity
<1>1. IInv => SessionIdentity
  BY DEF IInv, Sound
<1> QED BY <1>1, InvariantHolds, PTL

(***************************************************************************)
(* The web server implements Registry: requests whose statements interleave *)
(* amount to indivisible operations, each at its commit.                    *)
(***************************************************************************)
\* At first no request is under way, so that none is without its browser.
LEMMA AddressedInit == Init => Addressed
BY DEF Init, Addressed, Idle

\* A step that replaces one request by one with a browser and a cluster id.
LEMMA AddressedStep ==
  ASSUME Addressed, TypeOK, NEW w \in Workers, NEW r,
         req' = [req EXCEPT ![w] = r],
         r.op \in {"login", "register", "setpwd"} => r.browser \in Browsers,
         r.op = "dropcluster" => r.cluster \in ClusterIds
  PROVE  Addressed'
BY DEF Addressed, TypeOK

\* Every handler answers the browser that called it and deletes a cluster by id.
LEMMA AddressedNext == Addressed /\ TypeOK /\ [Next]_vars => Addressed'
<1> SUFFICES ASSUME Addressed, TypeOK, [Next]_vars PROVE Addressed'
  OBVIOUS
<1>1. ASSUME UNCHANGED req PROVE Addressed'
  BY <1>1 DEF Addressed
<1>2. ASSUME NEW w \in Workers, Done(w) PROVE Addressed'
  BY <1>2, AddressedStep DEF Done, Idle
<1>3. ASSUME NEW w \in Workers, Visitor(w) PROVE Addressed'
  <2>1. ASSUME NEW b \in Browsers, NEW e \in Emails, NEW ip \in Ips, NEW p \in Hashes,
               LoginStart(w, b, e, p, ip)
        PROVE  Addressed'
    <3>1. PICK id \in UsersWith(e) :
            Holds(w, [Idle EXCEPT !.op = "login", !.browser = b, !.uid = id,
                                  !.row = users[id], !.ip = ip,
                                  !.at = IF users[id].cluster = 0 THEN "taken" ELSE "commit"])
      BY <2>1 DEF LoginStart
    <3> DEFINE r == [Idle EXCEPT !.op = "login", !.browser = b, !.uid = id,
                                 !.row = users[id], !.ip = ip,
                                 !.at = IF users[id].cluster = 0 THEN "taken" ELSE "commit"]
    <3>2. r.op = "login" /\ r.browser = b /\ req' = [req EXCEPT ![w] = r]
      BY <3>1 DEF Holds, Idle
    <3> HIDE DEF r
    <3> QED BY <3>2, AddressedStep
  <2>2. ASSUME NEW b \in Browsers, NEW e \in Emails, NEW ip \in Ips, NEW p \in OwnPwds,
               RegisterStart(w, b, e, p, ip)
        PROVE  Addressed'
    <3> DEFINE r == [Idle EXCEPT !.op = "register", !.browser = b, !.uid = FreshUserId,
                                 !.row = [NoRow EXCEPT !.email = e, !.pwd = p, !.ip = ip],
                                 !.taken = Assigned, !.at = "pick"]
    <3>1. r.op = "register" /\ r.browser = b /\ req' = [req EXCEPT ![w] = r]
      BY <2>2 DEF RegisterStart, Holds, Idle
    <3> HIDE DEF r
    <3> QED BY <3>1, AddressedStep
  <2>3. CASE ReadTaken(w)
    <3> DEFINE r == [req[w] EXCEPT !.taken = Assigned, !.at = "pick"]
    <3>1. /\ r.op = req[w].op /\ r.browser = req[w].browser /\ r.cluster = req[w].cluster
          /\ req' = [req EXCEPT ![w] = r]
      BY <2>3 DEF ReadTaken, Holds, TypeOK, Request
    <3> HIDE DEF r
    <3> QED BY <3>1, AddressedStep DEF Addressed
  <2>4. CASE PickCluster(w)
    <3>1. PICK c \in Candidates(w) : Holds(w, [req[w] EXCEPT !.cluster = c, !.at = "commit"])
      BY <2>4 DEF PickCluster
    <3> DEFINE r == [req[w] EXCEPT !.cluster = c, !.at = "commit"]
    <3>2. /\ r.op = req[w].op /\ r.browser = req[w].browser /\ r.op # "dropcluster"
          /\ req' = [req EXCEPT ![w] = r]
      BY <2>4, <3>1 DEF PickCluster, Holds, TypeOK, Request
    <3> HIDE DEF r
    <3> QED BY <3>2, AddressedStep DEF Addressed
  <2>5. ASSUME NEW b \in Browsers, NEW e \in Emails, NEW p \in OwnPwds, SetPwdStart(w, b, e, p)
        PROVE  Addressed'
    <3>1. PICK id \in UsersWith(e) :
            Holds(w, [Idle EXCEPT !.op = "setpwd", !.browser = b, !.uid = id,
                                  !.row = users[id], !.pwd = p])
      BY <2>5 DEF SetPwdStart
    <3> DEFINE r == [Idle EXCEPT !.op = "setpwd", !.browser = b, !.uid = id,
                                 !.row = users[id], !.pwd = p]
    <3>2. r.op = "setpwd" /\ r.browser = b /\ req' = [req EXCEPT ![w] = r]
      BY <3>1 DEF Holds, Idle
    <3> HIDE DEF r
    <3> QED BY <3>2, AddressedStep
  <2> QED BY <1>1, <1>2, <1>3, <2>1, <2>2, <2>3, <2>4, <2>5
          DEF Visitor, LoginCommit, RegisterCommit, SetPwdCommit, Logout
<1>4. ASSUME NEW w \in Workers, AdminPages(w) PROVE Addressed'
  <2>1. ASSUME NEW b \in Browsers, NEW id \in UserIds, ResetUserStart(w, b, id) PROVE Addressed'
    <3> DEFINE r == [Idle EXCEPT !.op = "resetuser", !.uid = id, !.row = users[id], !.pwd = regCode]
    <3>1. r.op = "resetuser" /\ req' = [req EXCEPT ![w] = r]
      BY <2>1 DEF ResetUserStart, Holds, Idle
    <3> HIDE DEF r
    <3> QED BY <3>1, AddressedStep
  <2>2. ASSUME NEW b \in Browsers, NEW c \in ClusterIds, ClusterDeleteStart(w, b, c)
        PROVE  Addressed'
    <3> DEFINE r == [Idle EXCEPT !.op = "dropcluster", !.cluster = c, !.deps = UsersOn(c)]
    <3>1. r.op = "dropcluster" /\ r.cluster = c /\ req' = [req EXCEPT ![w] = r]
      BY <2>2 DEF ClusterDeleteStart, Holds, Idle
    <3> HIDE DEF r
    <3> QED BY <3>1, AddressedStep
  <2> QED BY <1>1, <1>2, <1>4, <2>1, <2>2
          DEF AdminPages, UserDelete, ResetUserCommit, ClusterDeleteCommit
<1>5. ASSUME NEW w \in Workers, RestApi(w) PROVE Addressed'
  <2>1. ASSUME NEW e \in Emails, NEW p \in OwnPwds, CreateAdminStart(w, e, p) PROVE Addressed'
    <3>1. PICK id \in (IF UsersWith(e) = {} THEN {0} ELSE UsersWith(e)) :
            Holds(w, [Idle EXCEPT !.op = "mkadmin", !.uid = id, !.pwd = p,
                                  !.row = [NoRow EXCEPT !.email = e, !.admin = TRUE, !.pwd = p]])
      BY <2>1 DEF CreateAdminStart
    <3> DEFINE r == [Idle EXCEPT !.op = "mkadmin", !.uid = id, !.pwd = p,
                                 !.row = [NoRow EXCEPT !.email = e, !.admin = TRUE, !.pwd = p]]
    <3>2. r.op = "mkadmin" /\ req' = [req EXCEPT ![w] = r]
      BY <3>1 DEF Holds, Idle
    <3> HIDE DEF r
    <3> QED BY <3>2, AddressedStep
  <2> QED BY <1>1, <1>2, <1>5, <2>1
          DEF RestApi, PromoteCommit, InsertAdminCommit, AddCluster, SetRegCode
<1>6. ASSUME NEW w \in Workers, Rollback(w) PROVE Addressed'
  BY <1>2, <1>6 DEF Rollback
<1> QED BY <1>1, <1>3, <1>4, <1>5, <1>6 DEF Next, vars

(***************************************************************************)
(* How a step changes the ids that are pending.                             *)
(***************************************************************************)
\* Any other step of a request leaves the pending ids alone.
LEMMA PendingKept ==
  ASSUME TypeOK, NEW w \in Workers, NEW r, req' = [req EXCEPT ![w] = r],
         \/ req[w].op # "register" /\ r.op # "register"
         \/ r.op = req[w].op /\ r.uid = req[w].uid
  PROVE  Pending' = Pending
<1>1. \A v \in Workers : req'[v] = IF v = w THEN r ELSE req[v]
  BY DEF TypeOK
<1>2. ASSUME NEW u PROVE u \in Pending' <=> u \in Pending
  BY <1>1 DEF Pending
<1> QED BY <1>2

\* A registration that draws its id from the sequence makes that id pending.
LEMMA PendingAdded ==
  ASSUME TypeOK, NEW w \in Workers, NEW r, req' = [req EXCEPT ![w] = r],
         req[w].op # "register", r.op = "register"
  PROVE  Pending' = Pending \cup {r.uid}
<1>1. \A v \in Workers : req'[v] = IF v = w THEN r ELSE req[v]
  BY DEF TypeOK
<1>2. ASSUME NEW u PROVE u \in Pending' <=> u \in Pending \/ u = r.uid
  BY <1>1 DEF Pending
<1> QED BY <1>2

\* A registration that ends, committed or not, takes its id and only its id.
LEMMA PendingDropped ==
  ASSUME IInv, NEW w \in Workers, Done(w), req[w].op = "register"
  PROVE  Pending' = Pending \ {req[w].uid}
<1>1. \A v \in Workers : req'[v] = IF v = w THEN Idle ELSE req[v]
  BY DEF Done, IInv, TypeOK
<1>2. \A v \in Workers \ {w} : req[v].op = "register" => req[v].uid # req[w].uid
  BY DEF IInv, Sound, RequestsOk, RequestOk
<1>3. ASSUME NEW u PROVE u \in Pending' <=> u \in Pending /\ u # req[w].uid
  BY <1>1, <1>2 DEF Pending, Idle
<1> QED BY <1>3

\* A pending id was drawn from the sequence and no row has it.
LEMMA PendingIds ==
  ASSUME IInv, NEW u \in Pending
  PROVE  u \in UserIds /\ u < nextUserId /\ ~Exists(u)
BY DEF Pending, IInv, Sound, RequestsOk, RequestOk

(***************************************************************************)
(* The simulation.                                                          *)
(***************************************************************************)
LEMMA MapInit == Init => R!Init
<1> SUFFICES ASSUME Init PROVE R!Init
  OBVIOUS
<1>1. \A id \in UserIds : users[id].email = None /\ users[id].cluster = 0
  BY DEF Init, NoRow
<1>2. Pool = {} /\ (1..(nextUserId - 1)) \ Pending = {}
  BY DEF Init, Pool
<1>3. session = [b \in Browsers |-> 0]
  BY DEF Init
<1> QED BY <1>1, <1>2, <1>3 DEF R!Init

\* What the abstract variables are after a step that keeps the tables.
LEMMA MapStutter ==
  ASSUME UNCHANGED <<users, nextUserId, clusters, session>>, Pending' = Pending
  PROVE  UNCHANGED R!vars
BY DEF R!vars, Pool

\* Columns nobody promised anything about.
LEMMA MapColumns ==
  ASSUME UNCHANGED <<nextUserId, clusters, session>>, Pending' = Pending,
         \A id \in UserIds : users'[id].email = users[id].email /\ users'[id].cluster = users[id].cluster
  PROVE  UNCHANGED R!vars
BY DEF R!vars, Pool

\* A row inserted under an id that was pending, or fresh, is a Join.
LEMMA MapInsert ==
  ASSUME IInv, NEW id \in UserIds, NEW r \in Row,
         users' = [users EXCEPT ![id] = r], ~Exists(id),
         r.email # None, UsersWith(r.email) = {}, r.cluster \in Pool \cup {0},
         id \notin (1..(nextUserId - 1)) \ Pending,
         (1..(nextUserId' - 1)) \ Pending' = ((1..(nextUserId - 1)) \ Pending) \cup {id},
         UNCHANGED clusters,
         \/ session' = session
         \/ \E b \in Browsers : session' = [session EXCEPT ![b] = id]
  PROVE  R!Next
<1> DEFINE e == r.email
           c == r.cluster
<1>1. e \in Emails /\ c \in ClusterIds \cup {0}
  BY RowTyped
<1>2. \A i \in UserIds : /\ users'[i].email = IF i = id THEN e ELSE users[i].email
                        /\ users'[i].cluster = IF i = id THEN c ELSE users[i].cluster
  BY DEF IInv, TypeOK
<1> HIDE DEF e, c
<1>3. [i \in UserIds |-> users[i].email]' = [[i \in UserIds |-> users[i].email] EXCEPT ![id] = e]
  BY <1>2
<1>4. [i \in UserIds |-> users[i].cluster]' = [[i \in UserIds |-> users[i].cluster] EXCEPT ![id] = c]
  BY <1>2
<1>5. \A i \in UserIds : users[i].email # e
  BY DEF UsersWith, e
<1>6. Pool' = Pool
  BY DEF Pool
<1>7. R!Join(id, e, c)
  BY <1>3, <1>4, <1>5, <1>6 DEF R!Join, R!Claimable
<1> QED BY <1>1, <1>7 DEF R!Next

\* Every step of a handler is an operation of Registry or none at all.
LEMMA MapNext == IInv /\ Addressed /\ [Next]_vars => [R!Next]_R!vars
<1> SUFFICES ASSUME IInv, Addressed, Next PROVE R!Next \/ UNCHANGED R!vars
  <2>1. UNCHANGED vars => UNCHANGED R!vars
    BY MapStutter DEF vars, Pending
  <2> QED BY <2>1
<1>0. TypeOK /\ Sound
  BY DEF IInv
<1>1. ASSUME NEW w \in Workers, Visitor(w) PROVE R!Next \/ UNCHANGED R!vars
  <2>1. ASSUME NEW b \in Browsers, NEW e \in Emails, NEW ip \in Ips, NEW p \in Hashes,
               LoginStart(w, b, e, p, ip)
        PROVE  UNCHANGED R!vars
    <3>1. PICK id \in UsersWith(e) :
            Holds(w, [Idle EXCEPT !.op = "login", !.browser = b, !.uid = id,
                                  !.row = users[id], !.ip = ip,
                                  !.at = IF users[id].cluster = 0 THEN "taken" ELSE "commit"])
      BY <2>1 DEF LoginStart
    <3> DEFINE r == [Idle EXCEPT !.op = "login", !.browser = b, !.uid = id,
                                 !.row = users[id], !.ip = ip,
                                 !.at = IF users[id].cluster = 0 THEN "taken" ELSE "commit"]
    <3>2. r.op = "login" /\ req' = [req EXCEPT ![w] = r] /\ req[w].op = "idle"
      BY <2>1, <3>1 DEF LoginStart, Holds, Idle, Free
    <3> HIDE DEF r
    <3>3. Pending' = Pending
      BY <1>0, <3>2, PendingKept
    <3> QED BY <2>1, <3>3, MapStutter DEF LoginStart
  <2>2. ASSUME NEW b \in Browsers, NEW e \in Emails, NEW ip \in Ips, NEW p \in OwnPwds,
               RegisterStart(w, b, e, p, ip)
        PROVE  UNCHANGED R!vars
    <3> DEFINE r == [Idle EXCEPT !.op = "register", !.browser = b, !.uid = FreshUserId,
                                 !.row = [NoRow EXCEPT !.email = e, !.pwd = p, !.ip = ip],
                                 !.taken = Assigned, !.at = "pick"]
    <3>1. /\ r.op = "register" /\ r.uid = nextUserId /\ req' = [req EXCEPT ![w] = r]
          /\ req[w].op = "idle"
      BY <2>2 DEF RegisterStart, Holds, Idle, FreshUserId, Free
    <3> HIDE DEF r
    <3>2. Pending' = Pending \cup {nextUserId}
      BY <1>0, <3>1, PendingAdded
    <3>3. nextUserId' = nextUserId + 1 /\ nextUserId \in Nat
      BY <1>0, <2>2, IdsAreNat DEF RegisterStart
    <3>4. ((1..(nextUserId - 1)) \ Pending)' = (1..(nextUserId - 1)) \ Pending
      BY <3>2, <3>3
    <3> QED BY <2>2, <3>4 DEF RegisterStart, R!vars, Pool
  <2>3. CASE ReadTaken(w)
    <3> DEFINE r == [req[w] EXCEPT !.taken = Assigned, !.at = "pick"]
    <3>1. r.op = req[w].op /\ r.uid = req[w].uid /\ req' = [req EXCEPT ![w] = r]
      BY <1>0, <2>3 DEF ReadTaken, Holds, TypeOK, Request
    <3> HIDE DEF r
    <3>2. Pending' = Pending
      BY <1>0, <3>1, PendingKept
    <3> QED BY <2>3, <3>2, MapStutter DEF ReadTaken
  <2>4. CASE PickCluster(w)
    <3>1. PICK c \in Candidates(w) : Holds(w, [req[w] EXCEPT !.cluster = c, !.at = "commit"])
      BY <2>4 DEF PickCluster
    <3> DEFINE r == [req[w] EXCEPT !.cluster = c, !.at = "commit"]
    <3>2. r.op = req[w].op /\ r.uid = req[w].uid /\ req' = [req EXCEPT ![w] = r]
      BY <1>0, <3>1 DEF Holds, TypeOK, Request
    <3> HIDE DEF r
    <3>3. Pending' = Pending
      BY <1>0, <3>2, PendingKept
    <3> QED BY <2>4, <3>3, MapStutter DEF PickCluster
  <2>5. CASE LoginCommit(w)
    <3>0. PICK u, b, c : /\ u = req[w].uid /\ b = req[w].browser
                         /\ c = IF req[w].cluster # 0 THEN req[w].cluster ELSE users[u].cluster
      OBVIOUS
    <3>1. /\ req[w].op = "login" /\ Exists(u) /\ ForeignKeyOk(req[w].cluster)
          /\ UNCHANGED <<nextUserId, clusters>> /\ Done(w)
          /\ session' = [session EXCEPT ![b] = u]
      BY <2>5, <3>0 DEF LoginCommit
    <3>2. u \in UserIds /\ b \in Browsers
      BY <1>0, <3>0, <3>1 DEF Sound, RequestsOk, RequestOk, Addressed
    <3>3. \A id \in UserIds :
            /\ users'[id].email = users[id].email
            /\ users'[id].cluster = IF id = u THEN c ELSE users[id].cluster
      BY <1>0, <2>5, <3>0 DEF LoginCommit, TypeOK, Row
    <3>4. c \in Pool \cup {users[u].cluster} /\ c \in ClusterIds \cup {0}
      BY <1>0, <3>0, <3>1, <3>2 DEF ForeignKeyOk, Pool, TypeOK, Row
    <3>5. Pending' = Pending
      BY <1>0, <3>1, PendingKept DEF Done, Idle
    <3>6. [i \in UserIds |-> users[i].email]' = [i \in UserIds |-> users[i].email]
      BY <3>3
    <3>7. [i \in UserIds |-> users[i].cluster]'
            = [[i \in UserIds |-> users[i].cluster] EXCEPT ![u] = c]
      BY <3>3
    <3>8. Pool' = Pool /\ ((1..(nextUserId - 1)) \ Pending)' = (1..(nextUserId - 1)) \ Pending
      BY <3>1, <3>5 DEF Pool
    <3>9. R!SignIn(b, u, c)
      BY <3>1, <3>2, <3>4, <3>6, <3>7, <3>8 DEF R!SignIn, R!Members, Exists
    <3> QED BY <3>2, <3>4, <3>9 DEF R!Next
  <2>6. CASE RegisterCommit(w)
    <3>0. PICK u, b, r : /\ u = req[w].uid /\ b = req[w].browser
                         /\ r = [req[w].row EXCEPT !.cluster = req[w].cluster]
      OBVIOUS
    <3>1. /\ req[w].op = "register" /\ ForeignKeyOk(req[w].cluster) /\ Done(w)
          /\ UNCHANGED <<nextUserId, clusters>> /\ users' = [users EXCEPT ![u] = r]
          /\ session' = [session EXCEPT ![b] = u]
      BY <2>6, <3>0 DEF RegisterCommit
    <3>2. r \in Row /\ r.email = req[w].row.email /\ r.cluster = req[w].cluster
      <4>1. req[w].row \in Row /\ req[w].cluster \in ClusterIds \cup {0}
        BY <1>0 DEF TypeOK, Request
      <4> QED BY <3>0, <4>1 DEF Row
    <3>3. /\ u \in UserIds /\ u < nextUserId /\ ~Exists(u) /\ r.email # None
          /\ UsersWith(r.email) = {} /\ b \in Browsers /\ u \in Pending
      BY <1>0, <3>0, <3>1, <3>2 DEF Sound, RequestsOk, RequestOk, Addressed, Pending
    <3>4. Pending' = Pending \ {u}
      BY <3>0, <3>1, PendingDropped
    <3>5. u \in 1..(nextUserId - 1)
      BY <1>0, <3>3, IdsAreNat DEF UserIds
    <3>6. (1..(nextUserId' - 1)) \ Pending' = ((1..(nextUserId - 1)) \ Pending) \cup {u}
      BY <3>1, <3>4, <3>5
    <3>7. r.cluster \in Pool \cup {0} /\ u \notin (1..(nextUserId - 1)) \ Pending
      BY <3>1, <3>2, <3>3 DEF ForeignKeyOk
    <3> QED BY <3>1, <3>2, <3>3, <3>6, <3>7, MapInsert
  <2>7. ASSUME NEW b \in Browsers, NEW e \in Emails, NEW p \in OwnPwds, SetPwdStart(w, b, e, p)
        PROVE  UNCHANGED R!vars
    <3>1. PICK id \in UsersWith(e) :
            Holds(w, [Idle EXCEPT !.op = "setpwd", !.browser = b, !.uid = id,
                                  !.row = users[id], !.pwd = p])
      BY <2>7 DEF SetPwdStart
    <3> DEFINE r == [Idle EXCEPT !.op = "setpwd", !.browser = b, !.uid = id,
                                 !.row = users[id], !.pwd = p]
    <3>2. r.op = "setpwd" /\ req' = [req EXCEPT ![w] = r] /\ req[w].op = "idle"
      BY <2>7, <3>1 DEF SetPwdStart, Holds, Idle, Free
    <3> HIDE DEF r
    <3>3. Pending' = Pending
      BY <1>0, <3>2, PendingKept
    <3> QED BY <2>7, <3>3, MapStutter DEF SetPwdStart
  <2>8. CASE SetPwdCommit(w)
    <3>0. PICK b : b = req[w].browser
      OBVIOUS
    <3>1. /\ req[w].op = "setpwd" /\ UNCHANGED <<nextUserId, clusters>> /\ Done(w)
          /\ session' = [session EXCEPT ![b] = 0]
      BY <2>8, <3>0 DEF SetPwdCommit
    <3>2. \A id \in UserIds : users'[id].email = users[id].email
                             /\ users'[id].cluster = users[id].cluster
      BY <1>0, <2>8 DEF SetPwdCommit, TypeOK, Row
    <3>3. Pending' = Pending
      BY <1>0, <3>1, PendingKept DEF Done, Idle
    <3>4. b \in Browsers
      BY <3>0, <3>1 DEF Addressed
    <3>5. R!SignOut(b)
      BY <3>1, <3>2, <3>3 DEF R!SignOut, Pool
    <3> QED BY <3>4, <3>5 DEF R!Next
  <2>9. ASSUME NEW b \in Browsers, Logout(w, b) PROVE R!Next
    <3>1. R!SignOut(b)
      BY <2>9 DEF Logout, R!SignOut, Pool, Pending
    <3> QED BY <3>1 DEF R!Next
  <2> QED BY <1>1, <2>1, <2>2, <2>3, <2>4, <2>5, <2>6, <2>7, <2>8, <2>9 DEF Visitor
<1>2. ASSUME NEW w \in Workers, AdminPages(w) PROVE R!Next \/ UNCHANGED R!vars
  <2>1. ASSUME NEW b \in Browsers, NEW u \in UserIds, UserDelete(w, b, u) PROVE R!Next
    <3>1. \A id \in UserIds : /\ users'[id].email = IF id = u THEN None ELSE users[id].email
                             /\ users'[id].cluster = IF id = u THEN 0 ELSE users[id].cluster
      BY <1>0, <2>1 DEF UserDelete, TypeOK, NoRow
    <3>2. UNCHANGED <<nextUserId, session, Pool, Pending>>
      BY <2>1 DEF UserDelete, Pool, Pending
    <3>3. R!Remove(u)
      BY <3>1, <3>2 DEF R!Remove
    <3> QED BY <3>3 DEF R!Next
  <2>2. ASSUME NEW b \in Browsers, NEW id \in UserIds, ResetUserStart(w, b, id)
        PROVE  UNCHANGED R!vars
    <3> DEFINE r == [Idle EXCEPT !.op = "resetuser", !.uid = id, !.row = users[id], !.pwd = regCode]
    <3>1. r.op = "resetuser" /\ req' = [req EXCEPT ![w] = r] /\ req[w].op = "idle"
      BY <2>2 DEF ResetUserStart, Holds, Idle, Free
    <3> HIDE DEF r
    <3>2. Pending' = Pending
      BY <1>0, <3>1, PendingKept
    <3> QED BY <2>2, <3>2, MapStutter DEF ResetUserStart
  <2>3. ASSUME NEW b \in Browsers, NEW c \in ClusterIds, ClusterDeleteStart(w, b, c)
        PROVE  UNCHANGED R!vars
    <3> DEFINE r == [Idle EXCEPT !.op = "dropcluster", !.cluster = c, !.deps = UsersOn(c)]
    <3>1. r.op = "dropcluster" /\ req' = [req EXCEPT ![w] = r] /\ req[w].op = "idle"
      BY <2>3 DEF ClusterDeleteStart, Holds, Idle, Free
    <3> HIDE DEF r
    <3>2. Pending' = Pending
      BY <1>0, <3>1, PendingKept
    <3> QED BY <2>3, <3>2, MapStutter DEF ClusterDeleteStart
  <2>4. CASE ResetUserCommit(w)
    <3>1. \A id \in UserIds : users'[id].email = users[id].email
                             /\ users'[id].cluster = users[id].cluster
      BY <1>0, <2>4 DEF ResetUserCommit, TypeOK, Row
    <3>2. Pending' = Pending
      BY <1>0, <2>4, PendingKept DEF ResetUserCommit, Done, Idle
    <3> QED BY <2>4, <3>1, <3>2, MapColumns DEF ResetUserCommit
  <2>5. CASE ClusterDeleteCommit(w)
    <3>0. PICK c, S : c = req[w].cluster /\ S = req[w].deps
      OBVIOUS
    <3>1. /\ req[w].op = "dropcluster" /\ UNCHANGED <<nextUserId, session>> /\ Done(w)
          /\ UsersOn(c) \subseteq S
          /\ \A d \in ClusterIds : clusters'[d] = IF d = c THEN None ELSE clusters[d]
      BY <1>0, <2>5, <3>0 DEF ClusterDeleteCommit, TypeOK
    <3>2. c \in ClusterIds /\ S \in SUBSET UserIds
      BY <1>0, <3>0, <3>1 DEF Addressed, TypeOK, Request
    <3>3. Pending' = Pending
      BY <1>0, <3>1, PendingKept DEF Done, Idle
    <3>4. ASSUME NEW id \in UserIds
          PROVE  /\ users'[id].email = users[id].email
                 /\ users'[id].cluster = IF id \in S THEN 0 ELSE users[id].cluster
      <4>1. users[id] \in Row
        BY <1>0 DEF TypeOK
      <4>2. users'[id] = IF id \in S THEN [users[id] EXCEPT !.cluster = 0] ELSE users[id]
        BY <2>5, <3>0 DEF ClusterDeleteCommit
      <4> QED BY <4>1, <4>2 DEF Row
    <3>5. \A id \in UserIds : users[id].cluster = c => id \in S
      <4> SUFFICES ASSUME NEW id \in UserIds, users[id].cluster = c PROVE id \in S
        OBVIOUS
      <4>1. c # 0
        BY <3>2 DEF ClusterIds
      <4>2. Exists(id)
        BY <1>0, <4>1 DEF Sound, Blank, NoRow
      <4> QED BY <3>1, <4>2 DEF UsersOn
    <3>6. Pool' = Pool \ {c}
      BY <3>1 DEF Pool
    <3>7. R!Retire(c, S)
      BY <3>1, <3>3, <3>4, <3>5, <3>6 DEF R!Retire
    <3> QED BY <3>2, <3>7 DEF R!Next
  <2> QED BY <1>2, <2>1, <2>2, <2>3, <2>4, <2>5 DEF AdminPages
<1>3. ASSUME NEW w \in Workers, RestApi(w) PROVE R!Next \/ UNCHANGED R!vars
  <2>1. ASSUME NEW e \in Emails, NEW p \in OwnPwds, CreateAdminStart(w, e, p)
        PROVE  UNCHANGED R!vars
    <3>1. PICK id \in (IF UsersWith(e) = {} THEN {0} ELSE UsersWith(e)) :
            Holds(w, [Idle EXCEPT !.op = "mkadmin", !.uid = id, !.pwd = p,
                                  !.row = [NoRow EXCEPT !.email = e, !.admin = TRUE, !.pwd = p]])
      BY <2>1 DEF CreateAdminStart
    <3> DEFINE r == [Idle EXCEPT !.op = "mkadmin", !.uid = id, !.pwd = p,
                                 !.row = [NoRow EXCEPT !.email = e, !.admin = TRUE, !.pwd = p]]
    <3>2. r.op = "mkadmin" /\ req' = [req EXCEPT ![w] = r] /\ req[w].op = "idle"
      BY <2>1, <3>1 DEF CreateAdminStart, Holds, Idle, Free
    <3> HIDE DEF r
    <3>3. Pending' = Pending
      BY <1>0, <3>2, PendingKept
    <3> QED BY <2>1, <3>3, MapStutter DEF CreateAdminStart
  <2>2. CASE PromoteCommit(w)
    <3>1. \A id \in UserIds : users'[id].email = users[id].email
                             /\ users'[id].cluster = users[id].cluster
      BY <1>0, <2>2 DEF PromoteCommit, TypeOK, Row
    <3>2. Pending' = Pending
      BY <1>0, <2>2, PendingKept DEF PromoteCommit, Done, Idle
    <3> QED BY <2>2, <3>1, <3>2, MapColumns DEF PromoteCommit
  <2>3. CASE InsertAdminCommit(w)
    <3>0. PICK n, r : n = nextUserId /\ r = req[w].row
      OBVIOUS
    <3>1. /\ req[w].op = "mkadmin" /\ req[w].uid = 0 /\ EmailFree(r.email) /\ Done(w)
          /\ users' = [users EXCEPT ![n] = r] /\ nextUserId' = n + 1
          /\ UNCHANGED <<clusters, session>> /\ n <= MaxUserId
      BY <2>3, <3>0 DEF InsertAdminCommit, FreshUserId
    <3>2. n \in UserIds /\ n \in Nat /\ n > 0 /\ r \in Row
      <4>1. n \in 1..(MaxUserId + 1) /\ r \in Row
        BY <1>0, <3>0 DEF TypeOK, Request
      <4> QED BY <3>1, <4>1, IdBounds DEF UserIds
    <3>3. /\ ~Exists(n) /\ r.email # None /\ r.cluster = 0 /\ UsersWith(r.email) = {}
      BY <1>0, <3>0, <3>1, <3>2 DEF Sound, Numbered, RequestsOk, RequestOk, EmailFree
    <3>4. Pending' = Pending
      BY <1>0, <3>1, PendingKept DEF Done, Idle
    <3>5. n \notin Pending
      BY <3>0, <3>2, PendingIds
    <3>6. (1..(nextUserId' - 1)) \ Pending' = ((1..(nextUserId - 1)) \ Pending) \cup {n}
      BY <3>0, <3>1, <3>2, <3>4, <3>5
    <3>7. n \notin (1..(nextUserId - 1)) \ Pending
      BY <3>0, <3>2
    <3> QED BY <3>1, <3>2, <3>3, <3>6, <3>7, MapInsert
  <2>4. ASSUME NEW h \in Hosts, AddCluster(w, h) PROVE R!Next
    <3>0. PICK n : n = nextClusterId
      OBVIOUS
    <3>1. n \in ClusterIds
      <4>1. n \in 1..(MaxClusterId + 1) /\ n <= MaxClusterId
        BY <1>0, <2>4, <3>0 DEF AddCluster, TypeOK
      <4> QED BY <4>1, IdBounds DEF ClusterIds
    <3>2. \A d \in ClusterIds : clusters'[d] = IF d = n THEN h ELSE clusters[d]
      BY <1>0, <2>4, <3>0 DEF AddCluster, TypeOK
    <3>3. Pool' = Pool \cup {n}
      BY <3>1, <3>2, NoneIsNull DEF Pool
    <3>4. R!Provide(n)
      BY <2>4, <3>3 DEF AddCluster, R!Provide, Pending
    <3> QED BY <3>1, <3>4 DEF R!Next
  <2>5. ASSUME NEW code \in Codes \cup {None}, SetRegCode(w, code) PROVE UNCHANGED R!vars
    BY <2>5, MapStutter DEF SetRegCode, Pending
  <2> QED BY <1>3, <2>1, <2>2, <2>3, <2>4, <2>5 DEF RestApi
<1>4. ASSUME NEW w \in Workers, Rollback(w) PROVE R!Next \/ UNCHANGED R!vars
  <2>1. UNCHANGED <<users, nextUserId, clusters, session>> /\ Done(w)
    BY <1>4 DEF Rollback
  <2>2. CASE req[w].op # "register"
    <3>1. Pending' = Pending
      BY <1>0, <2>1, <2>2, PendingKept DEF Done, Idle
    <3> QED BY <2>1, <3>1, MapStutter
  <2>3. CASE req[w].op = "register"
    <3>0. PICK u : u = req[w].uid
      OBVIOUS
    <3>1. Pending' = Pending \ {u} /\ u \in Pending
      BY <2>1, <2>3, <3>0, PendingDropped DEF Pending
    <3>2. u \in UserIds /\ ~Exists(u) /\ u < nextUserId
      BY <3>1, PendingIds
    <3>3. u \in 1..(nextUserId - 1)
      BY <1>0, <3>2, IdsAreNat DEF UserIds
    <3>4. (1..(nextUserId' - 1)) \ Pending' = ((1..(nextUserId - 1)) \ Pending) \cup {u}
      BY <2>1, <3>1, <3>3
    <3>5. R!Burn({u})
      BY <2>1, <3>2, <3>4 DEF R!Burn, R!Members, Exists, Pool
    <3> QED BY <3>2, <3>5 DEF R!Next
  <2> QED BY <2>2, <2>3
<1> QED BY <1>1, <1>2, <1>3, <1>4 DEF Next

\* Whatever the workers interleave, the tables change by Registry's indivisible
\* operations only.
THEOREM RegistryImplemented == Spec => RegistryRefined
<1>1. Spec => []Addressed
  <2>1. Init => Addressed
    BY AddressedInit
  <2> QED BY <2>1, AddressedNext, TypeCorrect, PTL DEF Spec
<1> QED BY <1>1, MapInit, MapNext, InvariantHolds, PTL DEF Spec, RegistryRefined, R!Spec
=============================================================================
