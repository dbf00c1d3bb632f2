------------------------- MODULE WebServerSerialProofs -------------------------
(***************************************************************************)
(* What the handlers keep when requests do not overlap, for histories of    *)
(* any length: a cluster for one user, one admin, a cluster with the first  *)
(* login, and the same cluster ever after.  With a single worker what a     *)
(* request has read is still so when it commits; that is all these          *)
(* promises rest on, and with two workers it is not so.                     *)
(***************************************************************************)
EXTENDS WebServerProofs

OneAtATime == \A v, w \in Workers : v = w

-----------------------------------------------------------------------------
(* The inductive invariant: what a request saw is still so.                *)

LoginSaw(r) ==
  /\ r.uid \in UserIds
  /\ r.at # "commit" \/ r.cluster # 0 => users[r.uid].cluster = 0
  /\ r.at = "commit" /\ r.cluster = 0 => users[r.uid].cluster # 0 \/ Pool \subseteq Assigned

RegisterSaw(r) ==
  /\ ~r.row.admin
  /\ r.at = "commit" /\ r.cluster = 0 => Pool \subseteq Assigned

\* A request that chooses a cluster knows all that are taken.
ChoiceSaw(r) ==
  /\ r.at = "pick" => r.taken = Assigned
  /\ r.cluster # 0 => r.cluster \notin Assigned

Saw(r) ==
  /\ r.op = "login" => LoginSaw(r)
  /\ r.op = "register" => RegisterSaw(r)
  /\ r.op \in {"login", "register"} => ChoiceSaw(r)
  /\ r.op = "mkadmin" => Admins = {}
  /\ r.op = "dropcluster" => \A id \in r.deps : users[id].cluster = r.cluster

Serial == \A w \in Workers : Saw(req[w])

SerialInv == IInv /\ Serial /\ ExclusiveCluster /\ SingleAdmin

-----------------------------------------------------------------------------
LEMMA IdleSaw == Saw(Idle)
BY DEF Saw, Idle

LEMMA SerialInit == Init => SerialInv
<1> SUFFICES ASSUME Init PROVE SerialInv
  OBVIOUS
<1>1. IInv
  BY TypeInit, SoundInit DEF IInv
<1>2. Serial
  BY IdleSaw DEF Init, Serial
<1>3. ExclusiveCluster /\ SingleAdmin
  BY DEF Init, ExclusiveCluster, SingleAdmin, Admins, Exists, NoRow
<1> QED
  BY <1>1, <1>2, <1>3 DEF SerialInv

\* A request that reads on, and has seen the tables as they are.
LEMMA ReadStep ==
  ASSUME OneAtATime, SerialInv, NEW w \in Workers, NEW r, Saw(r),
         req' = [req EXCEPT ![w] = r], UNCHANGED <<users, clusters>>
  PROVE  (Serial /\ ExclusiveCluster /\ SingleAdmin)'
<1>1. \A v \in Workers : req'[v] = r
  BY DEF OneAtATime, SerialInv, IInv, TypeOK
<1>2. Assigned' = Assigned /\ Pool' = Pool /\ Admins' = Admins
  BY DEF Assigned, Pool, Admins, Exists
<1>3. Serial'
  BY <1>1, <1>2 DEF Serial, Saw, LoginSaw, RegisterSaw, ChoiceSaw
<1>4. ExclusiveCluster' /\ SingleAdmin'
  BY <1>2 DEF SerialInv, ExclusiveCluster, SingleAdmin
<1> QED
  BY <1>3, <1>4

\* After a step that leaves no request under way only the tables matter.
LEMMA QuietStep ==
  ASSUME OneAtATime, SerialInv, NEW w \in Workers, Done(w) \/ (Free(w) /\ UNCHANGED req)
  PROVE  Serial'
<1>1. CASE Done(w)
  <2>1. \A v \in Workers : req'[v] = Idle
    BY <1>1 DEF Done, OneAtATime, SerialInv, IInv, TypeOK
  <2> QED
    BY <2>1 DEF Serial, Saw, Idle
<1>2. CASE Free(w) /\ UNCHANGED req
  <2>1. \A v \in Workers : req'[v].op = "idle"
    BY <1>2 DEF Free, OneAtATime
  <2> QED
    BY <2>1 DEF Serial, Saw
<1> QED
  BY <1>1, <1>2

\* No new user of a cluster and no new admin: the table keeps both promises.
LEMMA FewerStep ==
  ASSUME SerialInv,
         \A id \in UserIds : /\ users'[id].cluster \in {users[id].cluster, 0}
                             /\ Exists(id)' /\ users'[id].admin => Exists(id) /\ users[id].admin
  PROVE  (ExclusiveCluster /\ SingleAdmin)'
<1>1. ExclusiveCluster'
  BY DEF SerialInv, ExclusiveCluster
<1>2. Admins' \subseteq Admins
  BY DEF Admins
<1> QED
  BY <1>1, <1>2 DEF SerialInv, SingleAdmin

\* One row changes: it may get a cluster nobody has, or become the first admin.
LEMMA OneRowStep ==
  ASSUME SerialInv, NEW u \in UserIds,
         \A id \in UserIds \ {u} : users'[id] = users[id],
         users'[u].cluster \in {0, users[u].cluster} \/ users'[u].cluster \notin Assigned,
         \/ Exists(u)' /\ users'[u].admin => Exists(u) /\ users[u].admin
         \/ Admins = {}
  PROVE  (ExclusiveCluster /\ SingleAdmin)'
<1>1. ASSUME NEW i \in UserIds, NEW j \in UserIds,
             users'[i].cluster # 0, users'[i].cluster = users'[j].cluster
      PROVE  i = j
  <2>1. CASE i # u /\ j # u
    BY <1>1, <2>1 DEF SerialInv, ExclusiveCluster
  <2>2. CASE i = u /\ j # u
    <3>1. users'[u].cluster \in Assigned
      BY <1>1, <2>2 DEF Assigned
    <3> QED
      BY <1>1, <2>2, <3>1 DEF SerialInv, ExclusiveCluster
  <2>3. CASE i # u /\ j = u
    <3>1. users'[u].cluster \in Assigned
      BY <1>1, <2>3 DEF Assigned
    <3> QED
      BY <1>1, <2>3, <3>1 DEF SerialInv, ExclusiveCluster
  <2> QED
    BY <2>1, <2>2, <2>3
<1>2. Admins' \subseteq Admins \/ Admins' \subseteq {u}
  BY DEF Admins, Exists
<1> QED
  BY <1>1, <1>2 DEF ExclusiveCluster, SingleAdmin, SerialInv

-----------------------------------------------------------------------------
(* The handlers.                                                           *)

LEMMA ChoosingStep ==
  ASSUME OneAtATime, SerialInv, NEW w \in Workers,
         \/ \E b \in Browsers, e \in Emails, ip \in Ips, p \in Hashes : LoginStart(w, b, e, p, ip)
         \/ \E b \in Browsers, e \in Emails, ip \in Ips, p \in OwnPwds : RegisterStart(w, b, e, p, ip)
         \/ ReadTaken(w) \/ PickCluster(w)
  PROVE  (Serial /\ ExclusiveCluster /\ SingleAdmin)'
<1>1. ASSUME NEW b \in Browsers, NEW e \in Emails, NEW ip \in Ips, NEW p \in Hashes,
             LoginStart(w, b, e, p, ip)
      PROVE  (Serial /\ ExclusiveCluster /\ SingleAdmin)'
  <2>1. PICK id \in UsersWith(e) :
          Holds(w, [Idle EXCEPT !.op = "login", !.browser = b, !.uid = id,
                                !.row = users[id], !.ip = ip,
                                !.at = IF users[id].cluster = 0 THEN "taken" ELSE "commit"])
    BY <1>1 DEF LoginStart
  <2> DEFINE r == [Idle EXCEPT !.op = "login", !.browser = b, !.uid = id,
                               !.row = users[id], !.ip = ip,
                               !.at = IF users[id].cluster = 0 THEN "taken" ELSE "commit"]
  <2>2. /\ r.op = "login" /\ r.uid = id /\ r.cluster = 0
        /\ r.at = IF users[id].cluster = 0 THEN "taken" ELSE "commit"
    BY DEF Idle
  <2>3. id \in UserIds
    BY DEF UsersWith
  <2>4. Saw(r)
    <3> HIDE DEF r
    <3> QED
      BY <2>2, <2>3 DEF Saw, LoginSaw, ChoiceSaw
  <2>5. req' = [req EXCEPT ![w] = r] /\ UNCHANGED <<users, clusters>>
    BY <1>1, <2>1 DEF LoginStart, Holds
  <2> HIDE DEF r
  <2> QED
    BY <2>4, <2>5, ReadStep
<1>2. ASSUME NEW b \in Browsers, NEW e \in Emails, NEW ip \in Ips, NEW p \in OwnPwds,
             RegisterStart(w, b, e, p, ip)
      PROVE  (Serial /\ ExclusiveCluster /\ SingleAdmin)'
  <2> DEFINE row == [NoRow EXCEPT !.email = e, !.pwd = p, !.ip = ip]
             r == [Idle EXCEPT !.op = "register", !.browser = b, !.uid = FreshUserId,
                               !.row = row, !.taken = Assigned, !.at = "pick"]
  <2>1. row.admin = FALSE
    BY DEF NoRow
  <2>2. r.op = "register" /\ r.row = row /\ r.cluster = 0 /\ r.at = "pick" /\ r.taken = Assigned
    BY DEF Idle
  <2>3. req' = [req EXCEPT ![w] = r] /\ UNCHANGED <<users, clusters>>
    BY <1>2 DEF RegisterStart, Holds
  <2> HIDE DEF r, row
  <2>4. Saw(r)
    BY <2>1, <2>2 DEF Saw, RegisterSaw, ChoiceSaw
  <2> QED
    BY <2>3, <2>4, ReadStep
<1>3. ASSUME ReadTaken(w) PROVE (Serial /\ ExclusiveCluster /\ SingleAdmin)'
  <2> DEFINE r == [req[w] EXCEPT !.taken = Assigned, !.at = "pick"]
  <2>1. req[w] \in Request /\ Saw(req[w])
    BY DEF SerialInv, IInv, TypeOK, Serial
  <2>2. req[w].op \in {"login", "register"} /\ req[w].at = "taken"
    BY <1>3 DEF ReadTaken
  <2>3. /\ r.op = req[w].op /\ r.uid = req[w].uid /\ r.row = req[w].row
        /\ r.cluster = req[w].cluster /\ r.at = "pick" /\ r.taken = Assigned
    BY <2>1 DEF Request
  <2>4. req' = [req EXCEPT ![w] = r] /\ UNCHANGED <<users, clusters>>
    BY <1>3 DEF ReadTaken, Holds
  <2> HIDE DEF r
  <2>5. Saw(r)
    BY <2>1, <2>2, <2>3 DEF Saw, LoginSaw, RegisterSaw, ChoiceSaw
  <2> QED
    BY <2>4, <2>5, ReadStep
<1>4. ASSUME PickCluster(w) PROVE (Serial /\ ExclusiveCluster /\ SingleAdmin)'
  <2>1. PICK c \in Candidates(w) : Holds(w, [req[w] EXCEPT !.cluster = c, !.at = "commit"])
    BY <1>4 DEF PickCluster
  <2> DEFINE r == [req[w] EXCEPT !.cluster = c, !.at = "commit"]
  <2>2. req[w] \in Request /\ Saw(req[w])
    BY DEF SerialInv, IInv, TypeOK, Serial
  <2>3. req[w].op \in {"login", "register"} /\ req[w].at = "pick"
    BY <1>4 DEF PickCluster
  <2>4. /\ r.op = req[w].op /\ r.uid = req[w].uid /\ r.row = req[w].row
        /\ r.cluster = c /\ r.at = "commit"
    BY <2>2 DEF Request
  <2>5. req' = [req EXCEPT ![w] = r] /\ UNCHANGED <<users, clusters>>
    BY <1>4, <2>1 DEF PickCluster, Holds
  <2>6. req[w].taken = Assigned
    BY <2>2, <2>3 DEF Saw, ChoiceSaw
  <2>7. \/ c = 0 /\ Pool \subseteq Assigned
        \/ c # 0 /\ c \notin Assigned
    BY <2>6, IdBounds DEF Candidates, Pool, ClusterIds
  <2>8. req[w].op = "login" => req[w].uid \in UserIds /\ users[req[w].uid].cluster = 0
    BY <2>2, <2>3 DEF Saw, LoginSaw
  <2>9. req[w].op = "register" => ~req[w].row.admin
    BY <2>2 DEF Saw, RegisterSaw
  <2> HIDE DEF r
  <2>10. Saw(r)
    BY <2>3, <2>4, <2>7, <2>8, <2>9 DEF Saw, LoginSaw, RegisterSaw, ChoiceSaw
  <2> QED
    BY <2>5, <2>10, ReadStep
<1> QED
  BY <1>1, <1>2, <1>3, <1>4

LEMMA LoginCommits ==
  ASSUME SerialInv, NEW w \in Workers, LoginCommit(w)
  PROVE  LET u == req[w].uid
             c == req[w].cluster IN
         /\ u \in UserIds /\ Exists(u) /\ (c # 0 => c \notin Assigned /\ users[u].cluster = 0)
         /\ c = 0 => users[u].cluster # 0 \/ Pool \subseteq Assigned
         /\ users'[u].cluster = IF c # 0 THEN c ELSE users[u].cluster
         /\ users'[u].admin = users[u].admin /\ users'[u].email = users[u].email
         /\ \A id \in UserIds \ {u} : users'[id] = users[id]
<1> DEFINE r == req[w]
           u == r.uid
           c == r.cluster
           i == IF r.ip # r.row.ip THEN r.ip ELSE users[u].ip
<1>1. Saw(r) /\ r.op = "login" /\ r.at = "commit" /\ Exists(u)
  BY DEF SerialInv, Serial, LoginCommit
<1>2. /\ u \in UserIds /\ (c # 0 => c \notin Assigned /\ users[u].cluster = 0)
      /\ c = 0 => users[u].cluster # 0 \/ Pool \subseteq Assigned
  BY <1>1 DEF Saw, LoginSaw, ChoiceSaw
<1>3. users \in [UserIds -> Row]
  BY DEF SerialInv, IInv, TypeOK
<1>4. users' = [users EXCEPT ![u].cluster = IF c # 0 THEN c ELSE @,
                             ![u].ip = IF r.ip # r.row.ip THEN r.ip ELSE @]
  BY DEF LoginCommit
<1>5. users[u] \in Row
  BY <1>2, <1>3
<1>6. /\ users'[u].cluster = IF c # 0 THEN c ELSE users[u].cluster
      /\ users'[u].admin = users[u].admin /\ users'[u].email = users[u].email
  <2> HIDE DEF u, c
  <2> QED
    BY <1>2, <1>3, <1>4, <1>5 DEF Row
<1>7. \A id \in UserIds \ {u} : users'[id] = users[id]
  <2> HIDE DEF u, c
  <2> QED
    BY <1>3, <1>4
<1> QED
  BY <1>1, <1>2, <1>6, <1>7

LEMMA RegisterCommits ==
  ASSUME SerialInv, NEW w \in Workers, RegisterCommit(w)
  PROVE  LET u == req[w].uid
             c == req[w].cluster IN
         /\ u \in UserIds /\ ~Exists(u) /\ users[u].cluster = 0
         /\ (c # 0 => c \notin Assigned) /\ (c = 0 => Pool \subseteq Assigned)
         /\ users'[u].cluster = c /\ ~users'[u].admin
         /\ \A id \in UserIds \ {u} : users'[id] = users[id]
<1> DEFINE r == req[w]
           u == r.uid
           c == r.cluster
<1>1. Saw(r) /\ r.op = "register" /\ r.at = "commit"
  BY DEF SerialInv, Serial, RegisterCommit
<1>2. u \in UserIds /\ ~Exists(u)
  BY <1>1 DEF SerialInv, IInv, Sound, RequestsOk, RequestOk
<1>3. users[u].cluster = 0
  BY <1>2 DEF SerialInv, IInv, Sound, Blank, NoRow
<1>4. (c # 0 => c \notin Assigned) /\ (c = 0 => Pool \subseteq Assigned) /\ ~r.row.admin
  BY <1>1 DEF Saw, RegisterSaw, ChoiceSaw
<1>5. users \in [UserIds -> Row] /\ r.row \in Row
  BY DEF SerialInv, IInv, TypeOK, Request
<1>6. users' = [users EXCEPT ![u] = [r.row EXCEPT !.cluster = c]]
  BY DEF RegisterCommit
<1>7. users'[u].cluster = c /\ users'[u].admin = r.row.admin
  <2> HIDE DEF u, c, r
  <2> QED
    BY <1>2, <1>5, <1>6 DEF Row
<1>8. \A id \in UserIds \ {u} : users'[id] = users[id]
  <2> HIDE DEF u, c, r
  <2> QED
    BY <1>5, <1>6
<1> QED
  BY <1>2, <1>3, <1>4, <1>7, <1>8

LEMMA SessionStep ==
  ASSUME OneAtATime, SerialInv, NEW w \in Workers, LoginCommit(w) \/ RegisterCommit(w)
  PROVE  (Serial /\ ExclusiveCluster /\ SingleAdmin)'
<1>1. Done(w)
  BY DEF LoginCommit, RegisterCommit
<1>2. Serial'
  BY <1>1, QuietStep
<1>3. PICK u \in UserIds : u = req[w].uid
  BY LoginCommits, RegisterCommits
<1>4. /\ \A id \in UserIds \ {u} : users'[id] = users[id]
      /\ users'[u].cluster \in {0, users[u].cluster} \/ users'[u].cluster \notin Assigned
      /\ Exists(u)' /\ users'[u].admin => Exists(u) /\ users[u].admin
  <2>1. CASE LoginCommit(w)
    BY <1>3, <2>1, LoginCommits DEF Exists
  <2>2. CASE RegisterCommit(w)
    BY <1>3, <2>2, RegisterCommits
  <2> QED
    BY <2>1, <2>2
<1>5. (ExclusiveCluster /\ SingleAdmin)'
  BY <1>4, OneRowStep
<1> QED
  BY <1>2, <1>5

\* Passwords, roles and names change: nobody gets a cluster.
LEMMA PasswordStep ==
  ASSUME OneAtATime, SerialInv, NEW w \in Workers,
         \/ \E b \in Browsers, e \in Emails, p \in OwnPwds : SetPwdStart(w, b, e, p)
         \/ \E b \in Browsers, id \in UserIds : ResetUserStart(w, b, id)
         \/ SetPwdCommit(w) \/ ResetUserCommit(w)
  PROVE  (Serial /\ ExclusiveCluster /\ SingleAdmin)'
<1>1. ASSUME NEW b \in Browsers, NEW e \in Emails, NEW p \in OwnPwds, SetPwdStart(w, b, e, p)
      PROVE  (Serial /\ ExclusiveCluster /\ SingleAdmin)'
  <2>1. PICK id \in UsersWith(e) :
          Holds(w, [Idle EXCEPT !.op = "setpwd", !.browser = b, !.uid = id,
                                !.row = users[id], !.pwd = p])
    BY <1>1 DEF SetPwdStart
  <2> DEFINE r == [Idle EXCEPT !.op = "setpwd", !.browser = b, !.uid = id,
                               !.row = users[id], !.pwd = p]
  <2>2. r.op = "setpwd"
    BY DEF Idle
  <2>3. req' = [req EXCEPT ![w] = r] /\ UNCHANGED <<users, clusters>>
    BY <1>1, <2>1 DEF SetPwdStart, Holds
  <2> HIDE DEF r
  <2>4. Saw(r)
    BY <2>2 DEF Saw
  <2> QED
    BY <2>3, <2>4, ReadStep
<1>2. ASSUME NEW b \in Browsers, NEW id \in UserIds, ResetUserStart(w, b, id)
      PROVE  (Serial /\ ExclusiveCluster /\ SingleAdmin)'
  <2> DEFINE r == [Idle EXCEPT !.op = "resetuser", !.uid = id, !.row = users[id], !.pwd = regCode]
  <2>1. r.op = "resetuser"
    BY DEF Idle
  <2>2. req' = [req EXCEPT ![w] = r] /\ UNCHANGED <<users, clusters>>
    BY <1>2 DEF ResetUserStart, Holds
  <2> HIDE DEF r
  <2>3. Saw(r)
    BY <2>1 DEF Saw
  <2> QED
    BY <2>2, <2>3, ReadStep
<1>3. ASSUME SetPwdCommit(w) \/ ResetUserCommit(w)
      PROVE  (Serial /\ ExclusiveCluster /\ SingleAdmin)'
  <2>1. Serial'
    BY <1>3, QuietStep DEF SetPwdCommit, ResetUserCommit
  <2>2. users \in [UserIds -> Row]
    BY DEF SerialInv, IInv, TypeOK
  <2>3. PICK p, f : users' = [users EXCEPT ![req[w].uid].pwd = p, ![req[w].uid].force = f]
    BY <1>3 DEF SetPwdCommit, ResetUserCommit
  <2>4. ASSUME NEW id \in UserIds
        PROVE  users'[id].cluster = users[id].cluster /\ users'[id].admin = users[id].admin
               /\ users'[id].email = users[id].email
    BY <2>2, <2>3 DEF Row
  <2>5. (ExclusiveCluster /\ SingleAdmin)'
    BY <2>4, FewerStep DEF Exists
  <2> QED
    BY <2>1, <2>5
<1> QED
  BY <1>1, <1>2, <1>3

LEMMA DropCommits ==
  ASSUME SerialInv, NEW w \in Workers, ClusterDeleteCommit(w), NEW id \in UserIds
  PROVE  /\ users'[id].admin = users[id].admin /\ users'[id].email = users[id].email
         /\ \/ users'[id].cluster = users[id].cluster
            \/ users'[id].cluster = 0 /\ users[id].cluster = req[w].cluster
<1>1. users[id] \in Row /\ Saw(req[w])
  BY DEF SerialInv, IInv, TypeOK, Serial
<1>2. users'[id] = IF id \in req[w].deps THEN [users[id] EXCEPT !.cluster = 0] ELSE users[id]
  BY DEF ClusterDeleteCommit
<1>3. id \in req[w].deps => users[id].cluster = req[w].cluster
  BY <1>1 DEF Saw, ClusterDeleteCommit
<1> QED
  BY <1>1, <1>2, <1>3 DEF Row

LEMMA DeleteStep ==
  ASSUME OneAtATime, SerialInv, NEW w \in Workers,
         \/ \E b \in Browsers, id \in UserIds : UserDelete(w, b, id)
         \/ \E b \in Browsers, c \in ClusterIds : ClusterDeleteStart(w, b, c)
         \/ ClusterDeleteCommit(w)
  PROVE  (Serial /\ ExclusiveCluster /\ SingleAdmin)'
<1>1. ASSUME NEW b \in Browsers, NEW u \in UserIds, UserDelete(w, b, u)
      PROVE  (Serial /\ ExclusiveCluster /\ SingleAdmin)'
  <2>1. Serial'
    BY <1>1, QuietStep DEF UserDelete
  <2>2. \A id \in UserIds : users'[id] = IF id = u THEN NoRow ELSE users[id]
    BY <1>1 DEF UserDelete, SerialInv, IInv, TypeOK
  <2>3. (ExclusiveCluster /\ SingleAdmin)'
    BY <2>2, FewerStep DEF Exists, NoRow
  <2> QED
    BY <2>1, <2>3
<1>2. ASSUME NEW b \in Browsers, NEW c \in ClusterIds, ClusterDeleteStart(w, b, c)
      PROVE  (Serial /\ ExclusiveCluster /\ SingleAdmin)'
  <2> DEFINE r == [Idle EXCEPT !.op = "dropcluster", !.cluster = c, !.deps = UsersOn(c)]
  <2>1. r.op = "dropcluster" /\ r.cluster = c /\ r.deps = UsersOn(c)
    BY DEF Idle
  <2>2. req' = [req EXCEPT ![w] = r] /\ UNCHANGED <<users, clusters>>
    BY <1>2 DEF ClusterDeleteStart, Holds
  <2> HIDE DEF r
  <2>3. Saw(r)
    BY <2>1 DEF Saw, UsersOn
  <2> QED
    BY <2>2, <2>3, ReadStep
<1>3. ASSUME ClusterDeleteCommit(w) PROVE (Serial /\ ExclusiveCluster /\ SingleAdmin)'
  <2>1. Serial'
    BY <1>3, QuietStep DEF ClusterDeleteCommit
  <2>2. (ExclusiveCluster /\ SingleAdmin)'
    BY <1>3, DropCommits, FewerStep DEF Exists
  <2> QED
    BY <2>1, <2>2
<1> QED
  BY <1>1, <1>2, <1>3

LEMMA AdminStep ==
  ASSUME OneAtATime, SerialInv, NEW w \in Workers,
         \/ \E e \in Emails, p \in OwnPwds : CreateAdminStart(w, e, p)
         \/ PromoteCommit(w) \/ InsertAdminCommit(w)
  PROVE  (Serial /\ ExclusiveCluster /\ SingleAdmin)'
<1>1. ASSUME NEW e \in Emails, NEW p \in OwnPwds, CreateAdminStart(w, e, p)
      PROVE  (Serial /\ ExclusiveCluster /\ SingleAdmin)'
  <2> DEFINE row == [NoRow EXCEPT !.email = e, !.admin = TRUE, !.pwd = p]
  <2>1. PICK id \in (IF UsersWith(e) = {} THEN {0} ELSE UsersWith(e)) :
          Holds(w, [Idle EXCEPT !.op = "mkadmin", !.uid = id, !.pwd = p, !.row = row])
    BY <1>1 DEF CreateAdminStart
  <2> DEFINE r == [Idle EXCEPT !.op = "mkadmin", !.uid = id, !.pwd = p, !.row = row]
  <2>2. r.op = "mkadmin"
    BY DEF Idle
  <2>3. req' = [req EXCEPT ![w] = r] /\ UNCHANGED <<users, clusters>> /\ Admins = {}
    BY <1>1, <2>1 DEF CreateAdminStart, Holds
  <2> HIDE DEF r
  <2>4. Saw(r)
    BY <2>2, <2>3 DEF Saw
  <2> QED
    BY <2>3, <2>4, ReadStep
<1>2. ASSUME PromoteCommit(w) PROVE (Serial /\ ExclusiveCluster /\ SingleAdmin)'
  <2>1. Serial'
    BY <1>2, QuietStep DEF PromoteCommit
  <2>2. Admins = {}
    BY <1>2 DEF PromoteCommit, SerialInv, Serial, Saw
  <2>3. users \in [UserIds -> Row] /\ req[w].uid \in UserIds
    BY <1>2 DEF PromoteCommit, SerialInv, IInv, TypeOK, Request
  <2>4. PICK u \in UserIds : u = req[w].uid
    BY <2>3
  <2>5. users' = [users EXCEPT ![u].admin = TRUE, ![u].pwd = req[w].pwd]
    BY <1>2, <2>4 DEF PromoteCommit
  <2>6. users'[u].cluster = users[u].cluster /\ \A id \in UserIds \ {u} : users'[id] = users[id]
    BY <2>3, <2>5 DEF Row
  <2>7. (ExclusiveCluster /\ SingleAdmin)'
    BY <2>2, <2>6, OneRowStep
  <2> QED
    BY <2>1, <2>7
<1>3. ASSUME InsertAdminCommit(w) PROVE (Serial /\ ExclusiveCluster /\ SingleAdmin)'
  <2>1. Serial'
    BY <1>3, QuietStep DEF InsertAdminCommit
  <2>2. Admins = {}
    BY <1>3 DEF InsertAdminCommit, SerialInv, Serial, Saw
  <2>3. req[w].row.cluster = 0
    BY <1>3 DEF InsertAdminCommit, SerialInv, IInv, Sound, RequestsOk, RequestOk
  <2>4. nextUserId \in UserIds
    BY <1>3, IdBounds DEF InsertAdminCommit, SerialInv, IInv, TypeOK, UserIds
  <2>5. PICK u \in UserIds : u = nextUserId
    BY <2>4
  <2>6. users' = [users EXCEPT ![u] = req[w].row]
    BY <1>3, <2>5 DEF InsertAdminCommit, FreshUserId
  <2>7. users'[u].cluster = 0 /\ \A id \in UserIds \ {u} : users'[id] = users[id]
    BY <2>3, <2>6 DEF SerialInv, IInv, TypeOK
  <2>8. (ExclusiveCluster /\ SingleAdmin)'
    BY <2>2, <2>7, OneRowStep
  <2> QED
    BY <2>1, <2>8
<1> QED
  BY <1>1, <1>2, <1>3

\* Clusters, codes and cookies: the users stay as they are.
LEMMA OtherStep ==
  ASSUME OneAtATime, SerialInv, NEW w \in Workers,
         \/ \E b \in Browsers : Logout(w, b)
         \/ \E h \in Hosts : AddCluster(w, h)
         \/ \E code \in Codes \cup {None} : SetRegCode(w, code)
         \/ Rollback(w)
  PROVE  (Serial /\ ExclusiveCluster /\ SingleAdmin)'
<1>1. users' = users
  BY DEF Logout, AddCluster, SetRegCode, Rollback
<1>2. Done(w) \/ (Free(w) /\ UNCHANGED req)
  BY DEF Logout, AddCluster, SetRegCode, Rollback
<1>3. (ExclusiveCluster /\ SingleAdmin)'
  BY <1>1 DEF SerialInv, ExclusiveCluster, SingleAdmin, Admins, Exists
<1> QED
  BY <1>2, <1>3, QuietStep

LEMMA SerialNext == OneAtATime /\ SerialInv /\ [Next]_vars => SerialInv'
<1> SUFFICES ASSUME OneAtATime, SerialInv, [Next]_vars PROVE SerialInv'
  OBVIOUS
<1>1. IInv'
  BY IInvNext DEF SerialInv
<1>2. ASSUME NEW w \in Workers, Visitor(w) PROVE (Serial /\ ExclusiveCluster /\ SingleAdmin)'
  <2>1. CASE \/ \E b \in Browsers, e \in Emails, ip \in Ips, p \in Hashes : LoginStart(w, b, e, p, ip)
             \/ \E b \in Browsers, e \in Emails, ip \in Ips, p \in OwnPwds : RegisterStart(w, b, e, p, ip)
             \/ ReadTaken(w) \/ PickCluster(w)
    BY <2>1, ChoosingStep
  <2>2. CASE LoginCommit(w) \/ RegisterCommit(w)
    BY <2>2, SessionStep
  <2>3. CASE \/ \E b \in Browsers, e \in Emails, p \in OwnPwds : SetPwdStart(w, b, e, p)
             \/ SetPwdCommit(w)
    BY <2>3, PasswordStep
  <2>4. CASE \E b \in Browsers : Logout(w, b)
    BY <2>4, OtherStep
  <2> QED
    BY <1>2, <2>1, <2>2, <2>3, <2>4 DEF Visitor
<1>3. ASSUME NEW w \in Workers, AdminPages(w) PROVE (Serial /\ ExclusiveCluster /\ SingleAdmin)'
  BY <1>3, PasswordStep, DeleteStep DEF AdminPages
<1>4. ASSUME NEW w \in Workers, RestApi(w) \/ Rollback(w)
      PROVE  (Serial /\ ExclusiveCluster /\ SingleAdmin)'
  BY <1>4, AdminStep, OtherStep DEF RestApi
<1>5. CASE UNCHANGED vars
  <2>1. users' = users /\ clusters' = clusters /\ req' = req
    BY <1>5 DEF vars
  <2>2. Assigned' = Assigned /\ Pool' = Pool /\ Admins' = Admins
    BY <2>1 DEF Assigned, Pool, Admins, Exists
  <2>3. Serial'
    BY <2>1, <2>2 DEF SerialInv, Serial, Saw, LoginSaw, RegisterSaw, ChoiceSaw
  <2>4. (ExclusiveCluster /\ SingleAdmin)'
    BY <2>1, <2>2 DEF SerialInv, ExclusiveCluster, SingleAdmin
  <2> QED
    BY <1>1, <2>3, <2>4 DEF SerialInv
<1> QED
  BY <1>1, <1>2, <1>3, <1>4, <1>5 DEF Next, SerialInv

LEMMA SerialInvariant == ASSUME OneAtATime PROVE Spec => []SerialInv
BY SerialInit, SerialNext, PTL DEF Spec

-----------------------------------------------------------------------------
(* The promises.                                                           *)

\* A cluster never has two users while requests do not overlap, for any number
\* of people, clusters and deletions.
THEOREM ClustersExclusive == ASSUME OneAtATime PROVE Spec => []ExclusiveCluster
<1>1. SerialInv => ExclusiveCluster
  BY DEF SerialInv
<1> QED
  BY <1>1, SerialInvariant, PTL

\* There is never a second admin while requests do not overlap.
THEOREM AdminSingle == ASSUME OneAtATime PROVE Spec => []SingleAdmin
<1>1. SerialInv => SingleAdmin
  BY DEF SerialInv
<1> QED
  BY <1>1, SerialInvariant, PTL

\* The steps after which a browser has a session it had not, or a user another
\* cluster, are the commits.
LEMMA OnlyCommits ==
  ASSUME TypeOK, NEW w \in Workers, Visitor(w) \/ AdminPages(w) \/ RestApi(w) \/ Rollback(w)
  PROVE  \/ LoginCommit(w) \/ RegisterCommit(w) \/ ClusterDeleteCommit(w) \/ InsertAdminCommit(w)
         \/ /\ \A b \in Browsers : session'[b] \in {session[b], 0}
            /\ \A id \in UserIds : users'[id].cluster = users[id].cluster \/ users'[id].email = None
<1>1. CASE UNCHANGED users
  <2>1. \/ LoginCommit(w) \/ RegisterCommit(w)
        \/ \A b \in Browsers : session'[b] \in {session[b], 0}
    BY <1>1 DEF TypeOK, Visitor, AdminPages, RestApi, Rollback, LoginStart, ReadTaken, PickCluster,
       RegisterStart, SetPwdStart, SetPwdCommit, Logout, UserDelete, ResetUserStart,
       ResetUserCommit, ClusterDeleteStart, ClusterDeleteCommit, CreateAdminStart, PromoteCommit,
       InsertAdminCommit, AddCluster, SetRegCode
  <2> QED
    BY <1>1, <2>1
<1>2. ASSUME NEW b \in Browsers, NEW u \in UserIds, UserDelete(w, b, u)
      PROVE  /\ \A c \in Browsers : session'[c] \in {session[c], 0}
             /\ \A id \in UserIds : users'[id].cluster = users[id].cluster \/ users'[id].email = None
  BY <1>2 DEF UserDelete, TypeOK, NoRow
<1>3. ASSUME SetPwdCommit(w) \/ ResetUserCommit(w) \/ PromoteCommit(w)
      PROVE  /\ \A b \in Browsers : session'[b] \in {session[b], 0}
             /\ \A id \in UserIds : users'[id].cluster = users[id].cluster \/ users'[id].email = None
  <2>1. users \in [UserIds -> Row]
    BY DEF TypeOK
  <2>2. \A b \in Browsers : session'[b] \in {session[b], 0}
    BY <1>3 DEF SetPwdCommit, ResetUserCommit, PromoteCommit, TypeOK
  <2>3. CASE SetPwdCommit(w) \/ ResetUserCommit(w)
    <3>1. PICK p, f : users' = [users EXCEPT ![req[w].uid].pwd = p, ![req[w].uid].force = f]
      BY <2>3 DEF SetPwdCommit, ResetUserCommit
    <3>2. ASSUME NEW id \in UserIds PROVE users'[id].cluster = users[id].cluster
      BY <2>1, <3>1 DEF Row
    <3> QED
      BY <2>2, <3>2
  <2>4. CASE PromoteCommit(w)
    <3>1. users' = [users EXCEPT ![req[w].uid].admin = TRUE, ![req[w].uid].pwd = req[w].pwd]
      BY <2>4 DEF PromoteCommit
    <3>2. ASSUME NEW id \in UserIds PROVE users'[id].cluster = users[id].cluster
      BY <2>1, <3>1 DEF Row
    <3> QED
      BY <2>2, <3>2
  <2> QED
    BY <1>3, <2>3, <2>4
<1>4. \/ UNCHANGED users \/ LoginCommit(w) \/ RegisterCommit(w) \/ ClusterDeleteCommit(w)
      \/ InsertAdminCommit(w) \/ SetPwdCommit(w) \/ ResetUserCommit(w) \/ PromoteCommit(w)
      \/ \E b \in Browsers, u \in UserIds : UserDelete(w, b, u)
  BY DEF Visitor, AdminPages, RestApi, Rollback, LoginStart, ReadTaken, PickCluster,
     RegisterStart, SetPwdStart, Logout, ResetUserStart, ClusterDeleteStart, CreateAdminStart,
     AddCluster, SetRegCode
<1> QED
  BY <1>1, <1>2, <1>3, <1>4

\* Who gets a session gets it with a cluster, unless all of them are taken.
THEOREM LoginsAssign == ASSUME OneAtATime PROVE Spec => LoginAssigns
<1>1. ASSUME SerialInv, [Next]_vars, NEW b \in Browsers,
             session'[b] # session[b], session'[b] # 0
      PROVE  users'[session'[b]].cluster # 0 \/ Pool \subseteq Assigned
  <2>1. session \in [Browsers -> UserIds \cup {0}] /\ TypeOK
    BY <1>1 DEF SerialInv, IInv, TypeOK
  <2>2. PICK w \in Workers : Visitor(w) \/ AdminPages(w) \/ RestApi(w) \/ Rollback(w)
    BY <1>1 DEF Next, vars
  <2>3. CASE LoginCommit(w)
    <3>1. session'[b] = req[w].uid
      BY <1>1, <2>1, <2>3 DEF LoginCommit
    <3> QED
      BY <1>1, <2>3, <3>1, LoginCommits
  <2>4. CASE RegisterCommit(w)
    <3>1. session'[b] = req[w].uid
      BY <1>1, <2>1, <2>4 DEF RegisterCommit
    <3> QED
      BY <1>1, <2>4, <3>1, RegisterCommits
  <2>5. CASE ClusterDeleteCommit(w) \/ InsertAdminCommit(w)
    BY <1>1, <2>5 DEF ClusterDeleteCommit, InsertAdminCommit
  <2> QED
    BY <1>1, <2>1, <2>2, <2>3, <2>4, <2>5, OnlyCommits
<1>2. SerialInv /\ [Next]_vars =>
        [\A b \in Browsers : session'[b] # session[b] /\ session'[b] # 0
           => users'[session'[b]].cluster # 0 \/ Pool \subseteq Assigned]_vars
  BY <1>1
<1> QED
  BY <1>2, SerialInvariant, PTL DEF Spec, LoginAssigns

\* A user keeps their cluster until it or their account is deleted.
THEOREM AssignmentsStable == ASSUME OneAtATime PROVE Spec => AssignmentStable
<1>1. ASSUME SerialInv, [Next]_vars, NEW id \in UserIds,
             users[id].cluster # 0, users'[id].cluster # users[id].cluster
      PROVE  clusters'[users[id].cluster] = None \/ users'[id].email = None
  <2>1. TypeOK /\ Blank /\ Numbered
    BY <1>1 DEF SerialInv, IInv, Sound
  <2>2. PICK w \in Workers : Visitor(w) \/ AdminPages(w) \/ RestApi(w) \/ Rollback(w)
    BY <1>1 DEF Next, vars
  <2>3. CASE LoginCommit(w)
    BY <1>1, <2>3, LoginCommits
  <2>4. CASE RegisterCommit(w)
    BY <1>1, <2>4, RegisterCommits
  <2>5. CASE InsertAdminCommit(w)
    <3>1. \A u \in UserIds : u # nextUserId => users'[u] = users[u]
      BY <2>1, <2>5 DEF InsertAdminCommit, FreshUserId, TypeOK
    <3>2. id = nextUserId
      BY <1>1, <3>1
    <3>3. ~Exists(id)
      BY <2>1, <3>2, IdsAreNat DEF Numbered
    <3> QED
      BY <1>1, <2>1, <3>3 DEF Blank, NoRow
  <2>6. CASE ClusterDeleteCommit(w)
    <3>1. users[id].cluster = req[w].cluster
      BY <1>1, <2>6, DropCommits
    <3>2. users[id].cluster \in ClusterIds
      BY <1>1, <2>1 DEF TypeOK, Row
    <3>3. clusters' = [clusters EXCEPT ![req[w].cluster] = None] /\ clusters \in [ClusterIds -> Hosts \cup {None}]
      BY <2>1, <2>6 DEF ClusterDeleteCommit, TypeOK
    <3> QED
      BY <3>1, <3>2, <3>3
  <2> QED
    BY <1>1, <2>1, <2>2, <2>3, <2>4, <2>5, <2>6, OnlyCommits
<1>2. SerialInv /\ [Next]_vars =>
        [\A id \in UserIds : users[id].cluster # 0 /\ users'[id].cluster # users[id].cluster
           => \/ clusters'[users[id].cluster] = None
              \/ users'[id].email = None]_vars
  BY <1>1
<1> QED
  BY <1>2, SerialInvariant, PTL DEF Spec, AssignmentStable
=============================================================================
