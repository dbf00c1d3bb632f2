------------------------------- MODULE Registry -------------------------------
(***************************************************************************)
(* What the web server's tables promise, whatever its workers interleave:   *)
(* each operation below is one indivisible change.  A member has one e-mail *)
(* nobody else has, an id that is never used again, and a cluster of the    *)
(* pool or none; a cluster leaves the pool together with everyone's claim   *)
(* on it; a browser is signed in only as somebody who is a member then.     *)
(* It does not promise that a cluster has one member: see WebServer.        *)
(***************************************************************************)
EXTENDS Naturals

CONSTANTS Ids, ClusterIds, Emails, Browsers, None

VARIABLES
  email,     \* email[id]: the member's e-mail, None if id is nobody
  claim,     \* claim[id]: the member's cluster, 0 if none
  spent,     \* ids that may not be given out (again)
  pool,      \* clusters that can be claimed
  signedIn   \* signedIn[b]: the id browser b is signed in as, 0 if none

vars == <<email, claim, spent, pool, signedIn>>

Members == {id \in Ids : email[id] # None}

Claimable == pool \cup {0}

Init ==
  /\ email = [id \in Ids |-> None]
  /\ claim = [id \in Ids |-> 0]
  /\ spent = {}
  /\ pool = {}
  /\ signedIn = [b \in Browsers |-> 0]

\* A new member, signed in at once (a visitor) or not (the admin API).
Join(id, e, c) ==
  /\ id \notin spent
  /\ \A m \in Ids : email[m] # e
  /\ c \in Claimable
  /\ email' = [email EXCEPT ![id] = e]
  /\ claim' = [claim EXCEPT ![id] = c]
  /\ spent' = spent \cup {id}
  /\ \/ signedIn' = signedIn
     \/ \E b \in Browsers : signedIn' = [signedIn EXCEPT ![b] = id]
  /\ UNCHANGED pool

\* A member signs in, keeping its claim or getting one.
SignIn(b, id, c) ==
  /\ id \in Members
  /\ c \in pool \cup {claim[id]}
  /\ claim' = [claim EXCEPT ![id] = c]
  /\ signedIn' = [signedIn EXCEPT ![b] = id]
  /\ UNCHANGED <<email, spent, pool>>

SignOut(b) ==
  /\ signedIn' = [signedIn EXCEPT ![b] = 0]
  /\ UNCHANGED <<email, claim, spent, pool>>

Remove(id) ==
  /\ email' = [email EXCEPT ![id] = None]
  /\ claim' = [claim EXCEPT ![id] = 0]
  /\ UNCHANGED <<spent, pool, signedIn>>

\* The ids S are lost without having been used.
Burn(S) ==
  /\ spent' = spent \cup S
  /\ S \cap Members = {}
  /\ UNCHANGED <<email, claim, pool, signedIn>>

Provide(c) ==
  /\ pool' = pool \cup {c}
  /\ UNCHANGED <<email, claim, spent, signedIn>>

\* Cluster c is withdrawn, with the claims of the members in S: all of c's.
Retire(c, S) ==
  /\ \A id \in Ids : claim[id] = c => id \in S
  /\ claim' = [id \in Ids |-> IF id \in S THEN 0 ELSE claim[id]]
  /\ pool' = pool \ {c}
  /\ UNCHANGED <<email, spent, signedIn>>

Next ==
  \/ \E id \in Ids, e \in Emails, c \in ClusterIds \cup {0} : Join(id, e, c)
  \/ \E b \in Browsers, id \in Ids, c \in ClusterIds \cup {0} : SignIn(b, id, c)
  \/ \E b \in Browsers : SignOut(b)
  \/ \E id \in Ids : Remove(id)
  \/ \E S \in SUBSET Ids : Burn(S)
  \/ \E c \in ClusterIds : Provide(c)
  \/ \E c \in ClusterIds, S \in SUBSET Ids : Retire(c, S)

Spec == Init /\ [][Next]_vars
=============================================================================
