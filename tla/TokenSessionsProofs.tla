------------------------ MODULE TokenSessionsProofs ------------------------
(***************************************************************************)
(* The four properties of TokenSessions for every number of requests,      *)
(* pairs, faults and calls, and for all lifetimes.                         *)
(***************************************************************************)
EXTENDS TokenSessions, FiniteSetTheorems, TLAPS

Pair == [role : Roles \cup {"none"}, issued : Nat, from : Nat,
         raced : BOOLEAN, during : BOOLEAN, current : BOOLEAN]
Request == [op : {"none", "login", "refresh", "logout", "logout_all", "deactivate", "role"},
            at : {"idle", "issue", "member", "revoke", "access", "refresh", "all", "apply", "commit"},
            pair : Nat, role : Roles \cup {"none"}, found : SUBSET Pairs,
            raced : BOOLEAN, during : BOOLEAN, seen : SUBSET Roles]

\* The types; the pairs issued are numbered without a hole.
TypeInv ==
    /\ member \in [active : BOOLEAN, role : Roles]
    /\ \E n \in 0..MaxPairs : Issued = 1..n
    /\ pairs \in [Issued -> Pair]
    /\ tracked \subseteq Issued
    /\ req \in [Requests -> Request]
    /\ now \in Nat

\* What a request is about at each of its steps.
Stages(op) == CASE op = "none" -> {"idle"}
                [] op = "login" -> {"issue"}
                [] op = "refresh" -> {"member", "revoke", "issue"}
                [] op = "logout" -> {"access", "refresh"}
                [] op = "logout_all" -> {"access", "refresh", "all", "apply", "commit"}
                [] op = "deactivate" -> {"all", "apply", "commit"}
                [] op = "role" -> {"commit"}
StageInv ==
    \A r \in Requests :
        /\ req[r].at \in Stages(req[r].op)
        /\ req[r].op = "refresh" \/ req[r].at \in {"access", "refresh"} => req[r].pair \in Issued
        /\ req[r].op = "login" => req[r].pair = 0
        /\ req[r].op = "role" => req[r].role \in Roles
        /\ req[r].found \subseteq Issued

\* The pairs issued stay as they are, and what Redis was told or lost stays.
Grows ==
    /\ Issued \subseteq Issued' /\ \A p \in Issued : pairs'[p] = pairs[p]
    /\ denied \subseteq denied' /\ missed \subseteq missed'
    /\ now <= now' /\ now' \in Nat

LEMMA InitTypes == Init => TypeInv /\ StageInv
  <1> SUFFICES ASSUME Init PROVE TypeInv /\ StageInv
      OBVIOUS
  <1>1. Issued = 1..0
      BY DEF Init, Issued
  <1>2. NoRequest \in Request /\ NoRequest.at \in Stages(NoRequest.op)
      BY DEF NoRequest, Request, Stages
  <1>3. TypeInv
    <2>1. \E n \in 0..MaxPairs : Issued = 1..n
      BY <1>1, TokenAssumption
    <2>2. pairs \in [Issued -> Pair] /\ tracked \subseteq Issued
      BY DEF Init, Issued
    <2>3. req \in [Requests -> Request] /\ now \in Nat
      BY <1>2 DEF Init
    <2>4. member \in [active : BOOLEAN, role : Roles]
      BY DEF Init
    <2> QED BY <2>1, <2>2, <2>3, <2>4 DEF TypeInv
  <1>4. StageInv
      BY <1>2 DEF Init, StageInv, NoRequest
  <1> QED BY <1>3, <1>4

\* What a new request of each kind leaves for the others.
LEMMA BeginTypes ==
    ASSUME TypeInv, StageInv, UNCHANGED <<member, pairs, redis, now>>,
           NEW r \in Requests, NEW op, NEW step, NEW p, NEW role,
           op \in {"login", "refresh", "logout", "logout_all", "deactivate", "role"},
           step \in Stages(op),
           step \in {"idle", "issue", "member", "revoke", "access", "refresh", "all", "apply", "commit"},
           p \in Issued \cup {0}, role \in Roles \cup {"none"},
           op = "refresh" \/ step \in {"access", "refresh"} => p \in Issued,
           op = "login" => p = 0, op = "role" => role \in Roles,
           Begins(r, op, step, p, role)
    PROVE  TypeInv' /\ StageInv'
  <1>1. p \in Nat /\ Issued' = Issued /\ Issued \subseteq Nat
      BY DEF TypeInv, Issued
  <1>2. ASSUME NEW q \in Requests PROVE req'[q] \in Request
    <2>1. CASE q = r
      <3> DEFINE s == IF op \in Issuing THEN {member.role} ELSE {}
                 b == op \in Issuing /\ Running(Revoking) # {}
                 c == op = "refresh" /\ \E t \in Running({"refresh"}) : req[t].pair = p
      <3>1. s \in SUBSET Roles /\ b \in BOOLEAN /\ c \in BOOLEAN
        BY DEF TypeInv
      <3>2. req'[q] = [NoRequest EXCEPT !.op = op, !.at = step, !.pair = p, !.role = role,
                                        !.seen = s, !.during = b, !.raced = c]
        BY <2>1 DEF Begins
      <3> HIDE DEF s, b, c
      <3> QED BY <3>1, <3>2, <1>1 DEF Request, NoRequest
    <2>2. CASE q # r
      <3>1. PICK b \in BOOLEAN, c \in BOOLEAN :
                req'[q] = [req[q] EXCEPT !.during = b, !.raced = c]
        BY <2>2 DEF Begins
      <3> DEFINE x == req[q]
      <3>2. x \in Request
        BY DEF TypeInv
      <3>3. req'[q] = [x EXCEPT !.during = b, !.raced = c]
        BY <3>1
      <3> HIDE DEF x
      <3> QED BY <3>2, <3>3 DEF Request
    <2> QED BY <2>1, <2>2
  <1>3. \A q \in Requests :
           /\ q # r => /\ req'[q].op = req[q].op /\ req'[q].at = req[q].at
                       /\ req'[q].pair = req[q].pair /\ req'[q].role = req[q].role
                       /\ req'[q].found = req[q].found
           /\ q = r => /\ req'[q].op = op /\ req'[q].at = step /\ req'[q].pair = p
                       /\ req'[q].role = role /\ req'[q].found = {}
      BY DEF Begins, TypeInv, Request, NoRequest
  <1>4. TypeInv'
      BY <1>1, <1>2 DEF TypeInv, Begins, redis, Issued
  <1>5. StageInv'
      BY <1>1, <1>3 DEF StageInv
  <1> QED BY <1>4, <1>5

\* One request moves on, the others do not.
LEMMA StepTypes ==
    ASSUME TypeInv, StageInv, NEW r \in Requests, NEW x \in Request,
           Issued \subseteq Issued',
           req' = [req EXCEPT ![r] = x],
           x.at \in Stages(x.op),
           x.op = "refresh" \/ x.at \in {"access", "refresh"} => x.pair \in Issued,
           x.op = "login" => x.pair = 0, x.op = "role" => x.role \in Roles,
           x.found \subseteq Issued
    PROVE  req' \in [Requests -> Request] /\ StageInv'
  BY DEF TypeInv, StageInv

LEMMA EndTypes ==
    ASSUME TypeInv, StageInv, NEW r \in Requests, Issued \subseteq Issued', Ends(r)
    PROVE  req' \in [Requests -> Request] /\ StageInv'
  <1>1. NoRequest \in Request /\ NoRequest.at \in Stages(NoRequest.op)
      BY DEF NoRequest, Request, Stages
  <1> QED BY <1>1, StepTypes DEF Ends, NoRequest

LEMMA GoTypes ==
    ASSUME TypeInv, StageInv, NEW r \in Requests, Issued \subseteq Issued',
           NEW step \in {"idle", "issue", "member", "revoke", "access", "refresh", "all", "apply", "commit"},
           step \in Stages(req[r].op),
           step \in {"access", "refresh"} => req[r].pair \in Issued,
           Goes(r, step)
    PROVE  req' \in [Requests -> Request] /\ StageInv'
  <1> DEFINE x == [req[r] EXCEPT !.at = step]
  <1>1. /\ x \in Request /\ x.at = step /\ x.op = req[r].op /\ x.pair = req[r].pair
        /\ x.role = req[r].role /\ x.found = req[r].found
      BY DEF TypeInv, Request
  <1>2. req' = [req EXCEPT ![r] = x]
      BY DEF Goes
  <1> HIDE DEF x
  <1> QED BY <1>1, <1>2, StepTypes DEF StageInv

\* A step of Redis and one of the time leave the rest of the types alone.
LEMMA SameTypes ==
    ASSUME TypeInv, UNCHANGED <<member, pairs, now>>, tracked' \subseteq Issued,
           req' \in [Requests -> Request]
    PROVE  TypeInv'
  BY DEF TypeInv, Issued

LEMMA IssueGrows ==
    ASSUME TypeInv, NEW r \in Requests, NEW fails \in BOOLEAN, Issue(r, fails)
    PROVE  LET p == Cardinality(Issued) + 1
           IN  /\ p \in 1..MaxPairs /\ p \notin Issued
               /\ Issued = 1..(p - 1) /\ Issued' = Issued \cup {p} /\ Issued' = 1..p
  <1> DEFINE p == Cardinality(Issued) + 1
  <1>1. PICK n \in 0..MaxPairs : Issued = 1..n
      BY DEF TypeInv
  <1>2. n \in Nat /\ Cardinality(Issued) = n
      BY <1>1, FS_Interval, TokenAssumption
  <1>3. p \in 1..MaxPairs /\ DOMAIN pairs' = 1..p
      BY DEF Issue, Pairs
  <1> QED BY <1>1, <1>2, <1>3 DEF Issued

LEMMA TypesNext == TypeInv /\ StageInv /\ [Next]_vars => TypeInv' /\ StageInv' /\ Grows
  <1> SUFFICES ASSUME TypeInv, StageInv, [Next]_vars
               PROVE  TypeInv' /\ StageInv' /\ Grows
      OBVIOUS
  <1> USE DEF redis, history
  <1>1. Issued \subseteq Nat /\ now \in Nat
      BY DEF TypeInv
  <1>g. ASSUME pairs' = pairs, denied \subseteq denied', missed \subseteq missed', now' \in {now, now + 1}
        PROVE  Grows /\ Issued' = Issued
      BY <1>g, <1>1 DEF Grows, Issued
  <1>2. CASE Tick
    <2>1. Grows /\ Issued' = Issued
      BY <1>2, <1>g DEF Tick
    <2>2. StageInv'
      BY <1>2, <2>1 DEF Tick, StageInv
    <2>3. TypeInv'
      BY <1>2, <2>1, <1>1 DEF Tick, TypeInv
    <2> QED BY <2>1, <2>2, <2>3
  <1>3. CASE UNCHANGED vars
    <2>1. Grows /\ Issued' = Issued
      BY <1>3, <1>g DEF vars
    <2>2. StageInv'
      BY <1>3, <2>1 DEF vars, StageInv
    <2>3. TypeInv'
      BY <1>3, <2>1 DEF vars, TypeInv
    <2> QED BY <2>1, <2>2, <2>3
  <1>4. ASSUME NEW r \in Requests, Login(r) PROVE TypeInv' /\ StageInv' /\ Grows
    <2>1. Grows
      BY <1>4, <1>g DEF Login
    <2> QED BY <1>4, <2>1, BeginTypes DEF Login, Stages, TypeInv
  <1>5. ASSUME NEW r \in Requests, NEW p \in Issued, NEW fails \in BOOLEAN, RefreshBegin(r, p, fails)
        PROVE  TypeInv' /\ StageInv' /\ Grows
    <2>1. Grows
      BY <1>5, <1>g DEF RefreshBegin
    <2> QED BY <1>5, <2>1, BeginTypes DEF RefreshBegin, Stages
  <1>6. ASSUME NEW r \in Requests, NEW p \in Issued, NEW all \in BOOLEAN, Logout(r, p, all)
        PROVE  TypeInv' /\ StageInv' /\ Grows
    <2>1. Grows
      BY <1>6, <1>g DEF Logout
    <2> QED BY <1>6, <2>1, BeginTypes DEF Logout, Stages
  <1>7. ASSUME NEW r \in Requests, NEW p \in Issued, ChangePassword(r, p)
        PROVE  TypeInv' /\ StageInv' /\ Grows
    <2>1. Grows
      BY <1>7, <1>g DEF ChangePassword
    <2> QED BY <1>7, <2>1, BeginTypes DEF ChangePassword, Stages
  <1>8. ASSUME NEW r \in Requests, Deactivate(r) PROVE TypeInv' /\ StageInv' /\ Grows
    <2>1. Grows
      BY <1>8, <1>g DEF Deactivate
    <2> QED BY <1>8, <2>1, BeginTypes DEF Deactivate, Stages
  <1>9. ASSUME NEW r \in Requests, NEW role \in Roles, UpdateRole(r, role)
        PROVE  TypeInv' /\ StageInv' /\ Grows
    <2>1. Grows
      BY <1>9, <1>g DEF UpdateRole
    <2> QED BY <1>9, <2>1, BeginTypes DEF UpdateRole, Stages
  <1>10. ASSUME NEW r \in Requests, RefreshMember(r) PROVE TypeInv' /\ StageInv' /\ Grows
    <2>1. Grows /\ Issued' = Issued
      BY <1>10, <1>g DEF RefreshMember
    <2>2. req' \in [Requests -> Request] /\ StageInv'
      <3>1. CASE member.active
        <4> DEFINE x == [req[r] EXCEPT !.at = "revoke", !.role = member.role]
        <4>1. /\ x \in Request /\ x.at = "revoke" /\ x.op = "refresh" /\ x.pair = req[r].pair
              /\ x.found = req[r].found
          BY <1>10 DEF RefreshMember, TypeInv, Request
        <4>2. req' = [req EXCEPT ![r] = x]
          BY <1>10, <3>1 DEF RefreshMember
        <4> HIDE DEF x
        <4> QED BY <1>10, <2>1, <4>1, <4>2, StepTypes DEF StageInv, Stages, RefreshMember
      <3>2. CASE ~member.active
        BY <1>10, <2>1, <3>2, EndTypes DEF RefreshMember
      <3> QED BY <3>1, <3>2
    <2> QED BY <1>10, <2>1, <2>2, SameTypes DEF RefreshMember, TypeInv
  <1>11. ASSUME NEW r \in Requests, NEW fails \in BOOLEAN, RefreshRevoke(r, fails)
         PROVE  TypeInv' /\ StageInv' /\ Grows
    <2>1. Grows /\ Issued' = Issued
      BY <1>11, <1>g DEF RefreshRevoke, Revoke
    <2>2. req' \in [Requests -> Request] /\ StageInv'
      BY <1>11, <2>1, GoTypes DEF RefreshRevoke, Stages
    <2> QED BY <1>11, <2>1, <2>2, SameTypes DEF RefreshRevoke, TypeInv
  <1>12. ASSUME NEW r \in Requests, NEW fails \in BOOLEAN, LogoutAccess(r, fails)
         PROVE  TypeInv' /\ StageInv' /\ Grows
    <2>1. Grows /\ Issued' = Issued
      BY <1>12, <1>g DEF LogoutAccess, Revoke
    <2>2. req[r].pair \in Issued /\ "refresh" \in Stages(req[r].op)
      BY <1>12 DEF LogoutAccess, StageInv, Stages, TypeInv, Request
    <2>3. req' \in [Requests -> Request] /\ StageInv'
      BY <1>12, <2>1, <2>2, GoTypes DEF LogoutAccess
    <2> QED BY <1>12, <2>1, <2>3, SameTypes DEF LogoutAccess, TypeInv
  <1>13. ASSUME NEW r \in Requests, NEW sent \in BOOLEAN, NEW fails \in BOOLEAN, LogoutRefresh(r, sent, fails)
         PROVE  TypeInv' /\ StageInv' /\ Grows
    <2>1. Grows /\ Issued' = Issued
      BY <1>13, <1>g DEF LogoutRefresh, Revoke
    <2>2. req' \in [Requests -> Request] /\ StageInv'
      <3>1. CASE req[r].op = "logout_all"
        <4> DEFINE x == [req[r] EXCEPT !.at = "all", !.pair = 0]
        <4>1. x \in Request /\ x.at = "all" /\ x.op = "logout_all" /\ x.found = req[r].found
          BY <3>1 DEF TypeInv, Request
        <4>2. req' = [req EXCEPT ![r] = x]
          BY <1>13, <3>1 DEF LogoutRefresh
        <4> HIDE DEF x
        <4> QED BY <2>1, <4>1, <4>2, StepTypes DEF StageInv, Stages
      <3>2. CASE req[r].op # "logout_all"
        BY <1>13, <2>1, <3>2, EndTypes DEF LogoutRefresh
      <3> QED BY <3>1, <3>2
    <2> QED BY <1>13, <2>1, <2>2, SameTypes DEF LogoutRefresh, TypeInv
  <1>14. ASSUME NEW r \in Requests, NEW fails \in BOOLEAN, ReadSessions(r, fails)
         PROVE  TypeInv' /\ StageInv' /\ Grows
    <2>1. Grows /\ Issued' = Issued
      BY <1>14, <1>g DEF ReadSessions
    <2>2. Issued \subseteq Pairs /\ Found \subseteq Issued
      BY TokenAssumption DEF TypeInv, Pairs, Found
    <2> DEFINE x == [req[r] EXCEPT !.at = IF fails THEN "commit" ELSE "apply",
                                   !.found = IF fails THEN {} ELSE Found]
    <2>3. /\ x \in Request /\ x.at \in {"commit", "apply"} /\ x.op = req[r].op
          /\ x.pair = req[r].pair /\ x.role = req[r].role /\ x.found \subseteq Issued
      BY <2>2 DEF TypeInv, Request
    <2>4. req' = [req EXCEPT ![r] = x]
      BY <1>14 DEF ReadSessions
    <2>5. x.at \in Stages(x.op)
      BY <1>14, <2>3 DEF ReadSessions, StageInv, Stages, TypeInv, Request
    <2> HIDE DEF x
    <2>6. req' \in [Requests -> Request] /\ StageInv'
      BY <2>1, <2>3, <2>4, <2>5, StepTypes DEF StageInv
    <2> QED BY <1>14, <2>1, <2>6, SameTypes DEF ReadSessions, TypeInv
  <1>15. ASSUME NEW r \in Requests, NEW fails \in BOOLEAN, NEW p, RevokeSession(r, p, fails)
         PROVE  TypeInv' /\ StageInv' /\ Grows
    <2>1. Grows /\ Issued' = Issued
      BY <1>15, <1>g DEF RevokeSession, Revoke
    <2> DEFINE x == [req[r] EXCEPT !.found = req[r].found \ {p}]
    <2>3. /\ x \in Request /\ x.at = req[r].at /\ x.op = req[r].op
          /\ x.pair = req[r].pair /\ x.role = req[r].role /\ x.found \subseteq req[r].found
      BY DEF TypeInv, Request
    <2>4. req' = [req EXCEPT ![r] = x]
      BY <1>15 DEF RevokeSession
    <2> HIDE DEF x
    <2>6. req' \in [Requests -> Request] /\ StageInv'
      BY <2>1, <2>3, <2>4, StepTypes DEF StageInv
    <2> QED BY <1>15, <2>1, <2>6, SameTypes DEF RevokeSession, TypeInv
  <1>19. ASSUME NEW r \in Requests, NEW fails \in BOOLEAN, ClearSessions(r, fails)
         PROVE  TypeInv' /\ StageInv' /\ Grows
    <2>1. Grows /\ Issued' = Issued
      BY <1>19, <1>g DEF ClearSessions
    <2>2. "commit" \in Stages(req[r].op)
      BY <1>19 DEF ClearSessions, StageInv, Stages, TypeInv, Request
    <2>3. req' \in [Requests -> Request] /\ StageInv'
      BY <1>19, <2>1, <2>2, GoTypes DEF ClearSessions
    <2> QED BY <1>19, <2>1, <2>3, SameTypes DEF ClearSessions, TypeInv
  <1>16. ASSUME NEW r \in Requests, Fails(r) PROVE TypeInv' /\ StageInv' /\ Grows
    <2>1. Grows /\ Issued' = Issued
      BY <1>16, <1>g DEF Fails
    <2> QED BY <1>16, <2>1, EndTypes, SameTypes DEF Fails, TypeInv
  <1>17. ASSUME NEW r \in Requests, Commit(r) PROVE TypeInv' /\ StageInv' /\ Grows
    <2>1. Grows /\ Issued' = Issued
      BY <1>17, <1>g DEF Commit
    <2>2. Row(r) \in [active : BOOLEAN, role : Roles]
      BY DEF Row, TypeInv, StageInv
    <2>3. ASSUME NEW q \in Requests, q # r
          PROVE  /\ req'[q] \in Request /\ req'[q].op = req[q].op /\ req'[q].at = req[q].at
                 /\ req'[q].pair = req[q].pair /\ req'[q].role = req[q].role
                 /\ req'[q].found = req[q].found
      <3>1. PICK s \in SUBSET Roles : req'[q] = [req[q] EXCEPT !.seen = s]
        <4> DEFINE s == IF req[q].seen = {} THEN req[q].seen ELSE req[q].seen \cup {Row(r).role}
        <4>1. s \in SUBSET Roles
          BY <2>2 DEF TypeInv, Request
        <4>2. req'[q] = [req[q] EXCEPT !.seen = s]
          BY <1>17, <2>3 DEF Commit
        <4> QED BY <4>1, <4>2
      <3>2. req[q] \in Request
        BY DEF TypeInv
      <3> HIDE DEF Request
      <3> QED BY <3>1, <3>2 DEF Request
    <2>4. req'[r] = NoRequest
      BY <1>17 DEF Commit
    <2>5. NoRequest \in Request /\ NoRequest.at \in Stages(NoRequest.op)
      BY DEF NoRequest, Request, Stages
    <2>6. req' \in [Requests -> Request]
      <3>1. req' = [q \in Requests |-> req'[q]]
        BY <1>17 DEF Commit
      <3> QED BY <2>3, <2>4, <2>5, <3>1
    <2>7. TypeInv'
      BY <1>17, <2>2, <2>6 DEF Commit, TypeInv, Issued
    <2>8. StageInv'
      BY <2>1, <2>3, <2>4, <2>5 DEF StageInv, NoRequest
    <2> QED BY <2>1, <2>7, <2>8
  <1>18. ASSUME NEW r \in Requests, NEW fails \in BOOLEAN, Issue(r, fails)
         PROVE  TypeInv' /\ StageInv' /\ Grows
    <2> DEFINE p == Cardinality(Issued) + 1
    <2>1. p \in 1..MaxPairs /\ p \notin Issued /\ Issued' = Issued \cup {p} /\ Issued' = 1..p
      BY <1>18, IssueGrows
    <2>2. req' \in [Requests -> Request] /\ StageInv'
      BY <1>18, <2>1, EndTypes DEF Issue
    <2>3. IssuedRole(r) \in Roles \cup {"none"} /\ req[r].pair \in Nat
          /\ req[r].raced \in BOOLEAN /\ req[r].during \in BOOLEAN
      BY DEF IssuedRole, TypeInv, Request
    <2>4. \A q \in Issued : pairs'[q] = pairs[q]
      BY <1>18, <2>1 DEF Issue
    <2>5. pairs' \in [Issued' -> Pair]
      <3>1. pairs'[p] \in Pair
        BY <1>18, <2>1, <2>3, <1>1 DEF Issue, Pair
      <3>2. \A q \in Issued' : pairs'[q] \in Pair
        BY <3>1, <2>1, <2>4 DEF TypeInv
      <3>3. pairs' = [q \in Issued' |-> pairs'[q]]
        BY <1>18, <2>1 DEF Issue
      <3> QED BY <3>2, <3>3
    <2>6. Grows
      BY <1>18, <2>1, <2>4, <1>1 DEF Grows, Issue
    <2>7. TypeInv'
      <3>1. member' = member /\ now' = now /\ tracked' \subseteq Issued'
        BY <1>18, <2>1 DEF Issue, TypeInv
      <3>2. \E n \in 0..MaxPairs : Issued' = 1..n
        BY <2>1, TokenAssumption
      <3> QED BY <3>1, <3>2, <2>2, <2>5 DEF TypeInv
    <2> QED BY <2>2, <2>6, <2>7
  <1> QED BY <1>2, <1>3, <1>4, <1>5, <1>6, <1>7, <1>8, <1>9, <1>10, <1>11, <1>12,
             <1>13, <1>14, <1>15, <1>16, <1>17, <1>18, <1>19 DEF Next

(***************************************************************************)
(* What happens to a request in a step that is not the first of another.   *)
(***************************************************************************)
Kept(s) == \/ req'[s] = NoRequest
           \/ /\ req'[s].op = req[s].op
              /\ req'[s].pair = req[s].pair \/ req[s].op = "logout_all"
              /\ req[s].raced => req'[s].raced
              /\ req[s].during => req'[s].during
              /\ req[s].seen \subseteq req'[s].seen
BeginStep(r) == \/ Login(r) \/ Deactivate(r)
                \/ \E role \in Roles : UpdateRole(r, role)
                \/ \E p \in Issued : \/ ChangePassword(r, p)
                                     \/ \E all \in BOOLEAN : Logout(r, p, all)
                                     \/ \E fails \in BOOLEAN : RefreshBegin(r, p, fails)

LEMMA Classify == TypeInv /\ [Next]_vars =>
    \/ \E r \in Requests : BeginStep(r)
    \/ \A s \in Requests : Kept(s)
  <1> SUFFICES ASSUME TypeInv, [Next]_vars, ~ \E r \in Requests : BeginStep(r), NEW s \in Requests
               PROVE  Kept(s)
      OBVIOUS
  <1>0. req \in [Requests -> Request] /\ req[s] \in Request
      BY DEF TypeInv
  <1>1. ASSUME req' = req PROVE Kept(s)
      BY <1>0, <1>1 DEF Kept
  <1>2. ASSUME NEW r \in Requests, Ends(r) PROVE Kept(s)
      BY <1>0, <1>2 DEF Kept, Ends
  <1>3. ASSUME NEW r \in Requests, NEW step, Goes(r, step) PROVE Kept(s)
      BY <1>0, <1>3 DEF Kept, Goes, Request
  <1>4. ASSUME NEW r \in Requests, RefreshMember(r) PROVE Kept(s)
      BY <1>0, <1>2, <1>4 DEF Kept, RefreshMember, Request
  <1>5. ASSUME NEW r \in Requests, NEW p, NEW fails, RevokeSession(r, p, fails) PROVE Kept(s)
      BY <1>0, <1>5 DEF Kept, RevokeSession, Request
  <1>6. ASSUME NEW r \in Requests, NEW fails, ReadSessions(r, fails) PROVE Kept(s)
      BY <1>0, <1>6 DEF Kept, ReadSessions, Request
  <1>7. ASSUME NEW r \in Requests, Commit(r) PROVE Kept(s)
    <2>1. CASE s = r
      BY <1>7, <2>1 DEF Commit, Kept
    <2>2. CASE s # r
      <3> DEFINE t == IF req[s].seen = {} THEN req[s].seen ELSE req[s].seen \cup {Row(r).role}
      <3>1. req'[s] = [req[s] EXCEPT !.seen = t] /\ req[s].seen \subseteq t
        BY <1>7, <2>2 DEF Commit
      <3> HIDE DEF t
      <3> QED BY <3>1, <1>0 DEF Kept, Request
    <2> QED BY <2>1, <2>2
  <1>8. ASSUME NEW r \in Requests, NEW sent, NEW fails, LogoutRefresh(r, sent, fails) PROVE Kept(s)
    <2>1. CASE req[r].op = "logout_all"
      BY <1>0, <1>8, <2>1 DEF Kept, LogoutRefresh, Request
    <2>2. CASE req[r].op # "logout_all"
      BY <1>8, <1>2, <2>2 DEF LogoutRefresh
    <2> QED BY <2>1, <2>2
  <1>9. CASE Next
    <2>1. CASE Tick
      BY <1>1, <2>1 DEF Tick
    <2>2. ASSUME NEW r \in Requests, NEW fails \in BOOLEAN,
                 \/ RefreshRevoke(r, fails) \/ Issue(r, fails) \/ LogoutAccess(r, fails)
                 \/ ReadSessions(r, fails) \/ ClearSessions(r, fails)
                 \/ \E p \in Pairs : RevokeSession(r, p, fails)
                 \/ \E sent \in BOOLEAN : LogoutRefresh(r, sent, fails)
          PROVE  Kept(s)
      BY <2>2, <1>2, <1>3, <1>5, <1>6, <1>8 DEF RefreshRevoke, Issue, LogoutAccess, ClearSessions
    <2>3. ASSUME NEW r \in Requests, RefreshMember(r) \/ Commit(r) \/ Fails(r)
          PROVE  Kept(s)
      BY <2>3, <1>2, <1>4, <1>7 DEF Fails
    <2> QED BY <1>9, <2>1, <2>2, <2>3 DEF Next, BeginStep
  <1> QED BY <1>1, <1>9 DEF vars

\* What a beginning request does to the others, and what it leaves alone.
LEMMA BeginEffect ==
    ASSUME TypeInv, NEW r \in Requests, BeginStep(r)
    PROVE  /\ UNCHANGED <<member, pairs, denied, tracked, now, out, swept>>
           /\ req[r].at = "idle" /\ req'[r].at \notin {"apply", "idle"} /\ req'[r].op # "none"
           /\ req'[r].op = "deactivate" => req'[r].at # "commit"
           /\ req'[r].op = "refresh" => req'[r].at = "member"
           /\ req'[r].op \in Issuing =>
                /\ req'[r].seen = {member.role}
                /\ req'[r].at = "issue" => req'[r].role = member.role /\ member.active
                /\ req'[r].at # "revoke"
                /\ Running(Revoking) # {} => req'[r].during
           /\ \A q \in Requests \ {r} :
                /\ req'[q].op = req[q].op /\ req'[q].at = req[q].at /\ req'[q].pair = req[q].pair
                /\ req'[q].role = req[q].role /\ req'[q].found = req[q].found
                /\ req'[q].seen = req[q].seen
                /\ (req[q].during \/ (req'[r].op \in Revoking /\ req[q].op \in Issuing))
                      => req'[q].during
                /\ (req[q].raced \/ (/\ req'[r].op = "refresh" /\ req[q].op = "refresh"
                                     /\ req[q].pair = req'[r].pair)) => req'[q].raced
           /\ (req'[r].op = "refresh" /\ \E q \in Running({"refresh"}) : req[q].pair = req'[r].pair)
                => req'[r].raced
  <1> USE DEF redis, history
  <1> DEFINE B(op, step, p, role) ==
               /\ op \in {"login", "refresh", "logout", "logout_all", "deactivate", "role"}
               /\ step \in {"issue", "member", "access", "all", "commit"}
               /\ UNCHANGED <<member, pairs, denied, tracked, now, out, swept>>
               /\ Begins(r, op, step, p, role)
               /\ op = "deactivate" => step # "commit"
               /\ op = "refresh" => step = "member"
               /\ op \in Issuing /\ step = "issue" => role = member.role /\ member.active
  <1>1. \E op, step, p, role : B(op, step, p, role)
    <2>1. ASSUME Login(r) PROVE B("login", "issue", 0, member.role)
      BY <2>1 DEF Login
    <2>2. ASSUME Deactivate(r) PROVE B("deactivate", "all", 0, "none")
      BY <2>2 DEF Deactivate
    <2>3. ASSUME NEW role \in Roles, UpdateRole(r, role) PROVE B("role", "commit", 0, role)
      BY <2>3 DEF UpdateRole, Issuing
    <2>4. ASSUME NEW p \in Issued, ChangePassword(r, p) PROVE B("logout_all", "all", 0, "none")
      BY <2>4 DEF ChangePassword, Issuing
    <2>5. ASSUME NEW p \in Issued, NEW all \in BOOLEAN, Logout(r, p, all)
          PROVE  B(IF all THEN "logout_all" ELSE "logout", "access", p, "none")
      BY <2>5 DEF Logout, Issuing
    <2>6. ASSUME NEW p \in Issued, NEW fails \in BOOLEAN, RefreshBegin(r, p, fails)
          PROVE  B("refresh", "member", p, "none")
      BY <2>6 DEF RefreshBegin
    <2> HIDE DEF B
    <2> QED BY <2>1, <2>2, <2>3, <2>4, <2>5, <2>6 DEF BeginStep
  <1>p. PICK op, step, p, role : B(op, step, p, role)
    BY <1>1
  <1> DEFINE s == IF op \in Issuing THEN {member.role} ELSE {}
             b == op \in Issuing /\ Running(Revoking) # {}
             c == op = "refresh" /\ \E t \in Running({"refresh"}) : req[t].pair = p
  <1>2. req[r].at = "idle" /\ req'[r] = [NoRequest EXCEPT !.op = op, !.at = step, !.pair = p, !.role = role,
                                              !.seen = s, !.during = b, !.raced = c]
    BY <1>p DEF Begins
  <1>3. /\ req'[r].op = op /\ req'[r].at = step /\ req'[r].pair = p /\ req'[r].role = role
        /\ req'[r].seen = s /\ req'[r].during = b /\ req'[r].raced = c
    <2> HIDE DEF s, b, c
    <2> QED BY <1>2 DEF NoRequest
  <1>4. ASSUME NEW q \in Requests \ {r}
        PROVE  /\ req'[q].op = req[q].op /\ req'[q].at = req[q].at /\ req'[q].pair = req[q].pair
               /\ req'[q].role = req[q].role /\ req'[q].found = req[q].found
               /\ req'[q].seen = req[q].seen
               /\ req'[q].during = (req[q].during \/ (op \in Revoking /\ req[q].op \in Issuing))
               /\ req'[q].raced = (req[q].raced \/ (op = "refresh" /\ req[q].op = "refresh"
                                                                   /\ req[q].pair = p))
    <2> DEFINE d == req[q].during \/ (op \in Revoking /\ req[q].op \in Issuing)
               e == req[q].raced \/ (op = "refresh" /\ req[q].op = "refresh" /\ req[q].pair = p)
    <2>1. req'[q] = [req[q] EXCEPT !.during = d, !.raced = e] /\ req[q] \in Request
      BY <1>p DEF Begins, TypeInv
    <2> HIDE DEF d, e
    <2>2. /\ req'[q].op = req[q].op /\ req'[q].at = req[q].at /\ req'[q].pair = req[q].pair
          /\ req'[q].role = req[q].role /\ req'[q].found = req[q].found
          /\ req'[q].seen = req[q].seen /\ req'[q].during = d /\ req'[q].raced = e
      BY <2>1 DEF Request
    <2> QED BY <2>2 DEF d, e
  <1> QED BY <1>p, <1>2, <1>3, <1>4

\* Where a request goes in a step.
LEMMA Moves ==
    ASSUME TypeInv, [Next]_vars, NEW r \in Requests
    PROVE  \/ req'[r].op = req[r].op /\ req'[r].at = req[r].at /\ req'[r].found = req[r].found
           \/ BeginStep(r) \/ RefreshMember(r)
           \/ \E fails \in BOOLEAN :
                \/ ReadSessions(r, fails) \/ ClearSessions(r, fails)
                \/ \E p \in Pairs : RevokeSession(r, p, fails)
           \/ req'[r] = NoRequest
           \/ /\ req'[r].op = req[r].op /\ req[r].at # "member"
              /\ req'[r].at \in {"issue", "refresh", "all"}
              /\ req'[r].at = "issue" => Refresh(req[r].pair) \in out'
  <1> DEFINE Rests == req'[r].op = req[r].op /\ req'[r].at = req[r].at /\ req'[r].found = req[r].found
             Goes1 == /\ req'[r].op = req[r].op /\ req[r].at # "member"
                      /\ req'[r].at \in {"issue", "refresh", "all"}
                      /\ req'[r].at = "issue" => Refresh(req[r].pair) \in out'
  <1>0. req \in [Requests -> Request] /\ req[r] \in Request
    BY DEF TypeInv
  <1>1. ASSUME NEW s \in Requests \ {r}, NEW x, req' = [req EXCEPT ![s] = x] PROVE Rests
    BY <1>0, <1>1
  <1>2. ASSUME NEW s \in Requests \ {r}, BeginStep(s) PROVE Rests
    BY <1>2, BeginEffect
  <1>3. ASSUME NEW s \in Requests, Commit(s) PROVE Rests \/ req'[r] = NoRequest
    <2>1. CASE s = r
      BY <1>3, <2>1 DEF Commit
    <2>2. CASE s # r
      <3> DEFINE t == IF req[r].seen = {} THEN req[r].seen ELSE req[r].seen \cup {Row(s).role}
      <3>1. req'[r] = [req[r] EXCEPT !.seen = t]
        BY <1>3, <2>2 DEF Commit
      <3> HIDE DEF t
      <3> QED BY <1>0, <3>1 DEF Request
    <2> QED BY <2>1, <2>2
  <1>4. ASSUME NEW s \in Requests, Fails(s) \/ \E fails \in BOOLEAN : Issue(s, fails)
        PROVE  Rests \/ req'[r] = NoRequest
    BY <1>0, <1>4 DEF Fails, Issue, Ends
  <1>5. ASSUME NEW s \in Requests \ {r}, RefreshMember(s) PROVE Rests
    BY <1>0, <1>5 DEF RefreshMember, Ends
  <1>6. ASSUME NEW s \in Requests \ {r}, NEW fails \in BOOLEAN,
               \/ ReadSessions(s, fails) \/ ClearSessions(s, fails)
               \/ \E p \in Pairs : RevokeSession(s, p, fails)
        PROVE  Rests
    BY <1>0, <1>6 DEF ReadSessions, ClearSessions, RevokeSession, Goes
  <1>7. ASSUME NEW s \in Requests, NEW fails \in BOOLEAN, RefreshRevoke(s, fails) PROVE Rests \/ Goes1
    <2>1. /\ req[s].at = "revoke" /\ req' = [req EXCEPT ![s].at = "issue"]
          /\ Refresh(req[s].pair) \in out'
      BY <1>7 DEF RefreshRevoke, Goes, Revoke
    <2> QED BY <1>0, <2>1 DEF Request
  <1>8. ASSUME NEW s \in Requests, NEW fails \in BOOLEAN, LogoutAccess(s, fails) PROVE Rests \/ Goes1
    <2>1. req[s].at = "access" /\ req' = [req EXCEPT ![s].at = "refresh"]
      BY <1>8 DEF LogoutAccess, Goes
    <2> QED BY <1>0, <2>1 DEF Request
  <1>9. ASSUME NEW s \in Requests, NEW fails \in BOOLEAN, NEW sent \in BOOLEAN, LogoutRefresh(s, sent, fails)
        PROVE  Rests \/ Goes1 \/ req'[r] = NoRequest
    <2>1. /\ req[s].at = "refresh"
          /\ \/ req' = [req EXCEPT ![s].at = "all", ![s].pair = 0]
             \/ req' = [req EXCEPT ![s] = NoRequest]
      BY <1>9 DEF LogoutRefresh, Ends
    <2> QED BY <1>0, <2>1 DEF Request
  <1>10. ASSUME UNCHANGED req PROVE Rests
    BY <1>10
  <1> DEFINE Goal == \/ Rests \/ Goes1
                     \/ BeginStep(r) \/ RefreshMember(r)
                     \/ \E fails \in BOOLEAN :
                          \/ ReadSessions(r, fails) \/ ClearSessions(r, fails)
                          \/ \E p \in Pairs : RevokeSession(r, p, fails)
                     \/ req'[r] = NoRequest
  <1> HIDE DEF Rests, Goes1
  <1>11. ASSUME NEW s \in Requests,
                \/ BeginStep(s) \/ RefreshMember(s)
                \/ \E fails \in BOOLEAN :
                     \/ ReadSessions(s, fails) \/ ClearSessions(s, fails)
                     \/ \E p \in Pairs : RevokeSession(s, p, fails)
         PROVE  Goal
    <2>1. CASE s = r
      BY <1>11, <2>1
    <2>2. CASE s # r
      BY <1>2, <1>5, <1>6, <1>11, <2>2
    <2> QED BY <2>1, <2>2
  <1>12. ASSUME NEW s \in Requests, NEW fails \in BOOLEAN,
                \/ RefreshRevoke(s, fails) \/ Issue(s, fails) \/ LogoutAccess(s, fails)
                \/ \E sent \in BOOLEAN : LogoutRefresh(s, sent, fails)
         PROVE  Goal
    BY <1>4, <1>7, <1>8, <1>9, <1>12
  <1>13. ASSUME NEW s \in Requests, Commit(s) \/ Fails(s) PROVE Goal
    BY <1>3, <1>4, <1>13
  <1> HIDE DEF Goal
  <1>14. Goal \/ Rests
    <2>1. CASE UNCHANGED vars \/ Tick
      <3>1. CASE Tick
        BY <1>10, <3>1 DEF Tick
      <3>2. CASE UNCHANGED vars
        BY <1>10, <3>2 DEF vars
      <3> QED BY <2>1, <3>1, <3>2
    <2>2. ASSUME NEW s \in Requests,
                 \/ Login(s) \/ RefreshMember(s) \/ Deactivate(s)
                 \/ Commit(s) \/ Fails(s)
                 \/ \E role \in Roles : UpdateRole(s, role)
                 \/ \E p \in Issued : ChangePassword(s, p) \/ \E all \in BOOLEAN : Logout(s, p, all)
                 \/ \E fails \in BOOLEAN :
                      \/ RefreshRevoke(s, fails) \/ Issue(s, fails) \/ LogoutAccess(s, fails)
                      \/ ReadSessions(s, fails) \/ ClearSessions(s, fails)
                      \/ \E p \in Pairs : RevokeSession(s, p, fails)
                      \/ \E p \in Issued : RefreshBegin(s, p, fails)
                      \/ \E sent \in BOOLEAN : LogoutRefresh(s, sent, fails)
          PROVE  Goal
      <3>1. CASE BeginStep(s)
        BY <1>11, <3>1
      <3>2. CASE ~BeginStep(s)
        BY <1>11, <1>12, <1>13, <2>2, <3>2 DEF BeginStep
      <3> QED BY <3>1, <3>2
    <2>3. CASE Next
      BY <2>1, <2>2, <2>3 DEF Next
    <2> QED BY <2>1, <2>3
  <1> QED BY <1>14 DEF Goal, Rests, Goes1

LEMMA Frames == TypeInv /\ StageInv /\ [Next]_vars =>
    \/ \E r \in Requests, fails \in BOOLEAN : Issue(r, fails)
    \/ \E r \in Requests, fails \in BOOLEAN : ClearSessions(r, fails)
    \/ \E ts \in SUBSET Token, fails \in BOOLEAN :
          /\ Revoke(ts, fails) /\ \A t \in ts : t.pair \in Issued
          /\ UNCHANGED <<pairs, tracked, now, swept>>
    \/ UNCHANGED <<pairs, tracked, out, swept>>
  <1> SUFFICES ASSUME TypeInv, StageInv, [Next]_vars PROVE Frames!2
      OBVIOUS
  <1> USE DEF redis, history
  <1>0. Issued \subseteq Pairs
      BY TokenAssumption DEF TypeInv, Pairs
  <1>1. ASSUME NEW r \in Requests, NEW fails \in BOOLEAN, RefreshRevoke(r, fails) PROVE Frames!2
    <2>1. {Refresh(req[r].pair)} \subseteq Token /\ Refresh(req[r].pair).pair \in Issued
      BY <1>0, <1>1 DEF RefreshRevoke, StageInv, Refresh, Token
    <2> QED BY <1>1, <2>1 DEF RefreshRevoke
  <1>2. ASSUME NEW r \in Requests, NEW fails \in BOOLEAN, LogoutAccess(r, fails) PROVE Frames!2
    <2>1. {Access(req[r].pair)} \subseteq Token /\ Access(req[r].pair).pair \in Issued
      BY <1>0, <1>2 DEF LogoutAccess, StageInv, Access, Token
    <2> QED BY <1>2, <2>1 DEF LogoutAccess
  <1>3. ASSUME NEW r \in Requests, NEW sent \in BOOLEAN, NEW fails \in BOOLEAN, LogoutRefresh(r, sent, fails)
        PROVE  Frames!2
    <2> DEFINE ts == IF sent THEN {Refresh(req[r].pair)} ELSE {}
    <2>1. ts \in SUBSET Token /\ \A t \in ts : t.pair \in Issued
      BY <1>0, <1>3 DEF LogoutRefresh, StageInv, Refresh, Token
    <2> QED BY <1>3, <2>1 DEF LogoutRefresh
  <1>4. ASSUME NEW r \in Requests, BeginStep(r) PROVE Frames!2
      BY <1>4, BeginEffect
  <1>5. ASSUME NEW r \in Requests,
               \/ RefreshMember(r) \/ Commit(r) \/ Fails(r)
               \/ \E fails \in BOOLEAN : ReadSessions(r, fails)
        PROVE  Frames!2
      BY <1>5 DEF RefreshMember, Commit, Fails, ReadSessions
  <1>6. CASE Tick
      BY <1>6 DEF Tick
  <1>7. CASE UNCHANGED vars
      BY <1>7 DEF vars
  <1>8. ASSUME NEW r \in Requests, NEW p \in Pairs, NEW fails \in BOOLEAN, RevokeSession(r, p, fails)
        PROVE  Frames!2
    <2>1. {Access(p)} \subseteq Token /\ Access(p).pair \in Issued
      BY <1>0, <1>8 DEF RevokeSession, StageInv, Access, Token
    <2> QED BY <1>8, <2>1 DEF RevokeSession
  <1> QED BY <1>1, <1>2, <1>3, <1>4, <1>5, <1>6, <1>7, <1>8 DEF Next, BeginStep

LEMMA IssueEffect ==
    ASSUME TypeInv, NEW r \in Requests, NEW fails \in BOOLEAN, Issue(r, fails)
    PROVE  \E p \in Issued' \ Issued :
              /\ Issued' = Issued \cup {p} /\ \A q \in Issued : pairs'[q] = pairs[q]
              /\ pairs'[p].during = req[r].during /\ pairs'[p].raced = req[r].raced
              /\ pairs'[p].from = req[r].pair
              /\ pairs'[p].current = (req[r].role \in req[r].seen)
              /\ tracked' = (IF fails THEN tracked ELSE tracked \cup {p})
              /\ missed' = (IF fails THEN missed \cup {Access(p)} ELSE missed)
              /\ req[r].at = "issue" /\ Ends(r)
              /\ UNCHANGED <<member, denied, out, now>>
  <1> DEFINE p == Cardinality(Issued) + 1
  <1>1. p \in 1..MaxPairs /\ p \notin Issued /\ Issued' = Issued \cup {p} /\ Issued' = 1..p
    BY IssueGrows
  <1>2. pairs'[p] = [role |-> IssuedRole(r), issued |-> now, from |-> req[r].pair,
                     raced |-> req[r].raced, during |-> req[r].during,
                     current |-> IssuedRole(r) \in req[r].seen]
    BY <1>1 DEF Issue
  <1>3. \A q \in Issued : pairs'[q] = pairs[q]
    BY <1>1 DEF Issue
  <1>5. /\ pairs'[p].during = req[r].during /\ pairs'[p].raced = req[r].raced
        /\ pairs'[p].from = req[r].pair
        /\ pairs'[p].current = (req[r].role \in req[r].seen)
    BY <1>2 DEF IssuedRole
  <1>6. /\ tracked' = (IF fails THEN tracked ELSE tracked \cup {p})
        /\ missed' = (IF fails THEN missed \cup {Access(p)} ELSE missed)
        /\ req[r].at = "issue" /\ Ends(r)
        /\ UNCHANGED <<member, denied, out, now>>
    BY DEF Issue
  <1> QED BY <1>1, <1>3, <1>5, <1>6

(***************************************************************************)
(* A token that is of no use any more stays so.                            *)
(***************************************************************************)
Gone(t) == t \in missed \/ t \in denied \/ Expiry(t) <= now

LEMMA ExpiryNat ==
    ASSUME TypeInv, NEW t, t.pair \in Issued
    PROVE  Expiry(t) \in Nat
  <1>1. AccessLife \in Nat /\ RefreshLife \in Nat
    BY TokenAssumption
  <1> DEFINE p == pairs[t.pair]
  <1>2. p \in Pair
    BY DEF TypeInv
  <1> HIDE DEF p
  <1>3. p.issued \in Nat
    BY <1>2 DEF Pair
  <1>4. Expiry(t) = p.issued + (IF t.kind = "access" THEN AccessLife ELSE RefreshLife)
    BY DEF Expiry, p
  <1> QED BY <1>1, <1>3, <1>4

LEMMA GoneStays ==
    ASSUME TypeInv, Grows, NEW t, t.pair \in Issued, Gone(t)
    PROVE  Gone(t)'
  <1>1. Expiry(t)' = Expiry(t) /\ Expiry(t) \in Nat /\ now \in Nat
    BY ExpiryNat DEF Grows, Expiry, TypeInv
  <1> QED BY <1>1 DEF Gone, Grows

LEMMA RevokeGone ==
    ASSUME TypeInv, UNCHANGED <<pairs, now>>, NEW ts, NEW fails \in BOOLEAN,
           Revoke(ts, fails), NEW t \in ts, t.pair \in Issued
    PROVE  Gone(t)'
  <1>1. Expiry(t)' = Expiry(t) /\ Expiry(t) \in Nat /\ now \in Nat
    BY ExpiryNat DEF Expiry, TypeInv
  <1> QED BY <1>1 DEF Gone, Revoke, Live

(***************************************************************************)
(* The inductive invariant.                                                *)
(***************************************************************************)
\* What was revoked is of no use, and a pair that no revocation overlapped is
\* in the session map, or in what a revocation has read of it, or of no use.
OutInv == \A t \in out : t.pair \in Issued /\ t \in Token /\ Gone(t)
SweptInv == \A p \in swept : p \in Issued /\ Gone(Access(p))
Covered(p) == pairs[p].during \/ Gone(Access(p))
TrackInv == \A p \in Issued : Covered(p) \/ p \in tracked
FoundInv == \A r \in Requests : req[r].at = "apply" =>
                \A p \in Issued : Covered(p) \/ p \in req[r].found
\* A request that issues tokens while another revokes them knows of it.
DuringInv == \A r, s \in Requests :
                req[r].op \in Revoking /\ req[s].op \in Issuing => req[s].during
\* Once a member is deactivated no other pair comes.
SealInv == /\ \A r \in Requests : req[r].op = "deactivate" /\ req[r].at = "commit" =>
                  \A p \in Issued : Covered(p)
           /\ ~member.active => \A p \in Issued : Covered(p)
           /\ ~member.active => \A r \in Requests :
                  req[r].op \in Issuing /\ req[r].at # "member" => req[r].during
SessionInv == TypeInv /\ StageInv /\ OutInv /\ SweptInv /\ TrackInv /\ FoundInv /\ DuringInv /\ SealInv

LEMMA CoveredStays ==
    ASSUME TypeInv, Grows, NEW p \in Issued, Covered(p)
    PROVE  Covered(p)'
  <1>1. Access(p).pair = p
    BY DEF Access
  <1> QED BY <1>1, GoneStays DEF Covered, Grows

LEMMA OutNext == SessionInv /\ [Next]_vars => OutInv'
  <1> SUFFICES ASSUME SessionInv, [Next]_vars, NEW t \in out'
               PROVE  t.pair \in Issued' /\ t \in Token /\ Gone(t)'
      BY DEF OutInv
  <1>0. TypeInv /\ StageInv /\ OutInv /\ Grows
      BY TypesNext DEF SessionInv
  <1>1. CASE t \in out
      BY <1>0, <1>1, GoneStays DEF OutInv, Grows
  <1>2. ASSUME NEW ts \in SUBSET Token, NEW fails \in BOOLEAN, Revoke(ts, fails),
               \A u \in ts : u.pair \in Issued, UNCHANGED <<pairs, tracked, now>>, t \notin out
        PROVE  t.pair \in Issued' /\ t \in Token /\ Gone(t)'
    <2>1. t \in ts /\ t.pair \in Issued /\ t \in Token
      BY <1>2 DEF Revoke
    <2> QED BY <1>0, <1>2, <2>1, RevokeGone DEF Grows
  <1>3. ASSUME NEW r \in Requests, NEW fails \in BOOLEAN, Issue(r, fails) \/ ClearSessions(r, fails)
        PROVE  out' = out
      BY <1>3 DEF Issue, ClearSessions
  <1> QED BY <1>0, <1>1, <1>2, <1>3, Frames

LEMMA SweptNext == SessionInv /\ [Next]_vars => SweptInv'
  <1> SUFFICES ASSUME SessionInv, [Next]_vars, NEW p \in swept'
               PROVE  p \in Issued' /\ Gone(Access(p))'
      BY DEF SweptInv
  <1>0. TypeInv /\ StageInv /\ SweptInv /\ FoundInv /\ Grows
      BY TypesNext DEF SessionInv
  <1>1. Access(p).pair = p
      BY DEF Access
  <1>2. p \in Issued /\ Gone(Access(p))
    <2>1. CASE p \in swept
      BY <1>0, <2>1 DEF SweptInv
    <2>2. CASE p \notin swept
      <3>1. PICK r \in Requests, fails \in BOOLEAN : ClearSessions(r, fails)
        BY <1>0, <2>2, Frames DEF Issue
      <3> QED BY <1>0, <2>2, <3>1 DEF ClearSessions, FoundInv, Covered
    <2> QED BY <2>1, <2>2
  <1> QED BY <1>0, <1>1, <1>2, GoneStays DEF Grows

LEMMA TrackNext == SessionInv /\ [Next]_vars => TrackInv'
  <1> SUFFICES ASSUME SessionInv, [Next]_vars, NEW p \in Issued'
               PROVE  Covered(p)' \/ p \in tracked'
      BY DEF TrackInv
  <1>0. TypeInv /\ StageInv /\ TrackInv /\ FoundInv /\ Grows
      BY TypesNext DEF SessionInv
  <1>1. CASE p \in Issued /\ Covered(p)
      BY <1>0, <1>1, CoveredStays
  <1>2. CASE UNCHANGED <<pairs, tracked>>
      BY <1>0, <1>1, <1>2 DEF TrackInv, Issued
  <1>3. ASSUME NEW r \in Requests, NEW fails \in BOOLEAN, ClearSessions(r, fails)
        PROVE  p \in Issued /\ Covered(p)
      BY <1>0, <1>3 DEF FoundInv, ClearSessions, Issued
  <1>4. ASSUME NEW r \in Requests, NEW fails \in BOOLEAN, Issue(r, fails)
        PROVE  Covered(p)' \/ p \in tracked'
    <2>1. PICK q \in Issued' \ Issued :
              /\ Issued' = Issued \cup {q}
              /\ tracked' = (IF fails THEN tracked ELSE tracked \cup {q})
              /\ missed' = (IF fails THEN missed \cup {Access(q)} ELSE missed)
      BY <1>0, <1>4, IssueEffect
    <2>2. CASE p = q
      BY <2>1, <2>2 DEF Covered, Gone
    <2>3. CASE p # q
      BY <1>0, <1>1, <2>1, <2>3 DEF TrackInv
    <2> QED BY <2>2, <2>3
  <1> QED BY <1>0, <1>1, <1>2, <1>3, <1>4, Frames

LEMMA FoundNext == SessionInv /\ [Next]_vars => FoundInv'
  <1> SUFFICES ASSUME SessionInv, [Next]_vars, NEW r \in Requests, req'[r].at = "apply", NEW p \in Issued'
               PROVE  Covered(p)' \/ p \in req'[r].found
      BY DEF FoundInv
  <1>0. TypeInv /\ StageInv /\ TrackInv /\ FoundInv /\ DuringInv /\ Grows
      BY TypesNext DEF SessionInv
  <1>1. CASE p \in Issued /\ Covered(p)
      BY <1>0, <1>1, CoveredStays
  <1>2. CASE p \notin Issued
    <2>1. PICK s \in Requests, fails \in BOOLEAN : Issue(s, fails)
      BY <1>0, <1>2, Frames DEF Issued, ClearSessions
    <2>2. req[s].at = "issue" /\ Ends(s) /\ pairs'[p].during = req[s].during
      BY <1>0, <1>2, <2>1, IssueEffect
    <2>3. req[s].op \in Issuing
      BY <1>0, <2>2 DEF StageInv, Stages, Issuing, TypeInv, Request
    <2>4. req[r].at = "apply"
      BY <1>0, <2>2 DEF Ends, NoRequest, TypeInv
    <2>5. req[r].op \in Revoking
      BY <1>0, <2>4 DEF StageInv, Stages, Revoking, TypeInv, Request
    <2> QED BY <1>0, <2>2, <2>3, <2>5 DEF DuringInv, Covered
  <1>3. CASE p \in Issued /\ ~Covered(p) /\ req[r].at = "apply"
    <2>1. p \in req[r].found
      BY <1>0, <1>3 DEF FoundInv
    <2>2. req'[r].found = req[r].found \/ \E q \in Pairs, fails \in BOOLEAN : RevokeSession(r, q, fails)
      <3>1. ~BeginStep(r)
        BY <1>0, BeginEffect
      <3>2. ~RefreshMember(r) /\ \A fails \in BOOLEAN : ~ReadSessions(r, fails)
        BY <1>3 DEF RefreshMember, ReadSessions
      <3>3. \A fails \in BOOLEAN : ~ClearSessions(r, fails)
        BY <1>0 DEF ClearSessions, Goes, TypeInv, Request
      <3> QED BY <1>0, <3>1, <3>2, <3>3, Moves DEF NoRequest
    <2>3. ASSUME NEW q \in Pairs, NEW fails \in BOOLEAN, RevokeSession(r, q, fails)
          PROVE  Covered(p)' \/ p \in req'[r].found
      <3>1. req'[r].found = req[r].found \ {q}
        BY <1>0, <2>3 DEF RevokeSession, TypeInv, Request
      <3>2. CASE p = q
        <4>1. Revoke({Access(q)}, fails) /\ Access(q).pair = q /\ UNCHANGED <<pairs, now>>
          BY <2>3 DEF RevokeSession, Access
        <4>2. Gone(Access(q))'
          BY <1>0, <1>3, <3>2, <4>1, RevokeGone
        <4> QED BY <3>2, <4>2 DEF Covered
      <3> QED BY <2>1, <3>1, <3>2
    <2> QED BY <2>1, <2>2, <2>3
  <1>4. CASE p \in Issued /\ req[r].at # "apply"
    <2>1. PICK fails \in BOOLEAN : ReadSessions(r, fails)
      <3>1. ~BeginStep(r)
        BY <1>0, BeginEffect
      <3>2. ~RefreshMember(r)
        BY <1>0 DEF RefreshMember, Ends, NoRequest, TypeInv, Request
      <3>3. \A fails \in BOOLEAN : ~ClearSessions(r, fails) /\ \A q \in Pairs : ~RevokeSession(r, q, fails)
        BY <1>4 DEF ClearSessions, RevokeSession
      <3> QED BY <1>0, <1>4, <3>1, <3>2, <3>3, Moves DEF NoRequest
    <2>2. ~fails /\ req'[r].found = tracked
      BY <2>1, <1>0 DEF ReadSessions, Found, TypeInv, Request
    <2> QED BY <1>0, <1>1, <1>4, <2>2 DEF TrackInv
  <1> QED BY <1>1, <1>2, <1>3, <1>4

LEMMA DuringNext == SessionInv /\ [Next]_vars => DuringInv'
  <1> SUFFICES ASSUME SessionInv, [Next]_vars, NEW r \in Requests, NEW s \in Requests,
                      req'[r].op \in Revoking, req'[s].op \in Issuing
               PROVE  req'[s].during
      BY DEF DuringInv
  <1>0. TypeInv /\ DuringInv
      BY DEF SessionInv
  <1>1. ASSUME NEW q \in Requests, BeginStep(q) PROVE req'[s].during
    <2>1. CASE q = s
      <3>1. r # s
        BY <2>1 DEF Issuing, Revoking
      <3>2. r \in Running(Revoking)
        BY <1>0, <1>1, <2>1, <3>1, BeginEffect DEF Running
      <3> QED BY <1>0, <1>1, <2>1, <3>2, BeginEffect
    <2>2. CASE q = r
      BY <1>0, <1>1, <2>2, BeginEffect DEF Issuing, Revoking
    <2>3. CASE q # s /\ q # r
      BY <1>0, <1>1, <2>3, BeginEffect DEF DuringInv
    <2> QED BY <2>1, <2>2, <2>3
  <1>2. CASE \A q \in Requests : Kept(q)
    <2>1. req'[r] # NoRequest /\ req'[s] # NoRequest
      BY DEF NoRequest, Issuing, Revoking
    <2> QED BY <1>0, <1>2, <2>1 DEF DuringInv, Kept
  <1> QED BY <1>0, <1>1, <1>2, Classify

LEMMA SealNext == SessionInv /\ [Next]_vars => SealInv'
  <1> SUFFICES ASSUME SessionInv, [Next]_vars PROVE SealInv'
      OBVIOUS
  <1>0. TypeInv /\ StageInv /\ FoundInv /\ DuringInv /\ SealInv /\ Grows
      BY TypesNext DEF SessionInv
  <1>n. ASSUME NEW p \in Issued', p \notin Issued
        PROVE  \E s \in Requests : /\ req[s].at = "issue" /\ req[s].op \in Issuing /\ Ends(s)
                                   /\ pairs'[p].during = req[s].during /\ member' = member
    <2>1. PICK s \in Requests, fails \in BOOLEAN : Issue(s, fails)
      BY <1>0, <1>n, Frames DEF Issued, ClearSessions
    <2>2. req[s].at = "issue" /\ Ends(s) /\ pairs'[p].during = req[s].during /\ member' = member
      BY <1>0, <1>n, <2>1, IssueEffect
    <2>3. req[s].op \in Issuing
      BY <1>0, <2>2 DEF StageInv, Stages, Issuing, TypeInv, Request
    <2> QED BY <2>2, <2>3
  <1>1. ASSUME NEW r \in Requests, req'[r].op = "deactivate", req'[r].at = "commit", NEW p \in Issued'
        PROVE  Covered(p)'
    <2>1. CASE p \in Issued /\ Covered(p)
      BY <1>0, <2>1, CoveredStays
    <2>2. CASE p \notin Issued
      <3>1. PICK s \in Requests : /\ req[s].at = "issue" /\ req[s].op \in Issuing /\ Ends(s)
                                  /\ pairs'[p].during = req[s].during
        BY <1>n, <2>2
      <3>2. req[r].op = "deactivate"
        BY <1>0, <1>1, <3>1 DEF Ends, NoRequest, TypeInv
      <3> QED BY <1>0, <3>1, <3>2 DEF DuringInv, Covered, Revoking
    <2>3. CASE p \in Issued /\ ~Covered(p)
      <3>1. ~(req[r].op = "deactivate" /\ req[r].at = "commit")
        BY <1>0, <2>3 DEF SealInv
      <3>2. ~BeginStep(r)
        BY <1>0, <1>1, BeginEffect
      <3>3. ~RefreshMember(r)
        BY <1>0, <1>1 DEF RefreshMember, Ends, NoRequest, TypeInv, Request
      <3>4. \E fails \in BOOLEAN : ReadSessions(r, fails) \/ ClearSessions(r, fails)
        <4>1. \A fails \in BOOLEAN : \A q \in Pairs : ~RevokeSession(r, q, fails)
          BY <1>0, <1>1 DEF RevokeSession, TypeInv, Request
        <4> QED BY <1>0, <1>1, <3>1, <3>2, <3>3, <4>1, Moves DEF NoRequest
      <3>5. CASE \E fails \in BOOLEAN : ReadSessions(r, fails)
        <4>1. PICK fails \in BOOLEAN : ReadSessions(r, fails)
          BY <3>5
        <4>2. fails
          BY <1>0, <1>1, <4>1 DEF ReadSessions, TypeInv, Request
        <4>3. Access(p) \in missed'
          BY <2>3, <4>1, <4>2 DEF ReadSessions
        <4> QED BY <4>3 DEF Covered, Gone
      <3>6. ~ \E fails \in BOOLEAN : ClearSessions(r, fails)
        BY <1>0, <2>3 DEF FoundInv, ClearSessions
      <3> QED BY <3>4, <3>5, <3>6
    <2> QED BY <2>1, <2>2, <2>3
  <1>2. ASSUME member.active, ~member'.active
        PROVE  \E r \in Requests : /\ Commit(r) /\ req[r].op = "deactivate" /\ req[r].at = "commit"
    <2>1. ASSUME NEW s \in Requests PROVE ~BeginStep(s)
      BY <1>0, <1>2, <2>1, BeginEffect
    <2>2. ASSUME NEW s \in Requests,
                 \/ RefreshMember(s) \/ Fails(s)
                 \/ \E fails \in BOOLEAN : \/ RefreshRevoke(s, fails) \/ Issue(s, fails)
                                           \/ LogoutAccess(s, fails) \/ ReadSessions(s, fails)
                                           \/ ClearSessions(s, fails)
                                           \/ \E p \in Pairs : RevokeSession(s, p, fails)
                                           \/ \E sent \in BOOLEAN : LogoutRefresh(s, sent, fails)
          PROVE  FALSE
      BY <1>2, <2>2 DEF RefreshMember, RevokeSession, ClearSessions, Fails, RefreshRevoke, Issue,
                        LogoutAccess, ReadSessions, LogoutRefresh
    <2>3. PICK s \in Requests : Commit(s)
      BY <1>2, <2>1, <2>2 DEF Next, BeginStep, Tick, vars
    <2>4. req[s].at = "commit" /\ req[s].op = "deactivate"
      BY <1>0, <1>2, <2>3 DEF Commit, Row, TypeInv
    <2> QED BY <2>3, <2>4
  <1>3. ASSUME ~member'.active, NEW p \in Issued' PROVE Covered(p)'
    <2>1. CASE p \in Issued /\ Covered(p)
      BY <1>0, <2>1, CoveredStays
    <2>2. CASE p \notin Issued
      <3>1. PICK s \in Requests : /\ req[s].at = "issue" /\ req[s].op \in Issuing
                                  /\ pairs'[p].during = req[s].during /\ member' = member
        BY <1>n, <2>2
      <3> QED BY <1>0, <1>3, <3>1 DEF SealInv, Covered
    <2>3. CASE p \in Issued /\ ~Covered(p)
      BY <1>0, <1>2, <1>3, <2>3 DEF SealInv
    <2> QED BY <2>1, <2>2, <2>3
  <1>4. ASSUME ~member'.active, NEW r \in Requests, req'[r].op \in Issuing, req'[r].at # "member"
        PROVE  req'[r].during
    <2>1. CASE member.active
      <3>1. PICK s \in Requests : Commit(s) /\ req[s].op = "deactivate"
        BY <1>2, <1>4, <2>1
      <3>2. s # r
        BY <1>4, <3>1 DEF Commit, NoRequest, Issuing
      <3> DEFINE t == IF req[r].seen = {} THEN req[r].seen ELSE req[r].seen \cup {Row(s).role}
      <3>3. req'[r] = [req[r] EXCEPT !.seen = t] /\ req[r] \in Request
        BY <3>1, <3>2, <1>0 DEF Commit, TypeInv
      <3>4. req'[r].op = req[r].op /\ req'[r].during = req[r].during
        <4> HIDE DEF t
        <4> QED BY <3>3 DEF Request
      <3> QED BY <1>0, <1>4, <3>1, <3>4 DEF DuringInv, Revoking
    <2>2. CASE ~member.active
      <3>1. ~BeginStep(r)
        <4>1. StageInv'
          BY <1>0, TypesNext
        <4>2. req'[r].at \in {"issue", "member", "revoke"}
          BY <1>4, <4>1 DEF StageInv, Stages, Issuing
        <4> QED BY <1>0, <1>4, <2>2, <4>2, BeginEffect
      <3>2. req'[r] # NoRequest
        BY <1>4 DEF NoRequest, Issuing
      <3>3. req'[r].op = req[r].op /\ (req[r].during => req'[r].during)
        <4>1. ASSUME NEW s \in Requests \ {r}, BeginStep(s) PROVE <3>3
          BY <1>0, <4>1, BeginEffect
        <4>2. CASE \A s \in Requests : Kept(s)
          BY <3>2, <4>2 DEF Kept
        <4> QED BY <1>0, <3>1, <4>1, <4>2, Classify
      <3>4. req[r].at # "member"
        <4>1. ~RefreshMember(r)
          BY <1>0, <2>2, <3>2 DEF RefreshMember, Ends, TypeInv
        <4>2. req[r].at = "member" => \A fails \in BOOLEAN :
                /\ ~ReadSessions(r, fails) /\ ~ClearSessions(r, fails)
                /\ \A q \in Pairs : ~RevokeSession(r, q, fails)
          BY DEF RevokeSession, ClearSessions, ReadSessions
        <4> QED BY <1>0, <1>4, <3>1, <3>2, <4>1, <4>2, Moves
      <3> QED BY <1>0, <1>4, <2>2, <3>3, <3>4 DEF SealInv
    <2> QED BY <1>0, <2>1, <2>2 DEF TypeInv
  <1> QED BY <1>1, <1>3, <1>4 DEF SealInv

LEMMA SessionNext == SessionInv /\ [Next]_vars => SessionInv'
  BY TypesNext, OutNext, SweptNext, TrackNext, FoundNext, DuringNext, SealNext DEF SessionInv

LEMMA SessionInit == Init => SessionInv
  <1> SUFFICES ASSUME Init PROVE SessionInv
      OBVIOUS
  <1>1. TypeInv /\ StageInv
      BY InitTypes
  <1>2. Issued = {} /\ out = {} /\ swept = {} /\ tracked = {} /\ member.active
      BY DEF Init, Issued
  <1>3. \A r \in Requests : req[r].op = "none" /\ req[r].at = "idle"
      BY DEF Init, NoRequest
  <1> QED BY <1>1, <1>2, <1>3 DEF SessionInv, OutInv, SweptInv, TrackInv, FoundInv, DuringInv, SealInv, Revoking

\* A token logged out or used up, and an access token of a session that was
\* there when all were revoked, is not accepted before the last unit of its
\* lifetime, unless Redis failed over it: however many requests, pairs and
\* faults there are.
THEOREM RevokedTokensAreOut == Spec => []RevokedIsOut
  <1>1. SessionInv => RevokedIsOut
    <2> SUFFICES ASSUME SessionInv, NEW t \in (out \cup {Access(p) : p \in swept}) \ missed, Accepts(t)
                 PROVE  now = Expiry(t)
      BY DEF RevokedIsOut
    <2>1. TypeInv /\ t.pair \in Issued /\ Gone(t)
      BY DEF SessionInv, OutInv, SweptInv, Access
    <2>2. Expiry(t) \in Nat /\ now \in Nat
      BY <2>1, ExpiryNat DEF TypeInv
    <2> QED BY <2>1, <2>2 DEF Gone, Accepts, Decodes, IsRevoked
  <1> QED BY <1>1, SessionInit, SessionNext, PTL DEF Spec

\* A deactivated member's access token is accepted only if it was issued by a
\* request that ran while the sessions were revoked, or Redis lost it.
THEOREM DeactivatedMembersAreOut == Spec => []DeactivatedIsOut
  <1>1. SessionInv => DeactivatedIsOut
    <2> SUFFICES ASSUME SessionInv, ~member.active, NEW p \in Issued, Accepts(Access(p))
                 PROVE  pairs[p].during \/ Access(p) \in missed \/ now = Expiry(Access(p))
      BY DEF DeactivatedIsOut
    <2>1. TypeInv /\ Covered(p) /\ Access(p).pair = p
      BY DEF SessionInv, SealInv, Access
    <2>2. Expiry(Access(p)) \in Nat /\ now \in Nat
      BY <2>1, ExpiryNat DEF TypeInv
    <2> QED BY <2>1, <2>2 DEF Covered, Gone, Accepts, Decodes, IsRevoked
  <1> QED BY <1>1, SessionInit, SessionNext, PTL DEF Spec

(***************************************************************************)
(* The role a token carries.                                               *)
(***************************************************************************)
RoleInv == /\ RoleWasCurrent
           /\ \A r \in Requests : req[r].op \in Issuing =>
                 /\ member.role \in req[r].seen
                 /\ req[r].at \in {"revoke", "issue"} => req[r].role \in req[r].seen

LEMMA RoleNext == TypeInv /\ StageInv /\ RoleInv /\ [Next]_vars => RoleInv'
  <1> SUFFICES ASSUME TypeInv, StageInv, RoleInv, [Next]_vars PROVE RoleInv'
      OBVIOUS
  <1>0. Grows /\ req \in [Requests -> Request]
      BY TypesNext DEF TypeInv
  <1>1. RoleWasCurrent'
    <2> SUFFICES ASSUME NEW p \in Issued' PROVE pairs'[p].current
      BY DEF RoleWasCurrent
    <2>1. CASE p \in Issued
      BY <1>0, <2>1 DEF Grows, RoleInv, RoleWasCurrent
    <2>2. CASE p \notin Issued
      <3>1. PICK s \in Requests, fails \in BOOLEAN : Issue(s, fails)
        BY <2>2, Frames DEF Issued, ClearSessions
      <3>2. pairs'[p].current = (req[s].role \in req[s].seen) /\ req[s].at = "issue"
        BY <2>2, <3>1, IssueEffect
      <3>3. req[s].op \in Issuing
        BY <1>0, <3>2 DEF StageInv, Stages, Issuing, Request
      <3> QED BY <3>2, <3>3 DEF RoleInv
    <2> QED BY <2>1, <2>2
  <1>2. ASSUME NEW r \in Requests, req'[r].op \in Issuing
        PROVE  /\ member'.role \in req'[r].seen
               /\ req'[r].at \in {"revoke", "issue"} => req'[r].role \in req'[r].seen
    <2> DEFINE Kept1 == /\ member'.role \in req'[r].seen
                        /\ req'[r].at \in {"revoke", "issue"} => req'[r].role \in req'[r].seen
    <2>0. req'[r] # NoRequest /\ req'[r].op # "none"
      BY <1>2 DEF NoRequest, Issuing
    <2>1. ASSUME NEW s \in Requests, BeginStep(s) PROVE Kept1
      <3>1. CASE s = r
        BY <1>2, <2>1, <3>1, BeginEffect
      <3>2. CASE s # r
        BY <1>2, <2>1, <3>2, BeginEffect DEF RoleInv
      <3> QED BY <3>1, <3>2
    <2>2. ASSUME NEW s \in Requests, Commit(s) PROVE Kept1
      <3>1. s # r
        BY <2>0, <2>2 DEF Commit
      <3> DEFINE t == IF req[r].seen = {} THEN req[r].seen ELSE req[r].seen \cup {Row(s).role}
      <3>2. req'[r] = [req[r] EXCEPT !.seen = t] /\ req[r] \in Request
        BY <1>0, <2>2, <3>1 DEF Commit
      <3> HIDE DEF t
      <3>3. /\ req'[r].seen = t /\ req'[r].op = req[r].op /\ req'[r].at = req[r].at
            /\ req'[r].role = req[r].role
        BY <3>2 DEF Request
      <3>4. member.role \in req[r].seen
        BY <1>2, <3>3 DEF RoleInv
      <3>5. t = req[r].seen \cup {Row(s).role} /\ member' = Row(s)
        BY <2>2, <3>4 DEF t, Commit
      <3> QED BY <1>2, <3>3, <3>4, <3>5 DEF RoleInv
    <2>3. ASSUME NEW s \in Requests, RefreshMember(s) PROVE Kept1
      <3>1. CASE s = r
        <4>1. /\ req'[r] = [req[r] EXCEPT !.at = "revoke", !.role = member.role]
              /\ member' = member
          BY <1>0, <2>0, <2>3, <3>1 DEF RefreshMember, Ends
        <4> QED BY <1>0, <1>2, <4>1 DEF RoleInv, Request
      <3>2. CASE s # r
        <4>1. req'[r] = req[r] /\ member' = member
          BY <1>0, <2>3, <3>2 DEF RefreshMember, Ends
        <4> QED BY <1>2, <4>1 DEF RoleInv
      <3> QED BY <3>1, <3>2
    <2>4. ASSUME NEW s \in Requests, NEW fails \in BOOLEAN, RefreshRevoke(s, fails) PROVE Kept1
      <3>1. req[s].at = "revoke" /\ req' = [req EXCEPT ![s].at = "issue"] /\ member' = member
        BY <2>4 DEF RefreshRevoke, Goes
      <3> QED BY <1>0, <1>2, <3>1 DEF RoleInv, Request
    <2>5. ASSUME NEW s \in Requests,
                 \/ Fails(s)
                 \/ \E fails \in BOOLEAN : \/ Issue(s, fails) \/ LogoutAccess(s, fails) \/ ReadSessions(s, fails)
                                           \/ ClearSessions(s, fails)
                                           \/ \E p \in Pairs : RevokeSession(s, p, fails)
                                           \/ \E sent \in BOOLEAN : LogoutRefresh(s, sent, fails)
          PROVE  Kept1
      <3>1. member' = member
        BY <2>5 DEF RevokeSession, ClearSessions, Fails, Issue, LogoutAccess, ReadSessions, LogoutRefresh
      <3>2. CASE s = r
        <4>0. ~Fails(r) /\ \A fails \in BOOLEAN : ~Issue(r, fails)
          BY <1>0, <2>0 DEF Fails, Issue, Ends
        <4>1. req[r].op = req'[r].op
          <5>1. ASSUME NEW fails \in BOOLEAN, NEW p \in Pairs, RevokeSession(r, p, fails)
                PROVE  <4>1
            BY <1>0, <5>1 DEF RevokeSession, Request
          <5>2. ASSUME NEW fails \in BOOLEAN, LogoutAccess(r, fails) PROVE <4>1
            BY <1>0, <5>2 DEF LogoutAccess, Goes, Request
          <5>3. ASSUME NEW fails \in BOOLEAN, ReadSessions(r, fails) PROVE <4>1
            BY <1>0, <5>3 DEF ReadSessions, Request
          <5>4. ASSUME NEW fails \in BOOLEAN, NEW sent \in BOOLEAN, LogoutRefresh(r, sent, fails) PROVE <4>1
            BY <1>0, <2>0, <5>4 DEF LogoutRefresh, Ends, Request
          <5>5. ASSUME NEW fails \in BOOLEAN, ClearSessions(r, fails) PROVE <4>1
            BY <1>0, <5>5 DEF ClearSessions, Goes, Request
          <5> QED BY <2>5, <3>2, <4>0, <5>1, <5>2, <5>3, <5>4, <5>5
        <4>2. req[r].at \in {"apply", "access", "all", "refresh"}
          BY <1>0, <2>0, <2>5, <3>2 DEF RevokeSession, ClearSessions, Fails, Issue, LogoutAccess, ReadSessions,
                                        LogoutRefresh, Ends
        <4> QED BY <1>2, <4>1, <4>2 DEF StageInv, Stages, Issuing
      <3>3. CASE s # r
        <4>1. req'[r] = req[r]
          BY <1>0, <2>5, <3>3 DEF RevokeSession, ClearSessions, Fails, Issue, LogoutAccess, ReadSessions,
                                  LogoutRefresh, Ends, Goes
        <4> QED BY <1>2, <3>1, <4>1 DEF RoleInv
      <3> QED BY <3>2, <3>3
    <2>6. ASSUME UNCHANGED <<req, member>> PROVE Kept1
      BY <1>2, <2>6 DEF RoleInv
    <2>7. ASSUME Tick \/ UNCHANGED vars PROVE Kept1
      <3>1. CASE Tick
        BY <2>6, <3>1 DEF Tick
      <3>2. CASE UNCHANGED vars
        BY <2>6, <3>2 DEF vars
      <3> QED BY <2>7, <3>1, <3>2
    <2> HIDE DEF Kept1
    <2>8. ASSUME NEW s \in Requests, ~BeginStep(s),
                 \/ Login(s) \/ RefreshMember(s) \/ Deactivate(s)
                 \/ Commit(s) \/ Fails(s)
                 \/ \E role \in Roles : UpdateRole(s, role)
                 \/ \E p \in Issued : ChangePassword(s, p) \/ \E all \in BOOLEAN : Logout(s, p, all)
                 \/ \E fails \in BOOLEAN :
                      \/ RefreshRevoke(s, fails) \/ Issue(s, fails) \/ LogoutAccess(s, fails)
                      \/ ReadSessions(s, fails) \/ ClearSessions(s, fails)
                      \/ \E p \in Pairs : RevokeSession(s, p, fails)
                      \/ \E p \in Issued : RefreshBegin(s, p, fails)
                      \/ \E sent \in BOOLEAN : LogoutRefresh(s, sent, fails)
          PROVE  Kept1
      BY <2>2, <2>3, <2>4, <2>5, <2>8 DEF BeginStep
    <2>9. ASSUME Next PROVE Kept1
      BY <2>1, <2>7, <2>8, <2>9 DEF Next
    <2>10. Kept1
      BY <2>7, <2>9
    <2> QED BY <2>10 DEF Kept1
  <1> QED BY <1>1, <1>2 DEF RoleInv

\* A token carries no role the member had lost when the request that issued
\* it began, whatever role changes and deactivations run beside it.
THEOREM RolesAreCurrent == Spec => []RoleWasCurrent
  <1>1. Init => RoleInv
    <2> SUFFICES ASSUME Init PROVE RoleInv
      OBVIOUS
    <2>1. Issued = {} /\ \A r \in Requests : req[r].op = "none"
      BY DEF Init, NoRequest, Issued
    <2> QED BY <2>1 DEF RoleInv, RoleWasCurrent, Issuing
  <1>2. RoleInv => RoleWasCurrent
    BY DEF RoleInv
  <1> QED BY <1>1, <1>2, InitTypes, TypesNext, RoleNext, PTL DEF Spec

(***************************************************************************)
(* A refresh token is used once.                                           *)
(***************************************************************************)
\* A request that is past the revocation, and every pair that came from one,
\* left the refresh token revoked; those that were under way together know.
UseInv ==
    /\ SingleUse
    /\ \A r \in Requests : req[r].op = "refresh" /\ req[r].at = "issue" => Refresh(req[r].pair) \in out
    /\ \A q \in Issued : pairs[q].from # 0 => Refresh(pairs[q].from) \in out
    /\ \A r, s \in Requests :
          (r # s /\ req[r].op = "refresh" /\ req[s].op = "refresh" /\ req[r].pair = req[s].pair)
              => req[r].raced /\ req[s].raced
    /\ \A r \in Requests : req[r].op = "refresh" => \A q \in Issued :
          pairs[q].from = req[r].pair =>
              \/ req[r].raced /\ pairs[q].raced
              \/ Refresh(req[r].pair) \in missed

\* A token of no use gets through only when Redis fails over it.
LEMMA RefreshedAgain ==
    ASSUME TypeInv, NEW r \in Requests, BeginStep(r), req'[r].op = "refresh",
           Refresh(req'[r].pair) \in out, OutInv
    PROVE  Refresh(req'[r].pair) \in missed'
  <1> DEFINE x(op, step, p, role) ==
               [NoRequest EXCEPT !.op = op, !.at = step, !.pair = p, !.role = role,
                   !.seen = IF op \in Issuing THEN {member.role} ELSE {},
                   !.during = op \in Issuing /\ Running(Revoking) # {},
                   !.raced = op = "refresh" /\ \E s \in Running({"refresh"}) : req[s].pair = p]
  <1>1. ASSUME NEW op, NEW step, NEW p, NEW role, Begins(r, op, step, p, role)
        PROVE  req'[r].op = op /\ req'[r].pair = p
    <2>1. req'[r] = x(op, step, p, role)
      BY <1>1 DEF Begins
    <2>2. x(op, step, p, role).op = op /\ x(op, step, p, role).pair = p
      BY DEF NoRequest
    <2> QED BY <2>1, <2>2
  <1>2. PICK p \in Issued, fails \in BOOLEAN : RefreshBegin(r, p, fails)
    <2>1. ~Login(r) /\ ~Deactivate(r)
      BY <1>1 DEF Login, Deactivate
    <2>2. \A role \in Roles : ~UpdateRole(r, role)
      BY <1>1 DEF UpdateRole
    <2>3. \A p \in Issued : ~ChangePassword(r, p) /\ \A all \in BOOLEAN : ~Logout(r, p, all)
      BY <1>1 DEF ChangePassword, Logout
    <2> QED BY <2>1, <2>2, <2>3 DEF BeginStep
  <1>3. /\ req'[r].pair = p
        /\ missed' = IF Refresh(p) \in denied \/ now = Expiry(Refresh(p))
                     THEN missed \cup {Refresh(p)} ELSE missed
        /\ now <= Expiry(Refresh(p))
    BY <1>1, <1>2 DEF RefreshBegin, Decodes
  <1>4. Gone(Refresh(p)) /\ Refresh(p).pair = p
    BY <1>3 DEF OutInv, Refresh
  <1>5. Expiry(Refresh(p)) \in Nat /\ now \in Nat
    BY <1>4, ExpiryNat DEF TypeInv
  <1> QED BY <1>3, <1>4, <1>5 DEF Gone

LEMMA UseNext == SessionInv /\ UseInv /\ [Next]_vars => UseInv'
  <1> SUFFICES ASSUME SessionInv, UseInv, [Next]_vars PROVE UseInv'
      OBVIOUS
  <1>0. TypeInv /\ StageInv /\ OutInv /\ Grows /\ StageInv' /\ TypeInv'
      BY TypesNext DEF SessionInv
  <1>1. 0 \notin Issued /\ 0 \notin Issued'
      BY <1>0 DEF TypeInv
  <1>2. ASSUME NEW r \in Requests, req'[r].op = "refresh" PROVE req'[r].pair # 0
      BY <1>0, <1>1, <1>2 DEF StageInv
  <1>3. out \subseteq out'
    <2>1. ASSUME NEW r \in Requests, NEW fails, ClearSessions(r, fails) PROVE out \subseteq out'
      BY <2>1 DEF ClearSessions
    <2>2. ASSUME NEW ts, NEW fails, Revoke(ts, fails) PROVE out \subseteq out'
      BY <2>2 DEF Revoke
    <2>3. ASSUME NEW r \in Requests, NEW fails, Issue(r, fails) PROVE out \subseteq out'
      BY <2>3 DEF Issue
    <2> QED BY <1>0, <2>1, <2>2, <2>3, Frames
  <1>4. CASE \E b \in Requests : BeginStep(b)
    <2>1. PICK b \in Requests : BeginStep(b)
      BY <1>4
    <2>2. UNCHANGED <<pairs, out>> /\ Issued' = Issued
      BY <1>0, <2>1, BeginEffect DEF Issued
    <2>3. SingleUse'
      BY <1>0, <2>2 DEF UseInv, SingleUse, Grows
    <2>4. ASSUME NEW r \in Requests, req'[r].op = "refresh", req'[r].at = "issue"
          PROVE  Refresh(req'[r].pair) \in out'
      <3>1. r # b
        BY <1>0, <2>1, <2>4, BeginEffect
      <3> QED BY <1>0, <2>1, <2>2, <2>4, <3>1, BeginEffect DEF UseInv
    <2>5. \A q \in Issued' : pairs'[q].from # 0 => Refresh(pairs'[q].from) \in out'
      BY <2>2 DEF UseInv
    <2>6. ASSUME NEW r \in Requests, NEW s \in Requests, r # s, req'[r].op = "refresh",
                 req'[s].op = "refresh", req'[r].pair = req'[s].pair
          PROVE  req'[r].raced /\ req'[s].raced
      <3>1. CASE b # r /\ b # s
        BY <1>0, <2>1, <2>6, <3>1, BeginEffect DEF UseInv
      <3>2. CASE b = r
        <4>1. s \in Running({"refresh"}) /\ req[s].pair = req'[r].pair /\ req[s].op = "refresh"
          BY <1>0, <2>1, <2>6, <3>2, BeginEffect DEF Running
        <4> QED BY <1>0, <2>1, <2>6, <3>2, <4>1, BeginEffect
      <3>3. CASE b = s
        <4>1. r \in Running({"refresh"}) /\ req[r].pair = req'[s].pair /\ req[r].op = "refresh"
          BY <1>0, <2>1, <2>6, <3>3, BeginEffect DEF Running
        <4> QED BY <1>0, <2>1, <2>6, <3>3, <4>1, BeginEffect
      <3> QED BY <3>1, <3>2, <3>3
    <2>7. ASSUME NEW r \in Requests, req'[r].op = "refresh", NEW q \in Issued', pairs'[q].from = req'[r].pair
          PROVE  (req'[r].raced /\ pairs'[q].raced) \/ Refresh(req'[r].pair) \in missed'
      <3>1. CASE b = r
        <4>1. Refresh(req'[r].pair) \in out
          BY <1>2, <2>2, <2>7 DEF UseInv
        <4> QED BY <1>0, <2>1, <2>7, <3>1, <4>1, RefreshedAgain
      <3>2. CASE b # r
        <4>1. /\ req[r].op = "refresh" /\ req[r].pair = req'[r].pair
              /\ req[r].raced => req'[r].raced
          BY <1>0, <2>1, <2>7, <3>2, BeginEffect
        <4> QED BY <1>0, <2>2, <2>7, <4>1 DEF UseInv, Grows
      <3> QED BY <3>1, <3>2
    <2> QED BY <2>3, <2>4, <2>5, <2>6, <2>7 DEF UseInv
  <1>5. CASE (\A r \in Requests : Kept(r)) /\ (\A b \in Requests : ~BeginStep(b))
    <2>1. ASSUME NEW r \in Requests, req'[r].op = "refresh"
          PROVE  /\ req[r].op = "refresh" /\ req[r].pair = req'[r].pair
                 /\ req[r].raced => req'[r].raced
                 /\ req'[r] # NoRequest
      BY <1>5, <2>1 DEF Kept, NoRequest
    <2>2. ASSUME NEW q \in Issued', q \notin Issued, pairs'[q].from # 0
          PROVE  \E s \in Requests : /\ req[s].op = "refresh" /\ req[s].at = "issue"
                                     /\ pairs'[q].from = req[s].pair /\ pairs'[q].raced = req[s].raced
                                     /\ req'[s] = NoRequest /\ Issued' = Issued \cup {q}
      <3>1. PICK s \in Requests, fails \in BOOLEAN : Issue(s, fails)
        BY <1>0, <2>2, Frames DEF Issued, ClearSessions
      <3>2. /\ pairs'[q].from = req[s].pair /\ pairs'[q].raced = req[s].raced /\ req[s].at = "issue"
            /\ Ends(s) /\ Issued' = Issued \cup {q}
        BY <1>0, <2>2, <3>1, IssueEffect
      <3>3. req[s].op \in {"login", "refresh"}
        BY <1>0, <3>2 DEF StageInv, Stages, TypeInv, Request
      <3>4. req[s].op = "refresh"
        BY <1>0, <2>2, <3>2, <3>3 DEF StageInv
      <3>5. req'[s] = NoRequest
        BY <1>0, <3>2 DEF Ends, TypeInv
      <3> QED BY <3>2, <3>4, <3>5
    <2>3. ASSUME NEW r \in Requests, req'[r].op = "refresh", req'[r].at = "issue"
          PROVE  Refresh(req'[r].pair) \in out'
      <3>1. CASE req[r].at = "issue"
        BY <1>3, <2>1, <2>3, <3>1 DEF UseInv
      <3>2. CASE req[r].at # "issue"
        <4>1. ~RefreshMember(r)
          BY <1>0, <2>3 DEF RefreshMember, Ends, NoRequest, TypeInv, Request
        <4>2. \A fails \in BOOLEAN : ~ClearSessions(r, fails) /\ \A q \in Pairs : ~RevokeSession(r, q, fails)
          BY <1>0, <2>3, <3>2 DEF ClearSessions, RevokeSession, Goes, TypeInv, Request
        <4>3. \A fails \in BOOLEAN : ~ReadSessions(r, fails)
          BY <1>0, <2>3 DEF ReadSessions, TypeInv, Request
        <4> QED BY <1>0, <1>5, <2>1, <2>3, <3>2, <4>1, <4>2, <4>3, Moves
      <3> QED BY <3>1, <3>2
    <2>4. ASSUME NEW q \in Issued', pairs'[q].from # 0 PROVE Refresh(pairs'[q].from) \in out'
      <3>1. CASE q \in Issued
        BY <1>0, <1>3, <2>4, <3>1 DEF UseInv, Grows
      <3>2. CASE q \notin Issued
        BY <1>3, <2>2, <2>4, <3>2 DEF UseInv
      <3> QED BY <3>1, <3>2
    <2>5. ASSUME NEW r \in Requests, NEW s \in Requests, r # s, req'[r].op = "refresh",
                 req'[s].op = "refresh", req'[r].pair = req'[s].pair
          PROVE  req'[r].raced /\ req'[s].raced
      BY <2>1, <2>5 DEF UseInv
    <2>6. ASSUME NEW r \in Requests, req'[r].op = "refresh", NEW q \in Issued', pairs'[q].from = req'[r].pair
          PROVE  (req'[r].raced /\ pairs'[q].raced) \/ Refresh(req'[r].pair) \in missed'
      <3>1. CASE q \in Issued
        BY <1>0, <2>1, <2>6, <3>1 DEF UseInv, Grows
      <3>2. CASE q \notin Issued
        <4>1. PICK s \in Requests : /\ req[s].op = "refresh" /\ pairs'[q].from = req[s].pair
                                    /\ pairs'[q].raced = req[s].raced /\ req'[s] = NoRequest
          BY <1>2, <2>2, <2>6, <3>2
        <4>2. s # r
          BY <2>1, <2>6, <4>1
        <4> QED BY <2>1, <2>6, <4>1, <4>2 DEF UseInv
      <3> QED BY <3>1, <3>2
    <2>7. ASSUME NEW p \in Issued', NEW q \in Issued', p # q, pairs'[p].from = pairs'[q].from,
                 pairs'[p].from # 0, p \in Issued \/ q \notin Issued
          PROVE  (pairs'[p].raced /\ pairs'[q].raced) \/ Refresh(pairs'[p].from) \in missed'
      <3>1. CASE p \in Issued /\ q \in Issued
        BY <1>0, <2>7, <3>1 DEF UseInv, SingleUse, Grows
      <3>2. CASE q \notin Issued
        <4>1. PICK s \in Requests : /\ req[s].op = "refresh" /\ pairs'[q].from = req[s].pair
                                    /\ pairs'[q].raced = req[s].raced /\ Issued' = Issued \cup {q}
          BY <2>2, <2>7, <3>2
        <4>2. p \in Issued /\ pairs'[p] = pairs[p]
          BY <1>0, <2>7, <4>1 DEF Grows
        <4> QED BY <1>0, <2>7, <4>1, <4>2 DEF UseInv, Grows
      <3> QED BY <2>7, <3>1, <3>2
    <2>8. SingleUse'
      BY <2>7 DEF SingleUse
    <2> QED BY <2>3, <2>4, <2>5, <2>6, <2>8 DEF UseInv
  <1> QED BY <1>0, <1>4, <1>5, Classify

\* Of the requests that use one refresh token, two are answered with tokens
\* only if they ran at once, or Redis lost the revocation.
THEOREM RefreshTokensAreUsedOnce == Spec => []SingleUse
  <1>1. Init => UseInv
    <2> SUFFICES ASSUME Init PROVE UseInv
      OBVIOUS
    <2>1. Issued = {} /\ \A r \in Requests : req[r].op = "none"
      BY DEF Init, NoRequest, Issued
    <2> QED BY <2>1 DEF UseInv, SingleUse
  <1>2. UseInv => SingleUse
    BY DEF UseInv
  <1> QED BY <1>1, <1>2, SessionInit, SessionNext, UseNext, PTL DEF Spec
=============================================================================
