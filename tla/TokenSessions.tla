--------------------------- MODULE TokenSessions ---------------------------
(***************************************************************************)
(* The sessions of one member of a tenant: token pairs issued by login and *)
(* refresh, the denylist and the session map kept in Redis, and the        *)
(* membership row that an administrator changes in a transaction.  A       *)
(* request runs in steps, one per call to Redis or to the database.  Time  *)
(* is in units in which all lifetimes are whole.                           *)
(***************************************************************************)
EXTENDS Integers, FiniteSets

CONSTANTS Requests,                   \* requests that may run at once
          Roles,
          AccessLife, RefreshLife,    \* lifetimes of the two tokens of a pair
          MaxPairs, LastTick, MaxFaults,
          MaxCalls                    \* requests begun in a behaviour

ASSUME TokenAssumption ==
    /\ {AccessLife, RefreshLife, MaxPairs, LastTick} \subseteq Nat \ {0}
    /\ {MaxFaults, MaxCalls} \subseteq Nat /\ Roles # {}

Pairs == 1..MaxPairs
Token == [pair : Pairs, kind : {"access", "refresh"}]
Access(p) == [pair |-> p, kind |-> "access"]
Refresh(p) == [pair |-> p, kind |-> "refresh"]

VARIABLES member,     \* the committed membership row
          pairs,      \* pairs issued: [role, issued, from, raced, during, current]
          denied,     \* keys token_denylist:{jti}
          tracked,    \* fields of user_sessions:{user}: pairs, for their access token
          req, calls, now, faults,
          out,        \* history: tokens that were revoked for all the service knows
          swept,      \* history: pairs issued before a revocation of all the sessions
          missed      \* history: tokens Redis lost the revocation or the tracking of

redis == <<denied, tracked>>
history == <<out, swept, missed>>
vars == <<member, pairs, redis, req, calls, now, faults, history>>

NoRequest == [op |-> "none", at |-> "idle", pair |-> 0, role |-> "none", found |-> {},
              raced |-> FALSE, during |-> FALSE, seen |-> {}]

Init == /\ member \in [active : {TRUE}, role : Roles]
        /\ pairs = [p \in {} |-> <<>>]
        /\ denied = {} /\ tracked = {}
        /\ req = [r \in Requests |-> NoRequest]
        /\ calls = 0 /\ now = 0 /\ faults = 0
        /\ out = {} /\ swept = {} /\ missed = {}

Issued == DOMAIN pairs
Expiry(t) == pairs[t.pair].issued + (IF t.kind = "access" THEN AccessLife ELSE RefreshLife)
\* Mutant: the key of any token lives as long as an access token.
RevokedBriefly(t) == t \in denied /\ now < pairs[t.pair].issued + AccessLife
\* A key of the denylist lives for the remaining lifetime of its token, ...
IsRevoked(t) == t \in denied /\ now < Expiry(t)
\* ... and jose still accepts a token in the last unit of its lifetime.
Decodes(t) == t.pair \in Issued /\ now <= Expiry(t)
Accepts(t) == Decodes(t) /\ ~IsRevoked(t)
Live(ts) == {t \in ts : now < Expiry(t)}

(***************************************************************************)
(* Requests.  A Redis call that fails is logged and counts as done.        *)
(***************************************************************************)
Issuing == {"login", "refresh"}
Revoking == {"logout_all", "deactivate"}
Running(ops) == {r \in Requests : req[r].op \in ops}
Ends(r) == req' = [req EXCEPT ![r] = NoRequest]
Goes(r, step) == req' = [req EXCEPT ![r].at = step]
Redis(fails) == ~fails \/ faults < MaxFaults
Count(fails) == faults' = IF fails THEN faults + 1 ELSE faults

Begins(r, op, step, p, role) ==
    /\ req[r].at = "idle"
    /\ calls < MaxCalls /\ calls' = calls + 1
    /\ req' = [q \in Requests |->
         CASE q = r -> [NoRequest EXCEPT !.op = op, !.at = step, !.pair = p, !.role = role,
                           !.seen = IF op \in Issuing THEN {member.role} ELSE {},
                           !.during = op \in Issuing /\ Running(Revoking) # {},
                           !.raced = op = "refresh" /\ \E s \in Running({"refresh"}) : req[s].pair = p]
           [] q # r -> [req[q] EXCEPT
                           !.during = @ \/ (op \in Revoking /\ req[q].op \in Issuing),
                           !.raced = @ \/ (op = "refresh" /\ req[q].op = "refresh" /\ req[q].pair = p)]]

\* AuthService.login: the membership is read, then the tokens are issued.
Login(r) ==
    /\ member.active /\ Cardinality(Issued) < MaxPairs
    /\ Begins(r, "login", "issue", 0, member.role)
    /\ UNCHANGED <<member, pairs, redis, now, faults, history>>

\* AuthService.refresh_token.  The refresh token of a pair that itself came
\* from a refresh never reaches a client: the endpoint answers with the access
\* token alone.
RefreshBegin(r, p, fails) ==
    /\ Decodes(Refresh(p)) /\ pairs[p].from = 0
    /\ fails \/ ~IsRevoked(Refresh(p))
    /\ Redis(fails) /\ Count(fails)
    /\ Begins(r, "refresh", "member", p, "none")
    /\ missed' = IF Refresh(p) \in denied \/ now = Expiry(Refresh(p))
                 THEN missed \cup {Refresh(p)} ELSE missed
    /\ UNCHANGED <<member, pairs, redis, now, out, swept>>

RefreshMember(r) ==
    /\ req[r].op = "refresh" /\ req[r].at = "member"
    /\ IF member.active THEN req' = [req EXCEPT ![r].at = "revoke", ![r].role = member.role]
                        ELSE Ends(r)
    /\ UNCHANGED <<member, pairs, redis, calls, now, faults, history>>

\* TokenDenylist.revoke_token
Revoke(ts, fails) ==
    /\ Redis(fails) /\ Count(fails)
    /\ denied' = IF fails THEN denied ELSE denied \cup Live(ts)
    /\ missed' = IF fails THEN missed \cup ts ELSE missed
    /\ out' = out \cup ts

\* Mutant: the refresh token stays usable.
RefreshKeeps(r, fails) ==
    /\ req[r].op = "refresh" /\ req[r].at = "revoke" /\ ~fails
    /\ Goes(r, "issue")
    /\ UNCHANGED <<member, pairs, redis, calls, now, faults, history>>
RefreshRevoke(r, fails) ==
    /\ req[r].op = "refresh" /\ req[r].at = "revoke"
    /\ Revoke({Refresh(req[r].pair)}, fails)
    /\ Goes(r, "issue")
    /\ UNCHANGED <<member, pairs, tracked, calls, now, swept>>

\* Mutant: the new pair keeps the role of the pair it replaces.
OldRole(r) == IF req[r].pair \in Issued THEN pairs[req[r].pair].role ELSE req[r].role
IssuedRole(r) == req[r].role

\* create_token_pair, which tracks the access token of the new pair.
Issue(r, fails) ==
    LET p == Cardinality(Issued) + 1
    IN  /\ req[r].at = "issue" /\ p \in Pairs
        /\ Redis(fails) /\ Count(fails)
        /\ pairs' = [q \in 1..p |-> IF q # p THEN pairs[q] ELSE
                       [role |-> IssuedRole(r), issued |-> now, from |-> req[r].pair,
                        raced |-> req[r].raced, during |-> req[r].during,
                        current |-> IssuedRole(r) \in req[r].seen]]
        /\ tracked' = IF fails THEN tracked ELSE tracked \cup {p}
        /\ missed' = IF fails THEN missed \cup {Access(p)} ELSE missed
        /\ Ends(r)
        /\ UNCHANGED <<member, denied, calls, now, out, swept>>

\* AuthService.logout: the access token, then the refresh token if the client
\* sent it, then every tracked session if it asked for that.
Logout(r, p, all) ==
    /\ Accepts(Access(p))
    /\ Begins(r, IF all THEN "logout_all" ELSE "logout", "access", p, "none")
    /\ UNCHANGED <<member, pairs, redis, now, faults, history>>

LogoutAccess(r, fails) ==
    /\ req[r].at = "access"
    /\ Revoke({Access(req[r].pair)}, fails)
    /\ Goes(r, "refresh")
    /\ UNCHANGED <<member, pairs, tracked, calls, now, swept>>

LogoutRefresh(r, sent, fails) ==
    /\ req[r].at = "refresh"
    /\ sent => pairs[req[r].pair].from = 0
    /\ Revoke(IF sent THEN {Refresh(req[r].pair)} ELSE {}, fails)
    /\ IF req[r].op = "logout_all"
       THEN req' = [req EXCEPT ![r].at = "all", ![r].pair = 0] ELSE Ends(r)
    /\ UNCHANGED <<member, pairs, tracked, calls, now, swept>>

\* change_password, as far as sessions are concerned; deactivate_user, whose
\* UPDATE holds the membership row until the request's commit; and
\* update_user_role, which revokes nothing.
RowLocked == Running({"deactivate", "role"}) # {}
ChangePassword(r, p) ==
    /\ Accepts(Access(p))
    /\ Begins(r, "logout_all", "all", 0, "none")
    /\ UNCHANGED <<member, pairs, redis, now, faults, history>>
Deactivate(r) ==
    /\ ~RowLocked
    /\ Begins(r, "deactivate", "all", 0, "none")
    /\ UNCHANGED <<member, pairs, redis, now, faults, history>>
UpdateRole(r, role) ==
    /\ ~RowLocked
    /\ Begins(r, "role", "commit", 0, role)
    /\ UNCHANGED <<member, pairs, redis, now, faults, history>>

\* TokenDenylist.revoke_all_user_tokens: the session map is read, ...
\* Mutant: the map is deleted before it is read.
Cleared == {}
Found == tracked
ReadSessions(r, fails) ==
    /\ req[r].at = "all"
    /\ Redis(fails) /\ Count(fails)
    /\ req' = [req EXCEPT ![r].at = IF fails THEN "commit" ELSE "apply",
                          ![r].found = IF fails THEN {} ELSE Found]
    /\ missed' = IF fails THEN missed \cup {Access(p) : p \in Issued} ELSE missed
    /\ UNCHANGED <<member, pairs, redis, calls, now, out, swept>>

\* ... the sessions in it are revoked one by one, ...
RevokeSession(r, p, fails) ==
    /\ req[r].at = "apply" /\ p \in req[r].found
    /\ Revoke({Access(p)}, fails)
    /\ req' = [req EXCEPT ![r].found = @ \ {p}]
    /\ UNCHANGED <<member, pairs, tracked, calls, now, swept>>

\* ... and the map is deleted, with what was tracked in the meantime.
ClearSessions(r, fails) ==
    /\ req[r].at = "apply" /\ req[r].found = {}
    /\ Redis(fails) /\ Count(fails)
    /\ tracked' = IF fails THEN tracked ELSE {}
    /\ swept' = swept \cup {p \in Issued : ~pairs[p].during}
    /\ Goes(r, "commit")
    /\ UNCHANGED <<member, pairs, denied, calls, now, out, missed>>

\* The request ends; only now does a change of the membership show.
Row(r) == CASE req[r].op = "role"       -> [member EXCEPT !.role = req[r].role]
            [] req[r].op = "deactivate" -> [member EXCEPT !.active = FALSE]
            [] OTHER                    -> member
Commit(r) ==
    /\ req[r].at = "commit"
    /\ member' = Row(r)
    /\ req' = [q \in Requests |->
         CASE q = r -> NoRequest
           [] q # r -> [req[q] EXCEPT !.seen = IF @ = {} THEN @ ELSE @ \cup {Row(r).role}]]
    /\ UNCHANGED <<pairs, redis, calls, now, faults, history>>

\* The request fails or its process dies; its transaction is rolled back, and
\* what it told Redis stays.
Fails(r) ==
    /\ req[r].at # "idle"
    /\ Redis(TRUE) /\ Count(TRUE)
    /\ Ends(r)
    /\ UNCHANGED <<member, pairs, redis, calls, now, history>>

Tick == /\ now < LastTick /\ now' = now + 1
        /\ UNCHANGED <<member, pairs, redis, req, calls, faults, history>>

Next == \/ Tick
        \/ \E r \in Requests :
             \/ Login(r) \/ RefreshMember(r) \/ Deactivate(r)
             \/ Commit(r) \/ Fails(r)
             \/ \E role \in Roles : UpdateRole(r, role)
             \/ \E p \in Issued : ChangePassword(r, p) \/ \E all \in BOOLEAN : Logout(r, p, all)
             \/ \E fails \in BOOLEAN :
                  \/ RefreshRevoke(r, fails) \/ Issue(r, fails) \/ LogoutAccess(r, fails)
                  \/ ReadSessions(r, fails) \/ ClearSessions(r, fails)
                  \/ \E p \in Pairs : RevokeSession(r, p, fails)
                  \/ \E p \in Issued : RefreshBegin(r, p, fails)
                  \/ \E sent \in BOOLEAN : LogoutRefresh(r, sent, fails)
Spec == Init /\ [][Next]_vars

(***************************************************************************)
(* Properties                                                              *)
(***************************************************************************)
\* A token that was logged out or used up, and an access token of a session
\* that was there when all were revoked, is not accepted again before the last
\* unit of its lifetime, unless Redis failed over it.
RevokedIsOut ==
    \A t \in (out \cup {Access(p) : p \in swept}) \ missed : Accepts(t) => now = Expiry(t)

\* What the docstrings of revoke_all_user_tokens and change_password say of a
\* revocation of all sessions: no token a client held then is accepted.  It
\* fails: the session map never holds a refresh token.
AllTokensAreOut ==
    (member.active /\ Running({"deactivate"}) = {} /\ faults = 0) =>
        \A p \in swept : pairs[p].from = 0 /\ Accepts(Refresh(p)) => now = Expiry(Refresh(p))

\* A refresh token yields two pairs only to requests that ran at once.
SingleUse ==
    \A p, q \in Issued :
        (p # q /\ pairs[p].from = pairs[q].from /\ pairs[p].from # 0)
            => \/ pairs[p].raced /\ pairs[q].raced
               \/ Refresh(pairs[p].from) \in missed

\* A deactivated member's access token is accepted only if it was issued by a
\* request that ran while the sessions were revoked.
DeactivatedIsOut ==
    ~member.active =>
        \A p \in Issued : Accepts(Access(p)) =>
            \/ pairs[p].during
            \/ Access(p) \in missed
            \/ now = Expiry(Access(p))

\* A token never carries a role the member no longer had when the request that
\* issued it began.
RoleWasCurrent == \A p \in Issued : pairs[p].current
=============================================================================
