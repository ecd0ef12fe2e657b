------------------------------ MODULE Accounts ------------------------------
(***************************************************************************)
(* Users, roles and bearer tokens of the control plane: the tables users   *)
(* and user_tokens, the requests of iac-controlplane/src/api/users.rs and  *)
(* api/auth.rs, and the transactions of store.rs they run.                 *)
(*                                                                         *)
(* A request that takes several statements is a record of requests with    *)
(* the statement it has reached; what it writes becomes visible when it    *)
(* commits.  On Postgres (READ COMMITTED) a row is locked from the         *)
(* statement that touches it to the commit, and a DELETE removes the rows  *)
(* it saw when it began.  On SQLite there is one writer at a time, and a   *)
(* transaction that has read before another one committed fails when it    *)
(* wants to write.                                                         *)
(***************************************************************************)
EXTENDS Integers, FiniteSets

CONSTANTS
  None,         \* no row, no request
  User,         \* usernames
  Token,        \* 1..n: tokens in the order in which they are issued
  Request,      \* requests under way at the same time
  RoleSet,      \* the role lists that users are given
  Dialect,      \* "postgres" or "sqlite"
  LegacyAdmin,  \* is admin_token configured
  MaxEpoch      \* bound: password changes and lock-outs of one user

Role == {"viewer", "operator", "approver", "admin"}

\* Rows of users and user_tokens, and a request between two of its statements.
UserRow == [disabled : BOOLEAN, roles : SUBSET Role, epoch : 0..MaxEpoch]
TokenRow == [epoch : 0..MaxEpoch, expired : BOOLEAN, owner : User, session : Token,
             raced : BOOLEAN]
RequestRow == [kind : {"login", "refresh", "roles", "disable", "password"}, roles : SUBSET Role,
               epoch : 0..MaxEpoch, owner : User, session : Token \union {0}, raced : BOOLEAN,
               phase : {"verified", "read", "deleted", "checked", "sweep"},
               token : Token \union {None}, stale : BOOLEAN, doomed : SUBSET Token]

ASSUME AccountsAssumption ==
  /\ Dialect \in {"postgres", "sqlite"} /\ LegacyAdmin \in BOOLEAN
  /\ MaxEpoch \in Nat /\ Token = 1..Cardinality(Token)
  /\ RoleSet \subseteq SUBSET Role
  /\ None \notin UserRow \union TokenRow \union RequestRow \union Request

VARIABLES
  users,        \* users: None, or [roles, disabled, epoch]
  tokens,       \* user_tokens: None, or [owner, session, epoch, expired, raced]
  issued,       \* number of tokens handed out so far
  requests      \* None, or a request in the middle of its statements

accountVars == <<users, tokens, issued, requests>>

(***************************************************************************)
(* Roles and the resolution of a bearer token.                             *)
(***************************************************************************)
\* The order of the enum is the inclusion lattice.
Rank(r) == CASE r = "viewer" -> 0 [] r = "operator" -> 1
             [] r = "approver" -> 2 [] r = "admin" -> 3

Includes(r, required) == Rank(r) >= Rank(required)

Present(u) == users[u] # None

\* find_user_by_token: no row, an expired row and a disabled owner are one.
Resolves(t) == /\ tokens[t] # None /\ ~tokens[t].expired
               /\ ~users[tokens[t].owner].disabled

\* require_role
MayCall(required) ==
  \/ LegacyAdmin
  \/ \E t \in Token : /\ Resolves(t)
                      /\ \E r \in users[tokens[t].owner].roles : Includes(r, required)

ActiveAdmins(us) ==
  {u \in User : us[u] # None /\ ~us[u].disabled /\ "admin" \in us[u].roles}

(***************************************************************************)
(* Locks.  A request that holds rows is in phase "sweep" (the user's row   *)
(* is updated, the DELETE of its tokens has begun), "checked" (all rows of *)
(* users, FOR UPDATE) or "deleted" (the old token's row).                  *)
(***************************************************************************)
Holding(phases) == {q \in Request : requests[q] # None /\ requests[q].phase \in phases}

UserLocked(u, q) ==
  \E p \in Holding({"checked", "sweep"}) \ {q} :
     Dialect = "postgres" /\ (requests[p].phase = "checked" \/ requests[p].owner = u)

TokenLocked(t, q) ==
  \E p \in Holding({"deleted"}) \ {q} : Dialect = "postgres" /\ requests[p].token = t

\* SQLite: nobody writes while a transaction has written and not committed.
WriterFree(q) == Dialect = "postgres" \/ Holding({"sweep", "deleted"}) \subseteq {q}

\* Every transaction that has read is out of date once another one commits.
MakeStale(rs, q) ==
  [p \in Request |-> IF p # q /\ rs[p] # None /\ Dialect = "sqlite"
                     THEN [rs[p] EXCEPT !.stale = TRUE] ELSE rs[p]]

Finish(q) == MakeStale([requests EXCEPT ![q] = None], q)

Fail(q) == /\ requests' = [requests EXCEPT ![q] = None]
           /\ UNCHANGED <<users, tokens, issued>>

Begin(q, kind, phase, u, roles) ==
  requests' = [requests EXCEPT ![q] =
    [kind |-> kind, roles |-> roles, epoch |-> users[u].epoch, owner |-> u, session |-> 0,
     raced |-> FALSE, phase |-> phase, token |-> None, stale |-> FALSE, doomed |-> {}]]

(***************************************************************************)
(* bootstrap_admin_from_env has filled the empty table, or it is empty.    *)
(***************************************************************************)
AccountsInit ==
  /\ \/ /\ LegacyAdmin /\ users = [u \in User |-> None]
     \/ \E first \in User :
          users = [u \in User |-> IF u = first
                     THEN [disabled |-> FALSE, roles |-> {"admin"}, epoch |-> 0] ELSE None]
  /\ tokens = [t \in Token |-> None]
  /\ issued = 0
  /\ requests = [q \in Request |-> None]

\* POST /v1/users: one INSERT; a name that is taken is a conflict.
CreateUser(u, roles) ==
  /\ MayCall("admin") /\ ~Present(u) /\ WriterFree(None)
  /\ users' = [users EXCEPT ![u] = [disabled |-> FALSE, roles |-> roles, epoch |-> 0]]
  /\ requests' = MakeStale(requests, None)
  /\ UNCHANGED <<tokens, issued>>

(***************************************************************************)
(* login: the row is read and the password verified; the token is inserted *)
(* by a statement of its own.                                              *)
(***************************************************************************)
LoginReads(q, u) ==
  /\ requests[q] = None /\ Present(u) /\ ~users[u].disabled
  /\ Begin(q, "login", "verified", u, {})
  /\ UNCHANGED <<users, tokens, issued>>

LoginInserts(q) ==
  /\ requests[q] # None /\ requests[q].kind = "login" /\ WriterFree(q)
  /\ issued + 1 \in Token
  /\ issued' = issued + 1
  /\ tokens' = [tokens EXCEPT ![issued + 1] =
       [epoch |-> requests[q].epoch, expired |-> FALSE, owner |-> requests[q].owner,
        session |-> issued + 1, raced |-> requests[q].raced]]
  /\ requests' = Finish(q)
  /\ UNCHANGED users

(***************************************************************************)
(* refresh_user_token: read the old row, delete it and go on only when     *)
(* that took a row, insert the new one, commit.                            *)
(***************************************************************************)
RefreshReads(q, t) ==
  /\ requests[q] = None /\ Resolves(t)
  /\ requests' = [requests EXCEPT ![q] =
       [kind |-> "refresh", roles |-> {}, epoch |-> tokens[t].epoch, owner |-> tokens[t].owner,
        session |-> tokens[t].session, raced |-> tokens[t].raced, phase |-> "read",
        token |-> t, stale |-> FALSE, doomed |-> {}]]
  /\ UNCHANGED <<users, tokens, issued>>

\* Mutant: rows_affected is not looked at.
RefreshTook_Assumed(q) == ~requests[q].stale

\* rows_affected = 1: the row was still there, and SQLite let the DELETE through.
RefreshTook(q) == ~requests[q].stale /\ tokens[requests[q].token] # None

\* The DELETE waits for whoever has the row, and then looks for it again.
RefreshDeletes(q) ==
  /\ requests[q] # None /\ requests[q].kind = "refresh" /\ requests[q].phase = "read"
  /\ WriterFree(q) /\ ~TokenLocked(requests[q].token, q)
  /\ \A p \in Holding({"sweep"}) : requests[q].token \notin requests[p].doomed
  /\ IF RefreshTook(q)
     THEN /\ requests' = [requests EXCEPT ![q].phase = "deleted"]
          /\ UNCHANGED <<users, tokens, issued>>
     ELSE Fail(q)

RefreshCommits(q) ==
  /\ requests[q] # None /\ requests[q].phase = "deleted"
  /\ issued + 1 \in Token
  /\ issued' = issued + 1
  /\ tokens' = [tokens EXCEPT
       ![requests[q].token] = None,
       ![issued + 1] =
         [epoch |-> requests[q].epoch, expired |-> FALSE,
          owner |-> requests[q].owner, session |-> requests[q].session, raced |-> requests[q].raced]]
  /\ requests' = Finish(q)
  /\ UNCHANGED users

\* logout (revoke_user_token) and prune_expired_tokens: one DELETE each.
DeleteTokens(gone) ==
  /\ WriterFree(None) /\ \A t \in gone : ~TokenLocked(t, None)
  /\ tokens' = [t \in Token |-> IF t \in gone THEN None ELSE tokens[t]]
  /\ requests' = MakeStale(requests, None)
  /\ UNCHANGED <<users, issued>>

Logout(t) == tokens[t] # None /\ DeleteTokens({t})

PruneExpired ==
  LET old == {t \in Token : tokens[t] # None /\ tokens[t].expired}
  IN  old # {} /\ DeleteTokens(old)

\* TOKEN_TTL_SECS go by.
Expire(t) ==
  /\ tokens[t] # None /\ ~tokens[t].expired
  /\ tokens' = [tokens EXCEPT ![t].expired = TRUE]
  /\ UNCHANGED <<users, issued, requests>>

(***************************************************************************)
(* update_user_roles and disable_user begin with                           *)
(* ensure_active_admin_remains; set_user_password does not.                *)
(***************************************************************************)
Proposed(u, change, roles) ==
  [users EXCEPT ![u] = IF change = "disable" THEN [@ EXCEPT !.disabled = TRUE]
                                             ELSE [@ EXCEPT !.roles = roles]]

AdminRemainsAfter(u, change, roles) ==
  ActiveAdmins(users) # {} => ActiveAdmins(Proposed(u, change, roles)) # {}

\* Mutant: SELECT without FOR UPDATE.
GuardCanRead_Unlocked(q) == TRUE

\* SELECT ... FOR UPDATE waits until no row of users is locked.
GuardCanRead(q) == \A u \in User : Present(u) => ~UserLocked(u, q)

GuardedReads(q, u, change, roles) ==
  /\ MayCall("admin") /\ requests[q] = None /\ Present(u)
  /\ GuardCanRead(q)
  /\ AdminRemainsAfter(u, change, roles)
  /\ change = "disable" => ~users[u].disabled /\ users[u].epoch < MaxEpoch
  /\ Begin(q, change, "checked", u, roles)
  /\ UNCHANGED <<users, tokens, issued>>

\* Mutant: only the expired tokens go.
TokensOf_Expired(u) ==
  {t \in Token : tokens[t] # None /\ tokens[t].owner = u /\ tokens[t].expired}

\* DELETE FROM user_tokens WHERE user_id
TokensOf(u) == {t \in Token : tokens[t] # None /\ tokens[t].owner = u}

\* UPDATE users SET roles_json, then COMMIT.
RolesWritten(q) ==
  /\ requests[q] # None /\ requests[q].kind = "roles" /\ WriterFree(q)
  /\ IF requests[q].stale THEN Fail(q)
     ELSE /\ users' = [users EXCEPT ![requests[q].owner].roles = requests[q].roles]
          /\ requests' = Finish(q)
          /\ UNCHANGED <<tokens, issued>>

\* UPDATE users SET disabled_at; then the DELETE of the tokens begins.
DisableWrites(q) ==
  /\ requests[q] # None /\ requests[q].kind = "disable" /\ requests[q].phase = "checked"
  /\ WriterFree(q)
  /\ IF requests[q].stale \/ users[requests[q].owner].disabled THEN Fail(q)
     ELSE /\ requests' = [requests EXCEPT ![q].phase = "sweep", ![q].session = issued,
                                          ![q].doomed = TokensOf(requests[q].owner)]
          /\ UNCHANGED <<users, tokens, issued>>

PasswordWrites(q, u) ==
  /\ MayCall("admin") /\ requests[q] = None /\ Present(u) /\ users[u].epoch < MaxEpoch
  /\ WriterFree(q) /\ ~UserLocked(u, q)
  /\ requests' = [requests EXCEPT ![q] =
       [kind |-> "password", roles |-> {}, epoch |-> users[u].epoch, owner |-> u, session |-> issued,
        raced |-> FALSE, phase |-> "sweep", token |-> None, stale |-> FALSE,
        doomed |-> TokensOf(u)]]
  /\ UNCHANGED <<users, tokens, issued>>

\* The DELETE ends and the transaction commits.  A login between its two
\* statements, a refresh whose DELETE came first and a token that was issued
\* since (session: the last one before) are not touched by it.
SweepCommits(q) ==
  /\ requests[q] # None /\ requests[q].phase = "sweep"
  /\ \A t \in requests[q].doomed : ~TokenLocked(t, q)
  /\ LET u == requests[q].owner
         Raced(p) == /\ requests[p] # None /\ requests[p].owner = u
                     /\ requests[p].phase \in {"verified", "read", "deleted"}
     IN  /\ users' = [users EXCEPT ![u].epoch = @ + 1,
                                   ![u].disabled = @ \/ requests[q].kind = "disable"]
         /\ tokens' = [t \in Token |-> IF t \in requests[q].doomed THEN None
                        ELSE IF tokens[t] # None /\ tokens[t].owner = u /\ t > requests[q].session
                             THEN [tokens[t] EXCEPT !.raced = TRUE] ELSE tokens[t]]
         /\ requests' = [p \in Request |-> IF Raced(p) THEN [Finish(q)[p] EXCEPT !.raced = TRUE]
                                                       ELSE Finish(q)[p]]
  /\ UNCHANGED issued

\* enable_user: one UPDATE; no token comes back with it.
EnableUser(u) ==
  /\ MayCall("admin") /\ Present(u) /\ users[u].disabled
  /\ WriterFree(None) /\ ~UserLocked(u, None)
  /\ users' = [users EXCEPT ![u].disabled = FALSE]
  /\ requests' = MakeStale(requests, None)
  /\ UNCHANGED <<tokens, issued>>

\* The server stops, or the connection breaks: the transaction is rolled back.
Abort(q) == requests[q] # None /\ Fail(q)

AccountsNext ==
  \/ \E u \in User, rs \in RoleSet : CreateUser(u, rs)
  \/ \E q \in Request, u \in User : LoginReads(q, u) \/ PasswordWrites(q, u)
  \/ \E q \in Request, u \in User, rs \in RoleSet : GuardedReads(q, u, "roles", rs)
  \/ \E q \in Request, u \in User : GuardedReads(q, u, "disable", {})
  \/ \E q \in Request : \/ LoginInserts(q) \/ RefreshDeletes(q) \/ RefreshCommits(q)
                        \/ RolesWritten(q) \/ DisableWrites(q) \/ SweepCommits(q) \/ Abort(q)
  \/ \E q \in Request, t \in Token : RefreshReads(q, t)
  \/ \E t \in Token : Logout(t) \/ Expire(t)
  \/ \E u \in User : EnableUser(u)
  \/ PruneExpired

AccountsSpec == AccountsInit /\ [][AccountsNext]_accountVars

(***************************************************************************)
(* Properties.                                                             *)
(***************************************************************************)
AccountsTypeOK ==
  /\ users \in [User -> UserRow \union {None}]
  /\ tokens \in [Token -> TokenRow \union {None}]
  /\ issued \in Token \union {0}
  /\ requests \in [Request -> RequestRow \union {None}]

\* Two administrators demote or lock out each other at the same time: once
\* there is an active administrator there is always one, whatever runs at the
\* same time and on either database (ensure_active_admin_remains).
AdminRemains == [][ActiveAdmins(users) # {} => ActiveAdmins(users') # {}]_users

\* A login and all refreshes of its token have one row between them: two
\* refreshes of one token at the same time do not leave two live tokens
\* (the gate on rows_affected in refresh_user_token). And a token from before
\* the last password change or lock-out of its owner is there only if its login
\* was between its two statements, or its refresh between DELETE and COMMIT,
\* when that change committed; every other token is revoked by it, whichever
\* way it has been refreshed since.
TokensFollowLogins ==
  \A t \in Token : tokens[t] # None =>
     /\ \A s \in Token \ {t} : tokens[s] # None => tokens[s].session # tokens[t].session
     /\ tokens[t].epoch < users[tokens[t].owner].epoch => tokens[t].raced

=============================================================================
