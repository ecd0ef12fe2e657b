---------------------------- MODULE ServerClient ----------------------------
(***************************************************************************)
(* The command line with a server (iac-cli): login, logout and apply       *)
(* --server --wait.  All invocations of a user share credentials.json,     *)
(* which each of them loads, changes and saves as a whole; a token that    *)
(* nears its end is exchanged on the way.                                  *)
(***************************************************************************)
EXTENDS CommandLine

CONSTANTS
  Client,     \* invocations
  Order,      \* [Client -> [kind, server]]: "login", "logout" or "apply"
  Faulty,     \* the applies whose manifests do not pass the catalogue's checks
  NoToken,
  MaxTurn,    \* bound: tokens ever issued
  MaxMiss     \* bound: calls and answers lost, files not written

ASSUME ServerClientAssumption ==
  /\ DOMAIN Order = Client /\ \A c \in Client : Order[c].kind \in {"login", "logout", "apply"}
  /\ Faulty \subseteq Client /\ NoToken \notin Nat
  /\ MaxTurn \in Nat /\ MaxMiss \in Nat

VARIABLES
  creds,      \* credentials.json: [server -> token]
  live,       \* [server -> the tokens it accepts]
  turns,      \* tokens issued so far, by all servers
  due,        \* tokens that end within REFRESH_WINDOW_SECS
  caller,     \* [Client -> where it is, the store it loaded, its token, exit code]
  status,     \* [Client -> status of the operation it submitted]
  misses,
  overlapped  \* two invocations had the store loaded at a time (not kept by the program)

clientVars == <<creds, live, turns, due, caller, status, misses, overlapped>>

Servers == {Order[c].server : c \in Client}
Target(c) == Order[c].server
Does(c, kind) == Order[c].kind = kind
Reached(c, where) == caller[c].at = where
Miss == misses < MaxMiss /\ misses' = misses + 1
Turn == turns < MaxTurn /\ turns' = turns + 1
Over(c, code) == caller' = [caller EXCEPT ![c].at = "over", ![c].exit = code]
MovesTo(c, where) == caller' = [caller EXCEPT ![c].at = where]

ServerClientInit ==
  /\ creds = [s \in Servers |-> NoToken] /\ live = [s \in Servers |-> {}]
  /\ turns = 0 /\ due = {} /\ misses = 0 /\ overlapped = FALSE
  /\ caller = [c \in Client |-> [token |-> NoToken, at |-> "start", exit |-> NoToken,
                                 store |-> creds]]
  /\ status = [c \in Client |-> "none"]

\* Has c loaded the store and not saved it?
Loaded(c) == caller[c].at \in {"refresh", "save"}

\* cmd_login: the server answers with a token, refuses, or its answer is lost.
login(c) ==
  /\ Reached(c, "start") /\ Does(c, "login")
  /\ \/ Miss /\ Over(c, 1) /\ UNCHANGED <<live, turns>>
     \/ /\ Turn
        /\ live' = [live EXCEPT ![Target(c)] = @ \cup {turns + 1}]
        /\ \/ Miss /\ Over(c, 1)
           \/ /\ caller' = [caller EXCEPT ![c].at = "load", ![c].token = turns + 1]
              /\ UNCHANGED misses
  /\ UNCHANGED <<creds, due, status, overlapped>>

\* CredentialStore::load, and what each command does first: login has its entry
\* to insert, logout removes one, apply looks for one and exchanges it if due.
Wanted(c) == IF creds[Target(c)] \in due THEN "refresh" ELSE "validate"

LoadStore(c) ==
  /\ \/ Reached(c, "load")
     \/ Reached(c, "start") /\ ~Does(c, "login")
  /\ IF Does(c, "apply") /\ creds[Target(c)] = NoToken THEN Over(c, 1)
     ELSE caller' = [caller EXCEPT
            ![c].store = creds,
            ![c].token = IF Does(c, "login") THEN @ ELSE creds[Target(c)],
            ![c].at = IF Does(c, "apply") THEN Wanted(c) ELSE "save"]
  /\ overlapped' = (overlapped \/ \E d \in Client \ {c} : Loaded(d))
  /\ UNCHANGED <<creds, live, turns, due, status, misses>>

\* try_refresh: the server takes the old token back when it issues the new one.
\* Without an answer, or refused, the old token is used.
refresh(c) ==
  LET s == Target(c) old == caller[c].token IN
  /\ Reached(c, "refresh")
  /\ \/ /\ old \in live[s] /\ Turn
        /\ live' = [live EXCEPT ![s] = (@ \ {old}) \cup {turns + 1}]
        /\ \/ Miss /\ MovesTo(c, "validate")
           \/ /\ caller' = [caller EXCEPT ![c].at = "save", ![c].token = turns + 1]
              /\ UNCHANGED misses
     \/ Miss /\ MovesTo(c, "validate") /\ UNCHANGED <<live, turns>>
     \/ /\ old \notin live[s] /\ MovesTo(c, "validate")
        /\ UNCHANGED <<live, turns, misses>>
  /\ UNCHANGED <<creds, due, status, overlapped>>

\* Mutant: a token that was exchanged is used and not written back.
Upserted_Old(c) ==
  IF Does(c, "apply") THEN caller[c].store
  ELSE [caller[c].store EXCEPT ![Target(c)] = IF Does(c, "logout") THEN NoToken ELSE caller[c].token]

\* The store as it was loaded, with one entry changed.
Upserted(c) ==
  [caller[c].store EXCEPT ![Target(c)] = IF Does(c, "logout") THEN NoToken ELSE caller[c].token]

\* CredentialStore::save by way of a temporary file: all or nothing.
SaveStore(c) ==
  /\ Reached(c, "save")
  /\ \/ Miss /\ Over(c, 1) /\ UNCHANGED creds
     \/ /\ creds' = Upserted(c)
        /\ IF Does(c, "login") THEN Over(c, 0)
           ELSE MovesTo(c, IF Does(c, "apply") THEN "validate" ELSE "revoke")
        /\ UNCHANGED misses
  /\ UNCHANGED <<live, turns, due, status, overlapped>>

\* cmd_logout, best effort at the server.
logout(c) ==
  /\ Reached(c, "revoke") /\ Over(c, 0)
  /\ \/ live' = [live EXCEPT ![Target(c)] = @ \ {caller[c].token}] /\ UNCHANGED misses
     \/ Miss /\ UNCHANGED live
  /\ UNCHANGED <<creds, turns, due, status, overlapped>>

Accepted(c) == caller[c].token \in live[Target(c)]

\* cmd_apply_remote: the checks are skipped when the catalogue cannot be had.
validate_resources(c) ==
  /\ Reached(c, "validate")
  /\ \/ Accepted(c) /\ c \in Faulty /\ Over(c, 1) /\ UNCHANGED misses
     \/ (~Accepted(c) \/ c \notin Faulty) /\ MovesTo(c, "submit") /\ UNCHANGED misses
     \/ Miss /\ c \in Faulty /\ MovesTo(c, "submit")
  /\ UNCHANGED <<creds, live, turns, due, status, overlapped>>

\* submit_remote: the server refuses faulty manifests itself. Without an answer
\* the command ends, whether the operation was made or not.
submit_remote(c) ==
  /\ Reached(c, "submit")
  /\ \/ (~Accepted(c) \/ c \in Faulty) /\ Over(c, 1) /\ UNCHANGED <<status, misses>>
     \/ /\ Accepted(c) /\ c \notin Faulty
        /\ \E st \in {"pending_approval", "pending"} : status' = [status EXCEPT ![c] = st]
        /\ \/ MovesTo(c, "poll") /\ UNCHANGED misses
           \/ Miss /\ Over(c, 1)
     \/ Miss /\ Over(c, 1) /\ UNCHANGED status
  /\ UNCHANGED <<creds, live, turns, due, overlapped>>

\* Mutant: what did not fail is a success.
ExitOf_FailedOnly(st) == IF st \in {"failed", "rejected"} THEN 5 ELSE 0

ExitOf(st) == CASE st = "succeeded" -> 0 [] st = "partially_applied" -> 4 [] OTHER -> 5

\* The loop of --wait: any status but pending and running ends it, also that of
\* an operation that waits for an approver.
Poll(c) ==
  /\ Reached(c, "poll")
  /\ \/ Accepted(c) /\ status[c] \notin {"pending", "running"}
        /\ Over(c, ExitOf(status[c])) /\ UNCHANGED misses
     \/ ~Accepted(c) /\ Over(c, 1) /\ UNCHANGED misses
     \/ Miss /\ Over(c, 1)
  /\ UNCHANGED <<creds, live, turns, due, status, overlapped>>

\* What the server makes of the operation.
After(st) == CASE st = "pending_approval" -> {"pending", "rejected"}
               [] st = "pending" -> {"running"}
               [] st = "running" -> {"succeeded", "failed", "partially_applied"}
               [] OTHER -> {}

OperationMoves(c) ==
  /\ \E st \in After(status[c]) : status' = [status EXCEPT ![c] = st]
  /\ UNCHANGED <<creds, live, turns, due, caller, misses, overlapped>>

\* Time passes.
FallsDue(t) ==
  /\ t \in 1..turns /\ t \notin due
  /\ due' = due \cup {t}
  /\ UNCHANGED <<creds, live, turns, caller, status, misses, overlapped>>

ServerClientNext ==
  \/ \E c \in Client :
       \/ login(c) \/ LoadStore(c) \/ refresh(c) \/ SaveStore(c) \/ logout(c)
       \/ validate_resources(c) \/ submit_remote(c) \/ Poll(c) \/ OperationMoves(c)
  \/ \E t \in 1..MaxTurn : FallsDue(t)

ServerClientSpec == ServerClientInit /\ [][ServerClientNext]_clientVars

-----------------------------------------------------------------------------

\* The exit code of apply --wait: 0 and 4 come from an operation that has
\* succeeded or been applied in part; 1 leaves an operation behind only when a
\* call was lost or another invocation has exchanged or revoked the token.
WaitExit ==
  \A c \in Client : Does(c, "apply") =>
    /\ caller[c].exit = 0 => status[c] = "succeeded"
    /\ caller[c].exit = 4 => status[c] = "partially_applied"
    /\ caller[c].exit = 1 /\ misses = 0 => status[c] = "none" \/ ~Accepted(c)

\* With no call lost and no two invocations in the store at a time, the token
\* in credentials.json is one that the server takes.
SavedTokenWorks ==
  (misses = 0 /\ ~overlapped /\ \A c \in Client : ~Loaded(c)) =>
    \A s \in Servers : creds[s] # NoToken => creds[s] \in live[s]

\* What a command tells whoever runs it, by its exit code and by what it leaves
\* in credentials.json and run-history.jsonl, is so: of a fan-out over SSH
\* (ExitCodeIsTrue), of an operation that was waited for, and of the token that
\* the next command will use (cmd_apply_fanout, cmd_run, submit_remote,
\* resolve_admin_token_with_refresh).
CommandsTellTheTruth == ExitCodeIsTrue /\ WaitExit /\ SavedTokenWorks

=============================================================================
