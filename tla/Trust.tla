------------------------------- MODULE Trust -------------------------------
(***************************************************************************)
(* What an agent and the control plane know of each other: the bearer      *)
(* token of the agent (store.rs register_agent, rotate_agent_token and     *)
(* authenticate; iac-agent/src/remote.rs) and the signing keys of the      *)
(* server (signing.rs; remote.rs refresh_signing_keys, verify_envelope).   *)
(*                                                                         *)
(* One agent and its identity file, one server and its directory of keys.  *)
(* Either process may stop between any two steps, an answer may be lost    *)
(* after the server has done its part, and a file may not be written.      *)
(***************************************************************************)
EXTENDS Integers, FiniteSets

CONSTANTS
  Nil,          \* no file, no process, no call
  Key,          \* 1..n: signing keys in the order in which they are made
  Bearer,       \* 1..n: agent tokens in the order in which they are issued
  MaxFault      \* bound: stops of a process, lost answers and failed writes

\* Key directory, identity file, change of keys under way, request of the agent.
KeyDir == [active : Key \union {0}, bins : SUBSET Key]
Identity == [token : Bearer, pinned : SUBSET Key]
KeyChange == [kind : {"create", "rotate", "retire"}, key : Key, at : {"key", "pointer", "load"}]
AgentCall == [kind : {"register", "bundle", "push", "poll", "rotate"}, token : Bearer \union {0},
              issued : Bearer \union {0}, keys : SUBSET Key, answer : {Nil, "error", "ok"},
              signed : Key \union {0}, label : Key \union {0}]

ASSUME TrustAssumption ==
  /\ Key = 1..Cardinality(Key) /\ 1 \in Key /\ Bearer = 1..Cardinality(Bearer)
  /\ MaxFault \in Nat
  /\ Nil \notin KeyDir \union KeyChange \union AgentCall \union Identity \union {"error", "ok"}

VARIABLES
  dir,          \* signing-keys/: Nil, or [bins, active]
  signer,       \* ServerSigner in memory: Nil while the server is down, or [keys, active]
  mutation,     \* load_or_create, rotate or retire under way: Nil, or [kind, key, at]
  made,         \* number of keys generated so far
  row,          \* the agents row: Nil, or its token
  given,        \* number of agent tokens issued so far
  age,          \* "fresh", "due" (within the hour) or "expired", by token
  file,         \* the identity file: Nil, or [token, pinned]
  client,       \* the agent's Client: Nil, or [token, pinned]
  cycle,        \* step of connect and observe_once the agent has reached
  call,         \* the agent's request under way: Nil, or a record
  faults,       \* stops, losses and failures so far
  \* History of the run, read by no action:
  orphaned,     \* has a token been issued that never reached the identity file
  hasty         \* has a key been retired before its window was over

serverVars == <<dir, signer, mutation, made, hasty>>
agentVars == <<file, client, cycle, call>>
tokenVars == <<row, given, age, orphaned>>
trustVars == <<serverVars, agentVars, tokenVars, faults>>

TrustInit ==
  /\ dir = Nil /\ signer = Nil /\ mutation = Nil /\ made = 0
  /\ row = Nil /\ given = 0 /\ age = [b \in Bearer |-> "fresh"]
  /\ file = Nil /\ client = Nil /\ cycle = "connect" /\ call = Nil
  /\ faults = 0 /\ orphaned = FALSE /\ hasty = FALSE

Fault == faults < MaxFault /\ faults' = faults + 1

(***************************************************************************)
(* The key directory.                                                      *)
(***************************************************************************)
\* load_set: the active pointer must name a key that is there.
Loadable(d) == d # Nil /\ d.active \in d.bins

\* Mutant: only the active key is kept in memory.
LoadSet_Active(d) == [active |-> d.active, keys |-> {d.active}]

LoadSet(d) == [active |-> d.active, keys |-> d.bins]

\* load_or_create with the new layout there.
Boot ==
  /\ signer = Nil /\ mutation = Nil /\ Loadable(dir)
  /\ signer' = LoadSet(dir)
  /\ UNCHANGED <<dir, mutation, made, hasty, agentVars, tokenVars, faults>>

\* First start, or import of the key of an old version: the directory is made,
\* then the key is written and the pointer, then the set is loaded.
BootMakesDir ==
  /\ signer = Nil /\ mutation = Nil /\ dir = Nil
  /\ dir' = [active |-> 0, bins |-> {}]
  /\ mutation' = [kind |-> "create", key |-> 1, at |-> "key"]
  /\ UNCHANGED <<signer, made, hasty, agentVars, tokenVars, faults>>

\* Rotation and retirement hold mutate_lock from here to their last step.
RotateStarts ==
  /\ signer # Nil /\ mutation = Nil /\ made + 1 \in Key
  /\ mutation' = [kind |-> "rotate", key |-> made + 1, at |-> "key"]
  /\ UNCHANGED <<dir, signer, made, hasty, agentVars, tokenVars, faults>>

\* generate_and_persist; write_key_file goes by a rename.
KeyWritten ==
  /\ mutation # Nil /\ mutation.at = "key"
  /\ dir' = [dir EXCEPT !.bins = @ \union {mutation.key}]
  /\ made' = IF mutation.key > made THEN mutation.key ELSE made
  /\ mutation' = [mutation EXCEPT !.at = "pointer"]
  /\ UNCHANGED <<signer, hasty, agentVars, tokenVars, faults>>

\* write_active_pointer, by a rename too.
PointerWritten ==
  /\ mutation # Nil /\ mutation.at = "pointer"
  /\ dir' = [dir EXCEPT !.active = mutation.key]
  /\ mutation' = [mutation EXCEPT !.at = "load"]
  /\ UNCHANGED <<signer, made, hasty, agentVars, tokenVars, faults>>

\* When an operator should retire a key: every agent has fetched the bundle with
\* the active key, and no answer from before is under way. Nothing checks it.
WindowOver ==
  /\ file # Nil /\ file.pinned # {} => signer.active \in file.pinned
  /\ call = Nil

\* retire looks at the active key again under the lock, and at nothing else.
MayRetire(k) == signer.active # k /\ k \in signer.keys

RetireRemoves(k) ==
  /\ signer # Nil /\ mutation = Nil /\ MayRetire(k)
  /\ dir' = [dir EXCEPT !.bins = @ \ {k}]
  /\ mutation' = [kind |-> "retire", key |-> k, at |-> "load"]
  /\ hasty' = (hasty \/ ~WindowOver)
  /\ UNCHANGED <<signer, made, agentVars, tokenVars, faults>>

SetLoaded ==
  /\ mutation # Nil /\ mutation.at = "load" /\ Loadable(dir)
  /\ signer' = LoadSet(dir)
  /\ mutation' = Nil
  /\ UNCHANGED <<dir, made, hasty, agentVars, tokenVars, faults>>

\* A write, a removal or load_set fails in a server that runs: what is on disk
\* stays so, the set in memory is the old one, and the lock is free again.
KeyChangeFails ==
  /\ mutation # Nil /\ signer # Nil /\ Fault
  /\ mutation' = Nil
  /\ UNCHANGED <<dir, signer, made, hasty, agentVars, tokenVars>>

\* The server stops; a request it was working on gets no answer.
ServerStops ==
  /\ (signer # Nil \/ mutation # Nil) /\ Fault
  /\ signer' = Nil /\ mutation' = Nil
  /\ call' = IF call # Nil THEN [call EXCEPT !.answer = "error"] ELSE Nil
  /\ orphaned' = (orphaned \/ (call # Nil /\ call.issued # 0))
  /\ UNCHANGED <<dir, made, hasty, file, client, cycle, row, given, age>>

(***************************************************************************)
(* Requests of the agent.  "answer" is Nil until the server has handled    *)
(* the request, then "error" or "ok"; token, keys and label are its body.  *)
(***************************************************************************)
Ask(kind) ==
  call' = [kind |-> kind, token |-> (IF client # Nil THEN client.token ELSE 0),
           issued |-> 0, keys |-> {}, answer |-> Nil, signed |-> 0, label |-> 0]

Waiting(kind) == call # Nil /\ call.kind = kind /\ call.answer = Nil /\ signer # Nil

Answered(kind) == call # Nil /\ call.kind = kind /\ call.answer # Nil

\* authenticate
Accepts(b) == row = b /\ age[b] # "expired"

\* register_agent: a name that is taken is a conflict.
ServerRegisters ==
  /\ Waiting("register")
  /\ IF row # Nil \/ given + 1 \notin Bearer
     THEN /\ call' = [call EXCEPT !.answer = "error"]
          /\ UNCHANGED tokenVars
     ELSE /\ row' = given + 1 /\ given' = given + 1
          /\ call' = [call EXCEPT !.answer = "ok", !.issued = given + 1]
          /\ UNCHANGED <<age, orphaned>>
  /\ UNCHANGED <<serverVars, file, client, cycle, faults>>

\* rotate_agent_token: the row forgets the old token at once.
ServerRotates ==
  /\ Waiting("rotate") /\ given + 1 \in Bearer
  /\ IF ~Accepts(call.token)
     THEN /\ call' = [call EXCEPT !.answer = "error"]
          /\ UNCHANGED tokenVars
     ELSE /\ row' = given + 1 /\ given' = given + 1
          /\ call' = [call EXCEPT !.answer = "ok", !.issued = given + 1]
          /\ UNCHANGED <<age, orphaned>>
  /\ UNCHANGED <<serverVars, file, client, cycle, faults>>

\* pubkey_bundle reads the active key and then the set, in two loads.
ServerReadsActive ==
  /\ Waiting("bundle") /\ call.label = 0
  /\ call' = [call EXCEPT !.label = signer.active]
  /\ UNCHANGED <<serverVars, tokenVars, file, client, cycle, faults>>

ServerReadsKeys ==
  /\ Waiting("bundle") /\ call.label # 0
  /\ call' = [call EXCEPT !.keys = signer.keys,
                          !.answer = IF call.label \in signer.keys THEN "ok" ELSE "error"]
  /\ UNCHANGED <<serverVars, tokenVars, file, client, cycle, faults>>

\* list_assignments: sign and key_id load the signer one after the other.
ServerSigns ==
  /\ Waiting("poll") /\ call.signed = 0
  /\ call' = IF Accepts(call.token) THEN [call EXCEPT !.signed = signer.active]
                                    ELSE [call EXCEPT !.answer = "error"]
  /\ UNCHANGED <<serverVars, tokenVars, file, client, cycle, faults>>

ServerLabels ==
  /\ Waiting("poll") /\ call.signed # 0
  /\ call' = [call EXCEPT !.label = signer.active, !.answer = "ok"]
  /\ UNCHANGED <<serverVars, tokenVars, file, client, cycle, faults>>

\* heartbeat, observations and drift: all that matters here is the 401.
ServerSeesPush ==
  /\ Waiting("push")
  /\ call' = [call EXCEPT !.answer = IF Accepts(call.token) THEN "ok" ELSE "error"]
  /\ UNCHANGED <<serverVars, tokenVars, file, client, cycle, faults>>

\* The request or its answer is lost; reqwest gives the agent an error.
AnswerLost ==
  /\ call # Nil /\ call.answer # "error" /\ Fault
  /\ orphaned' = (orphaned \/ call.issued # 0)
  /\ call' = [call EXCEPT !.answer = "error", !.issued = 0]
  /\ UNCHANGED <<serverVars, file, client, cycle, row, given, age>>

(***************************************************************************)
(* The agent: connect_with_tls, then the steps of observe_once for ever.   *)
(***************************************************************************)
\* Nobody registers who has an identity file, whatever became of its token.
AgentConnects ==
  /\ cycle = "connect" /\ call = Nil
  /\ cycle' = IF file = Nil THEN "register" ELSE "pin"
  /\ Ask(IF file = Nil THEN "register" ELSE "bundle")
  /\ UNCHANGED <<serverVars, tokenVars, file, client, faults>>

\* persist_identity writes another file and renames it, or fails and leaves the
\* one that is there.
Persists(id) == file' = id /\ UNCHANGED faults

PersistFails == Fault /\ UNCHANGED file

AgentRegistered ==
  /\ cycle = "register" /\ Answered("register")
  /\ \/ /\ call.answer = "ok" /\ Persists([token |-> call.issued, pinned |-> {}])
        /\ cycle' = "pin" /\ Ask("bundle") /\ UNCHANGED orphaned
     \/ /\ call.answer = "ok" /\ PersistFails
        /\ cycle' = "connect" /\ call' = Nil /\ orphaned' = TRUE
     \/ /\ call.answer = "error"
        /\ cycle' = "connect" /\ call' = Nil /\ UNCHANGED <<file, faults, orphaned>>
  /\ UNCHANGED <<serverVars, client, row, given, age>>

\* First contact pins the whole bundle; later ones need a key in common.
Overlaps(pinned, bundle) == pinned = {} \/ pinned \intersect bundle # {}

Pinned(pinned, bundle) == bundle

AgentPins ==
  /\ cycle = "pin" /\ Answered("bundle")
  /\ call' = Nil
  /\ LET agreed == call.answer = "ok" /\ Overlaps(file.pinned, call.keys) IN
     \/ /\ agreed /\ Persists([file EXCEPT !.pinned = Pinned(@, call.keys)])
        /\ client' = file' /\ cycle' = "push"
     \/ agreed /\ PersistFails /\ cycle' = "connect" /\ UNCHANGED client
     \/ ~agreed /\ cycle' = "connect" /\ UNCHANGED <<file, client, faults>>
  /\ UNCHANGED <<serverVars, tokenVars>>

AgentAsks ==
  /\ call = Nil /\ client # Nil
  /\ \/ cycle = "push" /\ Ask("push")
     \/ cycle = "drain" /\ Ask("poll")
     \/ cycle = "keys" /\ Ask("bundle")
     \/ cycle = "rotate" /\ age[client.token] # "fresh" /\ Ask("rotate")
  /\ UNCHANGED <<serverVars, tokenVars, file, client, cycle, faults>>

\* reset_remote_if_auth_error: the next cycle connects again, from the file.
AgentPushed ==
  /\ cycle = "push" /\ Answered("push")
  /\ call' = Nil
  /\ \/ call.answer = "ok" /\ cycle' = "drain" /\ UNCHANGED client
     \/ call.answer = "error" /\ cycle' = "drain" /\ UNCHANGED client
     \/ /\ call.answer = "error" /\ ~Accepts(call.token)
        /\ cycle' = "connect" /\ client' = Nil
  /\ UNCHANGED <<serverVars, tokenVars, file, faults>>

\* verify_envelope: whether the batch is executed or dropped as a whole changes
\* nothing here; Fleet has both.
AgentDrained ==
  /\ cycle = "drain" /\ Answered("poll")
  /\ call' = Nil
  /\ \/ cycle' = "keys" /\ UNCHANGED client
     \/ /\ call.answer = "error" /\ ~Accepts(call.token)
        /\ cycle' = "connect" /\ client' = Nil
  /\ UNCHANGED <<serverVars, tokenVars, file, faults>>

\* maybe_refresh_signing_keys: less than an hour since the last time.
AgentSkips ==
  /\ call = Nil /\ client # Nil
  /\ \/ cycle = "keys" /\ cycle' = "rotate"
     \/ cycle = "rotate" /\ age[client.token] = "fresh" /\ cycle' = "push"
  /\ UNCHANGED <<serverVars, tokenVars, file, client, call, faults>>

AgentRefreshed ==
  /\ cycle = "keys" /\ Answered("bundle")
  /\ call' = Nil /\ cycle' = "rotate"
  /\ LET agreed == call.answer = "ok" /\ Overlaps(client.pinned, call.keys) IN
     \/ /\ agreed /\ Persists([client EXCEPT !.pinned = Pinned(@, call.keys)])
        /\ client' = file'
     \/ agreed /\ PersistFails /\ UNCHANGED client
     \/ ~agreed /\ UNCHANGED <<file, client, faults>>
  /\ UNCHANGED <<serverVars, tokenVars>>

\* Mutant: the new token is used, and not written to the identity file.
AgentRotated_Unsaved ==
  /\ cycle = "rotate" /\ Answered("rotate")
  /\ call' = Nil /\ cycle' = "push"
  /\ client' = IF call.answer = "ok" THEN [client EXCEPT !.token = call.issued] ELSE client
  /\ UNCHANGED <<serverVars, tokenVars, file, faults>>

\* rotate_token: persist the new identity, then use it. When that fails the agent
\* keeps the old token, which the server has forgotten.
AgentRotated ==
  /\ cycle = "rotate" /\ Answered("rotate")
  /\ call' = Nil /\ cycle' = "push"
  /\ \/ /\ call.answer = "ok" /\ Persists([client EXCEPT !.token = call.issued])
        /\ client' = file' /\ UNCHANGED orphaned
     \/ call.answer = "ok" /\ PersistFails /\ UNCHANGED client /\ orphaned' = TRUE
     \/ call.answer = "error" /\ UNCHANGED <<file, client, faults, orphaned>>
  /\ UNCHANGED <<serverVars, row, given, age>>

\* The agent stops and starts again: the file is all that is left.
AgentStops ==
  /\ Fault
  /\ orphaned' = (orphaned \/ (call # Nil /\ call.issued # 0))
  /\ client' = Nil /\ call' = Nil /\ cycle' = "connect"
  /\ UNCHANGED <<serverVars, file, row, given, age>>

\* Time passes: a token comes within an hour of its end, and ends.
Ages(b) ==
  /\ b <= given /\ age[b] # "expired"
  /\ age' = [age EXCEPT ![b] = IF @ = "fresh" THEN "due" ELSE "expired"]
  /\ UNCHANGED <<serverVars, agentVars, row, given, orphaned, faults>>

TrustNext ==
  \/ Boot \/ BootMakesDir \/ RotateStarts \/ KeyWritten \/ PointerWritten \/ SetLoaded
  \/ KeyChangeFails
  \/ \E k \in Key : RetireRemoves(k)
  \/ ServerStops \/ AnswerLost \/ AgentStops
  \/ ServerRegisters \/ ServerRotates \/ ServerReadsActive \/ ServerReadsKeys
  \/ ServerSigns \/ ServerLabels \/ ServerSeesPush
  \/ AgentConnects \/ AgentRegistered \/ AgentPins \/ AgentAsks \/ AgentSkips
  \/ AgentPushed \/ AgentDrained \/ AgentRefreshed \/ AgentRotated
  \/ \E b \in Bearer : Ages(b)

TrustSpec == TrustInit /\ [][TrustNext]_trustVars

(***************************************************************************)
(* Properties.                                                             *)
(***************************************************************************)
TrustTypeOK ==
  /\ dir = Nil \/ dir \in KeyDir
  /\ signer = Nil \/ signer \in [active : Key, keys : SUBSET Key]
  /\ row = Nil \/ row \in Bearer
  /\ file = Nil \/ file \in Identity
  /\ client = Nil \/ client \in Identity
  /\ mutation = Nil \/ mutation \in KeyChange
  /\ call = Nil \/ call \in AgentCall

\* The agent's file and the server's row have the same token, except while a
\* rotation is under way and after a new token got lost on its way into the file:
\* its answer was lost, a process stopped, or the file could not be written. No
\* order of rotations, expiries, refused calls and restarts does it otherwise
\* (register_agent, rotate_agent_token, rotate_token, persist_identity).
LockedOutOnlyByLoss ==
  file # Nil /\ (call = Nil \/ call.issued = 0) => file.token = row \/ orphaned

\* An agent that has pinned keys has one in common with the server, so that it
\* can follow the rotation, unless a key was retired before the agent had fetched
\* the active one (hasty): changes of keys that fail or are cut off half way and
\* bundles fetched meanwhile never do it (rotate, retire, load_set,
\* refresh_signing_keys).
NeverStranded ==
  ~hasty /\ file # Nil /\ file.pinned # {} /\ signer # Nil
    => file.pinned \intersect signer.keys # {}

=============================================================================
