---------------------------- MODULE ClientProofs ----------------------------
(***************************************************************************)
(* Theorems about those who call the control plane: an agent, its token    *)
(* and the signing keys (Trust), users and their tokens (Accounts), the    *)
(* command line, alone (CommandLine) and with a server (ServerClient).     *)
(***************************************************************************)
EXTENDS Accounts, Trust, ServerClient, FiniteSetTheorems, TLAPS

(***************************************************************************)
(* The agent and the server.                                               *)
(*                                                                         *)
(* LockedOutOnlyByLoss and NeverStranded speak of the states in which no   *)
(* answer is under way; CallInv says what an answer under way may carry,   *)
(* CycleInv where the agent's copy of its identity is the one in the file, *)
(* KeysInv how the keys in memory and those on disk differ while a change  *)
(* of keys is half done or has failed, PinnedInv that nothing the agent    *)
(* has pinned, or is about to pin, is cut off from the server as long as   *)
(* no key was retired before its window was over.                          *)
(***************************************************************************)
CycleInv ==
  /\ cycle \in {"connect", "register", "pin", "push", "drain", "keys", "rotate"}
  /\ cycle \in {"connect", "register", "pin"} => client = Nil
  /\ cycle = "pin" => file \in Identity
  /\ cycle \in {"push", "drain", "keys", "rotate"} => client = file /\ file \in Identity

CallInv ==
  call # Nil =>
    /\ call.kind \notin {"register", "rotate"} => call.issued = 0
    /\ call.issued # 0 => orphaned \/ (call.answer = "ok" /\ call.issued = row)
    /\ call.kind \in {"register", "rotate"} /\ call.answer = "ok" => call.issued \in Bearer

KeysInv ==
  /\ signer # Nil => dir # Nil /\ signer.active \in signer.keys \intersect dir.bins
  /\ mutation # Nil =>
       /\ dir # Nil
       /\ mutation.kind = "create" => signer = Nil
       /\ mutation.at = "pointer" => mutation.key \in dir.bins

\* A set of keys the agent has pinned, or is about to pin.
InCommon(keys) ==
  /\ dir # Nil /\ keys \intersect dir.bins # {}
  /\ signer # Nil => keys \intersect signer.keys # {}

PinnedInv ==
  ~hasty =>
    /\ file # Nil /\ file.pinned # {} => InCommon(file.pinned)
    /\ call # Nil /\ call.kind = "bundle" /\ call.answer = "ok" => InCommon(call.keys)

TrustInv ==
  /\ TrustTypeOK /\ given \in Nat /\ made \in Nat /\ orphaned \in BOOLEAN /\ hasty \in BOOLEAN
  /\ CycleInv /\ CallInv /\ KeysInv /\ PinnedInv /\ LockedOutOnlyByLoss

LEMMA TrustConstants ==
  /\ Key \subseteq Nat \ {0} /\ 1 \in Key /\ Bearer \subseteq Nat \ {0}
  /\ Nil \notin KeyDir /\ Nil \notin KeyChange /\ Nil \notin AgentCall /\ Nil \notin Identity
  /\ Nil # "error" /\ Nil # "ok"
<1>1. \A n : 1..n \subseteq Nat \ {0}
  OBVIOUS
<1>2. Key \subseteq Nat \ {0} /\ Bearer \subseteq Nat \ {0}
  BY <1>1, TrustAssumption
<1> QED
  BY <1>2, TrustAssumption

LEMMA TrustInitial == TrustInit => TrustInv
<1> SUFFICES ASSUME TrustInit PROVE TrustInv
  OBVIOUS
<1>1. TrustTypeOK /\ given \in Nat /\ made \in Nat /\ orphaned \in BOOLEAN /\ hasty \in BOOLEAN
  BY DEF TrustInit, TrustTypeOK
<1>2. CycleInv
  BY DEF TrustInit, CycleInv
<1>3. CallInv /\ KeysInv /\ PinnedInv /\ LockedOutOnlyByLoss
  BY DEF TrustInit, CallInv, KeysInv, PinnedInv, LockedOutOnlyByLoss
<1> QED
  BY <1>1, <1>2, <1>3 DEF TrustInv

\* What the server does to its keys.
LEMMA KeyStep ==
  ASSUME TrustInv,
         \/ Boot \/ BootMakesDir \/ RotateStarts \/ KeyWritten \/ PointerWritten \/ SetLoaded
         \/ KeyChangeFails \/ \E k \in Key : RetireRemoves(k)
  PROVE  TrustInv'
<1> DEFINE Rest == CycleInv /\ CallInv /\ LockedOutOnlyByLoss
<1>0. UNCHANGED <<agentVars, tokenVars>>
  BY DEF Boot, BootMakesDir, RotateStarts, KeyWritten, PointerWritten, SetLoaded, RetireRemoves,
         KeyChangeFails
<1>1. Rest'
  BY <1>0 DEF TrustInv, agentVars, tokenVars, CycleInv, CallInv, LockedOutOnlyByLoss
<1> HIDE DEF Rest
<1>2. SUFFICES /\ dir' = Nil \/ dir' \in KeyDir
               /\ signer' = Nil \/ signer' \in [active : Key, keys : SUBSET Key]
               /\ mutation' = Nil \/ mutation' \in KeyChange
               /\ made' \in Nat /\ hasty' \in BOOLEAN
               /\ KeysInv' /\ PinnedInv'
  BY <1>0, <1>1 DEF TrustInv, TrustTypeOK, agentVars, tokenVars, Rest
<1> USE TrustConstants DEF TrustInv, TrustTypeOK
<1>3. CASE Boot \/ SetLoaded \/ KeyChangeFails
  BY <1>0, <1>3 DEF Boot, SetLoaded, KeyChangeFails, LoadSet, Loadable, KeyDir, KeysInv, PinnedInv, InCommon,
                    agentVars
<1>4. CASE BootMakesDir
  <2> DEFINE m == [kind |-> "create", key |-> 1, at |-> "key"]
  <2>1. m \in KeyChange
    BY DEF KeyChange
  <2> HIDE DEF m
  <2>2. dir' \in KeyDir /\ mutation' = m /\ signer' = Nil /\ made' = made
        /\ hasty' = hasty
    BY <1>4 DEF BootMakesDir, KeyDir, m
  <2>3. KeysInv'
    BY <1>4, <2>2 DEF BootMakesDir, KeysInv, m
  <2>4. PinnedInv'
    BY <1>0, <1>4 DEF BootMakesDir, PinnedInv, InCommon, agentVars
  <2> QED
    BY <2>1, <2>2, <2>3, <2>4
<1>5. CASE RotateStarts
  BY <1>0, <1>5 DEF RotateStarts, KeyDir, KeyChange, KeysInv, PinnedInv, InCommon, agentVars
<1>6. CASE KeyWritten
  <2> DEFINE m == [mutation EXCEPT !.at = "pointer"]
  <2>1. /\ mutation \in KeyChange /\ mutation # Nil /\ dir \in KeyDir /\ dir # Nil
        /\ mutation' = m /\ signer' = signer /\ made' \in Nat /\ hasty' = hasty
        /\ dir' = [dir EXCEPT !.bins = @ \union {mutation.key}]
    BY <1>6 DEF KeyWritten, KeysInv, KeyChange
  <2>2. m \in KeyChange /\ m.kind = mutation.kind /\ m.key = mutation.key /\ m.at = "pointer"
    BY <2>1 DEF KeyChange
  <2> HIDE DEF m
  <2>3. dir' \in KeyDir /\ dir'.active = dir.active /\ dir'.bins = dir.bins \union {mutation.key}
    BY <2>1 DEF KeyDir, KeyChange
  <2>4. mutation' # Nil /\ dir' # Nil
    BY <2>1, <2>2, <2>3
  <2>5. KeysInv'
    BY <2>1, <2>2, <2>3, <2>4 DEF KeysInv
  <2>6. PinnedInv'
    BY <1>0, <2>1, <2>3, <2>4 DEF PinnedInv, InCommon, agentVars
  <2> QED
    BY <2>1, <2>2, <2>3, <2>5, <2>6
<1>7. CASE PointerWritten
  <2> DEFINE m == [mutation EXCEPT !.at = "load"]
  <2>1. /\ mutation \in KeyChange /\ mutation # Nil /\ dir \in KeyDir /\ dir # Nil
        /\ mutation' = m /\ signer' = signer /\ made' = made /\ hasty' = hasty
        /\ dir' = [dir EXCEPT !.active = mutation.key]
    BY <1>7 DEF PointerWritten, KeysInv
  <2>2. m \in KeyChange /\ m.kind = mutation.kind /\ m.key = mutation.key /\ m.at = "load"
    BY <2>1 DEF KeyChange
  <2> HIDE DEF m
  <2>3. dir' \in KeyDir /\ dir'.bins = dir.bins
    BY <2>1 DEF KeyDir, KeyChange
  <2>4. mutation' # Nil /\ dir' # Nil
    BY <2>1, <2>2, <2>3
  <2>5. KeysInv'
    BY <2>1, <2>2, <2>3, <2>4 DEF KeysInv
  <2>6. PinnedInv'
    BY <1>0, <2>1, <2>3, <2>4 DEF PinnedInv, InCommon, agentVars
  <2> QED
    BY <2>1, <2>2, <2>3, <2>5, <2>6
<1>8. CASE \E k \in Key : RetireRemoves(k)
  <2>0. PICK k \in Key : RetireRemoves(k)
    BY <1>8
  <2> DEFINE m == [kind |-> "retire", key |-> k, at |-> "load"]
  <2>1. /\ dir \in KeyDir /\ dir # Nil /\ mutation' = m /\ signer' = signer /\ signer # Nil
        /\ made' = made /\ dir' = [dir EXCEPT !.bins = @ \ {k}]
        /\ signer.active # k /\ hasty' = (hasty \/ ~WindowOver)
    BY <2>0 DEF RetireRemoves, MayRetire, KeysInv
  <2>2. m \in KeyChange /\ m.kind = "retire" /\ m.at = "load"
    BY DEF KeyChange
  <2> HIDE DEF m
  <2>3. dir' \in KeyDir /\ dir'.bins = dir.bins \ {k}
    BY <2>1 DEF KeyDir
  <2>4. mutation' # Nil /\ dir' # Nil
    BY <2>1, <2>2, <2>3
  <2>5. KeysInv'
    BY <2>1, <2>2, <2>3, <2>4 DEF KeysInv
  <2>6. PinnedInv'
    BY <1>0, <2>1, <2>3, <2>4 DEF PinnedInv, InCommon, agentVars, KeysInv, WindowOver
  <2> QED
    BY <2>1, <2>2, <2>3, <2>5, <2>6
<1> QED
  BY <1>3, <1>4, <1>5, <1>6, <1>7, <1>8

\* The server works on a request: it has issued no token yet, or answers with
\* one, and a bundle it answers with is the set in memory.
LEMMA AnswerStep ==
  ASSUME TrustInv, call # Nil, call' \in AgentCall, call'.kind = call.kind,
         UNCHANGED <<serverVars, file, client, cycle, age, orphaned>>,
         given' \in Nat, row' = Nil \/ row' \in Bearer,
         \/ UNCHANGED row /\ call'.issued = call.issued /\ call.answer = Nil
            /\ (call.kind \in {"register", "rotate"} => call'.answer # "ok")
         \/ call.kind \in {"register", "rotate"} /\ call'.answer = "ok"
            /\ call'.issued = row' /\ row' \in Bearer,
         call.kind = "bundle" /\ call'.answer = "ok" => signer # Nil /\ call'.keys = signer.keys
  PROVE  TrustInv'
<1> USE TrustConstants DEF TrustInv, TrustTypeOK, serverVars
<1>1. call' # Nil
  OBVIOUS
<1>2. TrustTypeOK' /\ CycleInv' /\ KeysInv'
  BY DEF CycleInv, KeysInv
<1>3. CallInv'
  BY <1>1 DEF CallInv
<1>4. PinnedInv'
  BY <1>1 DEF PinnedInv, InCommon, KeysInv
<1>5. LockedOutOnlyByLoss'
  BY <1>1 DEF LockedOutOnlyByLoss, CallInv
<1>6. given' \in Nat /\ made' \in Nat /\ orphaned' \in BOOLEAN /\ hasty' \in BOOLEAN
  OBVIOUS
<1> QED
  BY <1>2, <1>3, <1>4, <1>5, <1>6

LEMMA ServerStep ==
  ASSUME TrustInv,
         \/ ServerRegisters \/ ServerRotates \/ ServerReadsActive \/ ServerReadsKeys
         \/ ServerSigns \/ ServerLabels \/ ServerSeesPush
  PROVE  TrustInv'
<1> USE TrustConstants
<1>0. /\ call # Nil /\ call \in AgentCall /\ call.answer = Nil /\ signer # Nil
      /\ signer.active \in Key /\ signer.keys \subseteq Key
      /\ given \in Nat /\ (row = Nil \/ row \in Bearer)
  BY DEF ServerRegisters, ServerRotates, ServerReadsActive, ServerReadsKeys, ServerSigns,
         ServerLabels, ServerSeesPush, Waiting, TrustInv, TrustTypeOK
<1>1. CASE ServerRegisters
  <2>1. CASE call' = [call EXCEPT !.answer = "error"] /\ UNCHANGED tokenVars
    <3>1. /\ call' \in AgentCall /\ call'.kind = call.kind /\ call'.issued = call.issued
          /\ call'.answer = "error"
      BY <1>0, <2>1 DEF AgentCall
    <3> QED
      BY <1>0, <1>1, <2>1, <3>1, AnswerStep DEF ServerRegisters, tokenVars
  <2>2. CASE /\ row' = given + 1 /\ given' = given + 1 /\ given + 1 \in Bearer
             /\ call' = [call EXCEPT !.answer = "ok", !.issued = given + 1]
             /\ UNCHANGED <<age, orphaned>>
    <3>1. /\ call' \in AgentCall /\ call'.kind = call.kind /\ call'.issued = given + 1
          /\ call'.answer = "ok"
      BY <1>0, <2>2 DEF AgentCall
    <3> QED
      BY <1>0, <1>1, <2>2, <3>1, AnswerStep DEF ServerRegisters, Waiting
  <2> QED
    BY <1>1, <2>1, <2>2 DEF ServerRegisters
<1>2. CASE ServerRotates
  <2>1. CASE call' = [call EXCEPT !.answer = "error"] /\ UNCHANGED tokenVars
    <3>1. /\ call' \in AgentCall /\ call'.kind = call.kind /\ call'.issued = call.issued
          /\ call'.answer = "error"
      BY <1>0, <2>1 DEF AgentCall
    <3> QED
      BY <1>0, <1>2, <2>1, <3>1, AnswerStep DEF ServerRotates, tokenVars
  <2>2. CASE /\ row' = given + 1 /\ given' = given + 1 /\ given + 1 \in Bearer
             /\ call' = [call EXCEPT !.answer = "ok", !.issued = given + 1]
             /\ UNCHANGED <<age, orphaned>>
    <3>1. /\ call' \in AgentCall /\ call'.kind = call.kind /\ call'.issued = given + 1
          /\ call'.answer = "ok"
      BY <1>0, <2>2 DEF AgentCall
    <3> QED
      BY <1>0, <1>2, <2>2, <3>1, AnswerStep DEF ServerRotates, Waiting
  <2> QED
    BY <1>2, <2>1, <2>2 DEF ServerRotates
<1>3. CASE ServerReadsActive
  <2>1. /\ call' \in AgentCall /\ call'.kind = call.kind /\ call'.issued = call.issued
        /\ call'.answer = Nil
    BY <1>0, <1>3 DEF ServerReadsActive, AgentCall
  <2> QED
    BY <1>0, <1>3, <2>1, AnswerStep DEF ServerReadsActive, tokenVars
<1>4. CASE ServerReadsKeys
  <2>1. /\ call' \in AgentCall /\ call'.kind = call.kind /\ call'.issued = call.issued
        /\ call'.keys = signer.keys
    BY <1>0, <1>4 DEF ServerReadsKeys, AgentCall
  <2> QED
    BY <1>0, <1>4, <2>1, AnswerStep DEF ServerReadsKeys, Waiting, tokenVars
<1>5. CASE ServerSigns
  <2>1. call' \in AgentCall /\ call'.kind = call.kind /\ call'.issued = call.issued
    BY <1>0, <1>5 DEF ServerSigns, AgentCall
  <2> QED
    BY <1>0, <1>5, <2>1, AnswerStep DEF ServerSigns, Waiting, tokenVars
<1>6. CASE ServerLabels
  <2>1. call' \in AgentCall /\ call'.kind = call.kind /\ call'.issued = call.issued
    BY <1>0, <1>6 DEF ServerLabels, AgentCall
  <2> QED
    BY <1>0, <1>6, <2>1, AnswerStep DEF ServerLabels, Waiting, tokenVars
<1>7. CASE ServerSeesPush
  <2>1. call' \in AgentCall /\ call'.kind = call.kind /\ call'.issued = call.issued
    BY <1>0, <1>7 DEF ServerSeesPush, AgentCall
  <2> QED
    BY <1>0, <1>7, <2>1, AnswerStep DEF ServerSeesPush, Waiting, tokenVars
<1> QED
  BY <1>1, <1>2, <1>3, <1>4, <1>5, <1>6, <1>7

\* Either process stops, an answer is lost, or time passes.
LEMMA FaultStep ==
  ASSUME TrustInv, ServerStops \/ AnswerLost \/ AgentStops \/ \E b \in Bearer : Ages(b)
  PROVE  TrustInv'
<1> USE TrustConstants DEF TrustInv, TrustTypeOK
<1>1. CASE ServerStops
  <2>1. CASE call = Nil
    BY <1>1, <2>1 DEF ServerStops, CycleInv, CallInv, KeysInv, PinnedInv, InCommon,
                      LockedOutOnlyByLoss
  <2>2. CASE call # Nil
    <3>1. /\ call' \in AgentCall /\ call'.kind = call.kind /\ call'.issued = call.issued
          /\ call'.answer = "error" /\ call' # Nil
      BY <1>1, <2>2 DEF ServerStops, AgentCall
    <3>2. orphaned' \in BOOLEAN /\ (call.issued # 0 \/ orphaned => orphaned')
      BY <1>1, <2>2 DEF ServerStops
    <3>3. UNCHANGED <<dir, made, hasty, file, client, cycle, row, given, age>>
          /\ signer' = Nil /\ mutation' = Nil
      BY <1>1 DEF ServerStops
    <3>4. CallInv' /\ CycleInv' /\ KeysInv'
      BY <2>2, <3>1, <3>2, <3>3 DEF CallInv, CycleInv, KeysInv
    <3>5. PinnedInv'
      BY <3>1, <3>3 DEF PinnedInv, InCommon
    <3>6. LockedOutOnlyByLoss'
      BY <2>2, <3>1, <3>2, <3>3 DEF LockedOutOnlyByLoss
    <3> QED
      BY <3>1, <3>2, <3>3, <3>4, <3>5, <3>6
  <2> QED
    BY <2>1, <2>2
<1>2. CASE AnswerLost
  <2>1. /\ call' \in AgentCall /\ call'.kind = call.kind /\ call'.issued = 0
        /\ call'.answer = "error" /\ call' # Nil
    BY <1>2 DEF AnswerLost, AgentCall
  <2>2. orphaned' \in BOOLEAN /\ (call.issued # 0 \/ orphaned => orphaned') /\ call # Nil
    BY <1>2 DEF AnswerLost
  <2>3. UNCHANGED <<dir, signer, mutation, made, hasty, file, client, cycle, row, given, age>>
    BY <1>2 DEF AnswerLost, serverVars
  <2>4. CallInv' /\ CycleInv' /\ KeysInv'
    BY <2>1, <2>2, <2>3 DEF CallInv, CycleInv, KeysInv
  <2>5. PinnedInv'
    BY <2>1, <2>3 DEF PinnedInv, InCommon
  <2>6. LockedOutOnlyByLoss'
    BY <2>1, <2>2, <2>3 DEF LockedOutOnlyByLoss
  <2> QED
    BY <2>1, <2>2, <2>3, <2>4, <2>5, <2>6
<1>3. CASE AgentStops
  BY <1>3 DEF AgentStops, serverVars, CycleInv, CallInv, KeysInv, PinnedInv, InCommon,
              LockedOutOnlyByLoss
<1>4. CASE \E b \in Bearer : Ages(b)
  BY <1>4 DEF Ages, serverVars, agentVars, CycleInv, CallInv, KeysInv, PinnedInv, InCommon,
              LockedOutOnlyByLoss
<1> QED
  BY <1>1, <1>2, <1>3, <1>4

\* A request that has just been sent.
LEMMA AskStep ==
  ASSUME TrustTypeOK, NEW k \in {"register", "bundle", "push", "poll", "rotate"}, Ask(k)
  PROVE  /\ call' \in AgentCall /\ call' # Nil /\ call'.kind = k
         /\ call'.issued = 0 /\ call'.answer = Nil
<1>1. call' \in AgentCall /\ call'.kind = k /\ call'.issued = 0 /\ call'.answer = Nil
  BY DEF Ask, AgentCall, TrustTypeOK, Identity
<1> QED
  BY <1>1, TrustConstants

LEMMA AgentAskStep ==
  ASSUME TrustInv, AgentConnects \/ AgentAsks \/ AgentSkips
  PROVE  TrustInv'
<1> USE TrustConstants DEF TrustInv, TrustTypeOK
<1>1. CASE AgentSkips
  BY <1>1 DEF AgentSkips, serverVars, tokenVars, CycleInv, CallInv, KeysInv, PinnedInv, InCommon,
              LockedOutOnlyByLoss
<1>2. CASE AgentConnects \/ AgentAsks
  <2>1. PICK k \in {"register", "bundle", "push", "poll", "rotate"} : Ask(k)
    BY <1>2 DEF AgentConnects, AgentAsks
  <2>2. /\ call' \in AgentCall /\ call' # Nil /\ call'.kind = k
        /\ call'.issued = 0 /\ call'.answer = Nil
    BY <2>1, AskStep
  <2>3. call = Nil /\ UNCHANGED <<serverVars, tokenVars, file, client>>
    BY <1>2 DEF AgentConnects, AgentAsks
  <2>4. CycleInv'
    BY <1>2, <2>3 DEF AgentConnects, AgentAsks, CycleInv
  <2>5. CallInv' /\ KeysInv' /\ PinnedInv' /\ LockedOutOnlyByLoss'
    BY <2>2, <2>3 DEF CallInv, KeysInv, PinnedInv, InCommon, LockedOutOnlyByLoss, serverVars,
                      tokenVars
  <2> QED
    BY <2>2, <2>3, <2>4, <2>5 DEF serverVars, tokenVars
<1> QED
  BY <1>1, <1>2

\* The agent takes an answer, keeps its identity or writes a new one, and goes
\* on.
TokenTaken ==
  file' # Nil =>
    IF call.answer = "ok" /\ call.kind \in {"register", "rotate"}
    THEN file'.token = call.issued \/ orphaned'
    ELSE file # Nil /\ file'.token = file.token

KeysTaken ==
  file' # Nil =>
    \/ file'.pinned = {}
    \/ file # Nil /\ file'.pinned = file.pinned
    \/ call.kind = "bundle" /\ call.answer = "ok" /\ file'.pinned = call.keys

LEMMA TakeStep ==
  ASSUME TrustInv, call # Nil, call' = Nil, UNCHANGED <<serverVars, row, given, age>>,
         orphaned' \in BOOLEAN, orphaned => orphaned',
         CycleInv', file' = Nil \/ file' \in Identity, client' = Nil \/ client' \in Identity,
         TokenTaken, KeysTaken
  PROVE  TrustInv'
<1> USE TrustConstants DEF TrustInv, TrustTypeOK, serverVars
<1>1. TrustTypeOK' /\ CallInv' /\ KeysInv'
  BY DEF CallInv, KeysInv
<1>2. PinnedInv'
  BY DEF PinnedInv, InCommon, KeysTaken
<1>3. LockedOutOnlyByLoss'
  BY DEF LockedOutOnlyByLoss, CallInv, TokenTaken
<1> QED
  BY <1>1, <1>2, <1>3

\* The agent keeps what it has.
LEMMA KeepStep ==
  ASSUME TrustInv, call # Nil, call' = Nil, UNCHANGED <<serverVars, row, given, age, file>>,
         orphaned' \in BOOLEAN, orphaned => orphaned', CycleInv', client' = client \/ client' = Nil,
         call.answer = "ok" /\ call.kind \in {"register", "rotate"} => orphaned'
  PROVE  TrustInv'
<1>1. TokenTaken /\ KeysTaken
  BY DEF TokenTaken, KeysTaken
<1>2. (file' = Nil \/ file' \in Identity) /\ (client' = Nil \/ client' \in Identity)
  BY DEF TrustInv, TrustTypeOK
<1> QED
  BY <1>1, <1>2, TakeStep

LEMMA AgentStep ==
  ASSUME TrustInv,
         AgentRegistered \/ AgentPins \/ AgentPushed \/ AgentDrained \/ AgentRefreshed \/ AgentRotated
  PROVE  TrustInv'
<1> USE TrustConstants
<1>0. /\ call # Nil /\ call \in AgentCall /\ CycleInv /\ (file = Nil \/ file \in Identity)
      /\ (client = Nil \/ client \in Identity) /\ UNCHANGED <<serverVars, row, given, age>>
      /\ call.kind \in {"register", "rotate"} /\ call.answer = "ok" => call.issued \in Bearer
      /\ orphaned' \in BOOLEAN /\ (orphaned => orphaned')
  BY DEF AgentRegistered, AgentPins, AgentPushed, AgentDrained, AgentRefreshed, AgentRotated,
         Answered, TrustInv, TrustTypeOK, CallInv, tokenVars
<1>2. CASE AgentPins
  <2>1. file \in Identity /\ client = Nil /\ call' = Nil /\ call.kind = "bundle"
    BY <1>0, <1>2 DEF AgentPins, CycleInv, Answered
  <2>2. CASE UNCHANGED <<file, client>> /\ cycle' = "connect"
    <3>1. CycleInv'
      BY <1>0, <2>1, <2>2 DEF CycleInv
    <3> QED
      BY <1>0, <2>1, <2>2, <3>1, KeepStep
  <2>3. CASE /\ call.answer = "ok" /\ cycle' = "push" /\ client' = file'
             /\ file' = [file EXCEPT !.pinned = Pinned(@, call.keys)]
    <3>1. file' \in Identity /\ file'.token = file.token /\ file'.pinned = call.keys
      BY <1>0, <2>1, <2>3 DEF Pinned, Identity, AgentCall
    <3>2. CycleInv'
      BY <2>3, <3>1 DEF CycleInv
    <3>8. TokenTaken /\ KeysTaken
      BY <1>0, <2>1, <2>3, <3>1, <3>2 DEF TokenTaken, KeysTaken
    <3> QED
      BY <1>0, <2>1, <2>3, <3>1, <3>2, <3>8, TakeStep
  <2> QED
    BY <1>2, <2>2, <2>3 DEF AgentPins, Persists, PersistFails
<1>3. CASE AgentPushed \/ AgentDrained
  <2>1. /\ file' = file /\ call' = Nil /\ (client' = client \/ client' = Nil)
        /\ call.kind \in {"push", "poll"}
    BY <1>3 DEF AgentPushed, AgentDrained, Answered
  <2>2. CycleInv'
    BY <1>0, <1>3 DEF AgentPushed, AgentDrained, CycleInv
  <2> QED
    BY <1>0, <2>1, <2>2, KeepStep
<1>4. CASE AgentRefreshed
  <2>1. /\ file \in Identity /\ client = file /\ call' = Nil /\ call.kind = "bundle"
        /\ cycle' = "rotate"
    BY <1>0, <1>4 DEF AgentRefreshed, CycleInv, Answered
  <2>2. CASE UNCHANGED <<file, client>>
    <3>1. CycleInv'
      BY <1>0, <2>1, <2>2 DEF CycleInv
    <3> QED
      BY <1>0, <2>1, <2>2, <3>1, KeepStep
  <2>3. CASE /\ call.answer = "ok" /\ client' = file'
             /\ file' = [client EXCEPT !.pinned = Pinned(@, call.keys)]
    <3>1. file' \in Identity /\ file'.token = file.token /\ file'.pinned = call.keys
      BY <1>0, <2>1, <2>3 DEF Pinned, Identity, AgentCall
    <3>2. CycleInv'
      BY <2>1, <2>3, <3>1 DEF CycleInv
    <3>8. TokenTaken /\ KeysTaken
      BY <1>0, <2>1, <2>3, <3>1, <3>2 DEF TokenTaken, KeysTaken
    <3> QED
      BY <1>0, <2>1, <2>3, <3>1, <3>2, <3>8, TakeStep
  <2> QED
    BY <1>4, <2>2, <2>3 DEF AgentRefreshed, Persists, PersistFails
<1>5. CASE AgentRotated
  <2>1. /\ file \in Identity /\ client = file /\ call' = Nil /\ call.kind = "rotate"
        /\ cycle' = "push"
    BY <1>0, <1>5 DEF AgentRotated, CycleInv, Answered
  <2>2. CASE UNCHANGED <<file, client>> /\ (call.answer = "ok" => orphaned')
    <3>1. CycleInv'
      BY <1>0, <2>1, <2>2 DEF CycleInv
    <3> QED
      BY <1>0, <2>1, <2>2, <3>1, KeepStep
  <2>3. CASE /\ call.answer = "ok" /\ client' = file'
             /\ file' = [client EXCEPT !.token = call.issued]
    <3>1. file' \in Identity /\ file'.token = call.issued /\ file'.pinned = file.pinned
      BY <1>0, <2>1, <2>3 DEF Identity
    <3>2. CycleInv'
      BY <2>1, <2>3, <3>1 DEF CycleInv
    <3>8. TokenTaken /\ KeysTaken
      BY <1>0, <2>1, <2>3, <3>1, <3>2 DEF TokenTaken, KeysTaken
    <3> QED
      BY <1>0, <2>1, <2>3, <3>1, <3>2, <3>8, TakeStep
  <2> QED
    BY <1>5, <2>2, <2>3 DEF AgentRotated, Persists, PersistFails
<1>6. CASE AgentRegistered
  <2>1. client = Nil /\ client' = client /\ call.kind = "register"
    BY <1>0, <1>6 DEF AgentRegistered, CycleInv, Answered
  <2>2. CASE /\ cycle' = "connect" /\ call' = Nil /\ UNCHANGED file
             /\ call.answer = "ok" => orphaned'
    <3>1. CycleInv'
      BY <1>0, <2>1, <2>2 DEF CycleInv
    <3> QED
      BY <1>0, <2>1, <2>2, <3>1, KeepStep
  <2>3. CASE /\ call.answer = "ok" /\ file' = [token |-> call.issued, pinned |-> {}]
             /\ cycle' = "pin" /\ Ask("bundle")
    <3> USE DEF TrustInv, TrustTypeOK
    <3>1. file' \in Identity /\ file'.token = call.issued /\ file'.pinned = {}
      BY <1>0, <2>1, <2>3 DEF Identity
    <3>2. /\ call' \in AgentCall /\ call' # Nil /\ call'.kind = "bundle"
          /\ call'.issued = 0 /\ call'.answer = Nil
      BY <2>3, AskStep
    <3>3. CycleInv'
      BY <2>1, <2>3, <3>1 DEF CycleInv
    <3>4. CallInv' /\ KeysInv' /\ PinnedInv'
      BY <1>0, <3>1, <3>2 DEF CallInv, KeysInv, PinnedInv, InCommon, serverVars
    <3>5. LockedOutOnlyByLoss'
      BY <1>0, <2>1, <2>3, <3>1 DEF LockedOutOnlyByLoss, CallInv
    <3> QED
      BY <1>0, <2>1, <3>1, <3>2, <3>3, <3>4, <3>5 DEF serverVars
  <2> QED
    BY <1>6, <2>2, <2>3 DEF AgentRegistered, Persists, PersistFails
<1> QED
  BY <1>2, <1>3, <1>4, <1>5, <1>6

LEMMA TrustInvariant == TrustSpec => []TrustInv
<1>1. TrustInv /\ [TrustNext]_trustVars => TrustInv'
  <2> SUFFICES ASSUME TrustInv, [TrustNext]_trustVars PROVE TrustInv'
    OBVIOUS
  <2>1. CASE UNCHANGED trustVars
    BY <2>1 DEF trustVars, serverVars, agentVars, tokenVars, TrustInv, TrustTypeOK, CycleInv,
                CallInv, KeysInv, PinnedInv, InCommon, LockedOutOnlyByLoss
  <2>2. CASE TrustNext
    BY <2>2, KeyStep, ServerStep, FaultStep, AgentAskStep, AgentStep DEF TrustNext
  <2> QED
    BY <2>1, <2>2
<1> QED
  BY <1>1, TrustInitial, PTL DEF TrustSpec

\* The key directory, the keys in memory, both copies of the agent's identity and
\* its request have their types at every step (signing.rs, remote.rs).
THEOREM TrustTypeCorrect == TrustSpec => []TrustTypeOK
<1>1. TrustInv => TrustTypeOK
  BY DEF TrustInv
<1> QED
  BY <1>1, TrustInvariant, PTL

\* Whenever the processes stop, whatever is lost and whichever writes fail: the
\* token in the agent's file is the one in the server's row, unless a rotation is
\* under way or a new token did not get as far as the file (register_agent,
\* rotate_agent_token, rotate_token, persist_identity).
THEOREM LockedOutOnlyByLossCorrect == TrustSpec => []LockedOutOnlyByLoss
<1>1. TrustInv => LockedOutOnlyByLoss
  BY DEF TrustInv
<1> QED
  BY <1>1, TrustInvariant, PTL

\* However many keys are made and retired, and wherever a change of keys fails or
\* is cut off: what the agent has pinned and what the server has in memory have a
\* key in common, unless a key was retired before the agent had fetched the active
\* one (rotate, retire, load_set, refresh_signing_keys).
THEOREM NeverStrandedCorrect == TrustSpec => []NeverStranded
<1>1. TrustInv => NeverStranded
  BY DEF TrustInv, PinnedInv, InCommon, NeverStranded
<1> QED
  BY <1>1, TrustInvariant, PTL

(***************************************************************************)
(* Users and their tokens.                                                 *)
(*                                                                         *)
(* A request checks and writes in different statements; RequestOK says     *)
(* what it has read that is still true when it writes, unless the database *)
(* will refuse the write (stale), and Apart which requests cannot be at    *)
(* their statements at the same time: on Postgres because of row locks, on *)
(* SQLite because there is one writer.                                     *)
(***************************************************************************)
Steps(r) ==
  \/ r.kind = "login" /\ r.phase = "verified"
  \/ r.kind = "refresh" /\ r.phase \in {"read", "deleted"}
  \/ r.kind = "roles" /\ r.phase = "checked"
  \/ r.kind = "disable" /\ r.phase \in {"checked", "sweep"}
  \/ r.kind = "password" /\ r.phase = "sweep"

\* What update_user_roles and disable_user have found out.
StillTrue(r) ==
  /\ r.kind \in {"roles", "disable"} /\ ~r.stale => AdminRemainsAfter(r.owner, r.kind, r.roles)
  /\ r.kind \in {"disable", "password"} /\ ~r.stale => users[r.owner].epoch < MaxEpoch

\* The login a request goes back to, and the token it was made with.
LoginOf(r) ==
  /\ r.kind \in {"login", "refresh"} /\ r.epoch < users[r.owner].epoch => r.raced
  /\ r.kind = "refresh" =>
       /\ r.token \in Token /\ r.token <= issued /\ r.session \in Token /\ r.session <= issued
       /\ tokens[r.token] # None =>
            tokens[r.token].session = r.session /\ tokens[r.token].owner = r.owner
  /\ r.phase = "deleted" => tokens[r.token] # None

\* The DELETE of a sweep has seen every row of the user that was there.
SweepSees(r) ==
  r.phase = "sweep" =>
    /\ r.session <= issued
    /\ \A t \in Token : tokens[t] # None /\ tokens[t].owner = r.owner /\ t <= r.session
                        => t \in r.doomed

RequestOK(r) ==
  /\ Present(r.owner) /\ Steps(r)
  /\ r.phase \in {"sweep", "deleted"} => ~r.stale
  /\ StillTrue(r) /\ LoginOf(r) /\ SweepSees(r)

Apart(a, b) ==
  /\ Dialect = "postgres" /\ a.phase = "checked" => b.phase \notin {"checked", "sweep"}
  /\ Dialect = "postgres" /\ a.phase = "sweep" /\ b.phase = "sweep"
       => a.owner # b.owner /\ (a.kind # "disable" \/ b.kind # "disable")
  /\ Dialect = "sqlite" /\ a.phase \in {"sweep", "deleted"} => b.phase \notin {"sweep", "deleted"}
  /\ a.phase = "deleted" /\ b.phase = "deleted" => a.token # b.token

TokenOK(t) ==
  tokens[t] # None =>
    /\ t <= issued /\ tokens[t].session <= issued /\ Present(tokens[t].owner)

AccountsInv ==
  /\ AccountsTypeOK
  /\ \A q \in Request : requests[q] # None => RequestOK(requests[q])
  /\ \A p, q \in Request : p # q /\ requests[p] # None /\ requests[q] # None
                             => Apart(requests[p], requests[q])
  /\ \A t \in Token : TokenOK(t)
  /\ TokensFollowLogins

LEMMA AccountsConstants ==
  /\ None \notin UserRow /\ None \notin TokenRow /\ None \notin RequestRow /\ None \notin Request
  /\ Token \subseteq Nat \ {0} /\ MaxEpoch \in Nat /\ RoleSet \subseteq SUBSET Role
  /\ Dialect = "postgres" \/ Dialect = "sqlite"
<1>1. \A n : 1..n \subseteq Nat \ {0}
  OBVIOUS
<1>2. Token \subseteq Nat \ {0}
  BY <1>1, AccountsAssumption
<1> QED
  BY <1>2, AccountsAssumption

LEMMA TokenIsNat == Token \subseteq Nat /\ \A t \in Token \union {0} : t \in Nat
BY AccountsConstants

LEMMA IssuedIsNat ==
  ASSUME AccountsTypeOK
  PROVE  issued \in Nat
BY AccountsConstants DEF AccountsTypeOK

\* What the guard of update_user_roles and disable_user comes to: there is no
\* administrator to lose, another one, or the user stays one.
Safe(us, u, change, roles) ==
  \/ ActiveAdmins(us) = {}
  \/ \E a \in ActiveAdmins(us) : a # u
  \/ change # "disable" /\ "admin" \in roles /\ ~us[u].disabled

Given(us, u, change, roles) ==
  [us EXCEPT ![u] = IF change = "disable" THEN [@ EXCEPT !.disabled = TRUE]
                                          ELSE [@ EXCEPT !.roles = roles]]

LEMMA GuardMeans ==
  ASSUME NEW us \in [User -> UserRow \union {None}], NEW u \in User, us[u] # None,
         NEW change, NEW roles \in SUBSET Role
  PROVE  (ActiveAdmins(us) # {} => ActiveAdmins(Given(us, u, change, roles)) # {})
           <=> Safe(us, u, change, roles)
<1> DEFINE vs == Given(us, u, change, roles)
<1> USE DEF Given
<1>1. \A a \in User : a # u => vs[a] = us[a]
  OBVIOUS
<1>2. us[u] \in UserRow
  OBVIOUS
<1>3. vs[u] # None /\ vs[u] \in UserRow
  BY <1>2, AccountsConstants DEF UserRow
<1>4. /\ change = "disable" => vs[u].disabled = TRUE
      /\ change # "disable" => vs[u].roles = roles /\ vs[u].disabled = us[u].disabled
  BY <1>2 DEF UserRow
<1> HIDE DEF vs, Given
<1>5. (ActiveAdmins(us) # {} => ActiveAdmins(vs) # {}) <=> Safe(us, u, change, roles)
  <2>1. \A a : a \in ActiveAdmins(vs) <=>
                 IF a = u THEN change # "disable" /\ "admin" \in roles /\ ~us[u].disabled
                          ELSE a \in ActiveAdmins(us)
    BY <1>1, <1>3, <1>4 DEF ActiveAdmins
  <2> QED
    BY <2>1 DEF Safe
<1> QED
  BY <1>5 DEF vs

LEMMA GuardHolds ==
  ASSUME AccountsTypeOK, NEW u \in User, Present(u), NEW change, NEW roles \in SUBSET Role
  PROVE  AdminRemainsAfter(u, change, roles) <=> Safe(users, u, change, roles)
<1>1. Proposed(u, change, roles) = Given(users, u, change, roles)
  BY DEF Proposed, Given
<1> QED
  BY <1>1, GuardMeans DEF AccountsTypeOK, AdminRemainsAfter, Present

\* The same after a step.
LEMMA GuardHoldsNext ==
  ASSUME AccountsTypeOK', NEW u \in User, Present(u)', NEW change, NEW roles \in SUBSET Role
  PROVE  AdminRemainsAfter(u, change, roles)' <=> Safe(users', u, change, roles)
<1>1. Proposed(u, change, roles)' = Given(users', u, change, roles)
  BY DEF Proposed, Given
<1> QED
  BY <1>1, GuardMeans DEF AccountsTypeOK, AdminRemainsAfter, Present

\* Another transaction commits: a request goes on with what it has, perhaps
\* stale, perhaps raced.
Later(r, s) ==
  /\ r # None
  /\ s.kind = r.kind /\ s.owner = r.owner /\ s.roles = r.roles /\ s.phase = r.phase
  /\ s.token = r.token /\ s.session = r.session /\ s.epoch = r.epoch /\ s.doomed = r.doomed
  /\ (r.raced => s.raced) /\ (r.stale => s.stale)

LEMMA StaleIs ==
  ASSUME NEW rs \in [Request -> RequestRow \union {None}], NEW q, NEW p \in Request
  PROVE  LET s == MakeStale(rs, q)[p] IN
         /\ s \in RequestRow \union {None} /\ (s = None <=> rs[p] = None)
         /\ s # None => Later(rs[p], s)
         /\ s # None /\ p # q /\ Dialect = "sqlite" => s.stale
         /\ Dialect # "sqlite" => s = rs[p]
<1> DEFINE s == MakeStale(rs, q)[p]
<1>1. CASE p # q /\ rs[p] # None /\ Dialect = "sqlite"
  <2>1. s = [rs[p] EXCEPT !.stale = TRUE] /\ rs[p] \in RequestRow
    BY <1>1 DEF MakeStale
  <2>2. s \in RequestRow /\ s.stale = TRUE
    BY <2>1 DEF RequestRow
  <2>3. Later(rs[p], s)
    BY <1>1, <2>1 DEF RequestRow, Later
  <2> QED
    BY <1>1, <2>2, <2>3, AccountsConstants
<1>2. CASE ~(p # q /\ rs[p] # None /\ Dialect = "sqlite")
  <2>1. s = rs[p]
    BY <1>2 DEF MakeStale
  <2> QED
    BY <1>2, <2>1 DEF Later
<1> QED
  BY <1>1, <1>2

(***************************************************************************)
(* Steps that leave the tables alone                                       *)
(***************************************************************************)

\* A request ends without a commit.
LEMMA FailStep ==
  ASSUME AccountsInv, NEW q \in Request, Fail(q)
  PROVE  AccountsInv'
<1>1. requests' = [requests EXCEPT ![q] = None] /\ UNCHANGED <<users, tokens, issued>>
  BY DEF Fail
<1>2. AccountsTypeOK'
  BY <1>1 DEF AccountsInv, AccountsTypeOK
<1>3. \A p \in Request : requests'[p] # None => p # q /\ requests'[p] = requests[p]
  BY <1>1 DEF AccountsInv, AccountsTypeOK
<1>4. ASSUME NEW p \in Request, requests'[p] # None
      PROVE  RequestOK(requests[p])'
  <2>1. RequestOK(requests[p]) /\ requests'[p] = requests[p]
    BY <1>3, <1>4 DEF AccountsInv
  <2> QED
    BY <1>1, <2>1 DEF RequestOK, Present, Steps, StillTrue, AdminRemainsAfter, Proposed, LoginOf,
                      SweepSees
<1>5. \A a, b \in Request : a # b /\ requests'[a] # None /\ requests'[b] # None
                             => Apart(requests'[a], requests'[b])
  BY <1>3 DEF AccountsInv
<1>6. (\A t \in Token : TokenOK(t)') /\ TokensFollowLogins'
  BY <1>1 DEF AccountsInv, TokenOK, TokensFollowLogins, Present
<1> QED
  BY <1>2, <1>4, <1>5, <1>6 DEF AccountsInv

\* A request begins or goes on.
LEMMA OneRequest ==
  ASSUME AccountsInv, NEW q \in Request, NEW r \in RequestRow,
         requests' = [requests EXCEPT ![q] = r], UNCHANGED <<users, tokens, issued>>,
         RequestOK(r),
         \A p \in Request : p # q /\ requests[p] # None => Apart(requests[p], r) /\ Apart(r, requests[p])
  PROVE  AccountsInv'
<1>1. AccountsTypeOK' /\ requests'[q] = r
  BY DEF AccountsInv, AccountsTypeOK
<1>2. \A p \in Request : p # q => requests'[p] = requests[p]
  BY DEF AccountsInv, AccountsTypeOK
<1>3. ASSUME NEW p \in Request, requests'[p] # None
      PROVE  RequestOK(requests[p])'
  <2>1. PICK s : s = requests'[p] /\ RequestOK(s)
    BY <1>1, <1>2, <1>3 DEF AccountsInv
  <2>2. users' = users /\ tokens' = tokens /\ issued' = issued
    OBVIOUS
  <2>3. Present(s.owner)' /\ Steps(s) /\ (s.phase \in {"sweep", "deleted"} => ~s.stale)
    BY <2>1, <2>2 DEF RequestOK, Present
  <2>4. StillTrue(s)'
    <3>1. \A u, c, rs : Proposed(u, c, rs)' = Proposed(u, c, rs)
      BY <2>2 DEF Proposed
    <3>2. \A u, c, rs : AdminRemainsAfter(u, c, rs)' <=> AdminRemainsAfter(u, c, rs)
      BY <2>2, <3>1 DEF AdminRemainsAfter
    <3> QED
      BY <2>1, <2>2, <3>2 DEF RequestOK, StillTrue
  <2>5. LoginOf(s)' /\ SweepSees(s)'
    BY <2>1, <2>2 DEF RequestOK, LoginOf, SweepSees
  <2>6. RequestOK(s)'
    BY <2>3, <2>4, <2>5 DEF RequestOK
  <2> QED
    BY <2>1, <2>6
<1>4. \A a, b \in Request : a # b /\ requests'[a] # None /\ requests'[b] # None
                             => Apart(requests'[a], requests'[b])
  BY <1>1, <1>2 DEF AccountsInv
<1>5. (\A t \in Token : TokenOK(t)') /\ TokensFollowLogins'
  BY DEF AccountsInv, TokenOK, TokensFollowLogins, Present
<1> QED
  BY <1>1, <1>3, <1>4, <1>5 DEF AccountsInv

LEMMA LoginReadsStep ==
  ASSUME AccountsInv, NEW q \in Request, NEW u \in User, LoginReads(q, u)
  PROVE  AccountsInv'
<1> DEFINE r == [kind |-> "login", owner |-> u, roles |-> {}, phase |-> "verified", token |-> None,
                 stale |-> FALSE, session |-> 0, epoch |-> users[u].epoch, doomed |-> {},
                 raced |-> FALSE]
<1>1. requests' = [requests EXCEPT ![q] = r] /\ UNCHANGED <<users, tokens, issued>> /\ Present(u)
  BY DEF LoginReads, Begin
<1>2. users[u].epoch \in 0..MaxEpoch
  BY <1>1 DEF AccountsInv, AccountsTypeOK, Present, UserRow
<1>3. r \in RequestRow
  BY <1>2 DEF RequestRow
<1>4. RequestOK(r)
  BY <1>1, <1>2 DEF RequestOK, Steps, StillTrue, LoginOf, SweepSees
<1>5. \A b : Apart(b, r) /\ Apart(r, b)
  BY DEF Apart
<1> HIDE DEF r
<1> QED
  BY <1>1, <1>3, <1>4, <1>5, OneRequest

LEMMA RefreshReadsStep ==
  ASSUME AccountsInv, NEW q \in Request, NEW t \in Token, RefreshReads(q, t)
  PROVE  AccountsInv'
<1> DEFINE row0 == tokens[t]
           r == [kind |-> "refresh", owner |-> row0.owner, roles |-> {}, phase |-> "read",
                 token |-> t, stale |-> FALSE, session |-> row0.session, epoch |-> row0.epoch,
                 doomed |-> {}, raced |-> row0.raced]
<1>1. /\ requests' = [requests EXCEPT ![q] = r] /\ UNCHANGED <<users, tokens, issued>>
      /\ row0 # None
  BY DEF RefreshReads, Resolves
<1>2. row0 \in TokenRow
  BY <1>1 DEF AccountsInv, AccountsTypeOK
<1>3. r \in RequestRow
  BY <1>2 DEF RequestRow, TokenRow
<1>4. /\ t <= issued /\ row0.session <= issued /\ Present(row0.owner)
      /\ row0.epoch < users[row0.owner].epoch => row0.raced
  BY <1>1 DEF AccountsInv, TokenOK, TokensFollowLogins
<1>5. RequestOK(r)
  BY <1>2, <1>4 DEF RequestOK, Steps, StillTrue, LoginOf, SweepSees, TokenRow
<1>6. \A b : Apart(b, r) /\ Apart(r, b)
  BY DEF Apart
<1> HIDE DEF r
<1> QED
  BY <1>1, <1>3, <1>5, <1>6, OneRequest

\* FOR UPDATE: nobody else is between its check and its commit.
LEMMA GuardedReadsStep ==
  ASSUME AccountsInv, NEW q \in Request, NEW u \in User,
         NEW change \in {"roles", "disable"}, NEW rs \in SUBSET Role,
         GuardedReads(q, u, change, rs)
  PROVE  AccountsInv'
<1> DEFINE r == [kind |-> change, owner |-> u, roles |-> rs, phase |-> "checked", token |-> None,
                 stale |-> FALSE, session |-> 0, epoch |-> users[u].epoch, doomed |-> {},
                 raced |-> FALSE]
<1>1. /\ requests' = [requests EXCEPT ![q] = r] /\ UNCHANGED <<users, tokens, issued>>
      /\ Present(u) /\ AdminRemainsAfter(u, change, rs)
      /\ change = "disable" => users[u].epoch < MaxEpoch
  BY DEF GuardedReads, Begin
<1>2. users[u].epoch \in 0..MaxEpoch
  BY <1>1 DEF AccountsInv, AccountsTypeOK, Present, UserRow
<1>3. r \in RequestRow
  BY <1>2 DEF RequestRow
<1>4. RequestOK(r)
  BY <1>1, <1>2 DEF RequestOK, Steps, StillTrue, LoginOf, SweepSees
<1>5. ASSUME NEW p \in Request, p # q, requests[p] # None
      PROVE  Apart(requests[p], r) /\ Apart(r, requests[p])
  <2>1. Present(requests[p].owner) /\ requests[p].owner \in User
    BY <1>5 DEF AccountsInv, RequestOK, AccountsTypeOK, RequestRow
  <2>2. ~UserLocked(u, q) /\ ~UserLocked(requests[p].owner, q)
    BY <1>1, <2>1 DEF GuardedReads, GuardCanRead
  <2>3. Dialect = "postgres" => requests[p].phase \notin {"checked", "sweep"}
    BY <1>5, <2>2 DEF UserLocked, Holding
  <2> QED
    BY <2>3 DEF Apart
<1> HIDE DEF r
<1> QED
  BY <1>1, <1>3, <1>4, <1>5, OneRequest

LEMMA PasswordWritesStep ==
  ASSUME AccountsInv, NEW q \in Request, NEW u \in User, PasswordWrites(q, u)
  PROVE  AccountsInv'
<1> DEFINE r == [kind |-> "password", owner |-> u, roles |-> {}, phase |-> "sweep", token |-> None,
                 stale |-> FALSE, session |-> issued, epoch |-> users[u].epoch,
                 doomed |-> TokensOf(u), raced |-> FALSE]
<1>1. /\ requests' = [requests EXCEPT ![q] = r] /\ UNCHANGED <<users, tokens, issued>>
      /\ Present(u) /\ users[u].epoch < MaxEpoch /\ WriterFree(q) /\ ~UserLocked(u, q)
  BY DEF PasswordWrites
<1>2. users[u].epoch \in 0..MaxEpoch
  BY <1>1 DEF AccountsInv, AccountsTypeOK, Present, UserRow
<1>3. r \in RequestRow
  BY <1>2 DEF RequestRow, TokensOf, AccountsInv, AccountsTypeOK
<1>4. RequestOK(r)
  <2>1. issued \in Nat
    BY IssuedIsNat DEF AccountsInv
  <2> QED
    BY <1>1, <1>2, <2>1 DEF RequestOK, Steps, StillTrue, LoginOf, SweepSees, TokensOf
<1>5. ASSUME NEW p \in Request, p # q, requests[p] # None
      PROVE  Apart(requests[p], r) /\ Apart(r, requests[p])
  <2>1. Dialect = "postgres" => /\ requests[p].phase # "checked"
                                /\ requests[p].phase = "sweep" => requests[p].owner # u
    BY <1>1, <1>5 DEF UserLocked, Holding
  <2>2. Dialect = "sqlite" => requests[p].phase \notin {"sweep", "deleted"}
    BY <1>1, <1>5 DEF WriterFree, Holding
  <2> QED
    BY <2>1, <2>2 DEF Apart
<1> HIDE DEF r
<1> QED
  BY <1>1, <1>3, <1>4, <1>5, OneRequest

LEMMA DisableWritesStep ==
  ASSUME AccountsInv, NEW q \in Request, DisableWrites(q)
  PROVE  AccountsInv'
<1>0. CASE Fail(q)
  BY <1>0, FailStep
<1>1. CASE ~Fail(q)
  <2> DEFINE o == requests[q]
             r == [o EXCEPT !.phase = "sweep", !.session = issued, !.doomed = TokensOf(o.owner)]
  <2>1. /\ o # None /\ o.kind = "disable" /\ o.phase = "checked" /\ ~o.stale /\ WriterFree(q)
        /\ UNCHANGED <<users, tokens, issued>>
    BY <1>1 DEF DisableWrites
  <2>2. o \in RequestRow
    BY <2>1 DEF AccountsInv, AccountsTypeOK
  <2>3. requests' = [requests EXCEPT ![q] = r]
    BY <1>1, <2>2 DEF DisableWrites, RequestRow, AccountsInv, AccountsTypeOK
  <2>4. r \in RequestRow
    BY <2>2 DEF RequestRow, TokensOf, AccountsInv, AccountsTypeOK
  <2>5. /\ r.kind = "disable" /\ r.owner = o.owner /\ r.roles = o.roles /\ r.phase = "sweep"
        /\ r.stale = o.stale /\ r.session = issued /\ r.doomed = TokensOf(o.owner)
    BY <2>1, <2>2 DEF RequestRow
  <2> HIDE DEF r
  <2>6. RequestOK(o)
    BY <2>1 DEF AccountsInv
  <2>7. RequestOK(r)
    <3>1. issued \in Nat
      BY IssuedIsNat DEF AccountsInv
    <3> QED
      BY <2>1, <2>5, <2>6, <3>1 DEF RequestOK, Steps, StillTrue, LoginOf, SweepSees, TokensOf
  <2>8. ASSUME NEW p \in Request, p # q, requests[p] # None
        PROVE  Apart(requests[p], r) /\ Apart(r, requests[p])
    <3>1. Apart(o, requests[p]) /\ Apart(requests[p], o)
      BY <2>1, <2>8 DEF AccountsInv
    <3>2. Dialect = "sqlite" => requests[p].phase \notin {"sweep", "deleted"}
      BY <2>1, <2>8 DEF WriterFree, Holding
    <3> QED
      BY <2>1, <2>5, <3>1, <3>2 DEF Apart
  <2> QED
    BY <2>1, <2>3, <2>4, <2>7, <2>8, OneRequest
<1> QED
  BY <1>0, <1>1

\* The DELETE of a refresh goes through only while the row is there.
LEMMA RefreshDeletesStep ==
  ASSUME AccountsInv, NEW q \in Request, RefreshDeletes(q)
  PROVE  AccountsInv'
<1>0. CASE Fail(q)
  BY <1>0, FailStep
<1>1. CASE ~Fail(q)
  <2> DEFINE o == requests[q]
             r == [o EXCEPT !.phase = "deleted"]
  <2>1. /\ o # None /\ o.kind = "refresh" /\ o.phase = "read" /\ ~o.stale /\ WriterFree(q)
        /\ tokens[o.token] # None /\ ~TokenLocked(o.token, q)
        /\ UNCHANGED <<users, tokens, issued>>
    BY <1>1 DEF RefreshDeletes, RefreshTook
  <2>2. o \in RequestRow
    BY <2>1 DEF AccountsInv, AccountsTypeOK
  <2>3. requests' = [requests EXCEPT ![q] = r]
    BY <1>1, <2>2 DEF RefreshDeletes, RequestRow, AccountsInv, AccountsTypeOK
  <2>4. r \in RequestRow
    BY <2>2 DEF RequestRow
  <2>5. /\ r.kind = "refresh" /\ r.owner = o.owner /\ r.phase = "deleted" /\ r.token = o.token
        /\ r.stale = o.stale /\ r.session = o.session /\ r.epoch = o.epoch /\ r.raced = o.raced
    BY <2>1, <2>2 DEF RequestRow
  <2> HIDE DEF r
  <2>6. RequestOK(o)
    BY <2>1 DEF AccountsInv
  <2>7. RequestOK(r)
    BY <2>1, <2>5, <2>6 DEF RequestOK, Steps, StillTrue, LoginOf, SweepSees
  <2>8. ASSUME NEW p \in Request, p # q, requests[p] # None
        PROVE  Apart(requests[p], r) /\ Apart(r, requests[p])
    <3>1. Dialect = "sqlite" => requests[p].phase \notin {"sweep", "deleted"}
      BY <2>1, <2>8 DEF WriterFree, Holding
    <3>2. Dialect = "postgres" /\ requests[p].phase = "deleted" => requests[p].token # o.token
      BY <2>1, <2>8 DEF TokenLocked, Holding
    <3> QED
      BY <2>5, <3>1, <3>2, AccountsConstants DEF Apart
  <2> QED
    BY <2>1, <2>3, <2>4, <2>7, <2>8, OneRequest
<1> QED
  BY <1>0, <1>1

(***************************************************************************)
(* Commits                                                                 *)
(***************************************************************************)

\* What becomes of the requests when q commits (None: a statement of its own).
Onward(q) ==
  /\ requests' \in [Request -> RequestRow \union {None}]
  /\ \A p \in Request : requests'[p] # None =>
       /\ p # q /\ requests[p] # None /\ Later(requests[p], requests'[p])
       /\ Dialect = "sqlite" => requests'[p].stale
       /\ Dialect # "sqlite" => requests'[p].stale = requests[p].stale

LEMMA OnwardAlone ==
  ASSUME AccountsTypeOK, requests' = MakeStale(requests, None)
  PROVE  Onward(None)
<1>1. requests \in [Request -> RequestRow \union {None}]
  BY DEF AccountsTypeOK
<1>2. requests' \in [Request -> RequestRow \union {None}]
  <2>1. \A p \in Request : requests'[p] \in RequestRow \union {None}
    BY <1>1, StaleIs
  <2>2. requests' = [p \in Request |-> requests'[p]]
    BY DEF MakeStale
  <2> QED
    BY <2>1, <2>2
<1>3. ASSUME NEW p \in Request, requests'[p] # None
      PROVE  /\ p # None /\ requests[p] # None /\ Later(requests[p], requests'[p])
             /\ Dialect = "sqlite" => requests'[p].stale
             /\ Dialect # "sqlite" => requests'[p].stale = requests[p].stale
  BY <1>1, <1>3, StaleIs, AccountsConstants
<1> QED
  BY <1>2, <1>3 DEF Onward

LEMMA OnwardFinish ==
  ASSUME AccountsTypeOK, NEW q \in Request
  PROVE  /\ Finish(q) \in [Request -> RequestRow \union {None}]
         /\ \A p \in Request : Finish(q)[p] # None =>
              /\ p # q /\ requests[p] # None /\ Later(requests[p], Finish(q)[p])
              /\ Dialect = "sqlite" => Finish(q)[p].stale
              /\ Dialect # "sqlite" => Finish(q)[p].stale = requests[p].stale
         /\ \A p \in Request : p # q /\ requests[p] # None => Finish(q)[p] # None
<1> DEFINE rs == [requests EXCEPT ![q] = None]
<1>1. /\ rs \in [Request -> RequestRow \union {None}] /\ rs[q] = None
      /\ \A p \in Request : p # q => rs[p] = requests[p]
  BY DEF AccountsTypeOK
<1>2. Finish(q) = MakeStale(rs, q)
  BY DEF Finish
<1> HIDE DEF rs
<1>3. Finish(q) \in [Request -> RequestRow \union {None}]
  <2>1. \A p \in Request : Finish(q)[p] \in RequestRow \union {None}
    BY <1>1, <1>2, StaleIs
  <2>2. Finish(q) = [p \in Request |-> Finish(q)[p]]
    BY <1>2 DEF MakeStale
  <2> QED
    BY <2>1, <2>2
<1>4. ASSUME NEW p \in Request, Finish(q)[p] # None
      PROVE  /\ p # q /\ requests[p] # None /\ Later(requests[p], Finish(q)[p])
             /\ Dialect = "sqlite" => Finish(q)[p].stale
             /\ Dialect # "sqlite" => Finish(q)[p].stale = requests[p].stale
  <2>1. p # q
    BY <1>1, <1>2, <1>4, StaleIs
  <2> QED
    BY <1>1, <1>2, <1>4, <2>1, StaleIs
<1>5. \A p \in Request : p # q /\ requests[p] # None => Finish(q)[p] # None
  BY <1>1, <1>2, StaleIs
<1> QED
  BY <1>3, <1>4, <1>5

\* The part of the invariant that speaks of the requests alone.
LEMMA CommitStep ==
  ASSUME AccountsInv, NEW q, Onward(q), AccountsTypeOK',
         \A u \in User : Present(u) => Present(u)',
         Dialect = "sqlite" => \A p \in Request : p # q /\ requests[p] # None =>
                                 requests[p].phase \notin {"sweep", "deleted"},
         \A p \in Request : requests'[p] # None =>
            StillTrue(requests[p])' /\ LoginOf(requests[p])' /\ SweepSees(requests[p])',
         \A t \in Token : TokenOK(t)', TokensFollowLogins'
  PROVE  AccountsInv'
<1>1. ASSUME NEW p \in Request, requests'[p] # None
      PROVE  RequestOK(requests[p])'
  <2>1. /\ p # q /\ requests[p] # None /\ Later(requests[p], requests'[p])
        /\ Dialect # "sqlite" => requests'[p].stale = requests[p].stale
    BY <1>1 DEF Onward
  <2>2. RequestOK(requests[p]) /\ requests[p].owner \in User
    BY <2>1 DEF AccountsInv, AccountsTypeOK, RequestRow
  <2>3. Present(requests[p].owner)'
    <3>1. requests'[p].owner = requests[p].owner
      BY <2>1 DEF Later
    <3> QED
      BY <2>2, <3>1 DEF RequestOK, Present
  <2>4. Steps(requests'[p])
    BY <2>1, <2>2 DEF RequestOK, Later, Steps
  <2>5. requests'[p].phase \in {"sweep", "deleted"} => ~requests'[p].stale
    BY <2>1, <2>2 DEF RequestOK, Later
  <2> QED
    BY <1>1, <2>3, <2>4, <2>5 DEF RequestOK
<1>2. ASSUME NEW a \in Request, NEW b \in Request, a # b, requests'[a] # None, requests'[b] # None
      PROVE  Apart(requests'[a], requests'[b])
  <2>1. /\ requests[a] # None /\ requests[b] # None
        /\ Later(requests[a], requests'[a]) /\ Later(requests[b], requests'[b])
    BY <1>2 DEF Onward
  <2>2. Apart(requests[a], requests[b])
    BY <1>2, <2>1 DEF AccountsInv
  <2> QED
    BY <2>1, <2>2 DEF Apart, Later
<1> QED
  BY <1>1, <1>2 DEF AccountsInv

\* What a request has found out about the users stays true while they do not
\* change.
LEMMA UsersAlone ==
  ASSUME AccountsInv, NEW q, Onward(q), users' = users,
         NEW p \in Request, requests'[p] # None
  PROVE  StillTrue(requests[p])'
<1>1. requests[p] # None /\ Later(requests[p], requests'[p])
  BY DEF Onward
<1>2. StillTrue(requests[p])
  BY <1>1 DEF AccountsInv, RequestOK
<1>3. \A u, c, rs : AdminRemainsAfter(u, c, rs)' <=> AdminRemainsAfter(u, c, rs)
  <2>1. \A u, c, rs : Proposed(u, c, rs)' = Proposed(u, c, rs)
    BY DEF Proposed
  <2> QED
    BY <2>1 DEF AdminRemainsAfter
<1> QED
  BY <1>1, <1>2, <1>3 DEF StillTrue, Later

\* What becomes of the tokens: at most one is new, and has the next number.
TokensOnward ==
  /\ issued' = issued \/ issued' = issued + 1
  /\ \A t \in Token : tokens'[t] # None =>
       \/ t = issued + 1 /\ issued' = issued + 1
       \/ /\ tokens[t] # None /\ tokens'[t].owner = tokens[t].owner
          /\ tokens'[t].session = tokens[t].session /\ tokens'[t].epoch = tokens[t].epoch
          /\ tokens[t].raced => tokens'[t].raced

LEMMA SweepAlone ==
  ASSUME AccountsInv, NEW q, Onward(q), TokensOnward,
         NEW p \in Request, requests'[p] # None
  PROVE  SweepSees(requests[p])'
<1>1. requests[p] # None /\ Later(requests[p], requests'[p])
  BY DEF Onward
<1>2. SweepSees(requests[p]) /\ requests[p] \in RequestRow
  BY <1>1 DEF AccountsInv, RequestOK, AccountsTypeOK
<1>3. issued \in Nat /\ requests[p].session \in Nat /\ Token \subseteq Nat
  <2>1. requests[p].session \in Token \union {0}
    BY <1>2 DEF RequestRow
  <2>2. issued \in Nat
    BY IssuedIsNat DEF AccountsInv
  <2> QED
    BY <2>1, <2>2, TokenIsNat, Zenon
<1>4. SUFFICES ASSUME requests[p].phase = "sweep"
               PROVE  /\ requests[p].session <= issued'
                      /\ \A t \in Token : /\ tokens'[t] # None /\ tokens'[t].owner = requests[p].owner
                                         /\ t <= requests[p].session
                                         => t \in requests[p].doomed
  BY <1>1 DEF SweepSees, Later
<1>5. requests[p].session <= issued'
  BY <1>2, <1>3, <1>4 DEF SweepSees, TokensOnward
<1>6. ASSUME NEW t \in Token, tokens'[t] # None, tokens'[t].owner = requests[p].owner,
             t <= requests[p].session
      PROVE  t \in requests[p].doomed
  <2>1. t # issued + 1
    BY <1>2, <1>3, <1>4, <1>6 DEF SweepSees
  <2> QED
    BY <1>2, <1>4, <1>6, <2>1 DEF SweepSees, TokensOnward
<1> QED
  BY <1>5, <1>6

\* The part of LoginOf that a change of tokens can disturb.
LEMMA LoginAlone ==
  ASSUME AccountsInv, NEW q, Onward(q), TokensOnward, users' = users,
         NEW p \in Request, requests'[p] # None,
         requests[p].phase = "deleted" => tokens'[requests[p].token] # None
  PROVE  LoginOf(requests[p])'
<1>1. requests[p] # None /\ Later(requests[p], requests'[p])
  BY DEF Onward
<1>2. LoginOf(requests[p]) /\ requests[p] \in RequestRow
  BY <1>1 DEF AccountsInv, RequestOK, AccountsTypeOK
<1>3. issued \in Nat /\ Token \subseteq Nat
  BY AccountsConstants DEF AccountsInv, AccountsTypeOK
<1> DEFINE r == requests[p]
           s == requests'[p]
<1>4. s.kind \in {"login", "refresh"} /\ s.epoch < users'[s.owner].epoch => s.raced
  BY <1>1, <1>2 DEF LoginOf, Later
<1>5. s.phase = "deleted" => tokens'[s.token] # None
  BY <1>1 DEF Later
<1>6. ASSUME s.kind = "refresh"
      PROVE  /\ s.token \in Token /\ s.token <= issued' /\ s.session \in Token /\ s.session <= issued'
             /\ tokens'[s.token] # None =>
                  tokens'[s.token].session = s.session /\ tokens'[s.token].owner = s.owner
  <2>1. /\ r.kind = "refresh" /\ s.token = r.token /\ s.session = r.session /\ s.owner = r.owner
        /\ r.token \in Token /\ r.token <= issued /\ r.session \in Token /\ r.session <= issued
    BY <1>1, <1>2, <1>6 DEF LoginOf, Later
  <2>2. r.token <= issued' /\ r.session <= issued' /\ r.token # issued + 1
    <3>1. issued' = issued \/ issued' = issued + 1
      BY DEF TokensOnward
    <3>2. r.token \in Nat /\ r.session \in Nat
      BY <1>3, <2>1
    <3> QED
      BY <1>3, <2>1, <3>1, <3>2
  <2> QED
    BY <1>2, <2>1, <2>2 DEF LoginOf, TokensOnward
<1> QED
  BY <1>4, <1>5, <1>6 DEF LoginOf

LEMMA TokensStep ==
  ASSUME AccountsInv, NEW q, Onward(q), users' = users, AccountsTypeOK', TokensOnward,
         Dialect = "sqlite" => \A p \in Request : p # q /\ requests[p] # None =>
                                 requests[p].phase \notin {"sweep", "deleted"},
         \A p \in Request : requests'[p] # None /\ requests[p].phase = "deleted"
                             => tokens'[requests[p].token] # None,
         \A t \in Token : TokenOK(t)', TokensFollowLogins'
  PROVE  AccountsInv'
<1>1. \A p \in Request : requests'[p] # None =>
         StillTrue(requests[p])' /\ LoginOf(requests[p])' /\ SweepSees(requests[p])'
  BY UsersAlone, LoginAlone, SweepAlone
<1>2. \A u \in User : Present(u) => Present(u)'
  BY DEF Present
<1> QED
  BY <1>1, <1>2, CommitStep

\* login: the row goes in with the next number.
LEMMA LoginInsertsStep ==
  ASSUME AccountsInv, NEW q \in Request, LoginInserts(q)
  PROVE  AccountsInv'
<1> DEFINE r == requests[q]
           n == issued + 1
           row1 == [expired |-> FALSE, owner |-> r.owner, session |-> n, epoch |-> r.epoch,
                    raced |-> r.raced]
<1>1. /\ r # None /\ r.kind = "login" /\ n \in Token /\ issued' = n /\ users' = users
      /\ tokens' = [tokens EXCEPT ![n] = row1] /\ requests' = Finish(q) /\ WriterFree(q)
  BY DEF LoginInserts
<1>2. r \in RequestRow /\ RequestOK(r) /\ issued \in Nat /\ Token \subseteq Nat
  BY <1>1, AccountsConstants DEF AccountsInv, AccountsTypeOK
<1>3. row1 \in TokenRow
  BY <1>1, <1>2 DEF RequestRow, TokenRow
<1>4. row1.owner = r.owner /\ row1.session = n /\ row1.epoch = r.epoch /\ row1.raced = r.raced
  OBVIOUS
<1>5. Onward(q)
  BY <1>1, OnwardFinish DEF AccountsInv, Onward
<1> HIDE DEF row1
<1>6. tokens'[n] = row1 /\ \A t \in Token : t # n => tokens'[t] = tokens[t]
  BY <1>1 DEF AccountsInv, AccountsTypeOK
<1>7. AccountsTypeOK'
  BY <1>1, <1>3, <1>5 DEF AccountsInv, AccountsTypeOK, Onward
<1>8. TokensOnward
  BY <1>1, <1>2, <1>6 DEF TokensOnward
<1>9. Dialect = "sqlite" => \A p \in Request : p # q /\ requests[p] # None =>
                              requests[p].phase \notin {"sweep", "deleted"}
  BY <1>1 DEF WriterFree, Holding
<1>10. ASSUME NEW p \in Request, requests'[p] # None, requests[p].phase = "deleted"
       PROVE  tokens'[requests[p].token] # None
  <2>1. LoginOf(requests[p]) /\ requests[p].kind = "refresh"
    BY <1>5, <1>10 DEF Onward, AccountsInv, RequestOK, Steps
  <2>2. requests[p].token \in Token /\ requests[p].token <= issued
    BY <2>1 DEF LoginOf
  <2>3. requests[p].token # n
    BY <1>2, <2>2
  <2> QED
    BY <1>6, <1>10, <2>1, <2>2, <2>3 DEF LoginOf
<1>11. ASSUME NEW t \in Token
       PROVE  TokenOK(t)'
  <2>1. CASE t = n
    BY <1>1, <1>2, <1>4, <1>6, <2>1 DEF TokenOK, Present, RequestOK
  <2>2. CASE t # n /\ tokens[t] # None
    <3>1. TokenOK(t) /\ tokens[t].session \in Nat
      BY <1>2, <2>2 DEF AccountsInv, AccountsTypeOK, TokenRow
    <3> QED
      BY <1>1, <1>2, <1>6, <2>2, <3>1 DEF TokenOK, Present
  <2>3. CASE t # n /\ tokens[t] = None
    BY <1>6, <2>3 DEF TokenOK
  <2> QED
    BY <2>1, <2>2, <2>3
<1>12. TokensFollowLogins'
  <2>1. \A t \in Token : t # n /\ tokens'[t] # None => tokens'[t].session # n
    BY <1>2, <1>6 DEF AccountsInv, TokenOK, AccountsTypeOK, TokenRow
  <2>2. row1.epoch < users[row1.owner].epoch => row1.raced
    BY <1>1, <1>2, <1>4 DEF RequestOK, LoginOf
  <2> QED
    BY <1>1, <1>4, <1>6, <2>1, <2>2 DEF AccountsInv, TokensFollowLogins
<1> QED
  BY <1>1, <1>5, <1>7, <1>8, <1>9, <1>10, <1>11, <1>12, TokensStep

\* refresh_user_token: the old row is still there when the new one goes in, so
\* its login has one row before and one after.
LEMMA RefreshCommitsStep ==
  ASSUME AccountsInv, NEW q \in Request, RefreshCommits(q)
  PROVE  AccountsInv'
<1> DEFINE r == requests[q]
           n == issued + 1
           old == r.token
           row1 == [expired |-> FALSE, owner |-> r.owner, session |-> r.session, epoch |-> r.epoch,
                    raced |-> r.raced]
<1>1. /\ r # None /\ r.phase = "deleted" /\ n \in Token /\ issued' = n /\ users' = users
      /\ tokens' = [tokens EXCEPT ![old] = None, ![n] = row1] /\ requests' = Finish(q)
  BY DEF RefreshCommits
<1>2. r \in RequestRow /\ RequestOK(r) /\ issued \in Nat /\ Token \subseteq Nat
  BY <1>1, AccountsConstants DEF AccountsInv, AccountsTypeOK
<1>3. /\ old \in Token /\ old <= issued /\ r.session \in Token /\ r.session <= issued
      /\ tokens[old] # None /\ tokens[old].session = r.session /\ Present(r.owner)
      /\ r.epoch < users[r.owner].epoch => r.raced
  BY <1>1, <1>2 DEF RequestOK, Steps, LoginOf
<1>4. row1 \in TokenRow
  BY <1>2, <1>3 DEF RequestRow, TokenRow
<1>5. row1.owner = r.owner /\ row1.session = r.session /\ row1.epoch = r.epoch /\ row1.raced = r.raced
  OBVIOUS
<1>6. Onward(q)
  BY <1>1, OnwardFinish DEF AccountsInv, Onward
<1> HIDE DEF row1
<1>7. old # n
  BY <1>2, <1>3
<1>8. tokens'[n] = row1 /\ tokens'[old] = None /\ \A t \in Token : t # n /\ t # old => tokens'[t] = tokens[t]
  BY <1>1, <1>3, <1>7 DEF AccountsInv, AccountsTypeOK
<1>9. AccountsTypeOK'
  BY <1>1, <1>4, <1>6 DEF AccountsInv, AccountsTypeOK, Onward
<1>10. TokensOnward
  BY <1>1, <1>2, <1>8 DEF TokensOnward
<1>11. ASSUME NEW p \in Request, p # q, requests[p] # None
       PROVE  /\ Dialect = "sqlite" => requests[p].phase \notin {"sweep", "deleted"}
              /\ requests[p].phase = "deleted" => tokens'[requests[p].token] # None
  <2>1. Apart(r, requests[p]) /\ RequestOK(requests[p])
    BY <1>1, <1>11 DEF AccountsInv
  <2>2. Dialect = "sqlite" => requests[p].phase \notin {"sweep", "deleted"}
    BY <1>1, <2>1 DEF Apart
  <2>3. ASSUME requests[p].phase = "deleted"
        PROVE  tokens'[requests[p].token] # None
    <3>1. requests[p].token # old
      BY <1>1, <2>1, <2>3 DEF Apart
    <3>2. /\ requests[p].token \in Token /\ requests[p].token <= issued
          /\ tokens[requests[p].token] # None
      BY <2>1, <2>3 DEF RequestOK, Steps, LoginOf
    <3>3. requests[p].token # n
      BY <1>2, <3>2
    <3> QED
      BY <1>8, <3>1, <3>2, <3>3
  <2> QED
    BY <2>2, <2>3
<1>12. \A p \in Request : requests'[p] # None => p # q /\ requests[p] # None
  BY <1>6 DEF Onward
<1>13. ASSUME NEW t \in Token
       PROVE  TokenOK(t)'
  <2>1. CASE t = n
    <3>1. n <= n /\ r.session <= n
      <4>1. \A x \in Nat : x <= issued => x <= n
        BY <1>2
      <4>2. r.session \in Nat
        BY <1>3, TokenIsNat, Zenon
      <4> QED
        BY <1>2, <1>3, <4>1, <4>2
    <3>2. users'[r.owner] # None
      BY <1>1, <1>3 DEF Present
    <3> QED
      BY <1>1, <1>5, <1>8, <2>1, <3>1, <3>2 DEF TokenOK, Present
  <2>2. CASE t # n /\ t # old /\ tokens[t] # None
    <3>1. TokenOK(t) /\ tokens[t].session \in Nat
      BY <1>2, <2>2 DEF AccountsInv, AccountsTypeOK, TokenRow
    <3>2. t <= n /\ tokens[t].session <= n
      BY <1>2, <2>2, <3>1 DEF TokenOK
    <3>3. tokens'[t] = tokens[t]
      BY <1>8, <2>2
    <3> QED
      BY <1>1, <2>2, <3>1, <3>2, <3>3 DEF TokenOK, Present
  <2>3. CASE t # n /\ (t = old \/ tokens[t] = None)
    BY <1>8, <2>3 DEF TokenOK
  <2> QED
    BY <2>1, <2>2, <2>3
<1>14. TokensFollowLogins'
  <2>1. \A t \in Token : t # n /\ tokens'[t] # None
                          => tokens'[t] = tokens[t] /\ tokens[t].session # r.session
    BY <1>3, <1>8 DEF AccountsInv, TokensFollowLogins
  <2>2. tokens'[n] = row1 /\ row1.session = r.session /\ users' = users
    BY <1>1, <1>5, <1>8
  <2>3. row1.epoch < users[row1.owner].epoch => row1.raced
    BY <1>3, <1>5
  <2>4. TokensFollowLogins
    BY DEF AccountsInv
  <2> QED
    BY <2>1, <2>2, <2>3, <2>4 DEF TokensFollowLogins
<1> QED
  BY <1>1, <1>6, <1>9, <1>10, <1>11, <1>12, <1>13, <1>14, TokensStep

\* logout and prune_expired_tokens.
LEMMA DeleteTokensStep ==
  ASSUME AccountsInv, NEW gone \in SUBSET Token, DeleteTokens(gone)
  PROVE  AccountsInv'
<1>1. /\ users' = users /\ issued' = issued /\ requests' = MakeStale(requests, None)
      /\ WriterFree(None) /\ \A t \in gone : ~TokenLocked(t, None)
      /\ tokens' = [t \in Token |-> IF t \in gone THEN None ELSE tokens[t]]
  BY DEF DeleteTokens
<1>2. Onward(None)
  BY <1>1, OnwardAlone DEF AccountsInv
<1>3. \A t \in Token : tokens'[t] # None => t \notin gone /\ tokens'[t] = tokens[t]
  BY <1>1
<1>4. AccountsTypeOK'
  BY <1>1, <1>2 DEF AccountsInv, AccountsTypeOK, Onward
<1>5. TokensOnward
  BY <1>1, <1>3 DEF TokensOnward
<1>6. ASSUME NEW p \in Request, requests[p] # None
      PROVE  /\ Dialect = "sqlite" => requests[p].phase \notin {"sweep", "deleted"}
             /\ requests[p].phase = "deleted" => tokens'[requests[p].token] # None
  <2>1. p # None
    BY AccountsConstants
  <2>2. Dialect = "sqlite" => requests[p].phase \notin {"sweep", "deleted"}
    BY <1>1, <1>6, <2>1 DEF WriterFree, Holding
  <2>3. ASSUME requests[p].phase = "deleted"
        PROVE  tokens'[requests[p].token] # None
    <3>1. Dialect = "postgres"
      BY <2>2, <2>3, AccountsConstants
    <3>2. requests[p].token \notin gone
      BY <1>1, <1>6, <2>1, <2>3, <3>1 DEF TokenLocked, Holding
    <3>3. requests[p].token \in Token /\ tokens[requests[p].token] # None
      BY <1>6, <2>3 DEF AccountsInv, RequestOK, Steps, LoginOf
    <3> QED
      BY <1>1, <3>2, <3>3
  <2> QED
    BY <2>2, <2>3
<1>7. \A t \in Token : TokenOK(t)'
  BY <1>1, <1>3 DEF AccountsInv, TokenOK, Present
<1>8. TokensFollowLogins'
  BY <1>1, <1>3 DEF AccountsInv, TokensFollowLogins
<1>9. \A p \in Request : requests'[p] # None => requests[p] # None
  BY <1>2 DEF Onward
<1> QED
  BY <1>1, <1>2, <1>4, <1>5, <1>6, <1>7, <1>8, <1>9, TokensStep

\* A token expires: nothing the invariant speaks of changes.
LEMMA ExpireStep ==
  ASSUME AccountsInv, NEW t \in Token, Expire(t)
  PROVE  AccountsInv'
<1>1. /\ tokens[t] # None /\ tokens' = [tokens EXCEPT ![t].expired = TRUE]
      /\ users' = users /\ issued' = issued /\ requests' = requests
  BY DEF Expire
<1>2. tokens \in [Token -> TokenRow \union {None}]
  BY DEF AccountsInv, AccountsTypeOK
<1>3. tokens' \in [Token -> TokenRow \union {None}]
  BY <1>1, <1>2 DEF TokenRow
<1>4. ASSUME NEW x \in Token
      PROVE  /\ tokens'[x] = None <=> tokens[x] = None
             /\ tokens[x] # None =>
                  /\ tokens'[x].owner = tokens[x].owner /\ tokens'[x].session = tokens[x].session
                  /\ tokens'[x].epoch = tokens[x].epoch /\ tokens'[x].raced = tokens[x].raced
  <2>1. CASE x = t
    <3>1. tokens'[x] = [tokens[x] EXCEPT !.expired = TRUE] /\ tokens[x] \in TokenRow
      BY <1>1, <1>2, <2>1
    <3>2. tokens'[x] \in TokenRow
      BY <3>1 DEF TokenRow
    <3>3. /\ tokens'[x].owner = tokens[x].owner /\ tokens'[x].session = tokens[x].session
          /\ tokens'[x].epoch = tokens[x].epoch /\ tokens'[x].raced = tokens[x].raced
      BY <3>1 DEF TokenRow
    <3> QED
      BY <1>1, <2>1, <3>2, <3>3, AccountsConstants
  <2>2. CASE x # t
    BY <1>1, <1>2, <2>2
  <2> QED
    BY <2>1, <2>2
<1>5. AccountsTypeOK'
  BY <1>1, <1>3 DEF AccountsInv, AccountsTypeOK
<1>6. ASSUME NEW p \in Request, requests[p] # None
      PROVE  RequestOK(requests[p])'
  <2>1. PICK r : r = requests[p] /\ RequestOK(r)
    BY <1>6 DEF AccountsInv
  <2>2. Present(r.owner)'
    BY <1>1, <2>1 DEF RequestOK, Present
  <2>3. StillTrue(r)'
    <3>1. \A u, c, rs : Proposed(u, c, rs)' = Proposed(u, c, rs)
      BY <1>1 DEF Proposed
    <3>2. \A u, c, rs : AdminRemainsAfter(u, c, rs)' <=> AdminRemainsAfter(u, c, rs)
      BY <1>1, <3>1 DEF AdminRemainsAfter
    <3> QED
      BY <1>1, <2>1, <3>2 DEF RequestOK, StillTrue
  <2>4. LoginOf(r)'
    BY <1>1, <1>4, <2>1 DEF RequestOK, Steps, LoginOf
  <2>5. SweepSees(r)'
    BY <1>1, <1>4, <2>1 DEF RequestOK, SweepSees
  <2>6. RequestOK(r)'
    BY <2>1, <2>2, <2>3, <2>4, <2>5 DEF RequestOK
  <2> QED
    BY <1>1, <2>1, <2>6
<1>7. \A x \in Token : TokenOK(x)'
  BY <1>1, <1>4 DEF AccountsInv, TokenOK, Present
<1>8. TokensFollowLogins'
  BY <1>1, <1>4 DEF AccountsInv, TokensFollowLogins
<1> QED
  BY <1>1, <1>5, <1>6, <1>7, <1>8 DEF AccountsInv

\* A change of users that leaves their epochs alone.
LEMMA UsersStep ==
  ASSUME AccountsInv, NEW q, Onward(q), tokens' = tokens, issued' = issued, AccountsTypeOK',
         \A u \in User : Present(u) => Present(u)' /\ users'[u].epoch = users[u].epoch,
         Dialect = "sqlite" => \A p \in Request : p # q /\ requests[p] # None =>
                                 requests[p].phase \notin {"sweep", "deleted"},
         Dialect = "postgres" =>
           \A p \in Request : requests'[p] # None => StillTrue(requests[p])'
  PROVE  AccountsInv'
<1>1. ASSUME NEW p \in Request, requests'[p] # None
      PROVE  StillTrue(requests[p])' /\ LoginOf(requests[p])' /\ SweepSees(requests[p])'
  <2>1. /\ requests[p] # None /\ Later(requests[p], requests'[p])
        /\ Dialect = "sqlite" => requests'[p].stale
    BY <1>1 DEF Onward
  <2>2. RequestOK(requests[p]) /\ requests[p].owner \in User
    BY <2>1 DEF AccountsInv, AccountsTypeOK, RequestRow
  <2>3. StillTrue(requests[p])'
    BY <1>1, <2>1, AccountsConstants DEF StillTrue
  <2>4. users'[requests[p].owner].epoch = users[requests[p].owner].epoch
    BY <2>2 DEF RequestOK
  <2>5. LoginOf(requests[p])'
    BY <2>1, <2>2, <2>4 DEF RequestOK, LoginOf, Later
  <2>6. SweepSees(requests[p])'
    BY <2>1, <2>2 DEF RequestOK, SweepSees, Later
  <2> QED
    BY <2>3, <2>5, <2>6
<1>2. \A t \in Token : tokens[t] # None => tokens[t].owner \in User
  BY DEF AccountsInv, AccountsTypeOK, TokenRow
<1>3. \A t \in Token : TokenOK(t)'
  BY <1>2 DEF AccountsInv, TokenOK
<1>4. TokensFollowLogins'
  BY <1>2 DEF AccountsInv, TokenOK, TokensFollowLogins
<1> QED
  BY <1>1, <1>3, <1>4, CommitStep

\* On Postgres, what a request has found out about the administrators stays
\* true when it does so in terms of Safe.
LEMMA GuardKept ==
  ASSUME AccountsInv, NEW q, Onward(q), AccountsTypeOK', Dialect = "postgres",
         NEW p \in Request, requests'[p] # None,
         users'[requests[p].owner] # None,
         requests[p].kind \in {"disable", "password"} =>
           users'[requests[p].owner].epoch = users[requests[p].owner].epoch,
         requests[p].kind \in {"roles", "disable"}
           /\ Safe(users, requests[p].owner, requests[p].kind, requests[p].roles)
           => Safe(users', requests[p].owner, requests[p].kind, requests[p].roles)
  PROVE  StillTrue(requests[p])'
<1> DEFINE r == requests[p]
           s == requests'[p]
<1>1. r # None /\ Later(r, s) /\ s.stale = r.stale
  BY DEF Onward
<1>2. r \in RequestRow /\ RequestOK(r)
  BY <1>1 DEF AccountsInv, AccountsTypeOK
<1>3. r.owner \in User /\ r.roles \in SUBSET Role /\ Present(r.owner)
  BY <1>2 DEF RequestRow, RequestOK
<1>4. /\ users'[r.owner] # None
      /\ r.kind \in {"disable", "password"} => users'[r.owner].epoch = users[r.owner].epoch
  OBVIOUS
<1>5. s.kind = r.kind /\ s.owner = r.owner /\ s.roles = r.roles
  BY <1>1 DEF Later
<1>6. ASSUME r.kind \in {"roles", "disable"}, ~r.stale
      PROVE  AdminRemainsAfter(requests[p].owner, requests[p].kind, requests[p].roles)'
  <2>1. AdminRemainsAfter(r.owner, r.kind, r.roles)
    BY <1>2, <1>6 DEF RequestOK, StillTrue
  <2>2. Safe(users, r.owner, r.kind, r.roles)
    BY <1>3, <2>1, GuardHolds DEF AccountsInv
  <2>3. Safe(users', r.owner, r.kind, r.roles)
    BY <1>6, <2>2
  <2>4. PICK o \in User, rs \in SUBSET Role : o = r.owner /\ rs = r.roles
    BY <1>3
  <2>5. PICK c : c = r.kind
    OBVIOUS
  <2>6. AdminRemainsAfter(o, c, rs)'
    BY <1>4, <2>3, <2>4, <2>5, GuardHoldsNext DEF Present
  <2> QED
    BY <1>5, <2>4, <2>5, <2>6
<1>7. r.kind \in {"disable", "password"} /\ ~r.stale => users'[r.owner].epoch < MaxEpoch
  BY <1>2, <1>4 DEF RequestOK, StillTrue
<1> QED
  BY <1>1, <1>5, <1>6, <1>7 DEF StillTrue

LEMMA CreateUserStep ==
  ASSUME AccountsInv, NEW u \in User, NEW rs \in SUBSET Role, CreateUser(u, rs)
  PROVE  AccountsInv' /\ (ActiveAdmins(users) # {} => ActiveAdmins(users') # {})
<1> DEFINE new == [disabled |-> FALSE, roles |-> rs, epoch |-> 0]
<1>1. /\ users[u] = None /\ users' = [users EXCEPT ![u] = new] /\ WriterFree(None)
      /\ requests' = MakeStale(requests, None) /\ tokens' = tokens /\ issued' = issued
  BY DEF CreateUser, Present
<1>2. new \in UserRow /\ new.disabled = FALSE
  BY AccountsConstants DEF UserRow
<1> HIDE DEF new
<1>3. users'[u] = new /\ \A a \in User : a # u => users'[a] = users[a]
  BY <1>1 DEF AccountsInv, AccountsTypeOK
<1>4. Onward(None)
  BY <1>1, OnwardAlone DEF AccountsInv
<1>5. AccountsTypeOK'
  BY <1>1, <1>2, <1>4 DEF AccountsInv, AccountsTypeOK, Onward
<1>6. \A a \in User : Present(a) => Present(a)' /\ users'[a].epoch = users[a].epoch
  BY <1>1, <1>3 DEF Present
<1>7. Dialect = "sqlite" => \A p \in Request : p # None /\ requests[p] # None =>
                              requests[p].phase \notin {"sweep", "deleted"}
  BY <1>1 DEF WriterFree, Holding
<1>8. \A a : a \in ActiveAdmins(users) => a \in ActiveAdmins(users') /\ a # u
  BY <1>1, <1>3 DEF ActiveAdmins
<1>9. ASSUME Dialect = "postgres", NEW p \in Request, requests'[p] # None
      PROVE  StillTrue(requests[p])'
  <2> DEFINE o == requests[p].owner
  <2>1. requests[p] # None
    BY <1>4, <1>9 DEF Onward
  <2>2. o \in User /\ Present(o)
    BY <2>1 DEF AccountsInv, AccountsTypeOK, RequestRow, RequestOK
  <2>3. o # u /\ users'[o] = users[o]
    BY <1>1, <1>3, <2>2 DEF Present
  <2>4. ASSUME Safe(users, o, requests[p].kind, requests[p].roles)
        PROVE  Safe(users', o, requests[p].kind, requests[p].roles)
    <3>1. CASE \E a \in ActiveAdmins(users) : a # o
      BY <1>8, <3>1 DEF Safe
    <3>2. CASE ActiveAdmins(users) = {}
      <4>1. \A a \in ActiveAdmins(users') : a = u
        BY <1>3, <3>2 DEF ActiveAdmins
      <4> QED
        BY <2>3, <4>1 DEF Safe
    <3> QED
      BY <2>3, <2>4, <3>1, <3>2 DEF Safe
  <2>5. users'[o] # None /\ users'[o].epoch = users[o].epoch
    BY <1>6, <2>2 DEF Present
  <2> QED
    BY <1>4, <1>5, <1>9, <2>4, <2>5, GuardKept
<1> QED
  BY <1>1, <1>4, <1>5, <1>6, <1>7, <1>8, <1>9, UsersStep

\* enable_user. On Postgres its UPDATE waits for a guarded request on any row it
\* has locked, so that only the sweep of another user is under way.
LEMMA EnableUserStep ==
  ASSUME AccountsInv, NEW u \in User, EnableUser(u)
  PROVE  AccountsInv' /\ (ActiveAdmins(users) # {} => ActiveAdmins(users') # {})
<1> DEFINE new == [users[u] EXCEPT !.disabled = FALSE]
<1>1. /\ users[u] # None /\ users[u].disabled /\ users' = [users EXCEPT ![u].disabled = FALSE]
      /\ WriterFree(None) /\ ~UserLocked(u, None)
      /\ requests' = MakeStale(requests, None) /\ tokens' = tokens /\ issued' = issued
  BY DEF EnableUser, Present
<1>2. users[u] \in UserRow /\ users \in [User -> UserRow \union {None}]
  BY <1>1 DEF AccountsInv, AccountsTypeOK
<1>3. new \in UserRow /\ new.roles = users[u].roles /\ new.epoch = users[u].epoch
  BY <1>2 DEF UserRow
<1>4. users'[u] = new /\ \A a \in User : a # u => users'[a] = users[a]
  BY <1>1, <1>2
<1>5. users' \in [User -> UserRow \union {None}]
  BY <1>1, <1>2, <1>3
<1> HIDE DEF new
<1>6. Onward(None)
  BY <1>1, OnwardAlone DEF AccountsInv
<1>7. AccountsTypeOK'
  BY <1>1, <1>5, <1>6 DEF AccountsInv, AccountsTypeOK, Onward
<1>8. \A a \in User : Present(a) => Present(a)' /\ users'[a].epoch = users[a].epoch
  BY <1>3, <1>4, AccountsConstants DEF Present
<1>9. Dialect = "sqlite" => \A p \in Request : p # None /\ requests[p] # None =>
                              requests[p].phase \notin {"sweep", "deleted"}
  BY <1>1 DEF WriterFree, Holding
<1>10. \A a : a \in ActiveAdmins(users) => a \in ActiveAdmins(users') /\ a # u
  BY <1>1, <1>4 DEF ActiveAdmins
<1>11. ASSUME Dialect = "postgres", NEW p \in Request, requests'[p] # None
       PROVE  StillTrue(requests[p])'
  <2> DEFINE r == requests[p]
  <2>1. r # None /\ p # None
    BY <1>6, <1>11, AccountsConstants DEF Onward
  <2>2. RequestOK(r)
    BY <2>1 DEF AccountsInv
  <2>3. r.phase # "checked" /\ (r.phase = "sweep" => r.owner # u)
    BY <1>1, <1>11, <2>1 DEF UserLocked, Holding
  <2>4. ASSUME r.kind \in {"roles", "disable"}, Safe(users, r.owner, r.kind, r.roles)
        PROVE  Safe(users', r.owner, r.kind, r.roles)
    <3>1. r.kind = "disable" /\ r.owner # u
      BY <2>2, <2>3, <2>4 DEF RequestOK, Steps
    <3>2. CASE \E a \in ActiveAdmins(users) : a # r.owner
      BY <1>10, <3>2 DEF Safe
    <3>3. CASE ActiveAdmins(users) = {}
      <4>1. \A a \in ActiveAdmins(users') : a = u
        BY <1>4, <3>3 DEF ActiveAdmins
      <4> QED
        BY <3>1, <4>1 DEF Safe
    <3> QED
      BY <2>4, <3>1, <3>2, <3>3 DEF Safe
  <2>5. r.owner \in User /\ Present(r.owner)
    BY <2>1, <2>2 DEF RequestOK, AccountsInv, AccountsTypeOK, RequestRow
  <2>6. users'[r.owner] # None /\ users'[r.owner].epoch = users[r.owner].epoch
    BY <1>8, <2>5 DEF Present
  <2> QED
    BY <1>6, <1>7, <1>11, <2>4, <2>6, GuardKept
<1> QED
  BY <1>1, <1>6, <1>7, <1>8, <1>9, <1>10, <1>11, UsersStep

\* update_user_roles commits. On Postgres nobody else has a check to lose: its
\* FOR UPDATE kept them out.
LEMMA RolesWrittenStep ==
  ASSUME AccountsInv, NEW q \in Request, RolesWritten(q)
  PROVE  AccountsInv' /\ (ActiveAdmins(users) # {} => ActiveAdmins(users') # {})
<1>0. CASE requests[q].stale
  <2>1. Fail(q)
    BY <1>0 DEF RolesWritten
  <2> QED
    BY <2>1, FailStep DEF Fail
<1>1. CASE ~requests[q].stale
  <2> DEFINE r == requests[q]
             u == r.owner
             new == [users[u] EXCEPT !.roles = r.roles]
  <2>1. /\ r # None /\ r.kind = "roles" /\ WriterFree(q)
        /\ users' = [users EXCEPT ![u].roles = r.roles] /\ requests' = Finish(q)
        /\ tokens' = tokens /\ issued' = issued
    BY <1>1 DEF RolesWritten
  <2>2. r \in RequestRow /\ RequestOK(r)
    BY <2>1 DEF AccountsInv, AccountsTypeOK
  <2>3. u \in User /\ r.roles \in SUBSET Role /\ Present(u) /\ r.phase = "checked"
    BY <2>1, <2>2 DEF RequestRow, RequestOK, Steps
  <2>4. users[u] \in UserRow /\ users \in [User -> UserRow \union {None}]
    BY <2>3 DEF AccountsInv, AccountsTypeOK, Present
  <2>5. new \in UserRow /\ new.disabled = users[u].disabled /\ new.epoch = users[u].epoch
    BY <2>3, <2>4 DEF UserRow
  <2>6. users'[u] = new /\ \A a \in User : a # u => users'[a] = users[a]
    BY <2>1, <2>3, <2>4
  <2>7. users' \in [User -> UserRow \union {None}]
    BY <2>1, <2>3, <2>4, <2>5
  <2>8. ActiveAdmins(users) # {} => ActiveAdmins(users') # {}
    <3>1. AdminRemainsAfter(u, "roles", r.roles)
      BY <1>1, <2>1, <2>2 DEF RequestOK, StillTrue
    <3>2. users' = Proposed(u, "roles", r.roles)
      BY <2>1 DEF Proposed
    <3> QED
      BY <3>1, <3>2 DEF AdminRemainsAfter
  <2> HIDE DEF new
  <2>9. Onward(q)
    BY <2>1, OnwardFinish DEF AccountsInv, Onward
  <2>10. AccountsTypeOK'
    BY <2>1, <2>7, <2>9 DEF AccountsInv, AccountsTypeOK, Onward
  <2>11. \A a \in User : Present(a) => Present(a)' /\ users'[a].epoch = users[a].epoch
    BY <2>5, <2>6, AccountsConstants DEF Present
  <2>12. Dialect = "sqlite" => \A p \in Request : p # q /\ requests[p] # None =>
                                 requests[p].phase \notin {"sweep", "deleted"}
    BY <2>1 DEF WriterFree, Holding
  <2>13. ASSUME Dialect = "postgres", NEW p \in Request, requests'[p] # None
         PROVE  StillTrue(requests[p])'
    <3>1. p # q /\ requests[p] # None
      BY <2>9, <2>13 DEF Onward
    <3>2. requests[p].phase \notin {"checked", "sweep"} /\ RequestOK(requests[p])
      BY <2>1, <2>3, <2>13, <3>1 DEF AccountsInv, Apart
    <3>3. requests[p].kind \notin {"roles", "disable"}
      BY <3>2 DEF RequestOK, Steps
    <3>4. requests[p].owner \in User /\ Present(requests[p].owner)
      BY <3>1, <3>2 DEF RequestOK, AccountsInv, AccountsTypeOK, RequestRow
    <3>5. /\ users'[requests[p].owner] # None
          /\ users'[requests[p].owner].epoch = users[requests[p].owner].epoch
      BY <2>11, <3>4 DEF Present
    <3> QED
      BY <2>9, <2>10, <2>13, <3>3, <3>5, GuardKept
  <2> QED
    BY <2>1, <2>8, <2>9, <2>10, <2>11, <2>12, <2>13, UsersStep
<1> QED
  BY <1>0, <1>1

\* set_user_password and disable_user commit: the user's epoch goes up, the
\* tokens the DELETE has seen are gone, and what it has not seen is raced.
LEMMA SweepCommitsStep ==
  ASSUME AccountsInv, NEW q \in Request, SweepCommits(q)
  PROVE  AccountsInv' /\ (ActiveAdmins(users) # {} => ActiveAdmins(users') # {})
<1> DEFINE r == requests[q]
           u == r.owner
           new == [[users[u] EXCEPT !.epoch = @ + 1] EXCEPT !.disabled = @ \/ r.kind = "disable"]
           Raced(p) == /\ requests[p] # None /\ requests[p].owner = u
                       /\ requests[p].phase \in {"verified", "read", "deleted"}
           Swept(t) == IF t \in r.doomed THEN None
                       ELSE IF tokens[t] # None /\ tokens[t].owner = u /\ t > r.session
                            THEN [tokens[t] EXCEPT !.raced = TRUE] ELSE tokens[t]
           Next1(p) == IF Raced(p) THEN [Finish(q)[p] EXCEPT !.raced = TRUE] ELSE Finish(q)[p]
<1>1. /\ r # None /\ r.phase = "sweep" /\ issued' = issued
      /\ \A t \in r.doomed : ~TokenLocked(t, q)
      /\ users' = [users EXCEPT ![u].epoch = @ + 1, ![u].disabled = @ \/ r.kind = "disable"]
      /\ tokens' = [t \in Token |-> Swept(t)]
      /\ requests' = [p \in Request |-> Next1(p)]
  BY DEF SweepCommits
<1>2. r \in RequestRow /\ RequestOK(r)
  BY <1>1 DEF AccountsInv, AccountsTypeOK
<1>3. /\ u \in User /\ Present(u) /\ ~r.stale /\ r.kind \in {"disable", "password"}
      /\ users[u].epoch < MaxEpoch /\ r.doomed \subseteq Token
  BY <1>1, <1>2 DEF RequestRow, RequestOK, Steps, StillTrue
<1>4. users[u] \in UserRow /\ users \in [User -> UserRow \union {None}]
  BY <1>3 DEF AccountsInv, AccountsTypeOK, Present
<1>5. /\ new \in UserRow /\ new.roles = users[u].roles /\ new.epoch = users[u].epoch + 1
      /\ new.disabled <=> users[u].disabled \/ r.kind = "disable"
  <2> DEFINE d == users[u].disabled \/ r.kind = "disable"
             e == users[u].epoch + 1
  <2>1. d \in BOOLEAN
    OBVIOUS
  <2>2. e \in 0..MaxEpoch
    BY <1>3, <1>4, AccountsConstants DEF UserRow
  <2>3. new = [disabled |-> d, roles |-> users[u].roles, epoch |-> e]
    <3> DEFINE w == [users[u] EXCEPT !.epoch = e]
    <3>1. w \in [disabled : BOOLEAN, roles : SUBSET Role, epoch : 0..MaxEpoch]
      BY <1>4, <2>2 DEF UserRow
    <3>2. w.disabled = users[u].disabled /\ w.roles = users[u].roles /\ w.epoch = e
      BY <1>4 DEF UserRow
    <3>3. (w.disabled \/ r.kind = "disable") = d
      BY <3>2
    <3>4. new = [w EXCEPT !.disabled = d]
      BY <3>3
    <3> HIDE DEF w, e, d
    <3> QED
      BY <3>1, <3>2, <3>4
  <2> HIDE DEF d, e, new
  <2>4. new \in UserRow /\ new.roles = users[u].roles /\ new.epoch = e /\ new.disabled = d
    BY <1>4, <2>1, <2>2, <2>3 DEF UserRow
  <2> QED
    BY <2>4 DEF d, e
<1>6. users'[u] = new /\ \A a \in User : a # u => users'[a] = users[a]
  BY <1>1, <1>3, <1>4
<1>7. users' \in [User -> UserRow \union {None}]
  BY <1>1, <1>3, <1>4, <1>5
<1> HIDE DEF new
<1>8. \A a : a \in ActiveAdmins(users') <=> a \in ActiveAdmins(users) /\ ~(a = u /\ r.kind = "disable")
  <2>1. new # None
    BY <1>5, AccountsConstants
  <2> QED
    BY <1>3, <1>5, <1>6, <2>1 DEF ActiveAdmins, Present
<1>9. ActiveAdmins(users) # {} => ActiveAdmins(users') # {}
  <2>1. CASE r.kind = "disable"
    <3>1. AdminRemainsAfter(u, r.kind, r.roles) /\ r.roles \in SUBSET Role
      BY <1>2, <1>3, <2>1 DEF RequestOK, StillTrue, RequestRow
    <3>2. Safe(users, u, r.kind, r.roles)
      BY <1>3, <3>1, GuardHolds DEF AccountsInv
    <3> QED
      BY <1>8, <2>1, <3>2 DEF Safe
  <2>2. CASE r.kind # "disable"
    BY <1>8, <2>2
  <2> QED
    BY <2>1, <2>2
<1>10. ASSUME NEW p \in Request
       PROVE  /\ requests'[p] \in RequestRow \union {None}
              /\ requests'[p] # None =>
                   /\ p # q /\ requests[p] # None /\ Later(requests[p], requests'[p])
                   /\ Dialect = "sqlite" => requests'[p].stale
                   /\ Dialect # "sqlite" => requests'[p].stale = requests[p].stale
                   /\ Raced(p) => requests'[p].raced
  <2>1. PICK f : /\ f = Finish(q)[p] /\ f \in RequestRow \union {None}
                 /\ f # None => /\ p # q /\ requests[p] # None /\ Later(requests[p], f)
                                /\ Dialect = "sqlite" => f.stale
                                /\ Dialect # "sqlite" => f.stale = requests[p].stale
                 /\ p # q /\ requests[p] # None => f # None
    BY OnwardFinish DEF AccountsInv
  <2>2. CASE Raced(p)
    <3>1. p # q /\ f # None /\ requests[p] # None
      BY <1>1, <2>1, <2>2
    <3>2. requests'[p] = [f EXCEPT !.raced = TRUE]
      BY <1>1, <2>1, <2>2
    <3>3. f \in RequestRow
      BY <2>1, <3>1
    <3>4. requests'[p] \in RequestRow /\ requests'[p].raced = TRUE
      BY <3>2, <3>3 DEF RequestRow
    <3>5. /\ requests'[p].kind = f.kind /\ requests'[p].owner = f.owner /\ requests'[p].roles = f.roles
          /\ requests'[p].phase = f.phase /\ requests'[p].token = f.token
          /\ requests'[p].session = f.session /\ requests'[p].epoch = f.epoch
          /\ requests'[p].doomed = f.doomed /\ requests'[p].stale = f.stale
      BY <3>2, <3>3 DEF RequestRow
    <3>6. Later(requests[p], requests'[p])
      BY <2>1, <3>1, <3>4, <3>5 DEF Later
    <3> QED
      BY <2>1, <3>1, <3>4, <3>5, <3>6
  <2>3. CASE ~Raced(p)
    <3>1. requests'[p] = f
      BY <1>1, <2>1, <2>3
    <3> QED
      BY <2>1, <2>3, <3>1
  <2> QED
    BY <2>2, <2>3
<1>11. Onward(q)
  BY <1>1, <1>10 DEF Onward
<1>12. ASSUME NEW t \in Token
       PROVE  /\ tokens'[t] \in TokenRow \union {None}
              /\ tokens'[t] = None <=> tokens[t] = None \/ t \in r.doomed
              /\ tokens'[t] # None =>
                   /\ tokens'[t].owner = tokens[t].owner /\ tokens'[t].session = tokens[t].session
                   /\ tokens'[t].epoch = tokens[t].epoch /\ (tokens[t].raced => tokens'[t].raced)
                   /\ tokens[t].owner = u /\ t > r.session => tokens'[t].raced
  <2>1. tokens'[t] = Swept(t) /\ tokens[t] \in TokenRow \union {None}
    BY <1>1 DEF AccountsInv, AccountsTypeOK
  <2>2. CASE t \notin r.doomed /\ tokens[t] # None /\ tokens[t].owner = u /\ t > r.session
    <3>1. tokens'[t] = [tokens[t] EXCEPT !.raced = TRUE] /\ tokens[t] \in TokenRow
      BY <2>1, <2>2
    <3>2. /\ tokens'[t] \in TokenRow /\ tokens'[t].owner = tokens[t].owner
          /\ tokens'[t].session = tokens[t].session /\ tokens'[t].epoch = tokens[t].epoch
          /\ tokens'[t].raced = TRUE
      BY <3>1 DEF TokenRow
    <3> QED
      BY <2>2, <3>2, AccountsConstants
  <2>3. CASE ~(t \notin r.doomed /\ tokens[t] # None /\ tokens[t].owner = u /\ t > r.session)
    BY <2>1, <2>3
  <2> QED
    BY <2>2, <2>3
<1>13. TokensOnward
  BY <1>1, <1>12 DEF TokensOnward
<1>14. AccountsTypeOK'
  <2>1. tokens' \in [Token -> TokenRow \union {None}]
    BY <1>1, <1>12
  <2> QED
    BY <1>1, <1>7, <1>11, <2>1 DEF AccountsInv, AccountsTypeOK, Onward
<1> HIDE DEF Swept, Next1
<1>15. \A a \in User : Present(a) => Present(a)'
  BY <1>5, <1>6, AccountsConstants DEF Present
<1>16. ASSUME NEW p \in Request, p # q, requests[p] # None
       PROVE  /\ RequestOK(requests[p]) /\ requests[p].owner \in User
              /\ Dialect = "sqlite" => requests[p].phase \notin {"sweep", "deleted"}
              /\ Dialect = "postgres" => requests[p].phase # "checked"
              /\ Dialect = "postgres" /\ requests[p].phase = "sweep" =>
                   requests[p].owner # u /\ (requests[p].kind # "disable" \/ r.kind # "disable")
              /\ requests[p].phase = "deleted" =>
                   requests[p].token \in Token /\ tokens'[requests[p].token] # None
  <2>1. Apart(r, requests[p]) /\ Apart(requests[p], r) /\ RequestOK(requests[p])
    BY <1>1, <1>16 DEF AccountsInv
  <2>2. requests[p].owner \in User
    BY <1>16 DEF AccountsInv, AccountsTypeOK, RequestRow
  <2>3. /\ Dialect = "sqlite" => requests[p].phase \notin {"sweep", "deleted"}
        /\ Dialect = "postgres" => requests[p].phase # "checked"
        /\ Dialect = "postgres" /\ requests[p].phase = "sweep" =>
             requests[p].owner # u /\ (requests[p].kind # "disable" \/ r.kind # "disable")
    BY <1>1, <2>1 DEF Apart
  <2>4. ASSUME requests[p].phase = "deleted"
        PROVE  requests[p].token \in Token /\ tokens'[requests[p].token] # None
    <3>1. requests[p].token \in Token /\ tokens[requests[p].token] # None
      BY <2>1, <2>4 DEF RequestOK, Steps, LoginOf
    <3>2. Dialect = "postgres"
      BY <2>3, <2>4, AccountsConstants
    <3>3. requests[p].token \notin r.doomed
      BY <1>1, <1>16, <2>4, <3>2 DEF TokenLocked, Holding
    <3> QED
      BY <1>12, <3>1, <3>3
  <2> QED
    BY <2>1, <2>2, <2>3, <2>4
<1>17. ASSUME NEW p \in Request, requests'[p] # None
       PROVE  StillTrue(requests[p])'
  <2>1. p # q /\ requests[p] # None /\ (Dialect = "sqlite" => requests'[p].stale)
    BY <1>10, <1>17
  <2>2. CASE Dialect = "sqlite"
    BY <2>1, <2>2 DEF StillTrue
  <2>3. CASE Dialect = "postgres"
    <3>1. requests[p].kind \in {"roles", "disable", "password"} =>
            requests[p].phase = "sweep" /\ requests[p].kind # "roles" /\ requests[p].owner # u
      BY <1>16, <2>1, <2>3 DEF RequestOK, Steps
    <3>2. /\ users'[requests[p].owner] # None
          /\ requests[p].kind \in {"disable", "password"} =>
               users'[requests[p].owner].epoch = users[requests[p].owner].epoch
      BY <1>6, <1>15, <1>16, <2>1, <3>1 DEF RequestOK, Present
    <3>3. ASSUME requests[p].kind \in {"roles", "disable"},
                 Safe(users, requests[p].owner, requests[p].kind, requests[p].roles)
          PROVE  Safe(users', requests[p].owner, requests[p].kind, requests[p].roles)
      <4>1. requests[p].kind = "disable" /\ r.kind # "disable"
        BY <1>16, <2>1, <2>3, <3>1, <3>3
      <4>2. \A a : a \in ActiveAdmins(users') <=> a \in ActiveAdmins(users)
        BY <1>8, <4>1
      <4> QED
        BY <3>3, <4>1, <4>2 DEF Safe
    <3> QED
      BY <1>11, <1>14, <1>17, <2>3, <3>2, <3>3, GuardKept
  <2> QED
    BY <2>2, <2>3, AccountsConstants
<1>18. ASSUME NEW p \in Request, requests'[p] # None
       PROVE  LoginOf(requests[p])'
  <2>1. /\ p # q /\ requests[p] # None /\ Later(requests[p], requests'[p])
        /\ Raced(p) => requests'[p].raced
    BY <1>10, <1>18
  <2>2. RequestOK(requests[p]) /\ requests[p].owner \in User
    BY <1>16, <2>1
  <2> DEFINE s == requests'[p]
  <2>3. ASSUME s.kind \in {"login", "refresh"}, s.epoch < users'[s.owner].epoch
        PROVE  s.raced
    <3>1. /\ requests[p].kind \in {"login", "refresh"} /\ requests[p].owner = s.owner
          /\ requests[p].epoch = s.epoch /\ requests[p].raced => s.raced
      BY <2>1, <2>3 DEF Later
    <3>2. CASE s.owner = u
      BY <2>1, <2>2, <3>1, <3>2 DEF RequestOK, Steps
    <3>3. CASE s.owner # u
      BY <1>6, <2>1, <2>2, <2>3, <3>1, <3>3 DEF RequestOK, LoginOf, Later
    <3> QED
      BY <3>2, <3>3
  <2>4. ASSUME s.kind = "refresh"
        PROVE  /\ s.token \in Token /\ s.token <= issued' /\ s.session \in Token /\ s.session <= issued'
               /\ tokens'[s.token] # None =>
                    tokens'[s.token].session = s.session /\ tokens'[s.token].owner = s.owner
    BY <1>1, <1>12, <2>1, <2>2, <2>4 DEF RequestOK, LoginOf, Later
  <2>5. s.phase = "deleted" => tokens'[s.token] # None
    BY <1>16, <2>1 DEF Later
  <2> QED
    BY <2>3, <2>4, <2>5 DEF LoginOf
<1>19. \A p \in Request : requests'[p] # None => SweepSees(requests[p])'
  BY <1>11, <1>13, SweepAlone
<1>20. \A t \in Token : TokenOK(t)'
  <2>1. ASSUME NEW t \in Token, tokens'[t] # None
        PROVE  t <= issued' /\ tokens'[t].session <= issued' /\ users'[tokens'[t].owner] # None
    <3>1. tokens[t] # None /\ TokenOK(t) /\ tokens[t].owner \in User
      BY <1>12, <2>1 DEF AccountsInv, AccountsTypeOK, TokenRow
    <3> QED
      BY <1>1, <1>12, <1>15, <2>1, <3>1 DEF TokenOK, Present
  <2> QED
    BY <2>1 DEF TokenOK, Present
<1>21. TokensFollowLogins'
  <2>1. ASSUME NEW t \in Token, tokens'[t] # None
        PROVE  /\ \A x \in Token \ {t} : tokens'[x] # None => tokens'[x].session # tokens'[t].session
               /\ tokens'[t].epoch < users'[tokens'[t].owner].epoch => tokens'[t].raced
    <3>1. tokens[t] # None /\ t \notin r.doomed /\ tokens[t].owner \in User
      BY <1>12, <2>1 DEF AccountsInv, AccountsTypeOK, TokenRow
    <3>2. \A x \in Token \ {t} : tokens'[x] # None => tokens'[x].session # tokens'[t].session
      BY <1>12, <2>1, <3>1 DEF AccountsInv, TokensFollowLogins
    <3>3. CASE tokens[t].owner = u
      <4>1. ~(t <= r.session)
        BY <1>1, <1>2, <3>1, <3>3 DEF RequestOK, SweepSees
      <4>2. r.session \in Nat /\ t \in Nat
        <5>1. r.session \in Token \union {0}
          BY <1>2 DEF RequestRow
        <5> QED
          BY <5>1, TokenIsNat, Zenon
      <4>3. t > r.session
        BY <4>1, <4>2
      <4> QED
        BY <1>12, <2>1, <3>2, <3>3, <4>3
    <3>4. CASE tokens[t].owner # u
      BY <1>6, <1>12, <2>1, <3>1, <3>2, <3>4 DEF AccountsInv, TokensFollowLogins
    <3> QED
      BY <3>3, <3>4
  <2> QED
    BY <2>1 DEF TokensFollowLogins
<1>22. Dialect = "sqlite" => \A p \in Request : p # q /\ requests[p] # None =>
                               requests[p].phase \notin {"sweep", "deleted"}
  BY <1>16
<1> QED
  BY <1>9, <1>11, <1>14, <1>15, <1>17, <1>18, <1>19, <1>20, <1>21, <1>22, CommitStep

LEMMA AccountsInitial == AccountsInit => AccountsInv
<1> SUFFICES ASSUME AccountsInit PROVE AccountsInv
  OBVIOUS
<1>1. users \in [User -> UserRow \union {None}]
  <2>1. [disabled |-> FALSE, roles |-> {"admin"}, epoch |-> 0] \in UserRow
    BY AccountsConstants DEF UserRow, Role
  <2>2. CASE users = [u \in User |-> None]
    BY <2>2
  <2>3. CASE users # [u \in User |-> None]
    BY <2>1, <2>3 DEF AccountsInit
  <2> QED
    BY <2>2, <2>3
<1>2. /\ tokens = [t \in Token |-> None] /\ issued = 0 /\ requests = [q \in Request |-> None]
  BY DEF AccountsInit
<1>3. AccountsTypeOK
  BY <1>1, <1>2 DEF AccountsTypeOK
<1> QED
  BY <1>2, <1>3 DEF AccountsInv, TokenOK, TokensFollowLogins

\* Every step keeps the invariant and an administrator.
LEMMA AccountsStep ==
  ASSUME AccountsInv, [AccountsNext]_accountVars
  PROVE  AccountsInv' /\ (ActiveAdmins(users) # {} => ActiveAdmins(users') # {})
<1>0. {} \in SUBSET Role /\ \A rs \in RoleSet : rs \in SUBSET Role
  BY AccountsConstants
<1>1. CASE UNCHANGED accountVars
  <2>1. users' = users /\ tokens' = tokens /\ issued' = issued /\ requests' = requests
    BY <1>1 DEF accountVars
  <2>2. \A u, c, rs : Proposed(u, c, rs)' = Proposed(u, c, rs)
    BY <2>1 DEF Proposed
  <2>3. \A u, c, rs : AdminRemainsAfter(u, c, rs)' <=> AdminRemainsAfter(u, c, rs)
    BY <2>1, <2>2 DEF AdminRemainsAfter
  <2>4. \A q \in Request : requests[q] # None => RequestOK(requests[q])'
    BY <2>1, <2>3 DEF AccountsInv, RequestOK, Present, StillTrue, LoginOf, SweepSees
  <2> QED
    BY <2>1, <2>4 DEF AccountsInv, AccountsTypeOK, TokenOK, TokensFollowLogins, Present
<1>2. ASSUME NEW u \in User, NEW rs \in RoleSet, CreateUser(u, rs)
      PROVE  AccountsInv' /\ (ActiveAdmins(users) # {} => ActiveAdmins(users') # {})
  BY <1>0, <1>2, CreateUserStep
<1>3. ASSUME NEW q \in Request, NEW u \in User, LoginReads(q, u) \/ PasswordWrites(q, u)
      PROVE  AccountsInv' /\ users' = users
  BY <1>3, LoginReadsStep, PasswordWritesStep DEF LoginReads, PasswordWrites
<1>4. ASSUME NEW q \in Request, NEW u \in User, NEW rs \in RoleSet, GuardedReads(q, u, "roles", rs)
      PROVE  AccountsInv' /\ users' = users
  BY <1>0, <1>4, GuardedReadsStep DEF GuardedReads
<1>5. ASSUME NEW q \in Request, NEW u \in User, GuardedReads(q, u, "disable", {})
      PROVE  AccountsInv' /\ users' = users
  BY <1>0, <1>5, GuardedReadsStep DEF GuardedReads
<1>6. ASSUME NEW q \in Request,
             LoginInserts(q) \/ RefreshDeletes(q) \/ RefreshCommits(q) \/ DisableWrites(q) \/ Abort(q)
      PROVE  AccountsInv' /\ users' = users
  BY <1>6, LoginInsertsStep, RefreshDeletesStep, RefreshCommitsStep, DisableWritesStep, FailStep
     DEF LoginInserts, RefreshDeletes, RefreshCommits, DisableWrites, Abort, Fail
<1>7. ASSUME NEW q \in Request, RolesWritten(q) \/ SweepCommits(q)
      PROVE  AccountsInv' /\ (ActiveAdmins(users) # {} => ActiveAdmins(users') # {})
  BY <1>7, RolesWrittenStep, SweepCommitsStep
<1>8. ASSUME NEW q \in Request, NEW t \in Token, RefreshReads(q, t)
      PROVE  AccountsInv' /\ users' = users
  BY <1>8, RefreshReadsStep DEF RefreshReads
<1>9. ASSUME NEW t \in Token, Logout(t) \/ Expire(t)
      PROVE  AccountsInv' /\ users' = users
  <2>1. {t} \in SUBSET Token
    OBVIOUS
  <2> QED
    BY <1>9, <2>1, DeleteTokensStep, ExpireStep DEF Logout, Expire, DeleteTokens
<1>10. ASSUME NEW u \in User, EnableUser(u)
       PROVE  AccountsInv' /\ (ActiveAdmins(users) # {} => ActiveAdmins(users') # {})
  BY <1>10, EnableUserStep
<1>11. CASE PruneExpired
  <2> DEFINE old == {t \in Token : tokens[t] # None /\ tokens[t].expired}
  <2>1. old \in SUBSET Token /\ DeleteTokens(old)
    BY <1>11 DEF PruneExpired
  <2> HIDE DEF old
  <2> QED
    BY <2>1, DeleteTokensStep DEF DeleteTokens
<1>12. users' = users => (ActiveAdmins(users) # {} => ActiveAdmins(users') # {})
  OBVIOUS
<1> QED
  BY <1>1, <1>2, <1>3, <1>4, <1>5, <1>6, <1>7, <1>8, <1>9, <1>10, <1>11, <1>12 DEF AccountsNext

LEMMA AccountsInvariant == AccountsSpec => []AccountsInv
<1>1. AccountsInv /\ [AccountsNext]_accountVars => AccountsInv'
  BY AccountsStep
<1> QED
  BY <1>1, AccountsInitial, PTL DEF AccountsSpec

\* The rows of users and user_tokens and the requests between two statements
\* have their types; in particular no user has more epochs than are counted.
THEOREM AccountsTypeCorrect == AccountsSpec => []AccountsTypeOK
<1>1. AccountsInv => AccountsTypeOK
  BY DEF AccountsInv
<1> QED
  BY <1>1, AccountsInvariant, PTL

\* On Postgres and on SQLite, with any number of users and of requests under way:
\* once there is an active administrator, no role change, lock-out, or any mix of
\* them leaves the server without one (ensure_active_admin_remains).
THEOREM AdminRemainsCorrect == AccountsSpec => AdminRemains
<1>1. AccountsInv /\ [AccountsNext]_accountVars
        => [ActiveAdmins(users) # {} => ActiveAdmins(users') # {}]_users
  BY AccountsStep
<1> QED
  BY <1>1, AccountsInvariant, PTL DEF AccountsSpec, AdminRemains

\* However many refreshes of a token run at a time, its login has one live token;
\* and a token from before a password change or lock-out of its owner is one that
\* raced with it (refresh_user_token, set_user_password, disable_user).
THEOREM TokensFollowLoginsCorrect == AccountsSpec => []TokensFollowLogins
<1>1. AccountsInv => TokensFollowLogins
  BY DEF AccountsInv
<1> QED
  BY <1>1, AccountsInvariant, PTL

(***************************************************************************)
(* The command line over git and SSH.                                      *)
(*                                                                         *)
(* An exit code of 0 is worked out of what the tasks have kept, when they  *)
(* are joined. TaskInv says what a task has kept at every place it can be  *)
(* at, and that a task is skipped only after another one has failed, so    *)
(* that a command that skips cannot end with 0. GitInv follows the commit  *)
(* that was fetched through FETCH_HEAD, the sha and the tree.              *)
(***************************************************************************)
Place == {"start", "init", "remote", "fetch", "parse", "checkout", "load", "fanout", "over"}
Code == {Unset, 0, 1, 4, 5, 130}
Found == Commit \union {Unset}

CliTypeOK ==
  /\ cache \in [repo : {"none", "init", "made"}, head : Found, tree : Found]
  /\ inv \in [Cmd -> [at : Place, exit : Code, sha : Found, loaded : Found]]
  /\ remote \in [{Job[c].ref : c \in Cmd} -> Commit]
  /\ fetched \in [Cmd -> Found] /\ mixed \subseteq Cmd
  /\ aborted \subseteq Cmd
  /\ task \in [Entry -> {"none", "spawned", "skipped", "waiting", "orphan", "ended"} \union Permitted]
  /\ outcome \in [Entry -> {"none", "succeeded", "partial", "failed", "error"}]
  /\ verdict \in [Entry -> {"none", "succeeded", "partial", "failed"}]
  /\ history \in Seq([command : Cmd, host_count : Nat, ok_count : Nat, failed_count : Nat])

\* What c knows of the commit that its fetch has brought.
GitOK(c) ==
  /\ At(c, "parse") => cache.head = fetched[c]
  /\ At(c, "checkout") => inv[c].sha = fetched[c]
  /\ At(c, "load") => cache.tree = fetched[c]
  /\ At(c, "fanout") \/ inv[c].exit = 0 => inv[c].loaded = fetched[c]

GitInv == \A c \in Cmd : Job[c].kind # "run" /\ c \notin mixed => GitOK(c)

\* Where the task of e can be, and what it has kept there.
TaskOK(e) ==
  /\ inv[Of[e]].at \notin {"fanout", "over"} => task[e] = "none"
  /\ Joined(e) /\ task[e] # "none" => e \in resolve(Of[e])
  /\ Joined(e) /\ task[e] = "ended" => outcome[e] # "none"
  /\ Joined(e) /\ task[e] = "orphan" => outcome[e] = "failed"
  /\ task[e] = "orphan" => outcome[e] \in {"none", "failed"}
  /\ task[e] = "skipped" => Of[e] \in aborted
  /\ task[e] \notin {"ended", "orphan"} => outcome[e] = "none"
  /\ outcome[e] = "succeeded" => verdict[e] = "succeeded"
  /\ Job[Of[e]].kind = "run" => outcome[e] \notin {"partial", "error"}

TaskInv == \A e \in Entry : TaskOK(e)

\* The flag was raised by a task of the command.
AbortInv ==
  \A c \in aborted : \E e \in resolve(c) : outcome[e] \in {"failed", "error"}

ExitInv ==
  \A c \in Cmd :
    /\ ~At(c, "over") => inv[c].exit = Unset
    /\ Job[c].kind = "plan" => ~At(c, "fanout")
    /\ inv[c].exit = 0 /\ Job[c].kind # "plan" =>
         \A e \in resolve(c) : task[e] = "ended" /\ outcome[e] = "succeeded"

HistoryInv ==
  \A i \in DOMAIN history :
    /\ At(history[i].command, "over")
    /\ history[i].failed_count = 0 <=> inv[history[i].command].exit = 0

CliInv == CliTypeOK /\ GitInv /\ TaskInv /\ AbortInv /\ ExitInv /\ HistoryInv

\* What the assumptions say of the constants.
LEMMA CliConstants ==
  /\ IsFiniteSet(Entry) /\ Unset \notin {0, 1, 4, 5, 130}
  /\ 0 \in Commit /\ Unset \notin Commit
  /\ \A e \in Entry : Of[e] \in Cmd
  /\ \A c \in Cmd : resolve(c) \subseteq Entry /\ \A e \in resolve(c) : Of[e] = c
<1>1. IsFiniteSet(Entry) /\ Unset \notin {0, 1, 4, 5, 130} /\ \A e \in Entry : Of[e] \in Cmd
  BY CommandLineAssumption
<1>2. 0 \in Commit /\ Unset \notin Commit
  BY CommandLineAssumption DEF Commit
<1> QED  BY <1>1, <1>2 DEF resolve

\* Nothing has begun.
LEMMA CliInitial == CommandLineInit => CliInv
<1> SUFFICES ASSUME CommandLineInit PROVE CliInv
  OBVIOUS
<1> USE DEF CommandLineInit
<1>1. CliTypeOK
  <2>1. cache \in [repo : {"none", "init", "made"}, head : Found, tree : Found]
    BY DEF Found
  <2>2. inv \in [Cmd -> [at : Place, exit : Code, sha : Found, loaded : Found]]
    BY DEF Place, Code, Found
  <2>3. remote \in [{Job[c].ref : c \in Cmd} -> Commit]
    BY CliConstants
  <2>4. fetched \in [Cmd -> Found] /\ mixed \subseteq Cmd /\ aborted \subseteq Cmd
    BY DEF Found
  <2>5. task \in [Entry -> {"none", "spawned", "skipped", "waiting", "orphan", "ended"} \union Permitted]
    OBVIOUS
  <2>6. /\ outcome \in [Entry -> {"none", "succeeded", "partial", "failed", "error"}]
        /\ verdict \in [Entry -> {"none", "succeeded", "partial", "failed"}]
    OBVIOUS
  <2>7. history \in Seq([command : Cmd, host_count : Nat, ok_count : Nat, failed_count : Nat])
    OBVIOUS
  <2> QED  BY <2>1, <2>2, <2>3, <2>4, <2>5, <2>6, <2>7 DEF CliTypeOK
<1>2. \A c \in Cmd : inv[c].at = "start" /\ inv[c].exit = Unset
  OBVIOUS
<1>3. GitInv
  BY <1>2, CliConstants DEF GitInv, GitOK, At
<1>4. TaskInv
  <2> SUFFICES ASSUME NEW e \in Entry PROVE TaskOK(e)
    BY DEF TaskInv
  <2>1. task[e] = "none" /\ outcome[e] = "none"
    OBVIOUS
  <2> QED  BY <2>1, <1>2, CliConstants DEF TaskOK, Joined, At
<1>5. AbortInv
  BY DEF AbortInv
<1>6. ExitInv
  BY <1>2, CliConstants DEF ExitInv, At
<1>7. HistoryInv
  BY DEF HistoryInv
<1> QED  BY <1>1, <1>3, <1>4, <1>5, <1>6, <1>7 DEF CliInv

\* A line of run-history is about one of the commands.
LEMMA HistoryRows ==
  ASSUME CliTypeOK, NEW i \in DOMAIN history
  PROVE  history[i].command \in Cmd
<1> DEFINE Row == [command : Cmd, host_count : Nat, ok_count : Nat, failed_count : Nat]
<1>1. history \in Seq(Row)
  BY DEF CliTypeOK
<1>2. history[i] \in Row
  <2> HIDE DEF Row
  <2> QED  BY <1>1
<1> QED  BY <1>2

\* What a step of git cannot disturb: nothing but the place of one command that
\* has no tasks yet.
LEMMA GitMoves ==
  ASSUME CliInv, NEW c \in Cmd, inv[c].at \notin {"fanout", "over"},
         \A d \in Cmd \ {c} : inv'[d] = inv[d],
         UNCHANGED <<sshVars, history>>,
         inv'[c].exit = 0 => Job[c].kind = "plan",
         inv'[c].at # "over" => inv'[c].exit = Unset,
         inv'[c].at = "fanout" => Job[c].kind # "plan"
  PROVE  TaskInv' /\ AbortInv' /\ ExitInv' /\ HistoryInv'
<1> USE CliConstants DEF CliInv
<1>1. UNCHANGED <<aborted, task, outcome, verdict, history>>
  BY DEF sshVars
<1>2. TaskInv'
  <2> SUFFICES ASSUME NEW e \in Entry PROVE TaskOK(e)'
    BY DEF TaskInv
  <2>1. TaskOK(e) /\ Of[e] \in Cmd
    BY DEF TaskInv
  <2>2. CASE Of[e] = c
    BY <1>1, <2>1, <2>2 DEF TaskOK, Joined, At
  <2>3. CASE Of[e] # c
    <3>1. inv'[Of[e]] = inv[Of[e]]
      BY <2>1, <2>3
    <3> QED  BY <1>1, <2>1, <3>1 DEF TaskOK, Joined, At
  <2> QED  BY <2>2, <2>3
<1>3. AbortInv'
  BY <1>1 DEF AbortInv
<1>4. ExitInv'
  <2> SUFFICES ASSUME NEW d \in Cmd
               PROVE  /\ ~At(d, "over")' => inv'[d].exit = Unset
                      /\ Job[d].kind = "plan" => ~At(d, "fanout")'
                      /\ inv'[d].exit = 0 /\ Job[d].kind # "plan" =>
                           \A e \in resolve(d) : task'[e] = "ended" /\ outcome'[e] = "succeeded"
    BY DEF ExitInv
  <2>1. CASE d = c
    BY <2>1 DEF At
  <2>2. CASE d # c
    BY <1>1, <2>2 DEF At, ExitInv
  <2> QED  BY <2>1, <2>2
<1>5. HistoryInv'
  <2> SUFFICES ASSUME NEW i \in DOMAIN history
               PROVE  /\ inv'[history[i].command].at = "over"
                      /\ history[i].failed_count = 0 <=> inv'[history[i].command].exit = 0
    BY <1>1 DEF HistoryInv, At
  <2>1. history[i].command \in Cmd
    BY HistoryRows
  <2>2. inv[history[i].command].at = "over"
    BY DEF HistoryInv, At
  <2>3. inv'[history[i].command] = inv[history[i].command]
    BY <2>1, <2>2
  <2> QED  BY <2>3, <2>2 DEF HistoryInv
<1> QED  BY <1>2, <1>3, <1>4, <1>5

\* A step of one command: its new place, exit code, sha and tree.
Moved(c, w, x, sha, loaded) ==
  /\ inv' \in [Cmd -> [at : Place, exit : Code, sha : Found, loaded : Found]]
  /\ \A d \in Cmd \ {c} : inv'[d] = inv[d]
  /\ inv'[c].at = w /\ inv'[c].exit = x /\ inv'[c].sha = sha /\ inv'[c].loaded = loaded

\* Each way in which an action writes inv is such a step.
LEMMA MovedBy ==
  ASSUME CliTypeOK, NEW c \in Cmd, NEW w \in Place, NEW x \in Code, NEW v \in Found
  PROVE  /\ inv' = [inv EXCEPT ![c].at = w] => Moved(c, w, inv[c].exit, inv[c].sha, inv[c].loaded)
         /\ inv' = [inv EXCEPT ![c].at = w, ![c].exit = x] => Moved(c, w, x, inv[c].sha, inv[c].loaded)
         /\ inv' = [inv EXCEPT ![c].at = w, ![c].sha = v] => Moved(c, w, inv[c].exit, v, inv[c].loaded)
         /\ inv' = [inv EXCEPT ![c].loaded = v, ![c].at = w, ![c].exit = x] => Moved(c, w, x, inv[c].sha, v)
<1>1. inv \in [Cmd -> [at : Place, exit : Code, sha : Found, loaded : Found]]
  BY DEF CliTypeOK
<1> QED  BY <1>1 DEF Moved

\* The types of what an invocation finds.
LEMMA FoundIs ==
  ASSUME CliTypeOK, NEW c \in Cmd
  PROVE  /\ inv[c].at \in Place /\ inv[c].exit \in Code /\ inv[c].sha \in Found /\ inv[c].loaded \in Found
         /\ cache.head \in Found /\ cache.tree \in Found /\ fetched[c] \in Found
         /\ remote[Job[c].ref] \in Found
<1>1. inv[c] \in [at : Place, exit : Code, sha : Found, loaded : Found] /\ fetched[c] \in Found
  BY DEF CliTypeOK
<1>2. cache \in [repo : {"none", "init", "made"}, head : Found, tree : Found]
  BY DEF CliTypeOK
<1>3. remote[Job[c].ref] \in Found
  BY DEF CliTypeOK, Found
<1> QED  BY <1>1, <1>2, <1>3

\* GitOK of the commands that a step of c leaves where they are: either the clone
\* is as before, or they share it with c and are mixed.
LEMMA GitOthers ==
  ASSUME CliInv, NEW c \in Cmd, NEW d \in Cmd \ {c},
         Job[d].kind # "run", d \notin mixed',
         inv'[d] = inv[d], fetched'[d] = fetched[d], mixed \subseteq mixed',
         (cache'.head = cache.head /\ cache'.tree = cache.tree) \/ (InClone(d) => d \in mixed')
  PROVE  GitOK(d)'
<1>1. GitOK(d)
  BY DEF CliInv, GitInv
<1> QED  BY <1>1 DEF GitOK, At, InClone

\* The steps of one invocation over git.
LEMMA GitSteps ==
  ASSUME CliInv, NEW c \in Cmd,
         \/ GitFails(c) \/ LooksForClone(c) \/ GitInit(c) \/ RemoteAdd(c)
         \/ Fetch(c) \/ RevParse(c) \/ Checkout(c) \/ LoadManifests(c)
  PROVE  CliInv'
<1> USE CliConstants
<1>t. CliTypeOK
  BY DEF CliInv
<1>x. inv[c].exit = Unset \/ At(c, "over")
  BY DEF CliInv, ExitInv
<1>r. remote[Job[c].ref] \in Found
  BY <1>t, FoundIs
<1>v. inv[c].sha \in Found /\ inv[c].loaded \in Found /\ cache.head \in Found /\ cache.tree \in Found
  BY <1>t, FoundIs
<1>w. inv[c].at \notin {"fanout", "over"} /\ inv[c].exit = Unset
  BY <1>x DEF GitFails, LooksForClone, GitInit, RemoteAdd, Fetch, RevParse, Checkout, LoadManifests, At
\* Every one of them moves c only, and changes the clone or not.
<1>m. \E w \in Place, x \in {Unset, 0, 1}, sha, loaded \in Found :
        /\ Moved(c, w, x, sha, loaded)
        /\ x = 0 => Job[c].kind = "plan"
        /\ w # "over" => x = Unset
        /\ w = "fanout" => Job[c].kind # "plan"
  <2> USE <1>v, <1>w
  <2>0. /\ {"start", "init", "remote", "fetch", "parse", "checkout", "load", "fanout", "over"} \subseteq Place
        /\ {Unset, 0, 1} \subseteq Code
    BY DEF Place, Code
  <2>1. CASE GitFails(c)
    <3>1. inv' = [inv EXCEPT ![c].at = "over", ![c].exit = 1]
      BY <2>1 DEF GitFails
    <3>2. Moved(c, "over", 1, inv[c].sha, inv[c].loaded)
      BY <3>1, <2>0, <1>t, MovedBy
    <3> QED  BY <3>2, <2>0
  <2>2. CASE LooksForClone(c)
    <3>1. PICK w \in {"fanout", "init", "fetch"} :
             /\ w = "fanout" => Job[c].kind = "run"
             /\ inv' = [inv EXCEPT ![c].at = w]
      BY <2>2 DEF LooksForClone, Goes
    <3>2. Moved(c, w, Unset, inv[c].sha, inv[c].loaded)
      BY <3>1, <2>0, <1>t, MovedBy
    <3> QED  BY <3>1, <3>2, <2>0
  <2>3. CASE GitInit(c)
    <3>1. Moved(c, "remote", Unset, inv[c].sha, inv[c].loaded)
      BY <2>3, <2>0, <1>t, MovedBy DEF GitInit, Goes
    <3> QED  BY <3>1, <2>0
  <2>4. CASE RemoteAdd(c)
    <3>1. Moved(c, "fetch", Unset, inv[c].sha, inv[c].loaded)
      BY <2>4, <2>0, <1>t, MovedBy DEF RemoteAdd, Goes
    <3> QED  BY <3>1, <2>0
  <2>5. CASE Fetch(c)
    <3>1. Moved(c, "parse", Unset, inv[c].sha, inv[c].loaded)
      BY <2>5, <2>0, <1>t, MovedBy DEF Fetch, Goes
    <3> QED  BY <3>1, <2>0
  <2>6. CASE RevParse(c)
    <3>1. Moved(c, "checkout", Unset, cache.head, inv[c].loaded)
      BY <2>6, <2>0, <1>t, MovedBy DEF RevParse
    <3> QED  BY <3>1, <2>0
  <2>7. CASE Checkout(c)
    <3>1. Moved(c, "load", Unset, inv[c].sha, inv[c].loaded)
      BY <2>7, <2>0, <1>t, MovedBy DEF Checkout, Goes
    <3> QED  BY <3>1, <2>0
  <2>8. CASE LoadManifests(c)
    <3>1. CASE Job[c].kind = "plan"
      <4>1. inv' = [inv EXCEPT ![c].loaded = cache.tree, ![c].at = "over", ![c].exit = 0]
        BY <2>8, <3>1 DEF LoadManifests
      <4>2. Moved(c, "over", 0, inv[c].sha, cache.tree)
        BY <4>1, <2>0, <1>t, MovedBy
      <4> QED  BY <4>2, <3>1, <2>0
    <3>2. CASE Job[c].kind # "plan"
      <4>1. inv' = [inv EXCEPT ![c].loaded = cache.tree, ![c].at = "fanout", ![c].exit = Unset]
        BY <2>8, <3>2 DEF LoadManifests
      <4>2. Moved(c, "fanout", Unset, inv[c].sha, cache.tree)
        BY <4>1, <2>0, <1>t, MovedBy
      <4> QED  BY <4>2, <3>2, <2>0
    <3> QED  BY <3>1, <3>2
  <2> QED  BY <2>1, <2>2, <2>3, <2>4, <2>5, <2>6, <2>7, <2>8
<1>1. /\ inv[c].at \notin {"fanout", "over"}
      /\ UNCHANGED <<sshVars, history, remote>>
      /\ inv' \in [Cmd -> [at : Place, exit : Code, sha : Found, loaded : Found]]
      /\ \A d \in Cmd \ {c} : inv'[d] = inv[d]
      /\ inv'[c].exit = 0 => Job[c].kind = "plan"
      /\ inv'[c].at # "over" => inv'[c].exit = Unset
      /\ inv'[c].at = "fanout" => Job[c].kind # "plan"
  <2>1. UNCHANGED <<sshVars, history, remote>>
    BY DEF GitFails, LooksForClone, GitInit, RemoteAdd, Fetch, RevParse, Checkout, LoadManifests, gitVars
  <2> QED  BY <2>1, <1>m, <1>w DEF Moved
<1>2. TaskInv' /\ AbortInv' /\ ExitInv' /\ HistoryInv'
  BY <1>1, GitMoves
<1>3. /\ cache' \in [repo : {"none", "init", "made"}, head : Found, tree : Found]
      /\ fetched' \in [Cmd -> Found]
      /\ \A d \in Cmd \ {c} : fetched'[d] = fetched[d]
      /\ mixed \subseteq mixed' /\ mixed' \subseteq Cmd
      /\ \/ cache'.head = cache.head /\ cache'.tree = cache.tree
         \/ \A d \in Cmd \ {c} : InClone(d) => d \in mixed'
  <2>1. CASE GitFails(c) \/ LooksForClone(c) \/ RevParse(c) \/ LoadManifests(c)
    <3>1. UNCHANGED <<cache, fetched, mixed>>
      BY <2>1 DEF GitFails, LooksForClone, RevParse, LoadManifests, gitVars
    <3> QED  BY <3>1, <1>t DEF CliTypeOK
  <2>2. CASE GitInit(c) \/ RemoteAdd(c)
    <3>1. UNCHANGED <<fetched, mixed>>
      BY <2>2 DEF GitInit, RemoteAdd
    <3>2. \E r \in {"none", "init", "made"} : cache' = [cache EXCEPT !.repo = r]
      BY <2>2, <1>t DEF GitInit, RemoteAdd, CliTypeOK
    <3> QED  BY <3>1, <3>2, <1>t DEF CliTypeOK
  <2>3. CASE Fetch(c)
    BY <2>3, <1>t, <1>r DEF Fetch, Disturbs, CliTypeOK
  <2>4. CASE Checkout(c)
    <3> QED  BY <2>4, <1>v, <1>t DEF Checkout, CheckedOut, Disturbs, CliTypeOK
  <2> QED  BY <2>1, <2>2, <2>3, <2>4
<1>4. CliTypeOK'
  <2>1. UNCHANGED <<aborted, task, outcome, verdict>>
    BY <1>1 DEF sshVars
  <2> QED  BY <2>1, <1>1, <1>3, <1>t DEF CliTypeOK
<1>5. GitInv'
  <2> SUFFICES ASSUME NEW d \in Cmd, Job[d].kind # "run", d \notin mixed' PROVE GitOK(d)'
    BY DEF GitInv
  <2>1. CASE d # c
    BY <2>1, <1>1, <1>3, GitOthers
  <2>2. CASE d = c
    <3>1. c \notin mixed
      BY <2>2, <1>3
    <3>2. GitOK(c)
      BY <2>2, <3>1 DEF CliInv, GitInv
    <3>3. CASE GitFails(c)
      BY <3>3, <2>2, <1>t DEF GitFails, GitOK, At, CliTypeOK
    <3>4. CASE LooksForClone(c)
      BY <3>4, <2>2, <1>t, <1>x DEF LooksForClone, Goes, GitOK, At, CliTypeOK
    <3>5. CASE GitInit(c)
      BY <3>5, <2>2, <1>t, <1>x DEF GitInit, Goes, GitOK, At, CliTypeOK
    <3>6. CASE RemoteAdd(c)
      BY <3>6, <2>2, <1>t, <1>x DEF RemoteAdd, Goes, GitOK, At, CliTypeOK
    <3>7. CASE Fetch(c)
      BY <3>7, <2>2, <1>t, <1>x DEF Fetch, Goes, GitOK, At, CliTypeOK
    <3>8. CASE RevParse(c)
      BY <3>8, <2>2, <3>2, <1>t, <1>x DEF RevParse, gitVars, GitOK, At, CliTypeOK
    <3>9. CASE Checkout(c)
      BY <3>9, <2>2, <3>2, <1>t, <1>x DEF Checkout, CheckedOut, Goes, GitOK, At, CliTypeOK
    <3>10. CASE LoadManifests(c)
      BY <3>10, <2>2, <3>2, <1>t, <1>x DEF LoadManifests, gitVars, GitOK, At, CliTypeOK
    <3> QED  BY <3>3, <3>4, <3>5, <3>6, <3>7, <3>8, <3>9, <3>10
  <2> QED  BY <2>1, <2>2
<1> QED  BY <1>2, <1>4, <1>5 DEF CliInv

\* A task goes to another place, and may end there with an outcome.
LEMMA TaskMoves ==
  ASSUME CliInv, NEW e \in Entry, Joined(e), task[e] \notin {"none", "ended", "skipped", "orphan"},
         UNCHANGED <<gitVars, inv, history>>,
         NEW w \in {"skipped", "waiting", "orphan", "ended"} \union Permitted,
         task' = [task EXCEPT ![e] = w],
         NEW o \in {"none", "succeeded", "partial", "failed", "error"},
         outcome' = [outcome EXCEPT ![e] = o],
         w = "skipped" => Of[e] \in aborted,
         o = "none" <=> w \notin {"ended", "orphan"},
         w = "orphan" => o = "failed",
         Job[Of[e]].kind = "run" => o \notin {"partial", "error"},
         aborted' = aborted \/ (aborted' = aborted \union {Of[e]} /\ o \in {"failed", "error"}),
         verdict' \in [Entry -> {"none", "succeeded", "partial", "failed"}],
         \A d \in Entry \ {e} : verdict'[d] = verdict[d],
         o = "succeeded" => verdict'[e] = "succeeded"
  PROVE  CliInv'
<1> USE CliConstants DEF CliInv
<1>0. UNCHANGED <<remote, cache, fetched, mixed>>
  BY DEF gitVars
<1>1. CliTypeOK'
  <2>1. /\ task' \in [Entry -> {"none", "spawned", "skipped", "waiting", "orphan", "ended"} \union Permitted]
        /\ outcome' \in [Entry -> {"none", "succeeded", "partial", "failed", "error"}]
        /\ aborted' \subseteq Cmd
    BY DEF CliTypeOK
  <2> QED  BY <1>0, <2>1 DEF CliTypeOK
<1>t. /\ task'[e] = w /\ outcome'[e] = o
      /\ \A d \in Entry \ {e} : task'[d] = task[d] /\ outcome'[d] = outcome[d]
  BY DEF CliTypeOK
<1>2. GitInv'
  BY <1>0 DEF GitInv, GitOK, At
<1>3. TaskInv'
  <2> SUFFICES ASSUME NEW d \in Entry PROVE TaskOK(d)'
    BY DEF TaskInv
  <2>1. TaskOK(d)
    BY DEF TaskInv
  <2>2. CASE d # e
    BY <2>1, <2>2, <1>t DEF TaskOK, Joined, At
  <2>3. CASE d = e
    <3>1. e \in resolve(Of[e]) /\ inv[Of[e]].at = "fanout"
      BY <2>1, <2>3 DEF TaskOK, Joined, At
    <3> QED  BY <2>3, <3>1, <1>t DEF TaskOK, Joined, At
  <2> QED  BY <2>2, <2>3
<1>4. AbortInv'
  <2> SUFFICES ASSUME NEW c \in aborted'
               PROVE  \E d \in resolve(c) : outcome'[d] \in {"failed", "error"}
    BY DEF AbortInv
  <2>1. TaskOK(e)
    BY DEF TaskInv
  <2>2. outcome[e] = "none" /\ e \in resolve(Of[e])
    BY <2>1 DEF TaskOK
  <2>3. CASE c \in aborted
    <3>1. PICK d \in resolve(c) : outcome[d] \in {"failed", "error"}
      BY <2>3 DEF AbortInv
    <3>2. d # e /\ d \in Entry
      BY <2>2, <3>1, <1>1 DEF resolve
    <3> QED  BY <3>1, <3>2, <1>t
  <2>4. CASE c \notin aborted
    BY <2>4, <2>2, <1>t
  <2> QED  BY <2>3, <2>4
<1>5. ExitInv'
  <2> SUFFICES ASSUME NEW c \in Cmd, inv[c].exit = 0, Job[c].kind # "plan", NEW d \in resolve(c)
               PROVE  task'[d] = "ended" /\ outcome'[d] = "succeeded"
    BY DEF ExitInv, At
  <2>1. d # e /\ d \in Entry
    BY DEF ExitInv, Joined, At, resolve
  <2> QED  BY <2>1, <1>t DEF ExitInv
<1>6. HistoryInv'
  BY DEF HistoryInv, At
<1> QED  BY <1>1, <1>2, <1>3, <1>4, <1>5, <1>6

\* The same for a task that has not ended.
LEMMA TaskGoesOn ==
  ASSUME CliInv, NEW e \in Entry, Joined(e), task[e] \notin {"none", "ended", "skipped", "orphan"},
         UNCHANGED <<gitVars, inv, history, outcome, aborted, verdict>>,
         NEW w \in {"skipped", "waiting"} \union Permitted, StepsTo(e, w),
         w = "skipped" => Of[e] \in aborted
  PROVE  CliInv'
<1>1. TaskOK(e) /\ CliTypeOK
  BY DEF CliInv, TaskInv
<1>2. outcome[e] = "none" /\ w \notin {"orphan", "ended"}
  BY <1>1 DEF TaskOK, Permitted
<1>3. outcome' = [outcome EXCEPT ![e] = "none"]
  BY <1>1, <1>2 DEF CliTypeOK
<1>4. verdict' \in [Entry -> {"none", "succeeded", "partial", "failed"}]
  BY <1>1 DEF CliTypeOK
<1> QED  BY <1>2, <1>3, <1>4, TaskMoves DEF StepsTo

\* The same for one that ends.
LEMMA TaskEnds ==
  ASSUME CliInv, NEW e \in Entry, Joined(e), task[e] \notin {"none", "ended", "skipped", "orphan"},
         UNCHANGED <<gitVars, inv, history>>,
         NEW s \in {"succeeded", "partial", "failed"}, NEW error \in BOOLEAN, Ends(e, s, error),
         error => s = "failed",
         Job[Of[e]].kind = "run" => s # "partial",
         verdict' \in [Entry -> {"none", "succeeded", "partial", "failed"}],
         \A d \in Entry \ {e} : verdict'[d] = verdict[d],
         s = "succeeded" => verdict'[e] = "succeeded"
  PROVE  CliInv'
<1>1. /\ Kept(e, s, error) \in {s, "error"}
      /\ Kept(e, s, error) = "error" => error /\ Job[Of[e]].kind = "ssh"
  BY DEF Kept
<1>2. PICK o : o = Kept(e, s, error)
  OBVIOUS
<1>3. task' = [task EXCEPT ![e] = "ended"] /\ outcome' = [outcome EXCEPT ![e] = o]
  BY <1>2 DEF Ends
<1>4. aborted' = aborted \/ (aborted' = aborted \union {Of[e]} /\ o \in {"failed", "error"})
  BY <1>1, <1>2 DEF Ends, RaisedBy
<1>5. /\ o \in {"succeeded", "partial", "failed", "error"}
      /\ Job[Of[e]].kind = "run" => o \notin {"partial", "error"}
      /\ o = "succeeded" => verdict'[e] = "succeeded"
  BY <1>1, <1>2
<1>6. \E w \in {"skipped", "waiting", "orphan", "ended"} \union Permitted :
        /\ task' = [task EXCEPT ![e] = w] /\ w = "ended"
  BY <1>3
<1>7. o \in {"none", "succeeded", "partial", "failed", "error"} /\ o # "none"
  BY <1>5
<1> QED  BY <1>3, <1>4, <1>5, <1>6, <1>7, TaskMoves

\* The steps of one task.
LEMMA TaskSteps ==
  ASSUME CliInv, NEW e \in Entry,
         \/ LooksAtFlag(e) \/ GetsPermit(e) \/ probe_remote_iac(e) \/ bootstrap_iac_binary(e)
         \/ CacheHit(e) \/ ScpEnds(e) \/ Chmod(e) \/ SshStarts(e) \/ ConnectionLost(e)
         \/ \E x \in BOOLEAN : ScpBegins(e, x)
         \/ \E v \in Verdicts(Of[e]) : SshEnds(e, v)
  PROVE  CliInv'
<1>t. CliTypeOK
  BY DEF CliInv
<1>a. verdict \in [Entry -> {"none", "succeeded", "partial", "failed"}]
  BY <1>t DEF CliTypeOK
\* A step that leaves the verdict alone goes on, or fails.
<1>b. ASSUME Joined(e), task[e] \notin {"none", "ended", "skipped", "orphan"},
             UNCHANGED <<gitVars, inv, history, verdict>>,
             \/ Ends(e, "failed", TRUE) \/ Ends(e, "failed", FALSE)
             \/ \E w \in {"waiting"} \union Permitted : Proceeds(e, w)
      PROVE  CliInv'
  <2>1. CASE Ends(e, "failed", TRUE) \/ Ends(e, "failed", FALSE)
    BY <1>b, <1>a, <2>1, TaskEnds
  <2>2. CASE \E w \in {"waiting"} \union Permitted : Proceeds(e, w)
    <3>1. PICK w \in {"waiting"} \union Permitted : Proceeds(e, w)
      BY <2>2
    <3>2. w # "skipped"
      BY DEF Permitted
    <3> QED  BY <1>b, <3>1, <3>2, TaskGoesOn DEF Proceeds
  <2> QED  BY <1>b, <2>1, <2>2
<1>1. CASE LooksAtFlag(e)
  <2>1. CASE Of[e] \in aborted
    BY <1>1, <2>1, TaskGoesOn DEF LooksAtFlag
  <2>2. CASE Of[e] \notin aborted
    BY <1>1, <2>2, TaskGoesOn DEF LooksAtFlag
  <2> QED  BY <2>1, <2>2
<1>2. CASE GetsPermit(e)
  <2>1. Joined(e) /\ task[e] = "waiting" /\ UNCHANGED <<gitVars, inv, history, verdict>>
    BY <1>2 DEF GetsPermit
  <2>2. PICK w \in Permitted : Proceeds(e, w)
    BY <1>2 DEF GetsPermit, Proceeds, Permitted
  <2> QED  BY <1>b, <2>1, <2>2
<1>3. CASE probe_remote_iac(e)
  <2>1. Joined(e) /\ task[e] = "probe" /\ UNCHANGED <<gitVars, inv, history, verdict>>
    BY <1>3 DEF probe_remote_iac
  <2>2. Ends(e, "failed", TRUE) \/ \E w \in Permitted : Proceeds(e, w)
    BY <1>3 DEF probe_remote_iac, Permitted
  <2> QED  BY <1>b, <2>1, <2>2
<1>4. CASE bootstrap_iac_binary(e)
  <2>1. Joined(e) /\ task[e] = "bootstrap" /\ UNCHANGED <<gitVars, inv, history, verdict>>
    BY <1>4 DEF bootstrap_iac_binary
  <2>2. Ends(e, "failed", TRUE) \/ \E w \in Permitted : Proceeds(e, w)
    BY <1>4 DEF bootstrap_iac_binary, Permitted
  <2> QED  BY <1>b, <2>1, <2>2
<1>5. CASE CacheHit(e)
  <2>1. Joined(e) /\ task[e] = "cached" /\ UNCHANGED <<gitVars, inv, history, verdict>>
    BY <1>5 DEF CacheHit
  <2>2. PICK w \in {"copy", "apply"} : Proceeds(e, w)
    BY <1>5 DEF CacheHit, Proceeds
  <2>3. w \in Permitted
    BY DEF Permitted
  <2> QED  BY <1>b, <2>1, <2>2, <2>3
<1>6. CASE ScpEnds(e)
  <2>1. Joined(e) /\ task[e] = "scp" /\ UNCHANGED <<gitVars, inv, history, verdict>>
    BY <1>6 DEF ScpEnds
  <2>2. Ends(e, "failed", TRUE) \/ \E w \in Permitted : Proceeds(e, w)
    BY <1>6 DEF ScpEnds, Permitted
  <2> QED  BY <1>b, <2>1, <2>2
<1>7. CASE Chmod(e)
  <2>1. Joined(e) /\ task[e] = "chmod" /\ UNCHANGED <<gitVars, inv, history, verdict>>
    BY <1>7 DEF Chmod
  <2>2. Ends(e, "failed", TRUE) \/ \E w \in Permitted : Proceeds(e, w)
    BY <1>7 DEF Chmod, Permitted
  <2> QED  BY <1>b, <2>1, <2>2
<1>8. CASE SshStarts(e)
  <2>1. Joined(e) /\ task[e] = "apply" /\ UNCHANGED <<gitVars, inv, history, verdict>>
    BY <1>8 DEF SshStarts
  <2>2. \/ Ends(e, "failed", TRUE) \/ Ends(e, "failed", FALSE)
        \/ \E w \in Permitted : Proceeds(e, w)
    BY <1>8 DEF SshStarts, Permitted
  <2> QED  BY <1>b, <2>1, <2>2
<1>9. CASE \E x \in BOOLEAN : ScpBegins(e, x)
  <2>0. PICK x \in BOOLEAN : ScpBegins(e, x)
    BY <1>9
  <2>1. Joined(e) /\ task[e] = "copy" /\ UNCHANGED <<gitVars, inv, history, verdict>>
    BY <2>0 DEF ScpBegins
  <2>2. Ends(e, "failed", TRUE) \/ \E w \in Permitted : Proceeds(e, w)
    <3>1. Ends(e, "failed", TRUE) \/ Proceeds(e, "scp")
      BY <2>0 DEF ScpBegins
    <3> QED  BY <3>1 DEF Permitted
  <2> QED  BY <1>b, <2>1, <2>2
<1>10. CASE ConnectionLost(e)
  <2>1. /\ Joined(e) /\ task[e] = "running" /\ UNCHANGED <<gitVars, inv, history, verdict>>
        /\ task' = [task EXCEPT ![e] = "orphan"]
    BY <1>10 DEF ConnectionLost
  <2>2. outcome' = [outcome EXCEPT ![e] = "failed"]
    BY <1>10 DEF ConnectionLost, Kept
  <2>3. aborted' = aborted \/ aborted' = aborted \union {Of[e]}
    BY <1>10 DEF ConnectionLost, RaisedBy
  <2>4. \E w \in {"skipped", "waiting", "orphan", "ended"} \union Permitted,
              o \in {"none", "succeeded", "partial", "failed", "error"} :
          /\ task' = [task EXCEPT ![e] = w] /\ w = "orphan"
          /\ outcome' = [outcome EXCEPT ![e] = o] /\ o = "failed"
          /\ aborted' = aborted \/ (aborted' = aborted \union {Of[e]} /\ o \in {"failed", "error"})
    BY <2>1, <2>2, <2>3
  <2>5. /\ verdict' \in [Entry -> {"none", "succeeded", "partial", "failed"}]
        /\ \A d \in Entry \ {e} : verdict'[d] = verdict[d]
    BY <2>1, <1>a
  <2> QED  BY <2>1, <2>4, <2>5, TaskMoves
<1>11. CASE \E v \in Verdicts(Of[e]) : SshEnds(e, v)
  <2>0. PICK v \in Verdicts(Of[e]) : SshEnds(e, v)
    BY <1>11
  <2>1. Joined(e) /\ task[e] = "running" /\ UNCHANGED <<gitVars, inv, history>>
    BY <2>0 DEF SshEnds
  <2>2. /\ v \in {"succeeded", "partial", "failed"}
        /\ Job[Of[e]].kind = "run" => v # "partial"
    BY DEF Verdicts
  <2>3. /\ verdict' \in [Entry -> {"none", "succeeded", "partial", "failed"}]
        /\ \A d \in Entry \ {e} : verdict'[d] = verdict[d]
        /\ verdict'[e] = v
    BY <2>0, <2>2, <1>a DEF SshEnds
  <2>4. CASE Ends(e, v, FALSE)
    BY <2>1, <2>2, <2>3, <2>4, TaskEnds
  <2>5. CASE Job[Of[e]].kind # "run" /\ Ends(e, "partial", FALSE)
    BY <2>1, <2>2, <2>3, <2>5, TaskEnds
  <2> QED  BY <2>0, <2>4, <2>5 DEF SshEnds
<1> QED  BY <1>1, <1>2, <1>3, <1>4, <1>5, <1>6, <1>7, <1>8, <1>9, <1>10, <1>11

\* Lines of run-history are about commands that are over, which stay so.
LEMMA HistoryKept ==
  ASSUME CliInv, NEW c \in Cmd, ~At(c, "over"), \A d \in Cmd \ {c} : inv'[d] = inv[d],
         NEW i \in DOMAIN history
  PROVE  /\ inv'[history[i].command].at = "over"
         /\ history[i].failed_count = 0 <=> inv'[history[i].command].exit = 0
<1>1. history[i].command \in Cmd
  BY HistoryRows DEF CliInv
<1>2. inv[history[i].command].at = "over"
  BY DEF CliInv, HistoryInv, At
<1>3. inv'[history[i].command] = inv[history[i].command]
  BY <1>1, <1>2 DEF At
<1> QED  BY <1>2, <1>3 DEF CliInv, HistoryInv

\* The tasks of a fan-out begin.
LEMMA SpawnStep ==
  ASSUME CliInv, NEW c \in Cmd, Spawn(c)
  PROVE  CliInv'
<1> USE CliConstants DEF CliInv
<1>0. UNCHANGED <<remote, cache, fetched, mixed, inv, aborted, outcome, verdict, history>>
  BY DEF Spawn, gitVars
<1>1. /\ At(c, "fanout")
      /\ \A e \in resolve(c) : task[e] = "none" /\ task'[e] = "spawned"
      /\ \A e \in Entry \ resolve(c) : task'[e] = task[e]
  BY DEF Spawn
<1>2. CliTypeOK'
  <2>1. task' \in [Entry -> {"none", "spawned", "skipped", "waiting", "orphan", "ended"} \union Permitted]
    BY DEF CliTypeOK, Spawn
  <2> QED  BY <1>0, <2>1 DEF CliTypeOK
<1>3. GitInv'
  BY <1>0 DEF GitInv, GitOK, At
<1>4. TaskInv'
  <2> SUFFICES ASSUME NEW e \in Entry PROVE TaskOK(e)'
    BY DEF TaskInv
  <2>1. TaskOK(e)
    BY DEF TaskInv
  <2>2. CASE e \in resolve(c)
    <3>1. Of[e] = c /\ task[e] = "none" /\ task'[e] = "spawned"
      BY <2>2, <1>1
    <3> QED  BY <2>1, <2>2, <3>1, <1>0, <1>1 DEF TaskOK, Joined, At
  <2>3. CASE e \notin resolve(c)
    BY <2>1, <2>3, <1>0, <1>1 DEF TaskOK, Joined, At
  <2> QED  BY <2>2, <2>3
<1>5. AbortInv'
  BY <1>0 DEF AbortInv
<1>6. ExitInv'
  <2> SUFFICES ASSUME NEW d \in Cmd, inv[d].exit = 0, Job[d].kind # "plan", NEW e \in resolve(d)
               PROVE  task'[e] = "ended" /\ outcome[e] = "succeeded"
    BY <1>0 DEF ExitInv, At
  <2>1. task[e] = "ended" /\ outcome[e] = "succeeded" /\ e \in Entry
    BY DEF ExitInv
  <2> QED  BY <2>1, <1>1
<1>7. HistoryInv'
  BY <1>0 DEF HistoryInv, At
<1> QED  BY <1>2, <1>3, <1>4, <1>5, <1>6, <1>7

\* What a broken connection left running ends.
LEMMA OrphanStep ==
  ASSUME CliInv, NEW e \in Entry, NEW v \in Verdicts(Of[e]), OrphanEnds(e, v)
  PROVE  CliInv'
<1> USE CliConstants DEF CliInv
<1>0. UNCHANGED <<remote, cache, fetched, mixed, inv, aborted, outcome, history>>
  BY DEF OrphanEnds, gitVars
<1>v. v \in {"succeeded", "partial", "failed"}
  BY DEF Verdicts
<1>1. /\ task[e] = "orphan" /\ task'[e] = "ended"
      /\ \A d \in Entry \ {e} : task'[d] = task[d] /\ verdict'[d] = verdict[d]
      /\ task' \in [Entry -> {"none", "spawned", "skipped", "waiting", "orphan", "ended"} \union Permitted]
      /\ verdict' \in [Entry -> {"none", "succeeded", "partial", "failed"}]
  BY <1>v DEF OrphanEnds, StepsTo, CliTypeOK
<1>2. CliTypeOK'
  BY <1>0, <1>1 DEF CliTypeOK
<1>3. GitInv'
  BY <1>0 DEF GitInv, GitOK, At
<1>4. TaskInv'
  <2> SUFFICES ASSUME NEW d \in Entry PROVE TaskOK(d)'
    BY DEF TaskInv
  <2>1. TaskOK(d)
    BY DEF TaskInv
  <2>2. CASE d = e
    BY <2>1, <2>2, <1>0, <1>1 DEF TaskOK, Joined, At
  <2>3. CASE d # e
    BY <2>1, <2>3, <1>0, <1>1 DEF TaskOK, Joined, At
  <2> QED  BY <2>2, <2>3
<1>5. AbortInv'
  BY <1>0 DEF AbortInv
<1>6. ExitInv'
  <2> SUFFICES ASSUME NEW d \in Cmd, inv[d].exit = 0, Job[d].kind # "plan", NEW f \in resolve(d)
               PROVE  task'[f] = "ended" /\ outcome[f] = "succeeded"
    BY <1>0 DEF ExitInv, At
  <2>1. task[f] = "ended" /\ outcome[f] = "succeeded" /\ f \in Entry
    BY DEF ExitInv
  <2> QED  BY <2>1, <1>1
<1>7. HistoryInv'
  BY <1>0 DEF HistoryInv, At
<1> QED  BY <1>2, <1>3, <1>4, <1>5, <1>6, <1>7

\* What the exit code of a fan-out says of its outcomes.
LEMMA ExitCodeIs ==
  ASSUME NEW c \in Cmd
  PROVE  /\ ExitCode(c) \in {0, 1, 4, 5}
         /\ ExitCode(c) = 0 <=> \A e \in resolve(c) : outcome[e] \notin {"error", "failed", "partial"}
<1>1. ExitCode(c) = 0 <=> Outcomes(c, "error") = {} /\ Outcomes(c, "failed") = {} /\ Outcomes(c, "partial") = {}
  BY DEF ExitCode
<1>2. \A s : Outcomes(c, s) = {} <=> \A e \in resolve(c) : outcome[e] # s
  BY DEF Outcomes
<1>3. ExitCode(c) \in {0, 1, 4, 5}
  BY DEF ExitCode
<1> QED  BY <1>1, <1>2, <1>3

\* What the line of a run says of them.
LEMMA RunRecordIs ==
  ASSUME NEW c \in Cmd
  PROVE  /\ RunRecord(c) \in [command : Cmd, host_count : Nat, ok_count : Nat, failed_count : Nat]
         /\ RunRecord(c).command = c
         /\ RunRecord(c).failed_count = 0 <=> \A e \in resolve(c) : outcome[e] # "failed"
<1>1. \A S \in SUBSET Entry : /\ Cardinality(S) \in Nat
                              /\ Cardinality(S) = 0 <=> S = {}
  <2> SUFFICES ASSUME NEW S \in SUBSET Entry
               PROVE  Cardinality(S) \in Nat /\ (Cardinality(S) = 0 <=> S = {})
    OBVIOUS
  <2>1. IsFiniteSet(S)
    BY CliConstants, FS_Subset
  <2> QED  BY <2>1, FS_CardinalityType, FS_EmptySet
<1>2. /\ {e \in resolve(c) : outcome[e] # "none"} \subseteq Entry
      /\ Outcomes(c, "succeeded") \subseteq Entry /\ Outcomes(c, "failed") \subseteq Entry
  BY CliConstants DEF Outcomes
<1>3. Outcomes(c, "failed") = {} <=> \A e \in resolve(c) : outcome[e] # "failed"
  BY DEF Outcomes
<1> QED  BY <1>1, <1>2, <1>3 DEF RunRecord

\* A fan-out ends, with an exit code and a line of history.
LEMMA LeavesStep ==
  ASSUME CliInv, NEW c \in Cmd, Leaves(c)
  PROVE  CliInv'
<1> USE CliConstants DEF CliInv
<1> DEFINE x == IF resolve(c) = {} THEN 1 ELSE ExitCode(c)
<1>0. /\ UNCHANGED <<remote, cache, fetched, mixed, aborted, task, outcome, verdict>>
      /\ At(c, "fanout")
      /\ \A e \in resolve(c) : task[e] \in {"ended", "skipped", "orphan"}
  BY DEF Leaves, gitVars, sshVars
<1>x. x \in {0, 1, 4, 5}
  BY ExitCodeIs
<1>m. Moved(c, "over", x, inv[c].sha, inv[c].loaded)
  <2>1. inv' = [inv EXCEPT ![c].at = "over", ![c].exit = x]
    BY DEF Leaves
  <2>2. "over" \in Place /\ x \in Code /\ 0 \in Found
    BY <1>x DEF Place, Code, Found
  <2> QED  BY <2>1, <2>2, MovedBy
<1>1. /\ inv' \in [Cmd -> [at : Place, exit : Code, sha : Found, loaded : Found]]
      /\ \A d \in Cmd \ {c} : inv'[d] = inv[d]
      /\ inv'[c].at = "over" /\ inv'[c].exit = x /\ inv'[c].loaded = inv[c].loaded
  BY <1>m DEF Moved
<1> HIDE DEF x
\* With 0, every host has been worked on with success.
<1>s. x = 0 => \A e \in resolve(c) : task[e] = "ended" /\ outcome[e] = "succeeded"
  <2> SUFFICES ASSUME x = 0, NEW e \in resolve(c)
               PROVE  task[e] = "ended" /\ outcome[e] = "succeeded"
    OBVIOUS
  <2>1. \A d \in resolve(c) : outcome[d] \notin {"error", "failed", "partial"}
    BY ExitCodeIs DEF x
  <2>2. e \in Entry /\ Of[e] = c /\ TaskOK(e)
    BY DEF TaskInv
  <2>3. c \notin aborted
    BY <2>1 DEF AbortInv
  <2>4. task[e] # "skipped" /\ task[e] # "orphan"
    BY <2>1, <2>2, <2>3, <1>0 DEF TaskOK, Joined
  <2>5. task[e] = "ended" /\ outcome[e] # "none"
    BY <2>2, <2>4, <1>0 DEF TaskOK, Joined
  <2> QED  BY <2>1, <2>2, <2>5 DEF CliTypeOK
<1>h. \/ history' = history
      \/ Job[c].kind = "run" /\ resolve(c) # {} /\ history' = Append(history, RunRecord(c))
  BY DEF Leaves
<1>2. CliTypeOK'
  <2> DEFINE Row == [command : Cmd, host_count : Nat, ok_count : Nat, failed_count : Nat]
  <2>1. history \in Seq(Row) /\ RunRecord(c) \in Row
    BY RunRecordIs DEF CliTypeOK
  <2>2. history' \in Seq(Row)
    <3> HIDE DEF Row
    <3> QED  BY <2>1, <1>h
  <2> QED  BY <1>0, <1>1, <2>2 DEF CliTypeOK
<1>3. GitInv'
  <2> SUFFICES ASSUME NEW d \in Cmd, Job[d].kind # "run", d \notin mixed PROVE GitOK(d)'
    BY <1>0 DEF GitInv
  <2>1. GitOK(d)
    BY DEF GitInv
  <2>2. CASE d = c
    BY <2>1, <2>2, <1>0, <1>1 DEF GitOK, At
  <2>3. CASE d # c
    BY <2>1, <2>3, <1>0, <1>1 DEF GitOK, At
  <2> QED  BY <2>2, <2>3
<1>4. TaskInv'
  <2> SUFFICES ASSUME NEW e \in Entry PROVE TaskOK(e)'
    BY DEF TaskInv
  <2>1. TaskOK(e) /\ Of[e] \in Cmd
    BY DEF TaskInv
  <2>2. CASE Of[e] = c
    BY <2>1, <2>2, <1>0, <1>1 DEF TaskOK, Joined, At
  <2>3. CASE Of[e] # c
    <3>1. inv'[Of[e]] = inv[Of[e]]
      BY <2>1, <2>3, <1>1
    <3> QED  BY <2>1, <3>1, <1>0 DEF TaskOK, Joined, At
  <2> QED  BY <2>2, <2>3
<1>5. AbortInv'
  BY <1>0 DEF AbortInv
<1>6. ExitInv'
  <2> SUFFICES ASSUME NEW d \in Cmd
               PROVE  /\ inv'[d].at # "over" => inv'[d].exit = Unset
                      /\ Job[d].kind = "plan" => inv'[d].at # "fanout"
                      /\ inv'[d].exit = 0 /\ Job[d].kind # "plan" =>
                           \A e \in resolve(d) : task[e] = "ended" /\ outcome[e] = "succeeded"
    BY <1>0 DEF ExitInv, At
  <2>1. CASE d = c
    BY <2>1, <1>1, <1>s
  <2>2. CASE d # c
    BY <2>2, <1>1 DEF ExitInv, At
  <2> QED  BY <2>1, <2>2
<1>7. HistoryInv'
  <2> SUFFICES ASSUME NEW i \in DOMAIN history'
               PROVE  /\ inv'[history'[i].command].at = "over"
                      /\ history'[i].failed_count = 0 <=> inv'[history'[i].command].exit = 0
    BY DEF HistoryInv, At
  <2>1. CASE i \in DOMAIN history /\ history'[i] = history[i]
    <3>1. ~At(c, "over") /\ \A d \in Cmd \ {c} : inv'[d] = inv[d]
      BY <1>0, <1>1 DEF At
    <3> QED  BY <2>1, <3>1, HistoryKept
  <2>2. CASE Job[c].kind = "run" /\ resolve(c) # {} /\ history'[i] = RunRecord(c)
    <3>1. \A e \in resolve(c) : outcome[e] \notin {"error", "partial"}
      BY <2>2 DEF TaskInv, TaskOK
    <3>2. x = 0 <=> \A e \in resolve(c) : outcome[e] # "failed"
      BY <2>2, <3>1, ExitCodeIs DEF x
    <3> QED  BY <2>2, <3>2, <1>1, RunRecordIs
  <2>3. \/ i \in DOMAIN history /\ history'[i] = history[i]
        \/ Job[c].kind = "run" /\ resolve(c) # {} /\ history'[i] = RunRecord(c)
    <3> DEFINE Row == [command : Cmd, host_count : Nat, ok_count : Nat, failed_count : Nat]
    <3>1. history \in Seq(Row) /\ RunRecord(c) \in Row
      BY RunRecordIs DEF CliTypeOK
    <3> HIDE DEF Row
    <3> QED  BY <3>1, <1>h
  <2> QED  BY <2>1, <2>2, <2>3
<1> QED  BY <1>2, <1>3, <1>4, <1>5, <1>6, <1>7

\* The operator stops a command.
LEMMA InterruptStep ==
  ASSUME CliInv, NEW c \in Cmd, Interrupt(c)
  PROVE  CliInv'
<1> USE CliConstants DEF CliInv
<1>0. /\ UNCHANGED <<remote, cache, fetched, mixed, aborted, outcome, verdict, history>>
      /\ ~At(c, "over")
  BY DEF Interrupt, gitVars, At
<1>m. Moved(c, "over", 130, inv[c].sha, inv[c].loaded)
  <2>1. inv' = [inv EXCEPT ![c].at = "over", ![c].exit = 130]
    BY DEF Interrupt
  <2>2. "over" \in Place /\ 130 \in Code /\ 0 \in Found
    BY DEF Place, Code, Found
  <2> QED  BY <2>1, <2>2, MovedBy
<1>1. /\ inv' \in [Cmd -> [at : Place, exit : Code, sha : Found, loaded : Found]]
      /\ \A d \in Cmd \ {c} : inv'[d] = inv[d]
      /\ inv'[c].at = "over" /\ inv'[c].exit = 130
  BY <1>m DEF Moved
<1>k. /\ \A e \in Entry : Of[e] # c => task'[e] = task[e]
      /\ \A e \in Entry : Of[e] = c => \/ task'[e] = "ended"
                                       \/ task'[e] = "orphan" /\ task[e] \in {"orphan", "running"}
  BY DEF Interrupt
<1>2. CliTypeOK'
  <2>1. task' \in [Entry -> {"none", "spawned", "skipped", "waiting", "orphan", "ended"} \union Permitted]
    BY DEF Interrupt, CliTypeOK
  <2> QED  BY <1>0, <1>1, <2>1 DEF CliTypeOK
<1>3. GitInv'
  <2> SUFFICES ASSUME NEW d \in Cmd, Job[d].kind # "run", d \notin mixed PROVE GitOK(d)'
    BY <1>0 DEF GitInv
  <2>1. GitOK(d)
    BY DEF GitInv
  <2>2. CASE d = c
    BY <2>2, <1>1 DEF GitOK, At
  <2>3. CASE d # c
    BY <2>1, <2>3, <1>0, <1>1 DEF GitOK, At
  <2> QED  BY <2>2, <2>3
<1>4. TaskInv'
  <2> SUFFICES ASSUME NEW e \in Entry PROVE TaskOK(e)'
    BY DEF TaskInv
  <2>1. TaskOK(e) /\ Of[e] \in Cmd
    BY DEF TaskInv
  <2>2. CASE Of[e] = c
    BY <2>1, <2>2, <1>0, <1>1, <1>k DEF TaskOK, Joined, At
  <2>3. CASE Of[e] # c
    <3>1. inv'[Of[e]] = inv[Of[e]] /\ task'[e] = task[e]
      BY <2>1, <2>3, <1>1, <1>k
    <3> QED  BY <2>1, <3>1, <1>0 DEF TaskOK, Joined, At
  <2> QED  BY <2>2, <2>3
<1>5. AbortInv'
  BY <1>0 DEF AbortInv
<1>6. ExitInv'
  <2> SUFFICES ASSUME NEW d \in Cmd
               PROVE  /\ inv'[d].at # "over" => inv'[d].exit = Unset
                      /\ Job[d].kind = "plan" => inv'[d].at # "fanout"
                      /\ inv'[d].exit = 0 /\ Job[d].kind # "plan" =>
                           \A e \in resolve(d) : task'[e] = "ended" /\ outcome[e] = "succeeded"
    BY <1>0 DEF ExitInv, At
  <2>1. CASE d = c
    BY <2>1, <1>1
  <2>2. CASE d # c
    <3>1. \A e \in resolve(d) : task'[e] = task[e]
      BY <2>2, <1>k
    <3> QED  BY <2>2, <3>1, <1>1 DEF ExitInv, At
  <2> QED  BY <2>1, <2>2
<1>7. HistoryInv'
  BY <1>0, <1>1, HistoryKept DEF HistoryInv, At
<1> QED  BY <1>2, <1>3, <1>4, <1>5, <1>6, <1>7

\* Somebody pushes.
LEMMA PushStep ==
  ASSUME CliInv, NEW r \in DOMAIN remote, PushedTo(r)
  PROVE  CliInv'
<1> USE DEF CliInv
<1>1. UNCHANGED <<cache, fetched, mixed, inv, aborted, task, outcome, verdict, history>>
  BY DEF PushedTo, sshVars
<1>2. remote' \in [{Job[c].ref : c \in Cmd} -> Commit]
  BY DEF PushedTo, CliTypeOK
<1>3. CliTypeOK'
  BY <1>1, <1>2 DEF CliTypeOK
<1>4. GitInv' /\ TaskInv' /\ AbortInv' /\ ExitInv' /\ HistoryInv'
  BY <1>1 DEF GitInv, GitOK, TaskInv, TaskOK, Joined, AbortInv, ExitInv, HistoryInv, At
<1> QED  BY <1>3, <1>4

\* Every step keeps the invariant.
LEMMA CliStep == CliInv /\ [CommandLineNext]_cliVars => CliInv'
<1> SUFFICES ASSUME CliInv, [CommandLineNext]_cliVars PROVE CliInv'
  OBVIOUS
<1>1. ASSUME NEW c \in Cmd,
             \/ GitFails(c) \/ LooksForClone(c) \/ GitInit(c) \/ RemoteAdd(c)
             \/ Fetch(c) \/ RevParse(c) \/ Checkout(c) \/ LoadManifests(c)
      PROVE  CliInv'
  BY <1>1, GitSteps
<1>2. ASSUME NEW c \in Cmd, Spawn(c) \/ Leaves(c) \/ Interrupt(c)
      PROVE  CliInv'
  BY <1>2, SpawnStep, LeavesStep, InterruptStep
<1>3. ASSUME NEW e \in Entry,
             \/ LooksAtFlag(e) \/ GetsPermit(e) \/ probe_remote_iac(e) \/ bootstrap_iac_binary(e)
             \/ CacheHit(e) \/ ScpEnds(e) \/ Chmod(e) \/ SshStarts(e) \/ ConnectionLost(e)
             \/ \E x \in BOOLEAN : ScpBegins(e, x)
             \/ \E v \in Verdicts(Of[e]) : SshEnds(e, v)
      PROVE  CliInv'
  BY <1>3, TaskSteps
<1>4. ASSUME NEW e \in Entry, NEW v \in Verdicts(Of[e]), OrphanEnds(e, v)
      PROVE  CliInv'
  BY <1>4, OrphanStep
<1>5. ASSUME NEW r \in DOMAIN remote, PushedTo(r)
      PROVE  CliInv'
  BY <1>5, PushStep
<1>6. CASE UNCHANGED cliVars
  <2>1. UNCHANGED <<remote, cache, fetched, mixed, inv, aborted, task, outcome, verdict, history>>
    BY <1>6 DEF cliVars
  <2> QED  BY <2>1 DEF CliInv, CliTypeOK, GitInv, GitOK, TaskInv, TaskOK, Joined, AbortInv,
                         ExitInv, HistoryInv, At
<1>7. CASE CommandLineNext
  BY <1>7, <1>1, <1>2, <1>3, <1>4, <1>5 DEF CommandLineNext
<1> QED  BY <1>6, <1>7

\* The invariant of the command line.
LEMMA CliInvariant == CommandLineSpec => []CliInv
<1>1. CommandLineInit => CliInv
  BY CliInitial
<1>2. CliInv /\ [CommandLineNext]_cliVars => CliInv'
  BY CliStep
<1> QED  BY <1>1, <1>2, PTL DEF CommandLineSpec

\* Which says that exit codes and run-history are true.
LEMMA ExitCodeFollows == CliInv => ExitCodeIsTrue
<1> SUFFICES ASSUME CliInv PROVE ExitCodeIsTrue
  OBVIOUS
<1> USE CliConstants DEF CliInv
<1>1. ASSUME NEW c \in Cmd, inv[c].exit = 0, Job[c].kind # "plan"
      PROVE  /\ \A e \in resolve(c) : verdict[e] = "succeeded"
             /\ Job[c].kind # "run" /\ c \notin mixed => inv[c].loaded = fetched[c]
  <2>1. \A e \in resolve(c) : e \in Entry /\ outcome[e] = "succeeded"
    BY <1>1 DEF ExitInv
  <2>2. \A e \in resolve(c) : verdict[e] = "succeeded"
    BY <2>1 DEF TaskInv, TaskOK
  <2>3. Job[c].kind # "run" /\ c \notin mixed => GitOK(c)
    BY DEF GitInv
  <2> QED  BY <1>1, <2>2, <2>3 DEF GitOK
<1>2. \A i \in DOMAIN history :
        history[i].failed_count = 0 <=> inv[history[i].command].exit = 0
  BY DEF HistoryInv
<1> QED  BY <1>1, <1>2 DEF ExitCodeIsTrue

(***************************************************************************)
(* The command line with a server.                                         *)
(*                                                                         *)
(* SavedTokenWorks speaks of moments when nobody has the store. FreshInv   *)
(* follows a token from the answer that brings it to the file: until then  *)
(* it is nowhere else, so nobody else can revoke or exchange it. AloneInv  *)
(* and SavedInv are what holds as long as commands had the store one after *)
(* the other: the file is what the command has loaded, and the token in it *)
(* is accepted or about to be replaced. WhereOK says which command can be  *)
(* where.                                                                  *)
(***************************************************************************)
Held(n) == 1..n \union {NoToken}
Stages == {"start", "load", "refresh", "save", "revoke", "validate", "submit", "poll", "over"}
Codes == {NoToken, 0, 1, 4, 5}
Statuses == {"none", "pending_approval", "pending", "rejected", "running",
             "succeeded", "failed", "partially_applied"}
Caller(n) == [token : Held(n), at : Stages, exit : Codes, store : [Servers -> Held(n)]]

ClientTypeOK ==
  /\ turns \in Nat /\ misses \in Nat /\ overlapped \in BOOLEAN
  /\ live \in [Servers -> SUBSET (1..turns)]
  /\ creds \in [Servers -> Held(turns)]
  /\ caller \in [Client -> Caller(turns)]
  /\ status \in [Client -> Statuses]

\* Which command can be where, and with what.
WhereOK(c) ==
  /\ ~Reached(c, "over") => caller[c].exit = NoToken
  /\ caller[c].at \notin {"poll", "over"} => status[c] = "none"
  /\ Reached(c, "load") => Does(c, "login")
  /\ caller[c].at \in {"refresh", "validate", "submit", "poll"} => Does(c, "apply")
  /\ Reached(c, "revoke") => Does(c, "logout")
  /\ Reached(c, "refresh") \/ (Reached(c, "save") /\ Does(c, "logout")) =>
       caller[c].token = caller[c].store[Target(c)]

\* c has been given a token that is nowhere else yet.
Fresh(c) ==
  \/ Does(c, "login") /\ caller[c].at \in {"load", "save"}
  \/ Does(c, "apply") /\ Reached(c, "save")

FreshOK(c) ==
  /\ caller[c].token \in live[Target(c)]
  /\ \A s \in Servers : creds[s] # caller[c].token
  /\ \A d \in Client : /\ \A s \in Servers : caller[d].store[s] # caller[c].token
                       /\ d # c => caller[d].token # caller[c].token

FreshInv == \A c \in Client : Fresh(c) => FreshOK(c)

\* As long as no two commands had the store at a time.
AloneInv ==
  ~overlapped =>
    /\ \A c, d \in Client : Loaded(c) /\ Loaded(d) => c = d
    /\ \A c \in Client : Loaded(c) => caller[c].store = creds
    /\ \A c \in Client : Reached(c, "revoke") /\ caller[c].token # NoToken =>
         creds[Target(c)] # caller[c].token

SavedInv ==
  misses = 0 /\ ~overlapped =>
    \A s \in Servers :
      \/ creds[s] = NoToken \/ creds[s] \in live[s]
      \/ \E c \in Client : Does(c, "apply") /\ Reached(c, "save") /\ Target(c) = s

ClientInv ==
  /\ ClientTypeOK /\ \A c \in Client : WhereOK(c)
  /\ FreshInv /\ AloneInv /\ SavedInv /\ WaitExit

\* What the assumptions say of the constants.
LEMMA ClientConstants ==
  /\ NoToken \notin Nat /\ 0 # NoToken /\ 1 # NoToken /\ 4 # NoToken /\ 5 # NoToken
  /\ \A c \in Client : Target(c) \in Servers /\ Order[c].kind \in {"login", "logout", "apply"}
<1>1. NoToken \notin Nat /\ \A c \in Client : Order[c].kind \in {"login", "logout", "apply"}
  BY ServerClientAssumption
<1> QED  BY <1>1 DEF Servers, Target

\* Nobody has logged in.
LEMMA ClientInitial == ServerClientInit => ClientInv
<1> SUFFICES ASSUME ServerClientInit PROVE ClientInv
  OBVIOUS
<1> USE ClientConstants DEF ServerClientInit
<1>1. /\ turns = 0 /\ misses = 0 /\ overlapped = FALSE
      /\ \A s \in Servers : creds[s] = NoToken /\ live[s] = {}
      /\ \A c \in Client : /\ caller[c].at = "start" /\ caller[c].exit = NoToken
                           /\ status[c] = "none"
  OBVIOUS
<1>2. ClientTypeOK
  <2>1. creds \in [Servers -> Held(turns)] /\ live \in [Servers -> SUBSET (1..turns)]
    BY DEF Held
  <2>2. NoToken \in Held(turns) /\ "start" \in Stages /\ NoToken \in Codes
    BY DEF Held, Stages, Codes
  <2>3. caller \in [Client -> [token : Held(turns), at : Stages, exit : Codes, store : [Servers -> Held(turns)]]]
    BY <2>1, <2>2
  <2>4. status \in [Client -> Statuses]
    BY DEF Statuses
  <2>5. caller \in [Client -> Caller(turns)]
    BY <2>3 DEF Caller
  <2>6. turns \in Nat /\ misses \in Nat
    BY <1>1
  <2>7. overlapped \in BOOLEAN
    BY Zenon
  <2> QED  BY <2>1, <2>4, <2>5, <2>6, <2>7 DEF ClientTypeOK
<1>3. \A c \in Client : WhereOK(c)
  BY <1>1 DEF WhereOK, Reached
<1>4. FreshInv
  BY <1>1 DEF FreshInv, Fresh, Reached
<1>5. AloneInv
  BY <1>1 DEF AloneInv, Loaded, Reached
<1>6. SavedInv
  BY <1>1 DEF SavedInv
<1>7. WaitExit
  BY <1>1 DEF WaitExit
<1> QED  BY <1>2, <1>3, <1>4, <1>5, <1>6, <1>7 DEF ClientInv

\* A token that was issued later is none of those before.
LEMMA HeldIs ==
  ASSUME NEW n \in Nat, NEW m \in {n, n + 1}
  PROVE  /\ m \in Nat /\ 1..n \subseteq 1..m /\ Held(n) \subseteq Held(m)
         /\ \A t \in Held(n) : t # n + 1
         /\ n + 1 \in 1..(n + 1) /\ NoToken \in Held(n)
         /\ NoToken \notin 1..n
  BY ClientConstants DEF Held

\* A step of one command: its new place, exit code, token and store.
Called(c, w, x, t, st) ==
  /\ caller' \in [Client -> Caller(turns')]
  /\ \A d \in Client \ {c} : caller'[d] = caller[d]
  /\ caller'[c].at = w /\ caller'[c].exit = x /\ caller'[c].token = t /\ caller'[c].store = st

\* The types of what a command holds.
LEMMA CallerIs ==
  ASSUME ClientTypeOK, NEW c \in Client
  PROVE  /\ caller[c].token \in Held(turns) /\ caller[c].at \in Stages /\ caller[c].exit \in Codes
         /\ caller[c].store \in [Servers -> Held(turns)]
  BY DEF ClientTypeOK, Caller

Row(c, T, S, w, x, t, st) ==
  /\ caller' \in [Client -> [token : T, at : Stages, exit : Codes, store : S]]
  /\ \A d \in Client \ {c} : caller'[d] = caller[d]
  /\ caller'[c].at = w /\ caller'[c].exit = x /\ caller'[c].token = t /\ caller'[c].store = st

\* The four ways in which an action writes caller.
LEMMA AtSet ==
  ASSUME NEW T, NEW S, caller \in [Client -> [token : T, at : Stages, exit : Codes, store : S]],
         NEW c \in Client, NEW w \in Stages, NEW x \in Codes, NEW t \in T, NEW st \in S,
         caller' = [caller EXCEPT ![c].at = w]
  PROVE  Row(c, T, S, w, caller[c].exit, caller[c].token, caller[c].store)
  BY DEF Row

LEMMA OverSet ==
  ASSUME NEW T, NEW S, caller \in [Client -> [token : T, at : Stages, exit : Codes, store : S]],
         NEW c \in Client, NEW w \in Stages, NEW x \in Codes, NEW t \in T, NEW st \in S,
         caller' = [caller EXCEPT ![c].at = w, ![c].exit = x]
  PROVE  Row(c, T, S, w, x, caller[c].token, caller[c].store)
  BY DEF Row

LEMMA TokenSet ==
  ASSUME NEW T, NEW S, caller \in [Client -> [token : T, at : Stages, exit : Codes, store : S]],
         NEW c \in Client, NEW w \in Stages, NEW x \in Codes, NEW t \in T, NEW st \in S,
         caller' = [caller EXCEPT ![c].at = w, ![c].token = t]
  PROVE  Row(c, T, S, w, caller[c].exit, t, caller[c].store)
  BY DEF Row

LEMMA StoreSet ==
  ASSUME NEW T, NEW S, caller \in [Client -> [token : T, at : Stages, exit : Codes, store : S]],
         NEW c \in Client, NEW w \in Stages, NEW x \in Codes, NEW t \in T, NEW st \in S,
         caller' = [caller EXCEPT ![c].store = st, ![c].token = t, ![c].at = w]
  PROVE  Row(c, T, S, w, caller[c].exit, t, st)
  BY DEF Row

\* With the types at hand.
LEMMA CalledBy ==
  ASSUME ClientTypeOK, turns' \in {turns, turns + 1},
         NEW c \in Client, NEW w \in Stages, NEW x \in Codes, NEW t \in Held(turns'),
         NEW st \in [Servers -> Held(turns')]
  PROVE  /\ caller' = [caller EXCEPT ![c].at = w] => Called(c, w, caller[c].exit, caller[c].token, caller[c].store)
         /\ caller' = [caller EXCEPT ![c].at = w, ![c].exit = x] => Called(c, w, x, caller[c].token, caller[c].store)
         /\ caller' = [caller EXCEPT ![c].at = w, ![c].token = t] => Called(c, w, caller[c].exit, t, caller[c].store)
         /\ caller' = [caller EXCEPT ![c].store = st, ![c].token = t, ![c].at = w] => Called(c, w, caller[c].exit, t, st)
<1>1. Held(turns) \subseteq Held(turns')
  BY HeldIs DEF ClientTypeOK
<1>2. [Servers -> Held(turns)] \subseteq [Servers -> Held(turns')]
  BY <1>1
<1>3. caller \in [Client -> [token : Held(turns'), at : Stages, exit : Codes, store : [Servers -> Held(turns')]]]
  BY <1>1, <1>2 DEF ClientTypeOK, Caller
<1>4. PICK T, S : T = Held(turns') /\ S = [Servers -> Held(turns')]
  OBVIOUS
<1>5. caller \in [Client -> [token : T, at : Stages, exit : Codes, store : S]] /\ st \in S /\ t \in T
  BY <1>3, <1>4
<1>6. caller' = [caller EXCEPT ![c].at = w] => Row(c, T, S, w, caller[c].exit, caller[c].token, caller[c].store)
  BY <1>5, AtSet
<1>7. caller' = [caller EXCEPT ![c].at = w, ![c].exit = x] => Row(c, T, S, w, x, caller[c].token, caller[c].store)
  BY <1>5, OverSet
<1>8. caller' = [caller EXCEPT ![c].at = w, ![c].token = t] => Row(c, T, S, w, caller[c].exit, t, caller[c].store)
  BY <1>5, TokenSet
<1>9. caller' = [caller EXCEPT ![c].store = st, ![c].token = t, ![c].at = w] => Row(c, T, S, w, caller[c].exit, t, st)
  BY <1>5, StoreSet
<1>10. \A w2, x2, t2, st2 : Row(c, T, S, w2, x2, t2, st2) => Called(c, w2, x2, t2, st2)
  BY <1>4 DEF Called, Caller, Row
<1> QED  BY <1>6, <1>7, <1>8, <1>9, <1>10

\* A command moves on with the token and the store it has, and credentials.json
\* stays as it is. The server may take back the command's own token.
LEMMA QuietStep ==
  ASSUME ClientInv, NEW c \in Client, NEW w \in {"validate", "submit", "poll", "over"}, NEW x \in Codes,
         Called(c, w, x, caller[c].token, caller[c].store),
         ~Reached(c, "over"), w # "over" => x = NoToken /\ Does(c, "apply"),
         turns' \in {turns, turns + 1}, creds' = creds,
         overlapped' \in BOOLEAN, overlapped => overlapped',
         misses' \in {misses, misses + 1}, misses' = misses => ~Reached(c, "save"),
         live' \in [Servers -> SUBSET (1..turns')],
         \A s \in Servers : live'[s] \subseteq live[s] \union {turns + 1},
         \A s \in Servers : \A t \in live[s] :
           t \in live'[s] \/ (t = caller[c].token /\ ~Fresh(c)),
         misses' = 0 /\ ~overlapped' => \A s \in Servers : creds[s] \in live[s] => creds[s] \in live'[s],
         status' \in [Client -> Statuses], \A d \in Client \ {c} : status'[d] = status[d],
         w \notin {"poll", "over"} => status'[c] = "none",
         Does(c, "apply") => /\ x = 0 => status'[c] = "succeeded"
                             /\ x = 4 => status'[c] = "partially_applied"
                             /\ x = 1 /\ misses' = 0 =>
                                  status'[c] = "none" \/ caller[c].token \notin live'[Target(c)]
  PROVE  ClientInv'
<1> USE ClientConstants
<1>t. ClientTypeOK
  BY DEF ClientInv
<1>n. /\ turns \in Nat /\ misses \in Nat /\ turns' \in Nat /\ misses' \in Nat
      /\ Held(turns) \subseteq Held(turns')
      /\ \A d \in Client : caller[d].token # turns + 1
      /\ misses' = 0 => misses = 0
  <2>1. turns \in Nat /\ misses \in Nat
    BY <1>t DEF ClientTypeOK
  <2>2. \A d \in Client : caller[d].token \in Held(turns)
    BY <1>t, CallerIs
  <2> QED  BY <2>1, <2>2, HeldIs
<1>c. /\ caller' \in [Client -> Caller(turns')]
      /\ \A d \in Client \ {c} : caller'[d] = caller[d]
      /\ caller'[c].at = w /\ caller'[c].exit = x
      /\ \A d \in Client : caller'[d].token = caller[d].token /\ caller'[d].store = caller[d].store
  BY DEF Called
<1>f. ~Fresh(c)' /\ ~Loaded(c)' /\ ~Reached(c, "revoke")'
  BY <1>c DEF Fresh, Loaded, Reached
<1>g. \A d \in Client \ {c} : /\ Fresh(d)' <=> Fresh(d)
                              /\ Loaded(d)' <=> Loaded(d)
                              /\ Reached(d, "revoke")' <=> Reached(d, "revoke")
                              /\ Reached(d, "save")' <=> Reached(d, "save")
  BY <1>c DEF Fresh, Loaded, Reached
<1>1. ClientTypeOK'
  <2>1. creds' \in [Servers -> Held(turns')]
    BY <1>t, <1>n DEF ClientTypeOK
  <2> QED  BY <2>1, <1>n, <1>c DEF ClientTypeOK
<1>2. ASSUME NEW d \in Client PROVE WhereOK(d)'
  <2>1. CASE d = c
    BY <2>1, <1>c DEF WhereOK, Reached
  <2>2. CASE d # c
    BY <2>2, <1>c DEF WhereOK, Reached, ClientInv
  <2> QED  BY <2>1, <2>2
<1>3. FreshInv'
  <2> SUFFICES ASSUME NEW d \in Client, Fresh(d)' PROVE FreshOK(d)'
    BY DEF FreshInv
  <2>1. d # c /\ Fresh(d)
    BY <1>f, <1>g
  <2>2. FreshOK(d)
    BY <2>1 DEF ClientInv, FreshInv
  <2>3. caller[d].token \in live'[Target(d)]
    BY <2>1, <2>2 DEF FreshOK
  <2> QED  BY <2>2, <2>3, <1>c DEF FreshOK
<1>4. AloneInv'
  BY <1>c, <1>f, <1>g DEF ClientInv, AloneInv
<1>5. SavedInv'
  <2> SUFFICES ASSUME misses' = 0, ~overlapped', NEW s \in Servers
               PROVE  \/ creds[s] = NoToken \/ creds[s] \in live'[s]
                      \/ \E d \in Client : Does(d, "apply") /\ Reached(d, "save")' /\ Target(d) = s
    BY DEF SavedInv
  <2>1. \/ creds[s] = NoToken \/ creds[s] \in live[s]
        \/ \E d \in Client : Does(d, "apply") /\ Reached(d, "save") /\ Target(d) = s
    BY <1>n DEF ClientInv, SavedInv
  <2>2. ~Reached(c, "save")
    BY <1>n
  <2> QED  BY <2>1, <2>2, <1>g
<1>6. WaitExit'
  <2> SUFFICES ASSUME NEW d \in Client, Does(d, "apply")
               PROVE  /\ caller'[d].exit = 0 => status'[d] = "succeeded"
                      /\ caller'[d].exit = 4 => status'[d] = "partially_applied"
                      /\ caller'[d].exit = 1 /\ misses' = 0 =>
                           status'[d] = "none" \/ caller'[d].token \notin live'[Target(d)]
    BY DEF WaitExit, Accepted
  <2>1. CASE d = c
    BY <2>1, <1>c
  <2>2. CASE d # c
    BY <2>2, <1>c, <1>n DEF ClientInv, WaitExit, Accepted
  <2> QED  BY <2>1, <2>2
<1> QED  BY <1>1, <1>2, <1>3, <1>4, <1>5, <1>6 DEF ClientInv

\* A command that is given a token: login, and the exchange of one that is due.
LEMMA GivenStep ==
  ASSUME ClientInv, NEW c \in Client,
         \/ Reached(c, "start") /\ Does(c, "login") /\ Called(c, "load", NoToken, turns + 1, caller[c].store)
         \/ Reached(c, "refresh") /\ Called(c, "save", NoToken, turns + 1, caller[c].store),
         turns' = turns + 1, UNCHANGED <<creds, status, misses, overlapped>>,
         live' \in [Servers -> SUBSET (1..turns')],
         turns + 1 \in live'[Target(c)],
         \A s \in Servers : live'[s] \subseteq live[s] \union {turns + 1},
         \A s \in Servers : \A t \in live[s] :
           t \in live'[s] \/ (t = caller[c].token /\ s = Target(c) /\ Reached(c, "refresh"))
  PROVE  ClientInv'
<1> USE ClientConstants
<1>t. ClientTypeOK /\ WhereOK(c)
  BY DEF ClientInv
<1>n. /\ turns \in Nat /\ turns' \in Nat /\ Held(turns) \subseteq Held(turns')
      /\ \A t \in Held(turns) : t # turns + 1
      /\ \A d \in Client : /\ caller[d].token # turns + 1
                           /\ \A s \in Servers : caller[d].store[s] # turns + 1
      /\ \A s \in Servers : creds[s] # turns + 1
  <2>1. turns \in Nat
    BY <1>t DEF ClientTypeOK
  <2>2. /\ turns' \in Nat /\ Held(turns) \subseteq Held(turns')
        /\ \A t \in Held(turns) : t # turns + 1
    BY <2>1, HeldIs
  <2>3. \A d \in Client : /\ caller[d].token \in Held(turns)
                          /\ \A s \in Servers : caller[d].store[s] \in Held(turns)
    BY <1>t, CallerIs
  <2>4. \A s \in Servers : creds[s] \in Held(turns)
    BY <1>t DEF ClientTypeOK
  <2> QED  BY <2>1, <2>2, <2>3, <2>4
<1>c. /\ caller' \in [Client -> Caller(turns')]
      /\ \A d \in Client \ {c} : caller'[d] = caller[d]
      /\ \/ Reached(c, "start") /\ Does(c, "login") /\ caller'[c].at = "load"
         \/ Reached(c, "refresh") /\ Does(c, "apply") /\ caller'[c].at = "save"
      /\ caller'[c].exit = NoToken /\ caller'[c].token = turns + 1
      /\ \A d \in Client : caller'[d].store = caller[d].store
  BY <1>t DEF Called, WhereOK, Reached
<1>f. /\ ~Fresh(c) /\ ~Reached(c, "revoke")'
      /\ Loaded(c)' <=> Loaded(c)
  BY <1>c DEF Fresh, Loaded, Reached, Does
<1>g. \A d \in Client \ {c} : /\ Fresh(d)' <=> Fresh(d)
                              /\ Loaded(d)' <=> Loaded(d)
                              /\ Reached(d, "revoke")' <=> Reached(d, "revoke")
                              /\ Reached(d, "save")' <=> Reached(d, "save")
  BY <1>c DEF Fresh, Loaded, Reached
<1>1. ClientTypeOK'
  <2>1. creds' \in [Servers -> Held(turns')]
    BY <1>t, <1>n DEF ClientTypeOK
  <2> QED  BY <2>1, <1>t, <1>n, <1>c DEF ClientTypeOK
<1>2. ASSUME NEW d \in Client PROVE WhereOK(d)'
  <2>1. CASE d = c
    BY <2>1, <1>c, <1>t DEF WhereOK, Reached, Does
  <2>2. CASE d # c
    BY <2>2, <1>c DEF WhereOK, Reached, ClientInv
  <2> QED  BY <2>1, <2>2
<1>3. FreshInv'
  <2> SUFFICES ASSUME NEW d \in Client, Fresh(d)' PROVE FreshOK(d)'
    BY DEF FreshInv
  <2>1. CASE d = c
    BY <2>1, <1>c, <1>n DEF FreshOK
  <2>2. CASE d # c
    <3>1. FreshOK(d)
      BY <2>2, <1>g DEF ClientInv, FreshInv
    <3>2. caller[c].token # caller[d].token /\ caller'[d] = caller[d]
      BY <2>2, <3>1, <1>c DEF FreshOK
    <3>3. caller[d].token \in live'[Target(d)]
      BY <3>1, <3>2 DEF FreshOK
    <3>4. caller[d].token # turns + 1
      BY <1>n
    <3> QED  BY <3>1, <3>2, <3>3, <3>4, <1>c DEF FreshOK
  <2> QED  BY <2>1, <2>2
<1>4. AloneInv'
  <2> SUFFICES ASSUME ~overlapped
               PROVE  /\ \A a, b \in Client : Loaded(a)' /\ Loaded(b)' => a = b
                      /\ \A a \in Client : Loaded(a)' => caller'[a].store = creds
                      /\ \A a \in Client : Reached(a, "revoke")' /\ caller'[a].token # NoToken =>
                           creds[Target(a)] # caller'[a].token
    BY DEF AloneInv
  <2>1. /\ \A a, b \in Client : Loaded(a) /\ Loaded(b) => a = b
        /\ \A a \in Client : Loaded(a) => caller[a].store = creds
        /\ \A a \in Client : Reached(a, "revoke") /\ caller[a].token # NoToken =>
             creds[Target(a)] # caller[a].token
    BY DEF ClientInv, AloneInv
  <2>2. \A a, b \in Client : Loaded(a)' /\ Loaded(b)' => a = b
    BY <2>1, <1>f, <1>g
  <2>3. \A a \in Client : Loaded(a)' => caller'[a].store = creds
    BY <2>1, <1>f, <1>g, <1>c
  <2>4. ASSUME NEW a \in Client, Reached(a, "revoke")', caller'[a].token # NoToken
        PROVE  creds[Target(a)] # caller'[a].token
    <3>1. a # c
      BY <2>4, <1>f
    <3> QED  BY <2>1, <2>4, <3>1, <1>g, <1>c
  <2> QED  BY <2>2, <2>3, <2>4
<1>5. SavedInv'
  <2> SUFFICES ASSUME misses = 0, ~overlapped, NEW s \in Servers
               PROVE  \/ creds[s] = NoToken \/ creds[s] \in live'[s]
                      \/ \E d \in Client : Does(d, "apply") /\ Reached(d, "save")' /\ Target(d) = s
    BY DEF SavedInv
  <2>1. \/ creds[s] = NoToken \/ creds[s] \in live[s]
        \/ \E d \in Client : Does(d, "apply") /\ Reached(d, "save") /\ Target(d) = s
    BY DEF ClientInv, SavedInv
  <2>2. ~Reached(c, "save")
    BY <1>c DEF Reached
  <2>3. Reached(c, "refresh") => Does(c, "apply") /\ Reached(c, "save")'
    BY <1>c DEF Reached
  <2> QED  BY <2>1, <2>2, <2>3, <1>g
<1>6. WaitExit'
  <2> SUFFICES ASSUME NEW d \in Client, Does(d, "apply")
               PROVE  /\ caller'[d].exit = 0 => status[d] = "succeeded"
                      /\ caller'[d].exit = 4 => status[d] = "partially_applied"
                      /\ caller'[d].exit = 1 /\ misses = 0 =>
                           status[d] = "none" \/ caller'[d].token \notin live'[Target(d)]
    BY DEF WaitExit, Accepted
  <2>1. CASE d = c
    BY <2>1, <1>c
  <2>2. CASE d # c
    BY <2>2, <1>c, <1>n DEF ClientInv, WaitExit, Accepted
  <2> QED  BY <2>1, <2>2
<1> QED  BY <1>1, <1>2, <1>3, <1>4, <1>5, <1>6 DEF ClientInv

\* What the server does with its tokens when it issues one and takes one back.
LEMMA LiveIs ==
  ASSUME ClientTypeOK, NEW c \in Client, NEW T, T = {} \/ T = {caller[c].token},
         turns' = turns + 1,
         live' = [live EXCEPT ![Target(c)] = (@ \ T) \union {turns + 1}]
  PROVE  /\ live' \in [Servers -> SUBSET (1..turns')]
         /\ turns + 1 \in live'[Target(c)]
         /\ \A s \in Servers : live'[s] \subseteq live[s] \union {turns + 1}
         /\ \A s \in Servers : \A t \in live[s] :
              t \in live'[s] \/ (t \in T /\ s = Target(c))
<1>1. live \in [Servers -> SUBSET (1..turns)] /\ turns \in Nat /\ Target(c) \in Servers
  BY ClientConstants DEF ClientTypeOK
<1>2. 1..turns \subseteq 1..turns' /\ turns + 1 \in 1..turns'
  BY <1>1, HeldIs
<1>3. live'[Target(c)] = (live[Target(c)] \ T) \union {turns + 1}
  BY <1>1
<1>4. \A s \in Servers : s # Target(c) => live'[s] = live[s]
  BY <1>1
<1>5. live' \in [Servers -> SUBSET (1..turns')]
  <2>1. (live[Target(c)] \ T) \union {turns + 1} \in SUBSET (1..turns')
    BY <1>1, <1>2
  <2>2. live \in [Servers -> SUBSET (1..turns')]
    BY <1>1, <1>2
  <2> QED  BY <2>1, <2>2
<1> QED  BY <1>3, <1>4, <1>5

\* The places and exit codes there are.
LEMMA CodesAre ==
  /\ {0, 1, 4, 5, NoToken} \subseteq Codes
  /\ {"start", "load", "refresh", "save", "revoke", "validate", "submit", "poll", "over"} \subseteq Stages
BY DEF Codes, Stages

\* How a command that only moves moves.
LEMMA MovesBy ==
  ASSUME ClientTypeOK, turns' \in {turns, turns + 1}, NEW c \in Client, NEW w \in Stages
  PROVE  /\ MovesTo(c, w) => Called(c, w, caller[c].exit, caller[c].token, caller[c].store)
         /\ \A x \in Codes : Over(c, x) => Called(c, "over", x, caller[c].token, caller[c].store)
<1>1. caller[c].token \in Held(turns) /\ caller[c].store \in [Servers -> Held(turns)] /\ turns \in Nat
  BY CallerIs DEF ClientTypeOK
<1>2. caller[c].token \in Held(turns') /\ caller[c].store \in [Servers -> Held(turns')]
  BY <1>1, HeldIs
<1>3. 0 \in Codes /\ "over" \in Stages
  BY CodesAre
<1>4. MovesTo(c, w) => Called(c, w, caller[c].exit, caller[c].token, caller[c].store)
  BY <1>2, <1>3, CalledBy DEF MovesTo
<1>5. ASSUME NEW x \in Codes, Over(c, x)
      PROVE  Called(c, "over", x, caller[c].token, caller[c].store)
  BY <1>2, <1>3, <1>5, CalledBy DEF Over
<1> QED  BY <1>4, <1>5

\* A login is answered, refused or not answered.
LEMMA LoginStep ==
  ASSUME ClientInv, NEW c \in Client, login(c)
  PROVE  ClientInv'
<1> USE ClientConstants
<1>t. ClientTypeOK /\ WhereOK(c) /\ turns \in Nat /\ misses \in Nat
  BY DEF ClientInv, ClientTypeOK
<1>0. /\ Reached(c, "start") /\ Does(c, "login") /\ ~Does(c, "apply")
      /\ ~Reached(c, "over") /\ ~Reached(c, "save") /\ ~Reached(c, "refresh")
      /\ UNCHANGED <<creds, status, overlapped>>
  BY DEF login, Reached, Does
<1>r. /\ status \in [Client -> Statuses] /\ overlapped \in BOOLEAN
      /\ live \in [Servers -> SUBSET (1..turns)]
  BY <1>t DEF ClientTypeOK
<1>o. 1 \in Codes /\ "over" \in Stages
  BY CodesAre
<1>1. CASE Miss /\ Over(c, 1) /\ UNCHANGED <<live, turns>>
  <2>1. Called(c, "over", 1, caller[c].token, caller[c].store)
    BY <1>1, <1>t, <1>o, MovesBy
  <2>2. misses' = misses + 1 /\ live' = live /\ turns' = turns
    BY <1>1 DEF Miss
  <2> QED  BY <2>1, <2>2, <1>0, <1>r, <1>t, <1>o, QuietStep
<1>2. CASE Turn /\ live' = [live EXCEPT ![Target(c)] = @ \union {turns + 1}]
  <2>1. turns' = turns + 1
    BY <1>2 DEF Turn
  <2>2. live' = [live EXCEPT ![Target(c)] = (@ \ {}) \union {turns + 1}]
    BY <1>2
  <2>3. /\ live' \in [Servers -> SUBSET (1..turns')]
        /\ turns + 1 \in live'[Target(c)]
        /\ \A s \in Servers : live'[s] \subseteq live[s] \union {turns + 1}
        /\ \A s \in Servers : \A t \in live[s] : t \in live'[s]
    BY <2>1, <2>2, <1>t, LiveIs
  <2>4. CASE Miss /\ Over(c, 1)
    <3>1. Called(c, "over", 1, caller[c].token, caller[c].store)
      BY <2>4, <2>1, <1>t, <1>o, MovesBy
    <3>2. misses' = misses + 1
      BY <2>4 DEF Miss
    <3> QED  BY <3>1, <3>2, <2>1, <2>3, <1>0, <1>r, <1>t, <1>o, QuietStep
  <2>5. CASE /\ caller' = [caller EXCEPT ![c].at = "load", ![c].token = turns + 1]
             /\ UNCHANGED misses
    <3>1. /\ turns + 1 \in Held(turns') /\ "load" \in Stages
          /\ caller[c].exit = NoToken /\ NoToken \in Codes
      BY <2>1, <1>t, <1>0, CodesAre, HeldIs DEF Held, WhereOK
    <3>2. caller[c].store \in [Servers -> Held(turns')]
      BY <2>1, <1>t, CallerIs, HeldIs
    <3>3. Called(c, "load", NoToken, turns + 1, caller[c].store)
      BY <2>5, <2>1, <3>1, <3>2, <1>t, CalledBy
    <3> QED  BY <3>3, <2>5, <2>1, <2>3, <1>0, GivenStep
  <2> QED  BY <1>2, <2>4, <2>5, <1>1 DEF login, Turn
<1> QED  BY <1>1, <1>2 DEF login

\* A command reads credentials.json.
LEMMA LoadStoreStep ==
  ASSUME ClientInv, NEW c \in Client, LoadStore(c)
  PROVE  ClientInv'
<1> USE ClientConstants
<1>t. ClientTypeOK /\ WhereOK(c) /\ turns \in Nat /\ misses \in Nat
  BY DEF ClientInv, ClientTypeOK
<1>0. /\ Reached(c, "load") \/ (Reached(c, "start") /\ ~Does(c, "login"))
      /\ overlapped' = (overlapped \/ \E d \in Client \ {c} : Loaded(d))
      /\ UNCHANGED <<creds, live, turns, status, misses>>
  BY DEF LoadStore
<1>r. /\ status \in [Client -> Statuses]
      /\ live \in [Servers -> SUBSET (1..turns)] /\ creds \in [Servers -> Held(turns)]
  BY <1>t DEF ClientTypeOK
<1>p. /\ ~Reached(c, "over") /\ ~Reached(c, "save") /\ ~Loaded(c) /\ ~Reached(c, "revoke")
      /\ Does(c, "login") => Fresh(c)
      /\ caller[c].exit = NoToken /\ status[c] = "none"
  BY <1>0, <1>t DEF WhereOK, Reached, Loaded, Fresh
<1>o. overlapped' \in BOOLEAN /\ (overlapped => overlapped')
  <2>1. overlapped \in BOOLEAN
    BY <1>t DEF ClientTypeOK
  <2> QED  BY <2>1, <1>0
<1>1. CASE Over(c, 1)
  <2>1. 1 \in Codes /\ "over" \in Stages
    BY CodesAre
  <2>2. Called(c, "over", 1, caller[c].token, caller[c].store)
    BY <1>1, <1>0, <2>1, <1>t, MovesBy
  <2> QED  BY <2>1, <2>2, <1>0, <1>r, <1>t, <1>o, <1>p, QuietStep
<1>2. CASE caller' = [caller EXCEPT
            ![c].store = creds,
            ![c].token = IF Does(c, "login") THEN @ ELSE creds[Target(c)],
            ![c].at = IF Does(c, "apply") THEN Wanted(c) ELSE "save"]
  <2>1. PICK w, t : /\ t = IF Does(c, "login") THEN caller[c].token ELSE creds[Target(c)]
                    /\ w = IF Does(c, "apply") THEN Wanted(c) ELSE "save"
    OBVIOUS
  <2>2. /\ t \in Held(turns) /\ w \in {"refresh", "validate", "save"}
        /\ w # "save" <=> Does(c, "apply")
    BY <2>1, <1>r, <1>t, CallerIs DEF Wanted
  <2>3. caller' = [caller EXCEPT ![c].store = creds, ![c].token = t, ![c].at = w]
    BY <1>2, <2>1
  <2>4. Called(c, w, NoToken, t, creds)
    <3>1. w \in Stages /\ NoToken \in Codes /\ turns' = turns
      BY <2>2, <1>0, CodesAre
    <3> QED  BY <2>2, <2>3, <3>1, <1>r, <1>t, <1>p, CalledBy
  <2>c. /\ caller' \in [Client -> Caller(turns')]
        /\ \A d \in Client \ {c} : caller'[d] = caller[d]
        /\ caller'[c].at = w /\ caller'[c].exit = NoToken /\ caller'[c].token = t
        /\ caller'[c].store = creds
    BY <2>4 DEF Called
  <2>g. \A d \in Client \ {c} : /\ Fresh(d)' <=> Fresh(d)
                                /\ Loaded(d)' <=> Loaded(d)
                                /\ Reached(d, "revoke")' <=> Reached(d, "revoke")
                                /\ Reached(d, "save")' <=> Reached(d, "save")
    BY <2>c DEF Fresh, Loaded, Reached
  <2>f. Fresh(c)' => Does(c, "login") /\ Fresh(c)
    BY <2>c, <2>2, <1>p DEF Fresh, Reached, Does
  <2>5. ClientTypeOK'
    BY <2>c, <1>0, <1>r, <1>t, <1>o DEF ClientTypeOK
  <2>6. ASSUME NEW d \in Client PROVE WhereOK(d)'
    <3>1. CASE d = c
      BY <3>1, <2>c, <2>1, <2>2, <1>0, <1>p DEF WhereOK, Reached, Does
    <3>2. CASE d # c
      BY <3>2, <2>c, <1>0 DEF WhereOK, Reached, ClientInv
    <3> QED  BY <3>1, <3>2
  <2>7. FreshInv'
    <3> SUFFICES ASSUME NEW d \in Client, Fresh(d)' PROVE FreshOK(d)'
      BY DEF FreshInv
    <3>1. FreshOK(d)
      BY <2>f, <2>g DEF ClientInv, FreshInv
    <3>2. CASE d = c
      <4>1. t = caller[c].token
        BY <3>2, <2>f, <2>1
      <4>2. \A a \in Client : caller'[a].token = caller[a].token
        BY <4>1, <2>c
      <4>3. \A a \in Client \ {c} : caller'[a].store = caller[a].store
        BY <2>c
      <4> QED  BY <3>1, <3>2, <4>1, <4>2, <4>3, <2>c, <1>0 DEF FreshOK
    <3>3. CASE d # c
      <4>1. t # caller[d].token
        BY <3>1, <3>3, <2>1 DEF FreshOK
      <4>2. caller'[d] = caller[d] /\ \A s \in Servers : creds[s] # caller[d].token
        BY <3>1, <3>3, <2>c DEF FreshOK
      <4> QED  BY <3>1, <3>3, <4>1, <4>2, <2>c, <1>0 DEF FreshOK
    <3> QED  BY <3>2, <3>3
  <2>8. AloneInv'
    <3> SUFFICES ASSUME ~overlapped'
                 PROVE  /\ \A a, b \in Client : Loaded(a)' /\ Loaded(b)' => a = b
                        /\ \A a \in Client : Loaded(a)' => caller'[a].store = creds
                        /\ \A a \in Client : Reached(a, "revoke")' /\ caller'[a].token # NoToken =>
                             creds[Target(a)] # caller'[a].token
      BY <1>0 DEF AloneInv
    <3>1. ~overlapped /\ \A d \in Client \ {c} : ~Loaded(d)
      BY <1>0
    <3>2. \A d \in Client \ {c} : ~Loaded(d)'
      BY <3>1, <2>g
    <3>3. ASSUME NEW a \in Client, Reached(a, "revoke")', caller'[a].token # NoToken
          PROVE  creds[Target(a)] # caller'[a].token
      <4>1. a # c
        BY <3>3, <2>c, <2>2 DEF Reached
      <4> QED  BY <3>1, <3>3, <4>1, <2>c, <2>g DEF ClientInv, AloneInv
    <3> QED  BY <3>2, <3>3, <2>c
  <2>9. SavedInv'
    <3> SUFFICES ASSUME misses = 0, ~overlapped', NEW s \in Servers
                 PROVE  \/ creds[s] = NoToken \/ creds[s] \in live[s]
                        \/ \E d \in Client : Does(d, "apply") /\ Reached(d, "save")' /\ Target(d) = s
      BY <1>0 DEF SavedInv
    <3>1. \/ creds[s] = NoToken \/ creds[s] \in live[s]
          \/ \E d \in Client : Does(d, "apply") /\ Reached(d, "save") /\ Target(d) = s
      BY <1>0 DEF ClientInv, SavedInv
    <3> QED  BY <3>1, <1>p, <2>g
  <2>10. WaitExit'
    <3> SUFFICES ASSUME NEW d \in Client, Does(d, "apply")
                 PROVE  /\ caller'[d].exit = 0 => status[d] = "succeeded"
                        /\ caller'[d].exit = 4 => status[d] = "partially_applied"
                        /\ caller'[d].exit = 1 /\ misses = 0 =>
                             status[d] = "none" \/ caller'[d].token \notin live[Target(d)]
      BY <1>0 DEF WaitExit, Accepted
    <3>1. CASE d = c
      BY <3>1, <2>c
    <3>2. CASE d # c
      BY <3>2, <2>c DEF ClientInv, WaitExit, Accepted
    <3> QED  BY <3>1, <3>2
  <2> QED  BY <2>5, <2>6, <2>7, <2>8, <2>9, <2>10 DEF ClientInv
<1> QED  BY <1>1, <1>2 DEF LoadStore

\* A token that is due is exchanged, or not.
LEMMA RefreshStep ==
  ASSUME ClientInv, NEW c \in Client, refresh(c)
  PROVE  ClientInv'
<1> USE ClientConstants
<1>t. ClientTypeOK /\ WhereOK(c) /\ turns \in Nat /\ misses \in Nat
  BY DEF ClientInv, ClientTypeOK
<1>0. /\ Reached(c, "refresh") /\ Does(c, "apply") /\ status[c] = "none" /\ caller[c].exit = NoToken
      /\ ~Reached(c, "over") /\ ~Reached(c, "save") /\ ~Fresh(c)
      /\ UNCHANGED <<creds, status, overlapped>>
  BY <1>t DEF refresh, Reached, WhereOK, Fresh, Does
<1>r. /\ status \in [Client -> Statuses] /\ overlapped \in BOOLEAN
      /\ live \in [Servers -> SUBSET (1..turns)]
  BY <1>t DEF ClientTypeOK
<1>o. NoToken \in Codes /\ "validate" \in Stages /\ "save" \in Stages
  BY CodesAre
<1>1. CASE MovesTo(c, "validate") /\ UNCHANGED <<live, turns>> /\ (Miss \/ UNCHANGED misses)
  <2>1. Called(c, "validate", NoToken, caller[c].token, caller[c].store)
    BY <1>1, <1>0, <1>t, <1>o, MovesBy
  <2>2. misses' \in {misses, misses + 1}
    BY <1>1 DEF Miss
  <2> QED  BY <1>1, <2>1, <2>2, <1>0, <1>r, <1>t, <1>o, QuietStep
<1>2. CASE /\ Turn
           /\ live' = [live EXCEPT ![Target(c)] = (@ \ {caller[c].token}) \union {turns + 1}]
           /\ \/ Miss /\ MovesTo(c, "validate")
              \/ /\ caller' = [caller EXCEPT ![c].at = "save", ![c].token = turns + 1]
                 /\ UNCHANGED misses
  <2>1. turns' = turns + 1
    BY <1>2 DEF Turn
  <2>3. /\ live' \in [Servers -> SUBSET (1..turns')]
        /\ turns + 1 \in live'[Target(c)]
        /\ \A s \in Servers : live'[s] \subseteq live[s] \union {turns + 1}
        /\ \A s \in Servers : \A t \in live[s] :
             t \in live'[s] \/ (t = caller[c].token /\ s = Target(c))
    <3>1. \E T : T = {caller[c].token} /\ live' = [live EXCEPT ![Target(c)] = (@ \ T) \union {turns + 1}]
      BY <1>2
    <3> QED  BY <3>1, <2>1, <1>t, LiveIs
  <2>4. CASE Miss /\ MovesTo(c, "validate")
    <3>1. Called(c, "validate", NoToken, caller[c].token, caller[c].store)
      BY <2>4, <2>1, <1>0, <1>t, <1>o, MovesBy
    <3>2. misses' = misses + 1 /\ misses' # 0
      BY <2>4, <1>t DEF Miss
    <3> QED  BY <3>1, <3>2, <2>1, <2>3, <1>0, <1>r, <1>t, <1>o, QuietStep
  <2>5. CASE /\ caller' = [caller EXCEPT ![c].at = "save", ![c].token = turns + 1]
             /\ UNCHANGED misses
    <3>1. turns + 1 \in Held(turns')
      BY <2>1, <1>t, HeldIs DEF Held
    <3>2. caller[c].store \in [Servers -> Held(turns')]
      BY <2>1, <1>t, CallerIs, HeldIs
    <3>3. Called(c, "save", NoToken, turns + 1, caller[c].store)
      BY <2>5, <2>1, <3>1, <3>2, <1>t, <1>0, <1>o, CalledBy
    <3> QED  BY <3>3, <2>5, <2>1, <2>3, <1>0, GivenStep
  <2> QED  BY <1>2, <2>4, <2>5
<1> QED  BY <1>1, <1>2 DEF refresh

\* The store that is written: what was loaded, but for one entry.
LEMMA SavedStep ==
  ASSUME ClientInv, NEW c \in Client, Reached(c, "save"), creds' = Upserted(c),
         NEW w \in {"over", "validate", "revoke"}, NEW x \in Codes,
         Called(c, w, x, caller[c].token, caller[c].store),
         Does(c, "login") => w = "over",
         Does(c, "apply") => w = "validate" /\ x = NoToken,
         Does(c, "logout") => w = "revoke" /\ x = NoToken,
         UNCHANGED <<live, turns, misses, status, overlapped>>
  PROVE  ClientInv'
<1> USE ClientConstants
<1>t. ClientTypeOK /\ WhereOK(c) /\ turns \in Nat /\ misses \in Nat
  BY DEF ClientInv, ClientTypeOK
<1>r. /\ caller[c].store \in [Servers -> Held(turns)] /\ caller[c].token \in Held(turns)
      /\ live \in [Servers -> SUBSET (1..turns)] /\ NoToken \in Held(turns)
      /\ Target(c) \in Servers
  BY <1>t, CallerIs, HeldIs DEF ClientTypeOK
<1>s. PICK t : t = IF Does(c, "logout") THEN NoToken ELSE caller[c].token
  OBVIOUS
<1>u. /\ creds' = [caller[c].store EXCEPT ![Target(c)] = t]
      /\ creds' \in [Servers -> Held(turns)]
      /\ creds'[Target(c)] = t
      /\ \A s \in Servers : s # Target(c) => creds'[s] = caller[c].store[s]
  <2>1. creds' = [caller[c].store EXCEPT ![Target(c)] = t]
    BY <1>s DEF Upserted
  <2>2. t \in Held(turns)
    BY <1>s, <1>r
  <2> QED  BY <2>1, <2>2, <1>r
<1>k. \/ Does(c, "login") /\ ~Does(c, "apply") /\ ~Does(c, "logout") /\ Fresh(c)
      \/ Does(c, "apply") /\ ~Does(c, "login") /\ ~Does(c, "logout") /\ Fresh(c)
      \/ Does(c, "logout") /\ ~Does(c, "login") /\ ~Does(c, "apply")
  BY DEF Does, Fresh, Reached
<1>c. /\ caller' \in [Client -> Caller(turns')]
      /\ \A d \in Client \ {c} : caller'[d] = caller[d]
      /\ caller'[c].at = w /\ caller'[c].exit = x
      /\ \A d \in Client : caller'[d].token = caller[d].token /\ caller'[d].store = caller[d].store
  BY DEF Called
<1>f. ~Fresh(c)' /\ ~Loaded(c)' /\ Loaded(c)
  BY <1>c DEF Fresh, Loaded, Reached
<1>g. \A d \in Client \ {c} : /\ Fresh(d)' <=> Fresh(d)
                              /\ Loaded(d)' <=> Loaded(d)
                              /\ Reached(d, "revoke")' <=> Reached(d, "revoke")
  BY <1>c DEF Fresh, Loaded, Reached
<1>1. ClientTypeOK'
  BY <1>u, <1>c, <1>t DEF ClientTypeOK
<1>2. ASSUME NEW d \in Client PROVE WhereOK(d)'
  <2>1. CASE d = c
    BY <2>1, <1>c, <1>t, <1>k DEF WhereOK, Reached
  <2>2. CASE d # c
    BY <2>2, <1>c DEF WhereOK, Reached, ClientInv
  <2> QED  BY <2>1, <2>2
<1>3. FreshInv'
  <2> SUFFICES ASSUME NEW d \in Client, Fresh(d)' PROVE FreshOK(d)'
    BY DEF FreshInv
  <2>1. d # c /\ FreshOK(d)
    BY <1>f, <1>g DEF ClientInv, FreshInv
  <2>2. caller[d].token # NoToken
    <3>1. caller[d].token \in live[Target(d)] /\ Target(d) \in Servers
      BY <2>1 DEF FreshOK
    <3>2. caller[d].token \in 1..turns
      BY <3>1, <1>r
    <3> QED  BY <3>2
  <2>3. t # caller[d].token
    BY <1>s, <2>1, <2>2 DEF FreshOK
  <2>4. \A s \in Servers : creds'[s] # caller[d].token
    BY <1>u, <2>1, <2>3 DEF FreshOK
  <2> QED  BY <2>1, <2>4, <1>c DEF FreshOK
\* While no two commands had the store, it is what c has loaded.
<1>a. ~overlapped => /\ caller[c].store = creds
                     /\ \A d \in Client \ {c} : ~Loaded(d)
  BY <1>f DEF ClientInv, AloneInv
<1>4. AloneInv'
  <2> SUFFICES ASSUME ~overlapped
               PROVE  /\ \A a, b \in Client : Loaded(a)' /\ Loaded(b)' => a = b
                      /\ \A a \in Client : Loaded(a)' => caller'[a].store = creds'
                      /\ \A a \in Client : Reached(a, "revoke")' /\ caller'[a].token # NoToken =>
                           creds'[Target(a)] # caller'[a].token
    BY DEF AloneInv
  <2>1. \A a \in Client : ~Loaded(a)'
    BY <1>a, <1>f, <1>g
  <2>2. ASSUME NEW a \in Client, Reached(a, "revoke")', caller'[a].token # NoToken
        PROVE  creds'[Target(a)] # caller'[a].token
    <3>1. CASE a = c
      <4>1. Does(c, "logout")
        BY <2>2, <3>1, <1>c, <1>k DEF Reached
      <4> QED  BY <4>1, <3>1, <2>2, <1>s, <1>u
    <3>2. CASE a # c
      <4>1. caller'[a].token = caller[a].token /\ creds[Target(a)] # caller[a].token
        BY <2>2, <3>2, <1>g, <1>c DEF ClientInv, AloneInv
      <4>2. CASE Target(a) # Target(c)
        BY <4>1, <4>2, <1>a, <1>u
      <4>3. CASE Target(a) = Target(c) /\ Does(c, "logout")
        BY <2>2, <4>3, <1>s, <1>u
      <4>4. CASE Target(a) = Target(c) /\ ~Does(c, "logout")
        <5>1. caller[a].token # caller[c].token
          BY <3>2, <4>4, <1>k DEF ClientInv, FreshInv, FreshOK
        <5> QED  BY <4>1, <4>4, <5>1, <1>s, <1>u
      <4> QED  BY <4>2, <4>3, <4>4
    <3> QED  BY <3>1, <3>2
  <2> QED  BY <2>1, <2>2
<1>5. SavedInv'
  <2> SUFFICES ASSUME misses = 0, ~overlapped, NEW s \in Servers
               PROVE  creds'[s] = NoToken \/ creds'[s] \in live[s]
    BY DEF SavedInv
  <2>1. CASE s = Target(c)
    <3>1. CASE Does(c, "logout")
      BY <2>1, <3>1, <1>s, <1>u
    <3>2. CASE ~Does(c, "logout")
      <4>1. caller[c].token \in live[s]
        BY <2>1, <3>2, <1>k DEF ClientInv, FreshInv, FreshOK
      <4> QED  BY <2>1, <3>2, <4>1, <1>s, <1>u
    <3> QED  BY <3>1, <3>2
  <2>2. CASE s # Target(c)
    <3>1. creds'[s] = creds[s]
      BY <2>2, <1>a, <1>u
    <3>2. \A d \in Client : Reached(d, "save") => d = c
      BY <1>a DEF Loaded, Reached
    <3> QED  BY <2>2, <3>1, <3>2 DEF ClientInv, SavedInv
  <2> QED  BY <2>1, <2>2
<1>6. WaitExit'
  <2> SUFFICES ASSUME NEW d \in Client, Does(d, "apply")
               PROVE  /\ caller'[d].exit = 0 => status[d] = "succeeded"
                      /\ caller'[d].exit = 4 => status[d] = "partially_applied"
                      /\ caller'[d].exit = 1 /\ misses = 0 =>
                           status[d] = "none" \/ caller[d].token \notin live[Target(d)]
    BY <1>c DEF WaitExit, Accepted
  <2>1. CASE d = c
    BY <2>1, <1>c
  <2>2. CASE d # c
    BY <2>2, <1>c DEF ClientInv, WaitExit, Accepted
  <2> QED  BY <2>1, <2>2
<1> QED  BY <1>1, <1>2, <1>3, <1>4, <1>5, <1>6 DEF ClientInv

\* A command writes credentials.json, or fails to.
LEMMA SaveStoreStep ==
  ASSUME ClientInv, NEW c \in Client, SaveStore(c)
  PROVE  ClientInv'
<1> USE ClientConstants
<1>t. ClientTypeOK /\ WhereOK(c) /\ turns \in Nat /\ misses \in Nat
  BY DEF ClientInv, ClientTypeOK
<1>0. /\ Reached(c, "save") /\ caller[c].exit = NoToken /\ status[c] = "none" /\ ~Reached(c, "over")
      /\ UNCHANGED <<live, turns, status, overlapped>> /\ turns' \in {turns, turns + 1}
  BY <1>t DEF SaveStore, Reached, WhereOK
<1>r. /\ status \in [Client -> Statuses] /\ overlapped \in BOOLEAN
      /\ live \in [Servers -> SUBSET (1..turns)]
  BY <1>t DEF ClientTypeOK
<1>o. {0, 1, NoToken} \subseteq Codes /\ {"over", "validate", "revoke"} \subseteq Stages
  BY CodesAre
<1>1. CASE Miss /\ Over(c, 1) /\ UNCHANGED creds
  <2>1. Called(c, "over", 1, caller[c].token, caller[c].store)
    BY <1>1, <1>0, <1>t, <1>o, MovesBy
  <2>2. misses' = misses + 1 /\ misses' # misses
    BY <1>1, <1>t DEF Miss
  <2> QED  BY <1>1, <2>1, <2>2, <1>0, <1>r, <1>t, <1>o, QuietStep
<1>2. CASE /\ creds' = Upserted(c)
           /\ IF Does(c, "login") THEN Over(c, 0)
              ELSE MovesTo(c, IF Does(c, "apply") THEN "validate" ELSE "revoke")
           /\ UNCHANGED misses
  <2>1. CASE Does(c, "login")
    <3>1. Called(c, "over", 0, caller[c].token, caller[c].store)
      BY <1>2, <2>1, <1>0, <1>t, <1>o, MovesBy
    <3>2. ~Does(c, "apply") /\ ~Does(c, "logout")
      BY <2>1 DEF Does
    <3> QED  BY <1>2, <3>1, <3>2, <1>0, <1>o, SavedStep
  <2>2. CASE Does(c, "apply")
    <3>1. Called(c, "validate", NoToken, caller[c].token, caller[c].store)
      BY <1>2, <2>2, <1>0, <1>t, <1>o, MovesBy DEF Does
    <3>2. ~Does(c, "login") /\ ~Does(c, "logout")
      BY <2>2 DEF Does
    <3> QED  BY <1>2, <3>1, <3>2, <1>0, <1>o, SavedStep
  <2>3. CASE Does(c, "logout")
    <3>1. Called(c, "revoke", NoToken, caller[c].token, caller[c].store)
      BY <1>2, <2>3, <1>0, <1>t, <1>o, MovesBy DEF Does
    <3>2. ~Does(c, "login") /\ ~Does(c, "apply")
      BY <2>3 DEF Does
    <3> QED  BY <1>2, <3>1, <3>2, <1>0, <1>o, SavedStep
  <2> QED  BY <2>1, <2>2, <2>3 DEF Does
<1> QED  BY <1>1, <1>2 DEF SaveStore

\* A logout takes its token back at the server.
LEMMA LogoutStep ==
  ASSUME ClientInv, NEW c \in Client, logout(c)
  PROVE  ClientInv'
<1> USE ClientConstants
<1>t. ClientTypeOK /\ WhereOK(c) /\ turns \in Nat /\ misses \in Nat
  BY DEF ClientInv, ClientTypeOK
<1>0. /\ Reached(c, "revoke") /\ Does(c, "logout") /\ ~Does(c, "apply")
      /\ ~Reached(c, "over") /\ ~Reached(c, "save") /\ ~Fresh(c)
      /\ UNCHANGED <<creds, turns, status, overlapped>> /\ turns' \in {turns, turns + 1}
  BY <1>t DEF logout, Reached, WhereOK, Fresh, Does
<1>r. /\ status \in [Client -> Statuses] /\ overlapped \in BOOLEAN
      /\ live \in [Servers -> SUBSET (1..turns)]
  BY <1>t DEF ClientTypeOK
<1>o. 0 \in Codes /\ "over" \in Stages
  BY CodesAre
<1>1. Called(c, "over", 0, caller[c].token, caller[c].store)
  BY <1>0, <1>t, <1>o, MovesBy DEF logout
<1>2. misses' \in {misses, misses + 1}
  BY DEF logout, Miss
<1>3. \/ live' = live
      \/ live' = [live EXCEPT ![Target(c)] = @ \ {caller[c].token}]
  BY DEF logout
<1>4. live' \in [Servers -> SUBSET (1..turns')]
  <2>1. live[Target(c)] \ {caller[c].token} \in SUBSET (1..turns)
    BY <1>r
  <2> QED  BY <2>1, <1>3, <1>0, <1>r
<1>5. \A s \in Servers : /\ live'[s] \subseteq live[s] \union {turns + 1}
                         /\ \A t \in live[s] : t \in live'[s] \/ (t = caller[c].token /\ s = Target(c))
  BY <1>3, <1>r
<1>6. misses' = 0 /\ ~overlapped' => \A s \in Servers : creds[s] \in live[s] => creds[s] \in live'[s]
  <2> SUFFICES ASSUME ~overlapped, NEW s \in Servers, creds[s] \in live[s]
               PROVE  creds[s] \in live'[s]
    BY <1>0
  <2>1. creds[s] \in 1..turns
    BY <1>r
  <2>2. creds[s] # NoToken
    BY <2>1
  <2>3. s = Target(c) => creds[s] # caller[c].token
    BY <2>2, <1>0 DEF ClientInv, AloneInv
  <2> QED  BY <2>3, <1>5
<1> QED  BY <1>0, <1>1, <1>2, <1>4, <1>5, <1>6, <1>r, <1>t, <1>o, QuietStep

\* The requests of apply, once it has its token.
LEMMA ApplyStep ==
  ASSUME ClientInv, NEW c \in Client, validate_resources(c) \/ submit_remote(c) \/ Poll(c)
  PROVE  ClientInv'
<1> USE ClientConstants
<1>t. ClientTypeOK /\ WhereOK(c) /\ turns \in Nat /\ misses \in Nat
  BY DEF ClientInv, ClientTypeOK
<1>0. /\ caller[c].at \in {"validate", "submit", "poll"} /\ Does(c, "apply") /\ caller[c].exit = NoToken
      /\ ~Reached(c, "over") /\ ~Reached(c, "save")
      /\ UNCHANGED <<creds, live, turns, overlapped>> /\ turns' \in {turns, turns + 1}
  BY <1>t DEF validate_resources, submit_remote, Poll, Reached, WhereOK
<1>r. /\ status \in [Client -> Statuses] /\ overlapped \in BOOLEAN
      /\ live \in [Servers -> SUBSET (1..turns)]
  BY <1>t DEF ClientTypeOK
<1>o. {0, 1, 4, 5, NoToken} \subseteq Codes /\ {"submit", "poll", "over"} \subseteq Stages
  BY CodesAre
<1>m. misses' \in {misses, misses + 1} /\ (Miss => misses' # 0)
  BY <1>t DEF validate_resources, submit_remote, Poll, Miss
<1>1. ASSUME NEW w \in {"submit", "poll", "over"}, NEW x \in Codes,
             Called(c, w, x, caller[c].token, caller[c].store),
             w # "over" => x = NoToken,
             status' \in [Client -> Statuses], \A d \in Client \ {c} : status'[d] = status[d],
             w = "submit" => status'[c] = "none",
             x = 0 => status'[c] = "succeeded",
             x = 4 => status'[c] = "partially_applied",
             x = 1 /\ misses' = 0 => status'[c] = "none" \/ ~Accepted(c)
      PROVE  ClientInv'
  BY <1>1, <1>0, <1>r, <1>t, <1>m, QuietStep DEF Accepted
<1>2. CASE validate_resources(c)
  <2>1. status' = status /\ status[c] = "none"
    BY <1>2, <1>t DEF validate_resources, WhereOK, Reached
  <2>2. CASE Over(c, 1)
    <3>1. Called(c, "over", 1, caller[c].token, caller[c].store)
      BY <2>2, <1>0, <1>t, <1>o, MovesBy
    <3> QED  BY <3>1, <2>1, <1>1, <1>r, <1>o
  <2>3. CASE MovesTo(c, "submit")
    <3>1. Called(c, "submit", NoToken, caller[c].token, caller[c].store)
      BY <2>3, <1>0, <1>t, <1>o, MovesBy
    <3> QED  BY <3>1, <2>1, <1>1, <1>r, <1>o
  <2> QED  BY <1>2, <2>2, <2>3 DEF validate_resources
<1>3. CASE submit_remote(c)
  <2>1. status[c] = "none"
    BY <1>3, <1>t DEF submit_remote, WhereOK, Reached
  <2>2. /\ status' \in [Client -> Statuses] /\ \A d \in Client \ {c} : status'[d] = status[d]
    <3>1. CASE status' = status
      BY <3>1, <1>r
    <3>2. CASE \E st \in {"pending_approval", "pending"} : status' = [status EXCEPT ![c] = st]
      <4>1. PICK st \in {"pending_approval", "pending"} : status' = [status EXCEPT ![c] = st]
        BY <3>2
      <4>2. st \in Statuses
        BY DEF Statuses
      <4> QED  BY <4>1, <4>2, <1>r
    <3> QED  BY <1>3, <3>1, <3>2 DEF submit_remote
  <2>3. \/ Over(c, 1) /\ (status' = status \/ Miss)
        \/ MovesTo(c, "poll")
    BY <1>3 DEF submit_remote
  <2>4. CASE Over(c, 1) /\ (status' = status \/ Miss)
    <3>1. Called(c, "over", 1, caller[c].token, caller[c].store)
      BY <2>4, <1>0, <1>t, <1>o, MovesBy
    <3>2. misses' = 0 => status'[c] = "none"
      BY <2>4, <2>1, <1>m
    <3> QED  BY <3>1, <3>2, <2>2, <1>1, <1>o
  <2>5. CASE MovesTo(c, "poll")
    <3>1. Called(c, "poll", NoToken, caller[c].token, caller[c].store)
      BY <2>5, <1>0, <1>t, <1>o, MovesBy
    <3> QED  BY <3>1, <2>2, <1>1, <1>o
  <2> QED  BY <2>3, <2>4, <2>5
<1>4. CASE Poll(c)
  <2>1. status' = status
    BY <1>4 DEF Poll
  <2>2. \/ Over(c, ExitOf(status[c]))
        \/ Over(c, 1) /\ (~Accepted(c) \/ Miss)
    BY <1>4 DEF Poll
  <2>3. CASE Over(c, ExitOf(status[c]))
    <3>1. PICK x : x = ExitOf(status[c])
      OBVIOUS
    <3>2. /\ x \in {0, 4, 5}
          /\ x = 0 => status[c] = "succeeded"
          /\ x = 4 => status[c] = "partially_applied"
      BY <3>1 DEF ExitOf
    <3>3. Over(c, x) /\ x \in Codes
      BY <2>3, <3>1, <3>2, <1>o
    <3>4. Called(c, "over", x, caller[c].token, caller[c].store)
      BY <3>3, <1>0, <1>t, <1>o, MovesBy
    <3> QED  BY <3>2, <3>3, <3>4, <2>1, <1>1, <1>r
  <2>4. CASE Over(c, 1) /\ (~Accepted(c) \/ Miss)
    <3>1. Called(c, "over", 1, caller[c].token, caller[c].store)
      BY <2>4, <1>0, <1>t, <1>o, MovesBy
    <3> QED  BY <3>1, <2>4, <2>1, <1>1, <1>r, <1>o, <1>m
  <2> QED  BY <2>2, <2>3, <2>4
<1> QED  BY <1>2, <1>3, <1>4

\* The server works on an operation, or time passes.
LEMMA StatusStep ==
  ASSUME ClientInv, UNCHANGED <<creds, live, turns, caller, misses, overlapped>>,
         \/ UNCHANGED status
         \/ \E c \in Client : \E st \in After(status[c]) : status' = [status EXCEPT ![c] = st]
  PROVE  ClientInv'
<1> USE ClientConstants
<1>t. ClientTypeOK
  BY DEF ClientInv
<1>1. /\ status' \in [Client -> Statuses]
      /\ \A d \in Client : status'[d] = status[d]
                           \/ status[d] \notin {"none", "succeeded", "partially_applied"}
  <2>1. status \in [Client -> Statuses]
    BY <1>t DEF ClientTypeOK
  <2>2. CASE UNCHANGED status
    BY <2>1, <2>2
  <2>3. CASE \E c \in Client : \E st \in After(status[c]) : status' = [status EXCEPT ![c] = st]
    <3>0. PICK c \in Client : \E st \in After(status[c]) : status' = [status EXCEPT ![c] = st]
      BY <2>3
    <3>1. PICK st \in After(status[c]) : status' = [status EXCEPT ![c] = st]
      BY <3>0
    <3>2. st \in Statuses /\ status[c] \in {"pending_approval", "pending", "running"}
      BY DEF After, Statuses
    <3> QED  BY <2>1, <3>1, <3>2
  <2> QED  BY <2>2, <2>3
<1>2. ClientTypeOK'
  BY <1>1, <1>t DEF ClientTypeOK
<1>3. ASSUME NEW d \in Client PROVE WhereOK(d)'
  BY <1>1 DEF ClientInv, WhereOK, Reached
<1>4. FreshInv' /\ AloneInv' /\ SavedInv'
  BY DEF ClientInv, FreshInv, FreshOK, Fresh, AloneInv, Loaded, SavedInv, Reached
<1>5. WaitExit'
  <2> SUFFICES ASSUME NEW d \in Client, Does(d, "apply")
               PROVE  /\ caller[d].exit = 0 => status'[d] = "succeeded"
                      /\ caller[d].exit = 4 => status'[d] = "partially_applied"
                      /\ caller[d].exit = 1 /\ misses = 0 => status'[d] = "none" \/ ~Accepted(d)
    BY DEF WaitExit, Accepted
  <2> QED  BY <1>1 DEF ClientInv, WaitExit
<1> QED  BY <1>2, <1>3, <1>4, <1>5 DEF ClientInv

\* Every step keeps the invariant.
LEMMA ClientStep == ClientInv /\ [ServerClientNext]_clientVars => ClientInv'
<1> SUFFICES ASSUME ClientInv, [ServerClientNext]_clientVars PROVE ClientInv'
  OBVIOUS
<1>1. ASSUME NEW c \in Client, login(c) \/ LoadStore(c) \/ refresh(c) \/ SaveStore(c) \/ logout(c)
      PROVE  ClientInv'
  BY <1>1, LoginStep, LoadStoreStep, RefreshStep, SaveStoreStep, LogoutStep
<1>2. ASSUME NEW c \in Client, validate_resources(c) \/ submit_remote(c) \/ Poll(c)
      PROVE  ClientInv'
  BY <1>2, ApplyStep
<1>3. ASSUME NEW c \in Client, OperationMoves(c)
      PROVE  ClientInv'
  BY <1>3, StatusStep DEF OperationMoves
<1>4. ASSUME NEW t \in 1..MaxTurn, FallsDue(t)
      PROVE  ClientInv'
  BY <1>4, StatusStep DEF FallsDue
<1>5. CASE UNCHANGED clientVars
  BY <1>5, StatusStep DEF clientVars
<1>6. CASE ServerClientNext
  BY <1>6, <1>1, <1>2, <1>3, <1>4 DEF ServerClientNext
<1> QED  BY <1>5, <1>6

\* The invariant of the commands that use a server.
LEMMA ClientInvariant == ServerClientSpec => []ClientInv
<1>1. ServerClientInit => ClientInv
  BY ClientInitial
<1>2. ClientInv /\ [ServerClientNext]_clientVars => ClientInv'
  BY ClientStep
<1> QED  BY <1>1, <1>2, PTL DEF ServerClientSpec

\* Which says that exit codes and the saved token are true.
LEMMA SavedFollows == ClientInv => WaitExit /\ SavedTokenWorks
<1> SUFFICES ASSUME ClientInv PROVE SavedTokenWorks
  BY DEF ClientInv
<1> SUFFICES ASSUME misses = 0, ~overlapped, \A c \in Client : ~Loaded(c), NEW s \in Servers, creds[s] # NoToken
             PROVE  creds[s] \in live[s]
  BY DEF SavedTokenWorks
<1>1. \A c \in Client : ~Reached(c, "save")
  BY DEF Loaded, Reached
<1> QED  BY <1>1 DEF ClientInv, SavedInv

\* Exit codes, credentials.json and run-history tell the truth: of a fan-out over
\* SSH (cmd_apply_fanout, cmd_run), of an operation that was waited for
\* (submit_remote) and of the token the next command will use
\* (resolve_admin_token_with_refresh), for any hosts, invocations, servers and tokens.
THEOREM CommandsTellTheTruthCorrect ==
  CommandLineSpec /\ ServerClientSpec => []CommandsTellTheTruth
<1>1. CliInv /\ ClientInv => CommandsTellTheTruth
  BY ExitCodeFollows, SavedFollows DEF CommandsTellTheTruth
<1> QED
  BY <1>1, CliInvariant, ClientInvariant, PTL

=============================================================================
