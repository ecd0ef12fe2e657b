------------------------------- MODULE Plugin -------------------------------
(***************************************************************************)
(* The handle of an external provider (iac-providers, process): callers    *)
(* share one child process and talk to it in lines, one request at a time  *)
(* under a lock that is held from the write to the read; a failure is dealt*)
(* with under the lock taken again.  The child is started when there is    *)
(* none, greets with a hello, and is let go, never killed, when a line is  *)
(* late, missing or unreadable.  What the child does is external.          *)
(***************************************************************************)
EXTENDS Integers, Sequences, FiniteSets

CONSTANTS
  Caller,          \* threads of the agent
  Nobody,          \* no caller
  RestartOnCrash,  \* restart_on_crash
  MaxCalls,        \* bound: calls
  MaxSpawn,        \* bound: processes
  MaxTime,         \* bound: the clock in seconds
  MaxFault         \* bound: children that die, hang, or say what they should not

ASSUME PluginAssumption ==
  /\ RestartOnCrash \in BOOLEAN /\ Nobody \notin Caller
  /\ {MaxCalls, MaxSpawn, MaxTime, MaxFault} \subseteq Nat

VARIABLES
  handle,   \* State: proc, next_id, consecutive_crashes, spawn_blocked_until
  lock,     \* the caller that holds the mutex
  child,    \* the processes started: alive, greeting or not, input, lines out
  caller,   \* per thread: where it is in call, tries, request, id, child, result
  clock,
  \* history
  runs,     \* per request, how often a child has carried it out
  faults,
  sick      \* the plugin dies whenever it is started

pluginVars == <<handle, lock, child, caller, clock, runs, faults, sick>>

\* Lines of a child: its hello, something else, the answer to a request.
Hello == [id |-> 0, is |-> "hello", req |-> 0]
Noise == [id |-> 0, is |-> "noise", req |-> 0]
Answer(r) == [id |-> r.id, is |-> "answer", req |-> r.req]

AtRest == [id |-> 0, at |-> "idle", req |-> 0, tries |-> 0, pid |-> 0, got |-> 0]

PluginInit ==
  /\ handle = [next |-> 1, proc |-> 0, crashes |-> 0, until |-> 0]
  /\ lock = Nobody
  /\ child = <<>>
  /\ caller = [c \in Caller |-> AtRest]
  /\ clock = 0 /\ runs = <<>>
  /\ faults = 0 /\ sick \in BOOLEAN

\* 2^(n-3) seconds after the third failure in a row, 256 at most.
CoolOff(n) == LET e == IF n - 3 < 8 THEN n - 3 ELSE 8 IN 2 ^ e

At(c, where) == caller[c].at = where
Goes(c, where) == caller' = [caller EXCEPT ![c].at = where]

CallBegins(c) ==
  /\ At(c, "idle") /\ Len(runs) < MaxCalls
  /\ runs' = Append(runs, 0)
  /\ caller' = [caller EXCEPT ![c] = [AtRest EXCEPT !.at = "enter", !.tries = 1, !.req = Len(runs) + 1]]
  /\ UNCHANGED <<handle, lock, child, clock, faults>>

\* spawn_locked: no start in the cool-off; the error is no transport error.
CallEnters(c) ==
  /\ At(c, "enter") /\ lock = Nobody
  /\ \/ /\ handle.proc # 0
        /\ lock' = c /\ Goes(c, "write") /\ UNCHANGED <<handle, child>>
     \/ /\ handle.proc = 0 /\ clock < handle.until
        /\ Goes(c, "failed") /\ UNCHANGED <<handle, lock, child>>
     \/ /\ handle.proc = 0 /\ clock >= handle.until /\ Len(child) < MaxSpawn
        /\ handle' = [handle EXCEPT !.until = 0]
        /\ lock' = c
        /\ child' = Append(child, [alive |-> TRUE, ready |-> FALSE, ins |-> <<>>, outs |-> <<>>, eof |-> FALSE])
        /\ caller' = [caller EXCEPT ![c].at = "hello", ![c].pid = Len(child) + 1]
  /\ UNCHANGED <<clock, runs, faults>>

\* The binary is not there or is not the pinned one: no transport error either.
CallCannotSpawn(c) ==
  /\ At(c, "enter") /\ lock = Nobody /\ handle.proc = 0 /\ clock >= handle.until
  /\ faults < MaxFault /\ faults' = faults + 1
  /\ handle' = [handle EXCEPT !.until = 0]
  /\ Goes(c, "failed")
  /\ UNCHANGED <<lock, child, clock, runs>>

\* Its input is closed and nobody reads its lines any more.
Closed(p) ==
  [child EXCEPT ![p] = [alive |-> @.alive /\ @.ins # <<>>, ready |-> TRUE, ins |-> @.ins, outs |-> <<>>, eof |-> TRUE]]

\* The first line is the hello; one that is not is no transport error.  The new
\* process is dropped when the handshake fails.
CallGreeted(c) ==
  LET p == caller[c].pid  o == child[p].outs
  IN /\ At(c, "hello")
     /\ \/ /\ o # <<>> /\ Head(o) = Hello
           /\ child' = [child EXCEPT ![p].outs = Tail(@)]
           /\ handle' = [handle EXCEPT !.proc = p] /\ Goes(c, "write") /\ UNCHANGED lock
        \/ /\ o # <<>> /\ Head(o) # Hello
           /\ child' = Closed(p) /\ lock' = Nobody /\ Goes(c, "failed")
           /\ UNCHANGED handle
        \/ /\ o = <<>> /\ ~child[p].alive
           /\ child' = Closed(p) /\ lock' = Nobody /\ Goes(c, "lost") /\ UNCHANGED handle
     /\ UNCHANGED <<clock, runs, faults>>

\* The next id, and the request as one line.
CallWrites(c) ==
  LET p == handle.proc
  IN /\ At(c, "write")
     /\ handle' = [handle EXCEPT !.next = @ + 1]
     /\ IF child[p].alive
        THEN /\ child' = [child EXCEPT ![p].ins = Append(@, [id |-> handle.next, req |-> caller[c].req])]
             /\ caller' = [caller EXCEPT ![c].at = "read", ![c].id = handle.next, ![c].pid = p]
             /\ UNCHANGED lock
        ELSE Goes(c, "lost") /\ lock' = Nobody /\ UNCHANGED child
     /\ UNCHANGED <<clock, runs, faults>>

\* Mutant: the id of the answer is not looked at.
IsAnswer_Any(line, c) == line.is = "answer"

IsAnswer(line, c) == line.is = "answer" /\ line.id = caller[c].id

\* The answer; an answer to something else (no transport error: the process
\* stays); a line that cannot be parsed; end of file.
CallReads(c) ==
  LET p == caller[c].pid  o == child[p].outs
  IN /\ At(c, "read")
     /\ lock' = Nobody
     /\ child' = IF o = <<>> THEN child ELSE [child EXCEPT ![p].outs = Tail(@)]
     /\ \/ /\ o # <<>> /\ IsAnswer(Head(o), c)
           /\ caller' = [caller EXCEPT ![c].at = "won", ![c].got = Head(o).req]
        \/ o # <<>> /\ ~IsAnswer(Head(o), c) /\ Head(o).is = "answer" /\ Goes(c, "failed")
        \/ o # <<>> /\ Head(o).is # "answer" /\ Goes(c, "lost")
        \/ o = <<>> /\ ~child[p].alive /\ Goes(c, "lost")
     /\ UNCHANGED <<handle, clock, runs, faults>>

\* The deadline: "read: deadline" counts as a transport error, too.
CallTimesOut(c) ==
  /\ At(c, "hello") \/ At(c, "read")
  /\ child[caller[c].pid].outs = <<>> /\ faults < MaxFault
  /\ faults' = faults + 1
  /\ child' = IF At(c, "hello") THEN Closed(caller[c].pid) ELSE child
  /\ lock' = Nobody /\ Goes(c, "lost")
  /\ UNCHANGED <<handle, clock, runs>>

\* A call that was answered clears the count.
CallWon(c) ==
  /\ At(c, "won") /\ lock = Nobody
  /\ handle' = [handle EXCEPT !.crashes = 0, !.until = 0]
  /\ Goes(c, "ok")
  /\ UNCHANGED <<lock, child, clock, runs, faults>>

TriesAgain(c) == caller[c].tries = 1 /\ RestartOnCrash

Crashed(h) ==
  [h EXCEPT !.crashes = @ + 1, !.proc = 0,
            !.until = IF h.crashes + 1 >= 3 THEN clock + CoolOff(h.crashes + 1) ELSE @]

\* A transport error: whichever process is there now is dropped, its input closed.
CallLost(c) ==
  /\ At(c, "lost") /\ lock = Nobody
  /\ handle' = Crashed(handle)
  /\ child' = IF handle.proc = 0 THEN child ELSE Closed(handle.proc)
  /\ IF TriesAgain(c)
     THEN caller' = [caller EXCEPT ![c].at = "enter", ![c].tries = @ + 1]
     ELSE Goes(c, "failed")
  /\ UNCHANGED <<lock, clock, runs, faults>>

CallReturns(c) ==
  /\ At(c, "ok") \/ At(c, "failed")
  /\ caller' = [caller EXCEPT ![c] = AtRest]
  /\ UNCHANGED <<handle, lock, child, clock, runs, faults>>

(***************************************************************************)
(* The children: greet, carry requests out and answer, die, or say         *)
(* something else.  A child that was let go still works on what it has.    *)
(***************************************************************************)
ChildGreets(p) ==
  /\ child[p].alive /\ ~child[p].ready /\ ~child[p].eof /\ ~sick
  /\ child' = [child EXCEPT ![p].ready = TRUE, ![p].outs = Append(@, Hello)]
  /\ UNCHANGED <<handle, lock, caller, clock, runs, faults>>

ChildWorks(p) ==
  /\ child[p].alive /\ child[p].ready /\ child[p].ins # <<>>
  /\ child' = [child EXCEPT ![p].ins = Tail(@), ![p].outs = IF child[p].eof THEN @ ELSE Append(@, Answer(Head(child[p].ins)))]
  /\ runs' = [runs EXCEPT ![Head(child[p].ins).req] = @ + 1]
  /\ UNCHANGED <<handle, lock, caller, clock, faults>>

\* Dies, with or without the last request done; or a line too many: noise, or an
\* old answer again.
ChildFails(p) ==
  /\ child[p].alive /\ ~child[p].eof /\ ~sick /\ faults < MaxFault
  /\ faults' = faults + 1
  /\ \/ child' = [child EXCEPT ![p].alive = FALSE] /\ UNCHANGED runs
     \/ /\ child[p].ready /\ child[p].ins # <<>>
        /\ child' = [child EXCEPT ![p].alive = FALSE, ![p].ins = <<>>]
        /\ runs' = [runs EXCEPT ![Head(child[p].ins).req] = @ + 1]
     \/ child' = [child EXCEPT ![p].outs = Append(@, Noise)] /\ UNCHANGED runs
     \/ /\ child[p].outs # <<>> /\ child[p].outs[Len(child[p].outs)].is = "answer"
        /\ child' = [child EXCEPT ![p].outs = Append(@, @[Len(@)])] /\ UNCHANGED runs
  /\ UNCHANGED <<handle, lock, caller, clock>>

ChildIsSick(p) ==
  /\ child[p].alive /\ sick
  /\ child' = [child EXCEPT ![p].alive = FALSE]
  /\ UNCHANGED <<handle, lock, caller, clock, runs, faults>>

Second == clock < MaxTime /\ clock' = clock + 1
          /\ UNCHANGED <<handle, lock, child, caller, runs, faults>>

PluginStep ==
  \/ \E c \in Caller :
       \/ CallBegins(c) \/ CallEnters(c) \/ CallCannotSpawn(c) \/ CallGreeted(c) \/ CallWrites(c) \/ CallReads(c)
       \/ CallTimesOut(c) \/ CallWon(c) \/ CallLost(c) \/ CallReturns(c)
  \/ \E p \in DOMAIN child : ChildGreets(p) \/ ChildWorks(p) \/ ChildFails(p) \/ ChildIsSick(p)
  \/ Second

PluginNext == PluginStep /\ UNCHANGED sick

PluginSpec == PluginInit /\ [][PluginNext]_pluginVars

(***************************************************************************)
(* Properties.                                                             *)
(***************************************************************************)
\* A call that returns Ok has the answer to its own request, which a child has
\* carried out; no call is carried out more often than twice (call retries once,
\* also an apply whose answer was only late), whatever children repeat or say and
\* however two callers meet on a child that has died.
AnsweredAndDone ==
  /\ \A c \in Caller : At(c, "ok") => caller[c].got = caller[c].req /\ runs[caller[c].req] > 0
  /\ \A r \in DOMAIN runs : runs[r] <= IF RestartOnCrash THEN 2 ELSE 1

=============================================================================
