----------------------------- MODULE NetDrivers -----------------------------
(***************************************************************************)
(* The providers firewall.rule, dns.record, acme.certificate and           *)
(* monitoring.check, in the form of Containers.                            *)
(***************************************************************************)
EXTENDS Containers

CONSTANTS
  Backend,  \* "iptables" or "nft"
  Places,   \* the chains in the order in which the tools list them
  Prefix    \* pairs of names the first of which is a prefix of the second

ASSUME NetAssumption ==
  /\ Backend \in {"iptables", "nft"}
  /\ Places \in Seq([table : STRING, chain : STRING])

(***************************************************************************)
(* firewall.rule.  w.rules: the rules of the family, appended one by one.  *)
(* tag is the name in the comment, body the protocol, port, addresses and  *)
(* the action.                                                             *)
(***************************************************************************)
Rules == [tag : STRING, table : STRING, chain : STRING, body : STRING]

ASSUME RulesAssumption == Gone \notin Rules

RuleHost(w) == w = [rules |-> w.rules] /\ w.rules \in Seq(Rules)

PlaceOf(r) == [table |-> r.table, chain |-> r.chain]

RuleOf(s) == [tag |-> s.tag, table |-> s.table, chain |-> s.chain, body |-> s.body]

ValidRule(s) == RuleOf(s) \in Rules /\ PlaceOf(s) \in ToSet(Places)

\* iptables is searched for the comment without its closing quote, too.
TagMatches(tag, name) ==
  tag = name \/ (Backend = "iptables" /\ <<name, tag>> \in Prefix)

Index(p) == CHOOSE i \in DOMAIN Places : Places[i] = p

\* What the parsers make of a line: iptables-save does not say in which table
\* a rule is, the parser says filter.
ParsedSave(r, name) == [r EXCEPT !.tag = name, !.table = "filter"]
ParsedNft(r, name) == [r EXCEPT !.tag = name]

\* The first rule with the tag, in the order of the listing; Gone: none.
Query(name, w) ==
  LET found == {i \in DOMAIN w.rules : TagMatches(w.rules[i].tag, name)}
      Before(i, j) == LET a == Index(PlaceOf(w.rules[i]))  b == Index(PlaceOf(w.rules[j]))
                      IN a < b \/ (a = b /\ i <= j)
      r == w.rules[CHOOSE i \in found : \A j \in found : Before(i, j)]
  IN IF found = {} THEN Gone
     ELSE IF Backend = "iptables" THEN ParsedSave(r, name) ELSE ParsedNft(r, name)

\* Neither the table nor the family is compared.
RuleDiffers(s, w) ==
  LET q == Query(s.tag, w)
  IN IF s.present THEN q = Gone \/ q.chain # s.chain \/ q.body # s.body ELSE q # Gone

RulePlan(s) == IF s.present THEN <<"upsert">> ELSE <<"delete">>

\* The old rule is deleted where the new one goes, with errors ignored.
EnsurePresent(r) == <<SoftCall("delete", r), Call("append", r)>>
EnsureAbsent(r) == <<Call("delete", r)>>

RuleCalls(s, step) == IF step = "upsert" THEN EnsurePresent(RuleOf(s)) ELSE EnsureAbsent(RuleOf(s))

RuleSaved(s, w) == Query(s.tag, w)

RuleUndo(s, saved) == IF saved = Gone THEN EnsureAbsent(RuleOf(s)) ELSE EnsurePresent(saved)

Tagged(r, w) == {i \in DOMAIN w.rules : TagMatches(w.rules[i].tag, r.tag) /\ w.rules[i].table = r.table}

Least(idx) == CHOOSE i \in idx : \A j \in idx : i <= j

\* iptables: the first one with the tag in the chain, by its number.
DeleteInChain(r, w) ==
  LET found == {i \in Tagged(r, w) : w.rules[i].chain = r.chain}
  IN {IF found = {} THEN w ELSE [w EXCEPT !.rules = RemoveAt(@, Least(found))]}

\* nft: the first one with the tag in the table, by its handle, which must be of
\* the chain.
DeleteByHandle(r, w) ==
  LET i == Least(Tagged(r, w))
  IN IF Tagged(r, w) = {} THEN {w}
     ELSE IF w.rules[i].chain # r.chain THEN {}
     ELSE {[w EXCEPT !.rules = RemoveAt(@, i)]}

RuleEffect(c, w) ==
  CASE c.op = "delete" /\ Backend = "iptables" -> DeleteInChain(c.arg, w)
    [] c.op = "delete" /\ Backend = "nft" -> DeleteByHandle(c.arg, w)
    [] OTHER -> {[w EXCEPT !.rules = Append(@, c.arg)]}

(***************************************************************************)
(* dns.record.  w.rec: the value and ttl of the record, through the API of *)
(* the provider of the zone.  A request that timed out may have been done. *)
(***************************************************************************)
RecordHost(w) == w = [rec |-> w.rec]

ValidRecord(s) == s.present = (s.value # Gone)

RecordDiffers(s, w) == IF s.present THEN w.rec # s.value ELSE w.rec # Gone

RecordPlan(s, w) ==
  IF ~s.present THEN <<"delete">> ELSE IF w.rec = Gone THEN <<"create">> ELSE <<"update">>

RecordCalls(s, step) == <<Call(step, s.value)>>

RecordSaved(w) == w.rec

\* The record is looked up again: update or create, delete or nothing.
RecordUndo(saved, w) ==
  CASE saved # Gone /\ w.rec # Gone -> <<Call("update", saved)>>
    [] saved # Gone /\ w.rec = Gone -> <<Call("create", saved)>>
    [] saved = Gone /\ w.rec # Gone -> <<Call("delete", Gone)>>
    [] OTHER -> <<>>

\* update and delete look the record up first and fail without it.
RecordEffect(c, w) ==
  CASE c.op = "create" -> {[w EXCEPT !.rec = c.arg]}
    [] c.op = "update" -> IF w.rec = Gone THEN {} ELSE {[w EXCEPT !.rec = c.arg]}
    [] c.op = "delete" -> IF w.rec = Gone THEN {} ELSE {[w EXCEPT !.rec = Gone]}

(***************************************************************************)
(* acme.certificate.  w.cert: the certificate and whether it is still out  *)
(* of the renew window; w.key: its key; w.count: pairs so far.  lego       *)
(* writes both files or none.                                              *)
(***************************************************************************)
Certs == [pair : Nat, fresh : BOOLEAN]

ASSUME CertsAssumption == Gone \notin Certs

CertHost(w) == w \in [cert : Certs \union {Gone}, key : Nat \union {Gone}, count : Nat]

\* openssl reads the end of the certificate, against the renew window.
CertSeen(w) == IF w.cert = Gone THEN "absent" ELSE IF w.cert.fresh THEN "fresh" ELSE "due"

\* A missing key is no difference.
CertDiffers(s, w) == IF s.present THEN CertSeen(w) # "fresh" ELSE CertSeen(w) # "absent"

CertPlan(s, w) ==
  IF ~s.present THEN <<"revoke">> ELSE IF CertSeen(w) = "absent" THEN <<"issue">> ELSE <<"renew">>

\* revoke goes on whatever lego says, and over files that cannot be removed.
CertCalls(step) ==
  IF step = "revoke" THEN <<SoftCall("revoke", Gone), SoftCall("rmcert", Gone), SoftCall("rmkey", Gone)>>
  ELSE <<Call(step, Gone)>>

CertSaved(w) == [cert |-> w.cert, key |-> w.key]

CertUndo(saved) ==
  IF saved.cert = Gone THEN <<SoftCall("rmcert", Gone), SoftCall("rmkey", Gone)>>
  ELSE <<Call("wrcert", saved.cert)>>
         \o (IF saved.key = Gone THEN <<>> ELSE <<Call("wrkey", saved.key)>>)

CertEffect(c, w) ==
  CASE c.op \in {"issue", "renew"} ->
         {[cert |-> [pair |-> w.count + 1, fresh |-> TRUE], key |-> w.count + 1, count |-> w.count + 1]}
    [] c.op = "revoke" -> {w}
    [] c.op = "rmcert" -> {[w EXCEPT !.cert = Gone]}
    [] c.op = "rmkey"  -> {[w EXCEPT !.key = Gone]}
    [] c.op = "wrcert" -> {[w EXCEPT !.cert = c.arg]}
    [] c.op = "wrkey"  -> {[w EXCEPT !.key = c.arg]}

\* Days go by.
CertAges(w) == IF w.cert # Gone /\ w.cert.fresh THEN {[w EXCEPT !.cert.fresh = FALSE]} ELSE {}

(***************************************************************************)
(* monitoring.check.  w.healthy: what a probe of the target finds.         *)
(***************************************************************************)
CheckHost(w) == w \in [healthy : BOOLEAN]

CheckDiffers(s, w) == s.present /\ ~w.healthy

\* One probe and then the retries, until one is answered.
CheckCalls(s) == <<Call("probe", s.retries)>>
CheckEffect(c, w) == IF w.healthy THEN {w} ELSE {}
CheckAgain(c, w) == IF ~w.healthy /\ c.arg > 0 THEN <<Call("probe", c.arg - 1)>> ELSE <<>>

=============================================================================
