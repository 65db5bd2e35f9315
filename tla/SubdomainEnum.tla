----------------------------- MODULE SubdomainEnum -----------------------------
(* The dns module (internal/modules/dns.go) on the raw-UDP resolver pool of       *)
(* internal/modules/dnsengine.go. One worker per word of the wordlist, at most     *)
(* `width` at a time, resolves the name, drops wildcard answers, asks for an alias *)
(* and checks whether the service behind the alias still exists. Each query waits  *)
(* for the limiter, takes the next resolver of the pool and is tried again, up to  *)
(* three times, when that resolver does not give a usable answer.                  *)
(*                                                                                *)
(* External: the zone, the resolvers and time. A resolver answers NXDOMAIN when    *)
(* the name at the end of an alias does not exist. Broken resolvers never answer   *)
(* usefully. The deadline of a worker may pass at any moment.                      *)
EXTENDS RateLimiter, ScanContext

CONSTANTS
  Wordlist,      \* the names to try, in order
  Zone,          \* name -> [v4, v6 : sets of addresses, alias : a name or NoName]
  Hosted,        \* aliases' targets that takeoverFingerprints knows
  Wildcard,      \* the addresses behind the wildcard record, if there is one
  Resolvers,     \* the list of -resolvers
  Broken,        \* those of them that never give a usable answer
  MaxAttempts,   \* dnsMaxAttempts (3)
  CursorSize,    \* the cursor counts modulo this (2^32)
  ZoneTransfer,  \* the names a zone transfer gives away
  MaxExpiries,   \* bound: deadlines that pass
  NoName

ASSUME SubdomainAssumption ==
  /\ Wordlist \in Seq(STRING)
  /\ Resolvers \in Seq(STRING) \ {<<>>} /\ MaxAttempts \in Nat \ {0} /\ CursorSize \in Nat \ {0}

VARIABLES
  wild,     \* the addresses a name without a record resolves to
  sampled,  \* wildcardIPs: those of them that the probes have seen
  cursor,   \* udpResolverPool.next
  next,     \* how many words have got a worker
  lookup,   \* word -> what its worker does
  expired,  \* workers whose deadline has passed
  found,    \* found
  risks,    \* result.TakeoverRisks
  dns       \* the module: "idle", "brute" while it has workers, "done"

dnsVars == <<wild, sampled, cursor, next, lookup, expired, found, risks, dns>>

Word == {Wordlist[i] : i \in DOMAIN Wordlist}

--------------------------------------------------------------------------------
\* The zone

NoRecord == [v4 |-> {}, v6 |-> {}, alias |-> NoName]
RecordOf(name) == IF name \in DOMAIN Zone THEN Zone[name] ELSE NoRecord
EndOf(name) == IF RecordOf(name).alias = NoName THEN name ELSE RecordOf(name).alias
Exists(name) == name \in DOMAIN Zone /\ EndOf(name) \in DOMAIN Zone

\* The name a worker asks for, and what a sound resolver may say of it: a set of
\* addresses or an alias, or nothing usable, since query takes a non-zero rcode for
\* an error.
Asked(w) == IF lookup[w].stage = "target" THEN Zone[w].alias ELSE w

Answers(name, qtype) ==
  IF Exists(name)
  THEN {CASE qtype = "A" -> RecordOf(EndOf(name)).v4
          [] qtype = "AAAA" -> RecordOf(EndOf(name)).v6
          [] qtype = "CNAME" -> RecordOf(name).alias}
  ELSE IF wild # {} /\ name \in Word
  THEN CASE qtype = "A" -> {{a} : a \in wild}
         [] qtype = "AAAA" -> {{}}
         [] qtype = "CNAME" -> {NoName}
  ELSE {}

--------------------------------------------------------------------------------
\* One worker

Asking(stage, qtype, ips) ==
  [stage |-> stage, qtype |-> qtype, attempt |-> 0, ips |-> ips]
At(stage) == Asking(stage, "A", {})

Stages == {"host", "cname", "target"}
Working == {w \in Word : lookup[w].stage \in Stages}

\* ctx of the worker: derived from the scan's context, with a deadline of its own.
Done(w) == cancelled \/ w \in expired

Goto(w, l) == lookup' = [lookup EXCEPT ![w] = l]
List(w) == found' = found \cup {w}

AllMatchWildcard(ips) == sampled # {} /\ ips \subseteq sampled

\* LookupHost and LookupCNAME turn the outcome of resolve, {} or NoName where it
\* has failed, into the next step of the worker.
FirstHalf(w, ips) ==
  /\ lookup[w].stage \in {"host", "target"} /\ lookup[w].qtype = "A"
  /\ Goto(w, Asking(lookup[w].stage, "AAAA", ips))
  /\ UNCHANGED <<found, risks>>

HostResolved(w, ips) ==
  LET all == lookup[w].ips \cup ips
  IN  /\ lookup[w].stage = "host" /\ lookup[w].qtype = "AAAA"
      /\ Goto(w, IF all = {} \/ AllMatchWildcard(all) THEN At("done")
                 ELSE Asking("cname", "CNAME", {}))
      /\ UNCHANGED <<found, risks>>

AliasResolved(w, alias) ==
  /\ lookup[w].stage = "cname"
  /\ IF alias \in Hosted
     THEN Goto(w, At("target")) /\ UNCHANGED found
     ELSE Goto(w, At("done")) /\ List(w)
  /\ UNCHANGED risks

TargetResolved(w, ips) ==
  /\ lookup[w].stage = "target" /\ lookup[w].qtype = "AAAA"
  /\ risks' = IF lookup[w].ips \cup ips = {} THEN risks \cup {w} ELSE risks
  /\ Goto(w, At("done"))
  /\ List(w)

Returns(w, answer) ==
  \/ FirstHalf(w, answer)
  \/ HostResolved(w, answer)
  \/ AliasResolved(w, answer)
  \/ TargetResolved(w, answer)

Nothing(w) == IF lookup[w].stage = "cname" THEN NoName ELSE {}

--------------------------------------------------------------------------------
\* The pool

Advance(n) == (n + 1) % CursorSize

\* pick indexes with (int(n)-1) % len. When the cursor has come round to 0 that is
\* -1, out of range, unless there is one resolver only.
OutOfRange(n) == n = 0 /\ Len(Resolvers) > 1
Pick(n) == Resolvers[((n - 1) % Len(Resolvers)) + 1]

\* Mutant: a lookup that fails once has failed.
NoSecondTry(l) == FALSE

TriesAgain(l) == l.attempt + 1 < MaxAttempts

\* A query without a usable answer, and one whose resolver is never chosen: the
\* worker panics, and RecoverWorker and the other deferred calls leave no trace of
\* it but a word nobody has looked up.
Unanswered(w) ==
  IF TriesAgain(lookup[w])
  THEN /\ Goto(w, [lookup[w] EXCEPT !.attempt = @ + 1])
       /\ UNCHANGED <<found, risks>>
  ELSE Returns(w, Nothing(w))

Panics(w) == Goto(w, At("lost")) /\ UNCHANGED <<found, risks>>

--------------------------------------------------------------------------------
\* The module

SubdomainInit ==
  /\ wild = {} /\ sampled = {} /\ cursor = 0 /\ next = 0
  /\ lookup = [w \in Word |-> At("todo")]
  /\ expired = {} /\ found = {} /\ risks = {}
  /\ dns = "idle"

\* Name servers, MX, TXT and DMARC, then a zone transfer from one of the name
\* servers, then up to four probes of the wildcard, if the domain has one. It has a
\* DMARC record, and a lookup that fails reads as there being none.
StartDNS ==
  /\ dns = "idle"
  /\ wild' \in {{}, Wildcard}
  /\ sampled' \in IF cancelled THEN {{}} ELSE SUBSET wild'
  /\ Add(IF cancelled THEN {Finding("dns", "No DMARC")}
         ELSE {Finding("dns", "AXFR") : name \in ZoneTransfer})
  /\ AddSharedSubdomains(IF cancelled THEN {} ELSE ZoneTransfer)
  /\ dns' = "brute"
  /\ UNCHANGED <<cursor, next, lookup, expired, found, risks>>
  /\ UNCHANGED <<limiterVars, width, cancelled, endpoints>>

\* The loop over the wordlist: wg.Add, a slot of the semaphore, go.
SpawnLookup ==
  /\ dns = "brute" /\ next < Len(Wordlist)
  /\ SlotFree(Working)
  /\ next' = next + 1
  /\ Goto(Wordlist[next + 1], At("host"))
  /\ UNCHANGED <<wild, sampled, cursor, expired, found, risks, dns>>
  /\ UNCHANGED <<limiterVars, contextVars>>

\* The deadline of cfg.Context(cfg.Timeout) passes.
Expire(w) ==
  /\ w \in Working \ expired
  /\ Cardinality(expired) < MaxExpiries
  /\ expired' = expired \cup {w}
  /\ UNCHANGED <<wild, sampled, cursor, next, lookup, found, risks, dns>>
  /\ UNCHANGED <<limiterVars, contextVars>>

\* The top of the loop in resolve: with its context done it returns at once ...
GiveUp(w) ==
  /\ w \in Working /\ ~InLine(w) /\ Done(w)
  /\ Returns(w, Nothing(w))
  /\ UNCHANGED <<wild, sampled, cursor, next, expired, dns>>
  /\ UNCHANGED <<limiterVars, contextVars>>

\* ... and otherwise waits for the limiter, which does not look at the context.
LineUp(w) ==
  /\ w \in Working /\ ~InLine(w) /\ ~Done(w)
  /\ JoinLine(w)
  /\ UNCHANGED <<dnsVars, contextVars>>

\* pick and query. The round trip is one step with the choice of its resolver: it
\* touches nothing that another worker can see.
Query(w) ==
  /\ w \in Working
  /\ TakeToken(w)
  /\ cursor' = Advance(cursor)
  /\ IF OutOfRange(cursor') THEN Panics(w)
     ELSE LET answers == Answers(Asked(w), lookup[w].qtype)
          IN  IF Done(w) \/ Pick(cursor') \in Broken \/ answers = {}
              THEN Unanswered(w)
              ELSE \E answer \in answers : Returns(w, answer)
  /\ UNCHANGED <<wild, sampled, next, expired, dns>>
  /\ UNCHANGED contextVars

\* wg.Wait has returned: the names are published and reported.
JoinDNS ==
  /\ dns = "brute" /\ next = Len(Wordlist) /\ Working = {}
  /\ AddSharedSubdomains(found)
  /\ Add({Finding("dns", "Subdomains")}
         \cup (IF risks # {} THEN {Finding("dns", "Takeover")} ELSE {}))
  /\ dns' = "done"
  /\ UNCHANGED <<wild, sampled, cursor, next, lookup, expired, found, risks>>
  /\ UNCHANGED <<limiterVars, width, cancelled, endpoints>>

Lookup(w) == Expire(w) \/ GiveUp(w) \/ LineUp(w) \/ Query(w)

DNSStep == StartDNS \/ SpawnLookup \/ (\E w \in Word : Lookup(w)) \/ JoinDNS

--------------------------------------------------------------------------------
\* Properties

\* A word whose lookup has run to its end.
Finished(w) == lookup[w].stage = "done" /\ w \notin expired /\ ~cancelled

\* One bad resolver in the list does not sink a lookup that has the pool to itself
\* (-c 1): every name the zone has is listed, v6-only names too, unless the wildcard
\* hides it; no service that is in use is reported as abandoned; and a name that
\* only the wildcard answers is listed only where the probes have missed an address
\* of the wildcard. (dnsengine.go:114-138, dns.go:348-404)
OneBadResolverIsSurvived ==
  \A w \in Word : width = 1 /\ Finished(w) =>
    LET ips == RecordOf(EndOf(w)).v4 \cup RecordOf(EndOf(w)).v6
    IN  /\ Exists(w) /\ ips # {} /\ ~(ips \subseteq sampled) => w \in found
        /\ w \in found /\ ~Exists(w) => ~(wild \subseteq sampled)
        /\ Exists(w) => w \notin risks

================================================================================
