----------------------------- MODULE ReconGuarantees ---------------------------
(* Further theorems about a whole scan: what the dns module makes of a pool with a *)
(* bad resolver in it, what the filters of dirbrute keep and drop, and how what    *)
(* one module publishes reaches the modules behind it.                            *)
EXTENDS ReconProofs

--------------------------------------------------------------------------------
\* Assumptions about what the network holds

\* Of two resolvers that the pool takes one after the other, one is sound.
NoTwoBroken ==
  \A i \in DOMAIN Resolvers :
    Resolvers[i] \in Broken => Resolvers[(i % Len(Resolvers)) + 1] \notin Broken

\* The name at the end of an alias is not an alias, and no service is known by no name.
AliasesEnd ==
  /\ \A n \in DOMAIN Zone : EndOf(n) \in DOMAIN Zone => Zone[EndOf(n)].alias = NoName
  /\ NoName \notin Hosted

--------------------------------------------------------------------------------
\* The inductive invariant: the lookups

Firsts(w) == RecordOf(EndOf(w)).v4
Addresses(w) == RecordOf(EndOf(w)).v4 \cup RecordOf(EndOf(w)).v6

LookupOK(w) ==
  /\ lookup[w] = [stage |-> lookup[w].stage, qtype |-> lookup[w].qtype,
                  attempt |-> lookup[w].attempt, ips |-> lookup[w].ips]
  /\ lookup[w].stage \in {"host", "target"} => lookup[w].qtype \in {"A", "AAAA"}
  /\ lookup[w].stage = "cname" => lookup[w].qtype = "CNAME"

\* A name without a record has the addresses of the wildcard only; past the test it
\* has one that the probes have missed.
GhostInv(w) ==
  ~Exists(w) =>
    /\ lookup[w].stage = "host" => lookup[w].ips \subseteq wild
    /\ lookup[w].stage \in {"cname", "target"} \/ w \in found => ~(wild \subseteq sampled)

\* A worker that is alone tries a query again only after a broken resolver, and the
\* next one is sound.
TriedOnce(w) ==
  \/ lookup[w].attempt = 0
  \/ lookup[w].attempt = 1 /\ Pick(cursor) \in Broken /\ ~OutOfRange(cursor)

\* So it learns all there is to know of a name that exists, unless it is stopped.
RealInv(w) ==
  Exists(w) /\ ~Done(w) =>
    /\ lookup[w].stage \in {"host", "target"} =>
         lookup[w].ips = IF lookup[w].qtype = "A" THEN {} ELSE Firsts(w)
    /\ lookup[w].stage \in {"cname", "target"} => Addresses(w) # {}
    /\ lookup[w].stage = "target" => RecordOf(w).alias # NoName
    /\ lookup[w].stage = "done" =>
         Addresses(w) = {} \/ Addresses(w) \subseteq sampled \/ w \in found
    /\ w \notin risks
    /\ w \in Working => TriedOnce(w)

PoolInv ==
  /\ cursor \in 0..(CursorSize - 1)
  /\ dns = "idle" => found = {} /\ risks = {} /\ \A w \in Word : lookup[w].stage = "todo"
  /\ \A w \in Word : LookupOK(w) /\ GhostInv(w)

AloneInv ==
  width = 1 => /\ \A v, w \in Working : v = w
               /\ \A w \in Word : RealInv(w)

LookupInv == LineInv /\ PoolInv /\ AloneInv

--------------------------------------------------------------------------------
\* Lemmas on remainders: the resolver after the one just taken

LEMMA TimesGrows ==
  ASSUME NEW k \in Nat, NEW a \in Int, NEW b \in Int, a <= b
  PROVE  k * a <= k * b
BY SMT

LEMMA RemainderIsUnique ==
  ASSUME NEW k \in Nat \ {0}, NEW a \in Int, NEW b \in Int,
         NEW r \in 0..(k - 1), NEW s \in 0..(k - 1), k * a + r = k * b + s
  PROVE  r = s
<1>1. CASE b >= a + 1
  <2>1. k * b >= k * a + k
    BY <1>1, TimesGrows
  <2> QED
    BY <2>1
<1>2. CASE b <= a - 1
  <2>1. k * a >= k * b + k
    BY <1>2, TimesGrows
  <2> QED
    BY <2>1
<1> QED
  BY <1>1, <1>2

LEMMA Remainder ==
  ASSUME NEW k \in Nat \ {0}, NEW a \in Int, NEW r \in 0..(k - 1)
  PROVE  (k * a + r) % k = r
<1>1. PICK n \in Int : n = k * a + r
  OBVIOUS
<1>2. /\ n \div k \in Int /\ n % k \in 0..(k - 1)
      /\ n = k * (n \div k) + (n % k)
  BY SMT
<1> QED
  BY <1>1, <1>2, RemainderIsUnique

LEMMA RemainderOfNext ==
  ASSUME NEW n \in Nat, NEW k \in Nat \ {0}
  PROVE  ((n % k) + 1) % k = (n + 1) % k
<1>1. PICK a \in Int, r \in 0..(k - 1) : n = k * a + r /\ n % k = r
  BY SMT
<1>2. CASE r + 1 < k
  <2>1. n + 1 = k * a + (r + 1)
    BY <1>1
  <2>2. (n + 1) % k = r + 1
    BY <1>1, <1>2, <2>1, Remainder
  <2>3. (r + 1) % k = r + 1
    BY <1>2
  <2> QED
    BY <1>1, <1>2, <2>2, <2>3
<1>3. CASE r + 1 = k
  <2>1. n + 1 = k * (a + 1) + 0
    BY <1>1, <1>3
  <2>2. (n + 1) % k = 0
    BY <1>1, <1>3, <2>1, Remainder
  <2>3. k % k = 0
    BY SMT
  <2> QED
    BY <1>1, <1>3, <2>2, <2>3
<1> QED
  BY <1>1, <1>2, <1>3

\* The pool goes round its list, and its cursor round its range.
LEMMA NextIsSound ==
  ASSUME NoTwoBroken, NEW n \in 0..(CursorSize - 1), Pick(n) \in Broken,
         ~OutOfRange(n), ~OutOfRange(Advance(n))
  PROVE  Pick(Advance(n)) \notin Broken
<1> DEFINE k == Len(Resolvers)
<1>1. k \in Nat \ {0} /\ DOMAIN Resolvers = 1..k /\ CursorSize \in Nat \ {0}
  BY SubdomainAssumption DEF SubdomainAssumption
<1>2. CASE k = 1
  <2>1. \A m \in Int : m % 1 = 0
    BY SMT
  <2>2. Resolvers[1] \notin Broken
    BY <1>1, <1>2, <2>1 DEF NoTwoBroken
  <2>3. Pick(n) = Resolvers[1]
    BY <1>2, <2>1 DEF Pick
  <2> QED
    BY <2>2, <2>3
<1>3. CASE k > 1
  <2>1. n # 0 /\ Advance(n) # 0
    BY <1>3 DEF OutOfRange
  <2>2. Advance(n) = n + 1
    <3>1. CASE n + 1 < CursorSize
      BY <1>1, <3>1 DEF Advance
    <3>2. CASE n + 1 = CursorSize
      <4>1. CursorSize % CursorSize = 0
        BY <1>1
      <4> QED
        BY <2>1, <3>2, <4>1 DEF Advance
    <3> QED
      BY <3>1, <3>2, <1>1
  <2>3. PICK i \in 0..(k - 1) : i = (n - 1) % k
    BY <1>1, <2>1, SMT
  <2>4. (i + 1) % k = n % k
    <3>1. n - 1 \in Nat /\ (n - 1) + 1 = n
      BY <1>1, <2>1
    <3> HIDE DEF k
    <3>2. \A m \in Nat : ((m % k) + 1) % k = (m + 1) % k
      BY <1>1, RemainderOfNext
    <3> QED
      BY <2>3, <3>1, <3>2
  <2>5. Pick(n) = Resolvers[i + 1] /\ Pick(Advance(n)) = Resolvers[((i + 1) % k) + 1]
    BY <1>1, <2>1, <2>2, <2>3, <2>4 DEF Pick
  <2>6. i + 1 \in DOMAIN Resolvers
    BY <1>1, <2>3
  <2> QED
    BY <2>5, <2>6 DEF NoTwoBroken
<1> QED
  BY <1>1, <1>2, <1>3

--------------------------------------------------------------------------------
\* The answers

\* What a sound resolver says of a name that exists, and of the end of its alias.
LEMMA AnswersOfReal ==
  ASSUME AliasesEnd, NEW w \in Word, Exists(w), LookupOK(w), w \in Working,
         lookup[w].stage = "target" => RecordOf(w).alias # NoName
  PROVE  /\ lookup[w].stage \in {"host", "target"} =>
              Answers(Asked(w), lookup[w].qtype)
                = {IF lookup[w].qtype = "A" THEN Firsts(w) ELSE RecordOf(EndOf(w)).v6}
         /\ lookup[w].stage = "cname" =>
              Answers(Asked(w), lookup[w].qtype) = {RecordOf(w).alias}
<1>1. w \in DOMAIN Zone /\ EndOf(w) \in DOMAIN Zone
  BY DEF Exists
<1>2. CASE lookup[w].stage = "target"
  <2>1. Asked(w) = EndOf(w) /\ lookup[w].qtype \in {"A", "AAAA"}
    BY <1>1, <1>2 DEF Asked, EndOf, RecordOf, LookupOK
  <2>2. EndOf(EndOf(w)) = EndOf(w)
    BY <1>1 DEF AliasesEnd, RecordOf, EndOf
  <2>3. Exists(EndOf(w))
    BY <1>1, <2>2 DEF Exists
  <2> QED
    BY <1>2, <2>1, <2>2, <2>3 DEF Answers, Firsts
<1>3. CASE lookup[w].stage = "host"
  <2>1. Asked(w) = w /\ lookup[w].qtype \in {"A", "AAAA"}
    BY <1>3 DEF Asked, LookupOK
  <2> QED
    BY <1>3, <2>1 DEF Answers, Firsts
<1>4. CASE lookup[w].stage = "cname"
  <2>1. Asked(w) = w /\ lookup[w].qtype = "CNAME"
    BY <1>4 DEF Asked, LookupOK
  <2> QED
    BY <1>4, <2>1 DEF Answers
<1> QED
  BY <1>2, <1>3, <1>4 DEF Working, Stages

\* ... and of a name that only the wildcard answers.
LEMMA AnswersOfGhost ==
  ASSUME NEW w \in Word, ~Exists(w), LookupOK(w), lookup[w].stage = "host",
         NEW a \in Answers(Asked(w), lookup[w].qtype)
  PROVE  a \subseteq wild
BY DEF Asked, Answers, LookupOK

--------------------------------------------------------------------------------
\* Steps of a lookup

\* A step that touches the entry of one word keeps the invariant if it keeps it there.
LEMMA OneLookup ==
  ASSUME LookupInv, NEW w \in Word, Turned(w),
         width = 1 => \A v \in Working : v = w,
         found \subseteq found', found' \subseteq found \cup {w}, risks' \subseteq risks \cup {w},
         cursor' \in 0..(CursorSize - 1), dns = "brute",
         UNCHANGED <<width, cancelled, wild, sampled, expired, dns>>,
         LookupOK(w)', GhostInv(w)', width = 1 => RealInv(w)'
  PROVE  PoolInv' /\ AloneInv'
<1>1. DOMAIN lookup = Word /\ \A v \in Word \ {w} : lookup'[v] = lookup[v]
  BY DEF LookupInv, LineInv, Turned
<1>2. \A v \in Word \ {w} : v \in Working' <=> v \in Working
  BY <1>1 DEF Working
<1>3. ASSUME NEW v \in Word \ {w}
      PROVE  LookupOK(v)' /\ GhostInv(v)' /\ (width = 1 => RealInv(v)')
  <2>1. LookupOK(v) /\ GhostInv(v) /\ lookup'[v] = lookup[v]
    BY <1>1, <1>3 DEF LookupInv, PoolInv
  <2>2. (v \in found' <=> v \in found) /\ (v \in risks' => v \in risks)
    BY <1>3
  <2>3. Done(v)' <=> Done(v)
    BY DEF Done
  <2>4. ASSUME width = 1
        PROVE  RealInv(v)'
    <3>1. v \notin Working' /\ RealInv(v)
      BY <1>2, <1>3, <2>4 DEF LookupInv, AloneInv
    <3> QED
      BY <2>1, <2>2, <2>3, <3>1 DEF RealInv
  <2> QED
    BY <2>1, <2>2, <2>4 DEF LookupOK, GhostInv
<1>4. PoolInv'
  BY <1>3 DEF PoolInv
<1>5. AloneInv'
  BY <1>2, <1>3 DEF AloneInv, Working
<1> QED
  BY <1>4, <1>5

\* A query has had its answer, or has come to nothing.
LEMMA LookupReturns ==
  ASSUME LookupInv, AliasesEnd, NEW w \in Working, NEW a, Returns(w, a), dns = "brute",
         cursor' \in 0..(CursorSize - 1),
         UNCHANGED <<width, cancelled, wild, sampled, expired, dns>>,
         lookup[w].stage = "host" /\ ~Exists(w) => a \subseteq wild,
         width = 1 /\ Exists(w) /\ ~Done(w) => a \in Answers(Asked(w), lookup[w].qtype)
  PROVE  PoolInv' /\ AloneInv'
<1>1. w \in Word /\ DOMAIN lookup = Word /\ Turned(w)
  BY ReturnsTurn DEF Working, LookupInv, LineInv
<1>2. LookupOK(w) /\ GhostInv(w)
  BY <1>1 DEF LookupInv, PoolInv
<1>3. found \subseteq found' /\ found' \subseteq found \cup {w} /\ risks' \subseteq risks \cup {w}
  BY DEF Returns, FirstHalf, HostResolved, AliasResolved, TargetResolved, List
<1>4. LookupOK(w)' /\ lookup'[w].attempt = 0
  BY <1>1 DEF Returns, FirstHalf, HostResolved, AliasResolved, TargetResolved, Goto, At,
     Asking, LookupOK
<1>5. GhostInv(w)'
  <2> SUFFICES ASSUME ~Exists(w) PROVE GhostInv(w)'
    BY DEF GhostInv
  <2>1. CASE FirstHalf(w, a)
    BY <1>1, <1>2, <2>1 DEF FirstHalf, Goto, Asking, GhostInv
  <2>2. CASE HostResolved(w, a)
    BY <1>1, <1>2, <2>2 DEF HostResolved, Goto, At, Asking, GhostInv, AllMatchWildcard
  <2>3. CASE AliasResolved(w, a)
    BY <1>1, <1>2, <2>3 DEF AliasResolved, Goto, At, Asking, GhostInv
  <2>4. CASE TargetResolved(w, a)
    BY <1>1, <1>2, <2>4 DEF TargetResolved, Goto, At, Asking, GhostInv
  <2> QED
    BY <2>1, <2>2, <2>3, <2>4 DEF Returns
<1>6. ASSUME width = 1
      PROVE  RealInv(w)'
  <2> SUFFICES ASSUME Exists(w), ~Done(w) PROVE RealInv(w)'
    BY DEF RealInv, Done
  <2>1. RealInv(w)
    BY <1>1, <1>6 DEF LookupInv, AloneInv
  <2>2. TriedOnce(w)'
    BY <1>4 DEF TriedOnce
  <2>3. /\ lookup[w].stage \in {"host", "target"} =>
             a = IF lookup[w].qtype = "A" THEN Firsts(w) ELSE RecordOf(EndOf(w)).v6
        /\ lookup[w].stage = "cname" => a = RecordOf(w).alias
    BY <1>1, <1>2, <1>6, <2>1, AnswersOfReal DEF RealInv
  <2>4. CASE FirstHalf(w, a)
    <3>1. /\ lookup'[w].stage = lookup[w].stage /\ lookup'[w].qtype = "AAAA"
          /\ lookup'[w].ips = Firsts(w) /\ lookup[w].stage \in {"host", "target"}
          /\ UNCHANGED <<found, risks>>
      BY <1>1, <2>3, <2>4 DEF FirstHalf, Goto, Asking
    <3> QED
      BY <2>1, <2>2, <3>1 DEF RealInv
  <2>5. CASE HostResolved(w, a)
    <3>1. lookup[w].ips \cup a = Addresses(w)
      BY <2>1, <2>3, <2>5 DEF HostResolved, RealInv, Firsts, Addresses
    <3>2. CASE Addresses(w) = {} \/ AllMatchWildcard(Addresses(w))
      <4>1. lookup'[w].stage = "done" /\ UNCHANGED <<found, risks>>
        BY <1>1, <2>5, <3>1, <3>2 DEF HostResolved, Goto, At, Asking
      <4> QED
        BY <2>1, <2>2, <3>2, <4>1 DEF RealInv, AllMatchWildcard
    <3>3. CASE ~(Addresses(w) = {} \/ AllMatchWildcard(Addresses(w)))
      <4>1. lookup'[w].stage = "cname" /\ UNCHANGED <<found, risks>>
        BY <1>1, <2>5, <3>1, <3>3 DEF HostResolved, Goto, Asking
      <4> QED
        BY <2>1, <2>2, <3>3, <4>1 DEF RealInv
    <3> QED
      BY <3>2, <3>3
  <2>6. CASE AliasResolved(w, a)
    <3>1. lookup[w].stage = "cname" /\ a = RecordOf(w).alias /\ risks' = risks
      BY <2>3, <2>6 DEF AliasResolved
    <3>2. CASE a \in Hosted
      <4>1. lookup'[w].stage = "target" /\ lookup'[w].qtype = "A" /\ lookup'[w].ips = {}
        BY <1>1, <2>6, <3>2 DEF AliasResolved, Goto, At, Asking
      <4>2. RecordOf(w).alias # NoName
        BY <3>1, <3>2 DEF AliasesEnd
      <4> QED
        BY <2>1, <2>2, <3>1, <4>1, <4>2 DEF RealInv
    <3>3. CASE a \notin Hosted
      <4>1. lookup'[w].stage = "done" /\ w \in found'
        BY <1>1, <2>6, <3>3 DEF AliasResolved, Goto, At, Asking, List
      <4> QED
        BY <2>1, <2>2, <3>1, <4>1 DEF RealInv
    <3> QED
      BY <3>2, <3>3
  <2>7. CASE TargetResolved(w, a)
    <3>1. lookup'[w].stage = "done" /\ w \in found'
      BY <1>1, <2>7 DEF TargetResolved, Goto, At, Asking, List
    <3>2. lookup[w].ips \cup a = Addresses(w) /\ Addresses(w) # {}
      BY <2>1, <2>3, <2>7 DEF TargetResolved, RealInv, Firsts, Addresses
    <3>3. risks' = risks
      BY <2>7, <3>2 DEF TargetResolved
    <3> QED
      BY <2>1, <2>2, <3>1, <3>3 DEF RealInv
  <2> QED
    BY <2>4, <2>5, <2>6, <2>7 DEF Returns
<1>7. width = 1 => \A v \in Working : v = w
  BY DEF LookupInv, AloneInv
<1> QED
  BY <1>1, <1>3, <1>4, <1>5, <1>6, <1>7, OneLookup

\* A query that its worker gives up, its context done, or has no tries left for.
LEMMA LookupFails ==
  ASSUME LookupInv, AliasesEnd, NEW w \in Working, Returns(w, Nothing(w)), dns = "brute",
         cursor' \in 0..(CursorSize - 1),
         UNCHANGED <<width, cancelled, wild, sampled, expired, dns>>,
         width = 1 /\ Exists(w) => Done(w)
  PROVE  PoolInv' /\ AloneInv'
<1>1. lookup[w].stage = "host" => Nothing(w) \subseteq wild
  BY DEF Nothing
<1> HIDE DEF Nothing
<1> QED
  BY <1>1, LookupReturns

\* A word gets a worker: nobody else has one if there is only one slot.
LEMMA LookupAtSpawn ==
  ASSUME LookupInv, SpawnLookup
  PROVE  PoolInv' /\ AloneInv'
<1>1. PICK w \in Word : w = Wordlist[next + 1]
  BY SubdomainAssumption DEF SpawnLookup, SubdomainAssumption, Word, LookupInv, LineInv
<1>2. Goto(w, At("host")) /\ Turned(w)
  BY <1>1, GoesOn, AskingHasStage DEF SpawnLookup, LookupInv, LineInv
<1>3. /\ dns = "brute" /\ SlotFree(Working)
      /\ UNCHANGED <<width, cancelled, wild, sampled, cursor, expired, found, risks, dns>>
  BY DEF SpawnLookup, contextVars
<1>4. lookup'[w] = [stage |-> "host", qtype |-> "A", attempt |-> 0, ips |-> {}]
  BY <1>1, <1>2 DEF Goto, At, Asking, LookupInv, LineInv
<1>5. width = 1 => Working = {}
  <2>1. IsFiniteSet(Word)
    <3>1. Wordlist \in Seq(STRING) /\ DOMAIN Wordlist = 1..Len(Wordlist) /\ Len(Wordlist) \in Nat
      BY SubdomainAssumption DEF SubdomainAssumption
    <3>2. Wordlist \in Surjection(DOMAIN Wordlist, Word)
      BY <3>1 DEF Surjection, Word
    <3> QED
      BY <3>1, <3>2, FS_Interval, FS_Surjection
  <2>2. IsFiniteSet(Working) /\ Cardinality(Working) \in Nat
    BY <2>1, FS_Subset, FS_CardinalityType DEF Working
  <2> QED
    BY <1>3, <2>2, FS_EmptySet DEF SlotFree
<1>6. LookupOK(w)' /\ GhostInv(w)' /\ (width = 1 => RealInv(w)')
  <2>1. LookupOK(w) /\ GhostInv(w) /\ (width = 1 => RealInv(w))
    BY <1>1 DEF LookupInv, PoolInv, AloneInv
  <2>2. LookupOK(w)' /\ GhostInv(w)'
    BY <1>3, <1>4, <2>1 DEF LookupOK, GhostInv
  <2>3. TriedOnce(w)'
    BY <1>4 DEF TriedOnce
  <2>4. width = 1 /\ Exists(w) /\ ~Done(w) => w \notin risks
    BY <2>1 DEF RealInv
  <2>5. width = 1 => RealInv(w)'
    BY <1>3, <1>4, <2>3, <2>4 DEF RealInv, Done
  <2> QED
    BY <2>2, <2>5
<1>7. cursor' \in 0..(CursorSize - 1)
  BY <1>3 DEF LookupInv, PoolInv
<1> QED
  BY <1>1, <1>2, <1>3, <1>5, <1>6, <1>7, OneLookup

\* One round trip: an answer, another try, or nothing.
LEMMA LookupAtQuery ==
  ASSUME LookupInv, AliasesEnd, NoTwoBroken, MaxAttempts > 1, dns = "brute",
         NEW w \in Word, Query(w)
  PROVE  PoolInv' /\ AloneInv'
<1>1. /\ w \in Working /\ cursor' = Advance(cursor)
      /\ UNCHANGED <<width, cancelled, wild, sampled, expired, dns>>
  BY DEF Query, contextVars
<1>2. /\ DOMAIN lookup = Word /\ cursor \in 0..(CursorSize - 1)
      /\ LookupOK(w) /\ GhostInv(w)
  BY DEF LookupInv, LineInv, PoolInv
<1>3. cursor' \in 0..(CursorSize - 1)
  BY <1>1, <1>2, SubdomainAssumption DEF Advance, SubdomainAssumption
<1>4. width = 1 => \A v \in Working : v = w
  BY <1>1 DEF LookupInv, AloneInv
<1>5. Turned(w)
  BY QueryTurns DEF LookupInv
<1>6. width = 1 => RealInv(w)
  BY DEF LookupInv, AloneInv
<1>7. CASE OutOfRange(cursor')
  <2>1. Goto(w, At("lost")) /\ UNCHANGED <<found, risks>>
    BY <1>7 DEF Query, Panics
  <2>2. lookup'[w] = [stage |-> "lost", qtype |-> "A", attempt |-> 0, ips |-> {}]
    BY <1>2, <2>1 DEF Goto, At, Asking
  <2>3. LookupOK(w)' /\ GhostInv(w)'
    BY <1>1, <1>2, <2>1, <2>2 DEF LookupOK, GhostInv
  <2>4. width = 1 => RealInv(w)'
    BY <1>1, <1>6, <2>1, <2>2 DEF RealInv, Done, Working, Stages
  <2> QED
    BY <1>1, <1>3, <1>4, <1>5, <2>1, <2>3, <2>4, OneLookup
<1> DEFINE answers == Answers(Asked(w), lookup[w].qtype)
           fails == Done(w) \/ Pick(cursor') \in Broken \/ answers = {}
<1>8. CASE ~OutOfRange(cursor') /\ ~fails
  <2>1. PICK a \in answers : Returns(w, a)
    BY <1>8 DEF Query
  <2>2. lookup[w].stage = "host" /\ ~Exists(w) => a \subseteq wild
    BY <1>2, <2>1, AnswersOfGhost
  <2> QED
    BY <1>1, <1>3, <2>1, <2>2, LookupReturns
<1>9. ASSUME width = 1, Exists(w), ~Done(w)
      PROVE  /\ TriedOnce(w) /\ answers # {}
             /\ lookup[w].attempt = 1 /\ ~OutOfRange(cursor') => Pick(cursor') \notin Broken
  <2>1. RealInv(w) /\ TriedOnce(w)
    BY <1>1, <1>6, <1>9 DEF RealInv
  <2>2. answers # {}
    BY <1>1, <1>2, <1>9, <2>1, AnswersOfReal DEF RealInv, Working, Stages
  <2>3. lookup[w].attempt = 1 /\ ~OutOfRange(cursor') => Pick(cursor') \notin Broken
    BY <1>1, <1>2, <2>1, NextIsSound DEF TriedOnce
  <2> QED
    BY <2>1, <2>2, <2>3
<1> HIDE DEF answers
<1>10. CASE ~OutOfRange(cursor') /\ fails
  <2>1. Unanswered(w)
    BY <1>10 DEF Query, answers
  <2>2. CASE TriesAgain(lookup[w])
    <3>1. Goto(w, [lookup[w] EXCEPT !.attempt = @ + 1]) /\ UNCHANGED <<found, risks>>
      BY <2>1, <2>2 DEF Unanswered
    <3>2. lookup'[w] = [stage |-> lookup[w].stage, qtype |-> lookup[w].qtype,
                        attempt |-> lookup[w].attempt + 1, ips |-> lookup[w].ips]
      BY <1>2, <3>1 DEF Goto, LookupOK
    <3>3. LookupOK(w)' /\ GhostInv(w)'
      BY <1>1, <1>2, <3>1, <3>2 DEF LookupOK, GhostInv
    <3>4. ASSUME width = 1, Exists(w), ~Done(w)
          PROVE  TriedOnce(w)'
      BY <1>9, <1>10, <3>2, <3>4 DEF TriedOnce
    <3>5. width = 1 => RealInv(w)'
      BY <1>1, <1>6, <3>1, <3>2, <3>4 DEF RealInv, Done, Working
    <3> QED
      BY <1>1, <1>3, <1>4, <1>5, <3>1, <3>3, <3>5, OneLookup
  <2>3. CASE ~TriesAgain(lookup[w])
    <3>1. Returns(w, Nothing(w))
      BY <2>1, <2>3 DEF Unanswered
    <3>2. width = 1 /\ Exists(w) => Done(w)
      BY <1>9, <1>10, <2>3, SubdomainAssumption DEF TriedOnce, TriesAgain, SubdomainAssumption
    <3> QED
      BY <1>1, <1>3, <3>1, <3>2, LookupFails
  <2> QED
    BY <2>2, <2>3
<1> QED
  BY <1>7, <1>8, <1>10

\* A step that leaves the lookups alone; a worker may be stopped by it.
LEMMA LookupKept ==
  ASSUME PoolInv, AloneInv,
         UNCHANGED <<width, wild, sampled, cursor, lookup, found, risks, dns>>,
         expired \subseteq expired', cancelled => cancelled'
  PROVE  PoolInv' /\ AloneInv'
<1>1. Working' = Working
  BY DEF Working
<1>2. \A w \in Word : Done(w) => Done(w)'
  BY DEF Done
<1>3. PoolInv'
  BY DEF PoolInv, LookupOK, GhostInv
<1>4. \A w \in Word : RealInv(w) => RealInv(w)'
  BY <1>1, <1>2 DEF RealInv, TriedOnce
<1> QED
  BY <1>1, <1>3, <1>4 DEF AloneInv

LEMMA LookupInDns ==
  ASSUME LookupInv, AliasesEnd, NoTwoBroken, MaxAttempts > 1, DNSStep
  PROVE  PoolInv' /\ AloneInv'
<1> USE DEF LookupInv
<1>1. CASE StartDNS
  <2>1. /\ dns = "idle" /\ dns' = "brute" /\ cancelled' = cancelled
        /\ UNCHANGED <<width, cursor, lookup, found, risks>>
    BY <1>1 DEF StartDNS
  <2>2. found = {} /\ risks = {} /\ \A w \in Word : lookup[w].stage = "todo"
    BY <2>1 DEF PoolInv
  <2>3. Working' = {}
    BY <2>1, <2>2 DEF Working, Stages
  <2>4. PoolInv'
    BY <2>1, <2>2 DEF PoolInv, LookupOK, GhostInv
  <2>5. \A w \in Word : RealInv(w)'
    BY <2>1, <2>2, <2>3 DEF RealInv
  <2> QED
    BY <2>3, <2>4, <2>5 DEF AloneInv
<1>2. CASE SpawnLookup
  BY <1>2, LookupAtSpawn
<1>3. ASSUME NEW w \in Word, Expire(w) \/ LineUp(w)
      PROVE  PoolInv' /\ AloneInv'
  BY <1>3, LookupKept DEF Expire, LineUp, dnsVars, contextVars
<1>4. ASSUME NEW w \in Word, GiveUp(w)
      PROVE  PoolInv' /\ AloneInv'
  <2>1. /\ w \in Working /\ Done(w) /\ Returns(w, Nothing(w)) /\ dns = "brute"
        /\ UNCHANGED <<width, cancelled, wild, sampled, cursor, expired, dns>>
    BY <1>4 DEF GiveUp, LineInv, contextVars
  <2>2. cursor' \in 0..(CursorSize - 1)
    BY <2>1 DEF PoolInv
  <2> QED
    BY <2>1, <2>2, LookupFails
<1>5. ASSUME NEW w \in Word, Query(w)
      PROVE  PoolInv' /\ AloneInv'
  <2>1. dns = "brute"
    BY <1>5 DEF Query, LineInv
  <2> QED
    BY <1>5, <2>1, LookupAtQuery
<1>6. CASE JoinDNS
  <2>1. /\ dns' = "done"
        /\ UNCHANGED <<width, cancelled, wild, sampled, cursor, lookup, expired, found, risks>>
    BY <1>6 DEF JoinDNS
  <2>2. Working' = Working
    BY <2>1 DEF Working
  <2>3. PoolInv'
    BY <2>1 DEF PoolInv, LookupOK, GhostInv
  <2>4. \A w \in Word : RealInv(w) => RealInv(w)'
    BY <2>1, <2>2 DEF RealInv, TriedOnce, Done
  <2> QED
    BY <2>1, <2>2, <2>3, <2>4 DEF AloneInv
<1> QED
  BY <1>1, <1>2, <1>3, <1>4, <1>5, <1>6 DEF DNSStep, Lookup

LEMMA LookupInit == Init => PoolInv /\ AloneInv
<1> SUFFICES ASSUME Init PROVE PoolInv /\ AloneInv
  OBVIOUS
<1>1. /\ cursor = 0 /\ found = {} /\ risks = {}
      /\ lookup = [w \in Word |-> At("todo")]
  BY DEF Init, SubdomainInit
<1>2. \A w \in Word :
        lookup[w] = [stage |-> "todo", qtype |-> "A", attempt |-> 0, ips |-> {}]
  BY <1>1 DEF At, Asking
<1>3. Working = {}
  BY <1>2 DEF Working, Stages
<1>4. \A w \in Word : LookupOK(w) /\ GhostInv(w) /\ RealInv(w)
  BY <1>1, <1>2, <1>3 DEF LookupOK, GhostInv, RealInv
<1>5. cursor \in 0..(CursorSize - 1)
  BY <1>1, SubdomainAssumption DEF SubdomainAssumption
<1> QED
  BY <1>1, <1>2, <1>3, <1>4, <1>5 DEF PoolInv, AloneInv

LEMMA LookupNext ==
  ASSUME LookupInv, AliasesEnd, NoTwoBroken, MaxAttempts > 1, [Next]_vars
  PROVE  PoolInv' /\ AloneInv'
<1> USE DEF LookupInv
<1>1. CASE DnsTurn
  BY <1>1, LookupInDns DEF DnsTurn
<1>2. CASE UNCHANGED <<dnsVars, width, cancelled>>
  BY <1>2, LookupKept DEF dnsVars
<1>3. CASE MainTurn
  <2>1. width' = width /\ (cancelled' = cancelled \/ cancelled' = TRUE)
    BY <1>3 DEF MainTurn, PipelineStep, StartModule, Surface, GenerateReport, TakeSnapshot,
       Opens, Writes, FileFails, MainReturns, ExecuteScanReturns, HandlerExits, Interrupt,
       Cancel, contextVars
  <2> QED
    BY <1>3, <2>1, LookupKept DEF MainTurn, dnsVars
<1>4. CASE PortTurn \/ CrawlTurn \/ OtherTurn \/ EndTurn \/ LimiterTurn
  <2>1. CASE PortTurn
    BY <1>2, <2>1, PortAdds DEF PortTurn
  <2>2. CASE CrawlTurn \/ OtherTurn
    BY <1>2, <2>2, CrawlAdds DEF CrawlTurn, OtherTurn, Adds
  <2>3. CASE EndTurn \/ LimiterTurn
    BY <1>2, <2>3 DEF EndTurn, LimiterTurn, contextVars
  <2> QED
    BY <1>4, <2>1, <2>2, <2>3
<1>5. CASE UNCHANGED vars
  BY <1>2, <1>5 DEF vars, engineVars, contextVars
<1> QED
  BY <1>1, <1>3, <1>4, <1>5, Turns

LEMMA LookupFollows == LookupInv => OneBadResolverIsSurvived
BY DEF LookupInv, PoolInv, AloneInv, GhostInv, RealInv, OneBadResolverIsSurvived, Finished,
   Done, Addresses

\* A worker that has the pool to itself is not misled by a broken resolver, if the next
\* of the list is sound and a query may be tried twice: what the zone has is listed, what
\* is in use is not reported as abandoned, and a name of the wildcard is listed only if
\* the probes have missed an address of it. (dnsengine.go:114-138, dns.go:348-404)
THEOREM BadResolverIsSurvived ==
  ASSUME AliasesEnd, NoTwoBroken, MaxAttempts > 1
  PROVE  Spec => []OneBadResolverIsSurvived
<1>1. Init => ReportInv /\ LookupInv
  BY ReportInit, LineInit, LookupInit DEF LookupInv
<1>2. ReportInv /\ LookupInv /\ [Next]_vars => (ReportInv /\ LookupInv)'
  BY ReportNext, LineNext, LookupNext DEF LookupInv
<1> QED
  BY <1>1, <1>2, LookupFollows, PTL DEF Spec

--------------------------------------------------------------------------------
\* The filters: where the median lies

Below(found0, s) == {q \in found0 : Size(q) < s}
UpTo(found0, s) == {q \in found0 : Size(q) <= s}

LEMMA FinitelyMany ==
  ASSUME NEW F, IsFiniteSet(F)
  PROVE  /\ Cardinality(F) \in Nat
         /\ \A A \in SUBSET F : /\ IsFiniteSet(A) /\ Cardinality(A) \in Nat
                                /\ Cardinality(A) <= Cardinality(F)
BY FS_CardinalityType, FS_Subset

\* Some size is that of every element or more.
LEMMA SizesEnd ==
  ASSUME NEW F, IsFiniteSet(F), F # {}, \A p \in F : Size(p) \in Nat
  PROVE  \E p \in F : UpTo(F, Size(p)) = F
<1> DEFINE n == Cardinality(F)
           c(p) == n - Cardinality(UpTo(F, Size(p)))
           T == {c(p) : p \in F}
<1>1. \A s : UpTo(F, s) \in SUBSET F
  BY DEF UpTo
<1>2. n \in Nat /\ \A s : IsFiniteSet(UpTo(F, s)) /\ Cardinality(UpTo(F, s)) \in 0..n
  BY <1>1, FinitelyMany
<1>3. T \in SUBSET Nat /\ T # {}
  BY <1>2
<1>4. PICK p \in F : \A q \in F : c(p) <= c(q)
  <2> HIDE DEF c
  <2>1. PICK t \in T : \A u \in T : t <= u
    <3> HIDE DEF T
    <3> QED
      BY <1>3, LeastNatural
  <2> QED
    BY <2>1
<1>5. ASSUME NEW q \in F, Size(q) > Size(p)
      PROVE  FALSE
  <2>1. UpTo(F, Size(p)) \cup {q} \subseteq UpTo(F, Size(q)) /\ q \notin UpTo(F, Size(p))
    BY <1>5 DEF UpTo
  <2>2. Cardinality(UpTo(F, Size(p)) \cup {q}) = Cardinality(UpTo(F, Size(p))) + 1
    BY <1>2, <2>1, FS_AddElement
  <2>3. Cardinality(UpTo(F, Size(p)) \cup {q}) <= Cardinality(UpTo(F, Size(q)))
    BY <1>2, <2>1, FinitelyMany
  <2> QED
    BY <1>2, <1>4, <2>2, <2>3
<1>6. UpTo(F, Size(p)) = F
  <2>1. \A q \in F : Size(q) <= Size(p)
    BY <1>5
  <2> QED
    BY <2>1 DEF UpTo
<1> QED
  BY <1>6

LEMMA MedianLies ==
  ASSUME NEW F, IsFiniteSet(F), F # {}, \A p \in F : Size(p) \in Nat
  PROVE  /\ Median(F) \in Nat
         /\ Cardinality(Below(F, Median(F))) <= Cardinality(F) \div 2
         /\ Cardinality(F) \div 2 < Cardinality(UpTo(F, Median(F)))
<1> DEFINE n == Cardinality(F)
           half == n \div 2
           K == {k \in Nat : half < Cardinality(UpTo(F, k))}
<1>1. /\ \A s : UpTo(F, s) \in SUBSET F
      /\ \A s : Below(F, s) \in SUBSET F
  BY DEF UpTo, Below
<1>2. /\ n \in Nat \ {0}
      /\ \A s : Cardinality(UpTo(F, s)) \in Nat /\ Cardinality(Below(F, s)) \in Nat
  BY <1>1, FinitelyMany, FS_EmptySet
<1>3. half \in Nat /\ half < n
  BY <1>2
<1> HIDE DEF half
<1>4. K # {}
  <2>1. PICK p \in F : UpTo(F, Size(p)) = F
    BY SizesEnd
  <2>2. Size(p) \in K
    BY <1>3, <2>1
  <2> QED
    BY <2>2
<1>5. PICK k \in K : \A m \in K : k <= m
  BY <1>4, LeastNatural
<1>6. Cardinality(Below(F, k)) <= half
  <2>1. CASE k = 0
    <3>1. Below(F, k) = {}
      BY <2>1 DEF Below
    <3> QED
      BY <1>3, <3>1, FS_EmptySet
  <2>2. CASE k > 0
    <3>1. Below(F, k) = UpTo(F, k - 1)
      BY <2>2 DEF Below, UpTo
    <3>2. k - 1 \in Nat /\ k - 1 \notin K
      BY <1>5, <2>2
    <3> QED
      BY <1>2, <1>3, <3>1, <3>2
  <2> QED
    BY <2>1, <2>2
<1>7. PICK p \in F : Size(p) = k
  <2>1. UpTo(F, k) # Below(F, k)
    BY <1>2, <1>3, <1>5, <1>6
  <2> QED
    BY <2>1 DEF UpTo, Below
<1>8. \E s \in {Size(p0) : p0 \in F} :
        Cardinality(Below(F, s)) <= half /\ half < Cardinality(UpTo(F, s))
  BY <1>5, <1>6, <1>7
<1>9. Median(F) = CHOOSE s \in {Size(p0) : p0 \in F} :
        Cardinality(Below(F, s)) <= half /\ half < Cardinality(UpTo(F, s))
  BY DEF Median, Below, UpTo, half
<1>10. /\ Median(F) \in {Size(p0) : p0 \in F}
       /\ Cardinality(Below(F, Median(F))) <= half /\ half < Cardinality(UpTo(F, Median(F)))
  BY <1>8, <1>9
<1> QED
  BY <1>10 DEF half

\* Where most sizes lie close together, the median is close to each of them.
LEMMA MedianOfMost ==
  ASSUME NEW F, IsFiniteSet(F), \A p \in F : Size(p) \in Nat,
         NEW A \in SUBSET F, 2 * Cardinality(A) > Cardinality(F),
         NEW d \in Nat, \A p, q \in A : Abs(Size(p) - Size(q)) <= d
  PROVE  Median(F) \in Nat /\ \A q \in A : Abs(Size(q) - Median(F)) <= d
<1> DEFINE n == Cardinality(F)
           half == n \div 2
<1>0. /\ \A s : UpTo(F, s) \in SUBSET F
      /\ \A s : Below(F, s) \in SUBSET F
  BY DEF UpTo, Below
<1>1. /\ n \in Nat /\ Cardinality(A) \in Nat /\ IsFiniteSet(A)
      /\ \A s : IsFiniteSet(UpTo(F, s)) /\ Cardinality(UpTo(F, s)) \in Nat
      /\ \A s : IsFiniteSet(Below(F, s)) /\ Cardinality(Below(F, s)) \in Nat
  BY <1>0, FinitelyMany
<1>2. F # {}
  BY <1>1, FS_EmptySet
<1>3. PICK m \in Nat : /\ m = Median(F) /\ Cardinality(Below(F, m)) <= half
                       /\ half < Cardinality(UpTo(F, m))
  BY <1>2, MedianLies
<1>4. half \in Nat /\ 2 * half <= n /\ n <= 2 * half + 1
  BY <1>1
<1> HIDE DEF half
<1>5. \E p \in A : Size(p) >= m
  <2> SUFFICES ASSUME \A p \in A : Size(p) < m PROVE FALSE
    OBVIOUS
  <2>1. A \subseteq Below(F, m)
    BY DEF Below
  <2>2. Cardinality(A) <= Cardinality(Below(F, m))
    BY <1>1, <2>1, FinitelyMany
  <2> QED
    BY <1>1, <1>3, <1>4, <2>2
<1>6. \E p \in A : Size(p) <= m
  <2> SUFFICES ASSUME \A p \in A : Size(p) > m PROVE FALSE
    OBVIOUS
  <2>1. A \subseteq F \ UpTo(F, m) /\ F \cap UpTo(F, m) = UpTo(F, m)
    BY DEF UpTo
  <2>2. /\ IsFiniteSet(F \ UpTo(F, m))
        /\ Cardinality(F \ UpTo(F, m)) = n - Cardinality(UpTo(F, m))
    BY <2>1, FS_Difference
  <2>3. Cardinality(A) <= Cardinality(F \ UpTo(F, m))
    BY <2>1, <2>2, FinitelyMany
  <2> QED
    BY <1>1, <1>3, <1>4, <2>2, <2>3
<1>7. ASSUME NEW q \in A
      PROVE  Abs(Size(q) - m) <= d
  <2>1. PICK a \in A, b \in A : Size(a) >= m /\ Size(b) <= m
    BY <1>5, <1>6
  <2>2. Abs(Size(q) - Size(a)) <= d /\ Abs(Size(q) - Size(b)) <= d
    BY <1>7, <2>1
  <2>3. Size(q) \in Nat /\ Size(a) \in Nat /\ Size(b) \in Nat
    BY <1>7, <2>1
  <2> QED
    BY <2>1, <2>2, <2>3 DEF Abs
<1> QED
  BY <1>3, <1>7

--------------------------------------------------------------------------------
\* The filters: what they keep

\* Two copies of a page differ in size by the paths they quote, and in no more.
CopiesAgree ==
  \A s \in Servers : \A p, q \in DOMAIN s.served :
    /\ s.served[p].status = 200 /\ s.served[q].status = 200
    /\ s.served[p].hash = s.served[q].hash
    => Abs(s.served[p].size - s.served[q].size) <= 150

SizesOK == IsFiniteSet(hits) /\ \A p \in hits : Size(p) \in Nat

LEMMA ToleranceIsLeast ==
  ASSUME NEW m \in Nat, NEW least \in Nat
  PROVE  Tolerance(m, least) \in Nat /\ Tolerance(m, least) >= least
BY DEF Tolerance

\* The paths that most are alike with lie in the cluster, which is then dominant.
LEMMA ClusterOfMost ==
  ASSUME NEW F, IsFiniteSet(F), \A p \in F : Size(p) \in Nat,
         NEW A \in SUBSET F, A # {}, IsShare(A, 70, F),
         NEW d \in Nat, \A p, q \in A : Abs(Size(p) - Size(q)) <= d,
         NEW least \in Nat, d <= least
  PROVE  /\ A \subseteq Cluster(F, least) /\ Cluster(F, least) \subseteq F
         /\ IsShare(Cluster(F, least), 70, F)
<1>1. /\ Cardinality(F) \in Nat /\ Cardinality(A) \in Nat /\ Cardinality(A) > 0
      /\ IsFiniteSet(A)
  <2>1. IsFiniteSet(A) /\ Cardinality(A) \in Nat /\ Cardinality(F) \in Nat
    BY FinitelyMany
  <2> QED
    BY <2>1, FS_EmptySet
<1>2. 2 * Cardinality(A) > Cardinality(F)
  BY <1>1 DEF IsShare
<1>3. Median(F) \in Nat /\ \A q \in A : Abs(Size(q) - Median(F)) <= d
  BY <1>2, MedianOfMost
<1>4. Tolerance(Median(F), least) \in Nat /\ Tolerance(Median(F), least) >= d
  <2>1. Tolerance(Median(F), least) \in Nat /\ Tolerance(Median(F), least) >= least
    BY <1>3, ToleranceIsLeast
  <2> QED
    BY <2>1
<1>5. \A q \in A : Abs(Size(q) - Median(F)) <= Tolerance(Median(F), least)
  <2> SUFFICES ASSUME NEW q \in A
               PROVE  Abs(Size(q) - Median(F)) <= Tolerance(Median(F), least)
    OBVIOUS
  <2>1. Size(q) \in Nat /\ Abs(Size(q) - Median(F)) \in Int
    BY <1>3 DEF Abs
  <2>2. Abs(Size(q) - Median(F)) <= d
    BY <1>3
  <2> QED
    BY <1>4, <2>1, <2>2
<1>6. A \subseteq Cluster(F, least) /\ Cluster(F, least) \subseteq F
  BY <1>5 DEF Cluster
<1> HIDE DEF Cluster
<1>7. /\ Cardinality(Cluster(F, least)) \in Nat
      /\ Cardinality(A) <= Cardinality(Cluster(F, least))
  BY <1>6, FinitelyMany
<1> QED
  BY <1>1, <1>6, <1>7 DEF IsShare

\* A page that is served for most paths is the common page, and dropped.
LEMMA CommonPageGoes ==
  ASSUME SizesOK, NEW pages0 \in ClusterFilterSoft404s, NEW p \in hits,
         \A a, b \in With(200) : BodyHash(a) = BodyHash(b) => Abs(Size(a) - Size(b)) <= 150,
         Status(p) = 200, p \notin Classified, Cardinality(Alike(p)) >= 8,
         IsShare(Alike(p), 70, With(200))
  PROVE  p \notin pages0
<1> DEFINE F == With(200)
           A == Alike(p)
           C == Cluster(F, 150)
<1>1. /\ A = {q \in F : BodyHash(q) = BodyHash(p)} /\ p \in A
      /\ IsFiniteSet(F) /\ \A q \in F : Size(q) \in Nat
  <2>1. F \in SUBSET hits
    BY DEF With
  <2>2. IsFiniteSet(F)
    BY <2>1, FinitelyMany DEF SizesOK
  <2> QED
    BY <2>1, <2>2 DEF SizesOK, Alike, With
<1>2. /\ Cardinality(F) \in Nat /\ Cardinality(A) \in Nat
      /\ Cardinality(A) <= Cardinality(F) /\ Cardinality(A) * 100 >= 70 * Cardinality(F)
  BY <1>1, FinitelyMany DEF IsShare
<1>3. A \subseteq C /\ C \subseteq F /\ IsShare(C, 70, F)
  <2>1. \A a, b \in A : Abs(Size(a) - Size(b)) <= 150
    BY <1>1
  <2> HIDE DEF A, F
  <2>2. A \in SUBSET F /\ A # {} /\ IsShare(A, 70, F)
    BY <1>1 DEF A, F
  <2> QED
    BY <1>1, <2>1, <2>2, ClusterOfMost
<1>4. PICK shell \in ModalBodyHash(C) : pages0 = KeptBy(F, C, shell)
  BY <1>2, <1>3 DEF ClusterFilterSoft404s
<1> DEFINE Having(h) == {q \in C : BodyHash(q) = h}
<1> HIDE DEF A, C, F
<1>5. /\ shell \in {BodyHash(q) : q \in C}
      /\ \A g \in {BodyHash(q) : q \in C} : Cardinality(Having(g)) <= Cardinality(Having(shell))
  BY <1>4 DEF ModalBodyHash
<1>6. Having(BodyHash(p)) = A
  BY <1>1, <1>3
<1>7. shell = BodyHash(p)
  <2> SUFFICES ASSUME shell # BodyHash(p) PROVE FALSE
    OBVIOUS
  <2>1. Cardinality(A) <= Cardinality(Having(shell))
    <3>1. BodyHash(p) \in {BodyHash(q) : q \in C}
      BY <1>1, <1>3
    <3> HIDE DEF Having
    <3> QED
      BY <1>5, <1>6, <3>1
  <2>2. Having(shell) \subseteq F \ A
    BY <1>1, <1>3
  <2>3. /\ IsFiniteSet(F \ A) /\ Cardinality(F \ A) = Cardinality(F) - Cardinality(A)
    <3>1. F \cap A = A /\ IsFiniteSet(F)
      BY <1>1
    <3>2. /\ IsFiniteSet(F \ A)
          /\ Cardinality(F \ A) = Cardinality(F) - Cardinality(F \cap A)
      BY <3>1, FS_Difference
    <3> QED
      BY <3>1, <3>2
  <2> HIDE DEF Having
  <2>4. Cardinality(Having(shell)) \in Nat /\ Cardinality(Having(shell)) <= Cardinality(F \ A)
    BY <2>2, <2>3, FinitelyMany
  <2>5. Cardinality(A) >= 8
    BY DEF A
  <2> QED
    BY <1>2, <2>1, <2>3, <2>4, <2>5
<1> QED
  BY <1>1, <1>3, <1>4, <1>7 DEF KeptBy, ProvablyShell

\* A page with a body of its own is not the common page, if there is one.
LEMMA OwnBodyStays ==
  ASSUME SizesOK, NEW pages0 \in ClusterFilterSoft404s, NEW p \in hits, Status(p) = 200,
         p \in Classified \/ (p \in AlwaysKeep /\ Alike(p) = {p} /\ PageIsShared)
  PROVE  p \in pages0
<1> DEFINE F == With(200)
           C == Cluster(F, 150)
<1>1. p \in F
  BY DEF With
<1>2. CASE pages0 = F
  BY <1>1, <1>2
<1>3. ASSUME NEW shell \in ModalBodyHash(C), pages0 = KeptBy(F, C, shell)
      PROVE  p \in pages0
  <2>1. CASE p \in Classified \/ p \notin C
    BY <1>1, <1>3, <2>1 DEF KeptBy
  <2>2. CASE p \in AlwaysKeep /\ Alike(p) = {p} /\ PageIsShared /\ p \in C
    <3> DEFINE Having(h) == {q \in C : BodyHash(q) = h}
    <3>1. C \subseteq F /\ F \subseteq hits
      BY DEF With, Cluster
    <3>2. PICK a \in C, b \in C : a # b /\ BodyHash(a) = BodyHash(b)
      BY <2>2 DEF PageIsShared
    <3> HIDE DEF C
    <3>3. \A g \in {BodyHash(q) : q \in C} : Cardinality(Having(g)) <= Cardinality(Having(shell))
      BY <1>3 DEF ModalBodyHash
    <3>4. \A g : IsFiniteSet(Having(g)) /\ Cardinality(Having(g)) \in Nat
      BY <3>1, FinitelyMany DEF SizesOK
    <3>5. Cardinality(Having(BodyHash(a))) >= 2
      <4>1. Cardinality({a}) = 1 /\ IsFiniteSet({a})
        BY FS_Singleton
      <4>2. Cardinality({a} \cup {b}) = 2
        <5>1. b \notin {a}
          BY <3>2
        <5> QED
          BY <4>1, <5>1, FS_AddElement
      <4>3. {a} \cup {b} \subseteq Having(BodyHash(a))
        BY <3>2
      <4> HIDE DEF Having
      <4> QED
        BY <3>4, <4>2, <4>3, FinitelyMany
    <3>6. Having(BodyHash(p)) = {p}
      <4>1. \A q \in F : BodyHash(q) = BodyHash(p) => q = p
        BY <2>2 DEF Alike
      <4> QED
        BY <2>2, <3>1, <4>1
    <3>7. Cardinality(Having(BodyHash(p))) = 1
      BY <3>6, FS_Singleton
    <3>8. shell # BodyHash(p)
      <4>1. BodyHash(a) \in {BodyHash(q) : q \in C}
        BY <3>2
      <4> HIDE DEF Having
      <4> QED
        BY <3>3, <3>4, <3>5, <3>7, <4>1
    <3> QED
      BY <1>1, <1>3, <2>2, <3>8 DEF KeptBy, ProvablyShell
  <2> QED
    BY <2>1, <2>2
<1> QED
  BY <1>2, <1>3 DEF ClusterFilterSoft404s

\* A block page that most forbidden paths were given is dropped.
LEMMA BlockPageGoes ==
  ASSUME SizesOK, NEW p \in hits, Status(p) = 403, Cardinality(Alike(p)) >= 5,
         IsShare(Alike(p), 70, With(403))
  PROVE  p \notin FilterCatchAll403s
<1> DEFINE F == With(403)
           A == Alike(p)
<1>1. /\ A = {q \in F : Size(q) = Size(p)} /\ p \in A
      /\ IsFiniteSet(F) /\ \A q \in F : Size(q) \in Nat
  <2>1. F \in SUBSET hits
    BY DEF With
  <2>2. IsFiniteSet(F)
    BY <2>1, FinitelyMany DEF SizesOK
  <2> QED
    BY <2>1, <2>2 DEF SizesOK, Alike, With
<1>2. A \subseteq Cluster(F, 64) /\ IsShare(Cluster(F, 64), 70, F)
  <2>1. \A a, b \in A : Abs(Size(a) - Size(b)) <= 0
    BY <1>1 DEF Abs
  <2> HIDE DEF A, F
  <2>2. A \in SUBSET F /\ A # {} /\ IsShare(A, 70, F)
    BY <1>1 DEF A, F
  <2> QED
    BY <1>1, <2>1, <2>2, ClusterOfMost
<1>3. Cardinality(F) \in Nat /\ Cardinality(A) \in Nat /\ Cardinality(A) <= Cardinality(F)
  BY <1>1, FinitelyMany
<1>4. FilterCatchAll403s = F \ Cluster(F, 64)
  BY <1>2, <1>3 DEF FilterCatchAll403s
<1> QED
  BY <1>1, <1>2, <1>4

--------------------------------------------------------------------------------
\* The inductive invariant: the probes

Filtered ==
  \E pages0 \in ClusterFilterSoft404s :
    kept = pages0 \cup FilterCatchAll403s \cup With(301) \cup With(302)

ProbeInv ==
  /\ tried \in Nat /\ IsFiniteSet(hits)
  /\ brute = "idle" => hits = {} /\ sent = {}
  /\ brute # "idle" => /\ server \in Servers /\ paths \in Seq(DOMAIN server.served)
                       /\ sent \cup hits \subseteq DOMAIN server.served
  /\ brute = "done" => sent = {} /\ Filtered

\* Only its own steps touch the dirbrute module.
LEMMA BruteTurns ==
  ASSUME [Next]_vars
  PROVE  BruteStep \/ UNCHANGED bruteVars
BY DEF Next, Program, ModuleStep, LimiterStep, vars, engineVars

\* What the filters make of the hits depends on the server, its baseline and the hits.
LEMMA FiltersUnchanged ==
  ASSUME UNCHANGED <<server, baseline, hits>>
  PROVE  /\ ClusterFilterSoft404s' = ClusterFilterSoft404s
         /\ FilterCatchAll403s' = FilterCatchAll403s
         /\ \A status : With(status)' = With(status)
<1>1. \A status : With(status)' = With(status)
  BY DEF With, Status
<1>2. \A F : Median(F)' = Median(F)
  BY DEF Median, Size
<1>3. \A F, least : Cluster(F, least)' = Cluster(F, least)
  BY <1>2 DEF Cluster, Size
<1>4. \A C : ModalBodyHash(C)' = ModalBodyHash(C)
  BY DEF ModalBodyHash, BodyHash
<1>5. \A F, C, shell : KeptBy(F, C, shell)' = KeptBy(F, C, shell)
  BY DEF KeptBy, ProvablyShell, BodyHash
<1>6. \A F, C : BaselineConfirms(F, C)' = BaselineConfirms(F, C)
  BY <1>2 DEF BaselineConfirms
<1>7. FilterCatchAll403s' = FilterCatchAll403s
  BY <1>1, <1>3 DEF FilterCatchAll403s
<1>8. ClusterFilterSoft404s' = ClusterFilterSoft404s
  BY <1>1, <1>3, <1>4, <1>5, <1>6 DEF ClusterFilterSoft404s
<1> QED
  BY <1>1, <1>7, <1>8

LEMMA ProbeKept ==
  ASSUME ProbeInv, UNCHANGED bruteVars
  PROVE  ProbeInv'
<1>1. UNCHANGED <<server, paths, baseline, tried, sent, hits, kept, brute>>
  BY DEF bruteVars
<1>2. Filtered => Filtered'
  BY <1>1, FiltersUnchanged DEF Filtered
<1> QED
  BY <1>1, <1>2 DEF ProbeInv

LEMMA ProbeNext ==
  ASSUME ProbeInv, [Next]_vars
  PROVE  ProbeInv'
<1> USE DEF ProbeInv
<1>1. CASE StartBrute
  <2>1. /\ brute = "idle" /\ brute' \in {"probing", "unreachable"} /\ server' \in Servers
        /\ paths' \in PathLists /\ UNCHANGED <<tried, sent, hits>>
    BY <1>1 DEF StartBrute
  <2>2. paths' \in Seq(DOMAIN server'.served)
    BY <2>1, BruteAssumption DEF BruteAssumption
  <2> QED
    BY <2>1, <2>2
<1>2. CASE SpawnProbe
  <2>1. /\ brute = "probing" /\ tried < Len(paths) /\ tried' = tried + 1
        /\ sent' = sent \cup {paths[tried + 1]}
        /\ UNCHANGED <<server, paths, hits, brute>>
    BY <1>2 DEF SpawnProbe
  <2>2. paths[tried + 1] \in DOMAIN server.served
    BY <2>1
  <2> QED
    BY <2>1, <2>2
<1>3. ASSUME NEW p \in sent, Answered(p) \/ Unheard(p)
      PROVE  ProbeInv'
  <2>1. /\ sent' = sent \ {p} /\ hits' \in {hits, hits \cup {p}}
        /\ UNCHANGED <<server, paths, tried, brute>> /\ brute # "done" /\ brute # "idle"
    BY <1>3 DEF Answered, Unheard
  <2>2. IsFiniteSet(hits')
    BY <2>1, FS_AddElement
  <2> QED
    BY <1>3, <2>1, <2>2
<1>4. CASE JoinBrute
  <2>1. /\ brute = "probing" /\ sent = {} /\ brute' = "done"
        /\ UNCHANGED <<server, paths, baseline, tried, sent, hits>>
    BY <1>4 DEF JoinBrute
  <2>2. PICK pages0 \in ClusterFilterSoft404s :
          kept' = pages0 \cup FilterCatchAll403s \cup With(301) \cup With(302)
    BY <1>4 DEF JoinBrute
  <2>3. /\ ClusterFilterSoft404s' = ClusterFilterSoft404s
        /\ FilterCatchAll403s' = FilterCatchAll403s
        /\ With(301)' = With(301) /\ With(302)' = With(302)
    BY <2>1, FiltersUnchanged
  <2>4. Filtered'
    BY <2>2, <2>3 DEF Filtered
  <2> QED
    BY <2>1, <2>4
<1>5. CASE UNCHANGED bruteVars
  BY <1>5, ProbeKept
<1> QED
  BY <1>1, <1>2, <1>3, <1>4, <1>5, BruteTurns DEF BruteStep

LEMMA ProbeFollows ==
  ASSUME CopiesAgree, ProbeInv
  PROVE  SensitiveKept
<1> SUFFICES ASSUME brute = "done", NEW p \in hits
             PROVE  /\ /\ Status(p) = 200
                       /\ p \in Classified \/ (p \in AlwaysKeep /\ Alike(p) = {p} /\ PageIsShared)
                       => p \in kept
                    /\ /\ \/ Status(p) = 200 /\ p \notin Classified /\ Cardinality(Alike(p)) >= 8
                          \/ Status(p) = 403 /\ Cardinality(Alike(p)) >= 5
                       /\ IsShare(Alike(p), 70, With(Status(p)))
                       => p \notin kept
  BY DEF SensitiveKept
<1>1. server \in Servers /\ hits \subseteq DOMAIN server.served
  BY DEF ProbeInv
<1>2. SizesOK
  BY <1>1, BruteAssumption DEF SizesOK, ProbeInv, BruteAssumption, Size
<1>3. \A a, b \in With(200) : BodyHash(a) = BodyHash(b) => Abs(Size(a) - Size(b)) <= 150
  BY <1>1 DEF CopiesAgree, With, BodyHash, Size, Status
<1>4. PICK pages0 \in ClusterFilterSoft404s :
        kept = pages0 \cup FilterCatchAll403s \cup With(301) \cup With(302)
  BY DEF ProbeInv, Filtered
<1>5. /\ pages0 \subseteq With(200) /\ FilterCatchAll403s \subseteq With(403)
      /\ \A q \in With(301) : Status(q) = 301
      /\ \A q \in With(302) : Status(q) = 302
      /\ \A q \in With(200) : Status(q) = 200
      /\ \A q \in With(403) : Status(q) = 403
  <2>1. pages0 \subseteq With(200)
    BY <1>4 DEF ClusterFilterSoft404s, KeptBy
  <2>2. FilterCatchAll403s \subseteq With(403)
    BY DEF FilterCatchAll403s
  <2> QED
    BY <2>1, <2>2 DEF With
<1>6. ASSUME Status(p) = 200,
             p \in Classified \/ (p \in AlwaysKeep /\ Alike(p) = {p} /\ PageIsShared)
      PROVE  p \in kept
  BY <1>2, <1>4, <1>6, OwnBodyStays
<1>7. ASSUME Status(p) = 200, p \notin Classified, Cardinality(Alike(p)) >= 8,
             IsShare(Alike(p), 70, With(200))
      PROVE  p \notin kept
  <2>1. p \notin pages0
    BY <1>2, <1>3, <1>7, CommonPageGoes
  <2> QED
    BY <1>4, <1>5, <1>7, <2>1
<1>8. ASSUME Status(p) = 403, Cardinality(Alike(p)) >= 5, IsShare(Alike(p), 70, With(403))
      PROVE  p \notin kept
  <2>1. p \notin FilterCatchAll403s
    BY <1>2, <1>8, BlockPageGoes
  <2> QED
    BY <1>4, <1>5, <1>8, <2>1
<1> QED
  BY <1>6, <1>7, <1>8

\* The two filters of dirbrute part the common page from the real hits, for any server,
\* wordlist and loss of requests, if the copies of a page differ little in size: the
\* median lies among the sizes most paths have, so the page most were given is in the
\* cluster and is its most frequent body, which no body of one path is.
\* (discovery.go:1343-1516)
THEOREM HitsAreKept ==
  ASSUME CopiesAgree
  PROVE  Spec => []SensitiveKept
<1>1. Init => ProbeInv
  BY FS_EmptySet DEF Init, BruteInit, ProbeInv
<1>2. ProbeInv /\ [Next]_vars => ProbeInv'
  BY ProbeNext
<1>3. ProbeInv => SensitiveKept
  BY ProbeFollows
<1> QED
  BY <1>1, <1>2, <1>3, PTL DEF Spec

--------------------------------------------------------------------------------
\* httprobe: the fold behind LiveHosts, one append at a time

Joined(list, answers) == UNION {Listed(list, a) : a \in answers}
Listing(g, D, answers) ==
  g = [s \in SUBSET D |-> IF s = {} THEN {} ELSE Joined(g[s \ {Max(s)}], answers[Max(s)])]

LEMMA LargestOfPart ==
  ASSUME NEW m \in Nat, NEW s \in SUBSET (1..m), m \in s
  PROVE  Max(s) = m
<1>1. \A y \in s : m >= y
  OBVIOUS
<1>2. \A x \in s : (\A y \in s : x >= y) => x = m
  OBVIOUS
<1> QED
  BY <1>1, <1>2 DEF Max

LEMMA ListingGoesOn ==
  ASSUME NEW m \in Nat \ {0}, NEW answers, NEW g, Listing(g, 1..(m - 1), answers)
  PROVE  Listing([s \in SUBSET (1..m) |->
                    IF m \in s THEN Joined(g[s \ {m}], answers[m]) ELSE g[s]], 1..m, answers)
<1> DEFINE h == [s \in SUBSET (1..m) |-> IF m \in s THEN Joined(g[s \ {m}], answers[m]) ELSE g[s]]
           W == [s \in SUBSET (1..m) |->
                   IF s = {} THEN {} ELSE Joined(h[s \ {Max(s)}], answers[Max(s)])]
<1>1. ASSUME NEW s \in SUBSET (1..m)
      PROVE  h[s] = W[s]
  <2>1. CASE m \in s
    <3>1. Max(s) = m
      BY <2>1, LargestOfPart
    <3>2. s \ {m} \in SUBSET (1..m) /\ m \notin s \ {m}
      OBVIOUS
    <3>3. h[s \ {m}] = g[s \ {m}]
      BY <3>2
    <3> QED
      BY <2>1, <3>1, <3>3
  <2>2. CASE m \notin s
    <3>1. s \in SUBSET (1..(m - 1)) /\ h[s] = g[s]
      BY <2>2
    <3>2. g[s] = IF s = {} THEN {} ELSE Joined(g[s \ {Max(s)}], answers[Max(s)])
      BY <3>1 DEF Listing
    <3>3. s \ {Max(s)} \in SUBSET (1..m) /\ m \notin s \ {Max(s)}
      BY <2>2
    <3>4. h[s \ {Max(s)}] = g[s \ {Max(s)}]
      BY <3>3
    <3> QED
      BY <3>1, <3>2, <3>4
  <2> QED
    BY <2>1, <2>2
<1> HIDE DEF h, W
<1>2. h = W
  <2>1. h = [s \in SUBSET (1..m) |-> h[s]] /\ W = [s \in SUBSET (1..m) |-> W[s]]
    BY DEF h, W
  <2> QED
    BY <1>1, <2>1
<1> QED
  BY <1>2 DEF Listing, h, W

LEMMA ListingExists ==
  ASSUME NEW n \in Nat, NEW answers
  PROVE  \E g : Listing(g, 1..n, answers)
<1> DEFINE Bad == {m \in Nat : ~\E g : Listing(g, 1..m, answers)}
<1>1. SUFFICES ASSUME Bad # {} PROVE FALSE
  OBVIOUS
<1>2. PICK m \in Bad : \A k \in Bad : m <= k
  BY <1>1, LeastNatural
<1>3. m # 0
  <2> DEFINE g == [s \in SUBSET (1..0) |-> {}]
  <2>1. \A s \in SUBSET (1..0) : s = {}
    OBVIOUS
  <2>2. Listing(g, 1..0, answers)
    BY <2>1 DEF Listing
  <2>3. 0 \notin Bad
    BY <2>2
  <2> QED
    BY <1>2, <2>3
<1>4. m \in Nat \ {0} /\ m - 1 \in Nat /\ m - 1 \notin Bad
  BY <1>2, <1>3
<1>5. PICK g : Listing(g, 1..(m - 1), answers)
  BY <1>4
<1> QED
  BY <1>2, <1>4, <1>5, ListingGoesOn

LEMMA ListingStep ==
  ASSUME NEW n \in Nat, NEW m \in 1..n, NEW answers, NEW g, Listing(g, 1..n, answers)
  PROVE  g[1..m] = Joined(g[1..(m - 1)], answers[m])
<1>1. (1..m) \in SUBSET (1..n) /\ 1..m # {} /\ (1..m) \ {m} = 1..(m - 1)
  <2>1. m \in Int /\ n \in Int /\ 1 <= m /\ m <= n
    OBVIOUS
  <2>2. (\A x \in 1..m : x \in 1..n) /\ m \in 1..m
    BY <2>1
  <2>3. (1..m) \ {m} = 1..(m - 1)
    BY <2>1
  <2> QED
    BY <2>2, <2>3
<1>2. Max(1..m) = m
  <2>1. m \in Nat /\ m \in 1..m /\ (1..m) \in SUBSET (1..m)
    OBVIOUS
  <2> QED
    BY <2>1, LargestOfPart
<1> QED
  BY <1>1, <1>2 DEF Listing

LEMMA ListingAgrees ==
  ASSUME NEW n \in Nat, NEW k \in Nat, NEW a, NEW b, NEW g, NEW h, n <= k,
         Listing(g, 1..n, a), Listing(h, 1..k, b), \A i \in 1..n : a[i] = b[i]
  PROVE  g[1..n] = h[1..n]
<1> DEFINE Bad == {m \in 0..n : g[1..m] # h[1..m]}
<1>1. SUFFICES ASSUME Bad # {} PROVE FALSE
  <2>1. n \in 0..n
    OBVIOUS
  <2> QED
    BY <2>1
<1>2. PICK m \in Bad : \A l \in Bad : m <= l
  <2>1. Bad \in SUBSET Nat
    OBVIOUS
  <2> QED
    BY <1>1, <2>1, LeastNatural
<1>3. m # 0
  <2>1. 1..0 = {} /\ {} \in SUBSET (1..n) /\ {} \in SUBSET (1..k)
    OBVIOUS
  <2>2. g[1..0] = {} /\ h[1..0] = {}
    BY <2>1 DEF Listing
  <2> QED
    BY <1>2, <2>2
<1>4. m \in 1..n /\ m \in 1..k /\ m - 1 \in 0..n /\ m - 1 \notin Bad
  BY <1>2, <1>3
<1>5. g[1..m] = Joined(g[1..(m - 1)], a[m]) /\ h[1..m] = Joined(h[1..(m - 1)], b[m])
  BY <1>4, ListingStep
<1> QED
  BY <1>2, <1>4, <1>5

LEMMA HostsAreListing ==
  ASSUME NEW S, NEW answers \in Seq(S)
  PROVE  \E g : Listing(g, 1..Len(answers), answers) /\ HostsOf(answers) = g[1..Len(answers)]
<1>1. DOMAIN answers = 1..Len(answers) /\ Len(answers) \in Nat
  OBVIOUS
<1> DEFINE it == CHOOSE g : Listing(g, DOMAIN answers, answers)
<1>2. Listing(it, DOMAIN answers, answers)
  BY <1>1, ListingExists
<1>3. HostsOf(answers) = it[DOMAIN answers]
  BY DEF HostsOf, FoldLeft, MapThenFoldSet, Listing, Joined
<1> QED
  BY <1>1, <1>2, <1>3

LEMMA HostsOfNone == HostsOf(<<>>) = {}
<1>1. <<>> \in Seq({}) /\ Len(<<>>) = 0 /\ 1..0 = {} /\ {} \in SUBSET (1..0)
  OBVIOUS
<1>2. PICK g : Listing(g, 1..0, <<>>) /\ HostsOf(<<>>) = g[1..0]
  BY <1>1, HostsAreListing
<1> QED
  BY <1>1, <1>2 DEF Listing

LEMMA HostsOfAppend ==
  ASSUME NEW S, NEW answers \in Seq(S), NEW a, {a} \in S
  PROVE  HostsOf(Append(answers, {a})) = Listed(HostsOf(answers), a)
<1> DEFINE n == Len(answers)
           more == Append(answers, {a})
<1>1. /\ n \in Nat /\ more \in Seq(S) /\ Len(more) = n + 1 /\ more[n + 1] = {a}
      /\ \A i \in 1..n : answers[i] = more[i]
  OBVIOUS
<1>2. PICK g : Listing(g, 1..n, answers) /\ HostsOf(answers) = g[1..n]
  BY HostsAreListing
<1>3. PICK h : Listing(h, 1..(n + 1), more) /\ HostsOf(more) = h[1..(n + 1)]
  BY <1>1, HostsAreListing
<1> HIDE DEF n, more
<1>4. g[1..n] = h[1..n]
  <2>1. n + 1 \in Nat /\ n <= n + 1
    BY <1>1
  <2> QED
    BY <1>1, <1>2, <1>3, <2>1, ListingAgrees
<1>5. h[1..(n + 1)] = Joined(h[1..n], {a})
  <2>1. n + 1 \in Nat /\ n + 1 \in 1..(n + 1) /\ (n + 1) - 1 = n
    BY <1>1
  <2>2. h[1..(n + 1)] = Joined(h[1..((n + 1) - 1)], more[n + 1])
    BY <1>3, <2>1, ListingStep
  <2> QED
    BY <1>1, <2>1, <2>2
<1>6. Joined(h[1..n], {a}) = Listed(h[1..n], a)
  BY DEF Joined
<1> QED
  BY <1>2, <1>3, <1>4, <1>5, <1>6 DEF more

\* A host that joins the list takes one entry of it, and nobody's place but for https.
LEMMA ListedOnce ==
  ASSUME NEW list, NEW a, OncePerHost(list)
  PROVE  OncePerHost(Listed(list, a))
BY DEF OncePerHost, Listed, Preferred

LEMMA ListedStands ==
  ASSUME NEW list, NEW a, NEW host,
         StandsFor(a, host) \/ \E b \in list : StandsFor(b, host)
  PROVE  \E b \in Listed(list, a) : StandsFor(b, host)
<1> DEFINE same == {b \in list : b.host = a.host}
<1>1. CASE StandsFor(a, host)
  <2>1. CASE same = {}
    BY <1>1, <2>1 DEF Listed
  <2>2. CASE same # {}
    <3>1. PICK b \in same : TRUE
      BY <2>2
    <3>2. Preferred(b, a) \in Listed(list, a)
      BY <2>2, <3>1 DEF Listed
    <3>3. StandsFor(Preferred(b, a), host)
      BY <1>1, <3>1 DEF Preferred, StandsFor
    <3> QED
      BY <3>2, <3>3
  <2> QED
    BY <2>1, <2>2
<1>2. ASSUME NEW b \in list, StandsFor(b, host)
      PROVE  \E c \in Listed(list, a) : StandsFor(c, host)
  <2>1. CASE b.host # a.host
    BY <1>2, <2>1 DEF Listed
  <2>2. CASE b.host = a.host
    <3>1. Preferred(b, a) \in Listed(list, a)
      BY <1>2, <2>2 DEF Listed
    <3>2. StandsFor(Preferred(b, a), host)
      BY <1>2, <2>2 DEF Preferred, StandsFor
    <3> QED
      BY <3>1, <3>2
  <2> QED
    BY <2>1, <2>2
<1> QED
  BY <1>1, <1>2

--------------------------------------------------------------------------------
\* wayback: what has been read of the archive

Rows == held[queryIdx]
Reach == MaxArchivePages * ArchivePage

ReadInv ==
  /\ held[1] \in Seq(STRING) /\ held[2] \in Seq(STRING)
  /\ queryIdx \in {1, 2} /\ page \in Nat /\ resumeKey \in Nat
  /\ totalLimit \in Int /\ lostPages \in Nat
  /\ allRows \in Seq(STRING) /\ Len(allRows) = resumeKey
  /\ resumeKey <= Len(Rows) /\ \A i \in 1..resumeKey : allRows[i] = Rows[i]

\* Between two pages the key is at the end of a full page, and there is more to read.
PageInv ==
  /\ archive = "idle" => queryIdx = 1 /\ page = 0 /\ resumeKey = 0
  /\ archive = "asking" => /\ page < MaxArchivePages /\ resumeKey < totalLimit
                           /\ resumeKey = page * ArchivePage
  /\ archive = "done" => /\ resumeKey <= totalLimit
                         /\ ToSet(allRows) \cap TargetHosts \subseteq subdomains

\* If no page was lost, the query that is read is the right one, and is read as far as
\* the rows and the limits go.
WholeInv ==
  lostPages = 0 /\ ~cancelled =>
    /\ queryIdx = 2 => held[1] = <<>>
    /\ archive = "done" => /\ queryIdx = 1 => held[1] # <<>>
                           /\ resumeKey <= Reach
                           /\ resumeKey \in {Len(Rows), totalLimit, Reach}

ArchiveInv == ReadInv /\ PageInv /\ WholeInv

LEMMA LeastOf ==
  ASSUME NEW S, NEW x \in S, S \subseteq Int, \A y \in S : x <= y
  PROVE  Min(S) = x
<1>1. \A z \in S : (\A y \in S : z <= y) => z = x
  OBVIOUS
<1> QED
  BY <1>1 DEF Min

LEMMA ArchiveFollows ==
  ASSUME ArchiveInv
  PROVE  ArchiveIsRead
<1> SUFFICES ASSUME archive = "done" PROVE ArchiveIsRead
  BY DEF ArchiveIsRead
<1> USE WaybackAssumption DEF ArchiveInv, WaybackAssumption
<1> DEFINE rows == held[queryIdx]
           reach == Min({totalLimit, MaxArchivePages * ArchivePage})
<1>1. /\ rows \in Seq(STRING) /\ allRows \in Seq(STRING) /\ Len(allRows) = resumeKey
      /\ resumeKey \in Nat /\ Len(rows) \in Nat /\ resumeKey <= Len(rows)
      /\ \A i \in 1..resumeKey : allRows[i] = rows[i]
  BY DEF ReadInv, Rows
<1>2. resumeKey <= totalLimit /\ ToSet(allRows) \cap TargetHosts \subseteq subdomains
  BY DEF PageInv
<1> HIDE DEF rows
<1>3. allRows = SubSeq(rows, 1, resumeKey) /\ allRows = SubSeq(allRows, 1, resumeKey)
  BY <1>1
<1>4. IsPrefix(allRows, rows)
  BY <1>1, <1>3 DEF IsPrefix
<1>5. ASSUME lostPages = 0, ~cancelled
      PROVE  /\ queryIdx = IF held[1] = <<>> THEN 2 ELSE 1
             /\ resumeKey = Min({reach, Len(rows)})
  <2>1. /\ queryIdx = 2 => held[1] = <<>>
        /\ queryIdx = 1 => held[1] # <<>>
        /\ resumeKey <= Reach /\ resumeKey \in {Len(rows), totalLimit, Reach}
    BY <1>5 DEF WholeInv, Rows, rows
  <2>2. Reach \in Int /\ totalLimit \in Int
    BY DEF Reach, ReadInv
  <2>3. CASE totalLimit <= Reach
    <3>1. reach = totalLimit
      <4>1. /\ totalLimit \in {totalLimit, Reach} /\ {totalLimit, Reach} \subseteq Int
            /\ \A y \in {totalLimit, Reach} : totalLimit <= y
        BY <2>2, <2>3
      <4> QED
        BY <4>1, LeastOf DEF Reach
    <3> HIDE DEF reach
    <3>2. resumeKey \in {reach, Len(rows)}
      BY <1>1, <1>2, <2>1, <2>2, <2>3, <3>1
    <3>3. /\ {reach, Len(rows)} \subseteq Int
          /\ \A y \in {reach, Len(rows)} : resumeKey <= y
      BY <1>1, <1>2, <2>2, <3>1
    <3>4. resumeKey = Min({reach, Len(rows)})
      BY <3>2, <3>3, LeastOf
    <3>5. queryIdx \in {1, 2}
      BY DEF ReadInv
    <3> QED
      BY <2>1, <3>4, <3>5
  <2>4. CASE Reach <= totalLimit
    <3>1. reach = Reach
      <4>1. /\ Reach \in {totalLimit, Reach} /\ {totalLimit, Reach} \subseteq Int
            /\ \A y \in {totalLimit, Reach} : Reach <= y
        BY <2>2, <2>4
      <4> QED
        BY <4>1, LeastOf DEF Reach
    <3> HIDE DEF reach
    <3>2. resumeKey \in {reach, Len(rows)}
      BY <1>1, <1>2, <2>1, <2>2, <2>4, <3>1
    <3>3. /\ {reach, Len(rows)} \subseteq Int
          /\ \A y \in {reach, Len(rows)} : resumeKey <= y
      BY <1>1, <2>1, <2>2, <3>1
    <3>4. resumeKey = Min({reach, Len(rows)})
      BY <3>2, <3>3, LeastOf
    <3>5. queryIdx \in {1, 2}
      BY DEF ReadInv
    <3> QED
      BY <2>1, <3>4, <3>5
  <2> QED
    BY <2>2, <2>3, <2>4
<1> QED
  BY <1>1, <1>2, <1>3, <1>4, <1>5 DEF ArchiveIsRead, rows

LEMMA ArchiveInit == Init => ArchiveInv
<1> SUFFICES ASSUME Init PROVE ArchiveInv
  OBVIOUS
<1>1. /\ held[1] = <<>> /\ held[2] = <<>> /\ totalLimit = 0 /\ queryIdx = 1 /\ page = 0
      /\ resumeKey = 0 /\ allRows = <<>> /\ lostPages = 0 /\ archive = "idle"
  BY DEF Init, WaybackInit
<1>2. <<>> \in Seq(STRING) /\ Len(<<>>) = 0 /\ 1..0 = {}
  OBVIOUS
<1> QED
  BY <1>1, <1>2 DEF ArchiveInv, ReadInv, PageInv, WholeInv, Rows

LEMMA ArchiveKept ==
  ASSUME ArchiveInv, UNCHANGED archiveVars, subdomains \subseteq subdomains',
         cancelled => cancelled'
  PROVE  ArchiveInv'
BY DEF ArchiveInv, ReadInv, PageInv, WholeInv, Rows, Reach, archiveVars

\* What one page brings.
LEMMA PageOfRows ==
  ASSUME NEW rows \in Seq(STRING), resumeKey \in Nat, resumeKey <= Len(rows),
         NEW room \in Int, room > 0
  PROVE  LET new == RowsOfPage(rows, room)
             last == resumeKey + Len(new)
         IN  /\ new \in Seq(STRING) /\ last \in Nat /\ resumeKey <= last
             /\ \A i \in 1..Len(new) : new[i] = rows[resumeKey + i]
             /\ last <= Len(rows) /\ last <= resumeKey + ArchivePage /\ last <= resumeKey + room
             /\ last \in {Len(rows), resumeKey + ArchivePage, resumeKey + room}
<1> USE WaybackAssumption DEF WaybackAssumption
<1> DEFINE ends == {Len(rows), resumeKey + ArchivePage, resumeKey + room}
           new == RowsOfPage(rows, room)
<1>1. ends \subseteq Nat /\ ends \subseteq Int /\ Len(rows) \in Nat
  OBVIOUS
<1>2. PICK k \in ends : \A y \in ends : k <= y
  BY <1>1
<1> HIDE DEF ends
<1>3. Min(ends) = k
  BY <1>1, <1>2, LeastOf
<1>4. k \in Nat /\ resumeKey <= k /\ k <= Len(rows)
  BY <1>1, <1>2 DEF ends
<1>5. new = SubSeq(rows, resumeKey + 1, k)
  BY <1>3 DEF RowsOfPage, ends
<1>6. /\ new \in Seq(STRING) /\ Len(new) = k - resumeKey
      /\ \A i \in 1..(k - resumeKey) : new[i] = rows[resumeKey + i]
  BY <1>4, <1>5
<1> HIDE DEF new
<1>7. resumeKey + Len(new) = k
  BY <1>4, <1>6
<1> QED
  BY <1>1, <1>2, <1>4, <1>6, <1>7 DEF new, ends

LEMMA ReadOn ==
  ASSUME NEW rows \in Seq(STRING), NEW old \in Seq(STRING), NEW new \in Seq(STRING),
         \A i \in 1..Len(old) : old[i] = rows[i],
         \A i \in 1..Len(new) : new[i] = rows[Len(old) + i]
  PROVE  /\ old \o new \in Seq(STRING) /\ Len(old \o new) = Len(old) + Len(new)
         /\ \A i \in 1..(Len(old) + Len(new)) : (old \o new)[i] = rows[i]
<1>1. /\ old \o new \in Seq(STRING) /\ Len(old \o new) = Len(old) + Len(new)
      /\ Len(old) \in Nat /\ Len(new) \in Nat
      /\ \A i \in 1..Len(old) : (old \o new)[i] = old[i]
      /\ \A i \in 1..Len(new) : (old \o new)[Len(old) + i] = new[i]
  OBVIOUS
<1>2. ASSUME NEW i \in 1..(Len(old) + Len(new))
      PROVE  (old \o new)[i] = rows[i]
  <2>1. CASE i <= Len(old)
    BY <1>1, <2>1
  <2>2. CASE i > Len(old)
    <3>1. i - Len(old) \in 1..Len(new) /\ Len(old) + (i - Len(old)) = i
      BY <1>1, <2>2
    <3>2. (old \o new)[Len(old) + (i - Len(old))] = rows[Len(old) + (i - Len(old))]
      BY <1>1, <3>1
    <3> QED
      BY <3>1, <3>2
  <2> QED
    BY <1>1, <2>1, <2>2
<1> QED
  BY <1>1, <1>2

LEMMA ArchiveAtPage ==
  ASSUME ArchiveInv, AskPage
  PROVE  ArchiveInv'
<1> USE WaybackAssumption DEF WaybackAssumption
<1> DEFINE new == RowsOfPage(Rows, totalLimit - Len(allRows))
           last == resumeKey + Len(new)
<1>1. /\ archive = "asking" /\ ~cancelled
      /\ Rows \in Seq(STRING) /\ allRows \in Seq(STRING) /\ Len(allRows) = resumeKey
      /\ resumeKey \in Nat /\ Len(Rows) \in Nat /\ resumeKey <= Len(Rows) /\ totalLimit \in Int
      /\ \A i \in 1..resumeKey : allRows[i] = Rows[i]
      /\ page \in Nat /\ page < MaxArchivePages /\ resumeKey < totalLimit
      /\ resumeKey = page * ArchivePage
  BY DEF AskPage, ArchiveInv, ReadInv, PageInv, Rows
<1>2. /\ new \in Seq(STRING) /\ last \in Nat /\ resumeKey <= last
      /\ \A i \in 1..Len(new) : new[i] = Rows[resumeKey + i]
      /\ last <= Len(Rows) /\ last <= resumeKey + ArchivePage /\ last <= totalLimit
      /\ last \in {Len(Rows), resumeKey + ArchivePage, totalLimit}
  <2>1. totalLimit - Len(allRows) \in Int /\ totalLimit - Len(allRows) > 0
        /\ resumeKey + (totalLimit - Len(allRows)) = totalLimit
    BY <1>1
  <2> QED
    BY <1>1, <2>1, PageOfRows
<1>3. /\ allRows' = allRows \o new
      /\ held' = held /\ totalLimit' = totalLimit /\ lostPages' = lostPages
      /\ cancelled' = cancelled
  BY DEF AskPage, Rows
<1>4. IF last = Len(Rows) \/ Len(allRows') >= totalLimit \/ page + 1 = MaxArchivePages
      THEN LeaveQuery /\ (queryIdx' = queryIdx => page' = page + 1 /\ resumeKey' = last)
      ELSE /\ page' = page + 1 /\ resumeKey' = last
           /\ UNCHANGED <<queryIdx, archive, subdomains, findings>>
  BY DEF AskPage, Rows
<1> HIDE DEF new
<1>5. /\ allRows' \in Seq(STRING) /\ Len(allRows') = last
      /\ \A i \in 1..last : allRows'[i] = Rows[i]
  <2>1. allRows \in Seq(STRING) /\ new \in Seq(STRING) /\ Rows \in Seq(STRING)
    BY <1>1, <1>2
  <2>2. /\ \A i \in 1..Len(allRows) : allRows[i] = Rows[i]
        /\ \A i \in 1..Len(new) : new[i] = Rows[Len(allRows) + i]
    BY <1>1, <1>2
  <2>3. /\ allRows \o new \in Seq(STRING) /\ Len(allRows \o new) = Len(allRows) + Len(new)
        /\ \A i \in 1..(Len(allRows) + Len(new)) : (allRows \o new)[i] = Rows[i]
    BY <2>1, <2>2, ReadOn
  <2> QED
    BY <1>1, <1>3, <2>3
<1> HIDE DEF last
<1>6. (page + 1) * ArchivePage = resumeKey + ArchivePage /\ (page + 1) * ArchivePage <= Reach
      /\ Reach \in Int
  <2>1. /\ page + 1 <= MaxArchivePages /\ page \in Int /\ page + 1 \in Int
        /\ MaxArchivePages \in Int /\ ArchivePage \in Nat
    BY <1>1
  <2>2. ArchivePage * (page + 1) <= ArchivePage * MaxArchivePages
    BY <2>1, TimesGrows
  <2>3. /\ (page + 1) * ArchivePage = page * ArchivePage + ArchivePage
        /\ (page + 1) * ArchivePage = ArchivePage * (page + 1)
        /\ MaxArchivePages * ArchivePage = ArchivePage * MaxArchivePages
        /\ MaxArchivePages * ArchivePage \in Int
    BY <2>1, SMT
  <2> QED
    BY <1>1, <2>2, <2>3 DEF Reach
<1>7. held[1] \in Seq(STRING) /\ held[2] \in Seq(STRING) /\ lostPages \in Nat
      /\ queryIdx \in {1, 2}
  BY DEF ArchiveInv, ReadInv
<1>8. lostPages = 0 => (queryIdx = 2 => held[1] = <<>>)
  BY <1>1 DEF ArchiveInv, WholeInv
<1>9. CASE /\ page' = page + 1 /\ resumeKey' = last
           /\ UNCHANGED <<queryIdx, archive, subdomains, findings>>
           /\ last # Len(Rows) /\ Len(allRows') < totalLimit /\ page + 1 # MaxArchivePages
  <2>1. ReadInv' /\ Rows' = Rows
    BY <1>1, <1>2, <1>3, <1>5, <1>7, <1>9 DEF ReadInv, Rows
  <2>2. /\ last = resumeKey + ArchivePage /\ page + 1 < MaxArchivePages
        /\ page' * ArchivePage = (page + 1) * ArchivePage
    BY <1>1, <1>2, <1>5, <1>9
  <2>3. PageInv'
    <3>1. archive' = "asking" /\ resumeKey' = page' * ArchivePage /\ page' < MaxArchivePages
      BY <1>1, <1>6, <1>9, <2>2
    <3>2. resumeKey' < totalLimit'
      BY <1>3, <1>5, <1>9
    <3> QED
      BY <3>1, <3>2 DEF PageInv
  <2> QED
    BY <1>1, <1>3, <1>8, <1>9, <2>1, <2>3 DEF ArchiveInv, WholeInv
<1>10. CASE /\ LeaveQuery /\ allRows' = <<>> /\ queryIdx = 1
            /\ last = Len(Rows) \/ Len(allRows') >= totalLimit \/ page + 1 = MaxArchivePages
  <2>1. queryIdx' = 2 /\ page' = 0 /\ resumeKey' = 0 /\ archive' = "asking" /\ last = 0
    BY <1>1, <1>5, <1>10 DEF LeaveQuery
  <2>2. held[1] = <<>>
    BY <1>1, <1>2, <1>10, <2>1 DEF Rows
  <2>3. ReadInv'
    <3>1. Rows' = held[2] /\ Len(held[2]) >= 0
      BY <1>3, <1>7, <2>1 DEF Rows
    <3> QED
      BY <1>1, <1>3, <1>5, <1>7, <1>10, <2>1, <3>1 DEF ReadInv
  <2>4. PageInv'
    BY <1>1, <1>3, <2>1 DEF PageInv
  <2> QED
    BY <1>3, <2>1, <2>2, <2>3, <2>4 DEF ArchiveInv, WholeInv
<1>11. CASE /\ LeaveQuery /\ ~(allRows' = <<>> /\ queryIdx = 1)
            /\ last = Len(Rows) \/ Len(allRows') >= totalLimit \/ page + 1 = MaxArchivePages
            /\ queryIdx' = queryIdx => page' = page + 1 /\ resumeKey' = last
  <2>1. /\ archive' = "done" /\ queryIdx' = queryIdx /\ page' = page + 1 /\ resumeKey' = last
        /\ ToSet(allRows') \cap TargetHosts \subseteq subdomains'
    BY <1>11 DEF LeaveQuery, AddSharedSubdomains
  <2>2. ReadInv' /\ Rows' = Rows
    BY <1>1, <1>2, <1>3, <1>5, <1>7, <2>1 DEF ReadInv, Rows
  <2>3. PageInv'
    BY <1>1, <1>2, <1>3, <2>1 DEF PageInv
  <2>4. last <= Reach /\ last \in {Len(Rows), totalLimit, Reach}
    <3>1. page + 1 = MaxArchivePages => resumeKey + ArchivePage = Reach
      BY <1>6 DEF Reach
    <3> QED
      BY <1>1, <1>2, <1>5, <1>6, <1>11, <3>1
  <2>5. queryIdx = 1 => held[1] # <<>>
    <3> SUFFICES ASSUME queryIdx = 1, held[1] = <<>> PROVE FALSE
      OBVIOUS
    <3>1. Len(Rows) = 0 /\ last = 0
      BY <1>1, <1>2 DEF Rows
    <3>2. allRows' = <<>>
      BY <1>5, <3>1
    <3> QED
      BY <1>11, <3>2
  <2>6. Reach' = Reach
    BY DEF Reach
  <2> QED
    BY <1>3, <1>8, <2>1, <2>2, <2>3, <2>4, <2>5, <2>6 DEF ArchiveInv, WholeInv
<1> QED
  BY <1>1, <1>4, <1>5, <1>9, <1>10, <1>11

LEMMA ArchiveAtFailure ==
  ASSUME ArchiveInv, PageFails
  PROVE  ArchiveInv'
<1> USE DEF ArchiveInv
<1>1. /\ archive = "asking" /\ LeaveQuery /\ allRows' = allRows
      /\ queryIdx' = queryIdx => UNCHANGED <<page, resumeKey>>
      /\ held' = held /\ totalLimit' = totalLimit /\ cancelled' = cancelled
      /\ lostPages \in Nat /\ lostPages' \in Nat /\ (cancelled \/ lostPages' # 0)
  BY DEF PageFails, ReadInv
<1>2. WholeInv'
  BY <1>1 DEF WholeInv
<1>3. CASE allRows' = <<>> /\ queryIdx = 1
  <2>1. /\ queryIdx' = 2 /\ page' = 0 /\ resumeKey' = 0 /\ archive' = "asking"
        /\ held[2] \in Seq(STRING) /\ resumeKey = 0
    BY <1>1, <1>3 DEF LeaveQuery, ReadInv
  <2>2. ReadInv'
    BY <1>1, <1>3, <2>1 DEF ReadInv, Rows
  <2>3. PageInv'
    BY <1>1, <2>1, WaybackAssumption DEF PageInv, ReadInv, WaybackAssumption
  <2> QED
    BY <1>2, <2>2, <2>3
<1>4. CASE ~(allRows' = <<>> /\ queryIdx = 1)
  <2>1. /\ archive' = "done" /\ queryIdx' = queryIdx /\ UNCHANGED <<page, resumeKey>>
        /\ ToSet(allRows') \cap TargetHosts \subseteq subdomains'
    BY <1>1, <1>4 DEF LeaveQuery, AddSharedSubdomains
  <2>2. ReadInv'
    BY <1>1, <2>1 DEF ReadInv, Rows
  <2>3. PageInv'
    BY <1>1, <2>1 DEF PageInv, ReadInv
  <2> QED
    BY <1>2, <2>2, <2>3
<1> QED
  BY <1>3, <1>4

LEMMA ArchiveAtStart ==
  ASSUME ArchiveInv, StartWayback
  PROVE  ArchiveInv'
<1> USE WaybackAssumption DEF WaybackAssumption, ArchiveInv, StartWayback
<1>1. /\ held' \in Archives /\ totalLimit' \in Int /\ archive' \in {"nothing", "asking"}
      /\ archive' = "asking" => totalLimit' >= 1
      /\ UNCHANGED <<queryIdx, page, resumeKey, allRows, lostPages>>
      /\ archive = "idle"
  OBVIOUS
<1>2. queryIdx = 1 /\ page = 0 /\ resumeKey = 0
  BY <1>1 DEF PageInv
<1>3. held'[1] \in Seq(STRING) /\ held'[2] \in Seq(STRING)
  BY <1>1
<1>4. ReadInv'
  BY <1>1, <1>2, <1>3 DEF ReadInv, Rows
<1>5. PageInv'
  BY <1>1, <1>2 DEF PageInv
<1> QED
  BY <1>1, <1>2, <1>4, <1>5 DEF WholeInv

--------------------------------------------------------------------------------
\* The six modules that live on the lists: the inductive invariant

\* A job that is over has left its answer, unless it was missed.
Settled(job) ==
  \/ Missed(job)
  \/ IF feed = "httprobe"
     THEN job \in DOMAIN Live => \E a \in LiveHosts : StandsFor(a, Live[job])
     ELSE Outcome(job) \subseteq Everything

RestInv == feed = "idle" => jobs = {} /\ working = {} /\ collected = <<>>
CollectedInv == \E S : collected \in Seq(S)

WorkInv ==
  feed # "idle" =>
    /\ feed \in FeedModule /\ feed = running /\ ~HasReturned(feed)
    /\ jobs \cup working \subseteq JobsOf(feed)
    /\ \A job \in JobsOf(feed) \ (jobs \cup working) : Settled(job)
    /\ feed = "httprobe" => OncePerHost(LiveHosts)

\* A module that has returned has had its turn, or is about to end it.
DataInv ==
  /\ DOMAIN data = FeedModule
  /\ \A m \in FeedModule : HasReturned(m) => m \in ToSet(finished) \cup Turn
  /\ \A job \in asked : job[1] = "js"

ReturnedInv ==
  SourcesAreListed /\ HostsAreListed /\ NamesAreChecked /\ ScriptsAreMined /\ EndpointsAreAsked

FeedInv == RestInv /\ CollectedInv /\ WorkInv /\ DataInv /\ ReturnedInv

\* Steps of the module that runs, and steps that leave the six modules alone.
FeedTurn == running \in FeedModule /\ FeedStep(running) /\ UNCHANGED pipelineVars

Elsewhere ==
  /\ UNCHANGED feedVars
  /\ subdomains \subseteq subdomains' /\ endpoints \subseteq endpoints'
  /\ findings \subseteq findings'
  /\ subdomains' # subdomains => running \in {"dns", "wayback"}
  /\ endpoints' # endpoints => running = "crawler"
  /\ \/ UNCHANGED <<running, finished>>
     \/ running = Nobody /\ UNCHANGED finished
     \/ /\ running # Nobody /\ (running \in FeedModule => HasReturned(running))
        /\ finished' = Append(finished, running)

--------------------------------------------------------------------------------
\* The six modules: whose turn it is

LEMMA DnsLists ==
  DNSStep => /\ subdomains \subseteq subdomains' /\ findings \subseteq findings'
             /\ UNCHANGED <<endpoints, cancelled>>
BY DEF DNSStep, StartDNS, SpawnLookup, JoinDNS, Lookup, Expire, GiveUp, LineUp, Query,
   Add, AddSharedSubdomains, contextVars

LEMMA PortLists ==
  PortStep => findings \subseteq findings' /\ UNCHANGED <<subdomains, endpoints, cancelled>>
BY DEF PortStep, StartPortScan, SpawnDial, JoinSweep, Dial, ReadBanner, Add, contextVars

LEMMA CrawlLists ==
  CrawlStep => /\ endpoints \subseteq endpoints' /\ findings \subseteq findings'
               /\ UNCHANGED <<subdomains, cancelled>>
BY DEF CrawlStep, StartCrawl, Drain, TakeNext, SpawnFetch, BreakOff, JoinBatch, Visit, Fetch, Mishap,
   ListPage, QueueLinks, Add, AddSharedEndpoints, contextVars

LEMMA BruteLists ==
  BruteStep => findings \subseteq findings' /\ UNCHANGED <<subdomains, endpoints, cancelled>>
BY DEF BruteStep, StartBrute, SpawnProbe, JoinBrute, Answered, Unheard, Add, contextVars

LEMMA ArchiveLists ==
  WaybackStep => /\ subdomains \subseteq subdomains' /\ findings \subseteq findings'
                 /\ UNCHANGED <<endpoints, cancelled>>
BY DEF WaybackStep, StartWayback, AskPage, PageFails, LeaveQuery, Add, AddSharedSubdomains,
   contextVars

LEMMA FeedLists ==
  ASSUME NEW m \in FeedModule, FeedStep(m)
  PROVE  /\ subdomains \subseteq subdomains' /\ endpoints \subseteq endpoints'
         /\ findings \subseteq findings' /\ UNCHANGED cancelled
<1>1. CASE JoinFeed
  <2>1. ASSUME NEW s PROVE AddSharedSubdomains(s) => subdomains \subseteq subdomains'
    BY DEF AddSharedSubdomains
  <2>2. ASSUME NEW s PROVE AddSharedEndpoints(s) => endpoints \subseteq endpoints'
    BY DEF AddSharedEndpoints
  <2>3. ASSUME NEW s PROVE Add(s) => findings \subseteq findings'
    BY DEF Add
  <2> QED
    BY <1>1, <2>1, <2>2, <2>3 DEF JoinFeed
<1>2. CASE StartFeed(m)
  BY <1>2 DEF StartFeed, contextVars
<1>3. ASSUME NEW job, SpawnJob(job) \/ Answer(job) \/ NoFavicon(job) \/ Retry(job)
                      \/ Fail(job) \/ PanicOn(job)
      PROVE  UNCHANGED contextVars
  BY <1>3 DEF SpawnJob, Answer, NoFavicon, Retry, Fail, PanicOn
<1>4. CASE UNCHANGED contextVars
  BY <1>4 DEF contextVars
<1> QED
  BY <1>1, <1>2, <1>3, <1>4 DEF FeedStep

LEMMA MainLists ==
  ASSUME PipelineStep
  PROVE  /\ findings \subseteq findings' /\ UNCHANGED <<subdomains, endpoints, cancelled>>
         /\ \/ UNCHANGED <<running, finished>>
            \/ running = Nobody /\ UNCHANGED finished
<1>1. CASE StartModule
  BY <1>1 DEF StartModule, contextVars
<1>2. CASE Surface
  BY <1>2 DEF Surface, Add
<1>3. ASSUME NEW w \in Writer, GenerateReport(w)
      PROVE  UNCHANGED <<findings, subdomains, endpoints, cancelled, running, finished>>
  BY <1>3 DEF GenerateReport, TakeSnapshot, contextVars
<1>4. CASE MainReturns \/ ExecuteScanReturns \/ HandlerExits
  BY <1>4 DEF MainReturns, ExecuteScanReturns, HandlerExits, contextVars
<1> QED
  BY <1>1, <1>2, <1>3, <1>4 DEF PipelineStep

LEMMA FeedTurns ==
  ASSUME Next
  PROVE  FeedTurn \/ Elsewhere
<1> USE ModuleNames DEF Elsewhere, FeedModule
<1>1. ASSUME ModuleStep
      PROVE  FeedTurn \/ Elsewhere
  <2>1. CASE running = "dns" /\ DNSStep /\ UNCHANGED <<pipelineVars, feedVars>>
    BY <2>1, DnsLists DEF pipelineVars
  <2>2. CASE running = "portscan" /\ PortStep /\ UNCHANGED <<pipelineVars, feedVars>>
    BY <2>2, PortLists DEF pipelineVars
  <2>3. CASE running = "crawler" /\ CrawlStep /\ UNCHANGED <<pipelineVars, feedVars>>
    BY <2>3, CrawlLists DEF pipelineVars
  <2>4. CASE running = "dirbrute" /\ BruteStep /\ UNCHANGED <<pipelineVars, feedVars>>
    BY <2>4, BruteLists DEF pipelineVars
  <2>5. CASE running \in FeedModule /\ FeedStep(running) /\ UNCHANGED pipelineVars
    BY <2>5 DEF FeedTurn
  <2>6. CASE running = "wayback" /\ WaybackStep /\ UNCHANGED <<pipelineVars, feedVars>>
    BY <2>6, ArchiveLists DEF pipelineVars
  <2>7. CASE running # Nobody /\ Returned(running) /\ EndModule /\ UNCHANGED engineVars
    <3>1. running \in FeedModule => HasReturned(running)
      BY <2>7 DEF Returned
    <3> QED
      BY <2>7, <3>1 DEF EndModule, contextVars, engineVars
  <2>8. CASE running \notin Detailed \cup {Nobody} /\ AddFinding /\ UNCHANGED engineVars
    BY <2>8 DEF AddFinding, Add, engineVars, pipelineVars
  <2>9. CASE running \notin Detailed \cup {Nobody} /\ PanicModule /\ UNCHANGED engineVars
    <3>1. running \notin FeedModule /\ running # Nobody
      BY <2>9 DEF Detailed
    <3> QED
      BY <2>9, <3>1 DEF PanicModule, engineVars, contextVars
  <2> QED
    BY <1>1, <2>1, <2>2, <2>3, <2>4, <2>5, <2>6, <2>7, <2>8, <2>9 DEF ModuleStep
<1>2. CASE PipelineStep /\ UNCHANGED engineVars
  BY <1>2, MainLists DEF engineVars
<1>3. CASE LimiterStep
  BY <1>3 DEF LimiterStep, engineVars, contextVars, pipelineVars
<1>4. CASE Interrupt /\ UNCHANGED engineVars
  BY <1>4 DEF Interrupt, engineVars
<1> QED
  BY <1>1, <1>2, <1>3, <1>4 DEF Next, Program

LEMMA ArchiveNext ==
  ASSUME ArchiveInv, [Next]_vars
  PROVE  ArchiveInv'
<1>1. CASE WaybackStep
  BY <1>1, ArchiveAtStart, ArchiveAtPage, ArchiveAtFailure DEF WaybackStep
<1>2. ASSUME ~WaybackStep
      PROVE  UNCHANGED archiveVars /\ subdomains \subseteq subdomains' /\ (cancelled => cancelled')
  <2>1. CASE ModuleStep
    <3>1. CASE DNSStep /\ UNCHANGED archiveVars
      BY <3>1, DnsLists
    <3>2. CASE PortStep /\ UNCHANGED archiveVars
      BY <3>2, PortLists
    <3>3. CASE CrawlStep /\ UNCHANGED archiveVars
      BY <3>3, CrawlLists
    <3>4. CASE BruteStep /\ UNCHANGED archiveVars
      BY <3>4, BruteLists
    <3>5. CASE running \in FeedModule /\ FeedStep(running) /\ UNCHANGED archiveVars
      BY <3>5, FeedLists
    <3>6. CASE (EndModule \/ AddFinding \/ PanicModule) /\ UNCHANGED engineVars
      BY <3>6 DEF EndModule, AddFinding, PanicModule, contextVars, engineVars
    <3> QED
      BY <1>2, <2>1, <3>1, <3>2, <3>3, <3>4, <3>5, <3>6 DEF ModuleStep
  <2>2. CASE PipelineStep /\ UNCHANGED engineVars
    BY <2>2, MainLists DEF engineVars
  <2>3. CASE LimiterStep
    BY <2>3 DEF LimiterStep, engineVars, contextVars
  <2>4. CASE Interrupt /\ UNCHANGED engineVars
    BY <2>4 DEF Interrupt, Cancel, engineVars
  <2>5. CASE UNCHANGED vars
    BY <2>5 DEF vars, engineVars, contextVars
  <2> QED
    BY <2>1, <2>2, <2>3, <2>4, <2>5 DEF Next, Program
<1> QED
  BY <1>1, <1>2, ArchiveKept

--------------------------------------------------------------------------------
\* The six modules: what a worker leaves behind

LEMMA EverythingGrows ==
  ASSUME CollectedInv, NEW brought, Collect(brought)
  PROVE  CollectedInv' /\ Everything' = Everything \cup brought
<1>1. CASE brought = {}
  BY <1>1 DEF Collect, CollectedInv, Everything
<1>2. CASE brought # {}
  <2>1. PICK S : collected \in Seq(S)
    BY DEF CollectedInv
  <2> DEFINE T == S \cup {brought}
             n == Len(collected)
  <2>2. collected \in Seq(T) /\ n \in Nat /\ DOMAIN collected = 1..n
    BY <2>1
  <2>3. collected' = Append(collected, brought)
    BY <1>2 DEF Collect
  <2>4. /\ collected' \in Seq(T) /\ DOMAIN collected' = 1..(n + 1) /\ collected'[n + 1] = brought
        /\ \A i \in 1..n : collected'[i] = collected[i]
    BY <2>2, <2>3
  <2>5. CollectedInv'
    BY <2>4 DEF CollectedInv
  <2> HIDE DEF n
  <2>6. \A e : e \in Everything' <=> e \in Everything \cup brought
    <3>1. \A e \in Everything' : e \in Everything \cup brought
      BY <2>2, <2>4 DEF Everything
    <3>2. \A e \in Everything : e \in Everything'
      BY <2>2, <2>4 DEF Everything
    <3>3. n + 1 \in DOMAIN collected'
      BY <2>2, <2>4
    <3>4. \A e \in brought : e \in Everything'
      BY <2>4, <3>3 DEF Everything
    <3> QED
      BY <3>1, <3>2, <3>4
  <2> QED
    BY <2>5, <2>6
<1> QED
  BY <1>1, <1>2

LEMMA HostsGrow ==
  ASSUME CollectedInv, NEW a, Collect({a})
  PROVE  LiveHosts' = Listed(LiveHosts, a)
<1>1. PICK S : collected \in Seq(S)
  BY DEF CollectedInv
<1>2. PICK old : old = collected
  OBVIOUS
<1>3. old \in Seq(S \cup {{a}})
  BY <1>1, <1>2
<1>4. HostsOf(Append(old, {a})) = Listed(HostsOf(old), a)
  BY <1>3, HostsOfAppend
<1>5. LiveHosts = HostsOf(old)
  BY <1>2 DEF LiveHosts
<1>6. collected' = Append(old, {a})
  BY <1>2 DEF Collect
<1>7. LiveHosts' = HostsOf(Append(old, {a}))
  BY <1>6 DEF LiveHosts
<1> QED
  BY <1>4, <1>5, <1>7

LEMMA SameHosts == UNCHANGED collected => UNCHANGED <<LiveHosts, Everything>>
BY DEF LiveHosts, Everything

--------------------------------------------------------------------------------
\* The six modules: what has returned comes before what runs

LEMMA FeedPlaces ==
  /\ Place("passivesrc") = 3 /\ Place("dns") = 4 /\ Place("wayback") = 5 /\ Place("permute") = 6
  /\ Place("httprobe") = 7 /\ Place("crawler") = 18 /\ Place("jsdeep") = 19
  /\ Place("endprobe") = 20 /\ Place("takeover") = 21
<1>1. DOMAIN ModuleOrder = 1..21
  BY DEF ModuleOrder
<1>2. ASSUME NEW k \in 1..21, \A i \in 1..21 : ModuleOrder[i] = ModuleOrder[k] => i = k
      PROVE  Place(ModuleOrder[k]) = k
  BY <1>1, <1>2 DEF Place
<1>3. \A i, k \in 1..21 : ModuleOrder[i] = ModuleOrder[k] => i = k
  BY DEF ModuleOrder
<1>4. \A k \in 1..21 : Place(ModuleOrder[k]) = k
  BY <1>2, <1>3
<1>5. /\ ModuleOrder[3] = "passivesrc" /\ ModuleOrder[4] = "dns" /\ ModuleOrder[5] = "wayback"
      /\ ModuleOrder[6] = "permute" /\ ModuleOrder[7] = "httprobe" /\ ModuleOrder[18] = "crawler"
      /\ ModuleOrder[19] = "jsdeep" /\ ModuleOrder[20] = "endprobe" /\ ModuleOrder[21] = "takeover"
  BY DEF ModuleOrder
<1> QED
  BY <1>4, <1>5

LEMMA Later ==
  ASSUME ReportInv, DataInv, NEW m \in FeedModule, HasReturned(m), running # m, running # Nobody
  PROVE  Place(m) < Place(running)
<1>1. m \in ToSet(finished) /\ running \in Turn
  BY DEF DataInv, Turn
<1>2. PICK i \in DOMAIN finished : finished[i] = m
  BY <1>1 DEF ToSet
<1> QED
  BY <1>1, <1>2 DEF ReportInv, OrderInv

\* What has returned stays true: the lists grow, and no list that it depends on does.
LEMMA ReturnedKept ==
  ASSUME ReturnedInv, UNCHANGED data, missed \subseteq missed',
         subdomains \subseteq subdomains', endpoints \subseteq endpoints',
         findings \subseteq findings',
         HasReturned("jsdeep") => UNCHANGED asked,
         HasReturned("httprobe") \/ HasReturned("takeover") => UNCHANGED subdomains,
         HasReturned("endprobe") => UNCHANGED endpoints
  PROVE  ReturnedInv'
<1> USE DEF ReturnedInv
<1>1. \A m : HasReturned(m)' <=> HasReturned(m)
  BY DEF HasReturned
<1>2. \A job : Missed(job) => Missed(job)'
  BY DEF Missed
<1>3. SourcesAreListed'
  BY <1>1 DEF SourcesAreListed
<1>4. HostsAreListed'
  <2> SUFFICES ASSUME HasReturned("httprobe")' PROVE HostsAreListed'
    BY DEF HostsAreListed
  <2>1. HasReturned("httprobe") /\ ProbeJobs' = ProbeJobs
    BY <1>1 DEF ProbeJobs
  <2> QED
    BY <1>2, <2>1 DEF HostsAreListed
<1>5. NamesAreChecked'
  BY <1>1, <1>2 DEF NamesAreChecked
<1>6. ScriptsAreMined'
  <2> SUFFICES ASSUME HasReturned("jsdeep")', NEW job \in asked', ~Missed(job)',
                      NEW e \in Routes[job[2]]
               PROVE  IF e \in Buckets THEN Finding("jsdeep", e) \in findings' ELSE e \in endpoints'
    BY DEF ScriptsAreMined
  <2>1. HasReturned("jsdeep") /\ job \in asked /\ ~Missed(job)
    BY <1>1, <1>2
  <2> QED
    BY <2>1 DEF ScriptsAreMined
<1>7. EndpointsAreAsked'
  <2> SUFFICES ASSUME HasReturned("endprobe")' PROVE EndpointsAreAsked'
    BY DEF EndpointsAreAsked
  <2>1. HasReturned("endprobe") /\ Candidates' = Candidates
    BY <1>1 DEF Candidates
  <2> QED
    BY <1>2, <2>1 DEF EndpointsAreAsked
<1> QED
  BY <1>3, <1>4, <1>5, <1>6, <1>7

LEMMA JobsStay ==
  ASSUME NEW m, UNCHANGED <<asked, subdomains, endpoints>>
  PROVE  JobsOf(m)' = JobsOf(m)
<1>1. ProbeJobs' = ProbeJobs /\ PermutedNames' = PermutedNames /\ Candidates' = Candidates
  BY DEF ProbeJobs, PermutedNames, Candidates
<1> QED
  BY <1>1 DEF JobsOf

\* The workers of a module go on: what has been left behind is not lost.
LEMMA WorkGoesOn ==
  ASSUME FeedInv, feed # "idle", UNCHANGED <<feed, asked, data, contextVars, running, finished>>,
         missed \subseteq missed', jobs' \cup working' \subseteq jobs \cup working,
         NEW brought, Collect(brought), feed = "httprobe" => brought = {} \/ \E a : brought = {a},
         \A job \in (jobs \cup working) \ (jobs' \cup working') : Settled(job)'
  PROVE  FeedInv'
<1> USE DEF FeedInv
<1>1. CollectedInv' /\ Everything' = Everything \cup brought
  BY EverythingGrows
<1>2. feed = "httprobe" => \/ LiveHosts' = LiveHosts
                           \/ \E a : LiveHosts' = Listed(LiveHosts, a)
  <2>1. CASE brought = {}
    BY <2>1, SameHosts DEF Collect
  <2>2. ASSUME NEW a, brought = {a}
        PROVE  LiveHosts' = Listed(LiveHosts, a)
    BY <2>2, HostsGrow
  <2> QED
    BY <2>1, <2>2
<1>3. RestInv'
  BY DEF RestInv
<1>4. DataInv'
  BY DEF DataInv, HasReturned, Turn
<1>5. ReturnedInv'
  BY ReturnedKept DEF contextVars
<1>6. WorkInv'
  <2>1. JobsOf(feed)' = JobsOf(feed)
    <3>1. PICK m : m = feed
      OBVIOUS
    <3>2. JobsOf(m)' = JobsOf(m)
      BY JobsStay DEF contextVars
    <3> QED
      BY <3>1, <3>2
  <2>2. ASSUME NEW job, Settled(job)
        PROVE  Settled(job)'
    <3>1. Missed(job) => Missed(job)'
      BY DEF Missed
    <3>2. CASE feed # "httprobe"
      BY <1>1, <2>2, <3>1, <3>2 DEF Settled
    <3>3. CASE feed = "httprobe"
      <4>1. ASSUME NEW b \in LiveHosts, NEW host, StandsFor(b, host)
            PROVE  \E c \in LiveHosts' : StandsFor(c, host)
        BY <1>2, <3>3, <4>1, ListedStands
      <4> QED
        BY <2>2, <3>1, <3>3, <4>1 DEF Settled
    <3> QED
      BY <3>2, <3>3
  <2>3. \A job \in JobsOf(feed) \ (jobs' \cup working') : Settled(job)'
    BY <2>2 DEF WorkInv
  <2>4. feed = "httprobe" => OncePerHost(LiveHosts')
    BY <1>2, ListedOnce DEF WorkInv
  <2>5. feed' \in FeedModule /\ feed' = running' /\ ~HasReturned(feed)'
    BY DEF WorkInv, HasReturned
  <2>6. jobs' \cup working' \subseteq JobsOf(feed)
    BY DEF WorkInv
  <2> QED
    BY <2>1, <2>3, <2>4, <2>5, <2>6 DEF WorkInv
<1> QED
  BY <1>1, <1>3, <1>4, <1>5, <1>6

LEMMA HostJobs ==
  ASSUME NEW job, job[1] \in {"target", "https", "http"}
  PROVE  /\ Outcome(job) = LiveHost(job)
         /\ job \in DOMAIN Live => Outcome(job) = {Live[job]}
         /\ job \notin DOMAIN Live => Outcome(job) = {}
BY DEF Outcome, LiveHost

LEMMA JobKinds ==
  ASSUME DataInv, NEW m \in FeedModule, NEW job \in JobsOf(m)
  PROVE  /\ m = "passivesrc" => job[1] = "source"
         /\ m = "permute" => job[1] = "candidate"
         /\ m = "httprobe" => job[1] \in {"target", "https", "http"}
         /\ m = "takeover" => job[1] = "name"
         /\ m = "jsdeep" => job[1] = "js"
         /\ m = "endprobe" => job[1] = "endpoint"
BY DEF JobsOf, Pairs, ProbeJobs, DataInv, FeedModule

\* Nobody else's job leads to a host.
LEMMA HostsOnlyInProbe ==
  ASSUME FeedInv, feed # "idle", NEW job \in working \cap DOMAIN Live
  PROVE  feed = "httprobe"
<1>1. feed \in FeedModule /\ job \in JobsOf(feed) /\ DataInv
  BY DEF FeedInv, WorkInv
<1>2. job[1] \in {"target", "https", "http"}
  BY FeedAssumption DEF FeedAssumption
<1> QED
  BY <1>1, <1>2, JobKinds DEF FeedModule

LEMMA FeedAtSpawn ==
  ASSUME FeedInv, feed # "idle", UNCHANGED <<running, finished>>,
         NEW job \in jobs, SpawnJob(job)
  PROVE  FeedInv'
<1>1. jobs' \cup working' = jobs \cup working /\ Collect({}) /\ missed \subseteq missed'
  BY DEF SpawnJob, Collect
<1>2. UNCHANGED <<feed, asked, data, contextVars>>
  BY DEF SpawnJob
<1> QED
  BY <1>1, <1>2, WorkGoesOn

LEMMA FeedAtRetry ==
  ASSUME FeedInv, feed # "idle", UNCHANGED <<running, finished>>, NEW job, Retry(job)
  PROVE  FeedInv'
<1>1. jobs' \cup working' = jobs \cup working /\ Collect({}) /\ missed \subseteq missed'
  BY DEF Retry, Collect
<1>2. UNCHANGED <<feed, asked, data, contextVars>>
  BY DEF Retry
<1> QED
  BY <1>1, <1>2, WorkGoesOn

\* A worker that ends has settled its job.
LEMMA WorkerEnds ==
  ASSUME FeedInv, feed # "idle", UNCHANGED <<running, finished>>,
         NEW job \in working, working' = working \ {job},
         UNCHANGED <<feed, jobs, asked, data, contextVars>>, missed \subseteq missed',
         NEW brought, Collect(brought), feed = "httprobe" => brought = {} \/ \E a : brought = {a},
         Settled(job)'
  PROVE  FeedInv'
<1>1. jobs' \cup working' \subseteq jobs \cup working
  OBVIOUS
<1>2. \A j \in (jobs \cup working) \ (jobs' \cup working') : j = job
  OBVIOUS
<1> QED
  BY <1>1, <1>2, WorkGoesOn

LEMMA FeedAtAnswer ==
  ASSUME FeedInv, feed # "idle", UNCHANGED <<running, finished>>, NEW job, Answer(job)
  PROVE  FeedInv'
<1>1. /\ job \in working /\ working' = working \ {job} /\ Collect(Outcome(job))
      /\ missed \subseteq missed' /\ UNCHANGED <<feed, jobs, asked, data, contextVars>>
  BY DEF Answer
<1>2. job \in JobsOf(feed) /\ feed \in FeedModule /\ DataInv /\ CollectedInv
  BY <1>1 DEF FeedInv, WorkInv
<1>3. CASE feed = "httprobe"
  <2>1. job[1] \in {"target", "https", "http"}
    BY <1>2, <1>3, JobKinds
  <2>2. job \in DOMAIN Live => Outcome(job) = {Live[job]}
    BY <2>1, HostJobs
  <2>3. job \notin DOMAIN Live => Outcome(job) = {}
    BY <2>1, HostJobs
  <2>4. Settled(job)'
    <3>1. CASE job \notin DOMAIN Live
      BY <1>1, <1>3, <3>1 DEF Settled
    <3>2. CASE job \in DOMAIN Live
      <4>1. LiveHosts' = Listed(LiveHosts, Live[job])
        BY <1>1, <1>2, <2>2, <3>2, HostsGrow
      <4>2. \E a \in LiveHosts' : StandsFor(a, Live[job])
        BY <4>1, ListedStands DEF StandsFor
      <4> QED
        BY <1>1, <1>3, <4>2 DEF Settled
    <3> QED
      BY <3>1, <3>2
  <2>5. Outcome(job) = {} \/ \E a : Outcome(job) = {a}
    BY <2>2, <2>3
  <2> QED
    BY <1>1, <2>4, <2>5, WorkerEnds
<1>4. CASE feed # "httprobe"
  <2>1. Everything' = Everything \cup Outcome(job)
    BY <1>1, <1>2, EverythingGrows
  <2>2. Settled(job)'
    BY <1>1, <1>4, <2>1 DEF Settled
  <2> QED
    BY <1>1, <1>4, <2>2, WorkerEnds
<1> QED
  BY <1>3, <1>4

LEMMA FeedAtNoFavicon ==
  ASSUME FeedInv, feed # "idle", UNCHANGED <<running, finished>>, NEW job, NoFavicon(job)
  PROVE  FeedInv'
<1> DEFINE host == [Live[job] EXCEPT !.hash = NoHash]
<1>1. /\ job \in working \cap DOMAIN Live /\ working' = working \ {job} /\ Collect({host})
      /\ missed \subseteq missed' /\ UNCHANGED <<feed, jobs, asked, data, contextVars>>
  BY DEF NoFavicon
<1>2. feed = "httprobe" /\ CollectedInv
  BY <1>1, HostsOnlyInProbe DEF FeedInv
<1>3. StandsFor(host, Live[job])
  BY <1>1, FeedAssumption DEF FeedAssumption, StandsFor
<1> HIDE DEF host
<1>4. LiveHosts' = Listed(LiveHosts, host)
  BY <1>1, <1>2, HostsGrow
<1>5. \E a \in LiveHosts' : StandsFor(a, Live[job])
  BY <1>3, <1>4, ListedStands
<1>6. Settled(job)'
  BY <1>1, <1>2, <1>5 DEF Settled
<1>7. \E a : {host} = {a}
  OBVIOUS
<1> QED
  BY <1>1, <1>6, <1>7, WorkerEnds

LEMMA MissedJob ==
  ASSUME NEW job, NEW how \in {"failed", "panic"}, Miss(job, how)
  PROVE  missed \subseteq missed' /\ Settled(job)'
<1>1. missed' = missed \cup {<<job, how>>}
  BY DEF Miss
<1> QED
  BY <1>1 DEF Settled, Missed

LEMMA FeedAtFail ==
  ASSUME FeedInv, feed # "idle", UNCHANGED <<running, finished>>, NEW job, Fail(job)
  PROVE  FeedInv'
<1>1. /\ job \in working /\ working' = working \ {job} /\ Collect({})
      /\ Miss(job, "failed") /\ UNCHANGED <<feed, jobs, asked, data, contextVars>>
  BY DEF Fail, Collect
<1>2. missed \subseteq missed' /\ Settled(job)'
  BY <1>1, MissedJob
<1> QED
  BY <1>1, <1>2, WorkerEnds

LEMMA FeedAtPanic ==
  ASSUME FeedInv, feed # "idle", UNCHANGED <<running, finished>>, NEW job, PanicOn(job)
  PROVE  FeedInv'
<1>1. /\ job \in working /\ working' = working \ {job}
      /\ Miss(job, "panic") /\ UNCHANGED <<feed, jobs, asked, data, contextVars>>
  BY DEF PanicOn
<1>2. PICK brought : Collect(brought) /\ (feed = "httprobe" => brought = {})
  BY DEF PanicOn
<1>3. missed \subseteq missed' /\ Settled(job)'
  BY <1>1, MissedJob
<1> QED
  BY <1>1, <1>2, <1>3, WorkerEnds

LEMMA FeedAtStart ==
  ASSUME FeedInv, NEW m \in FeedModule, running = m, StartFeed(m), UNCHANGED pipelineVars
  PROVE  FeedInv'
<1> USE DEF FeedInv
<1>1. /\ feed = "idle" /\ ~HasReturned(m) /\ feed' = m /\ m # "idle"
      /\ UNCHANGED <<working, again, collected, missed, data, contextVars, running, finished>>
      /\ m # "jsdeep" => UNCHANGED asked
      /\ jobs' = IF m = "jsdeep" THEN asked' ELSE JobsOf(m)
  BY DEF StartFeed, FeedModule, pipelineVars
<1>2. jobs = {} /\ working = {} /\ collected = <<>>
  BY <1>1 DEF RestInv
<1>3. RestInv'
  BY <1>1 DEF RestInv
<1>4. CollectedInv'
  BY <1>1 DEF CollectedInv
<1>5. DataInv'
  <2>1. \A job \in asked' : job[1] = "js"
    <3>1. CASE m = "jsdeep"
      <4>1. PICK files \in GatherJSFiles, flag \in JSFlags : asked' = JSJobs(files, flag)
        BY <3>1 DEF StartFeed
      <4>2. \A job \in JSJobs(files, flag) : job[1] = "js"
        BY DEF JSJobs
      <4> QED
        BY <4>1, <4>2
    <3>2. CASE m # "jsdeep"
      BY <1>1, <3>2 DEF DataInv
    <3> QED
      BY <3>1, <3>2
  <2> QED
    BY <1>1, <2>1 DEF DataInv, HasReturned, Turn
<1>6. ReturnedInv'
  BY <1>1, ReturnedKept DEF contextVars
<1>7. WorkInv'
  <2>1. jobs' = JobsOf(m)'
    <3>1. CASE m = "jsdeep"
      BY <1>1, <3>1 DEF JobsOf
    <3>2. CASE m # "jsdeep"
      BY <1>1, <3>2, JobsStay DEF contextVars
    <3> QED
      BY <3>1, <3>2
  <2>2. LiveHosts' = {}
    BY <1>1, <1>2, HostsOfNone DEF LiveHosts
  <2>3. OncePerHost(LiveHosts)'
    BY <2>2 DEF OncePerHost
  <2>4. JobsOf(feed)' = JobsOf(m)'
    BY <1>1
  <2>5. ~HasReturned(feed)'
    BY <1>1 DEF HasReturned
  <2> QED
    BY <1>1, <1>2, <2>1, <2>3, <2>4, <2>5 DEF WorkInv
<1> QED
  BY <1>3, <1>4, <1>5, <1>6, <1>7

--------------------------------------------------------------------------------
\* The six modules: what they publish

LEMMA JoinFacts ==
  ASSUME FeedInv, ReportInv, NEW m \in FeedModule, running = m, feed = m, JoinFeed
  PROVE  /\ DOMAIN data' = FeedModule /\ data'[m] = <<DataOf(m)>> /\ HasReturned(m)'
         /\ \A k \in FeedModule \ {m} : data'[k] = data[k] /\ (HasReturned(k)' <=> HasReturned(k))
         /\ \A job \in JobsOf(m) : Settled(job)
         /\ subdomains \subseteq subdomains' /\ endpoints \subseteq endpoints'
         /\ findings \subseteq findings'
         /\ m \notin {"passivesrc", "permute"} => UNCHANGED subdomains
         /\ m # "jsdeep" => UNCHANGED endpoints
         /\ HasReturned("httprobe") \/ HasReturned("takeover") => UNCHANGED subdomains
         /\ HasReturned("endprobe") => UNCHANGED endpoints
         /\ UNCHANGED <<asked, missed>>
<1> USE DEF FeedInv
<1>1. /\ jobs = {} /\ working = {} /\ data' = [data EXCEPT ![m] = <<DataOf(m)>>]
      /\ UNCHANGED <<asked, missed>> /\ DataInv /\ DOMAIN data = FeedModule
  BY DEF JoinFeed, DataInv
<1>2. DOMAIN data' = FeedModule /\ data'[m] = <<DataOf(m)>>
  BY <1>1
<1>3. \A k \in FeedModule \ {m} : data'[k] = data[k]
  BY <1>1
<1>4. HasReturned(m)' /\ \A k \in FeedModule \ {m} : HasReturned(k)' <=> HasReturned(k)
  BY <1>2, <1>3 DEF HasReturned
<1>5. feed # "idle"
  BY DEF FeedModule
<1>6. \A job \in JobsOf(m) : Settled(job)
  BY <1>1, <1>5 DEF WorkInv
<1>7. /\ subdomains \subseteq subdomains'
      /\ m \notin {"passivesrc", "permute"} => UNCHANGED subdomains
  <2>1. AddSharedSubdomains(IF m \in {"passivesrc", "permute"} THEN Everything ELSE {})
    BY DEF JoinFeed
  <2> QED
    BY <2>1 DEF AddSharedSubdomains
<1>8. /\ endpoints \subseteq endpoints'
      /\ m # "jsdeep" => UNCHANGED endpoints
  <2>1. AddSharedEndpoints(IF m = "jsdeep" THEN Everything \ Buckets ELSE {})
    BY DEF JoinFeed
  <2> QED
    BY <2>1 DEF AddSharedEndpoints
<1>9. findings \subseteq findings'
  <2>1. ASSUME NEW s PROVE Add(s) => findings \subseteq findings'
    BY DEF Add
  <2> QED
    BY <2>1 DEF JoinFeed
<1>10. ASSUME NEW k \in FeedModule, HasReturned(k)
       PROVE  k # m /\ Place(k) < Place(m)
  <2>1. k # m
    BY <1>5, <1>10 DEF WorkInv
  <2>2. m # Nobody
    BY ModuleNames
  <2> QED
    BY <1>1, <1>10, <2>1, <2>2, Later
<1>11. HasReturned("httprobe") \/ HasReturned("takeover") => UNCHANGED subdomains
  BY <1>7, <1>10, FeedPlaces DEF FeedModule
<1>12. HasReturned("endprobe") => UNCHANGED endpoints
  BY <1>8, <1>10, FeedPlaces DEF FeedModule
<1> QED
  BY <1>1, <1>2, <1>3, <1>4, <1>6, <1>7, <1>8, <1>9, <1>11, <1>12

LEMMA SourcesAtJoin ==
  ASSUME FeedInv, ReportInv, running = "passivesrc", feed = "passivesrc", JoinFeed
  PROVE  SourcesAreListed'
<1>1. "passivesrc" \in FeedModule
  BY DEF FeedModule
<1>2. /\ data'["passivesrc"] = <<DataOf("passivesrc")>> /\ UNCHANGED missed
      /\ \A job \in JobsOf("passivesrc") : Settled(job)
  BY <1>1, JoinFacts
<1>3. subdomains' = subdomains \cup Everything
  BY DEF JoinFeed, AddSharedSubdomains
<1>4. ASSUME NEW s \in data'["passivesrc"][1].successful,
             <<<<"source", s>>, "panic">> \notin missed'
      PROVE  SourceNames(s) \subseteq subdomains'
  <2>1. s \in ToSet(Sources) \ FailedSources
    BY <1>2, <1>4 DEF DataOf
  <2>2. <<"source", s>> \in JobsOf("passivesrc")
    BY <2>1 DEF JobsOf, Pairs
  <2>3. ~Missed(<<"source", s>>)
    BY <1>2, <1>4, <2>1 DEF Missed, FailedSources
  <2>4. Outcome(<<"source", s>>) \subseteq Everything
    BY <1>2, <2>2, <2>3 DEF Settled
  <2>5. Outcome(<<"source", s>>) = SourceNames(s)
    BY DEF Outcome
  <2> QED
    BY <1>3, <2>4, <2>5
<1> QED
  BY <1>4 DEF SourcesAreListed

LEMMA HostsAtJoin ==
  ASSUME FeedInv, ReportInv, running = "httprobe", feed = "httprobe", JoinFeed
  PROVE  HostsAreListed'
<1>1. "httprobe" \in FeedModule
  BY DEF FeedModule
<1>2. /\ data'["httprobe"] = <<DataOf("httprobe")>> /\ UNCHANGED <<missed, subdomains>>
      /\ \A job \in JobsOf("httprobe") : Settled(job)
  BY <1>1, JoinFacts
<1> DEFINE listed == data'["httprobe"][1].hosts
           hashes == data'["httprobe"][1].hashes
<1>3. listed = LiveHosts /\ hashes = FaviconHashes
  BY <1>2 DEF DataOf
<1>4. ASSUME NEW job \in ProbeJobs' \cap DOMAIN Live, ~Missed(job)'
      PROVE  \E a \in listed : StandsFor(a, Live[job])
  <2>1. ProbeJobs' = ProbeJobs
    BY <1>2 DEF ProbeJobs
  <2>2. job \in JobsOf("httprobe")
    BY <2>1 DEF JobsOf
  <2>3. ~Missed(job)
    BY <1>2, <1>4 DEF Missed
  <2> QED
    BY <1>2, <1>3, <2>2, <2>3 DEF Settled
<1>5. OncePerHost(LiveHosts)
  BY DEF FeedInv, WorkInv
<1>6. ASSUME NEW a \in LiveHosts
      PROVE  a.hash = IF a.host \in DOMAIN FaviconHashes THEN FaviconHashes[a.host] ELSE NoHash
  <2> DEFINE hashed == {b \in LiveHosts : b.hash # NoHash}
             names == {b.host : b \in hashed}
  <2>1. CASE a.hash = NoHash
    <3>1. a.host \notin names
      BY <1>5, <2>1 DEF OncePerHost
    <3>2. DOMAIN FaviconHashes = names
      BY DEF FaviconHashes
    <3> QED
      BY <2>1, <3>1, <3>2
  <2>2. CASE a.hash # NoHash
    <3>1. a \in hashed /\ a.host \in names
      BY <2>2
    <3>2. \A b \in hashed : b.host = a.host => b = a
      BY <1>5 DEF OncePerHost
    <3>3. (CHOOSE b \in hashed : b.host = a.host) = a
      BY <3>1, <3>2
    <3>4. FaviconHashes[a.host] = (CHOOSE b \in hashed : b.host = a.host).hash
      BY <3>1 DEF FaviconHashes
    <3>5. a.host \in DOMAIN FaviconHashes
      BY <3>1 DEF FaviconHashes
    <3> QED
      BY <3>3, <3>4, <3>5
  <2> QED
    BY <2>1, <2>2
<1> HIDE DEF listed, hashes
<1>7. /\ OncePerHost(listed)
      /\ \A a \in listed : a.hash = IF a.host \in DOMAIN hashes THEN hashes[a.host] ELSE NoHash
  BY <1>3, <1>5, <1>6
<1> QED
  BY <1>4, <1>7 DEF HostsAreListed, listed, hashes

LEMMA NamesAtJoin ==
  ASSUME FeedInv, ReportInv, running = "takeover", feed = "takeover", JoinFeed
  PROVE  NamesAreChecked'
<1>1. "takeover" \in FeedModule
  BY DEF FeedModule
<1>2. /\ data'["takeover"] = <<DataOf("takeover")>> /\ UNCHANGED <<missed, subdomains>>
      /\ \A job \in JobsOf("takeover") : Settled(job)
  BY <1>1, JoinFacts
<1>3. data'["takeover"][1] = Everything
  BY <1>2 DEF DataOf
<1>4. ASSUME NEW s \in subdomains' \cap Unclaimed, ~Missed(<<"name", s>>)'
      PROVE  s \in data'["takeover"][1]
  <2>1. <<"name", s>> \in JobsOf("takeover")
    BY <1>2 DEF JobsOf, Pairs
  <2>2. ~Missed(<<"name", s>>)
    BY <1>2, <1>4 DEF Missed
  <2>3. Outcome(<<"name", s>>) \subseteq Everything
    BY <1>2, <2>1, <2>2 DEF Settled
  <2>4. s \in Outcome(<<"name", s>>)
    BY DEF Outcome, UnclaimedName
  <2> QED
    BY <1>3, <2>3, <2>4
<1> QED
  BY <1>4 DEF NamesAreChecked

LEMMA ScriptsAtJoin ==
  ASSUME FeedInv, ReportInv, running = "jsdeep", feed = "jsdeep", JoinFeed
  PROVE  ScriptsAreMined'
<1>1. "jsdeep" \in FeedModule
  BY DEF FeedModule
<1>2. UNCHANGED <<asked, missed>> /\ \A job \in JobsOf("jsdeep") : Settled(job)
  BY <1>1, JoinFacts
<1>3. endpoints' = endpoints \cup (Everything \ Buckets)
  BY DEF JoinFeed, AddSharedEndpoints
<1>4. \A b \in Everything \cap Buckets : Finding("jsdeep", b) \in findings'
  BY DEF JoinFeed, Add
<1>5. ASSUME NEW job \in asked', ~Missed(job)', NEW e \in Routes[job[2]]
      PROVE  IF e \in Buckets THEN Finding("jsdeep", e) \in findings' ELSE e \in endpoints'
  <2>1. job \in asked /\ job \in JobsOf("jsdeep") /\ job[1] = "js"
    BY <1>2 DEF JobsOf, FeedInv, DataInv
  <2>2. ~Missed(job)
    BY <1>2, <1>5 DEF Missed
  <2>3. Outcome(job) \subseteq Everything
    BY <1>2, <2>1, <2>2 DEF Settled
  <2>4. e \in Outcome(job)
    BY <2>1 DEF Outcome, MinedFrom
  <2> QED
    BY <1>3, <1>4, <2>3, <2>4
<1> QED
  BY <1>5 DEF ScriptsAreMined

LEMMA EndpointsAtJoin ==
  ASSUME FeedInv, ReportInv, running = "endprobe", feed = "endprobe", JoinFeed
  PROVE  EndpointsAreAsked'
<1>1. "endprobe" \in FeedModule
  BY DEF FeedModule
<1>2. /\ data'["endprobe"] = <<DataOf("endprobe")>> /\ UNCHANGED <<missed, endpoints>>
      /\ \A job \in JobsOf("endprobe") : Settled(job)
  BY <1>1, JoinFacts
<1>3. data'["endprobe"][1] = Everything
  BY <1>2 DEF DataOf
<1>4. ASSUME NEW e \in Candidates' \cap Unguarded, ~Missed(<<"endpoint", e>>)'
      PROVE  e \in data'["endprobe"][1]
  <2>1. Candidates' = Candidates
    BY <1>2 DEF Candidates
  <2>2. <<"endpoint", e>> \in JobsOf("endprobe")
    BY <2>1 DEF JobsOf, Pairs
  <2>3. ~Missed(<<"endpoint", e>>)
    BY <1>2, <1>4 DEF Missed
  <2>4. Outcome(<<"endpoint", e>>) \subseteq Everything
    BY <1>2, <2>2, <2>3 DEF Settled
  <2>5. e \in Outcome(<<"endpoint", e>>)
    BY DEF Outcome, OpenEndpoint
  <2> QED
    BY <1>3, <2>4, <2>5
<1> QED
  BY <1>4 DEF EndpointsAreAsked

LEMMA FeedAtJoin ==
  ASSUME FeedInv, ReportInv, NEW m \in FeedModule, running = m, feed = m, JoinFeed,
         UNCHANGED pipelineVars
  PROVE  FeedInv'
<1>1. /\ DOMAIN data' = FeedModule
      /\ \A k \in FeedModule \ {m} : data'[k] = data[k] /\ (HasReturned(k)' <=> HasReturned(k))
      /\ subdomains \subseteq subdomains' /\ endpoints \subseteq endpoints'
      /\ findings \subseteq findings'
      /\ HasReturned("httprobe") \/ HasReturned("takeover") => UNCHANGED subdomains
      /\ HasReturned("endprobe") => UNCHANGED endpoints
      /\ UNCHANGED <<asked, missed>>
  BY JoinFacts
<1>2. /\ feed' = "idle" /\ jobs' = {} /\ working' = {} /\ collected' = <<>>
      /\ UNCHANGED <<running, finished>>
  BY DEF JoinFeed, pipelineVars
<1>3. RestInv' /\ WorkInv'
  BY <1>2 DEF RestInv, WorkInv
<1>4. CollectedInv'
  <2>1. <<>> \in Seq({})
    OBVIOUS
  <2> QED
    BY <1>2, <2>1 DEF CollectedInv
<1>5. DataInv'
  <2>1. m \in Turn /\ Turn' = Turn
    BY <1>2, ModuleNames DEF Turn
  <2> QED
    BY <1>1, <1>2, <2>1 DEF FeedInv, DataInv
<1>6. ReturnedInv'
  <2> USE DEF FeedInv, ReturnedInv
  <2>1. \A job : Missed(job)' <=> Missed(job)
    BY <1>1 DEF Missed
  <2>2. SourcesAreListed'
    <3>1. CASE m = "passivesrc"
      BY <3>1, SourcesAtJoin
    <3>2. CASE m # "passivesrc"
      BY <1>1, <3>2 DEF SourcesAreListed, FeedModule
    <3> QED
      BY <3>1, <3>2
  <2>3. HostsAreListed'
    <3>1. CASE m = "httprobe"
      BY <3>1, HostsAtJoin
    <3>2. CASE m # "httprobe"
      <4> SUFFICES ASSUME HasReturned("httprobe")' PROVE HostsAreListed'
        BY DEF HostsAreListed
      <4>1. HasReturned("httprobe") /\ data'["httprobe"] = data["httprobe"]
        BY <1>1, <3>2 DEF FeedModule
      <4>2. ProbeJobs' = ProbeJobs
        BY <1>1, <4>1 DEF ProbeJobs
      <4> QED
        BY <2>1, <4>1, <4>2 DEF HostsAreListed
    <3> QED
      BY <3>1, <3>2
  <2>4. NamesAreChecked'
    <3>1. CASE m = "takeover"
      BY <3>1, NamesAtJoin
    <3>2. CASE m # "takeover"
      <4> SUFFICES ASSUME HasReturned("takeover")' PROVE NamesAreChecked'
        BY DEF NamesAreChecked
      <4>1. HasReturned("takeover") /\ data'["takeover"] = data["takeover"]
        BY <1>1, <3>2 DEF FeedModule
      <4> QED
        BY <1>1, <2>1, <4>1 DEF NamesAreChecked
    <3> QED
      BY <3>1, <3>2
  <2>5. ScriptsAreMined'
    <3>1. CASE m = "jsdeep"
      BY <3>1, ScriptsAtJoin
    <3>2. CASE m # "jsdeep"
      <4> SUFFICES ASSUME HasReturned("jsdeep")', NEW job \in asked', ~Missed(job)',
                          NEW e \in Routes[job[2]]
                   PROVE  IF e \in Buckets THEN Finding("jsdeep", e) \in findings'
                          ELSE e \in endpoints'
        BY DEF ScriptsAreMined
      <4>1. HasReturned("jsdeep") /\ job \in asked /\ ~Missed(job)
        BY <1>1, <2>1, <3>2 DEF FeedModule
      <4>2. IF e \in Buckets THEN Finding("jsdeep", e) \in findings ELSE e \in endpoints
        BY <4>1 DEF ScriptsAreMined
      <4> QED
        BY <1>1, <4>2
    <3> QED
      BY <3>1, <3>2
  <2>6. EndpointsAreAsked'
    <3>1. CASE m = "endprobe"
      BY <3>1, EndpointsAtJoin
    <3>2. CASE m # "endprobe"
      <4> SUFFICES ASSUME HasReturned("endprobe")' PROVE EndpointsAreAsked'
        BY DEF EndpointsAreAsked
      <4>1. HasReturned("endprobe") /\ data'["endprobe"] = data["endprobe"]
        BY <1>1, <3>2 DEF FeedModule
      <4>2. Candidates' = Candidates
        BY <1>1, <4>1 DEF Candidates
      <4> QED
        BY <2>1, <4>1, <4>2 DEF EndpointsAreAsked
    <3> QED
      BY <3>1, <3>2
  <2> QED
    BY <2>2, <2>3, <2>4, <2>5, <2>6
<1> QED
  BY <1>3, <1>4, <1>5, <1>6 DEF FeedInv

--------------------------------------------------------------------------------
\* The six modules: the invariant

LEMMA FeedElsewhere ==
  ASSUME FeedInv, ReportInv, Elsewhere
  PROVE  FeedInv'
<1> USE DEF FeedInv
<1>1. /\ UNCHANGED <<feed, jobs, asked, working, collected, missed, data>>
      /\ \A m : HasReturned(m)' <=> HasReturned(m)
  BY DEF Elsewhere, feedVars, HasReturned
<1>2. RestInv' /\ CollectedInv'
  BY <1>1 DEF RestInv, CollectedInv
<1>3. WorkInv'
  <2> SUFFICES ASSUME feed # "idle" PROVE WorkInv'
    BY <1>1 DEF WorkInv
  <2>1. feed \in FeedModule /\ feed = running /\ ~HasReturned(feed) /\ running # Nobody
    BY ModuleNames DEF WorkInv
  <2>2. UNCHANGED <<running, finished>>
    BY <2>1 DEF Elsewhere
  <2>3. UNCHANGED <<subdomains, endpoints>>
    BY <2>1 DEF Elsewhere, FeedModule
  <2>4. JobsOf(feed)' = JobsOf(feed)
    <3>1. PICK m : m = feed
      OBVIOUS
    <3>2. JobsOf(m)' = JobsOf(m)
      BY <1>1, <2>3, JobsStay
    <3> QED
      BY <1>1, <3>1, <3>2
  <2>5. UNCHANGED <<LiveHosts, Everything>>
    BY <1>1, SameHosts
  <2>6. \A job : Settled(job)' <=> Settled(job)
    BY <1>1, <2>5 DEF Settled, Missed
  <2>7. OncePerHost(LiveHosts)' <=> OncePerHost(LiveHosts)
    BY <2>5 DEF OncePerHost
  <2> QED
    BY <1>1, <2>1, <2>2, <2>4, <2>6, <2>7 DEF WorkInv
<1>4. DataInv'
  <2>1. CASE UNCHANGED <<running, finished>>
    BY <1>1, <2>1 DEF DataInv, Turn
  <2>2. CASE running = Nobody /\ UNCHANGED finished
    BY <1>1, <2>2 DEF DataInv, Turn
  <2>3. CASE running # Nobody /\ finished' = Append(finished, running)
    <3>1. Turn = {running} /\ running \in Module /\ finished \in Seq(Module)
      BY <2>3 DEF ReportInv, PipelineTypeOK, Turn
    <3>2. ToSet(finished') = ToSet(finished) \cup {running}
      BY <2>3, <3>1 DEF ToSet
    <3> QED
      BY <1>1, <3>1, <3>2 DEF DataInv
  <2> QED
    BY <2>1, <2>2, <2>3 DEF Elsewhere
<1>5. ReturnedInv'
  <2>1. ASSUME NEW m \in FeedModule, HasReturned(m), running \notin FeedModule, running # Nobody
        PROVE  Place(m) < Place(running)
    BY <2>1, Later
  <2>2. HasReturned("httprobe") \/ HasReturned("takeover") => UNCHANGED subdomains
    <3> SUFFICES ASSUME subdomains' # subdomains
                 PROVE  ~HasReturned("httprobe") /\ ~HasReturned("takeover")
      OBVIOUS
    <3>1. running \in {"dns", "wayback"} /\ running \notin FeedModule /\ running # Nobody
      BY ModuleNames DEF Elsewhere, FeedModule
    <3>2. {"httprobe", "takeover"} \subseteq FeedModule
      BY DEF FeedModule
    <3> QED
      BY <2>1, <3>1, <3>2, FeedPlaces
  <2>3. HasReturned("endprobe") => UNCHANGED endpoints
    <3> SUFFICES ASSUME endpoints' # endpoints PROVE ~HasReturned("endprobe")
      OBVIOUS
    <3>1. running = "crawler" /\ running \notin FeedModule /\ running # Nobody
      BY ModuleNames DEF Elsewhere, FeedModule
    <3>2. "endprobe" \in FeedModule
      BY DEF FeedModule
    <3> QED
      BY <2>1, <3>1, <3>2, FeedPlaces
  <2> QED
    BY <1>1, <2>2, <2>3, ReturnedKept DEF Elsewhere
<1> QED
  BY <1>2, <1>3, <1>4, <1>5

LEMMA FeedInitHolds == Init => FeedInv
<1> SUFFICES ASSUME Init PROVE FeedInv
  OBVIOUS
<1> USE DEF Init, FeedInit
<1>1. RestInv /\ WorkInv
  BY DEF RestInv, WorkInv
<1>2. CollectedInv
  <2>1. <<>> \in Seq({})
    OBVIOUS
  <2> QED
    BY <2>1 DEF CollectedInv
<1>3. \A m \in FeedModule : ~HasReturned(m)
  BY DEF HasReturned
<1>4. DataInv
  BY <1>3 DEF DataInv
<1>5. ReturnedInv
  BY <1>3 DEF ReturnedInv, SourcesAreListed, HostsAreListed, NamesAreChecked, ScriptsAreMined,
     EndpointsAreAsked, FeedModule
<1> QED
  BY <1>1, <1>2, <1>4, <1>5 DEF FeedInv

LEMMA FeedNext ==
  ASSUME FeedInv, ReportInv, [Next]_vars
  PROVE  FeedInv'
<1>1. ASSUME FeedTurn
      PROVE  FeedInv'
  <2>1. /\ running \in FeedModule /\ FeedStep(running) /\ UNCHANGED pipelineVars
        /\ UNCHANGED <<running, finished>>
    BY <1>1 DEF FeedTurn, pipelineVars
  <2>2. CASE StartFeed(running)
    BY <2>1, <2>2, FeedAtStart
  <2>3. ASSUME feed = running
        PROVE  feed # "idle"
    BY <2>1, <2>3 DEF FeedModule
  <2>4. CASE feed = running /\ JoinFeed
    BY <2>1, <2>4, FeedAtJoin
  <2>5. ASSUME feed = running, NEW job \in jobs, SpawnJob(job)
        PROVE  FeedInv'
    BY <2>1, <2>3, <2>5, FeedAtSpawn
  <2>6. ASSUME feed = running, NEW job \in working,
               Answer(job) \/ NoFavicon(job) \/ Retry(job) \/ Fail(job) \/ PanicOn(job)
        PROVE  FeedInv'
    BY <2>1, <2>3, <2>6, FeedAtAnswer, FeedAtNoFavicon, FeedAtRetry, FeedAtFail, FeedAtPanic
  <2> QED
    BY <2>1, <2>2, <2>4, <2>5, <2>6 DEF FeedStep
<1>2. CASE UNCHANGED vars
  <2>1. Elsewhere
    BY <1>2 DEF Elsewhere, vars, engineVars, pipelineVars, contextVars
  <2> QED
    BY <2>1, FeedElsewhere
<1> QED
  BY <1>1, <1>2, FeedTurns, FeedElsewhere

\* Whatever the order of the workers' answers, and whatever panics or fails on the way,
\* what the archive and the six modules have found reaches the modules behind them.
\* (passive.go:62-318, httprobe.go:59-240, takeover.go:98-191, jsanalysis.go:68-258,
\* endpointprobe.go:50-139, discovery.go:46-183)
THEOREM FeedbackArrives == Spec => []FeedbackReachesProbes
<1>1. Init => ArchiveInv /\ FeedInv
  BY ArchiveInit, FeedInitHolds
<1>2. ReportInv /\ ArchiveInv /\ FeedInv /\ [Next]_vars => (ArchiveInv /\ FeedInv)'
  BY ArchiveNext, FeedNext
<1>3. ArchiveInv /\ FeedInv => FeedbackReachesProbes
  BY ArchiveFollows DEF FeedInv, ReturnedInv, FeedbackReachesProbes
<1> QED
  BY <1>1, <1>2, <1>3, PipelineInvariance, PTL DEF Spec
================================================================================
