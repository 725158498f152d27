------------------------------ MODULE CimdLookup ------------------------------
(***************************************************************************)
(* The lookup of a client's metadata document (oauth_ha_auth.py): the      *)
(* cache of outcomes, the slots that bound concurrent lookups and the      *)
(* deadline over the whole of each.                                        *)
(*                                                                         *)
(* A lookup reads the clock once, when it is asked for.  It awaits a slot, *)
(* the resolver and the host; when it writes the cache, the clock has gone *)
(* on and other lookups, also of the same client, have written.  The cache *)
(* is a dict: a sequence of entries in the order they were written.        *)
(*                                                                         *)
(* Timers of the event loop are punctual: the clock does not pass the      *)
(* deadline of a lookup that is still pending.                             *)
(***************************************************************************)
EXTENDS Integers, FiniteSets, Sequences

CONSTANTS Ids,          \* client_ids with the shape of a metadata document URL
          Docs,         \* the valid documents hosts serve
          Lookups,      \* concurrent requests that need a document
          Cap,          \* _CIMD_CACHE_MAX
          Slots,        \* _CIMD_LOOKUP_SLOTS
          TTL,          \* CIMD_CACHE_TTL
          NegativeTTL,  \* CIMD_NEGATIVE_TTL
          Deadline,     \* CIMD_TOTAL_LOOKUP_TIMEOUT
          Addresses,    \* bound: how many addresses a host resolves to
          MaxTime       \* bound: when the clock stops

ASSUME CapAssumption == Cap \in Nat \ {0}
ASSUME TimesAssumption ==
  /\ {TTL, NegativeTTL, Deadline, MaxTime, Addresses} \subseteq Nat
  /\ Deadline < NegativeTTL /\ NegativeTTL < TTL
ASSUME SlotsAssumption == Slots \in Nat \ {0}

\* What a lookup finds: a valid document, a host that answers something else, or
\* no host that answers in time
Outcomes == Docs \cup {"invalid", "outage"}
Times == 0 .. MaxTime

Entries == [id : Ids, exp : 0 .. MaxTime + TTL, outcome : Docs \cup {"outage"}, seen : Times]
Idle == [stage |-> "idle"]
Pending == [stage : {"queued", "resolving"}, id : Ids, start : Times]
Connecting == [stage : {"connecting"}, id : Ids, start : Times, left : 0 .. Addresses]
Reading == [stage : {"reading"}, id : Ids, start : Times, left : 0 .. Addresses,
            outcome : Docs \cup {"invalid"}, seen : Times]
Answers == [id : Ids, outcome : Outcomes, seen : Times, at : Times]
NoAnswer == [id |-> "none"]

VARIABLES
  now,     \* the monotonic clock
  cache,   \* _cimd_cache: client_id, expiry and outcome in the order of writing,
           \* and when the outcome was so
  lookup,  \* the state of each request
  answer,  \* what a request was answered in the last step
  churn    \* which clients were written since each client was: history only

vars == <<now, cache, lookup, answer, churn>>

-----------------------------------------------------------------------------
Started(l) == lookup[l] # Idle
Holding == {l \in Lookups : lookup[l].stage \in {"resolving", "connecting", "reading"}}

Lifetime(outcome) == IF outcome = "outage" THEN NegativeTTL ELSE TTL

\* The entries of the cache at some of its positions, in their order
Keep(positions) ==
  LET keep[i \in 0 .. Len(cache)] ==
        IF i = 0 THEN <<>>
        ELSE IF i \in positions THEN Append(keep[i - 1], cache[i]) ELSE keep[i - 1]
  IN keep[Len(cache)]

\* What a write leaves for its client's new entry: not the old one, and of a full
\* cache not what had expired when the lookup began
Others(id) == {i \in DOMAIN cache : cache[i].id # id}
Trimmed(id, at) ==
  IF Cardinality(Others(id)) < Cap THEN Others(id)
  ELSE {i \in Others(id) : cache[i].exp > at}

\* The last of some positions, so many that there is room for one more entry
Newest(positions) ==
  {i \in positions : Cardinality({j \in positions : j >= i}) < Cap}

\* Mutant of Room: a full cache is not trimmed unless something has expired
Room_OnlyExpired(id, at) == Keep(Trimmed(id, at))

\* Mutant of Room: the entry that makes room is the newest
Room_Newest(id, at) ==
  LET left == Trimmed(id, at)
  IN Keep({i \in left : Cardinality({j \in left : j <= i}) < Cap})

\* The cache with room for an entry of a client
Room(id, at) == Keep(Newest(Trimmed(id, at)))

\* Mutant of Written: the lifetime starts with the write
Written_FromWrite(id, at, outcome, seen) ==
  Append(Room(id, at), [id |-> id, exp |-> now + Lifetime(outcome), outcome |-> outcome,
                        seen |-> seen])

\* _cache_cimd: the lifetime starts with the request
Written(id, at, outcome, seen) ==
  Append(Room(id, at), [id |-> id, exp |-> at + Lifetime(outcome), outcome |-> outcome,
                        seen |-> seen])

Cache(id, at, outcome, seen) ==
  /\ cache' = Written(id, at, outcome, seen)
  /\ churn' = [i \in Ids |-> IF i = id THEN {} ELSE churn[i] \cup {id}]

Answer(id, outcome, seen) ==
  answer' = [id |-> id, outcome |-> outcome, seen |-> seen, at |-> now]

Silent == answer' = NoAnswer

Finish(l) == lookup' = [lookup EXCEPT ![l] = Idle]

-----------------------------------------------------------------------------
Init ==
  /\ now = 0
  /\ cache = <<>>
  /\ lookup = [l \in Lookups |-> Idle]
  /\ answer = NoAnswer
  /\ churn = [i \in Ids |-> {}]

\* fetch_cimd_redirects, answered from the cache
Hit(l, id) ==
  /\ ~Started(l)
  /\ \E i \in DOMAIN cache :
       /\ cache[i].id = id /\ cache[i].exp > now
       /\ Answer(id, cache[i].outcome, cache[i].seen)
  /\ UNCHANGED <<now, cache, lookup, churn>>

\* fetch_cimd_redirects, to wait for a slot under the deadline
Miss(l, id) ==
  /\ ~Started(l) /\ now + Deadline <= MaxTime
  /\ \A i \in DOMAIN cache : cache[i].id = id => cache[i].exp <= now
  /\ lookup' = [lookup EXCEPT ![l] = [stage |-> "queued", id |-> id, start |-> now]]
  /\ Silent /\ UNCHANGED <<now, cache, churn>>

\* A slot of the semaphore; which of the waiting requests gets it is left open
Admit(l) ==
  /\ lookup[l].stage = "queued" /\ Cardinality(Holding) < Slots
  /\ lookup' = [lookup EXCEPT ![l].stage = "resolving"]
  /\ Silent /\ UNCHANGED <<now, cache, churn>>

\* _resolve_public_addresses: none if resolution fails, times out or names an
\* address that is not public
Resolve(l) ==
  /\ lookup[l].stage = "resolving"
  /\ \E n \in 0 .. Addresses :
       lookup' = [lookup EXCEPT ![l] = [stage |-> "connecting", id |-> lookup[l].id,
                                        start |-> lookup[l].start, left |-> n]]
  /\ Silent /\ UNCHANGED <<now, cache, churn>>

\* _fetch_pinned_cimd: the host answers; whatever it says is definitive
HostAnswers(l) ==
  /\ lookup[l].stage = "connecting" /\ lookup[l].left > 0
  /\ \E outcome \in Docs \cup {"invalid"} :
       lookup' = [lookup EXCEPT ![l] = [stage |-> "reading", id |-> lookup[l].id,
                    start |-> lookup[l].start, left |-> lookup[l].left,
                    outcome |-> outcome, seen |-> now]]
  /\ Silent /\ UNCHANGED <<now, cache, churn>>

\* _fetch_pinned_cimd: no answer, or the connection breaks; the next address
AddressFails(l) ==
  /\ lookup[l].stage \in {"connecting", "reading"} /\ lookup[l].left > 0
  /\ lookup' = [lookup EXCEPT ![l] = [stage |-> "connecting", id |-> lookup[l].id,
                                      start |-> lookup[l].start, left |-> lookup[l].left - 1]]
  /\ Silent /\ UNCHANGED <<now, cache, churn>>

\* Valid documents are cached, invalid ones are not
Keeps(outcome) == outcome # "invalid"

\* The document is read and validated, the outcome cached unless it is invalid
DocumentRead(l) ==
  /\ lookup[l].stage = "reading"
  /\ LET k == lookup[l]
     IN /\ IF Keeps(k.outcome) THEN Cache(k.id, k.start, k.outcome, k.seen)
           ELSE UNCHANGED <<cache, churn>>
        /\ Answer(k.id, k.outcome, k.seen)
  /\ Finish(l)
  /\ UNCHANGED now

\* No address is left: an outage, cached
OutOfAddresses(l) ==
  /\ lookup[l].stage = "connecting" /\ lookup[l].left = 0
  /\ Cache(lookup[l].id, lookup[l].start, "outage", now)
  /\ Answer(lookup[l].id, "outage", now)
  /\ Finish(l)
  /\ UNCHANGED now

\* Mutant of Late: waiting for a slot is not under the deadline
Late_Admitted(l) == l \in Holding /\ now >= lookup[l].start + Deadline

Late(l) == Started(l) /\ now >= lookup[l].start + Deadline

\* The total deadline: the slot is given back and the outage is cached, also
\* over a document another lookup has cached meanwhile
DeadlinePasses(l) ==
  /\ Late(l)
  /\ Cache(lookup[l].id, lookup[l].start, "outage", now)
  /\ Answer(lookup[l].id, "outage", now)
  /\ Finish(l)
  /\ UNCHANGED now

\* The registration ends and closes the session: the fetch raises
SessionClosed(l) ==
  /\ lookup[l].stage \in {"connecting", "reading"}
  /\ Finish(l)
  /\ Silent /\ UNCHANGED <<now, cache, churn>>

Tick ==
  /\ now < MaxTime
  /\ \A l \in Lookups : Started(l) => now < lookup[l].start + Deadline
  /\ now' = now + 1
  /\ Silent /\ UNCHANGED <<cache, lookup, churn>>

Next ==
  \/ Tick
  \/ \E l \in Lookups :
       \/ \E id \in Ids : Hit(l, id) \/ Miss(l, id)
       \/ Admit(l) \/ Resolve(l) \/ HostAnswers(l) \/ AddressFails(l)
       \/ DocumentRead(l) \/ OutOfAddresses(l) \/ DeadlinePasses(l) \/ SessionClosed(l)

Spec == Init /\ [][Next]_vars

\* The clock goes on and due timers fire; hosts and resolvers owe nothing
FairSpec == Spec /\ WF_vars(Tick) /\ \A l \in Lookups : WF_vars(DeadlinePasses(l))

-----------------------------------------------------------------------------
\* The variables have their types, and the cache holds at most _CIMD_CACHE_MAX
\* entries, one of each client, also when lookups that began before one another
\* write in any order (_cache_cimd).
TypeOK ==
  /\ now \in Times
  /\ cache \in Seq(Entries)
  /\ lookup \in [Lookups -> {Idle} \cup Pending \cup Connecting \cup Reading]
  /\ answer \in Answers \cup {NoAnswer}
  /\ churn \in [Ids -> SUBSET Ids]
  /\ Len(cache) <= Cap
  /\ \A i, j \in DOMAIN cache : cache[i].id = cache[j].id => i = j

\* An answer was so less than CIMD_CACHE_TTL ago, an outage CIMD_NEGATIVE_TTL, and
\* an invalid document is one read within the deadline, by this very request: a
\* client that corrects its document recovers at once (_lookup_cimd).
AnswersAreRecent ==
  answer # NoAnswer =>
    IF answer.outcome = "invalid" THEN answer.at - answer.seen <= Deadline
    ELSE answer.at - answer.seen < Lifetime(answer.outcome)

\* A live entry is evicted only after as many other clients were written as the
\* cache holds: "64 unique requests per live entry" (_cache_cimd).
EvictionNeedsChurn ==
  [][\A i \in DOMAIN cache :
       cache[i].exp > now /\ (\A j \in DOMAIN cache' : cache'[j].id # cache[i].id) =>
         Cardinality(churn'[cache[i].id]) >= Cap]_vars

\* No lookup stays pending, however its host behaves and however many wait for
\* the slots (fetch_cimd_redirects).
LookupsEnd == \A l \in Lookups : Started(l) ~> ~Started(l)
-----------------------------------------------------------------------------
(* The inductive invariant.                                                 *)

\* A lookup is pending no longer than its deadline, and what it reads was said
\* since it began
Timely ==
  \A l \in Lookups : Started(l) =>
    /\ lookup[l].start <= now /\ now <= lookup[l].start + Deadline
    /\ lookup[l].stage = "reading" =>
         lookup[l].start <= lookup[l].seen /\ lookup[l].seen <= now

\* An outcome was seen after its lifetime had started; an invalid one is not kept
Aging ==
  \A i \in DOMAIN cache :
    /\ cache[i].exp <= cache[i].seen + Lifetime(cache[i].outcome)
    /\ cache[i].seen <= now /\ Keeps(cache[i].outcome)

\* What is behind an entry was written since that entry was
Ordered ==
  /\ \A i, j \in DOMAIN cache : i < j => cache[j].id \in churn[cache[i].id]
  /\ \A id \in Ids : IsFiniteSet(churn[id])

Inv == TypeOK /\ Timely /\ Aging /\ Ordered /\ AnswersAreRecent
=============================================================================
