------------------------------ MODULE History ------------------------------
(***************************************************************************)
(* Two RPCs over what investigations left behind: ListCorrelations and     *)
(* SubmitFeedback (internal/services/rca_service.go,                       *)
(* internal/api/handlers.go, internal/repo/weaviate_repo.go), while        *)
(* investigations keep storing records.                                    *)
(*                                                                         *)
(* A caller makes one call; a caller of ListCorrelations goes on with the  *)
(* page tokens it is given until there is none.  One action is one request *)
(* to Weaviate with the local code around it.  A record is told apart by   *)
(* its id; of its fields only those a query filters or sorts by are kept.  *)
(***************************************************************************)
EXTENDS Integers, Sequences, FiniteSets, FiniteSetsExt

CONSTANTS
    Callers,         \* RPC clients
    Tenants,
    Services,        \* names of services, without the empty one
    Results,         \* correlation results that may be stored
    Early,           \* those stored before the first call
    Queries,         \* requests of ListCorrelations
    DefaultPage,     \* page size when the request's is out of bounds (20)
    MaxPage,         \* largest page size a request may ask for (100)
    TicksPerSecond,  \* resolution of a time stamp; RFC 3339 keeps seconds
    MaxTries,        \* how often a caller submits the same feedback
    NoValue          \* an absent value (no token, no bound)

NoService == ""      \* proto3: a field that is not set

ASSUME HistoryAssumption ==
    /\ \A r \in Results : /\ r.id \in Nat /\ r.tenant \in Tenants
                          /\ r.at \in Nat /\ r.services \subseteq Services
    /\ \A r, s \in Results : r.id = s.id => r = s
    /\ Early \subseteq Results /\ IsFiniteSet(Early)
    /\ \A q \in Queries :
           /\ q.tenant \in Tenants /\ q.service \in Services \cup {NoService}
           /\ {q.start, q.end} \subseteq Nat \cup {NoValue} /\ q.size \in Int
    /\ {DefaultPage, MaxPage, TicksPerSecond, MaxTries} \subseteq Nat \ {0}
    /\ NoValue \notin Int

VARIABLES
    configured,  \* whether WeaviateRepo has an endpoint
    objects,     \* the CorrelationRecord objects of Weaviate
    rpc,         \* rpc[c]: the call of caller c, and its answer
    fed,         \* fed[c]: CorrelationFeedback objects of caller c
    lateFed      \* lateFed[c]: feedback posts the service gave up on

vars == <<configured, objects, rpc, fed, lateFed>>
world == <<configured, objects, fed, lateFed>>

Become(c, call) == rpc' = [rpc EXCEPT ![c] = call]

-----------------------------------------------------------------------------
(* Records: StoreCorrelation's objects, and what a query selects of them *)

Second(t) == t \div TicksPerSecond

\* The object written for a result: its time loses the fraction of a second.
Properties(r) ==
    [id |-> r.id, tenant |-> r.tenant, createdAt |-> Second(r.at), services |-> r.services]

\* Fault: the end of the window is compared with its fraction cut off, strictly.
WhereStrict(q, o) ==
    /\ o.tenant = q.tenant
    /\ q.service # NoService => q.service \in o.services
    /\ q.start # NoValue => o.createdAt >= Second(q.start)
    /\ q.end # NoValue => o.createdAt < Second(q.end)

\* Fault: the tenant is not part of the filter.
WhereAnyTenant(q, o) ==
    /\ q.service # NoService => q.service \in o.services
    /\ q.start # NoValue => o.createdAt >= Second(q.start)
    /\ q.end # NoValue => o.createdAt <= Second(q.end)

Where(q, o) ==
    /\ o.tenant = q.tenant
    /\ q.service # NoService => q.service \in o.services
    /\ q.start # NoValue => o.createdAt >= Second(q.start)
    /\ q.end # NoValue => o.createdAt <= Second(q.end)

\* Newest first; Weaviate keeps objects of one second in an order of its own.
Before(o, p) ==
    \/ o.createdAt > p.createdAt
    \/ o.createdAt = p.createdAt /\ o.id < p.id

\* The results stored so far.
Stored == {r \in Results : \E o \in objects : o.id = r.id}

Init ==
    /\ configured \in BOOLEAN
    /\ objects = IF configured THEN {Properties(r) : r \in Early} ELSE {}
    /\ rpc = [c \in Callers |-> [kind |-> "idle"]]
    /\ fed = [c \in Callers |-> 0]
    /\ lateFed = [c \in Callers |-> 0]

\* An investigation stores its record.
Insert(r) ==
    /\ r \in Results \ Stored
    /\ configured
    /\ objects' = objects \cup {Properties(r)}
    /\ rpc' = [c \in Callers |->
                 IF rpc[c].kind = "list" THEN [rpc[c] EXCEPT !.still = FALSE] ELSE rpc[c]]
    /\ UNCHANGED <<configured, fed, lateFed>>

-----------------------------------------------------------------------------
(* ListCorrelations *)

Limit(size) == IF size <= 0 \/ size > MaxPage THEN DefaultPage ELSE size

\* A token that is no number, or a negative one, is the first page.
Offset(token) == IF token \in Nat THEN token ELSE 0

\* Fault: the next page starts at the last item of this one.
NextTokenOverlaps(token, count, limit) ==
    IF count = limit /\ count > 1 THEN Offset(token) + count - 1 ELSE NoValue

\* Fault: a page always has a successor.
NextTokenAlways(token, count, limit) == Offset(token) + count

\* Fault: the next page begins where the first one ended.
NextTokenStuck(token, count, limit) == IF count = limit THEN count ELSE NoValue

NextToken(token, count, limit) ==
    IF count = limit THEN Offset(token) + count ELSE NoValue

\* The caller starts with no token or with one the service did not issue.
ListStart(c, q, token) ==
    /\ rpc[c].kind = "idle"
    /\ Become(c, [kind |-> "list", q |-> q, token |-> token, listed |-> <<>>,
                  then |-> Stored, still |-> TRUE, odd |-> FALSE])
    /\ UNCHANGED world

\* What of an object the answer of the RPC is told apart by.
Shown(o) == o.id

\* What a query finds, and how much of it comes before an object.
Found(q) == {o \in objects : Where(q, o)}
Place(o, found) == Cardinality({p \in found : Before(p, o)})

\* The items of the page at a token, in the order of the query's sort clause.
Page(q, token) ==
    LET found == Found(q)
        from == Offset(token)
        count == Min({from + Limit(q.size), Cardinality(found)}) - from
    IN [i \in 1..count |-> Shown(CHOOSE o \in found : Place(o, found) = from + i - 1)]

\* One page: Weaviate answers, and the caller goes on if it is given a token.
\* (then, still and odd are history; odd makes an empty page a step.)
ListPage(c) ==
    /\ rpc[c].kind = "list"
    /\ configured
    /\ \E page \in {Page(rpc[c].q, rpc[c].token)} :
          LET next == NextToken(rpc[c].token, Len(page), Limit(rpc[c].q.size)) IN
          Become(c, [rpc[c] EXCEPT !.kind = IF next = NoValue THEN "listed" ELSE "list",
                                   !.token = next, !.listed = @ \o page, !.odd = ~@])
    /\ UNCHANGED world

\* The query fails, or there is no endpoint: one made-up item (syntheticCorrelationList)
\* and no token, so this is the last page.
ListMadeUp(c) ==
    /\ rpc[c].kind = "list"
    /\ Become(c, [kind |-> "madeUp"])
    /\ UNCHANGED world

\* Weaviate refuses the query in the body of its answer, which then has no list:
\* to the caller this is an empty last page.
ListRefused(c) ==
    /\ rpc[c].kind = "list"
    /\ configured
    /\ Become(c, [kind |-> "refused"])
    /\ UNCHANGED world

\* Weaviate's answer cannot be decoded: codes.Internal.
ListError(c) ==
    /\ rpc[c].kind = "list"
    /\ configured
    /\ Become(c, [kind |-> "internal"])
    /\ UNCHANGED world

-----------------------------------------------------------------------------
(* SubmitFeedback *)

\* correlation_id is required; without an endpoint StoreFeedback does nothing
\* and the feedback is acknowledged.
FeedbackStart(c, named) ==
    /\ rpc[c].kind = "idle"
    /\ Become(c, IF ~named THEN [kind |-> "invalid"]
                 ELSE [kind |-> IF configured THEN "post" ELSE "accepted", tries |-> 1])
    /\ UNCHANGED world

FeedbackStored(c) ==
    /\ rpc[c].kind = "post"
    /\ fed' = [fed EXCEPT ![c] = @ + 1]
    /\ Become(c, [rpc[c] EXCEPT !.kind = "accepted"])
    /\ UNCHANGED <<configured, objects, lateFed>>

\* Fault: a failed post is acknowledged.
FeedbackFailAccepted(c, sent) ==
    /\ rpc[c].kind = "post"
    /\ lateFed' = [lateFed EXCEPT ![c] = IF sent THEN @ + 1 ELSE @]
    /\ Become(c, [rpc[c] EXCEPT !.kind = "accepted"])
    /\ UNCHANGED <<configured, objects, fed>>

\* The post fails: codes.Internal.  One that timed out may be applied yet.
FeedbackFail(c, sent) ==
    /\ rpc[c].kind = "post"
    /\ lateFed' = [lateFed EXCEPT ![c] = IF sent THEN @ + 1 ELSE @]
    /\ Become(c, [rpc[c] EXCEPT !.kind = "failed"])
    /\ UNCHANGED <<configured, objects, fed>>

\* The caller submits the same feedback again.
FeedbackRetry(c) ==
    /\ rpc[c].kind = "failed"
    /\ rpc[c].tries < MaxTries
    /\ Become(c, [rpc[c] EXCEPT !.kind = "post", !.tries = @ + 1])
    /\ UNCHANGED world

LateFeedback(c) ==
    /\ lateFed[c] > 0
    /\ lateFed' = [lateFed EXCEPT ![c] = @ - 1]
    /\ fed' = [fed EXCEPT ![c] = @ + 1]
    /\ UNCHANGED <<configured, objects, rpc>>

-----------------------------------------------------------------------------

\* One step of the goroutine that serves caller c.
Step(c) ==
    \/ ListPage(c) \/ ListMadeUp(c) \/ ListRefused(c) \/ ListError(c)
    \/ FeedbackStored(c)
    \/ \E sent \in BOOLEAN : FeedbackFail(c, sent)

Next ==
    \/ \E c \in Callers :
          \/ \E q \in Queries, token \in {NoValue, -1} : ListStart(c, q, token)
          \/ \E named \in BOOLEAN : FeedbackStart(c, named)
          \/ Step(c) \/ FeedbackRetry(c) \/ LateFeedback(c)
    \/ \E r \in Results : Insert(r)

Spec == Init /\ [][Next]_vars

\* Every call of the service ends, by an answer or by its timeout, and a caller
\* that is given a token asks for the next page.
FairSpec == Spec /\ \A c \in Callers : WF_vars(Step(c))

-----------------------------------------------------------------------------
(* Properties *)

Records(c) == {r \in Results : r.id \in Range(rpc[c].listed)}

\* The results a caller asked for, by their exact times.
Asked(q, r) ==
    /\ r.tenant = q.tenant
    /\ q.service # NoService => q.service \in r.services
    /\ q.start # NoValue => r.at >= q.start
    /\ q.end # NoValue => r.at <= q.end

\* A caller that follows the page tokens to the end, each query being answered,
\* has seen every record that was there when it began and that it asked for,
\* although its window and the stored times lose their fractions of a second and
\* investigations push the records it has yet to see down the list.
PagingMissesNothing ==
    \A c \in Callers : rpc[c].kind = "listed" =>
        \A r \in rpc[c].then : Asked(rpc[c].q, r) => r \in Records(c)

\* A listed record is the caller's tenant's, names the service asked for, and is
\* less than a second outside of the window.
ListedAsAsked ==
    \A c \in Callers : rpc[c].kind \in {"list", "listed"} =>
        \A r \in Records(c) :
            LET q == rpc[c].q IN
            /\ r \in Stored
            /\ r.tenant = q.tenant
            /\ q.service # NoService => q.service \in r.services
            /\ q.start # NoValue => r.at > q.start - TicksPerSecond
            /\ q.end # NoValue => r.at < q.end + TicksPerSecond

\* As long as no record is stored since the first page, the pages continue each
\* other: one list, newest second first, in which nothing is repeated.
PagesContinue ==
    \A c \in Callers : rpc[c].kind \in {"list", "listed"} /\ rpc[c].still =>
        \A i, j \in DOMAIN rpc[c].listed : i < j =>
            \A r, s \in Results : r.id = rpc[c].listed[i] /\ s.id = rpc[c].listed[j] =>
                r # s /\ Second(r.at) >= Second(s.at)

\* With an endpoint an acknowledged feedback is stored, and nothing is stored
\* more often than it was submitted, late posts and retries included.
FeedbackAccounted ==
    \A c \in Callers :
        /\ rpc[c].kind = "accepted" /\ configured => fed[c] > 0
        /\ fed[c] + lateFed[c] <= IF "tries" \in DOMAIN rpc[c] THEN rpc[c].tries ELSE 0

\* A caller goes on only while its pages are full: the token it is given says how
\* much it was listed, a number of whole pages, and all of that is in the store.
\* So a caller asks for more pages than the store fills only if records arrive
\* while it pages.
PagesAreBacked ==
    \A c \in Callers : rpc[c].kind = "list" /\ rpc[c].token \in Nat =>
        /\ rpc[c].token = Len(rpc[c].listed)
        /\ \E n \in 1..rpc[c].token : rpc[c].token = n * Limit(rpc[c].q.size)
        /\ rpc[c].token <= Cardinality(Found(rpc[c].q))

\* From some time on no record is stored.
ArrivalsStop == <>[][FALSE]_objects

\* Every feedback is answered, and paging ends once records stop arriving.  While a
\* page's worth of them arrives before each page, every page is full and has a
\* successor, so without ArrivalsStop a caller may be given tokens for ever.  (With
\* finitely many Results arrivals do stop, in every behaviour.)
EveryCallEnds ==
    \A c \in Callers :
        /\ rpc[c].kind = "post" ~> rpc[c].kind \in {"accepted", "failed"}
        /\ ArrivalsStop =>
              (rpc[c].kind = "list" ~> rpc[c].kind \in {"listed", "madeUp", "refused", "internal"})

=============================================================================
