---------------------------- MODULE CatalogCache ----------------------------
(***************************************************************************)
(* The list of active ingredients and its copy in Redis: CatalogService    *)
(* over RedisService.  Readers look in the cache, then in the database,    *)
(* and store what they read; writers change the database, then delete the  *)
(* copy.  Redis may refuse any call, which RedisService only logs.         *)
(***************************************************************************)
EXTENDS Naturals

CONSTANTS
    Handlers,   \* how many requests the API can have in flight at once
    MaxWrites,  \* how many changes administrators make
    Miss        \* no copy in Redis

ASSUME CatalogAssumption == MaxWrites \in Nat /\ Miss \notin Nat

VARIABLES
    catalog,    \* the database: how many changes the list has seen
    cache,      \* the copy under CATALOG_ACTIVE_CACHE_KEY
    request     \* request[h]: the request in flight in handler h

vars == <<catalog, cache, request>>

-----------------------------------------------------------------------------

Version == 0..MaxWrites

\* expires: the key was set with a time to live.
Entry == [list: Version, expires: BOOLEAN]

\* seen: the list a reader has read from the database.
Request == [at: {"idle", "query", "fill", "invalidate"}, seen: Version]

Idle == [at |-> "idle", seen |-> 0]

TypeOK ==
    /\ catalog \in Version
    /\ cache \in Entry \union {Miss}
    /\ request \in [Handlers -> Request]

Init ==
    /\ catalog = 0
    /\ cache = Miss
    /\ request = [h \in Handlers |-> Idle]

Goto(h, p) == request' = [request EXCEPT ![h].at = p]

Return(h) == request' = [request EXCEPT ![h] = Idle]

-----------------------------------------------------------------------------
(* findAllActive *)

\* The copy is missing, or Redis does not answer.  A copy found is served, and
\* nothing changes.
LookUp(h) ==
    /\ request[h] = Idle
    /\ Goto(h, "query")
    /\ UNCHANGED <<catalog, cache>>

Query(h) ==
    /\ request[h].at = "query"
    /\ request' = [request EXCEPT ![h] = [at |-> "fill", seen |-> catalog]]
    /\ UNCHANGED <<catalog, cache>>

\* The copy is stored without a time to live.
FaultyFill(h, answers) ==
    /\ request[h].at = "fill"
    /\ cache' = IF answers THEN [list |-> request[h].seen, expires |-> FALSE] ELSE cache
    /\ Return(h)
    /\ UNCHANGED catalog

\* SET key EX 300, whatever is under the key by now; answers says whether
\* Redis took it.
Fill(h, answers) ==
    /\ request[h].at = "fill"
    /\ cache' = IF answers THEN [list |-> request[h].seen, expires |-> TRUE] ELSE cache
    /\ Return(h)
    /\ UNCHANGED catalog

-----------------------------------------------------------------------------
(* create, update, deactivate *)

\* A change that leaves the copy alone.
FaultyWrite(h) ==
    /\ request[h] = Idle
    /\ catalog < MaxWrites
    /\ catalog' = catalog + 1
    /\ UNCHANGED <<cache, request>>

Write(h) ==
    /\ request[h] = Idle
    /\ catalog < MaxWrites
    /\ catalog' = catalog + 1
    /\ Goto(h, "invalidate")
    /\ UNCHANGED cache

\* A failed DEL is logged, and the administrator gets his answer.
Invalidate(h, answers) ==
    /\ request[h].at = "invalidate"
    /\ cache' = IF answers THEN Miss ELSE cache
    /\ Return(h)
    /\ UNCHANGED catalog

-----------------------------------------------------------------------------
(* Failures and the clock *)

\* The database rejects the query.
Throw(h) ==
    /\ request[h].at = "query"
    /\ Return(h)
    /\ UNCHANGED <<catalog, cache>>

\* The API process stops and starts again; Redis does not.
Restart ==
    /\ request # [h \in Handlers |-> Idle]
    /\ request' = [h \in Handlers |-> Idle]
    /\ UNCHANGED <<catalog, cache>>

\* Five minutes pass.
Expire ==
    /\ cache # Miss
    /\ cache.expires
    /\ cache' = Miss
    /\ UNCHANGED <<catalog, request>>

Next ==
    \/ \E h \in Handlers :
        \/ LookUp(h) \/ Query(h) \/ Write(h) \/ Throw(h)
        \/ \E answers \in BOOLEAN : Fill(h, answers) \/ Invalidate(h, answers)
    \/ Restart
    \/ Expire

Spec == Init /\ [][Next]_vars

\* The event loop goes on with every request, and a time to live ends.
Fairness ==
    /\ \A h \in Handlers :
        WF_vars(Query(h) \/ \E answers \in BOOLEAN : Fill(h, answers) \/ Invalidate(h, answers))
    /\ WF_vars(Expire)

-----------------------------------------------------------------------------

Current == cache = Miss \/ cache.list = catalog

\* Once nobody changes the catalogue, a stale copy does not last: neither the
\* deletions Redis refused nor the slow readers that stored an older list
\* after it was deleted can keep it in the cache for ever.
StaleListEnds == <>[]Current
=============================================================================
