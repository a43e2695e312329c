----------------------- MODULE BrowserSessionHistory -----------------------
(***************************************************************************)
(* BrowserSession with a history: whether the API took a token for reused, *)
(* whether requests that change the tokens overlapped or lost an answer,   *)
(* and whether something came between a tab and the cookies.               *)
(***************************************************************************)
EXTENDS BrowserSession

VARIABLES reused, suspect, disturbed

hvars == <<vars, reused, suspect, disturbed>>

ChangesTokens(i) == IsRefresh(i) \/ (Open(i) /\ call[i].kind \in {"login", "logout", "anonymize"})

\* Two requests that change the tokens are under way, other than two refreshes
\* of one tab.
Overlap ==
    \E i, j \in {k \in Calls : ChangesTokens(k)} :
        /\ i # j
        /\ ~(IsRefresh(i) /\ IsRefresh(j) /\ call[i].tab = call[j].tab)

LosesAnswer == \E i \in Calls : ChangesTokens(i) /\ call[i].at = "ok" /\ call'[i].at = "error"

\* A refresh is refused, or an answer of the tab is lost.
Fails(t) ==
    \E i \in Of(t) :
        \/ call[i].at # "error" /\ call'[i].at = "error"
        \/ IsRefresh(i) /\ call[i].at = "sent" /\ call'[i].at = "refused"

\* The cookies or the account change through another tab.
Elsewhere(t) ==
    \/ jar' # jar /\ \E i \in Calls : Open(i) /\ call[i].tab # t /\ call'[i] # call[i]
    \/ erased' # erased

\* In one tab, a request that changes the cookies overlaps a refresh or
\* another such request, or refreshUser is called while a logout is under way.
Entangled(t) ==
    \E i, j \in Of(t) :
        /\ i # j /\ call[i].kind \in {"login", "logout", "anonymize"}
        /\ \/ ChangesTokens(j)
           \/ call[i].kind = "logout" /\ call[j].kind = "me" /\ call[j].valid

Agree(t) ==
    IF tab[t].user = None THEN jar.access \in erased \union {None}
    ELSE jar.access = tab[t].user

AtRest(t) == tab[t].open /\ Of(t) = {}

HInit == Init /\ reused = FALSE /\ suspect = FALSE /\ disturbed = [t \in Tabs |-> FALSE]

HNext ==
    /\ Next
    /\ reused' = (reused \/ \E i \in Calls :
            /\ IsRefresh(i) /\ call[i].at = "sent" /\ call'[i].at = "refused"
            /\ call[i].sent.refresh # None /\ token[call[i].sent.refresh].state = "revoked")
    /\ suspect' = (suspect \/ Overlap' \/ LosesAnswer)
    /\ disturbed' = [t \in Tabs |->
            IF AtRest(t)' /\ Agree(t)' THEN FALSE
            ELSE disturbed[t] \/ Elsewhere(t) \/ Fails(t) \/ Entangled(t)']

HSpec == HInit /\ [][HNext]_hvars

\* client.ts:99-103, "evitando que a segunda apresente um refresh_token recem-
\* rotacionado": the browser never makes the API believe that a token was
\* stolen, which ends every session of the user, unless requests that change
\* the tokens overlap in other ways than two refreshes of one tab, or the
\* answer to one of them is lost.
NoFalseReuse == ~suspect => ~reused

\* AuthProvider: whatever overlaps, a tab that waits for nothing has decided
\* whom to show, so that no guarded page keeps its spinner for ever.
RestIsDecided == \A t \in Tabs : AtRest(t) => ~tab[t].loading

\* versionRef: a tab at rest shows the account of its cookies, and nobody only
\* when there are none, unless another tab changed them, an answer of the tab
\* was lost or a refresh refused, or a refresh or a logout was overtaken.
ShownMatchesCookies == \A t \in Tabs : ~disturbed[t] /\ AtRest(t) => Agree(t)
=============================================================================
