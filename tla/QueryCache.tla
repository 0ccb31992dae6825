----------------------------- MODULE QueryCache -----------------------------
(* The cache of server data the web client keeps (TanStack Query, and Apollo *)
(* for the sidebar), under the mutations of lib/hooks: what each query reads,*)
(* what each mutation changes on the server, and what its onSuccess          *)
(* invalidates, sets and removes. Queries do not touch each other in the     *)
(* cache, so a behaviour follows one of them, any one, against every write.  *)
EXTENDS Naturals, Sequences, SequencesExt, FiniteSets

CONSTANT MaxWrites   \* bound: how many mutations are submitted

ASSUME MaxWritesAssumption == MaxWrites \in Nat

VARIABLES
    query,    \* the query a behaviour follows
    known,    \* does the cache hold the user (queryKeys.me)?
    entry,    \* what the cache holds for the query
    flight,   \* the request of the query that is on its way
    mounted,  \* is a component that uses the query on screen?
    pending,  \* is the job the query shows still running on the server?
    write     \* the mutations that were submitted

cacheVars == <<query, known, entry, flight, mounted, pending, write>>

\* The tables below come in groups, one per file of hooks.
Joined(groups) ==
    [x \in UNION {DOMAIN g : g \in groups} |-> (CHOOSE g \in groups : x \in DOMAIN g)[x]]

-----------------------------------------------------------------------------
\* Keys are hierarchical: invalidateQueries and removeQueries match prefixes.
Project == <<"projects", "p">>
System  == Project \o <<"systems", "s">>

Key == [me                 |-> <<"me">>,
        adminUsers         |-> <<"admin", "users", "page">>,
        coverUploads       |-> <<"cover-uploads">>,
        ownedSystems       |-> <<"systems", "owned">>,
        ownedSystem        |-> <<"systems", "owned", "s">>,
        catalogAttacks     |-> <<"catalog", "attacks", "page">>,
        catalogRemediations |-> <<"catalog", "remediations", "page">>,
        catalogImport      |-> <<"catalog", "imports", "i">>,
        notifications      |-> <<"notifications", "page">>,
        unreadCount        |-> <<"notifications", "unread-count">>,
        projects           |-> <<"projects", "u">>,
        project            |-> Project,
        projectDashboard   |-> Project \o <<"dashboard">>,
        systems            |-> Project \o <<"systems">>,
        system             |-> System,
        manualProxyRoutes  |-> System \o <<"manual-proxy", "routes">>,
        dispatches         |-> System \o <<"dispatches">>,
        results            |-> System \o <<"dispatches", "d", "page">>,
        attackAcknowledgment |-> System \o <<"attack-acknowledgment">>,
        dispatchCatalog    |-> System \o <<"attacks", "catalog">>,
        dispatchCompare    |-> System \o <<"compare", "d1", "d2">>,
        remediationHistory |-> System \o <<"remediation-history", "page">>,
        sidebar            |-> <<"sidebar">>]

\* What the answer of each query is computed from.
AuthReads    == [me |-> {"user"}]
ProjectReads == [projects |-> {"projects", "project"}, project |-> {"project"}]
InsightReads == [projectDashboard   |-> {"systems", "system", "dispatch"},
                 dispatchCompare    |-> {"finding"},
                 remediationHistory |-> {"remediation", "finding"}]
SystemReads  == [systems |-> {"systems", "system", "settings"},
                 system  |-> {"system", "settings"}]
OwnedReads   == [ownedSystems |-> {"systems", "system", "settings"},
                 ownedSystem  |-> {"system", "settings"}]
AttackReads  == [attackAcknowledgment |-> {"acknowledgment"},
                 dispatchCatalog      |-> {"catalogAttack"}]
ResultReads  == [dispatches |-> {"dispatch"}, results |-> {"finding"}]
CatalogAttackReads      == [catalogAttacks |-> {"catalogAttack"}]
CatalogRemediationReads == [catalogRemediations |-> {"catalogRemediation"}]
ImportReads  == [catalogImport |-> {"import"}]
NoticeReads  == [notifications |-> {"notification"},
                 unreadCount   |-> {"notification"}]
AdminReads   == [adminUsers |-> {"account"}]
CoverReads   == [coverUploads |-> {"cover"}]
RouteReads   == [manualProxyRoutes |-> {"route"}]
SidebarReads == [sidebar |-> {"projects", "project", "systems", "system", "pin"}]

Reads == Joined({AuthReads, ProjectReads, InsightReads, SystemReads, OwnedReads,
                 AttackReads, ResultReads, CatalogAttackReads, CatalogRemediationReads,
                 ImportReads, NoticeReads, AdminReads, CoverReads, RouteReads,
                 SidebarReads})
Queries == DOMAIN Reads

-----------------------------------------------------------------------------
\* A mutation: what it changes on the server and what its onSuccess does.
\* ofUser: keys it invalidates only when the cache holds the user; presets:
\* queries it sets before it invalidates, sets: those it sets after.
Mutation(changes, invalidates) ==
    [changes |-> changes, invalidates |-> invalidates, ofUser |-> {},
     presets |-> {}, sets |-> {}, removes |-> {}]

ProfileWrites ==
    [updateProfile |-> [Mutation({"user", "cover"}, {Key.coverUploads})
                          EXCEPT !.presets = {"me"}]]
ProjectWrites ==
    [createProject |-> [Mutation({"projects", "cover"}, {}) EXCEPT
        !.ofUser = {Key.projects, Key.coverUploads, Key.sidebar}],
     updateProject |-> [Mutation({"project", "cover"}, {Key.coverUploads, Key.sidebar})
        EXCEPT !.ofUser = {Key.projects}, !.sets = {"project"}],
     deleteProject |-> [Mutation({"projects", "project", "systems", "system", "settings",
                                  "dispatch", "finding", "cover"},
                                 {Key.coverUploads, Key.sidebar})
        EXCEPT !.ofUser = {Key.projects}]]
SystemWrites ==
    LET refreshed == {Key.systems, Key.coverUploads, Key.sidebar} IN
    [createSystem |-> Mutation({"systems", "cover"}, refreshed),
     updateSystem |-> [Mutation({"system", "cover"}, refreshed) EXCEPT !.sets = {"system"}],
     deleteSystem |-> Mutation({"systems", "system", "settings", "dispatch", "finding",
                               "cover"}, refreshed)]
SettingsWrites ==
    [updateDispatchSettings |->
        [Mutation({"settings"}, {Key.ownedSystems, Key.systems, Key.system})
            EXCEPT !.presets = {"ownedSystem"}]]
AttackWrites ==
    [dispatchAttack |-> Mutation({"dispatch", "acknowledgment", "notification"},
        {Key.dispatches, Key.attackAcknowledgment, <<"notifications">>})]
ResultWrites ==
    LET deletion == Mutation({"dispatch", "finding"}, {Key.dispatches}) IN
    [deleteDispatch |->
        [deletion EXCEPT !.removes = {System \o <<"dispatches", "d">>}],
     deleteAllDispatches |-> [deletion EXCEPT !.removes = {Key.dispatches}]]
RemediationWrites ==
    LET recorded == Mutation({"remediation"}, {System \o <<"remediation-history">>}) IN
    [remediate |-> recorded, aiRemediate |-> recorded, openPullRequest |-> recorded]
CatalogAttackWrites ==
    LET attacks == Mutation({"catalogAttack"}, {<<"catalog", "attacks">>}) IN
    [createCatalogAttack |-> attacks, deleteCatalogAttack |-> attacks]
CatalogRemediationWrites ==
    LET remediations == Mutation({"catalogRemediation"}, {<<"catalog", "remediations">>}) IN
    [createCatalogRemediation |-> remediations, deleteCatalogRemediation |-> remediations]
ImportWrites == [uploadImport |-> Mutation({"notification"}, {<<"notifications">>})]
NoticeMutations == {"markRead", "markAllRead", "deleteNotification", "deleteAllNotifications"}
NoticeWritesListOnly == [n \in NoticeMutations |-> Mutation({"notification"}, {Key.notifications})]
NoticeWrites == [n \in NoticeMutations |-> Mutation({"notification"}, {<<"notifications">>})]
AdminWrites ==
    LET accounts == Mutation({"account"}, {<<"admin", "users">>}) IN
    [updateUserRole |-> accounts, deleteUser |-> accounts]
CoverWrites == [deleteCover |-> Mutation({"cover"}, {Key.coverUploads})]
RouteWrites ==
    LET routes == Mutation({"route"}, {Key.manualProxyRoutes}) IN
    [saveRoute |-> routes, deleteRoute |-> routes]
SidebarWrites ==
    [updateSidebar |-> [Mutation({"pin"}, {}) EXCEPT !.presets = {"sidebar"}]]

Writes == Joined({ProfileWrites, ProjectWrites, SystemWrites, SettingsWrites,
                  AttackWrites, ResultWrites, RemediationWrites, CatalogAttackWrites,
                  CatalogRemediationWrites, ImportWrites, NoticeWrites, AdminWrites,
                  CoverWrites, RouteWrites, SidebarWrites})
Mutations == DOMAIN Writes

-----------------------------------------------------------------------------
\* staleTime 0: fetched again at every mount. staleTime Infinity: never stale.
AlwaysStale == {"dispatches", "results"}
NeverStale  == {"me", "sidebar"}
RetriesByDefault(q) == IF q \in {"me", "sidebar"} THEN 0 ELSE 3
Retries(q)  == IF q \in {"me", "sidebar"} THEN 0 ELSE 1

\* Queries of a job, polled while what they show is running, and those that
\* are polled as long as they are on screen.
OfJob     == {"dispatches", "results", "catalogImport"}
AlwaysPolled == {"notifications", "unreadCount"}

\* An answer misses the writes the server applied after it was computed.
NoEntry  == [data |-> FALSE, missed |-> {}, invalid |-> FALSE, stale |-> FALSE,
             shows |-> FALSE, outlived |-> FALSE]
NoFlight == [step |-> "idle", missed |-> {}, shows |-> FALSE, failures |-> 0, late |-> FALSE]
Asked    == [NoFlight EXCEPT !.step = "asked"]

Enabled == known \/ query \notin {"projects", "sidebar"}

CacheInit ==
    /\ query \in Queries
    /\ known \in BOOLEAN
    /\ ~known => query \in {"projects", "coverUploads", "sidebar"}
    /\ entry = NoEntry
    /\ flight = NoFlight
    /\ mounted = FALSE
    /\ pending = (query \in OfJob)
    /\ write = << >>

-----------------------------------------------------------------------------
Mount ==
    /\ ~mounted
    /\ Enabled
    /\ mounted' = TRUE
    /\ flight' = IF flight.step = "idle"
                    /\ \/ ~entry.data
                       \/ query # "sidebar" /\ entry.invalid
                       \/ entry.stale \/ query \in AlwaysStale
                 THEN Asked ELSE flight
    /\ UNCHANGED <<query, known, entry, pending, write>>

Unmount ==
    /\ mounted
    /\ mounted' = FALSE
    /\ UNCHANGED <<query, known, entry, flight, pending, write>>

\* The five minutes of staleTime pass.
GrowStale ==
    /\ entry.data /\ ~entry.stale
    /\ query \notin NeverStale
    /\ entry' = [entry EXCEPT !.stale = TRUE]
    /\ UNCHANGED <<query, known, flight, mounted, pending, write>>

\* The five minutes an unused entry is kept pass.
Collect ==
    /\ ~mounted
    /\ entry.data
    /\ flight.step = "idle"
    /\ query # "sidebar"
    /\ entry' = NoEntry
    /\ UNCHANGED <<query, known, flight, mounted, pending, write>>

PollsUntilError == query \in OfJob /\ entry.data /\ entry.shows /\ ~entry.invalid
Polls == \/ query \in AlwaysPolled
         \/ query \in OfJob /\ entry.data /\ entry.shows

\* refetchInterval of a query on screen.
Poll ==
    /\ mounted
    /\ Polls
    /\ flight.step = "idle"
    /\ flight' = Asked
    /\ UNCHANGED <<query, known, entry, mounted, pending, write>>

\* The retry button of a page that has nothing to show.
Refetch ==
    /\ mounted
    /\ ~entry.data \/ entry.invalid
    /\ flight.step = "idle"
    /\ flight' = Asked
    /\ UNCHANGED <<query, known, entry, mounted, pending, write>>

Answer ==
    /\ flight.step = "asked"
    /\ flight' = [flight EXCEPT !.step = "answered", !.shows = pending]
    /\ UNCHANGED <<query, known, entry, mounted, pending, write>>

Land ==
    /\ flight.step = "answered"
    /\ entry' = [data |-> TRUE, missed |-> flight.missed, invalid |-> FALSE,
                 stale |-> FALSE, shows |-> flight.shows, outlived |-> flight.late]
    /\ flight' = NoFlight
    /\ UNCHANGED <<query, known, mounted, pending, write>>

\* A request fails, is tried again, and at last is given up: data the cache
\* has is kept and marked invalid.
Fail ==
    /\ flight.step # "idle"
    /\ IF flight.failures < Retries(query)
       THEN /\ flight' = [Asked EXCEPT !.failures = flight.failures + 1]
            /\ UNCHANGED entry
       ELSE /\ flight' = NoFlight
            /\ entry' = [entry EXCEPT !.invalid = entry.data]
    /\ UNCHANGED <<query, known, mounted, pending, write>>

\* The job ends on the server, by no write of this client.
JobEnds ==
    /\ pending
    /\ pending' = FALSE
    /\ UNCHANGED <<query, known, entry, flight, mounted, write>>

-----------------------------------------------------------------------------
Touches(m) ==
    LET w == Writes[m] IN
    \/ w.changes \cap Reads[query] # {}
    \/ query \in w.presets \union w.sets
    \/ \E k \in w.invalidates \union w.ofUser \union w.removes : IsPrefix(k, Key[query])

Submit(m) ==
    /\ m \notin DOMAIN write
    /\ Cardinality(DOMAIN write) < MaxWrites
    /\ Touches(m)
    /\ write' = [w \in {m} \union DOMAIN write |->
                   IF w = m THEN [step |-> "sent", missed |-> {}] ELSE write[w]]
    /\ UNCHANGED <<query, known, entry, flight, mounted, pending>>

\* The server applies the write: every answer computed before misses it, the
\* payload of another mutation's response included.
Apply(m) ==
    /\ m \in DOMAIN write /\ write[m].step = "sent"
    /\ LET hit(missed) == IF Writes[m].changes \cap Reads[query] # {}
                          THEN missed \union {m} ELSE missed IN
       /\ entry' = [entry EXCEPT !.missed = IF entry.data THEN hit(@) ELSE @]
       /\ flight' = [flight EXCEPT !.missed = IF flight.step = "answered" THEN hit(@) ELSE @]
       /\ write' = [w \in DOMAIN write |->
                      CASE w = m -> [step |-> "applied", missed |-> {}]
                        [] w # m /\ write[w].step = "applied" ->
                             [write[w] EXCEPT !.missed = hit(@)]
                        [] OTHER -> write[w]]
    /\ UNCHANGED <<query, known, mounted, pending>>

Refuse(m) ==
    /\ m \in DOMAIN write /\ write[m].step = "sent"
    /\ write' = [write EXCEPT ![m].step = "refused"]
    /\ UNCHANGED <<query, known, entry, flight, mounted, pending>>

Matched(keys) == \E k \in keys : IsPrefix(k, Key[query])

\* invalidateQueries marks every match and fetches those on screen again: a
\* request on its way is cancelled only when the query has data already.
\* Apollo's refetchQueries knows only queries on screen.
Invalidated(m) ==
    Matched(Writes[m].invalidates \union IF known THEN Writes[m].ofUser ELSE {})

AfterInvalidate(m, c) ==
    LET onScreen == mounted /\ Invalidated(m) IN
    [entry |-> CASE ~Invalidated(m) -> c.entry
                 [] Invalidated(m) /\ query = "sidebar" /\ ~mounted ->
                      [c.entry EXCEPT !.outlived = c.entry.data]
                 [] OTHER -> [c.entry EXCEPT !.invalid = c.entry.data],
     flight |-> IF onScreen /\ (c.flight.step = "idle" \/ c.entry.data)
                THEN Asked ELSE c.flight]

\* setQueryData stores the response and leaves a request on its way alone.
AfterSet(m, queries, c) ==
    IF query \in queries
    THEN [c EXCEPT !.entry = [NoEntry EXCEPT
            !.data = TRUE, !.missed = write[m].missed, !.shows = entry.shows,
            !.outlived = \E w \in write[m].missed : write[w].step = "settled"]]
    ELSE c

\* removeQueries drops data and request; a component that is still on screen
\* asks again at its next render.
AfterRemove(m, c) ==
    IF Matched(Writes[m].removes)
    THEN [entry |-> NoEntry, flight |-> IF mounted THEN Asked ELSE NoFlight]
    ELSE c

\* onSuccess of the mutation.
Settle(m) ==
    /\ m \in DOMAIN write /\ write[m].step = "applied"
    /\ LET c == AfterRemove(m, AfterSet(m, Writes[m].sets, AfterInvalidate(m,
               AfterSet(m, Writes[m].presets, [entry |-> entry, flight |-> flight])))) IN
       /\ entry' = c.entry
       /\ flight' = [c.flight EXCEPT !.late = @ \/ m \in c.flight.missed]
    /\ write' = [write EXCEPT ![m].step = "settled"]
    /\ UNCHANGED <<query, known, mounted, pending>>

CacheNext ==
    \/ Mount \/ Unmount \/ GrowStale \/ Collect \/ Poll \/ Refetch
    \/ Answer \/ Land \/ Fail \/ JobEnds
    \/ \E m \in Mutations : Submit(m) \/ Apply(m) \/ Refuse(m) \/ Settle(m)

\* The timers of the page, the server and its answers go on, and requests do
\* not fail for ever.
CacheFairness == WF_cacheVars(Poll) /\ SF_cacheVars(Answer) /\ SF_cacheVars(Land)

CacheSpec == CacheInit /\ [][CacheNext]_cacheVars /\ CacheFairness
-----------------------------------------------------------------------------
CacheTypeOK ==
    /\ query \in Queries
    /\ {known, mounted, pending} \subseteq BOOLEAN
    /\ entry \in [data : BOOLEAN, missed : SUBSET Mutations, invalid : BOOLEAN,
                  stale : BOOLEAN, shows : BOOLEAN, outlived : BOOLEAN]
    /\ flight \in [step : {"idle", "asked", "answered"}, missed : SUBSET Mutations,
                   shows : BOOLEAN, failures : 0..1, late : BOOLEAN]
    /\ DOMAIN write \subseteq Mutations

\* What the hooks leave behind: the write changes the answer of the query and
\* refreshes nothing its key matches.
LeftBehind ==
    LET UnderProject == {q \in Queries : IsPrefix(Project, Key[q])}
        Owned        == {"ownedSystems", "ownedSystem"} IN
         {"deleteProject"} \X (UnderProject \union Owned)
    \union {"createSystem"} \X {"ownedSystems", "projectDashboard"}
    \union {"updateSystem", "deleteSystem"} \X (Owned \union {"projectDashboard"})
    \union {<<"dispatchAttack", "projectDashboard">>}
    \union {"deleteDispatch", "deleteAllDispatches"}
              \X {"projectDashboard", "dispatchCompare", "remediationHistory"}
    \union {"createCatalogAttack", "deleteCatalogAttack"} \X {"dispatchCatalog"}

\* What a user did is not shown as if it had not happened: once a mutation has
\* settled, data that misses it is marked for another fetch or is being fetched
\* again. The exceptions are the pairs no hook refreshes, an answer that was on
\* its way before the write and that nothing cancelled, and a sidebar that was
\* not on screen.
OwnWritesSeen ==
    \A m \in entry.missed :
        write[m].step = "settled" =>
            \/ entry.invalid \/ flight.step # "idle" \/ entry.outlived
            \/ <<m, query>> \in LeftBehind
            \/ m = "createProject" /\ ~known

\* A page that shows a job as running comes to show its end as long as it stays
\* on screen (refetchInterval of useDispatches, useResults and
\* useCatalogImportStatus), failed polls included.
JobIsSeenToEnd ==
    (mounted /\ entry.shows /\ ~pending) ~> (~mounted \/ ~entry.shows)
=============================================================================
