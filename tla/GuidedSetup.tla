---------------------------- MODULE GuidedSetup -----------------------------
(* The guided setup of the web client: a session in sessionStorage that      *)
(* leads from a first project to a first scan, the dialog that shows it over *)
(* every page, the button that reopens it. The user, the creations that are  *)
(* on their way and the rest of the browser act in any order.                *)
EXTENDS Naturals, FiniteSets

CONSTANTS Projects, Systems   \* what can be created, each once
CONSTANT NoId                 \* an id that is not set

ASSUME SetupAssumption ==
    /\ IsFiniteSet(Projects) /\ IsFiniteSet(Systems)
    /\ NoId \notin Projects \union Systems

VARIABLES
    server,     \* projects that exist, and the project of each system
    nav,        \* the sidebar query: server as it was when last fetched
    session,    \* sessionStorage and the component's copy of it
    storable,   \* does localStorage work?
    dismissed,  \* the user's dismissal in localStorage
    path,       \* the page
    booted,     \* bootstrappedMeta
    minimized,  \* pageGuideMinimized
    creating,   \* the creation on its way
    gaps        \* history: systemId was left from another project ("stray"),
                \* the guide was reopened without a system ("blank")

setupVars == <<server, nav, session, storable, dismissed, path, booted,
               minimized, creating, gaps>>

Steps == <<"project", "system", "target", "dast">>
Index(step) == CHOOSE i \in 1..4 : Steps[i] = step
FormSteps == {"project", "system"}
PageSteps == {"target", "dast"}

Context(project, system) == [project |-> project, system |-> system]
ListPage == Context(NoId, NoId)
Idle == [what |-> "none", project |-> NoId]

SystemsIn(s, p) == {x \in Systems : s.parent[x] = p}
Existing(s) == {x \in Systems : s.parent[x] # NoId}

NotLoaded == [loaded |-> FALSE, projects |-> {}, parent |-> [s \in Systems |-> NoId]]

SetupInit ==
    /\ server = [projects |-> {}, parent |-> [s \in Systems |-> NoId]]
    /\ nav = NotLoaded
    /\ session = [active |-> FALSE, completed |-> FALSE, step |-> "project",
                  project |-> NoId, system |-> NoId]
    /\ storable \in BOOLEAN
    /\ dismissed = FALSE
    /\ path = ListPage
    /\ booted = FALSE /\ minimized = FALSE
    /\ creating = Idle
    /\ gaps = {}

-----------------------------------------------------------------------------
Shown == booted /\ session.active

\* guidedSetupPathForStep
PathForStep(step, s) ==
    CASE step = "project" -> ListPage
      [] step = "system" /\ s.project # NoId -> Context(s.project, NoId)
      [] step # "project" /\ s.project # NoId /\ s.system # NoId ->
           Context(s.project, s.system)
      [] OTHER -> ListPage

\* While the guide is open every new page writes its ids into the session, a
\* project's page without its system.
SyncedWithoutProject(s, page) ==
    IF ~s.active \/ s.completed \/ page.project = NoId THEN s
    ELSE IF page.system # NoId THEN [s EXCEPT !.system = page.system]
    ELSE [s EXCEPT !.project = page.project]
Synced(s, page) ==
    IF ~s.active \/ s.completed \/ page.project = NoId THEN s
    ELSE IF page.system # NoId THEN [s EXCEPT !.project = page.project,
                                              !.system = page.system]
    ELSE [s EXCEPT !.project = page.project]

Stray(s) ==
    IF s.system # NoId /\ server.parent[s.system] # s.project THEN {"stray"} ELSE {}

Arrive(s, page) ==
    /\ path' = page
    /\ session' = Synced(s, page)
    /\ gaps' = gaps \union Stray(s)

\* navigateToStep, over what sessionStorage holds by then.
NavigateToStepReopening(step, s) ==
    /\ Arrive([s EXCEPT !.step = step, !.active = TRUE], PathForStep(step, s))
    /\ minimized' = (minimized /\ step \notin PageSteps)
NavigateToStep(step, s) ==
    /\ Arrive([s EXCEPT !.step = step], PathForStep(step, s))
    /\ minimized' = (minimized /\ step \notin PageSteps)

Start == [session EXCEPT !.active = TRUE, !.completed = FALSE, !.step = "project",
                         !.project = NoId, !.system = NoId]

Complete ==
    /\ session' = [session EXCEPT !.active = FALSE, !.completed = TRUE]
    /\ dismissed' = (dismissed \/ storable)

-----------------------------------------------------------------------------
\* The sidebar query answers: once, and again after each creation or deletion.
RefreshNav ==
    /\ nav' = [loaded |-> TRUE, projects |-> server.projects, parent |-> server.parent]
    /\ nav' # nav
    /\ UNCHANGED <<server, session, storable, dismissed, path, booted, minimized,
                   creating, gaps>>

\* The first render with sidebar and user: the guide opens by itself, or one
\* that was open is closed.
Bootstrap ==
    /\ nav.loaded /\ ~booted
    /\ booted' = TRUE
    /\ IF nav.projects = {} /\ ~dismissed /\ ~session.active
       THEN session' = Start /\ gaps' = {}
       ELSE /\ session' = IF session.active /\ nav.projects # {} /\ dismissed
                          THEN [session EXCEPT !.active = FALSE, !.completed = TRUE]
                          ELSE session
            /\ UNCHANGED gaps
    /\ UNCHANGED <<server, nav, storable, dismissed, path, minimized, creating>>

\* The bar of a guide that is minimized can only be expanded and closed.
Collapsed == session.step \in PageSteps /\ minimized

Back ==
    /\ Shown /\ ~Collapsed
    /\ session.step # "project"
    /\ NavigateToStep(Steps[Index(session.step) - 1], session)
    /\ UNCHANGED <<server, nav, storable, dismissed, booted, creating>>

SelectStep(step) ==
    /\ Shown
    /\ Index(step) <= Index(session.step)
    /\ ~Collapsed
    /\ NavigateToStep(step, session)
    /\ UNCHANGED <<server, nav, storable, dismissed, booted, creating>>

NextUnguarded ==
    /\ Shown /\ ~Collapsed
    /\ IF session.step = "dast"
       THEN Complete /\ UNCHANGED <<path, minimized, gaps>>
       ELSE /\ NavigateToStep(Steps[Index(session.step) + 1], session)
            /\ UNCHANGED dismissed
    /\ UNCHANGED <<server, nav, storable, booted, creating>>
Next ==
    /\ Shown /\ ~Collapsed
    /\ session.step = "project" => session.project # NoId
    /\ session.step = "system" => session.system # NoId
    /\ IF session.step = "dast"
       THEN Complete /\ UNCHANGED <<path, minimized, gaps>>
       ELSE /\ NavigateToStep(Steps[Index(session.step) + 1], session)
            /\ UNCHANGED dismissed
    /\ UNCHANGED <<server, nav, storable, booted, creating>>

Dismiss ==
    /\ Shown
    /\ Complete
    /\ UNCHANGED <<server, nav, storable, path, booted, minimized, creating, gaps>>

Minimize ==
    /\ Shown /\ session.step \in PageSteps
    /\ minimized' = ~minimized
    /\ UNCHANGED <<server, nav, session, storable, dismissed, path, booted,
                   creating, gaps>>

-----------------------------------------------------------------------------
\* The forms of the first two steps; what was created already shows no form.
SubmitProject ==
    /\ Shown /\ session.step = "project"
    /\ session.project \notin server.projects
    /\ creating = Idle
    /\ creating' = [what |-> "project", project |-> NoId]
    /\ UNCHANGED <<server, nav, session, storable, dismissed, path, booted,
                   minimized, gaps>>

SubmitSystem ==
    /\ Shown /\ session.step = "system"
    /\ session.project # NoId
    /\ session.system \notin SystemsIn(server, session.project)
    /\ creating = Idle
    /\ creating' = [what |-> "system", project |-> session.project]
    /\ UNCHANGED <<server, nav, session, storable, dismissed, path, booted,
                   minimized, gaps>>

\* The answers find the guide where the user has taken it meanwhile.
ProjectCreated(p) ==
    /\ creating.what = "project"
    /\ p \notin server.projects /\ SystemsIn(server, p) = {}
    /\ creating' = Idle
    /\ server' = [server EXCEPT !.projects = @ \union {p}]
    /\ NavigateToStep("system", [session EXCEPT !.project = p])
    /\ UNCHANGED <<nav, storable, dismissed, booted>>

SystemCreated(s) ==
    /\ creating.what = "system"
    /\ creating.project \in server.projects
    /\ s \notin Existing(server)
    /\ creating' = Idle
    /\ server' = [server EXCEPT !.parent[s] = creating.project]
    /\ LET next == [session EXCEPT !.system = s, !.step = "target"] IN
       /\ path' = PathForStep("target", next)
       /\ session' = Synced(next, path')
       /\ gaps' = (gaps \ {"stray"}) \union
                    IF creating.project # session.project THEN {"stray"} ELSE {}
    /\ minimized' = FALSE
    /\ UNCHANGED <<nav, storable, dismissed, booted>>

CreationFails ==
    /\ creating # Idle
    /\ creating' = Idle
    /\ UNCHANGED <<server, nav, session, storable, dismissed, path, booted,
                   minimized, gaps>>

-----------------------------------------------------------------------------
\* ReopenGuidedSetupButton, on the list of projects. The session that is
\* reopened keeps the ids the resume context does not name.
Resumed(p, s) ==
    CASE nav.projects = {} -> [session EXCEPT !.step = "project"]
      [] nav.projects # {} /\ Existing(nav) = {} ->
           [session EXCEPT !.step = "system", !.project = p]
      [] OTHER -> [session EXCEPT !.step = "target", !.project = p, !.system = s]

Reopen(p, s) ==
    /\ booted /\ path = ListPage /\ ~session.active
    /\ nav.projects # {} => p \in nav.projects
    /\ IF p \in nav.projects /\ SystemsIn(nav, p) # {}
       THEN s \in SystemsIn(nav, p) ELSE s = NoId
    /\ dismissed' = (dismissed /\ ~storable)
    /\ LET next == [Resumed(p, s) EXCEPT !.active = TRUE, !.completed = FALSE] IN
       /\ session' = next
       /\ path' = PathForStep(next.step, next)
       /\ gaps' = gaps \union Stray(next)
                  \union IF next.step = "target" /\ s = NoId THEN {"blank"} ELSE {}
    /\ UNCHANGED <<server, nav, storable, booted, minimized, creating>>

\* Links below the guide of a page step, the browser's history at any step.
Visit(page) ==
    /\ page # path
    /\ path' = page
    /\ session' = Synced(session, page)
    /\ gaps' = IF page.system # NoId /\ session.active THEN gaps \ {"stray"}
               ELSE gaps \union Stray(session')
    /\ UNCHANGED <<server, nav, storable, dismissed, booted, minimized, creating>>

\* Pages of the application, under the guide or in another tab.
CreateElsewhere(p, s) ==
    /\ \/ /\ p \notin server.projects /\ SystemsIn(server, p) = {}
          /\ server' = [server EXCEPT !.projects = @ \union {p}]
       \/ /\ p \in server.projects /\ s \notin Existing(server)
          /\ server' = [server EXCEPT !.parent[s] = p]
    /\ UNCHANGED <<nav, session, storable, dismissed, path, booted, minimized,
                   creating, gaps>>

DeleteElsewhere(p) ==
    /\ p \in server.projects
    /\ server' = [projects |-> server.projects \ {p},
                  parent |-> [s \in Systems |-> IF server.parent[s] = p THEN NoId
                                                ELSE server.parent[s]]]
    /\ gaps' = gaps \union IF session.project = p THEN {"stray"} ELSE {}
    /\ UNCHANGED <<nav, session, storable, dismissed, path, booted, minimized, creating>>

\* Another tab closes or concludes its guide.
DismissElsewhere ==
    /\ storable /\ dismissed' = TRUE
    /\ UNCHANGED <<server, nav, session, storable, path, booted, minimized,
                   creating, gaps>>

\* A reload keeps the session and starts everything else anew.
Reload ==
    /\ booted
    /\ booted' = FALSE /\ minimized' = FALSE /\ creating' = Idle
    /\ nav' = NotLoaded
    /\ UNCHANGED <<server, session, storable, dismissed, path, gaps>>

VisitAny ==
    \/ Visit(ListPage)
    \/ \E p \in server.projects :
         \/ Visit(Context(p, NoId))
         \/ \E s \in SystemsIn(server, p) : Visit(Context(p, s))

SetupNext ==
    \/ RefreshNav \/ Bootstrap \/ Back \/ Next \/ Dismiss \/ Minimize
    \/ \E i \in 1..4 : SelectStep(Steps[i])
    \/ SubmitProject \/ SubmitSystem \/ CreationFails
    \/ \E p \in Projects : ProjectCreated(p) \/ DeleteElsewhere(p)
    \/ \E s \in Systems : SystemCreated(s)
    \/ \E p \in Projects, s \in Systems : CreateElsewhere(p, s)
    \/ \E p \in Projects \union {NoId}, s \in Systems \union {NoId} : Reopen(p, s)
    \/ VisitAny \/ DismissElsewhere \/ Reload

SetupSpec == SetupInit /\ [][SetupNext]_setupVars
-----------------------------------------------------------------------------
Ids == [project : Projects \union {NoId}, system : Systems \union {NoId}]

SetupTypeOK ==
    /\ server \in [projects : SUBSET Projects, parent : [Systems -> Projects \union {NoId}]]
    /\ nav \in [loaded : BOOLEAN, projects : SUBSET Projects,
                parent : [Systems -> Projects \union {NoId}]]
    /\ session \in [active : BOOLEAN, completed : BOOLEAN,
                    step : FormSteps \union PageSteps,
                    project : Projects \union {NoId}, system : Systems \union {NoId}]
    /\ {storable, dismissed, booted, minimized} \subseteq BOOLEAN
    /\ gaps \subseteq {"stray", "blank"}
    /\ path \in Ids
    /\ creating \in [what : {"none", "project", "system"}, project : Projects \union {NoId}]

\* "Abre sozinho sem projetos se o usuário ainda não dispensou"
\* (docs/architecture/shingeki-client.md): a guide that was closed opens only
\* with the dismissal withdrawn, whatever was on its way when it was closed.
ClosedStaysClosed ==
    [][(~session.active /\ session'.active) => ~dismissed' \/ ~storable]_setupVars

\* Nobody gets to the scanner's login or the first scan without a system, or to
\* the system's form without a project (handleNext, the steps that can be
\* selected, the answers of the forms): only a guide that is reopened when the
\* first project has no system begins there.
StepEarned ==
    session.active =>
        /\ session.step # "project" => session.project # NoId
        /\ session.step \in PageSteps => session.system # NoId \/ "blank" \in gaps

\* The system the guide leads to is one of the project it leads to, so its page
\* exists, unless the user went to another project's page, reopened the guide
\* over ids left from before, or the project was deleted.
SystemInProject ==
    (session.active /\ session.system # NoId /\ "stray" \notin gaps) =>
        server.parent[session.system] = session.project
=============================================================================
