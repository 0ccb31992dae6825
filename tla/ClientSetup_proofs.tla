------------------------ MODULE ClientSetup_proofs -------------------------
(* Proofs about the guided setup, and about the tree of the sidebar and the *)
(* page that arranges it, for all projects and systems, all sizes of a page *)
(* and all bounds.                                                          *)
EXTENDS MCClientSetup, FiniteSetTheorems, SequenceTheorems, TLAPS

StepNames == FormSteps \union PageSteps

SessionType ==
  [active : BOOLEAN, completed : BOOLEAN, step : StepNames,
   project : Projects \union {NoId}, system : Systems \union {NoId}]

\* A guide that is open is not completed, a system never stands alone, and a
\* creation on its way is of this page load; that of a system was started from
\* a project, which only the guide's first start forgets.
SetupInv ==
  /\ SetupTypeOK
  /\ session.active => ~session.completed
  /\ session.system # NoId => session.project # NoId
  /\ creating # Idle => booted
  /\ creating.what = "system" => session.project # NoId /\ creating.project # NoId

GuideInv == SetupInv /\ StepEarned /\ SystemInProject

-----------------------------------------------------------------------------
(* Steps and where they lead.                                              *)

\* Each step has its place.
LEMMA StepPlaces ==
  /\ Index("project") = 1 /\ Index("system") = 2
  /\ Index("target") = 3 /\ Index("dast") = 4
  /\ Steps[1] = "project" /\ Steps[2] = "system"
  /\ Steps[3] = "target" /\ Steps[4] = "dast"
  <1>1. /\ Steps[1] = "project" /\ Steps[2] = "system"
        /\ Steps[3] = "target" /\ Steps[4] = "dast"
    BY DEF Steps
  <1>2. \A i \in 1..4 : i = 1 \/ i = 2 \/ i = 3 \/ i = 4
    OBVIOUS
  <1>3. Index("project") = 1
    BY <1>1, <1>2 DEF Index
  <1>4. Index("system") = 2
    BY <1>1, <1>2 DEF Index
  <1>5. Index("target") = 3
    BY <1>1, <1>2 DEF Index
  <1>6. Index("dast") = 4
    BY <1>1, <1>2 DEF Index
  <1>7. QED
    BY <1>1, <1>3, <1>4, <1>5, <1>6

\* Arriving where a step leads writes nothing into the session but itself.
LEMMA LedToItself ==
  ASSUME NEW s \in SessionType, NEW step \in StepNames
  PROVE  /\ Synced(s, PathForStep(step, s)) = s
         /\ PathForStep(step, s) \in Ids
  <1>1. PathForStep(step, s) \in
          {ListPage, Context(s.project, NoId), Context(s.project, s.system)}
    BY DEF PathForStep
  <1>2. ListPage \in Ids /\ Synced(s, ListPage) = s
    BY DEF ListPage, Context, Ids, Synced
  <1>3. Context(s.project, NoId) \in Ids /\ Synced(s, Context(s.project, NoId)) = s
    BY DEF Context, Ids, Synced, SessionType
  <1>4. Context(s.project, s.system) \in Ids /\ Synced(s, Context(s.project, s.system)) = s
    BY DEF Context, Ids, Synced, SessionType
  <1>5. QED
    BY <1>1, <1>2, <1>3, <1>4

\* What navigateToStep does to the session.
LEMMA Navigated ==
  ASSUME NEW s \in SessionType, NEW step \in StepNames, NavigateToStep(step, s)
  PROVE  /\ session' = [s EXCEPT !.step = step]
         /\ session' \in SessionType
         /\ path' \in Ids
         /\ gaps' = gaps \union Stray([s EXCEPT !.step = step])
  <1> DEFINE t == [s EXCEPT !.step = step]
  <1>1. t \in SessionType
    BY DEF SessionType
  <1>2. PathForStep(step, t) = PathForStep(step, s)
    BY DEF PathForStep, SessionType
  <1>3. Arrive(t, PathForStep(step, s))
    BY DEF NavigateToStep
  <1>4. QED
    BY <1>1, <1>2, <1>3, LedToItself DEF Arrive

\* Navigation keeps the session well formed and its two ids together, when the
\* step was earned and no system changes hands meanwhile.
LEMMA NavigationKeeps ==
  ASSUME SetupTypeOK, NEW s \in SessionType, NEW step \in StepNames,
         NavigateToStep(step, s),
         s.active => ~s.completed,
         s.system # NoId => s.project # NoId,
         s.active /\ step # "project" => s.project # NoId,
         s.active /\ step \in PageSteps => s.system # NoId \/ "blank" \in gaps,
         server'.parent = server.parent
  PROVE  /\ session' \in SessionType /\ path' \in Ids
         /\ minimized' \in BOOLEAN /\ gaps' \subseteq {"stray", "blank"}
         /\ session'.active = s.active /\ session'.project = s.project
         /\ session'.active => ~session'.completed
         /\ session'.system # NoId => session'.project # NoId
         /\ StepEarned' /\ SystemInProject'
  <1> DEFINE t == [s EXCEPT !.step = step]
  <1>1. /\ session' = t /\ session' \in SessionType /\ path' \in Ids
        /\ gaps' = gaps \union Stray(t)
    BY Navigated
  <1>2. /\ t.step = step /\ t.active = s.active /\ t.completed = s.completed
        /\ t.project = s.project /\ t.system = s.system
    BY DEF SessionType
  <1>3. minimized' \in BOOLEAN
    BY DEF NavigateToStep
  <1>4. gaps' \subseteq {"stray", "blank"}
    BY <1>1 DEF SetupTypeOK, Stray
  <1>5. StepEarned'
    BY <1>1, <1>2 DEF StepEarned
  <1>6. SystemInProject'
    BY <1>1, <1>2 DEF SystemInProject, Stray
  <1>7. QED
    BY <1>1, <1>2, <1>3, <1>4, <1>5, <1>6

\* The facts of the type invariant one by one.
LEMMA TypeParts ==
  SetupTypeOK <=>
    /\ server \in [projects : SUBSET Projects, parent : [Systems -> Projects \union {NoId}]]
    /\ nav \in [loaded : BOOLEAN, projects : SUBSET Projects,
                parent : [Systems -> Projects \union {NoId}]]
    /\ session \in SessionType
    /\ storable \in BOOLEAN /\ dismissed \in BOOLEAN
    /\ booted \in BOOLEAN /\ minimized \in BOOLEAN
    /\ gaps \subseteq {"stray", "blank"}
    /\ path \in Ids
    /\ creating \in [what : {"none", "project", "system"}, project : Projects \union {NoId}]
  BY DEF SetupTypeOK, SessionType, StepNames

-----------------------------------------------------------------------------
(* The invariant holds at first and is kept by every step.                 *)

LEMMA InitSetup ==
  ASSUME SetupInit
  PROVE  GuideInv
  <1>1. SetupTypeOK
    BY TypeParts DEF SetupInit, SessionType, StepNames, FormSteps, PageSteps,
       NotLoaded, Ids, ListPage, Context, Idle
  <1>2. QED
    BY <1>1 DEF SetupInit, GuideInv, SetupInv, StepEarned, SystemInProject, Idle

LEMMA SetupStep ==
  ASSUME GuideInv, [SetupNext]_setupVars
  PROVE  GuideInv'
  <1> DEFINE
        Server == [projects : SUBSET Projects, parent : [Systems -> Projects \union {NoId}]]
        Nav == [loaded : BOOLEAN, projects : SUBSET Projects,
                parent : [Systems -> Projects \union {NoId}]]
        Creation == [what : {"none", "project", "system"}, project : Projects \union {NoId}]
  <1>t. /\ server \in Server /\ nav \in Nav /\ session \in SessionType
        /\ storable \in BOOLEAN /\ dismissed \in BOOLEAN
        /\ booted \in BOOLEAN /\ minimized \in BOOLEAN
        /\ gaps \subseteq {"stray", "blank"} /\ path \in Ids /\ creating \in Creation
    BY TypeParts DEF GuideInv, SetupInv
  <1>i. /\ SetupTypeOK /\ StepEarned /\ SystemInProject
        /\ session.active => ~session.completed
        /\ session.system # NoId => session.project # NoId
        /\ creating # Idle => booted
        /\ creating.what = "system" => session.project # NoId /\ creating.project # NoId
    BY DEF GuideInv, SetupInv
  <1> DEFINE
        TypesAfter == /\ server' \in Server /\ nav' \in Nav /\ session' \in SessionType
                      /\ storable' \in BOOLEAN /\ dismissed' \in BOOLEAN
                      /\ booted' \in BOOLEAN /\ minimized' \in BOOLEAN
                      /\ gaps' \subseteq {"stray", "blank"} /\ path' \in Ids
                      /\ creating' \in Creation
        IdsAfter == /\ session'.active => ~session'.completed
                    /\ session'.system # NoId => session'.project # NoId
                    /\ creating' # Idle => booted'
                    /\ creating'.what = "system" =>
                         session'.project # NoId /\ creating'.project # NoId
  <1>q. ASSUME TypesAfter, IdsAfter, StepEarned', SystemInProject'
        PROVE  GuideInv'
    <2>1. SetupTypeOK'
      BY <1>q DEF SetupTypeOK, SessionType, StepNames, Ids
    <2>2. QED
      BY <2>1, <1>q DEF GuideInv, SetupInv, Idle
  <1>p. "system" # "none" /\ Idle \in Creation /\ Idle.what = "none"
    BY DEF Idle

  \* No new page, no new step.
  <1>1. CASE UNCHANGED setupVars
    BY <1>1, <1>q, <1>t, <1>i DEF setupVars, StepEarned, SystemInProject
  <1>2. CASE RefreshNav
    <2>1. TypesAfter
      BY <1>2, <1>t DEF RefreshNav
    <2>2. QED
      BY <1>2, <1>q, <1>i, <2>1 DEF RefreshNav, StepEarned, SystemInProject
  <1>3. CASE Minimize
    BY <1>3, <1>q, <1>t, <1>i DEF Minimize, StepEarned, SystemInProject
  <1>4. CASE CreationFails
    BY <1>4, <1>q, <1>t, <1>i, <1>p DEF CreationFails, StepEarned, SystemInProject
  <1>5. CASE DismissElsewhere
    BY <1>5, <1>q, <1>t, <1>i DEF DismissElsewhere, StepEarned, SystemInProject
  <1>6. CASE Dismiss
    <2>1. session' = [session EXCEPT !.active = FALSE, !.completed = TRUE]
      BY <1>6 DEF Dismiss, Complete
    <2>2. /\ session' \in SessionType /\ ~session'.active
          /\ session'.project = session.project /\ session'.system = session.system
      BY <2>1, <1>t DEF SessionType
    <2>3. dismissed' \in BOOLEAN
      BY <1>6 DEF Dismiss, Complete
    <2>4. QED
      BY <1>6, <1>q, <1>t, <1>i, <2>2, <2>3 DEF Dismiss, StepEarned, SystemInProject
  <1>7. CASE Reload
    <2>1. nav' \in Nav
      BY <1>7 DEF Reload, NotLoaded
    <2>2. QED
      BY <1>7, <1>q, <1>t, <1>i, <1>p, <2>1 DEF Reload, StepEarned, SystemInProject

  \* The guide opens, or closes, by itself.
  <1>8. CASE Bootstrap
    <2>1. CASE session' = Start /\ gaps' = {}
      <3>1. /\ Start \in SessionType /\ Start.completed = FALSE
            /\ Start.step = "project" /\ Start.system = NoId
        BY <1>t DEF Start, SessionType, StepNames, FormSteps
      <3>2. creating = Idle /\ UNCHANGED <<server, nav, storable, dismissed, path, minimized, creating>>
        BY <1>8, <1>i DEF Bootstrap
      <3>3. booted' = TRUE
        BY <1>8 DEF Bootstrap
      <3>4. TypesAfter /\ IdsAfter
        BY <1>t, <1>i, <1>p, <2>1, <3>1, <3>2, <3>3
      <3>5. StepEarned' /\ SystemInProject'
        BY <2>1, <3>1 DEF StepEarned, SystemInProject, PageSteps
      <3>6. QED
        BY <1>q, <3>4, <3>5
    <2>2. CASE UNCHANGED <<session, gaps>>
      BY <1>8, <1>q, <1>t, <1>i, <2>2 DEF Bootstrap, StepEarned, SystemInProject
    <2>3. CASE session' = [session EXCEPT !.active = FALSE, !.completed = TRUE] /\ gaps' = gaps
      <3>1. /\ session' \in SessionType /\ ~session'.active
            /\ session'.project = session.project /\ session'.system = session.system
        BY <2>3, <1>t DEF SessionType
      <3>2. QED
        BY <1>8, <1>q, <1>t, <1>i, <2>3, <3>1 DEF Bootstrap, StepEarned, SystemInProject
    <2>4. QED
      BY <1>8, <2>1, <2>2, <2>3 DEF Bootstrap

  \* The buttons and the progress bar.
  <1>n. ASSUME NEW step \in StepNames, NavigateToStep(step, session),
               session.active /\ step # "project" => session.project # NoId,
               session.active /\ step \in PageSteps =>
                 session.system # NoId \/ "blank" \in gaps,
               UNCHANGED <<server, nav, storable, booted, creating>>,
               dismissed' \in BOOLEAN
        PROVE  GuideInv'
    <2>1. /\ session' \in SessionType /\ path' \in Ids
          /\ minimized' \in BOOLEAN /\ gaps' \subseteq {"stray", "blank"}
          /\ session'.project = session.project
          /\ session'.active => ~session'.completed
          /\ session'.system # NoId => session'.project # NoId
          /\ StepEarned' /\ SystemInProject'
      BY <1>n, <1>t, <1>i, NavigationKeeps
    <2>2. TypesAfter /\ IdsAfter
      BY <1>n, <1>t, <1>i, <2>1
    <2>3. QED
      BY <1>q, <2>1, <2>2
  <1>s. /\ session.step \in {"project", "system", "target", "dast"}
        /\ "project" \in StepNames /\ "system" \in StepNames
        /\ "target" \in StepNames /\ "dast" \in StepNames
        /\ PageSteps = {"target", "dast"}
    BY <1>t DEF SessionType, StepNames, FormSteps, PageSteps
  <1>9. CASE Back
    <2>1. PICK step : step = Steps[Index(session.step) - 1]
      OBVIOUS
    <2>2. /\ NavigateToStep(step, session) /\ Shown /\ session.step # "project"
          /\ UNCHANGED <<server, nav, storable, dismissed, booted, creating>>
      BY <1>9, <2>1 DEF Back
    <2>3. \/ step = "project" /\ session.step = "system"
          \/ step = "system" /\ session.step = "target"
          \/ step = "target" /\ session.step = "dast"
      BY <1>s, <2>1, <2>2, StepPlaces
    <2>4. QED
      BY <1>n, <1>i, <1>t, <1>s, <2>2, <2>3 DEF StepEarned
  <1>10. CASE Next
    <2>1. CASE session.step = "dast"
      <3>1. session' = [session EXCEPT !.active = FALSE, !.completed = TRUE]
        BY <1>10, <2>1 DEF Next, Complete
      <3>2. /\ session' \in SessionType /\ ~session'.active
            /\ session'.project = session.project /\ session'.system = session.system
        BY <3>1, <1>t DEF SessionType
      <3>3. dismissed' \in BOOLEAN
        BY <1>10, <2>1 DEF Next, Complete
      <3>4. QED
        BY <1>10, <1>q, <1>t, <1>i, <2>1, <3>2, <3>3 DEF Next, StepEarned, SystemInProject
    <2>2. CASE session.step # "dast"
      <3>1. PICK step : step = Steps[Index(session.step) + 1]
        OBVIOUS
      <3>2. /\ NavigateToStep(step, session) /\ Shown
            /\ session.step = "project" => session.project # NoId
            /\ session.step = "system" => session.system # NoId
            /\ UNCHANGED <<server, nav, storable, dismissed, booted, creating>>
        BY <1>10, <2>2, <3>1 DEF Next
      <3>3. \/ step = "system" /\ session.step = "project"
            \/ step = "target" /\ session.step = "system"
            \/ step = "dast" /\ session.step = "target"
        BY <1>s, <2>2, <3>1, StepPlaces
      <3>4. QED
        BY <1>n, <1>i, <1>t, <1>s, <3>2, <3>3 DEF StepEarned
    <2>3. QED
      BY <2>1, <2>2
  <1>11. ASSUME NEW i \in 1..4, SelectStep(Steps[i])
         PROVE  GuideInv'
    <2>1. PICK step : step = Steps[i]
      OBVIOUS
    <2>2. /\ NavigateToStep(step, session) /\ Index(step) <= Index(session.step)
          /\ UNCHANGED <<server, nav, storable, dismissed, booted, creating>>
      BY <1>11, <2>1 DEF SelectStep
    <2>3. /\ step \in StepNames
          /\ step # "project" => session.step # "project"
          /\ step \in PageSteps => session.step \in PageSteps
      BY <1>s, <2>1, <2>2, StepPlaces
    <2>4. QED
      BY <1>n, <1>i, <1>t, <2>2, <2>3 DEF StepEarned

  \* The two forms, and the answers to them.
  <1>12. CASE SubmitProject
    <2>1. creating' = [what |-> "project", project |-> NoId] /\ booted
      BY <1>12 DEF SubmitProject, Shown
    <2>2. creating' \in Creation /\ creating'.what # "system"
      BY <2>1
    <2>3. QED
      BY <1>12, <1>q, <1>t, <1>i, <2>1, <2>2 DEF SubmitProject, StepEarned, SystemInProject
  <1>13. CASE SubmitSystem
    <2>1. creating' = [what |-> "system", project |-> session.project] /\ booted
      BY <1>13 DEF SubmitSystem, Shown
    <2>2. creating' \in Creation /\ creating'.project = session.project
      BY <2>1, <1>t DEF SessionType
    <2>3. session.project # NoId
      BY <1>13 DEF SubmitSystem
    <2>4. QED
      BY <1>13, <1>q, <1>t, <1>i, <2>1, <2>2, <2>3
      DEF SubmitSystem, StepEarned, SystemInProject
  <1>14. ASSUME NEW p \in Projects, ProjectCreated(p)
         PROVE  GuideInv'
    <2> DEFINE u == [session EXCEPT !.project = p]
    <2>1. p # NoId
      BY <1>14, SetupAssumption
    <2>2. /\ u \in SessionType /\ u.project = p /\ u.system = session.system
          /\ u.active = session.active /\ u.completed = session.completed
      BY <1>t DEF SessionType
    <2>3. /\ NavigateToStep("system", u) /\ creating' = Idle
          /\ server' = [server EXCEPT !.projects = @ \union {p}]
          /\ UNCHANGED <<nav, storable, dismissed, booted>>
      BY <1>14 DEF ProjectCreated
    <2>4. server' \in Server /\ server'.parent = server.parent
      BY <2>3, <1>t
    <2>5. /\ session' \in SessionType /\ path' \in Ids
          /\ minimized' \in BOOLEAN /\ gaps' \subseteq {"stray", "blank"}
          /\ session'.active => ~session'.completed
          /\ session'.system # NoId => session'.project # NoId
          /\ StepEarned' /\ SystemInProject'
      <3>1. "system" \notin PageSteps
        BY DEF PageSteps
      <3>2. QED
        BY <1>i, <1>s, <2>1, <2>2, <2>3, <2>4, <3>1, NavigationKeeps
    <2>6. TypesAfter /\ IdsAfter
      BY <1>t, <1>i, <1>p, <2>3, <2>4, <2>5
    <2>7. QED
      BY <1>q, <2>5, <2>6
  <1>15. ASSUME NEW x \in Systems, SystemCreated(x)
         PROVE  GuideInv'
    <2> DEFINE u == [session EXCEPT !.system = x, !.step = "target"]
    <2>1. /\ creating.what = "system" /\ x # NoId
          /\ session.project # NoId /\ creating.project # NoId
          /\ creating.project \in Projects
      BY <1>15, <1>t, <1>i, SetupAssumption DEF SystemCreated
    <2>2. /\ u \in SessionType /\ u.project = session.project /\ u.system = x
          /\ u.active = session.active /\ u.completed = session.completed
          /\ u.step = "target"
      BY <1>t, <1>s DEF SessionType
    <2>3. session' = u /\ path' \in Ids
      BY <1>15, <1>s, <2>2, LedToItself DEF SystemCreated
    <2>4. /\ creating' = Idle /\ minimized' = FALSE
          /\ server' = [server EXCEPT !.parent[x] = creating.project]
          /\ gaps' = (gaps \ {"stray"}) \union
                       IF creating.project # session.project THEN {"stray"} ELSE {}
          /\ UNCHANGED <<nav, storable, dismissed, booted>>
      BY <1>15 DEF SystemCreated
    <2>5. server' \in Server /\ server'.parent[x] = creating.project
      <3>1. server' = [projects |-> server.projects,
                       parent |-> [server.parent EXCEPT ![x] = creating.project]]
        BY <2>4, <1>t
      <3>2. QED
        BY <3>1, <2>1, <1>t
    <2>6. TypesAfter /\ IdsAfter
      BY <1>t, <1>i, <1>p, <2>1, <2>2, <2>3, <2>4, <2>5
    <2>7. StepEarned' /\ SystemInProject'
      BY <2>1, <2>2, <2>3, <2>4, <2>5 DEF StepEarned, SystemInProject
    <2>8. QED
      BY <1>q, <2>6, <2>7

  \* Pages, and what is created and deleted elsewhere.
  <1>16. ASSUME NEW page \in Ids, Visit(page),
                page.project = NoId => page.system = NoId,
                page.system # NoId => server.parent[page.system] = page.project
         PROVE  GuideInv'
    <2>1. /\ path' = page /\ session' = Synced(session, page)
          /\ UNCHANGED <<server, nav, storable, dismissed, booted, minimized, creating>>
          /\ gaps' = IF page.system # NoId /\ session.active THEN gaps \ {"stray"}
                     ELSE gaps \union Stray(session')
      BY <1>16 DEF Visit
    <2>2. gaps' \subseteq {"stray", "blank"} /\ ("blank" \in gaps => "blank" \in gaps')
      BY <2>1, <1>t DEF Stray
    <2>3. CASE session' = session /\ (page.system = NoId \/ ~session.active)
      <3>1. StepEarned' /\ SystemInProject'
        BY <2>1, <2>2, <2>3, <1>i DEF StepEarned, SystemInProject, Stray
      <3>2. QED
        BY <1>q, <1>t, <1>i, <2>1, <2>2, <2>3, <3>1
    <2>4. CASE page.system # NoId /\ session' = [session EXCEPT !.project = page.project,
                                                              !.system = page.system]
      <3>1. /\ session' \in SessionType
            /\ session'.project = page.project /\ session'.system = page.system
            /\ session'.active = session.active /\ session'.step = session.step
            /\ session'.completed = session.completed
        BY <2>4, <1>t DEF SessionType, Ids
      <3>2. page.project # NoId
        BY <1>16, <2>4
      <3>3. StepEarned' /\ SystemInProject'
        BY <1>16, <2>1, <2>2, <2>4, <3>1, <3>2 DEF StepEarned, SystemInProject
      <3>4. TypesAfter /\ IdsAfter
        BY <1>t, <1>i, <2>1, <2>2, <3>1, <3>2
      <3>5. QED
        BY <1>q, <3>3, <3>4
    <2>5. CASE /\ page.system = NoId /\ page.project # NoId
               /\ session' = [session EXCEPT !.project = page.project]
      <3>1. /\ session' \in SessionType
            /\ session'.project = page.project /\ session'.system = session.system
            /\ session'.active = session.active /\ session'.step = session.step
            /\ session'.completed = session.completed
        BY <2>5, <1>t DEF SessionType, Ids
      <3>2. StepEarned' /\ SystemInProject'
        BY <2>1, <2>2, <2>5, <3>1, <1>i DEF StepEarned, SystemInProject, Stray
      <3>3. TypesAfter /\ IdsAfter
        BY <1>t, <1>i, <2>1, <2>2, <2>5, <3>1
      <3>4. QED
        BY <1>q, <3>2, <3>3
    <2>6. QED
      <3>1. CASE ~session.active
        BY <2>1, <2>3, <3>1 DEF Synced
      <3>2. CASE session.active
        BY <1>16, <1>i, <2>1, <2>3, <2>4, <2>5, <3>2 DEF Synced
      <3>3. QED
        BY <3>1, <3>2
  <1>17. CASE VisitAny
    <2>1. \/ Visit(ListPage)
          \/ \E p \in Projects : Visit(Context(p, NoId))
          \/ \E p \in Projects, x \in Systems :
               server.parent[x] = p /\ Visit(Context(p, x))
      BY <1>17, <1>t DEF VisitAny, SystemsIn
    <2>2. CASE Visit(ListPage)
      <3>1. ListPage \in Ids /\ ListPage.project = NoId /\ ListPage.system = NoId
        BY DEF ListPage, Context, Ids
      <3>2. QED
        BY <1>16, <1>17, <2>2, <3>1
    <2>3. ASSUME NEW p \in Projects, Visit(Context(p, NoId))
          PROVE  GuideInv'
      <3>1. /\ Context(p, NoId) \in Ids
            /\ Context(p, NoId).project = p /\ Context(p, NoId).system = NoId
        BY DEF Context, Ids
      <3>2. QED
        BY <1>16, <1>17, <2>3, <3>1
    <2>4. ASSUME NEW p \in Projects, NEW x \in Systems,
                 server.parent[x] = p, Visit(Context(p, x))
          PROVE  GuideInv'
      <3>1. /\ Context(p, x) \in Ids /\ p # NoId
            /\ Context(p, x).project = p /\ Context(p, x).system = x
        BY <1>17, SetupAssumption DEF Context, Ids
      <3>2. QED
        BY <1>16, <1>17, <2>4, <3>1
    <2>5. QED
      BY <2>1, <2>2, <2>3, <2>4
  <1>18. ASSUME NEW p \in Projects, NEW x \in Systems,
                CreateElsewhere(p, x)
         PROVE  GuideInv'
    <2>1. UNCHANGED <<nav, session, storable, dismissed, path, booted, minimized,
                      creating, gaps>>
      BY <1>18 DEF CreateElsewhere
    <2>2. /\ server' \in Server
          /\ \A y \in Systems : server.parent[y] # NoId =>
                                 server'.parent[y] = server.parent[y]
      <3>1. CASE server' = [server EXCEPT !.projects = @ \union {p}]
        BY <3>1, <1>t
      <3>2. CASE server' = [server EXCEPT !.parent[x] = p] /\ x \notin Existing(server)
        <4>1. server' = [projects |-> server.projects,
                         parent |-> [server.parent EXCEPT ![x] = p]]
          BY <3>2, <1>t
        <4>2. server.parent[x] = NoId
          BY <3>2 DEF Existing
        <4>3. QED
          BY <4>1, <4>2, <1>t
      <3>3. QED
        BY <1>18, <3>1, <3>2 DEF CreateElsewhere
    <2>3. SystemInProject'
      <3>1. session.system # NoId => session.system \in Systems /\ session.project # NoId
        BY <1>t, <1>i DEF SessionType
      <3>2. QED
        BY <1>i, <2>1, <2>2, <3>1 DEF SystemInProject
    <2>4. QED
      BY <1>q, <1>t, <1>i, <2>1, <2>2, <2>3 DEF StepEarned
  <1>19. ASSUME NEW p \in Projects, DeleteElsewhere(p)
         PROVE  GuideInv'
    <2>1. /\ UNCHANGED <<nav, session, storable, dismissed, path, booted, minimized, creating>>
          /\ gaps' = gaps \union IF session.project = p THEN {"stray"} ELSE {}
          /\ server' = [projects |-> server.projects \ {p},
                        parent |-> [y \in Systems |-> IF server.parent[y] = p THEN NoId
                                                      ELSE server.parent[y]]]
      BY <1>19 DEF DeleteElsewhere
    <2>2. server' \in Server /\ gaps' \subseteq {"stray", "blank"}
      BY <2>1, <1>t
    <2>3. StepEarned'
      BY <2>1, <1>i DEF StepEarned
    <2>4. SystemInProject'
      <3>1. session.system # NoId => session.system \in Systems
        BY <1>t DEF SessionType
      <3>2. QED
        BY <1>i, <2>1, <3>1 DEF SystemInProject
    <2>5. QED
      BY <1>q, <1>t, <1>i, <2>1, <2>2, <2>3, <2>4

  \* The button that reopens the guide.
  <1>20. ASSUME NEW p, NEW x \in Systems \union {NoId}, Reopen(p, x)
         PROVE  GuideInv'
    <2> DEFINE next == [Resumed(p, x) EXCEPT !.active = TRUE, !.completed = FALSE]
    <2>1. /\ session' = next /\ path' = PathForStep(next.step, next)
          /\ gaps' = gaps \union Stray(next)
                     \union IF next.step = "target" /\ x = NoId THEN {"blank"} ELSE {}
          /\ nav.projects # {} => p \in Projects /\ p # NoId
          /\ UNCHANGED <<server, nav, storable, booted, minimized, creating>>
          /\ dismissed' \in BOOLEAN
      BY <1>20, <1>t, SetupAssumption DEF Reopen
    <2>2. /\ next \in SessionType /\ next.active /\ ~next.completed
          /\ \/ /\ next.step = "project"
                /\ next.project = session.project /\ next.system = session.system
             \/ /\ next.step = "system"
                /\ next.project = p /\ p # NoId /\ next.system = session.system
             \/ /\ next.step = "target"
                /\ next.project = p /\ p # NoId /\ next.system = x
      <3>1. CASE nav.projects = {}
        <4>1. Resumed(p, x) = [session EXCEPT !.step = "project"]
          BY <3>1 DEF Resumed
        <4>2. QED
          BY <4>1, <1>t, <1>s DEF SessionType
      <3>2. CASE nav.projects # {} /\ Existing(nav) = {}
        <4>1. Resumed(p, x) = [session EXCEPT !.step = "system", !.project = p]
          BY <3>2 DEF Resumed
        <4>2. QED
          BY <4>1, <3>2, <2>1, <1>t, <1>s DEF SessionType
      <3>3. CASE nav.projects # {} /\ Existing(nav) # {}
        <4>1. Resumed(p, x) = [session EXCEPT !.step = "target", !.project = p, !.system = x]
          BY <3>3 DEF Resumed
        <4>2. QED
          BY <4>1, <3>3, <2>1, <1>t, <1>s DEF SessionType
      <3>4. QED
        BY <3>1, <3>2, <3>3
    <2>3. path' \in Ids
      <3>1. next.step \in StepNames
        BY <1>s, <2>2
      <3>2. QED
        BY <2>1, <2>2, <3>1, LedToItself
    <2>4. gaps' \subseteq {"stray", "blank"}
      BY <2>1, <1>t DEF Stray
    <2>5. session'.project # NoId \/ creating.what # "system"
      BY <2>1, <2>2, <1>i
    <2>6. TypesAfter /\ IdsAfter
      BY <1>t, <1>i, <2>1, <2>2, <2>3, <2>4, <2>5
    <2>7. StepEarned'
      BY <2>1, <2>2, <1>s DEF StepEarned
    <2>8. SystemInProject'
      BY <2>1, <2>2 DEF SystemInProject, Stray
    <2>9. QED
      BY <1>q, <2>6, <2>7, <2>8

  <1>21. ASSUME SetupNext
         PROVE  GuideInv'
    <2>1. CASE RefreshNav \/ Bootstrap \/ Back \/ Next \/ Dismiss \/ Minimize
      BY <2>1, <1>2, <1>3, <1>6, <1>8, <1>9, <1>10
    <2>2. CASE \E i \in 1..4 : SelectStep(Steps[i])
      BY <2>2, <1>11
    <2>3. CASE \/ SubmitProject \/ SubmitSystem \/ CreationFails
               \/ VisitAny \/ DismissElsewhere \/ Reload
      BY <2>3, <1>4, <1>5, <1>7, <1>12, <1>13, <1>17
    <2>4. CASE \E p \in Projects : ProjectCreated(p) \/ DeleteElsewhere(p)
      BY <2>4, <1>14, <1>19
    <2>5. CASE \E x \in Systems : SystemCreated(x)
      BY <2>5, <1>15
    <2>6. CASE \E p \in Projects, x \in Systems : CreateElsewhere(p, x)
      BY <2>6, <1>18
    <2>7. CASE \E p \in Projects \union {NoId}, x \in Systems \union {NoId} : Reopen(p, x)
      BY <2>7, <1>20
    <2>8. QED
      BY <1>21, <2>1, <2>2, <2>3, <2>4, <2>5, <2>6, <2>7 DEF SetupNext
  <1>22. QED
    BY <1>1, <1>21

\* The invariant of the guide, from its first state on.
LEMMA SetupInvariant == SetupSpec => []GuideInv
  <1>1. SetupInit => GuideInv
    BY InitSetup
  <1>2. GuideInv /\ [SetupNext]_setupVars => GuideInv'
    BY SetupStep
  <1>3. QED
    BY <1>1, <1>2, PTL DEF SetupSpec

\* A step that opens the guide is the automatic start or the button.
LEMMA StepOpens ==
  ASSUME GuideInv, SetupNext, ~session.active, session'.active
  PROVE  ~dismissed' \/ ~storable
  <1>t. session \in SessionType
    BY TypeParts DEF GuideInv, SetupInv
  <1>s. "system" \in StepNames /\ "target" \in StepNames
    BY DEF StepNames, FormSteps, PageSteps
  <1>c. ~UNCHANGED session
    OBVIOUS
  <1>1. ~(RefreshNav \/ Back \/ Next \/ Dismiss \/ Minimize)
    BY <1>c DEF RefreshNav, Back, Next, Dismiss, Minimize, Shown
  <1>2. ~(\E i \in 1..4 : SelectStep(Steps[i]))
    BY DEF SelectStep, Shown
  <1>3. ~(SubmitProject \/ SubmitSystem \/ CreationFails \/ DismissElsewhere \/ Reload)
    BY <1>c DEF SubmitProject, SubmitSystem, CreationFails, DismissElsewhere, Reload
  <1>4. ASSUME NEW p \in Projects
        PROVE  ~ProjectCreated(p) /\ ~DeleteElsewhere(p)
    <2> DEFINE u == [session EXCEPT !.project = p]
    <2>1. u \in SessionType /\ u.active = session.active
      BY <1>t DEF SessionType
    <2>2. [u EXCEPT !.step = "system"].active = session.active
      BY <2>1 DEF SessionType
    <2>3. ~ProjectCreated(p)
      BY <1>s, <2>1, <2>2, Navigated DEF ProjectCreated
    <2>4. QED
      BY <1>c, <2>3 DEF DeleteElsewhere
  <1>5. ASSUME NEW x \in Systems
        PROVE  ~SystemCreated(x)
    <2> DEFINE u == [session EXCEPT !.system = x, !.step = "target"]
    <2>1. u \in SessionType /\ u.active = session.active
      BY <1>t, <1>s DEF SessionType
    <2>2. QED
      BY <1>s, <2>1, LedToItself DEF SystemCreated
  <1>6. ~(\E p \in Projects, x \in Systems : CreateElsewhere(p, x))
    BY <1>c DEF CreateElsewhere
  <1>7. ~VisitAny
    <2>1. \A page : Synced(session, page) = session
      BY DEF Synced
    <2>2. QED
      BY <1>c, <2>1 DEF VisitAny, Visit
  <1>8. CASE Bootstrap
    BY <1>8 DEF Bootstrap
  <1>9. ASSUME NEW p, NEW x, Reopen(p, x)
        PROVE  ~dismissed' \/ ~storable
    BY <1>9 DEF Reopen
  <1>10. QED
    BY <1>1, <1>2, <1>3, <1>4, <1>5, <1>6, <1>7, <1>8, <1>9 DEF SetupNext

-----------------------------------------------------------------------------
(* The theorems.                                                           *)

\* The states of the guide are well formed: what is in sessionStorage, what the
\* pages and the sidebar know, and the creation on its way.
THEOREM SetupTyping == SetupSpec => []SetupTypeOK
  <1>1. GuideInv => SetupTypeOK
    BY DEF GuideInv, SetupInv
  <1>2. QED
    BY <1>1, SetupInvariant, PTL

\* However the user gets to a step (handleNext, the progress bar, an answer that
\* comes late, a reload), it has the project and the system it needs.
THEOREM EveryStepEarned == SetupSpec => []StepEarned
  <1>1. GuideInv => StepEarned
    BY DEF GuideInv
  <1>2. QED
    BY <1>1, SetupInvariant, PTL

\* The guide's system is one of the guide's project.
THEOREM OwnSystem == SetupSpec => []SystemInProject
  <1>1. GuideInv => SystemInProject
    BY DEF GuideInv
  <1>2. QED
    BY <1>1, SetupInvariant, PTL

\* A guide that was closed opens only with the dismissal withdrawn: no answer
\* that comes late, page or reload opens it.
THEOREM StaysClosed == SetupSpec => ClosedStaysClosed
  <1>1. GuideInv /\ [SetupNext]_setupVars =>
          [(~session.active /\ session'.active) => ~dismissed' \/ ~storable]_setupVars
    BY StepOpens DEF setupVars
  <1>2. QED
    BY <1>1, SetupInvariant, PTL DEF SetupSpec, ClosedStaysClosed

-----------------------------------------------------------------------------
(* Sorted: the one sequence of a finite set in which each has its place.   *)

\* A strict total order on S, as a set of pairs.
Orders(R, S) ==
  /\ \A i \in S : <<i, i>> \notin R
  /\ \A i, j, k \in S : <<i, j>> \in R /\ <<j, k>> \in R => <<i, k>> \in R
  /\ \A i, j \in S : i = j \/ <<i, j>> \in R \/ <<j, i>> \in R

Under(R, S, i) == {j \in S : <<j, i>> \in R}

\* s enumerates S, in the order of R.
InOrder(s, S, R) ==
  /\ s \in [1 .. Cardinality(S) -> S]
  /\ \A i \in S : \E n \in 1 .. Cardinality(S) : s[n] = i
  /\ \A n, m \in 1 .. Cardinality(S) : n < m => <<s[n], s[m]>> \in R

\* As many ranks as there are elements, each is one element's.
LEMMA PlacesAreTaken ==
  ASSUME NEW S, IsFiniteSet(S), NEW R, Orders(R, S)
  PROVE  /\ \A i \in S : Cardinality(Under(R, S, i)) \in 0 .. (Cardinality(S) - 1)
         /\ \A i, j \in S : <<i, j>> \in R =>
              Cardinality(Under(R, S, i)) < Cardinality(Under(R, S, j))
         /\ \A n \in 1 .. Cardinality(S) : \E i \in S : Cardinality(Under(R, S, i)) = n - 1
  <1>1. Cardinality(S) \in Nat
    BY FS_CardinalityType
  <1>2. ASSUME NEW i \in S
        PROVE  /\ IsFiniteSet(Under(R, S, i)) /\ Cardinality(Under(R, S, i)) \in Nat
               /\ Cardinality(Under(R, S, i)) \in 0 .. (Cardinality(S) - 1)
    <2>1. Under(R, S, i) \in SUBSET (S \ {i})
      BY DEF Under, Orders
    <2>2. IsFiniteSet(S \ {i}) /\ Cardinality(S \ {i}) = Cardinality(S) - 1
      BY FS_RemoveElement
    <2>3. IsFiniteSet(Under(R, S, i)) /\ Cardinality(Under(R, S, i)) <= Cardinality(S) - 1
      BY <2>1, <2>2, FS_Subset
    <2>4. Cardinality(Under(R, S, i)) \in Nat
      BY <2>3, FS_CardinalityType
    <2>5. QED
      BY <1>1, <2>3, <2>4
  <1>3. ASSUME NEW i \in S, NEW j \in S, <<i, j>> \in R
        PROVE  Cardinality(Under(R, S, i)) < Cardinality(Under(R, S, j))
    <2>1. Under(R, S, i) \union {i} \in SUBSET Under(R, S, j)
      BY <1>3 DEF Under, Orders
    <2>2. i \notin Under(R, S, i)
      BY DEF Under, Orders
    <2>3. Cardinality(Under(R, S, i) \union {i}) = Cardinality(Under(R, S, i)) + 1
      BY <1>2, <2>2, FS_AddElement
    <2>4. Cardinality(Under(R, S, i) \union {i}) <= Cardinality(Under(R, S, j))
      BY <1>2, <2>1, FS_Subset
    <2>5. QED
      BY <1>2, <2>3, <2>4
  <1> DEFINE T == 0 .. (Cardinality(S) - 1)
             r == [i \in S |-> Cardinality(Under(R, S, i))]
  <1>4. r \in Injection(S, T)
    <2>1. r \in [S -> T]
      BY <1>2
    <2>2. ASSUME NEW i \in S, NEW j \in S, r[i] = r[j] PROVE i = j
      <3>1. ~(<<i, j>> \in R) /\ ~(<<j, i>> \in R)
        BY <1>2, <1>3, <2>2
      <3>2. QED
        BY <3>1 DEF Orders
    <2>3. QED
      BY <2>1, <2>2 DEF Injection, IsInjective
  <1>5. IsFiniteSet(T) /\ Cardinality(T) = Cardinality(S)
    <2>1. 0 \in Int /\ Cardinality(S) - 1 \in Int
      BY <1>1
    <2>2. /\ IsFiniteSet(T)
          /\ Cardinality(T) = IF 0 > Cardinality(S) - 1 THEN 0 ELSE Cardinality(S) - 1 - 0 + 1
      BY <2>1, FS_Interval
    <2>3. QED
      BY <1>1, <2>2
  <1>6. r \in Surjection(S, T)
    BY <1>4, <1>5, FS_Injection
  <1>7. ASSUME NEW n \in 1 .. Cardinality(S)
        PROVE  \E i \in S : Cardinality(Under(R, S, i)) = n - 1
    <2>1. n - 1 \in T
      BY <1>1
    <2>2. \E i \in DOMAIN r : r[i] = n - 1
      BY <1>6, <2>1 DEF Surjection
    <2>3. QED
      BY <2>2
  <1>8. QED
    BY <1>2, <1>3, <1>7

\* The n-th of an enumeration in order has n - 1 under it.
LEMMA PlaceIsRank ==
  ASSUME NEW S, IsFiniteSet(S), NEW R, Orders(R, S), NEW s, InOrder(s, S, R),
         NEW n \in 1 .. Cardinality(S)
  PROVE  Cardinality(Under(R, S, s[n])) = n - 1
  <1>1. Cardinality(S) \in Nat
    BY FS_CardinalityType
  <1> DEFINE A == 1 .. (n - 1)
             f == [k \in A |-> s[k]]
  <1>2. A \subseteq 1 .. Cardinality(S)
    BY <1>1
  <1>3. IsFiniteSet(A) /\ Cardinality(A) = n - 1
    <2>1. 1 \in Int /\ n - 1 \in Int /\ n >= 1
      BY <1>1
    <2>2. IsFiniteSet(A) /\ Cardinality(A) = IF 1 > n - 1 THEN 0 ELSE (n - 1) - 1 + 1
      BY <2>1, FS_Interval
    <2>3. QED
      BY <2>1, <2>2
  <1>4. f \in Bijection(A, Under(R, S, s[n]))
    <2>1. ASSUME NEW k \in A PROVE s[k] \in Under(R, S, s[n])
      <3>1. k \in 1 .. Cardinality(S) /\ k < n
        BY <1>1
      <3>2. QED
        BY <3>1 DEF InOrder, Under
    <2>2. ASSUME NEW j \in A, NEW k \in A, s[j] = s[k] PROVE j = k
      <3>1. j \in 1 .. Cardinality(S) /\ k \in 1 .. Cardinality(S)
        BY <1>2
      <3>2. ~(j < k) /\ ~(k < j)
        BY <2>2, <3>1 DEF InOrder, Orders
      <3>3. QED
        BY <3>1, <3>2
    <2>3. ASSUME NEW i \in Under(R, S, s[n]) PROVE \E k \in A : s[k] = i
      <3>1. i \in S /\ <<i, s[n]>> \in R /\ s[n] \in S
        BY DEF Under, InOrder
      <3>2. PICK k \in 1 .. Cardinality(S) : s[k] = i
        BY <3>1 DEF InOrder
      <3>3. k # n /\ ~(n < k)
        BY <3>1, <3>2 DEF InOrder, Orders
      <3>4. k \in A
        BY <1>1, <3>3
      <3>5. QED
        BY <3>2, <3>4
    <2>4. f \in [A -> Under(R, S, s[n])]
      BY <2>1
    <2>5. f \in Injection(A, Under(R, S, s[n]))
      BY <2>2, <2>4 DEF Injection, IsInjective
    <2>6. f \in Surjection(A, Under(R, S, s[n]))
      BY <2>3, <2>4 DEF Surjection
    <2>7. QED
      BY <2>5, <2>6 DEF Bijection
  <1>5. ExistsBijection(A, Under(R, S, s[n]))
    BY <1>4 DEF ExistsBijection
  <1>6. QED
    BY <1>3, <1>5, FS_Bijection

\* There is one such enumeration, by the number of those under each.
Ordered(S, R) ==
  [n \in 1 .. Cardinality(S) |-> CHOOSE i \in S : Cardinality(Under(R, S, i)) = n - 1]

LEMMA OrderedIs ==
  ASSUME NEW S, IsFiniteSet(S), NEW R, Orders(R, S)
  PROVE  /\ InOrder(Ordered(S, R), S, R)
         /\ \A s : InOrder(s, S, R) => s = Ordered(S, R)
  <1> DEFINE N == 1 .. Cardinality(S)
             rank(i) == Cardinality(Under(R, S, i))
             t == Ordered(S, R)
  <1>1. Cardinality(S) \in Nat
    BY FS_CardinalityType
  <1>2. /\ \A i \in S : rank(i) \in 0 .. (Cardinality(S) - 1)
        /\ \A i, j \in S : <<i, j>> \in R => rank(i) < rank(j)
        /\ \A n \in N : \E i \in S : rank(i) = n - 1
    BY PlacesAreTaken
  <1>3. \A i, j \in S : rank(i) = rank(j) => i = j
    <2>1. SUFFICES ASSUME NEW i \in S, NEW j \in S, rank(i) = rank(j), i # j PROVE FALSE
      OBVIOUS
    <2>2. <<i, j>> \in R \/ <<j, i>> \in R
      BY <2>1 DEF Orders
    <2>3. rank(i) \in Int /\ rank(j) \in Int
      BY <1>2
    <2>4. QED
      BY <1>2, <2>1, <2>2, <2>3
  <1>4. DOMAIN t = N /\ \A n \in N : t[n] \in S /\ rank(t[n]) = n - 1
    <2>1. DOMAIN t = N /\ \A n \in N : t[n] = CHOOSE i \in S : rank(i) = n - 1
      BY DEF Ordered
    <2>2. QED
      BY <1>2, <2>1
  <1>5. t \in [N -> S]
    BY <1>4 DEF Ordered
  <1>6. ASSUME NEW i \in S PROVE \E n \in N : t[n] = i
    <2>1. PICK n : n = rank(i) + 1
      OBVIOUS
    <2>2. n \in N /\ rank(i) = n - 1
      BY <1>1, <1>2, <2>1
    <2>3. t[n] = i
      BY <1>3, <1>4, <2>2
    <2>4. QED
      BY <2>2, <2>3
  <1>7. ASSUME NEW n \in N, NEW m \in N, n < m PROVE <<t[n], t[m]>> \in R
    <2>1. /\ t[n] \in S /\ t[m] \in S /\ rank(t[n]) = n - 1 /\ rank(t[m]) = m - 1
          /\ n \in Int /\ m \in Int
      BY <1>1, <1>4
    <2>2. t[n] # t[m]
      BY <1>7, <2>1
    <2>3. ~(<<t[m], t[n]>> \in R)
      <3>1. SUFFICES ASSUME <<t[m], t[n]>> \in R PROVE FALSE
        OBVIOUS
      <3>2. rank(t[m]) < rank(t[n])
        BY <1>2, <2>1, <3>1
      <3>3. QED
        BY <1>7, <2>1, <3>2
    <2>4. QED
      BY <2>1, <2>2, <2>3 DEF Orders
  <1>8. ASSUME NEW s, InOrder(s, S, R) PROVE s = t
    <2>1. ASSUME NEW n \in N PROVE s[n] = t[n]
      <3>1. rank(s[n]) = n - 1
        BY <1>8, PlaceIsRank
      <3>2. s[n] \in S
        BY <1>8 DEF InOrder
      <3>3. QED
        BY <1>3, <1>4, <3>1, <3>2
    <2>2. s \in [N -> S]
      BY <1>8 DEF InOrder
    <2> HIDE DEF N, t
    <2>3. QED
      BY <1>5, <2>1, <2>2
  <1>9. QED
    BY <1>5, <1>6, <1>7, <1>8 DEF InOrder

-----------------------------------------------------------------------------
(* What is sorted: views of items, and the groups of a form.               *)

Whole(D) == \A i \in D : <<i[1], 0>> \in D
PinRows == [visible : BOOLEAN, order : Nat]
IsView(v) == /\ DOMAIN v \subseteq Items /\ Whole(DOMAIN v)
             /\ v \in [DOMAIN v -> PinRows]

ByOrder(S, view) == {x \in S \X S : Before(view, x[1], x[2])}

LEMMA SideBounds ==
  /\ MaxProject \in Nat \ {0} /\ NavSize \in Nat \ {0}
  /\ MaxSystem \in Nat /\ MaxEdits \in Nat /\ MaxChanges \in Nat
  /\ First \subseteq Items /\ Later \subseteq Items /\ First \intersect Later = {}
  /\ Whole(First)
  BY SidebarAssumption DEF SidebarAssumption, Whole

LEMMA ItemPairs ==
  ASSUME NEW i \in Items
  PROVE  i = <<i[1], i[2]>> /\ i[1] \in Nat \ {0} /\ i[2] \in Nat
  BY SideBounds DEF Items

LEMMA ItemsAreFinite ==
  ASSUME NEW S \in SUBSET Items
  PROVE  IsFiniteSet(S) /\ Cardinality(S) \in Nat
  <1>1. IsFiniteSet(1 .. MaxProject) /\ IsFiniteSet(0 .. MaxSystem)
    BY SideBounds, FS_Interval
  <1>2. IsFiniteSet(Items)
    BY <1>1, FS_Product DEF Items
  <1>3. QED
    BY <1>2, FS_Subset, FS_CardinalityType

LEMMA VisitedOrders ==
  ASSUME NEW i \in Items, NEW j \in Items, NEW k \in Items
  PROVE  /\ ~Visited(i, i)
         /\ Visited(i, j) /\ Visited(j, k) => Visited(i, k)
         /\ i = j \/ Visited(i, j) \/ Visited(j, i)
  <1>1. /\ i = <<i[1], i[2]>> /\ i[1] \in Nat /\ i[2] \in Nat
        /\ j = <<j[1], j[2]>> /\ j[1] \in Nat /\ j[2] \in Nat
        /\ k[1] \in Nat /\ k[2] \in Nat
    BY ItemPairs
  <1>2. i[1] = j[1] /\ i[2] = j[2] => i = j
    BY <1>1
  <1>3. QED
    BY <1>1, <1>2 DEF Visited

\* A sort by order, then by the visit, is the one enumeration in that order.
LEMMA SortedIs ==
  ASSUME NEW S \in SUBSET Items, NEW view, \A i \in S : view[i].order \in Nat
  PROVE  /\ IsFiniteSet(S) /\ Cardinality(S) \in Nat
         /\ InOrder(Sorted(S, view), S, ByOrder(S, view))
         /\ \A s : InOrder(s, S, ByOrder(S, view)) => s = Sorted(S, view)
  <1>1. IsFiniteSet(S) /\ Cardinality(S) \in Nat
    BY ItemsAreFinite
  <1>2. Orders(ByOrder(S, view), S)
    <2>0. \A i, j \in S : <<i, j>> \in ByOrder(S, view) <=> Before(view, i, j)
      BY DEF ByOrder
    <2>1. ASSUME NEW i \in S PROVE <<i, i>> \notin ByOrder(S, view)
      BY <2>0, VisitedOrders DEF Before
    <2>2. ASSUME NEW i \in S, NEW j \in S, NEW k \in S,
                 <<i, j>> \in ByOrder(S, view), <<j, k>> \in ByOrder(S, view)
          PROVE  <<i, k>> \in ByOrder(S, view)
      <3>1. Before(view, i, j) /\ Before(view, j, k)
        BY <2>0, <2>2
      <3>2. Visited(i, j) /\ Visited(j, k) => Visited(i, k)
        BY VisitedOrders
      <3>3. Before(view, i, k)
        BY <3>1, <3>2 DEF Before
      <3>4. QED
        BY <2>0, <3>3
    <2>3. ASSUME NEW i \in S, NEW j \in S
          PROVE  i = j \/ <<i, j>> \in ByOrder(S, view) \/ <<j, i>> \in ByOrder(S, view)
      <3>1. i = j \/ Visited(i, j) \/ Visited(j, i)
        BY VisitedOrders
      <3>2. i = j \/ Before(view, i, j) \/ Before(view, j, i)
        BY <3>1 DEF Before
      <3>3. QED
        BY <2>0, <3>2
    <2>4. QED
      BY <2>1, <2>2, <2>3 DEF Orders
  <1> DEFINE R == ByOrder(S, view)
             N == 1 .. Cardinality(S)
             sorts(s) == \A n, m \in DOMAIN s : n < m => Before(view, s[n], s[m])
  <1>3. ASSUME NEW s \in [N -> S], sorts(s) PROVE InOrder(s, S, R)
    <2>1. \A n, m \in N : n < m => <<s[n], s[m]>> \in R
      BY <1>3 DEF ByOrder
    <2>2. ASSUME NEW n \in N, NEW m \in N, s[n] = s[m] PROVE n = m
      <3>1. ~(n < m) /\ ~(m < n)
        BY <1>2, <2>1, <2>2 DEF Orders
      <3>2. QED
        BY <1>1, <3>1
    <2>3. s \in Injection(N, S)
      BY <2>2 DEF Injection, IsInjective
    <2>4. IsFiniteSet(N) /\ Cardinality(N) = Cardinality(S)
      <3>1. PICK c \in Nat : c = Cardinality(S)
        BY <1>1
      <3>2. IsFiniteSet(1 .. c) /\ Cardinality(1 .. c) = IF 1 > c THEN 0 ELSE c - 1 + 1
        BY FS_Interval
      <3>3. QED
        BY <3>1, <3>2
    <2>5. s \in Surjection(N, S)
      BY <1>1, <2>3, <2>4, FS_Injection
    <2>6. \A i \in S : \E n \in N : s[n] = i
      BY <2>5 DEF Surjection
    <2>7. QED
      BY <2>1, <2>6 DEF InOrder
  <1>4. InOrder(Ordered(S, R), S, R) /\ \A s : InOrder(s, S, R) => s = Ordered(S, R)
    BY <1>1, <1>2, OrderedIs
  <1>5. Ordered(S, R) \in [N -> S] /\ sorts(Ordered(S, R))
    BY <1>4 DEF InOrder, ByOrder
  <1>6. Sorted(S, view) = CHOOSE s \in [N -> S] : sorts(s)
    BY DEF Sorted
  <1> HIDE DEF N, R, sorts
  <1>7. Sorted(S, view) \in [N -> S] /\ sorts(Sorted(S, view))
    BY <1>5, <1>6
  <1>8. InOrder(Sorted(S, view), S, R)
    BY <1>3, <1>7
  <1>9. QED
    BY <1>1, <1>4, <1>8 DEF R

\* What an enumeration in order is, of which only the elements are wanted.
LEMMA InOrderIs ==
  ASSUME NEW S, IsFiniteSet(S), NEW R, NEW s, InOrder(s, S, R),
         \A i \in S : <<i, i>> \notin R
  PROVE  /\ s \in Seq(S) /\ Len(s) = Cardinality(S) /\ DOMAIN s = 1 .. Cardinality(S)
         /\ Range(s) = S /\ IsInjective(s)
  <1>1. Cardinality(S) \in Nat
    BY FS_CardinalityType
  <1>2. s \in [1 .. Cardinality(S) -> S]
    BY DEF InOrder
  <1>3. s \in Seq(S)
    BY <1>1, <1>2, SeqDef
  <1>4. DOMAIN s = 1 .. Cardinality(S)
    BY <1>2
  <1>5. Len(s) = Cardinality(S)
    BY <1>1, <1>3, <1>4, LenProperties
  <1>6. Range(s) = S
    BY <1>2 DEF InOrder, Range
  <1>7. ASSUME NEW n \in DOMAIN s, NEW m \in DOMAIN s, s[n] = s[m] PROVE n = m
    <2>1. n \in Nat /\ m \in Nat
      BY <1>1, <1>4
    <2>2. ~(n < m) /\ ~(m < n)
      BY <1>2, <1>4, <1>7 DEF InOrder
    <2>3. QED
      BY <2>1, <2>2
  <1>8. QED
    BY <1>3, <1>4, <1>5, <1>6, <1>7 DEF IsInjective

OneToOne(s, X) == s \in Seq(X) /\ IsInjective(s)

IsGroups(g) ==
  /\ g = [projects |-> g.projects, systems |-> g.systems, hidden |-> g.hidden]
  /\ OneToOne(g.projects, ProjectsOf(Items))
  /\ g.systems = [p \in Range(g.projects) |-> g.systems[p]]
  /\ \A p \in Range(g.projects) : OneToOne(g.systems[p], SystemsOf(Items, p))
  /\ g.hidden \subseteq InGroups(g)

\* A sequence without repetitions has as many places as elements.
LEMMA PlacesOf ==
  ASSUME NEW X, NEW s, OneToOne(s, X)
  PROVE  /\ Range(s) \subseteq X /\ DOMAIN s = 1 .. Len(s) /\ Len(s) \in Nat
         /\ IsFiniteSet(Range(s)) /\ Cardinality(Range(s)) = Len(s)
         /\ s \in [1 .. Len(s) -> Range(s)]
         /\ \A n \in DOMAIN s : s[n] \in Range(s) /\ Place(s, s[n]) = n
         /\ \A x \in Range(s) : Place(s, x) \in DOMAIN s /\ s[Place(s, x)] = x
  <1>1. s \in [1 .. Len(s) -> X] /\ Len(s) \in Nat /\ DOMAIN s = 1 .. Len(s)
    BY LenProperties DEF OneToOne
  <1>2. Range(s) \subseteq X /\ s \in [1 .. Len(s) -> Range(s)]
    BY <1>1 DEF Range
  <1>3. s \in Injection(1 .. Len(s), Range(s))
    BY <1>1, <1>2 DEF OneToOne, Injection, IsInjective
  <1>4. s \in Surjection(1 .. Len(s), Range(s))
    BY <1>1, <1>2 DEF Surjection, Range
  <1>5. ExistsBijection(1 .. Len(s), Range(s))
    BY <1>3, <1>4 DEF ExistsBijection, Bijection
  <1>6. IsFiniteSet(1 .. Len(s)) /\ Cardinality(1 .. Len(s)) = Len(s)
    <2>1. PICK n \in Nat : n = Len(s)
      BY <1>1
    <2>2. IsFiniteSet(1 .. n) /\ Cardinality(1 .. n) = IF 1 > n THEN 0 ELSE n - 1 + 1
      BY FS_Interval
    <2>3. QED
      BY <2>1, <2>2
  <1>7. IsFiniteSet(Range(s)) /\ Cardinality(Range(s)) = Len(s)
    BY <1>5, <1>6, FS_Bijection
  <1>8. \A n \in DOMAIN s : s[n] \in Range(s)
    BY DEF Range
  <1>9. ASSUME NEW x \in Range(s) PROVE Place(s, x) \in DOMAIN s /\ s[Place(s, x)] = x
    <2>1. \E n \in DOMAIN s : s[n] = x
      BY DEF Range
    <2>2. QED
      BY <2>1 DEF Place
  <1>10. ASSUME NEW n \in DOMAIN s PROVE Place(s, s[n]) = n
    <2>1. Place(s, s[n]) \in DOMAIN s /\ s[Place(s, s[n])] = s[n]
      BY <1>8, <1>9
    <2>2. QED
      BY <2>1 DEF OneToOne, IsInjective
  <1>11. QED
    BY <1>1, <1>2, <1>7, <1>8, <1>9, <1>10

\* An enumeration in order is one-to-one, and has the elements.
LEMMA SortedOneToOne ==
  ASSUME NEW S \in SUBSET Items, NEW view, \A i \in S : view[i].order \in Nat,
         NEW X, S \subseteq X
  PROVE  OneToOne(Sorted(S, view), X) /\ Range(Sorted(S, view)) = S
  <1>1. /\ IsFiniteSet(S) /\ Cardinality(S) \in Nat
        /\ InOrder(Sorted(S, view), S, ByOrder(S, view))
    BY SortedIs
  <1>2. \A i \in S : <<i, i>> \notin ByOrder(S, view)
    BY VisitedOrders DEF ByOrder, Before
  <1>3. /\ Sorted(S, view) \in Seq(S) /\ Range(Sorted(S, view)) = S
        /\ IsInjective(Sorted(S, view))
    BY <1>1, <1>2, InOrderIs
  <1>4. Sorted(S, view) \in Seq(X)
    BY <1>3, SeqMonotonic
  <1>5. QED
    BY <1>3, <1>4 DEF OneToOne

LEMMA ProjectsAre ==
  ASSUME NEW D \in SUBSET Items
  PROVE  /\ ProjectsOf(D) \in SUBSET Items /\ ProjectsOf(D) \subseteq ProjectsOf(Items)
         /\ \A p : SystemsOf(D, p) \in SUBSET Items /\ SystemsOf(D, p) \subseteq SystemsOf(Items, p)
         /\ \A p \in ProjectsOf(D) : p = <<p[1], 0>>
         /\ Whole(D) => \A i \in D : i \in ProjectsOf(D) \/ i \in SystemsOf(D, <<i[1], 0>>)
         /\ Whole(D) => \A i \in D : <<i[1], 0>> \in ProjectsOf(D)
  <1>1. ASSUME NEW p \in ProjectsOf(D) PROVE p = <<p[1], 0>>
    <2>1. p \in Items /\ p[2] = 0
      BY DEF ProjectsOf, IsProject
    <2>2. p = <<p[1], p[2]>>
      BY <2>1, ItemPairs
    <2>3. QED
      BY <2>1, <2>2
  <1>2. \A i : <<i[1], 0>>[1] = i[1] /\ <<i[1], 0>>[2] = 0
    OBVIOUS
  <1>3. ASSUME NEW i \in D, Whole(D) PROVE <<i[1], 0>> \in ProjectsOf(D)
    BY <1>2, <1>3 DEF Whole, ProjectsOf, IsProject
  <1>4. ASSUME NEW i \in D PROVE i \in ProjectsOf(D) \/ i \in SystemsOf(D, <<i[1], 0>>)
    BY <1>2 DEF ProjectsOf, SystemsOf
  <1>5. /\ ProjectsOf(D) \in SUBSET Items /\ ProjectsOf(D) \subseteq ProjectsOf(Items)
        /\ \A p : SystemsOf(D, p) \in SUBSET Items /\ SystemsOf(D, p) \subseteq SystemsOf(Items, p)
    BY DEF ProjectsOf, SystemsOf
  <1>6. QED
    BY <1>1, <1>3, <1>4, <1>5

\* The groups of a view: each item once, under its project.
LEMMA GroupsOfView ==
  ASSUME NEW v, IsView(v)
  PROVE  /\ IsGroups(GroupItems(v)) /\ InGroups(GroupItems(v)) = DOMAIN v
         /\ Range(GroupItems(v).projects) = ProjectsOf(DOMAIN v)
         /\ \A p \in ProjectsOf(DOMAIN v) :
              Range(GroupItems(v).systems[p]) = SystemsOf(DOMAIN v, p)
  <1> DEFINE D == DOMAIN v
             g == GroupItems(v)
  <1>1. D \in SUBSET Items /\ Whole(D) /\ \A i \in D : v[i].order \in Nat
    BY DEF IsView, PinRows
  <1>2. /\ g.projects = Sorted(ProjectsOf(D), v)
        /\ g.systems = [p \in ProjectsOf(D) |-> Sorted(SystemsOf(D, p), v)]
        /\ g.hidden = {i \in D : ~v[i].visible}
        /\ g = [projects |-> g.projects, systems |-> g.systems, hidden |-> g.hidden]
    BY DEF GroupItems
  <1> HIDE DEF D, g
  <1>3. /\ ProjectsOf(D) \in SUBSET Items /\ ProjectsOf(D) \subseteq ProjectsOf(Items)
        /\ ProjectsOf(D) \subseteq D /\ \A p : SystemsOf(D, p) \subseteq D
        /\ \A p : SystemsOf(D, p) \in SUBSET Items /\ SystemsOf(D, p) \subseteq SystemsOf(Items, p)
    BY <1>1, ProjectsAre DEF ProjectsOf, SystemsOf
  <1>4. OneToOne(g.projects, ProjectsOf(Items)) /\ Range(g.projects) = ProjectsOf(D)
    <2>1. \A i \in ProjectsOf(D) : v[i].order \in Nat
      BY <1>1, <1>3
    <2>2. QED
      BY <1>2, <1>3, <2>1, SortedOneToOne
  <1>5. ASSUME NEW p \in ProjectsOf(D)
        PROVE  OneToOne(g.systems[p], SystemsOf(Items, p)) /\ Range(g.systems[p]) = SystemsOf(D, p)
    <2>1. \A i \in SystemsOf(D, p) : v[i].order \in Nat
      BY <1>1, <1>3
    <2>2. g.systems[p] = Sorted(SystemsOf(D, p), v)
      BY <1>2
    <2>3. QED
      BY <1>3, <2>1, <2>2, SortedOneToOne
  <1>6. g.systems = [p \in ProjectsOf(D) |-> g.systems[p]]
    BY <1>2
  <1>7. InGroups(g) = D
    <2>1. InGroups(g) = ProjectsOf(D) \union UNION {Range(g.systems[p]) : p \in ProjectsOf(D)}
      BY <1>4 DEF InGroups
    <2>2. InGroups(g) \subseteq D
      BY <1>3, <1>5, <2>1
    <2>3. ASSUME NEW i \in D PROVE i \in InGroups(g)
      <3>1. i \in ProjectsOf(D) \/ i \in SystemsOf(D, <<i[1], 0>>)
        BY <1>1, ProjectsAre
      <3>2. <<i[1], 0>> \in ProjectsOf(D)
        BY <1>1, ProjectsAre
      <3>3. QED
        BY <1>5, <2>1, <3>1, <3>2
    <2>4. QED
      BY <2>2, <2>3
  <1>8. IsGroups(g)
    BY <1>2, <1>4, <1>5, <1>6, <1>7 DEF IsGroups
  <1>9. QED
    BY <1>4, <1>5, <1>7, <1>8 DEF D, g

LEMMA GroupsAre ==
  ASSUME NEW g, IsGroups(g)
  PROVE  /\ InGroups(g) \in SUBSET Items /\ Whole(InGroups(g))
         /\ IsFiniteSet(InGroups(g)) /\ Cardinality(InGroups(g)) \in Nat
         /\ ProjectsOf(InGroups(g)) = Range(g.projects)
         /\ \A p \in Range(g.projects) :
              p = <<p[1], 0>> /\ SystemsOf(InGroups(g), p) = Range(g.systems[p])
         /\ \A i \in InGroups(g) : <<i[1], 0>> \in Range(g.projects)
  <1>1. Range(g.projects) \subseteq ProjectsOf(Items)
    BY PlacesOf DEF IsGroups
  <1>2. ASSUME NEW p \in Range(g.projects) PROVE Range(g.systems[p]) \subseteq SystemsOf(Items, p)
    BY PlacesOf DEF IsGroups
  <1>3. \A p \in Range(g.projects) : p = <<p[1], 0>> /\ p \in Items /\ IsProject(p)
    <2>1. \A p \in ProjectsOf(Items) : p = <<p[1], 0>>
      BY ProjectsAre
    <2>2. QED
      BY <1>1, <2>1 DEF ProjectsOf
  <1>4. InGroups(g) \in SUBSET Items
    BY <1>1, <1>2 DEF InGroups, ProjectsOf, SystemsOf
  <1>5. IsFiniteSet(InGroups(g)) /\ Cardinality(InGroups(g)) \in Nat
    BY <1>4, ItemsAreFinite
  <1>6. ASSUME NEW i \in InGroups(g)
        PROVE  /\ i \in Range(g.projects)
                  \/ \E p \in Range(g.projects) : i \in Range(g.systems[p]) /\ i[1] = p[1]
                                                  /\ ~IsProject(i)
    BY <1>2 DEF InGroups, SystemsOf
  <1>7. ProjectsOf(InGroups(g)) = Range(g.projects)
    BY <1>3, <1>6 DEF ProjectsOf, InGroups
  <1>8. ASSUME NEW i \in InGroups(g) PROVE <<i[1], 0>> \in Range(g.projects)
    BY <1>3, <1>6
  <1>9. ASSUME NEW p \in Range(g.projects) PROVE SystemsOf(InGroups(g), p) = Range(g.systems[p])
    <2>1. Range(g.systems[p]) \subseteq SystemsOf(InGroups(g), p)
      BY <1>2 DEF SystemsOf, InGroups
    <2>2. ASSUME NEW i \in SystemsOf(InGroups(g), p) PROVE i \in Range(g.systems[p])
      <3>1. i \in InGroups(g) /\ i[1] = p[1] /\ ~IsProject(i)
        BY DEF SystemsOf
      <3>2. PICK q \in Range(g.projects) : i \in Range(g.systems[q]) /\ i[1] = q[1]
        BY <1>3, <1>6, <3>1
      <3>3. q = p
        BY <1>3, <3>1, <3>2
      <3>4. QED
        BY <3>2, <3>3
    <2>3. QED
      BY <2>1, <2>2
  <1>10. Whole(InGroups(g))
    BY <1>8 DEF Whole, InGroups
  <1>11. QED
    BY <1>3, <1>4, <1>5, <1>7, <1>8, <1>9, <1>10

-----------------------------------------------------------------------------
(* flattenGroups, and groupItems after it.                                 *)

OfP(g, x) == Place(g.projects, <<x[1], 0>>)
AtP(g, x) == IF IsProject(x) THEN 0 ELSE Place(g.systems[<<x[1], 0>>], x)

LEMMA FlatPlaces ==
  ASSUME NEW g, IsGroups(g), NEW x \in InGroups(g)
  PROVE  /\ OfP(g, x) \in Nat /\ AtP(g, x) \in Nat
         /\ OfP(g, x) \in DOMAIN g.projects /\ g.projects[OfP(g, x)] = <<x[1], 0>>
         /\ IsProject(x) => AtP(g, x) = 0 /\ x = <<x[1], 0>>
         /\ ~IsProject(x) => AtP(g, x) # 0 /\ g.systems[<<x[1], 0>>][AtP(g, x)] = x
  <1> DEFINE p == <<x[1], 0>>
  <1>1. p \in Range(g.projects) /\ x \in Items
    BY GroupsAre
  <1>2. OneToOne(g.projects, ProjectsOf(Items)) /\ OneToOne(g.systems[p], SystemsOf(Items, p))
    BY <1>1 DEF IsGroups
  <1>3. OfP(g, x) \in DOMAIN g.projects /\ g.projects[OfP(g, x)] = p
    BY <1>1, <1>2, PlacesOf DEF OfP
  <1>4. OfP(g, x) \in Nat
    <2>1. DOMAIN g.projects = 1 .. Len(g.projects) /\ Len(g.projects) \in Nat
      BY <1>2, PlacesOf
    <2>2. QED
      BY <1>3, <2>1
  <1>5. CASE IsProject(x)
    <2>1. x = <<x[1], x[2]>> /\ x[2] = 0
      BY <1>1, <1>5, ItemPairs DEF IsProject
    <2>2. AtP(g, x) = 0
      BY <1>5 DEF AtP
    <2>3. QED
      BY <1>3, <1>4, <1>5, <2>1, <2>2
  <1>6. CASE ~IsProject(x)
    <2>1. x \in SystemsOf(InGroups(g), p)
      BY <1>6 DEF SystemsOf
    <2>2. x \in Range(g.systems[p])
      BY <1>1, <2>1, GroupsAre
    <2>3. /\ Place(g.systems[p], x) \in DOMAIN g.systems[p]
          /\ g.systems[p][Place(g.systems[p], x)] = x
          /\ DOMAIN g.systems[p] = 1 .. Len(g.systems[p]) /\ Len(g.systems[p]) \in Nat
      BY <1>2, <2>2, PlacesOf
    <2>4. AtP(g, x) = Place(g.systems[p], x)
      BY <1>6 DEF AtP
    <2>5. AtP(g, x) \in Nat /\ AtP(g, x) # 0
      BY <2>3, <2>4
    <2>6. QED
      BY <1>3, <1>4, <1>6, <2>3, <2>4, <2>5
  <1>7. QED
    BY <1>5, <1>6

FlatPairs(g) == {x \in InGroups(g) \X InGroups(g) : FlatBefore(g, x[1], x[2])}

LEMMA FlatOrders ==
  ASSUME NEW g, IsGroups(g)
  PROVE  Orders(FlatPairs(g), InGroups(g))
  <1> DEFINE S == InGroups(g)
  <1>1. \A i, j \in S : <<i, j>> \in FlatPairs(g) <=>
          OfP(g, i) < OfP(g, j) \/ (OfP(g, i) = OfP(g, j) /\ AtP(g, i) < AtP(g, j))
    BY DEF FlatPairs, FlatBefore, OfP, AtP
  <1>2. \A i \in S : OfP(g, i) \in Nat /\ AtP(g, i) \in Nat
    BY FlatPlaces
  <1>3. ASSUME NEW i \in S, NEW j \in S, OfP(g, i) = OfP(g, j), AtP(g, i) = AtP(g, j)
        PROVE  i = j
    <2>1. <<i[1], 0>> = <<j[1], 0>>
      <3>1. g.projects[OfP(g, i)] = <<i[1], 0>> /\ g.projects[OfP(g, j)] = <<j[1], 0>>
        BY FlatPlaces
      <3>2. QED
        BY <1>3, <3>1
    <2>2. /\ IsProject(i) => AtP(g, i) = 0 /\ i = <<i[1], 0>>
          /\ ~IsProject(i) => AtP(g, i) # 0 /\ g.systems[<<i[1], 0>>][AtP(g, i)] = i
      BY FlatPlaces
    <2>3. /\ IsProject(j) => AtP(g, j) = 0 /\ j = <<j[1], 0>>
          /\ ~IsProject(j) => AtP(g, j) # 0 /\ g.systems[<<j[1], 0>>][AtP(g, j)] = j
      BY FlatPlaces
    <2>4. QED
      BY <1>3, <2>1, <2>2, <2>3
  <1> HIDE DEF S
  <1>4. \A i \in S : <<i, i>> \notin FlatPairs(g)
    BY <1>1, <1>2
  <1>5. ASSUME NEW i \in S, NEW j \in S, NEW k \in S,
               <<i, j>> \in FlatPairs(g), <<j, k>> \in FlatPairs(g)
        PROVE  <<i, k>> \in FlatPairs(g)
    BY <1>1, <1>2, <1>5
  <1>6. ASSUME NEW i \in S, NEW j \in S
        PROVE  i = j \/ <<i, j>> \in FlatPairs(g) \/ <<j, i>> \in FlatPairs(g)
    <2>1. OfP(g, i) \in Nat /\ AtP(g, i) \in Nat /\ OfP(g, j) \in Nat /\ AtP(g, j) \in Nat
      BY <1>2
    <2>2. CASE OfP(g, i) = OfP(g, j) /\ AtP(g, i) = AtP(g, j)
      BY <1>3, <2>2
    <2>3. CASE ~(OfP(g, i) = OfP(g, j) /\ AtP(g, i) = AtP(g, j))
      BY <1>1, <2>1, <2>3
    <2>4. QED
      BY <2>2, <2>3
  <1>7. QED
    BY <1>4, <1>5, <1>6 DEF Orders, S

\* What is sent to the API: every item of the form, numbered in its order.
LEMMA FlattenIs ==
  ASSUME NEW g, IsGroups(g)
  PROVE  /\ IsView(FlattenGroups(g)) /\ DOMAIN FlattenGroups(g) = InGroups(g)
         /\ \A i \in InGroups(g) : FlattenGroups(g)[i].visible = (i \notin g.hidden)
         /\ \A i, j \in InGroups(g) : FlatBefore(g, i, j) =>
              FlattenGroups(g)[i].order < FlattenGroups(g)[j].order
  <1> DEFINE S == InGroups(g)
             R == FlatPairs(g)
             v == FlattenGroups(g)
  <1>1. S \in SUBSET Items /\ Whole(S) /\ IsFiniteSet(S) /\ Cardinality(S) \in Nat
    BY GroupsAre
  <1>2. Orders(R, S)
    BY FlatOrders
  <1>3. /\ \A i \in S : Cardinality(Under(R, S, i)) \in 0 .. (Cardinality(S) - 1)
        /\ \A i, j \in S : <<i, j>> \in R => Cardinality(Under(R, S, i)) < Cardinality(Under(R, S, j))
    BY <1>1, <1>2, PlacesAreTaken
  <1>4. DOMAIN v = S /\ v = [i \in S |-> v[i]] /\
        \A i \in S : v[i] = [visible |-> i \notin g.hidden,
                             order |-> Cardinality({j \in S : FlatBefore(g, j, i)})]
    BY DEF FlattenGroups
  <1>5. \A i \in S : {j \in S : FlatBefore(g, j, i)} = Under(R, S, i)
    BY DEF Under, FlatPairs
  <1>6. \A i, j \in S : FlatBefore(g, i, j) => <<i, j>> \in R
    BY DEF FlatPairs
  <1> HIDE DEF S, R, v
  <1>7. \A i \in S : v[i] = [visible |-> i \notin g.hidden, order |-> Cardinality(Under(R, S, i))]
    BY <1>4, <1>5
  <1>8. \A i \in S : v[i].visible = (i \notin g.hidden) /\ v[i].order = Cardinality(Under(R, S, i))
    <2>1. ASSUME NEW i \in S
          PROVE  v[i].visible = (i \notin g.hidden) /\ v[i].order = Cardinality(Under(R, S, i))
      <3>1. PICK b \in BOOLEAN : b = (i \notin g.hidden)
        OBVIOUS
      <3>0. PICK n : n = Cardinality(Under(R, S, i))
        OBVIOUS
      <3>2. v[i] = [visible |-> b, order |-> n]
        BY <1>7, <3>1, <3>0
      <3>3. v[i].visible = b /\ v[i].order = n
        BY <3>2
      <3>4. QED
        BY <3>0, <3>1, <3>3
    <2>2. QED
      BY <2>1
  <1>9. ASSUME NEW i \in S PROVE v[i] \in PinRows
    <2>1. Cardinality(Under(R, S, i)) \in Nat
      BY <1>1, <1>3
    <2>2. (i \notin g.hidden) \in BOOLEAN
      OBVIOUS
    <2>3. v[i] = [visible |-> i \notin g.hidden, order |-> Cardinality(Under(R, S, i))]
      BY <1>7
    <2>4. QED
      BY <2>1, <2>2, <2>3 DEF PinRows
  <1>10. IsView(v)
    <2>1. v \in [S -> PinRows]
      BY <1>4, <1>9
    <2>2. QED
      BY <1>1, <1>4, <2>1 DEF IsView
  <1>11. QED
    BY <1>3, <1>4, <1>6, <1>8, <1>10 DEF S, v

LEMMA InItsOrder ==
  ASSUME NEW X, NEW s, OneToOne(s, X), NEW R,
         \A n, m \in DOMAIN s : n < m => <<s[n], s[m]>> \in R
  PROVE  InOrder(s, Range(s), R)
  <1>1. /\ DOMAIN s = 1 .. Len(s) /\ Len(s) \in Nat /\ Cardinality(Range(s)) = Len(s)
        /\ s \in [1 .. Len(s) -> Range(s)]
    BY PlacesOf
  <1>2. \A i \in Range(s) : \E n \in DOMAIN s : s[n] = i
    BY DEF Range
  <1>3. QED
    BY <1>1, <1>2 DEF InOrder

\* What was sent, grouped again, is the form it was sent from.
LEMMA RoundTrip ==
  ASSUME NEW g, IsGroups(g)
  PROVE  GroupItems(FlattenGroups(g)) = g
  <1> DEFINE v == FlattenGroups(g)
             D == DOMAIN v
             P == Range(g.projects)
  <1>1. /\ IsView(v) /\ D = InGroups(g)
        /\ \A i \in D : v[i].visible = (i \notin g.hidden)
        /\ \A i, j \in D : FlatBefore(g, i, j) => v[i].order < v[j].order
    BY FlattenIs
  <1>2. /\ D \in SUBSET Items /\ ProjectsOf(D) = P /\ P \subseteq D
        /\ \A p \in P : p = <<p[1], 0>> /\ SystemsOf(D, p) = Range(g.systems[p])
        /\ \A i \in D : v[i].order \in Nat
    <2>1. /\ D \in SUBSET Items /\ ProjectsOf(D) = P
          /\ \A p \in P : p = <<p[1], 0>> /\ SystemsOf(D, p) = Range(g.systems[p])
      BY <1>1, GroupsAre
    <2>2. ProjectsOf(D) \subseteq D
      BY DEF ProjectsOf
    <2>3. QED
      BY <1>1, <2>1, <2>2 DEF IsView, PinRows
  <1>3. /\ OneToOne(g.projects, ProjectsOf(Items))
        /\ \A p \in P : OneToOne(g.systems[p], SystemsOf(Items, p))
        /\ g = [projects |-> g.projects, systems |-> g.systems, hidden |-> g.hidden]
        /\ g.systems = [p \in P |-> g.systems[p]]
        /\ g.hidden \subseteq D
    BY <1>1 DEF IsGroups
  <1> HIDE DEF v
  <1>4. g.projects = Sorted(ProjectsOf(D), v)
    <2> DEFINE s == g.projects
    <2>1. ASSUME NEW n \in DOMAIN s, NEW m \in DOMAIN s, n < m
          PROVE  <<s[n], s[m]>> \in ByOrder(P, v)
      <3>1. s[n] \in P /\ s[m] \in P /\ Place(s, s[n]) = n /\ Place(s, s[m]) = m
        BY <1>3, PlacesOf
      <3>2. s[n] = <<s[n][1], 0>> /\ s[m] = <<s[m][1], 0>>
        BY <1>2, <3>1
      <3>3. FlatBefore(g, s[n], s[m])
        BY <2>1, <3>1, <3>2 DEF FlatBefore
      <3>4. v[s[n]].order < v[s[m]].order
        BY <1>1, <1>2, <3>1, <3>3
      <3>5. QED
        BY <3>1, <3>4 DEF ByOrder, Before
    <2>2. InOrder(s, P, ByOrder(P, v))
      BY <1>3, <2>1, InItsOrder
    <2>3. P \in SUBSET Items /\ \A i \in P : v[i].order \in Nat
      BY <1>2
    <2>4. s = Sorted(P, v)
      BY <2>2, <2>3, SortedIs
    <2>5. QED
      BY <1>2, <2>4
  <1>5. ASSUME NEW p \in P PROVE g.systems[p] = Sorted(SystemsOf(D, p), v)
    <2> DEFINE s == g.systems[p]
               T == Range(s)
    <2>0. T = SystemsOf(D, p) /\ T \subseteq D /\ p = <<p[1], 0>> /\ OneToOne(s, SystemsOf(Items, p))
      BY <1>2, <1>3 DEF SystemsOf
    <2>1. ASSUME NEW n \in DOMAIN s, NEW m \in DOMAIN s, n < m
          PROVE  <<s[n], s[m]>> \in ByOrder(T, v)
      <3>1. s[n] \in T /\ s[m] \in T /\ Place(s, s[n]) = n /\ Place(s, s[m]) = m
        BY <2>0, PlacesOf
      <3>2. s[n][1] = p[1] /\ s[m][1] = p[1] /\ ~IsProject(s[n]) /\ ~IsProject(s[m])
        BY <2>0, <3>1 DEF SystemsOf
      <3>3. <<s[n][1], 0>> = p /\ <<s[m][1], 0>> = p
        BY <2>0, <3>2
      <3>4. FlatBefore(g, s[n], s[m])
        BY <2>1, <3>1, <3>2, <3>3 DEF FlatBefore
      <3>5. v[s[n]].order < v[s[m]].order
        BY <1>1, <2>0, <3>1, <3>4
      <3>6. QED
        BY <3>1, <3>5 DEF ByOrder, Before
    <2>2. InOrder(s, T, ByOrder(T, v))
      BY <2>0, <2>1, InItsOrder
    <2>3. T \in SUBSET Items /\ \A i \in T : v[i].order \in Nat
      BY <1>2, <2>0
    <2>4. s = Sorted(T, v)
      BY <2>2, <2>3, SortedIs
    <2>5. QED
      BY <2>0, <2>4
  <1>6. g.hidden = {i \in D : ~v[i].visible}
    BY <1>1, <1>3
  <1>7. GroupItems(v) = [projects |-> Sorted(ProjectsOf(D), v),
                         systems |-> [p \in ProjectsOf(D) |-> Sorted(SystemsOf(D, p), v)],
                         hidden |-> {i \in D : ~v[i].visible}]
    BY DEF GroupItems
  <1>8. g.systems = [p \in ProjectsOf(D) |-> Sorted(SystemsOf(D, p), v)]
    BY <1>2, <1>3, <1>5
  <1>9. QED
    BY <1>3, <1>4, <1>6, <1>7, <1>8 DEF v

-----------------------------------------------------------------------------
(* arrayMove: the same elements, each once, in another order.              *)

LEMMA Removed ==
  ASSUME NEW X, NEW s \in Seq(X), NEW from \in 1 .. Len(s)
  PROVE  /\ RemoveAt(s, from) \in Seq(X) /\ Len(RemoveAt(s, from)) = Len(s) - 1
         /\ \A k \in 1 .. (Len(s) - 1) :
              RemoveAt(s, from)[k] = IF k < from THEN s[k] ELSE s[k + 1]
  <1> DEFINE a == SubSeq(s, 1, from - 1)
             b == SubSeq(s, from + 1, Len(s))
  <1>1. Len(s) \in Nat /\ from \in Nat /\ from >= 1 /\ from <= Len(s)
    BY LenProperties
  <1>2. /\ a \in Seq(X) /\ Len(a) = from - 1
        /\ \A k \in 1 .. (from - 1) : a[k] = s[k]
    <2>1. /\ a \in Seq(X)
          /\ Len(a) = IF 1 <= from - 1 THEN (from - 1) - 1 + 1 ELSE 0
          /\ \A k \in 1 .. ((from - 1) - 1 + 1) : a[k] = s[1 + k - 1]
      BY <1>1, SubSeqProperties
    <2>2. QED
      BY <1>1, <2>1
  <1>3. /\ b \in Seq(X) /\ Len(b) = Len(s) - from
        /\ \A k \in 1 .. (Len(s) - from) : b[k] = s[from + k]
    <2>1. /\ b \in Seq(X)
          /\ Len(b) = IF from + 1 <= Len(s) THEN Len(s) - (from + 1) + 1 ELSE 0
          /\ \A k \in 1 .. (Len(s) - (from + 1) + 1) : b[k] = s[(from + 1) + k - 1]
      BY <1>1, SubSeqProperties
    <2>2. QED
      BY <1>1, <2>1
  <1> HIDE DEF a, b
  <1>4. /\ a \o b \in Seq(X) /\ Len(a \o b) = Len(a) + Len(b)
        /\ \A k \in 1 .. (Len(a) + Len(b)) :
             (a \o b)[k] = IF k <= Len(a) THEN a[k] ELSE b[k - Len(a)]
    BY <1>2, <1>3, ConcatProperties
  <1>5. RemoveAt(s, from) = a \o b
    BY DEF RemoveAt, a, b
  <1>6. ASSUME NEW k \in 1 .. (Len(s) - 1)
        PROVE  (a \o b)[k] = IF k < from THEN s[k] ELSE s[k + 1]
    <2>1. k \in 1 .. (Len(a) + Len(b))
      BY <1>1, <1>2, <1>3
    <2>2. CASE k < from
      <3>1. k \in 1 .. (from - 1) /\ k <= Len(a)
        BY <1>1, <1>2, <2>2
      <3>2. QED
        BY <1>2, <1>4, <2>1, <2>2, <3>1
    <2>3. CASE ~(k < from)
      <3>1. PICK d : d = k - Len(a)
        OBVIOUS
      <3>2. d \in 1 .. (Len(s) - from) /\ from + d = k + 1 /\ ~(k <= Len(a))
        BY <1>1, <1>2, <2>3, <3>1
      <3>3. (a \o b)[k] = b[d]
        BY <1>4, <2>1, <3>1, <3>2
      <3>4. QED
        BY <1>3, <2>3, <3>2, <3>3
    <2>4. QED
      BY <2>2, <2>3
  <1>7. Len(a \o b) = Len(s) - 1
    BY <1>1, <1>2, <1>3, <1>4
  <1>8. QED
    BY <1>4, <1>5, <1>6, <1>7

LEMMA PutBetween ==
  ASSUME NEW X, NEW s \in Seq(X), NEW to \in 1 .. (Len(s) + 1), NEW e \in X,
         NEW t, t = InsertAt(s, to, e)
  PROVE  /\ t \in Seq(X) /\ Len(t) = Len(s) + 1
         /\ \A k \in 1 .. (Len(s) + 1) :
              (k < to => t[k] = s[k]) /\ (k = to => t[k] = e) /\ (k > to => t[k] = s[k - 1])
  <1> DEFINE a == SubSeq(s, 1, to - 1)
             b == SubSeq(s, to, Len(s))
             c == <<e>>
  <1>1. Len(s) \in Nat /\ to \in Nat /\ to >= 1 /\ to <= Len(s) + 1
    BY LenProperties
  <1>2. /\ a \in Seq(X) /\ Len(a) = to - 1
        /\ \A k \in 1 .. (to - 1) : a[k] = s[k]
    <2>1. /\ a \in Seq(X)
          /\ Len(a) = IF 1 <= to - 1 THEN (to - 1) - 1 + 1 ELSE 0
          /\ \A k \in 1 .. ((to - 1) - 1 + 1) : a[k] = s[1 + k - 1]
      BY <1>1, SubSeqProperties
    <2>2. QED
      BY <1>1, <2>1
  <1>3. /\ b \in Seq(X) /\ Len(b) = Len(s) - to + 1
        /\ \A k \in 1 .. (Len(s) - to + 1) : b[k] = s[to + k - 1]
    <2>1. /\ b \in Seq(X)
          /\ Len(b) = IF to <= Len(s) THEN Len(s) - to + 1 ELSE 0
          /\ \A k \in 1 .. (Len(s) - to + 1) : b[k] = s[to + k - 1]
      BY <1>1, SubSeqProperties
    <2>2. QED
      BY <1>1, <2>1
  <1>4. c \in Seq(X) /\ Len(c) = 1 /\ c[1] = e
    OBVIOUS
  <1> HIDE DEF a, b, c
  <1> DEFINE d == a \o c
  <1>5. /\ d \in Seq(X) /\ Len(d) = to
        /\ \A k \in 1 .. to : d[k] = IF k < to THEN s[k] ELSE e
    <2>1. /\ d \in Seq(X) /\ Len(d) = Len(a) + Len(c)
          /\ \A k \in 1 .. (Len(a) + Len(c)) : d[k] = IF k <= Len(a) THEN a[k] ELSE c[k - Len(a)]
      BY <1>2, <1>4, ConcatProperties
    <2>2. Len(d) = to
      BY <1>1, <1>2, <1>4, <2>1
    <2>3. ASSUME NEW k \in 1 .. to PROVE d[k] = IF k < to THEN s[k] ELSE e
      <3>1. k \in 1 .. (Len(a) + Len(c))
        BY <1>1, <1>2, <1>4
      <3>2. CASE k < to
        <4>1. k <= Len(a) /\ k \in 1 .. (to - 1)
          BY <1>1, <1>2, <3>2
        <4>2. QED
          BY <1>2, <2>1, <3>1, <3>2, <4>1
      <3>3. CASE ~(k < to)
        <4>1. ~(k <= Len(a)) /\ k - Len(a) = 1
          BY <1>1, <1>2, <3>3
        <4>2. d[k] = c[k - Len(a)]
          BY <2>1, <3>1, <4>1
        <4>3. QED
          BY <1>4, <3>3, <4>1, <4>2
      <3>4. QED
        BY <3>2, <3>3
    <2>4. QED
      BY <2>1, <2>2, <2>3
  <1>6. InsertAt(s, to, e) = d \o b
    BY DEF InsertAt, a, b, c
  <1> HIDE DEF d
  <1>7. /\ d \o b \in Seq(X) /\ Len(d \o b) = Len(d) + Len(b)
        /\ \A k \in 1 .. (Len(d) + Len(b)) :
             (d \o b)[k] = IF k <= Len(d) THEN d[k] ELSE b[k - Len(d)]
    BY <1>3, <1>5, ConcatProperties
  <1>8. ASSUME NEW k \in 1 .. (Len(s) + 1)
        PROVE  (d \o b)[k] = IF k < to THEN s[k] ELSE IF k = to THEN e ELSE s[k - 1]
    <2>1. k \in 1 .. (Len(d) + Len(b))
      BY <1>1, <1>3, <1>5
    <2>2. CASE k <= to
      <3>1. k \in 1 .. to /\ k <= Len(d)
        BY <1>1, <1>5, <2>2
      <3>2. (d \o b)[k] = d[k]
        BY <1>7, <2>1, <3>1
      <3>3. d[k] = IF k < to THEN s[k] ELSE e
        BY <1>5, <3>1
      <3>4. ~(k < to) => k = to
        BY <1>1, <2>2
      <3>5. QED
        BY <3>2, <3>3, <3>4
    <2>3. CASE ~(k <= to)
      <3>1. PICK n : n = k - Len(d)
        OBVIOUS
      <3>2. n \in 1 .. (Len(s) - to + 1) /\ to + n - 1 = k - 1 /\ ~(k <= Len(d)) /\ ~(k < to) /\ k # to
        BY <1>1, <1>5, <2>3, <3>1
      <3>3. (d \o b)[k] = b[n]
        BY <1>7, <2>1, <3>1, <3>2
      <3>4. b[n] = s[to + n - 1]
        BY <1>3, <3>2
      <3>5. QED
        BY <3>2, <3>3, <3>4
    <2>4. QED
      BY <2>2, <2>3
  <1>9. Len(d \o b) = Len(s) + 1
    BY <1>1, <1>3, <1>5, <1>7
  <1>10. t = d \o b
    BY <1>6
  <1>11. ASSUME NEW k \in 1 .. (Len(s) + 1)
         PROVE  (k < to => t[k] = s[k]) /\ (k = to => t[k] = e) /\ (k > to => t[k] = s[k - 1])
    <2>1. t[k] = IF k < to THEN s[k] ELSE IF k = to THEN e ELSE s[k - 1]
      BY <1>8, <1>10
    <2>2. k \in Int /\ to \in Int
      BY <1>1
    <2>3. (k > to => ~(k < to) /\ k # to) /\ (k = to => ~(k < to))
      BY <2>2
    <2>4. QED
      BY <2>1, <2>3
  <1>12. QED
    BY <1>7, <1>9, <1>10, <1>11

LEMMA MovedOneToOne ==
  ASSUME NEW X, NEW s, OneToOne(s, X), NEW from \in DOMAIN s, NEW to \in DOMAIN s
  PROVE  OneToOne(ArrayMove(s, from, to), X) /\ Range(ArrayMove(s, from, to)) = Range(s)
  <1> DEFINE r == RemoveAt(s, from)
             t == InsertAt(r, to, s[from])
             l(k) == IF k < to THEN k ELSE k - 1
             m(k) == IF k = to THEN from ELSE IF l(k) < from THEN l(k) ELSE l(k) + 1
  <1>1. /\ s \in Seq(X) /\ Len(s) \in Nat /\ DOMAIN s = 1 .. Len(s) /\ Range(s) \subseteq X
        /\ IsFiniteSet(Range(s)) /\ Cardinality(Range(s)) = Len(s)
        /\ \A n \in 1 .. Len(s) : s[n] \in Range(s)
        /\ \A i, j \in 1 .. Len(s) : s[i] = s[j] => i = j
    BY PlacesOf DEF OneToOne, IsInjective
  <1>2. from \in 1 .. Len(s) /\ to \in 1 .. Len(s) /\ s[from] \in X
    BY <1>1
  <1>3. /\ r \in Seq(X) /\ Len(r) = Len(s) - 1
        /\ \A k \in 1 .. (Len(s) - 1) : r[k] = IF k < from THEN s[k] ELSE s[k + 1]
    BY <1>1, <1>2, Removed
  <1> HIDE DEF r
  <1>4. /\ t \in Seq(X) /\ Len(t) = Len(s)
        /\ \A k \in 1 .. Len(s) :
             t[k] = IF k < to THEN r[k] ELSE IF k = to THEN s[from] ELSE r[k - 1]
    <2>1. to \in 1 .. (Len(r) + 1) /\ Len(r) + 1 = Len(s)
      BY <1>1, <1>2, <1>3
    <2>2. PICK e \in X : e = s[from]
      BY <1>2
    <2>3. t = InsertAt(r, to, e)
      BY <2>2
    <2> HIDE DEF t
    <2>4. t \in Seq(X) /\ Len(t) = Len(r) + 1
      BY <1>3, <2>1, <2>3, PutBetween
    <2>5. \A k \in 1 .. (Len(r) + 1) :
            (k < to => t[k] = r[k]) /\ (k = to => t[k] = e) /\ (k > to => t[k] = r[k - 1])
      <3>1. r \in Seq(X) /\ to \in 1 .. (Len(r) + 1)
        BY <1>3, <2>1
      <3>2. QED
        BY <2>3, <3>1, PutBetween, SMTT(90)
    <2>6. ASSUME NEW k \in 1 .. Len(s)
          PROVE  t[k] = IF k < to THEN r[k] ELSE IF k = to THEN s[from] ELSE r[k - 1]
      <3>1. /\ k < to \/ k = to \/ k > to
            /\ k = to => ~(k < to)
            /\ k > to => ~(k < to) /\ k # to
        BY <1>1, <1>2
      <3>2. k \in 1 .. (Len(r) + 1)
        BY <2>1
      <3>3. /\ k < to => t[k] = r[k]
            /\ k = to => t[k] = s[from]
            /\ k > to => t[k] = r[k - 1]
        BY <2>2, <2>5, <3>2
      <3>4. QED
        BY <3>1, <3>3
    <2>7. QED
      BY <2>1, <2>4, <2>6
  <1> HIDE DEF t
  <1>5. ASSUME NEW k \in 1 .. Len(s) PROVE t[k] = s[m(k)] /\ m(k) \in 1 .. Len(s)
    <2>1. CASE k = to
      <3>1. ~(k < to)
        BY <1>1, <1>2, <2>1
      <3>2. QED
        BY <1>2, <1>4, <2>1, <3>1
    <2>2. CASE k # to
      <3>1. l(k) \in 1 .. (Len(s) - 1) /\ l(k) + 1 \in 1 .. Len(s) /\ l(k) \in 1 .. Len(s)
        BY <1>1, <1>2, <2>2
      <3>2. t[k] = r[l(k)]
        BY <1>4, <2>2
      <3>3. r[l(k)] = IF l(k) < from THEN s[l(k)] ELSE s[l(k) + 1]
        BY <1>3, <3>1
      <3>4. QED
        BY <2>2, <3>1, <3>2, <3>3
    <2>3. QED
      BY <2>1, <2>2
  <1>6. \A j, k \in 1 .. Len(s) : m(j) = m(k) => j = k
    BY <1>1, <1>2
  <1> HIDE DEF m
  <1>7. \A j, k \in 1 .. Len(s) : t[j] = t[k] => j = k
    BY <1>1, <1>5, <1>6
  <1>8. DOMAIN t = 1 .. Len(s)
    BY <1>4, LenProperties
  <1>9. OneToOne(t, X)
    BY <1>4, <1>7, <1>8 DEF OneToOne, IsInjective
  <1>10. Range(t) \subseteq Range(s)
    BY <1>1, <1>5, <1>8 DEF Range
  <1>11. Cardinality(Range(t)) = Len(s)
    BY <1>4, <1>9, PlacesOf
  <1>12. Range(t) = Range(s)
    BY <1>1, <1>10, <1>11, FS_Subset
  <1>13. ArrayMove(s, from, to) = t
    BY DEF ArrayMove, r, t
  <1>14. QED
    BY <1>9, <1>12, <1>13

-----------------------------------------------------------------------------
(* What the user does to the form keeps each item once, in its place.      *)

LEMMA Regrouped ==
  ASSUME NEW g, IsGroups(g), NEW ps, NEW ss, NEW hs,
         OneToOne(ps, ProjectsOf(Items)), Range(ps) = Range(g.projects),
         ss = [p \in Range(g.projects) |-> ss[p]],
         \A p \in Range(g.projects) :
           OneToOne(ss[p], SystemsOf(Items, p)) /\ Range(ss[p]) = Range(g.systems[p]),
         hs \subseteq InGroups(g)
  PROVE  /\ IsGroups([projects |-> ps, systems |-> ss, hidden |-> hs])
         /\ InGroups([projects |-> ps, systems |-> ss, hidden |-> hs]) = InGroups(g)
  <1> DEFINE h == [projects |-> ps, systems |-> ss, hidden |-> hs]
  <1>1. h.projects = ps /\ h.systems = ss /\ h.hidden = hs
        /\ h = [projects |-> h.projects, systems |-> h.systems, hidden |-> h.hidden]
    OBVIOUS
  <1> HIDE DEF h
  <1>2. InGroups(h) = InGroups(g)
    <2>1. InGroups(h) = Range(g.projects) \union UNION {Range(ss[p]) : p \in Range(g.projects)}
      BY <1>1 DEF InGroups
    <2>2. {Range(ss[p]) : p \in Range(g.projects)} = {Range(g.systems[p]) : p \in Range(g.projects)}
      OBVIOUS
    <2>3. QED
      BY <2>1, <2>2 DEF InGroups
  <1>3. IsGroups(h)
    BY <1>1, <1>2 DEF IsGroups
  <1>4. QED
    BY <1>2, <1>3 DEF h

LEMMA ProjectsDragged ==
  ASSUME NEW g, IsGroups(g), NEW from \in DOMAIN g.projects, NEW to \in DOMAIN g.projects
  PROVE  LET h == [g EXCEPT !.projects = ArrayMove(@, from, to)]
         IN  IsGroups(h) /\ InGroups(h) = InGroups(g)
  <1> DEFINE t == ArrayMove(g.projects, from, to)
  <1>1. /\ OneToOne(g.projects, ProjectsOf(Items))
        /\ g.systems = [p \in Range(g.projects) |-> g.systems[p]]
        /\ \A p \in Range(g.projects) : OneToOne(g.systems[p], SystemsOf(Items, p))
        /\ g.hidden \subseteq InGroups(g)
        /\ g = [projects |-> g.projects, systems |-> g.systems, hidden |-> g.hidden]
    BY DEF IsGroups
  <1>2. OneToOne(t, ProjectsOf(Items)) /\ Range(t) = Range(g.projects)
    BY <1>1, MovedOneToOne
  <1>3. [g EXCEPT !.projects = ArrayMove(@, from, to)]
          = [projects |-> t, systems |-> g.systems, hidden |-> g.hidden]
    BY <1>1
  <1> HIDE DEF t
  <1>4. QED
    BY <1>1, <1>2, <1>3, Regrouped

LEMMA SystemsDragged ==
  ASSUME NEW g, IsGroups(g), NEW i \in InGroups(g), NEW j \in InGroups(g),
         ~IsProject(i), ~IsProject(j), i[1] = j[1]
  PROVE  LET h == [g EXCEPT !.systems[<<i[1], 0>>] = ArrayMove(@, Place(@, i), Place(@, j))]
         IN  IsGroups(h) /\ InGroups(h) = InGroups(g)
  <1> DEFINE q == <<i[1], 0>>
             s == g.systems[q]
             t == ArrayMove(s, Place(s, i), Place(s, j))
             ss == [g.systems EXCEPT ![q] = t]
  <1>1. /\ OneToOne(g.projects, ProjectsOf(Items))
        /\ g.systems = [p \in Range(g.projects) |-> g.systems[p]]
        /\ \A p \in Range(g.projects) : OneToOne(g.systems[p], SystemsOf(Items, p))
        /\ g.hidden \subseteq InGroups(g)
        /\ g = [projects |-> g.projects, systems |-> g.systems, hidden |-> g.hidden]
    BY DEF IsGroups
  <1>2. q \in Range(g.projects) /\ Range(s) = SystemsOf(InGroups(g), q)
    BY GroupsAre
  <1>3. i \in Range(s) /\ j \in Range(s)
    BY <1>2 DEF SystemsOf
  <1>4. OneToOne(s, SystemsOf(Items, q)) /\ Place(s, i) \in DOMAIN s /\ Place(s, j) \in DOMAIN s
    BY <1>1, <1>2, <1>3, PlacesOf
  <1>5. OneToOne(t, SystemsOf(Items, q)) /\ Range(t) = Range(s)
    BY <1>4, MovedOneToOne
  <1>6. [g EXCEPT !.systems[q] = ArrayMove(@, Place(@, i), Place(@, j))]
          = [projects |-> g.projects, systems |-> ss, hidden |-> g.hidden]
    BY <1>1
  <1> HIDE DEF t, q
  <1>7. ss = [p \in Range(g.projects) |-> ss[p]]
    BY <1>1
  <1>8. ASSUME NEW p \in Range(g.projects)
        PROVE  OneToOne(ss[p], SystemsOf(Items, p)) /\ Range(ss[p]) = Range(g.systems[p])
    <2>1. ss[p] = IF p = q THEN t ELSE g.systems[p]
      BY <1>1
    <2>2. QED
      BY <1>1, <1>5, <2>1
  <1> HIDE DEF ss
  <1>9. QED
    BY <1>1, <1>6, <1>7, <1>8, Regrouped DEF q

LEMMA Toggled ==
  ASSUME NEW g, IsGroups(g), NEW i \in InGroups(g)
  PROVE  LET h == [g EXCEPT !.hidden = IF i \in @ THEN @ \ {i} ELSE @ \union {i}]
         IN  IsGroups(h) /\ InGroups(h) = InGroups(g)
  <1> DEFINE hs == IF i \in g.hidden THEN g.hidden \ {i} ELSE g.hidden \union {i}
  <1>1. /\ OneToOne(g.projects, ProjectsOf(Items))
        /\ g.systems = [p \in Range(g.projects) |-> g.systems[p]]
        /\ \A p \in Range(g.projects) : OneToOne(g.systems[p], SystemsOf(Items, p))
        /\ g.hidden \subseteq InGroups(g)
        /\ g = [projects |-> g.projects, systems |-> g.systems, hidden |-> g.hidden]
    BY DEF IsGroups
  <1>2. hs \subseteq InGroups(g)
    BY <1>1
  <1>3. [g EXCEPT !.hidden = IF i \in @ THEN @ \ {i} ELSE @ \union {i}]
          = [projects |-> g.projects, systems |-> g.systems, hidden |-> hs]
    BY <1>1
  <1> HIDE DEF hs
  <1>4. QED
    BY <1>1, <1>2, <1>3, Regrouped

-----------------------------------------------------------------------------
(* The shapes of the state, and what the form shows.                       *)

Stored(p) == DOMAIN p \subseteq owned /\ p \in [DOMAIN p -> PinRows]

ReadStages == {"none", "asked", "served"}

SidebarTypes ==
  /\ owned \subseteq Items /\ Whole(owned) /\ unborn \subseteq Later \ owned
  /\ Stored(pins)
  /\ query = [data |-> query.data, failed |-> query.failed]
  /\ IsView(query.data) /\ query.failed \in BOOLEAN
  /\ reading = [at |-> reading.at, view |-> reading.view]
  /\ reading.at \in ReadStages /\ IsView(reading.view)
  /\ saving = [at |-> saving.at, view |-> saving.view, own |-> saving.own]
  /\ saving.at \in ReadStages /\ IsView(saving.view) /\ saving.own \in BOOLEAN
  /\ blurred \in BOOLEAN

FormTypes ==
  /\ form = [open |-> form.open, groups |-> form.groups, dirty |-> form.dirty,
             source |-> form.source, unsaved |-> form.unsaved]
  /\ form.open \in BOOLEAN /\ form.dirty \in BOOLEAN /\ form.unsaved \in BOOLEAN
  /\ IsView(form.source) /\ IsGroups(form.groups)

\* The form is of what the query has, and has all of it; what it does not say
\* is unsaved is stored, on its way, or about to be shown.
FormInv ==
  /\ form.open => form.source = query.data /\ InGroups(form.groups) = DOMAIN form.source
  /\ saving.own => form.open
  /\ form.open /\ ~form.dirty /\ ~form.unsaved /\ ~saving.own =>
       form.groups = GroupItems(form.source)
  /\ saving.own /\ ~form.unsaved =>
       \/ form.groups = GroupItems(form.source)
       \/ saving.at = "asked" /\ saving.view = FlattenGroups(form.groups)
       \/ saving.at = "served" /\ (saving.view = form.source =>
                                     form.groups = GroupItems(form.source))

\* Until something is lost or crosses, one thing is on its way at a time, and
\* what was answered is what is stored.
CurrentInv ==
  ~blurred =>
    /\ ~query.failed
    /\ reading.at = "none" \/ saving.at = "none"
    /\ reading.at = "served" => reading.view = ForUser(owned, pins)
    /\ saving.at = "served" => saving.view = ForUser(owned, pins)
    /\ reading.at = "none" /\ saving.at # "served" => query.data = ForUser(owned, pins)

-----------------------------------------------------------------------------

LEMMA AnswerIsView ==
  ASSUME NEW items, items \in SUBSET Items, Whole(items), NEW saved,
         DOMAIN saved \subseteq items, saved \in [DOMAIN saved -> PinRows]
  PROVE  /\ IsView(ForUser(items, saved)) /\ DOMAIN ForUser(items, saved) = items
         /\ \A i \in DOMAIN saved : ForUser(items, saved)[i] = saved[i]
  <1> DEFINE v == ForUser(items, saved)
             n(i) == Cardinality({j \in items : Visited(j, i)})
  <1>1. v = [i \in items |-> IF i \in DOMAIN saved THEN saved[i]
                             ELSE [visible |-> TRUE, order |-> n(i)]]
    BY DEF ForUser
  <1>2. ASSUME NEW i \in items PROVE n(i) \in Nat
    <2>1. {j \in items : Visited(j, i)} \in SUBSET Items
      OBVIOUS
    <2>2. QED
      BY <2>1, ItemsAreFinite
  <1> HIDE DEF n
  <1>3. ASSUME NEW i \in items
        PROVE  (IF i \in DOMAIN saved THEN saved[i] ELSE [visible |-> TRUE, order |-> n(i)])
                 \in PinRows
    BY <1>2 DEF PinRows
  <1>4. v \in [items -> PinRows] /\ DOMAIN v = items
    BY <1>1, <1>3
  <1>5. IsView(v)
    BY <1>4 DEF IsView
  <1>6. \A i \in DOMAIN saved : v[i] = saved[i]
    BY <1>1
  <1>7. QED
    BY <1>4, <1>5, <1>6

LEMMA NothingIsView == IsView(Unloaded) /\ DOMAIN Unloaded = {}
  BY DEF IsView, Unloaded, Whole

LEMMA OpenedIs ==
  ASSUME NEW v, IsView(v)
  PROVE  /\ IsGroups(GroupItems(v)) /\ InGroups(GroupItems(v)) = DOMAIN v
         /\ Opened(v) = [open |-> TRUE, groups |-> GroupItems(v), dirty |-> FALSE,
                         source |-> v, unsaved |-> FALSE]
  BY GroupsOfView DEF Opened

LEMMA ClosedIs ==
  /\ Closed = [open |-> FALSE, groups |-> GroupItems(Unloaded), dirty |-> FALSE,
               source |-> Unloaded, unsaved |-> FALSE]
  /\ IsGroups(GroupItems(Unloaded))
  <1>1. IsGroups(GroupItems(Unloaded))
    BY NothingIsView, GroupsOfView
  <1>2. PICK g : g = GroupItems(Unloaded)
    OBVIOUS
  <1>3. Opened(Unloaded) = [open |-> TRUE, groups |-> g, dirty |-> FALSE,
                            source |-> Unloaded, unsaved |-> FALSE]
    BY <1>2 DEF Opened
  <1>4. Closed = [open |-> FALSE, groups |-> g, dirty |-> FALSE,
                  source |-> Unloaded, unsaved |-> FALSE]
    <2>1. \A a, b, c, d, e, f : [[open |-> a, groups |-> b, dirty |-> c, source |-> d,
                                 unsaved |-> e] EXCEPT !.open = f]
                               = [open |-> f, groups |-> b, dirty |-> c, source |-> d,
                                  unsaved |-> e]
      OBVIOUS
    <2>2. QED
      <3>1. PICK o : o = Opened(Unloaded)
        OBVIOUS
      <3>2. Closed = [o EXCEPT !.open = FALSE]
        BY <3>1, Zenon DEF Closed
      <3>3. o = [open |-> TRUE, groups |-> g, dirty |-> FALSE, source |-> Unloaded,
                 unsaved |-> FALSE]
        BY <1>3, <3>1
      <3>4. QED
        BY <2>1, <3>2, <3>3, Zenon
  <1>5. QED
    BY <1>1, <1>2, <1>4

\* A render over other data opens the form anew, and one over the same does
\* nothing to it.
LEMMA FormShown ==
  ASSUME FormTypes, FormInv, NEW v, IsView(v)
  PROVE  LET f == FormShows(v) IN
         /\ f = [open |-> f.open, groups |-> f.groups, dirty |-> f.dirty,
                 source |-> f.source, unsaved |-> f.unsaved]
         /\ f.open = form.open /\ f.dirty \in BOOLEAN /\ f.unsaved \in BOOLEAN
         /\ IsView(f.source) /\ IsGroups(f.groups)
         /\ f.open => f.source = v /\ InGroups(f.groups) = DOMAIN f.source
         /\ form.open /\ v # form.source => f.groups = GroupItems(f.source)
         /\ ~(form.open /\ v # form.source) => f = form
  <1>1. CASE form.open /\ v # form.source
    <2>1. FormShows(v) = Opened(v)
      BY <1>1 DEF FormShows
    <2>2. PICK f, g : f = FormShows(v) /\ g = GroupItems(v)
      OBVIOUS
    <2>3. /\ f = [open |-> TRUE, groups |-> g, dirty |-> FALSE, source |-> v, unsaved |-> FALSE]
          /\ IsGroups(g) /\ InGroups(g) = DOMAIN v
      BY <2>1, <2>2, OpenedIs
    <2>4. /\ f.open = TRUE /\ f.dirty = FALSE /\ f.unsaved = FALSE
          /\ f.groups = g /\ f.source = v
      BY <2>3
    <2>5. f = [open |-> f.open, groups |-> f.groups, dirty |-> f.dirty,
               source |-> f.source, unsaved |-> f.unsaved]
      BY <2>3
    <2>6. form.open = TRUE
      BY <1>1 DEF FormTypes
    <2>7. QED
      BY <1>1, <2>2, <2>3, <2>4, <2>5, <2>6
  <1>2. CASE ~(form.open /\ v # form.source)
    <2>1. FormShows(v) = form
      BY <1>2 DEF FormShows
    <2>2. PICK f : f = FormShows(v)
      OBVIOUS
    <2>3. f = form
      BY <2>1, <2>2
    <2>4. f.open => f.source = v /\ InGroups(f.groups) = DOMAIN f.source
      BY <1>2, <2>3 DEF FormInv
    <2>5. /\ f = [open |-> f.open, groups |-> f.groups, dirty |-> f.dirty,
                  source |-> f.source, unsaved |-> f.unsaved]
          /\ f.open = form.open /\ f.dirty \in BOOLEAN /\ f.unsaved \in BOOLEAN
          /\ IsView(f.source) /\ IsGroups(f.groups)
      BY <2>3 DEF FormTypes
    <2>6. QED
      BY <1>2, <2>2, <2>3, <2>4, <2>5
  <1>3. QED
    BY <1>1, <1>2

LEMMA InitSidebarInv == SidebarInit => SidebarTypes /\ FormTypes /\ FormInv /\ CurrentInv
  <1> SUFFICES ASSUME SidebarInit PROVE SidebarTypes /\ FormTypes /\ FormInv /\ CurrentInv
    OBVIOUS
  <1>1. /\ owned = First /\ unborn = Later /\ pins = Unloaded
        /\ query = [data |-> Unloaded, failed |-> FALSE]
        /\ reading = [at |-> "asked", view |-> Unloaded]
        /\ form = Closed
        /\ saving = [at |-> "none", view |-> Unloaded, own |-> FALSE]
        /\ blurred = FALSE
    BY DEF SidebarInit, Asking, NoSave
  <1>2. SidebarTypes
    BY <1>1, SideBounds, NothingIsView DEF SidebarTypes, Stored, ReadStages, IsView
  <1>3. FormTypes
    BY <1>1, ClosedIs, NothingIsView DEF FormTypes
  <1>4. FormInv
    BY <1>1, ClosedIs DEF FormInv
  <1>5. CurrentInv
    BY <1>1 DEF CurrentInv
  <1>6. QED
    BY <1>2, <1>3, <1>4, <1>5

SidebarInv == SidebarTypes /\ FormTypes /\ FormInv /\ CurrentInv

LEMMA AnswerNow ==
  ASSUME SidebarTypes
  PROVE  /\ IsView(ForUser(owned, pins)) /\ DOMAIN ForUser(owned, pins) = owned
         /\ \A i \in DOMAIN pins : ForUser(owned, pins)[i] = pins[i]
  BY AnswerIsView DEF SidebarTypes, Stored

\* A render over the data v, whatever comes with it.
LEMMA FormRendered ==
  ASSUME FormTypes, FormInv, NEW v, IsView(v),
         form' = FormShows(v), query'.data = v, UNCHANGED saving
  PROVE  FormTypes' /\ FormInv'
  <1> DEFINE f == FormShows(v)
  <1>1. /\ f = [open |-> f.open, groups |-> f.groups, dirty |-> f.dirty,
                source |-> f.source, unsaved |-> f.unsaved]
        /\ f.open = form.open /\ f.dirty \in BOOLEAN /\ f.unsaved \in BOOLEAN
        /\ IsView(f.source) /\ IsGroups(f.groups)
        /\ f.open => f.source = v /\ InGroups(f.groups) = DOMAIN f.source
        /\ form.open /\ v # form.source => f.groups = GroupItems(f.source)
        /\ ~(form.open /\ v # form.source) => f = form
    BY FormShown
  <1> HIDE DEF f
  <1>2. form' = f
    BY DEF f
  <1>3. FormTypes'
    BY <1>1, <1>2 DEF FormTypes
  <1>4. CASE form.open /\ v # form.source
    BY <1>1, <1>2, <1>3, <1>4 DEF FormInv
  <1>5. CASE ~(form.open /\ v # form.source)
    <2>1. form' = form
      BY <1>1, <1>2, <1>5
    <2>2. form.open => form.source = v /\ InGroups(form.groups) = DOMAIN form.source
      BY <1>1, <1>2, <2>1
    <2>3. QED
      BY <1>3, <2>1, <2>2 DEF FormInv
  <1>6. QED
    BY <1>3, <1>4, <1>5

LEMMA FormStays ==
  ASSUME FormTypes, FormInv, UNCHANGED <<form, saving>>, query'.data = query.data
  PROVE  FormTypes' /\ FormInv'
  BY DEF FormTypes, FormInv

LEMMA ReadServedKeeps ==
  ASSUME SidebarInv, ReadServed PROVE SidebarInv'
  <1>1. /\ SidebarTypes /\ FormTypes /\ FormInv /\ CurrentInv
        /\ reading.at = "asked"
        /\ reading' = [at |-> "served", view |-> ForUser(owned, pins)]
        /\ UNCHANGED <<owned, unborn, pins, query, form, saving, blurred>>
    BY DEF SidebarInv, ReadServed
  <1>2. reading'.at = "served" /\ reading'.view = ForUser(owned, pins)
        /\ reading' = [at |-> reading'.at, view |-> reading'.view]
    BY <1>1
  <1>3. IsView(reading'.view)
    BY <1>1, <1>2, AnswerNow
  <1>4. SidebarTypes'
    BY <1>1, <1>2, <1>3 DEF SidebarTypes, Stored, ReadStages
  <1>5. FormTypes' /\ FormInv'
    BY <1>1, FormStays
  <1>6. CurrentInv'
    BY <1>1, <1>2 DEF CurrentInv
  <1>7. QED
    BY <1>4, <1>5, <1>6 DEF SidebarInv

LEMMA ReadLandsKeeps ==
  ASSUME SidebarInv, ReadLands PROVE SidebarInv'
  <1>1. /\ SidebarTypes /\ FormTypes /\ FormInv /\ CurrentInv
        /\ reading.at = "served"
        /\ reading' = [at |-> "none", view |-> Unloaded]
        /\ query' = [data |-> reading.view, failed |-> FALSE]
        /\ form' = FormShows(reading.view)
        /\ UNCHANGED <<owned, unborn, pins, saving, blurred>>
    BY DEF SidebarInv, ReadLands, Shows, NoRead
  <1>2. /\ reading'.at = "none" /\ reading'.view = Unloaded
        /\ reading' = [at |-> reading'.at, view |-> reading'.view]
        /\ query'.data = reading.view /\ query'.failed = FALSE
        /\ query' = [data |-> query'.data, failed |-> query'.failed]
    BY <1>1
  <1>3. IsView(reading.view) /\ IsView(reading'.view)
    BY <1>1, <1>2, NothingIsView DEF SidebarTypes
  <1>4. SidebarTypes'
    BY <1>1, <1>2, <1>3 DEF SidebarTypes, Stored, ReadStages
  <1>5. FormTypes' /\ FormInv'
    BY <1>1, <1>2, <1>3, FormRendered
  <1>6. CurrentInv'
    BY <1>1, <1>2 DEF CurrentInv
  <1>7. QED
    BY <1>4, <1>5, <1>6 DEF SidebarInv

LEMMA ReadFailsKeeps ==
  ASSUME SidebarInv, ReadFails PROVE SidebarInv'
  <1>1. /\ SidebarTypes /\ FormTypes /\ FormInv /\ CurrentInv
        /\ reading' = [at |-> "none", view |-> Unloaded]
        /\ query' = [query EXCEPT !.failed = TRUE]
        /\ blurred' = TRUE
        /\ UNCHANGED <<owned, unborn, pins, form, saving>>
    BY DEF SidebarInv, ReadFails, NoRead
  <1>2. /\ reading'.at = "none" /\ reading'.view = Unloaded
        /\ reading' = [at |-> reading'.at, view |-> reading'.view]
    BY <1>1
  <1>3. /\ query'.data = query.data /\ query'.failed = TRUE
        /\ query' = [data |-> query'.data, failed |-> query'.failed]
    <2>1. query = [data |-> query.data, failed |-> query.failed]
      BY <1>1 DEF SidebarTypes
    <2>2. QED
      BY <1>1, <2>1
  <1>4. SidebarTypes'
    BY <1>1, <1>2, <1>3, NothingIsView DEF SidebarTypes, Stored, ReadStages
  <1>5. FormTypes' /\ FormInv'
    BY <1>1, <1>3, FormStays
  <1>6. CurrentInv'
    BY <1>1 DEF CurrentInv
  <1>7. QED
    BY <1>4, <1>5, <1>6 DEF SidebarInv

LEMMA AskedIs ==
  ASSUME SidebarTypes
  PROVE  /\ Asked = [at |-> Asked.at, view |-> Asked.view]
         /\ Asked.at \in {"asked", "served"} /\ IsView(Asked.view)
         /\ reading.at # "served" => Asked.at = "asked"
  BY NothingIsView DEF SidebarTypes, Asked, Asking, ReadStages

LEMMA RetryKeeps ==
  ASSUME SidebarInv, Retry PROVE SidebarInv'
  <1>1. /\ SidebarTypes /\ FormTypes /\ FormInv /\ CurrentInv
        /\ query.failed /\ reading' = Asked
        /\ UNCHANGED <<owned, unborn, pins, query, form, saving, blurred>>
    BY DEF SidebarInv, Retry
  <1>2. /\ reading' = [at |-> reading'.at, view |-> reading'.view]
        /\ reading'.at \in ReadStages /\ IsView(reading'.view)
    BY <1>1, AskedIs DEF ReadStages
  <1>3. SidebarTypes'
    BY <1>1, <1>2 DEF SidebarTypes, Stored
  <1>4. FormTypes' /\ FormInv'
    BY <1>1, FormStays
  <1>5. CurrentInv'
    BY <1>1 DEF CurrentInv
  <1>6. QED
    BY <1>3, <1>4, <1>5 DEF SidebarInv

\* A change that asks for the data anew.
LEMMA ChangedKeeps ==
  ASSUME SidebarInv, Invalidate(saving.at # "none"), UNCHANGED <<query, form, saving>>,
         owned' \subseteq Items, Whole(owned'), unborn' \subseteq Later \ owned', Stored(pins)'
  PROVE  SidebarInv'
  <1>1. /\ SidebarTypes /\ FormTypes /\ FormInv /\ CurrentInv
        /\ reading' = Asked
        /\ blurred' = (blurred \/ reading.at = "served" \/ saving.at # "none")
    BY DEF SidebarInv, Invalidate
  <1>2. /\ reading' = [at |-> reading'.at, view |-> reading'.view]
        /\ reading'.at \in {"asked", "served"} /\ reading'.at \in ReadStages
        /\ IsView(reading'.view)
        /\ reading.at # "served" => reading'.at = "asked"
    BY <1>1, AskedIs DEF ReadStages
  <1>3. SidebarTypes'
    BY <1>1, <1>2 DEF SidebarTypes
  <1>4. FormTypes' /\ FormInv'
    BY <1>1, FormStays
  <1>5. CurrentInv'
    BY <1>1, <1>2 DEF CurrentInv
  <1>6. QED
    BY <1>3, <1>4, <1>5 DEF SidebarInv

LEMMA CreateKeeps ==
  ASSUME SidebarInv, NEW i \in Items, Create(i) PROVE SidebarInv'
  <1>1. /\ SidebarTypes
        /\ i \in unborn /\ (~IsProject(i) => <<i[1], 0>> \in owned)
        /\ owned' = owned \union {i} /\ unborn' = unborn \ {i}
        /\ Invalidate(saving.at # "none") /\ UNCHANGED <<pins, query, form, saving>>
    BY DEF SidebarInv, Create
  <1>2. Whole(owned')
    <2>1. IsProject(i) => i = <<i[1], 0>>
      BY ItemPairs DEF IsProject
    <2>2. QED
      BY <1>1, <2>1 DEF Whole, SidebarTypes
  <1>3. owned' \subseteq Items /\ unborn' \subseteq Later \ owned'
    BY <1>1, SideBounds DEF SidebarTypes
  <1>4. Stored(pins)'
    BY <1>1 DEF SidebarTypes, Stored
  <1>5. QED
    BY <1>1, <1>2, <1>3, <1>4, ChangedKeeps

LEMMA RemoveKeeps ==
  ASSUME SidebarInv, NEW i \in Items, RemoveItem(i) PROVE SidebarInv'
  <1> DEFINE gone == IF IsProject(i) THEN {j \in Items : j[1] = i[1]} ELSE {i}
  <1>1. /\ SidebarTypes /\ i \in owned
        /\ owned' = owned \ gone /\ unborn' = unborn \ gone
        /\ pins' = [j \in DOMAIN pins \ gone |-> pins[j]]
        /\ Invalidate(saving.at # "none") /\ UNCHANGED <<query, form, saving>>
    BY DEF SidebarInv, RemoveItem
  <1>2. Whole(owned')
    <2>1. ASSUME NEW j \in owned', <<j[1], 0>> \in gone PROVE FALSE
      <3>1. j \in Items /\ j \in owned /\ j \notin gone
        BY <1>1 DEF SidebarTypes
      <3>2. <<j[1], 0>>[1] = j[1] /\ <<j[1], 0>>[2] = 0
        OBVIOUS
      <3>3. QED
        BY <2>1, <3>1, <3>2 DEF IsProject
    <2>2. \A j \in owned' : <<j[1], 0>> \in owned
      BY <1>1 DEF SidebarTypes, Whole
    <2> HIDE DEF gone
    <2>3. QED
      BY <1>1, <2>1, <2>2 DEF Whole
  <1> HIDE DEF gone
  <1>3. owned' \subseteq Items /\ unborn' \subseteq Later \ owned'
    BY <1>1 DEF SidebarTypes
  <1>4. Stored(pins)'
    BY <1>1 DEF SidebarTypes, Stored
  <1>5. QED
    BY <1>1, <1>2, <1>3, <1>4, ChangedKeeps

LEMMA SaveElsewhereKeeps ==
  ASSUME SidebarInv, NEW i \in Items, SaveElsewhere(i) PROVE SidebarInv'
  <1> DEFINE v == ForUser(owned, pins)
             w == [v EXCEPT ![i].visible = ~@]
  <1>1. /\ SidebarTypes /\ FormTypes /\ FormInv /\ i \in owned
        /\ pins' = FlattenGroups(GroupItems(w)) /\ blurred' = TRUE
        /\ UNCHANGED <<owned, unborn, query, reading, form, saving>>
    BY DEF SidebarInv, SaveElsewhere
  <1>2. IsView(v) /\ DOMAIN v = owned
    BY <1>1, AnswerNow
  <1>3. IsView(w) /\ DOMAIN w = owned
    <2> HIDE DEF v
    <2>1. v \in [owned -> PinRows] /\ v[i] \in PinRows
      BY <1>1, <1>2 DEF IsView
    <2>2. [v[i] EXCEPT !.visible = ~@] \in PinRows
      <3>1. PICK a \in BOOLEAN, n \in Nat : v[i] = [visible |-> a, order |-> n]
        BY <2>1 DEF PinRows
      <3>2. [v[i] EXCEPT !.visible = ~@] = [visible |-> ~a, order |-> n]
        BY <3>1
      <3>3. QED
        BY <3>2 DEF PinRows
    <2>3. w = [v EXCEPT ![i] = [v[i] EXCEPT !.visible = ~@]]
      OBVIOUS
    <2>4. w \in [owned -> PinRows]
      BY <2>1, <2>2, <2>3
    <2>5. QED
      BY <1>2, <2>4 DEF IsView
  <1> HIDE DEF w
  <1>4. IsView(pins') /\ DOMAIN pins' = owned
    BY <1>1, <1>3, GroupsOfView, FlattenIs
  <1>5. SidebarTypes'
    BY <1>1, <1>4 DEF SidebarTypes, Stored, IsView
  <1>6. FormTypes' /\ FormInv'
    BY <1>1, FormStays
  <1>7. CurrentInv'
    BY <1>1 DEF CurrentInv
  <1>8. QED
    BY <1>5, <1>6, <1>7 DEF SidebarInv

LEMMA TypesStay ==
  ASSUME SidebarTypes, UNCHANGED <<owned, unborn, pins, query, reading>>,
         saving' = [at |-> saving'.at, view |-> saving'.view, own |-> saving'.own],
         saving'.at \in ReadStages, IsView(saving'.view), saving'.own \in BOOLEAN,
         blurred' \in BOOLEAN
  PROVE  SidebarTypes'
  BY DEF SidebarTypes, Stored

LEMMA SavingParts ==
  ASSUME SidebarTypes
  PROVE  /\ saving = [at |-> saving.at, view |-> saving.view, own |-> saving.own]
         /\ saving.at \in ReadStages /\ IsView(saving.view) /\ saving.own \in BOOLEAN
         /\ blurred \in BOOLEAN
         /\ query.failed \in BOOLEAN
  BY DEF SidebarTypes

LEMMA OpenKeeps ==
  ASSUME SidebarInv, OpenSettings PROVE SidebarInv'
  <1>1. /\ SidebarTypes /\ FormTypes /\ FormInv /\ CurrentInv
        /\ ~form.open /\ form' = Opened(query.data)
        /\ UNCHANGED <<owned, unborn, pins, query, reading, saving, blurred>>
    BY DEF SidebarInv, OpenSettings
  <1>2. PICK g : g = GroupItems(query.data)
    OBVIOUS
  <1>3. /\ form' = [open |-> TRUE, groups |-> g, dirty |-> FALSE,
                    source |-> query.data, unsaved |-> FALSE]
        /\ IsGroups(g) /\ InGroups(g) = DOMAIN query.data /\ IsView(query.data)
    BY <1>1, <1>2, OpenedIs DEF SidebarTypes
  <1>4. /\ form' = [open |-> form'.open, groups |-> form'.groups, dirty |-> form'.dirty,
                    source |-> form'.source, unsaved |-> form'.unsaved]
        /\ form'.open = TRUE /\ form'.dirty = FALSE /\ form'.unsaved = FALSE
        /\ form'.groups = g /\ form'.source = query.data
    BY <1>3
  <1>5. SidebarTypes'
    BY <1>1, SavingParts, TypesStay
  <1>6. FormTypes'
    BY <1>3, <1>4 DEF FormTypes
  <1>7. FormInv'
    <2>1. ~saving.own /\ saving' = saving
      BY <1>1 DEF FormInv
    <2>2. form'.groups = GroupItems(form'.source)
      BY <1>2, <1>4
    <2>3. QED
      BY <1>1, <1>3, <1>4, <2>1, <2>2 DEF FormInv
  <1>8. CurrentInv'
    BY <1>1 DEF CurrentInv
  <1>9. QED
    BY <1>5, <1>6, <1>7, <1>8 DEF SidebarInv

LEMMA EditedKeeps ==
  ASSUME SidebarInv, NEW groups, IsGroups(groups), InGroups(groups) = InGroups(form.groups),
         Edited(groups)
  PROVE  SidebarInv'
  <1>1. /\ SidebarTypes /\ FormTypes /\ FormInv /\ CurrentInv
        /\ form.open
        /\ form' = [form EXCEPT !.groups = groups, !.dirty = TRUE, !.unsaved = @ \/ saving.own]
        /\ UNCHANGED <<owned, unborn, pins, query, reading, saving, blurred>>
    BY DEF SidebarInv, Edited, Usable
  <1>2. PICK u \in BOOLEAN : u = (form.unsaved \/ saving.own)
    OBVIOUS
  <1>3. form' = [open |-> form.open, groups |-> groups, dirty |-> TRUE,
                 source |-> form.source, unsaved |-> u]
    BY <1>1, <1>2 DEF FormTypes
  <1>4. /\ form' = [open |-> form'.open, groups |-> form'.groups, dirty |-> form'.dirty,
                    source |-> form'.source, unsaved |-> form'.unsaved]
        /\ form'.open = form.open /\ form'.dirty = TRUE /\ form'.unsaved = u
        /\ form'.groups = groups /\ form'.source = form.source
    BY <1>3
  <1>5. SidebarTypes'
    BY <1>1, SavingParts, TypesStay
  <1>6. FormTypes'
    BY <1>1, <1>4 DEF FormTypes
  <1>7. FormInv'
    BY <1>1, <1>2, <1>4 DEF FormInv
  <1>8. CurrentInv'
    BY <1>1 DEF CurrentInv
  <1>9. QED
    BY <1>5, <1>6, <1>7, <1>8 DEF SidebarInv

LEMMA DragProjectKeeps ==
  ASSUME SidebarInv, NEW from, NEW to, DragProject(from, to) PROVE SidebarInv'
  <1> DEFINE g == form.groups
             h == [g EXCEPT !.projects = ArrayMove(@, from, to)]
  <1>1. IsGroups(g) /\ from \in DOMAIN g.projects /\ to \in DOMAIN g.projects /\ Edited(h)
    BY DEF SidebarInv, FormTypes, DragProject
  <1>2. IsGroups(h) /\ InGroups(h) = InGroups(g)
    BY <1>1, ProjectsDragged
  <1>3. QED
    BY <1>1, <1>2, EditedKeeps

LEMMA DragSystemKeeps ==
  ASSUME SidebarInv, NEW i \in Items, NEW j \in Items, DragSystem(i, j) PROVE SidebarInv'
  <1> DEFINE g == form.groups
             h == [g EXCEPT !.systems[<<i[1], 0>>] = ArrayMove(@, Place(@, i), Place(@, j))]
  <1>1. /\ IsGroups(g) /\ i \in InGroups(g) /\ j \in InGroups(g)
        /\ ~IsProject(i) /\ ~IsProject(j)
        /\ Edited(IF i[1] # j[1] THEN g ELSE h)
    BY DEF SidebarInv, FormTypes, DragSystem
  <1>2. CASE i[1] # j[1]
    BY <1>1, <1>2, EditedKeeps
  <1>3. CASE i[1] = j[1]
    <2>1. IsGroups(h) /\ InGroups(h) = InGroups(g)
      BY <1>1, <1>3, SystemsDragged
    <2>2. Edited(h)
      BY <1>1, <1>3
    <2>3. QED
      BY <2>1, <2>2, EditedKeeps
  <1>4. QED
    BY <1>2, <1>3

LEMMA ToggleKeeps ==
  ASSUME SidebarInv, NEW i \in Items, Toggle(i) PROVE SidebarInv'
  <1> DEFINE g == form.groups
             h == [g EXCEPT !.hidden = IF i \in @ THEN @ \ {i} ELSE @ \union {i}]
  <1>1. IsGroups(g) /\ i \in InGroups(g) /\ Edited(h)
    BY DEF SidebarInv, FormTypes, Toggle
  <1>2. IsGroups(h) /\ InGroups(h) = InGroups(g)
    BY <1>1, Toggled
  <1>3. QED
    BY <1>1, <1>2, EditedKeeps

LEMMA SaveKeeps ==
  ASSUME SidebarInv, Save PROVE SidebarInv'
  <1>1. /\ SidebarTypes /\ FormTypes /\ FormInv /\ CurrentInv
        /\ form.open /\ saving.at = "none"
        /\ saving' = [at |-> "asked", view |-> FlattenGroups(form.groups), own |-> TRUE]
        /\ form' = [form EXCEPT !.unsaved = FALSE]
        /\ blurred' = (blurred \/ reading.at # "none")
        /\ UNCHANGED <<owned, unborn, pins, query, reading>>
    BY DEF SidebarInv, Save, Usable
  <1>2. /\ form' = [open |-> form'.open, groups |-> form'.groups, dirty |-> form'.dirty,
                    source |-> form'.source, unsaved |-> form'.unsaved]
        /\ form'.open = form.open /\ form'.dirty = form.dirty /\ form'.unsaved = FALSE
        /\ form'.groups = form.groups /\ form'.source = form.source
    <2>1. form' = [open |-> form.open, groups |-> form.groups, dirty |-> form.dirty,
                   source |-> form.source, unsaved |-> FALSE]
      BY <1>1 DEF FormTypes
    <2>2. QED
      BY <2>1
  <1>3. /\ saving' = [at |-> saving'.at, view |-> saving'.view, own |-> saving'.own]
        /\ saving'.at = "asked" /\ saving'.view = FlattenGroups(form.groups)
        /\ saving'.own = TRUE
    BY <1>1
  <1>4. IsView(FlattenGroups(form.groups))
    BY <1>1, FlattenIs DEF FormTypes
  <1>5. SidebarTypes'
    BY <1>1, <1>3, <1>4, SavingParts, TypesStay DEF ReadStages
  <1>6. FormTypes'
    BY <1>1, <1>2 DEF FormTypes
  <1>7. FormInv'
    <2>1. saving'.view = FlattenGroups(form'.groups)
      BY <1>2, <1>3
    <2>2. QED
      BY <1>1, <1>2, <1>3, <2>1 DEF FormInv
  <1>8. CurrentInv'
    BY <1>1, <1>3 DEF CurrentInv
  <1>9. QED
    BY <1>5, <1>6, <1>7, <1>8 DEF SidebarInv

\* What the service stores of what is sent, and what it then answers.
LEMMA SyncedIs ==
  ASSUME SidebarTypes, NEW payload, IsView(payload)
  PROVE  LET p == SyncForUser(payload)
             v == ForUser(owned, p)
         IN  /\ DOMAIN p \subseteq owned /\ p \in [DOMAIN p -> PinRows]
             /\ IsView(v) /\ DOMAIN v = owned
             /\ \A i \in DOMAIN payload \intersect owned : v[i] = payload[i]
  <1> DEFINE p == SyncForUser(payload)
             kept == DOMAIN payload \intersect owned
             v == ForUser(owned, p)
  <1>1. /\ owned \in SUBSET Items /\ Whole(owned)
        /\ DOMAIN pins \subseteq owned /\ pins \in [DOMAIN pins -> PinRows]
        /\ payload \in [DOMAIN payload -> PinRows]
    BY DEF SidebarTypes, Stored, IsView
  <1>2. p = [i \in DOMAIN pins \union kept |-> IF i \in kept THEN payload[i] ELSE pins[i]]
    BY DEF SyncForUser
  <1>3. /\ DOMAIN p = DOMAIN pins \union kept /\ p \in [DOMAIN p -> PinRows]
        /\ \A i \in kept : p[i] = payload[i] /\ i \in DOMAIN p
    BY <1>1, <1>2
  <1>4. DOMAIN p \subseteq owned
    BY <1>1, <1>3
  <1> HIDE DEF p
  <1>5. IsView(v) /\ DOMAIN v = owned /\ \A i \in DOMAIN p : v[i] = p[i]
    BY <1>1, <1>3, <1>4, AnswerIsView
  <1>6. \A i \in kept : v[i] = payload[i]
    BY <1>3, <1>5
  <1> HIDE DEF kept, v
  <1>7. QED
    BY <1>3, <1>4, <1>5, <1>6 DEF p, kept, v

LEMMA SaveServedKeeps ==
  ASSUME SidebarInv, SaveServed PROVE SidebarInv'
  <1>1. /\ SidebarTypes /\ FormTypes /\ FormInv /\ CurrentInv
        /\ saving.at = "asked"
        /\ pins' = SyncForUser(saving.view)
        /\ saving' = [saving EXCEPT !.at = "served", !.view = ForUser(owned, pins')]
        /\ UNCHANGED <<owned, unborn, query, reading, form, blurred>>
    BY DEF SidebarInv, SaveServed
  <1>2. /\ saving' = [at |-> saving'.at, view |-> saving'.view, own |-> saving'.own]
        /\ saving'.at = "served" /\ saving'.view = ForUser(owned, pins')
        /\ saving'.own = saving.own
    <2>1. saving' = [at |-> "served", view |-> ForUser(owned, pins'), own |-> saving.own]
      BY <1>1, SavingParts
    <2>2. QED
      BY <2>1
  <1>3. /\ DOMAIN pins' \subseteq owned /\ pins' \in [DOMAIN pins' -> PinRows]
        /\ IsView(saving'.view) /\ DOMAIN saving'.view = owned
        /\ \A i \in DOMAIN saving.view \intersect owned : saving'.view[i] = saving.view[i]
    BY <1>1, <1>2, SavingParts, SyncedIs
  <1>4. SidebarTypes'
    BY <1>1, <1>2, <1>3 DEF SidebarTypes, Stored, ReadStages
  <1>5. FormTypes'
    BY <1>1 DEF FormTypes
  <1>6. ASSUME saving.view = FlattenGroups(form.groups), saving'.view = form.source, form.open
        PROVE  form.groups = GroupItems(form.source)
    <2>1. IsGroups(form.groups) /\ InGroups(form.groups) = DOMAIN form.source
      BY <1>1, <1>6 DEF FormTypes, FormInv
    <2>2. DOMAIN saving.view = owned
      BY <1>3, <1>6, <2>1, FlattenIs
    <2>3. saving'.view = saving.view
      <3>1. IsView(saving.view)
        BY <1>1, SavingParts
      <3>2. saving.view \in [owned -> PinRows] /\ saving'.view \in [owned -> PinRows]
        BY <1>3, <2>2, <3>1 DEF IsView
      <3>3. \A i \in owned : saving'.view[i] = saving.view[i]
        BY <1>3, <2>2
      <3>4. PICK a, b : a = saving'.view /\ b = saving.view
        OBVIOUS
      <3>5. a = b
        BY <3>2, <3>3, <3>4
      <3>6. QED
        BY <3>4, <3>5
    <2>4. QED
      BY <1>6, <2>1, <2>3, RoundTrip
  <1>7. FormInv'
    BY <1>1, <1>2, <1>6 DEF FormInv
  <1>8. CurrentInv'
    <2>1. reading.at = "none" \/ blurred
      BY <1>1 DEF CurrentInv
    <2>2. saving'.view = ForUser(owned', pins')
      BY <1>1, <1>2
    <2>3. QED
      BY <1>1, <1>2, <2>1, <2>2 DEF CurrentInv
  <1>9. QED
    BY <1>4, <1>5, <1>7, <1>8 DEF SidebarInv

LEMMA NoSaveIs ==
  ASSUME saving' = NoSave
  PROVE  /\ saving' = [at |-> saving'.at, view |-> saving'.view, own |-> saving'.own]
         /\ saving'.at = "none" /\ saving'.at \in ReadStages /\ IsView(saving'.view)
         /\ saving'.own = FALSE
  BY NothingIsView DEF NoSave, ReadStages

LEMMA SaveLandsKeeps ==
  ASSUME SidebarInv, SaveLands PROVE SidebarInv'
  <1> DEFINE f == FormShows(saving.view)
  <1>1. /\ SidebarTypes /\ FormTypes /\ FormInv /\ CurrentInv
        /\ saving.at = "served" /\ saving' = NoSave
        /\ query' = [data |-> saving.view, failed |-> FALSE]
        /\ form' = [f EXCEPT !.dirty = @ /\ ~saving.own]
        /\ UNCHANGED <<owned, unborn, pins, reading, blurred>>
    BY DEF SidebarInv, SaveLands
  <1>2. /\ query'.data = saving.view /\ query'.failed = FALSE
        /\ query' = [data |-> query'.data, failed |-> query'.failed]
    BY <1>1
  <1>3. IsView(saving.view) /\ saving.own \in BOOLEAN
    BY <1>1, SavingParts
  <1>4. /\ f = [open |-> f.open, groups |-> f.groups, dirty |-> f.dirty,
                source |-> f.source, unsaved |-> f.unsaved]
        /\ f.open = form.open /\ f.dirty \in BOOLEAN /\ f.unsaved \in BOOLEAN
        /\ IsView(f.source) /\ IsGroups(f.groups)
        /\ f.open => f.source = saving.view /\ InGroups(f.groups) = DOMAIN f.source
        /\ form.open /\ saving.view # form.source => f.groups = GroupItems(f.source)
        /\ ~(form.open /\ saving.view # form.source) => f = form
    BY <1>1, <1>3, FormShown
  <1> HIDE DEF f
  <1>5. PICK d \in BOOLEAN : d = (f.dirty /\ ~saving.own)
    OBVIOUS
  <1>6. form' = [open |-> f.open, groups |-> f.groups, dirty |-> d,
                 source |-> f.source, unsaved |-> f.unsaved]
    BY <1>1, <1>4, <1>5
  <1>7. /\ form' = [open |-> form'.open, groups |-> form'.groups, dirty |-> form'.dirty,
                    source |-> form'.source, unsaved |-> form'.unsaved]
        /\ form'.open = f.open /\ form'.dirty = d /\ form'.unsaved = f.unsaved
        /\ form'.groups = f.groups /\ form'.source = f.source
    BY <1>6
  <1>8. /\ saving' = [at |-> saving'.at, view |-> saving'.view, own |-> saving'.own]
        /\ saving'.at = "none" /\ saving'.at \in ReadStages /\ IsView(saving'.view)
        /\ saving'.own = FALSE
    BY <1>1, NoSaveIs
  <1>9. SidebarTypes'
    <2>1. /\ owned' = owned /\ unborn' = unborn /\ pins' = pins /\ reading' = reading
          /\ blurred' = blurred /\ SidebarTypes
      BY <1>1
    <2>2. IsView(query'.data) /\ query'.failed \in BOOLEAN
          /\ query' = [data |-> query'.data, failed |-> query'.failed]
      BY <1>2, <1>3
    <2>3. saving'.own \in BOOLEAN
      BY <1>8
    <2>4. QED
      BY <1>8, <2>1, <2>2, <2>3 DEF SidebarTypes, Stored
  <1>10. FormTypes'
    BY <1>1, <1>4, <1>7 DEF FormTypes
  <1>11. ASSUME f.open, ~d, ~f.unsaved PROVE f.groups = GroupItems(f.source)
    <2>1. CASE form.open /\ saving.view # form.source
      BY <1>4, <2>1
    <2>2. CASE ~(form.open /\ saving.view # form.source)
      <3>1. f = form /\ form.open /\ saving.view = form.source
        BY <1>4, <1>11, <2>2
      <3>2. CASE saving.own
        <4>1. \/ form.groups = GroupItems(form.source)
              \/ saving.view = form.source => form.groups = GroupItems(form.source)
          BY <1>1, <1>11, <3>1, <3>2 DEF FormInv
        <4>2. QED
          BY <3>1, <4>1
      <3>3. CASE ~saving.own
        <4>1. ~form.dirty
          BY <1>5, <1>11, <3>1, <3>3
        <4>2. QED
          BY <1>1, <1>11, <3>1, <3>3, <4>1 DEF FormInv
      <3>4. QED
        BY <3>2, <3>3
    <2>3. QED
      BY <2>1, <2>2
  <1>12. FormInv'
    BY <1>2, <1>4, <1>7, <1>8, <1>11 DEF FormInv
  <1>13. CurrentInv'
    BY <1>1, <1>2, <1>8 DEF CurrentInv
  <1>14. QED
    BY <1>9, <1>10, <1>12, <1>13 DEF SidebarInv

LEMMA SaveFailsKeeps ==
  ASSUME SidebarInv, SaveFails PROVE SidebarInv'
  <1>1. /\ SidebarTypes /\ FormTypes /\ FormInv /\ CurrentInv
        /\ saving' = NoSave /\ blurred' = TRUE
        /\ form' = IF saving.own THEN [form EXCEPT !.dirty = FALSE, !.unsaved = TRUE] ELSE form
        /\ UNCHANGED <<owned, unborn, pins, query, reading>>
    BY DEF SidebarInv, SaveFails
  <1>2. /\ saving' = [at |-> saving'.at, view |-> saving'.view, own |-> saving'.own]
        /\ saving'.at = "none" /\ saving'.at \in ReadStages /\ IsView(saving'.view)
        /\ saving'.own = FALSE
    BY <1>1, NoSaveIs
  <1>3. SidebarTypes'
    BY <1>1, <1>2, SavingParts, TypesStay
  <1>4. CurrentInv'
    BY <1>1 DEF CurrentInv
  <1>5. CASE saving.own
    <2>1. form' = [open |-> form.open, groups |-> form.groups, dirty |-> FALSE,
                   source |-> form.source, unsaved |-> TRUE]
      BY <1>1, <1>5 DEF FormTypes
    <2>2. /\ form' = [open |-> form'.open, groups |-> form'.groups, dirty |-> form'.dirty,
                      source |-> form'.source, unsaved |-> form'.unsaved]
          /\ form'.open = form.open /\ form'.dirty = FALSE /\ form'.unsaved = TRUE
          /\ form'.groups = form.groups /\ form'.source = form.source
      BY <2>1
    <2>3. FormTypes'
      BY <1>1, <2>2 DEF FormTypes
    <2>4. FormInv'
      BY <1>1, <1>2, <2>2 DEF FormInv
    <2>5. QED
      BY <1>3, <1>4, <2>3, <2>4 DEF SidebarInv
  <1>6. CASE ~saving.own
    <2>1. form' = form
      BY <1>1, <1>6
    <2>2. FormTypes'
      BY <1>1, <2>1 DEF FormTypes
    <2>3. FormInv'
      BY <1>1, <1>2, <1>6, <2>1 DEF FormInv
    <2>4. QED
      BY <1>3, <1>4, <2>2, <2>3 DEF SidebarInv
  <1>7. QED
    BY <1>5, <1>6

LEMMA NavigateKeeps ==
  ASSUME SidebarInv, NEW p, Navigate(p) PROVE SidebarInv'
  <1>1. /\ SidebarTypes /\ FormTypes /\ FormInv /\ CurrentInv
        /\ form' = Closed
        /\ saving' = [saving EXCEPT !.own = FALSE]
        /\ UNCHANGED <<owned, unborn, pins, query, reading, blurred>>
    BY DEF SidebarInv, Navigate
  <1>2. PICK g : g = GroupItems(Unloaded)
    OBVIOUS
  <1>3. /\ form' = [open |-> FALSE, groups |-> g, dirty |-> FALSE,
                    source |-> Unloaded, unsaved |-> FALSE]
        /\ IsGroups(g)
    BY <1>1, <1>2, ClosedIs
  <1>4. /\ form' = [open |-> form'.open, groups |-> form'.groups, dirty |-> form'.dirty,
                    source |-> form'.source, unsaved |-> form'.unsaved]
        /\ form'.open = FALSE /\ form'.dirty = FALSE /\ form'.unsaved = FALSE
        /\ form'.groups = g /\ form'.source = Unloaded
    BY <1>3
  <1>5. /\ saving' = [at |-> saving'.at, view |-> saving'.view, own |-> saving'.own]
        /\ saving'.at = saving.at /\ saving'.view = saving.view /\ saving'.own = FALSE
    <2>1. saving' = [at |-> saving.at, view |-> saving.view, own |-> FALSE]
      BY <1>1, SavingParts
    <2>2. QED
      BY <2>1
  <1>6. SidebarTypes'
    BY <1>1, <1>5, SavingParts, TypesStay
  <1>7. FormTypes'
    BY <1>3, <1>4, NothingIsView DEF FormTypes
  <1>8. FormInv'
    BY <1>4, <1>5 DEF FormInv
  <1>9. CurrentInv'
    BY <1>1, <1>5 DEF CurrentInv
  <1>10. QED
    BY <1>6, <1>7, <1>8, <1>9 DEF SidebarInv

LEMMA NothingElse ==
  ASSUME SidebarInv,
         UNCHANGED <<owned, unborn, pins, query, reading, form, saving, blurred>>
  PROVE  SidebarInv'
  <1>1. SidebarTypes /\ FormTypes /\ FormInv /\ CurrentInv
    BY DEF SidebarInv
  <1>2. SidebarTypes'
    BY <1>1, SavingParts, TypesStay
  <1>3. FormTypes' /\ FormInv'
    BY <1>1, FormStays
  <1>4. CurrentInv'
    BY <1>1 DEF CurrentInv
  <1>5. QED
    BY <1>2, <1>3, <1>4 DEF SidebarInv

LEMMA SidebarKeeps == SidebarInv /\ [SidebarNext]_sidebarVars => SidebarInv'
  <1> SUFFICES ASSUME SidebarInv, [SidebarNext]_sidebarVars PROVE SidebarInv'
    OBVIOUS
  <1>1. CASE ReadServed
    BY <1>1, ReadServedKeeps
  <1>2. CASE ReadLands
    BY <1>2, ReadLandsKeeps
  <1>3. CASE ReadFails
    BY <1>3, ReadFailsKeeps
  <1>4. CASE Retry
    BY <1>4, RetryKeeps
  <1>5. ASSUME NEW i \in Items, Create(i) \/ RemoveItem(i) \/ SaveElsewhere(i) \/ Toggle(i)
        PROVE  SidebarInv'
    BY <1>5, CreateKeeps, RemoveKeeps, SaveElsewhereKeeps, ToggleKeeps
  <1>6. CASE OpenSettings
    BY <1>6, OpenKeeps
  <1>7. CASE Save
    BY <1>7, SaveKeeps
  <1>8. CASE SaveServed
    BY <1>8, SaveServedKeeps
  <1>9. CASE SaveLands
    BY <1>9, SaveLandsKeeps
  <1>10. CASE SaveFails
    BY <1>10, SaveFailsKeeps
  <1>11. ASSUME NEW from \in 1 .. MaxProject, NEW to \in 1 .. MaxProject, DragProject(from, to)
         PROVE  SidebarInv'
    BY <1>11, DragProjectKeeps
  <1>12. ASSUME NEW i \in Items, NEW j \in Items, DragSystem(i, j)
         PROVE  SidebarInv'
    BY <1>12, DragSystemKeeps
  <1>13. ASSUME NEW p \in 0 .. MaxProject, Navigate(p) PROVE SidebarInv'
    BY <1>13, NavigateKeeps
  <1>14. ASSUME NEW p \in 1 .. MaxProject, Expand(p) \/ Turn(p) PROVE SidebarInv'
    <2>1. UNCHANGED <<owned, unborn, pins, query, reading, form, saving, blurred>>
      BY <1>14 DEF Expand, Turn
    <2>2. QED
      BY <2>1, NothingElse
  <1>15. CASE UNCHANGED sidebarVars
    <2>1. UNCHANGED <<owned, unborn, pins, query, reading, form, saving, blurred>>
      BY <1>15 DEF sidebarVars
    <2>2. QED
      BY <2>1, NothingElse
  <1>16. QED
    BY <1>1, <1>2, <1>3, <1>4, <1>5, <1>6, <1>7, <1>8, <1>9, <1>10, <1>11, <1>12, <1>13,
       <1>14, <1>15 DEF SidebarNext

LEMMA SidebarInvariant == SidebarSpec => []SidebarInv
  <1>1. SidebarInit => SidebarInv
    BY InitSidebarInv DEF SidebarInv
  <1>2. QED
    BY <1>1, SidebarKeeps, PTL DEF SidebarSpec

\* When the form has nothing to save it shows what the query has, whatever was
\* answered, edited, saved or refused meanwhile: handleSave and the effect that
\* takes the items again lose no edit that they call saved.
THEOREM CleanForm == SidebarSpec => []CleanIsStored
  <1>1. SidebarInv => CleanIsStored
    BY DEF SidebarInv, FormInv, CleanIsStored
  <1>2. QED
    BY <1>1, SidebarInvariant, PTL

\* With nothing on its way the sidebar is what the API would answer, for every
\* order in which creations, deletions, saves and answers come in.
THEOREM CurrentSidebar == SidebarSpec => []SidebarIsCurrent
  <1>1. SidebarInv => SidebarIsCurrent
    BY DEF SidebarInv, CurrentInv, SidebarIsCurrent
  <1>2. QED
    BY <1>1, SidebarInvariant, PTL

-----------------------------------------------------------------------------
(* What the sidebar shows of a view, and in which order.                   *)

LEMMA SortedPlaces ==
  ASSUME NEW S \in SUBSET Items, NEW view, \A i \in S : view[i].order \in Nat
  PROVE  LET s == Sorted(S, view) IN
         /\ DOMAIN s = 1 .. Cardinality(S) /\ Cardinality(S) \in Nat /\ Range(s) = S
         /\ \A n \in DOMAIN s : s[n] \in S
         /\ \A i \in S : \E n \in DOMAIN s : s[n] = i
         /\ \A n, m \in DOMAIN s : s[n] = s[m] => n = m
         /\ \A n, m \in DOMAIN s : n < m <=> Before(view, s[n], s[m])
  <1> DEFINE s == Sorted(S, view)
             N == 1 .. Cardinality(S)
  <1>1. /\ IsFiniteSet(S) /\ Cardinality(S) \in Nat
        /\ InOrder(s, S, ByOrder(S, view))
    BY SortedIs
  <1>2. /\ s \in [N -> S] /\ \A i \in S : \E n \in N : s[n] = i
        /\ \A n, m \in N : n < m => Before(view, s[n], s[m])
    BY <1>1 DEF InOrder, ByOrder
  <1> HIDE DEF s
  <1>3. ASSUME NEW i \in S, NEW j \in S, Before(view, i, j)
        PROVE  i # j /\ ~Before(view, j, i)
    <2>1. ~Visited(i, i) /\ (Visited(i, j) => ~Visited(j, i))
      BY VisitedOrders
    <2>2. view[i].order \in Nat /\ view[j].order \in Nat
      OBVIOUS
    <2>3. QED
      BY <1>3, <2>1, <2>2 DEF Before
  <1>4. ASSUME NEW n \in N, NEW m \in N
        PROVE  (n < m <=> Before(view, s[n], s[m])) /\ (s[n] = s[m] => n = m)
    <2>1. n \in Nat /\ m \in Nat /\ s[n] \in S /\ s[m] \in S
      BY <1>1, <1>2
    <2>2. CASE n < m
      BY <1>2, <1>3, <2>1, <2>2
    <2>3. CASE m < n
      <3>1. Before(view, s[m], s[n]) /\ ~(n < m)
        BY <1>2, <2>1, <2>3
      <3>2. QED
        BY <1>3, <2>1, <3>1
    <2>4. CASE n = m
      BY <1>3, <2>1, <2>4
    <2>5. QED
      BY <2>1, <2>2, <2>3, <2>4
  <1>5. DOMAIN s = N /\ Range(s) = S
    BY <1>2 DEF Range
  <1>6. QED
    BY <1>1, <1>2, <1>4, <1>5 DEF s

SameLevel(x, y) == (IsProject(x) /\ IsProject(y)) \/ (~IsProject(x) /\ ~IsProject(y) /\ x[1] = y[1])
Visible(v) == {i \in Seen(v) : <<i[1], 0>> \in Seen(v)}

LEMMA TreeIs ==
  ASSUME NEW v, IsView(v)
  PROVE  /\ InTree(Tree(v)) = Visible(v)
         /\ \A x, y : <<x, y>> \in Above(Tree(v)) <=>
              x \in Visible(v) /\ y \in Visible(v) /\ SameLevel(x, y) /\ Before(v, x, y)
         /\ \A z \in Above(Tree(v)) : \E x, y \in Visible(v) : z = <<x, y>>
  <1> DEFINE D == Seen(v)
             P == ProjectsOf(D)
             rows == ProjectRows(v)
             N == DOMAIN rows
             of(n) == Sorted(SystemsOf(D, rows[n]), v)
             tree == Tree(v)
  <1>1. D \in SUBSET Items /\ \A i \in D : v[i].order \in Nat
    BY DEF Seen, IsView, PinRows
  <1>2. /\ P \in SUBSET Items /\ P \subseteq D /\ \A p : SystemsOf(D, p) \in SUBSET Items
        /\ \A p : SystemsOf(D, p) \subseteq D
        /\ \A p \in P : p = <<p[1], 0>>
    BY <1>1, ProjectsAre DEF ProjectsOf, SystemsOf
  <1>3. DOMAIN tree = N /\ \A n \in N : tree[n].project = rows[n] /\ tree[n].systems = of(n)
    BY DEF Tree
  <1>4. /\ \A n \in N : rows[n] \in P
        /\ \A i \in P : \E n \in N : rows[n] = i
        /\ \A n, m \in N : rows[n] = rows[m] => n = m
        /\ \A n, m \in N : n < m <=> Before(v, rows[n], rows[m])
    <2>1. \A i \in P : v[i].order \in Nat
      BY <1>1, <1>2
    <2> DEFINE s == Sorted(P, v)
    <2>2. /\ \A n \in DOMAIN s : s[n] \in P
          /\ \A i \in P : \E n \in DOMAIN s : s[n] = i
          /\ \A n, m \in DOMAIN s : s[n] = s[m] => n = m
          /\ \A n, m \in DOMAIN s : n < m <=> Before(v, s[n], s[m])
      BY <1>2, <2>1, SortedPlaces
    <2>3. rows = s
      BY DEF ProjectRows
    <2> HIDE DEF s, rows, P
    <2>4. QED
      BY <2>2, <2>3
  <1>5. ASSUME NEW n \in N
        PROVE  /\ Range(of(n)) = SystemsOf(D, rows[n])
               /\ \A a \in DOMAIN of(n) : of(n)[a] \in SystemsOf(D, rows[n])
               /\ \A i \in SystemsOf(D, rows[n]) : \E a \in DOMAIN of(n) : of(n)[a] = i
               /\ \A a, b \in DOMAIN of(n) : a < b <=> Before(v, of(n)[a], of(n)[b])
    <2>1. SystemsOf(D, rows[n]) \in SUBSET Items
      BY <1>2
    <2>2. \A i \in SystemsOf(D, rows[n]) : v[i].order \in Nat
      BY <1>1, <1>2
    <2>3. QED
      BY <2>1, <2>2, SortedPlaces
  <1> HIDE DEF D, P, rows, N, of, tree
  <1>6. ASSUME NEW i, i \in P PROVE i \in Visible(v) /\ IsProject(i)
    BY <1>2, <1>6 DEF Visible, ProjectsOf, D, P
  <1>7. ASSUME NEW n \in N, NEW i, i \in SystemsOf(D, rows[n])
        PROVE  i \in Visible(v) /\ ~IsProject(i) /\ <<i[1], 0>> = rows[n]
    <2>1. i \in D /\ i[1] = rows[n][1] /\ ~IsProject(i)
      BY <1>7 DEF SystemsOf
    <2>2. rows[n] = <<rows[n][1], 0>> /\ rows[n] \in D
      BY <1>2, <1>4
    <2>3. <<i[1], 0>> \in D
      BY <2>1, <2>2
    <2>4. QED
      BY <2>1, <2>2, <2>3 DEF Visible, D
  <1>8. ASSUME NEW i \in Visible(v)
        PROVE  /\ IsProject(i) => i \in P
               /\ ~IsProject(i) => \E n \in N : rows[n] = <<i[1], 0>> /\ i \in SystemsOf(D, rows[n])
    <2>1. i \in D /\ <<i[1], 0>> \in D
      BY DEF Visible, D
    <2>2. <<i[1], 0>>[1] = i[1] /\ <<i[1], 0>>[2] = 0
      OBVIOUS
    <2>3. <<i[1], 0>> \in P
      BY <2>1, <2>2 DEF P, ProjectsOf, IsProject
    <2>4. PICK n \in N : rows[n] = <<i[1], 0>>
      BY <1>4, <2>3
    <2>5. ~IsProject(i) => i \in SystemsOf(D, rows[n])
      BY <2>1, <2>2, <2>4 DEF SystemsOf
    <2>6. IsProject(i) => i \in P
      BY <2>1 DEF P, ProjectsOf
    <2>7. QED
      BY <2>4, <2>5, <2>6
  <1>9. InTree(tree) = Visible(v)
    <2>1. InTree(tree) = {rows[n] : n \in N} \union UNION {Range(of(n)) : n \in N}
      BY <1>3 DEF InTree
    <2>2. ASSUME NEW i \in InTree(tree) PROVE i \in Visible(v)
      BY <1>4, <1>5, <1>6, <1>7, <2>1
    <2>3. ASSUME NEW i \in Visible(v) PROVE i \in InTree(tree)
      <3>1. CASE IsProject(i)
        <4>1. \E n \in N : rows[n] = i
          BY <1>4, <1>8, <3>1
        <4>2. QED
          BY <2>1, <4>1
      <3>2. CASE ~IsProject(i)
        <4>1. PICK n \in N : i \in SystemsOf(D, rows[n])
          BY <1>8, <3>2
        <4>2. i \in Range(of(n))
          BY <1>5, <4>1
        <4>3. QED
          BY <2>1, <4>2
      <3>3. QED
        BY <3>1, <3>2
    <2>4. QED
      BY <2>2, <2>3
  <1>10. \A z : z \in Above(tree) <=>
           /\ z \in Visible(v) \X Visible(v)
           /\ \E n, m \in N :
                \/ z = <<rows[n], rows[m]>> /\ n < m
                \/ n = m /\ \E a, b \in DOMAIN of(n) : z = <<of(n)[a], of(n)[b]>> /\ a < b
    BY <1>3, <1>9 DEF Above
  <1>11. ASSUME NEW x, NEW y, <<x, y>> \in Above(tree)
         PROVE  x \in Visible(v) /\ y \in Visible(v) /\ SameLevel(x, y) /\ Before(v, x, y)
    <2>1. x \in Visible(v) /\ y \in Visible(v)
      BY <1>10, <1>11
    <2>2. PICK n \in N, m \in N :
            \/ <<x, y>> = <<rows[n], rows[m]>> /\ n < m
            \/ n = m /\ \E a, b \in DOMAIN of(n) : <<x, y>> = <<of(n)[a], of(n)[b]>> /\ a < b
      BY <1>10, <1>11
    <2>3. CASE <<x, y>> = <<rows[n], rows[m]>> /\ n < m
      <3>1. x = rows[n] /\ y = rows[m]
        BY <2>3
      <3>2. Before(v, x, y) /\ x \in P /\ y \in P
        BY <1>4, <2>3, <3>1
      <3>3. IsProject(x) /\ IsProject(y)
        BY <1>6, <3>2
      <3>4. QED
        BY <2>1, <3>2, <3>3 DEF SameLevel
    <2>4. CASE \E a, b \in DOMAIN of(n) : <<x, y>> = <<of(n)[a], of(n)[b]>> /\ a < b
      <3>1. PICK a \in DOMAIN of(n), b \in DOMAIN of(n) : x = of(n)[a] /\ y = of(n)[b] /\ a < b
        BY <2>4
      <3>2. Before(v, x, y) /\ x \in SystemsOf(D, rows[n]) /\ y \in SystemsOf(D, rows[n])
        BY <1>5, <3>1
      <3>3. ~IsProject(x) /\ ~IsProject(y) /\ x[1] = y[1]
        BY <3>2 DEF SystemsOf
      <3>4. QED
        BY <2>1, <3>2, <3>3 DEF SameLevel
    <2>5. QED
      BY <2>2, <2>3, <2>4
  <1>12. ASSUME NEW x \in Visible(v), NEW y \in Visible(v), SameLevel(x, y), Before(v, x, y)
         PROVE  <<x, y>> \in Above(tree)
    <2>1. CASE IsProject(x) /\ IsProject(y)
      <3>1. PICK n \in N : rows[n] = x
        BY <1>4, <1>8, <2>1
      <3>2. PICK m \in N : rows[m] = y
        BY <1>4, <1>8, <2>1
      <3>3. n < m
        BY <1>4, <1>12, <3>1, <3>2
      <3>4. QED
        BY <1>10, <3>1, <3>2, <3>3
    <2>2. CASE ~IsProject(x) /\ ~IsProject(y) /\ x[1] = y[1]
      <3>1. PICK n \in N : rows[n] = <<x[1], 0>> /\ x \in SystemsOf(D, rows[n])
        BY <1>8, <2>2
      <3>2. y \in SystemsOf(D, rows[n])
        BY <1>8, <2>2, <3>1
      <3>3. PICK a \in DOMAIN of(n) : of(n)[a] = x
        BY <1>5, <3>1
      <3>4. PICK b \in DOMAIN of(n) : of(n)[b] = y
        BY <1>5, <3>2
      <3>5. a < b
        BY <1>5, <1>12, <3>3, <3>4
      <3>6. QED
        BY <1>10, <3>3, <3>4, <3>5
    <2>3. QED
      BY <1>12, <2>1, <2>2 DEF SameLevel
  <1>13. ASSUME NEW z \in Above(tree) PROVE \E x, y \in Visible(v) : z = <<x, y>>
    BY <1>10
  <1>14. QED
    BY <1>9, <1>11, <1>12, <1>13 DEF tree

\* Two views that agree on what was sent show it alike.
LEMMA KeptAlike ==
  ASSUME NEW v, IsView(v), NEW w, IsView(w), NEW sent, Whole(sent),
         DOMAIN w = DOMAIN v \intersect sent, \A i \in DOMAIN w : v[i] = w[i]
  PROVE  /\ InTree(Tree(v)) \intersect sent = InTree(Tree(w)) \intersect sent
         /\ Above(Tree(v)) \intersect (sent \X sent) = Above(Tree(w)) \intersect (sent \X sent)
  <1>1. \A i \in sent : <<i[1], 0>> \in sent
    BY DEF Whole
  <1>2. \A i \in sent : i \in Seen(v) <=> i \in Seen(w)
    BY DEF Seen
  <1>3. \A i \in sent : i \in Visible(v) <=> i \in Visible(w)
    BY <1>1, <1>2 DEF Visible
  <1>4. ASSUME NEW x \in sent, NEW y \in sent, x \in Visible(v), y \in Visible(v)
        PROVE  Before(v, x, y) <=> Before(w, x, y)
    <2>1. x \in DOMAIN w /\ y \in DOMAIN w
      BY <1>4 DEF Visible, Seen
    <2>2. QED
      BY <2>1 DEF Before
  <1>5. InTree(Tree(v)) \intersect sent = InTree(Tree(w)) \intersect sent
    BY <1>3, TreeIs
  <1>6. ASSUME NEW x \in sent, NEW y \in sent
        PROVE  <<x, y>> \in Above(Tree(v)) <=> <<x, y>> \in Above(Tree(w))
    <2>1. <<x, y>> \in Above(Tree(v)) <=>
            x \in Visible(v) /\ y \in Visible(v) /\ SameLevel(x, y) /\ Before(v, x, y)
      BY TreeIs
    <2>2. <<x, y>> \in Above(Tree(w)) <=>
            x \in Visible(w) /\ y \in Visible(w) /\ SameLevel(x, y) /\ Before(w, x, y)
      BY TreeIs
    <2>3. QED
      BY <1>3, <1>4, <2>1, <2>2
  <1>7. Above(Tree(v)) \intersect (sent \X sent) = Above(Tree(w)) \intersect (sent \X sent)
    <2>1. \A z \in sent \X sent : \E x, y \in sent : z = <<x, y>>
      OBVIOUS
    <2>2. \A z \in sent \X sent : z \in Above(Tree(v)) <=> z \in Above(Tree(w))
      BY <1>6, <2>1
    <2>3. QED
      BY <2>2
  <1>8. QED
    BY <1>5, <1>7

\* What flattenGroups sends sorts to what the form shows, and what syncForUser and
\* forUser answer shows what was sent in its order, of all that still exists.
THEOREM SavedOrder == SidebarSpec => SavedIsShown
  <1> DEFINE Sent == (saving.at = "none" /\ saving'.at = "asked") =>
                       GroupItems(saving'.view) = form.groups
             Answered == (saving.at = "asked" /\ saving'.at = "served") =>
                       Kept(Tree(saving'.view)) =
                         Kept(Tree([i \in DOMAIN saving.view \intersect owned |-> saving.view[i]]))
  <1>1. SidebarInv /\ [SidebarNext]_sidebarVars => Sent /\ Answered
    <2> SUFFICES ASSUME SidebarInv, [SidebarNext]_sidebarVars PROVE Sent /\ Answered
      OBVIOUS
    <2>1. CASE Save
      <3>1. saving.at = "none" /\ saving'.at = "asked" /\ saving'.view = FlattenGroups(form.groups)
        BY <2>1 DEF Save
      <3>2. IsGroups(form.groups)
        BY DEF SidebarInv, FormTypes
      <3>3. GroupItems(saving'.view) = form.groups
        BY <3>1, <3>2, RoundTrip
      <3>4. QED
        BY <3>1, <3>3
    <2>2. CASE SaveServed
      <3> DEFINE sent == DOMAIN saving.view
                 w == [i \in sent \intersect owned |-> saving.view[i]]
      <3>1. /\ SidebarTypes /\ IsView(saving.view)
            /\ saving.at = "asked"
            /\ pins' = SyncForUser(saving.view)
            /\ saving' = [saving EXCEPT !.at = "served", !.view = ForUser(owned, pins')]
        BY <2>2, SavingParts DEF SidebarInv, SaveServed
      <3>2. saving'.at = "served" /\ saving'.view = ForUser(owned, pins')
        <4>1. saving' = [at |-> "served", view |-> ForUser(owned, pins'), own |-> saving.own]
          BY <3>1, SavingParts
        <4>2. QED
          BY <4>1
      <3>3. PICK v : v = saving'.view
        OBVIOUS
      <3>4. IsView(v) /\ DOMAIN v = owned /\ \A i \in sent \intersect owned : v[i] = saving.view[i]
        BY <3>1, <3>2, <3>3, SyncedIs
      <3>5. Whole(sent) /\ sent \subseteq Items /\ saving.view \in [sent -> PinRows]
        BY <3>1 DEF IsView
      <3>6. DOMAIN w = DOMAIN v \intersect sent /\ \A i \in DOMAIN w : v[i] = w[i]
        BY <3>4
      <3>7. IsView(w)
        <4>1. w \in [sent \intersect owned -> PinRows] /\ DOMAIN w = sent \intersect owned
          BY <3>5
        <4>2. Whole(sent \intersect owned)
          BY <3>1, <3>5 DEF Whole, SidebarTypes
        <4>3. QED
          BY <3>5, <4>1, <4>2 DEF IsView
      <3> HIDE DEF w, sent
      <3>8. Kept(Tree(v)) = Kept(Tree(w))
        <4>1. /\ InTree(Tree(v)) \intersect sent = InTree(Tree(w)) \intersect sent
              /\ Above(Tree(v)) \intersect (sent \X sent) = Above(Tree(w)) \intersect (sent \X sent)
          BY <3>4, <3>5, <3>6, <3>7, KeptAlike
        <4>2. QED
          BY <4>1 DEF Kept, sent
      <3>9. QED
        BY <3>1, <3>3, <3>8 DEF w, sent
    <2>3. CASE ~Save /\ ~SaveServed
      <3>1. saving'.at = saving.at \/ saving'.at = "none"
        <4>1. CASE UNCHANGED sidebarVars
          BY <4>1 DEF sidebarVars
        <4>2. CASE ReadServed \/ ReadLands \/ ReadFails \/ Retry \/ OpenSettings
          BY <4>2 DEF ReadServed, ReadLands, ReadFails, Retry, OpenSettings
        <4>3. ASSUME NEW i \in Items, Create(i) \/ RemoveItem(i) \/ SaveElsewhere(i) \/ Toggle(i)
              PROVE  saving' = saving
          BY <4>3 DEF Create, RemoveItem, SaveElsewhere, Toggle, Edited
        <4>4. CASE SaveLands \/ SaveFails
          BY <4>4 DEF SaveLands, SaveFails, NoSave
        <4>5. ASSUME NEW from, NEW to, DragProject(from, to) PROVE saving' = saving
          BY <4>5 DEF DragProject, Edited
        <4>6. ASSUME NEW i, NEW j, DragSystem(i, j) PROVE saving' = saving
          BY <4>6 DEF DragSystem, Edited
        <4>7. ASSUME NEW p, Navigate(p) PROVE saving'.at = saving.at
          <5>1. saving' = [saving EXCEPT !.own = FALSE]
            BY <4>7 DEF Navigate
          <5>2. saving = [at |-> saving.at, view |-> saving.view, own |-> saving.own]
            BY SavingParts DEF SidebarInv
          <5>3. QED
            BY <5>1, <5>2
        <4>8. ASSUME NEW p, Expand(p) \/ Turn(p) PROVE saving' = saving
          BY <4>8 DEF Expand, Turn
        <4>9. QED
          BY <2>3, <4>1, <4>2, <4>3, <4>4, <4>5, <4>6, <4>7, <4>8 DEF SidebarNext
      <3>2. QED
        BY <3>1
    <2>4. QED
      BY <2>1, <2>2, <2>3
  <1>2. QED
    BY <1>1, SidebarInvariant, PTL DEF SidebarSpec, SavedIsShown

-----------------------------------------------------------------------------
(* The pages of the sidebar.                                               *)

\* What a division by a size says of the page.
LEMMA Division ==
  ASSUME NEW n \in Nat, NEW s \in Nat \ {0}
  PROVE  /\ n \div s \in Nat
         /\ (n \div s) * s <= n
         /\ n < ((n \div s) + 1) * s
  OBVIOUS

LEMMA Products ==
  ASSUME NEW a \in Nat, NEW b \in Nat, NEW s \in Nat \ {0}, a * s < b * s
  PROVE  a < b
  OBVIOUS

\* The page of a row is one of the pages.
LEMMA PageOfRow ==
  ASSUME NEW n \in Nat \ {0}, NEW k \in 1 .. n, NEW s \in Nat \ {0}
  PROVE  (n + s - 1) \div s \in Nat \ {0} /\ (k - 1) \div s + 1 \in 1 .. (n + s - 1) \div s
  <1> DEFINE a == (k - 1) \div s
             b == (n + s - 1) \div s
  <1>1. k - 1 \in Nat /\ n + s - 1 \in Nat /\ k - 1 < n
    OBVIOUS
  <1>2. a \in Nat /\ a * s <= k - 1
    BY <1>1, Division
  <1>3. b \in Nat /\ n + s - 1 < (b + 1) * s
    BY <1>1, Division
  <1> HIDE DEF a, b
  <1>4. (b + 1) * s = b * s + s
    BY <1>3
  <1>5. a * s \in Int /\ b * s \in Int
    BY <1>2, <1>3
  <1>6. a * s < b * s
    BY <1>1, <1>2, <1>3, <1>4, <1>5
  <1>7. a < b
    BY <1>2, <1>3, <1>6, Products
  <1>8. b \in Nat \ {0} /\ a + 1 \in 1 .. b
    BY <1>2, <1>3, <1>7
  <1>9. QED
    BY <1>8 DEF a, b

LEMMA PagesAre ==
  ASSUME NEW v, IsView(v)
  PROVE  /\ PagesOf(v) \in Nat \ {0}
         /\ \A k \in DOMAIN ProjectRows(v) : (k - 1) \div NavSize + 1 \in 1 .. PagesOf(v)
  <1> DEFINE P == ProjectsOf(Seen(v))
             n == Cardinality(P)
  <1>1. P \in SUBSET Items /\ \A i \in P : v[i].order \in Nat
    BY DEF Seen, ProjectsOf, IsView, PinRows
  <1>2. n \in Nat /\ DOMAIN ProjectRows(v) = 1 .. n
    <2>1. DOMAIN Sorted(P, v) = 1 .. Cardinality(P) /\ Cardinality(P) \in Nat
      BY <1>1, SortedPlaces
    <2>2. QED
      BY <2>1 DEF ProjectRows
  <1>3. PagesOf(v) = IF n = 0 THEN 1 ELSE (n + NavSize - 1) \div NavSize
    BY DEF PagesOf
  <1> HIDE DEF n
  <1>4. CASE n = 0
    BY <1>2, <1>3, <1>4
  <1>5. CASE n # 0
    <2>1. n \in Nat \ {0} /\ 1 \in 1 .. n /\ NavSize \in Nat \ {0}
      BY <1>2, <1>5, SideBounds
    <2>2. PagesOf(v) = (n + NavSize - 1) \div NavSize
      BY <1>3, <1>5
    <2>3. PagesOf(v) \in Nat \ {0}
      BY <2>1, <2>2, PageOfRow
    <2>4. \A k \in 1 .. n : (k - 1) \div NavSize + 1 \in 1 .. PagesOf(v)
      BY <2>1, <2>2, PageOfRow
    <2>5. QED
      BY <1>2, <2>3, <2>4
  <1>6. QED
    BY <1>4, <1>5

SidebarOf(s, v) ==
  /\ s = [page |-> s.page, expanded |-> s.expanded, path |-> s.path]
  /\ s.page \in 1 .. PagesOf(v)
  /\ s.path \in 0 .. MaxProject /\ s.expanded \in 0 .. MaxProject

PageInv == SidebarOf(sidebar, query.data)

LEMMA ClampedIs ==
  ASSUME PageInv, IsView(query.data), NEW v, IsView(v)
  PROVE  SidebarOf(Clamped(v), v)
  <1> DEFINE q == IF sidebar.page > PagesOf(v) THEN PagesOf(v) ELSE sidebar.page
  <1>1. /\ sidebar = [page |-> sidebar.page, expanded |-> sidebar.expanded,
                      path |-> sidebar.path]
        /\ sidebar.page \in 1 .. PagesOf(query.data)
        /\ sidebar.path \in 0 .. MaxProject /\ sidebar.expanded \in 0 .. MaxProject
    BY DEF PageInv, SidebarOf
  <1>2. PagesOf(v) \in Nat \ {0} /\ PagesOf(query.data) \in Nat \ {0}
    BY PagesAre
  <1>3. q \in 1 .. PagesOf(v)
    BY <1>1, <1>2
  <1>4. Clamped(v) = [sidebar EXCEPT !.page = q]
    BY DEF Clamped
  <1> HIDE DEF q
  <1>5. Clamped(v) = [page |-> q, expanded |-> sidebar.expanded, path |-> sidebar.path]
    BY <1>1, <1>4
  <1>6. PICK c : c = Clamped(v)
    OBVIOUS
  <1>7. c.page = q /\ c.expanded = sidebar.expanded /\ c.path = sidebar.path
        /\ c = [page |-> c.page, expanded |-> c.expanded, path |-> c.path]
    BY <1>5, <1>6
  <1>8. QED
    BY <1>1, <1>3, <1>6, <1>7 DEF SidebarOf

LEMMA NavigatePage ==
  ASSUME PageInv, IsView(query.data), NEW p \in 0 .. MaxProject, Navigate(p)
  PROVE  SidebarOf(sidebar', query.data)
  <1> DEFINE rows == ProjectRows(query.data)
             at == {n \in DOMAIN rows : rows[n] = <<p, 0>>}
             e == IF at = {} THEN sidebar.expanded ELSE p
             q == IF at = {} THEN sidebar.page ELSE (Max(at) - 1) \div NavSize + 1
  <1>1. sidebar' = [path |-> p, expanded |-> e, page |-> q]
    BY DEF Navigate
  <1>2. /\ sidebar.page \in 1 .. PagesOf(query.data) /\ sidebar.expanded \in 0 .. MaxProject
    BY DEF PageInv, SidebarOf
  <1>3. e \in 0 .. MaxProject
    BY <1>2
  <1>4. q \in 1 .. PagesOf(query.data)
    <2>1. CASE at = {}
      BY <1>2, <2>1
    <2>2. CASE at # {}
      <3>1. PICK k \in DOMAIN rows : rows[k] = <<p, 0>>
        BY <2>2
      <3>2. \A i, j \in DOMAIN rows : rows[i] = rows[j] => i = j
        <4>1. /\ ProjectsOf(Seen(query.data)) \in SUBSET Items
              /\ \A i \in ProjectsOf(Seen(query.data)) : query.data[i].order \in Nat
          BY DEF Seen, ProjectsOf, IsView, PinRows
        <4>2. QED
          BY <4>1, SortedPlaces DEF ProjectRows
      <3>3. at = {k}
        BY <3>1, <3>2
      <3>4. k \in Int
        <4>1. /\ ProjectsOf(Seen(query.data)) \in SUBSET Items
              /\ \A i \in ProjectsOf(Seen(query.data)) : query.data[i].order \in Nat
          BY DEF Seen, ProjectsOf, IsView, PinRows
        <4>2. DOMAIN rows = 1 .. Cardinality(ProjectsOf(Seen(query.data)))
          BY <4>1, SortedPlaces DEF ProjectRows
        <4>3. QED
          BY <4>2
      <3>5. Max({k}) = k
        BY <3>4 DEF Max
      <3>6. q = (k - 1) \div NavSize + 1
        BY <2>2, <3>3, <3>5
      <3> HIDE DEF q, rows
      <3>7. k \in DOMAIN ProjectRows(query.data)
        BY DEF rows
      <3>8. QED
        BY <3>6, <3>7, PagesAre
    <2>3. QED
      BY <2>1, <2>2
  <1> HIDE DEF e, q
  <1>5. /\ sidebar'.page = q /\ sidebar'.expanded = e /\ sidebar'.path = p
        /\ sidebar' = [page |-> sidebar'.page, expanded |-> sidebar'.expanded,
                       path |-> sidebar'.path]
    BY <1>1
  <1>6. QED
    BY <1>3, <1>4, <1>5 DEF SidebarOf

LEMMA PageKeeps == SidebarInv /\ PageInv /\ [SidebarNext]_sidebarVars => PageInv'
  <1> SUFFICES ASSUME SidebarInv, PageInv, [SidebarNext]_sidebarVars PROVE PageInv'
    OBVIOUS
  <1>0. IsView(query.data) /\ IsView(reading.view) /\ IsView(saving.view)
    BY DEF SidebarInv, SidebarTypes
  <1>1. ASSUME query'.data = query.data, sidebar' = sidebar PROVE PageInv'
    BY <1>1 DEF PageInv, SidebarOf
  <1>2. ASSUME query'.data = query.data, SidebarOf(sidebar', query.data) PROVE PageInv'
    BY <1>2 DEF PageInv
  <1>3. ASSUME NEW v, IsView(v), query'.data = v, sidebar' = Clamped(v) PROVE PageInv'
    BY <1>0, <1>3, ClampedIs DEF PageInv
  <1>4. CASE ReadServed \/ Retry \/ Save \/ SaveServed \/ SaveFails
    BY <1>1, <1>4 DEF ReadServed, Retry, Save, SaveServed, SaveFails
  <1>5. CASE ReadLands
    <2>1. query' = [data |-> reading.view, failed |-> FALSE] /\ sidebar' = Clamped(reading.view)
      BY <1>5 DEF ReadLands, Shows
    <2>2. query'.data = reading.view
      BY <2>1
    <2>3. QED
      BY <1>0, <1>3, <2>1, <2>2
  <1>6. CASE ReadFails
    <2>1. query' = [query EXCEPT !.failed = TRUE] /\ sidebar' = sidebar
      BY <1>6 DEF ReadFails
    <2>2. query = [data |-> query.data, failed |-> query.failed]
      BY DEF SidebarInv, SidebarTypes
    <2>3. query'.data = query.data
      BY <2>1, <2>2
    <2>4. QED
      BY <1>1, <2>1, <2>3
  <1>7. ASSUME NEW i \in Items, Create(i) \/ RemoveItem(i) \/ SaveElsewhere(i) \/ Toggle(i)
        PROVE  PageInv'
    BY <1>1, <1>7 DEF Create, RemoveItem, SaveElsewhere, Toggle, Edited
  <1>8. CASE OpenSettings
    <2>1. /\ sidebar = [page |-> sidebar.page, expanded |-> sidebar.expanded,
                        path |-> sidebar.path]
          /\ sidebar.page \in 1 .. PagesOf(query.data) /\ sidebar.expanded \in 0 .. MaxProject
      BY DEF PageInv, SidebarOf
    <2>2. sidebar' = [sidebar EXCEPT !.path = 0] /\ query' = query
      BY <1>8 DEF OpenSettings
    <2>3. sidebar' = [page |-> sidebar.page, expanded |-> sidebar.expanded, path |-> 0]
      BY <2>1, <2>2
    <2>4. /\ sidebar'.page = sidebar.page /\ sidebar'.expanded = sidebar.expanded
          /\ sidebar'.path = 0
          /\ sidebar' = [page |-> sidebar'.page, expanded |-> sidebar'.expanded,
                         path |-> sidebar'.path]
      BY <2>3
    <2>5. 0 \in 0 .. MaxProject
      BY SideBounds
    <2>6. QED
      BY <1>2, <2>1, <2>2, <2>4, <2>5 DEF SidebarOf
  <1>9. CASE SaveLands
    <2>1. query' = [data |-> saving.view, failed |-> FALSE] /\ sidebar' = Clamped(saving.view)
      BY <1>9 DEF SaveLands
    <2>2. query'.data = saving.view
      BY <2>1
    <2>3. QED
      BY <1>0, <1>3, <2>1, <2>2
  <1>10. ASSUME NEW from, NEW to, DragProject(from, to) PROVE PageInv'
    BY <1>1, <1>10 DEF DragProject, Edited
  <1>11. ASSUME NEW i, NEW j, DragSystem(i, j) PROVE PageInv'
    BY <1>1, <1>11 DEF DragSystem, Edited
  <1>12. ASSUME NEW p \in 0 .. MaxProject, Navigate(p) PROVE PageInv'
    <2>1. query' = query
      BY <1>12 DEF Navigate
    <2>2. QED
      BY <1>0, <1>2, <1>12, <2>1, NavigatePage
  <1>13. ASSUME NEW p \in 1 .. MaxProject, Expand(p) \/ Turn(p) PROVE PageInv'
    <2>1. /\ sidebar = [page |-> sidebar.page, expanded |-> sidebar.expanded,
                        path |-> sidebar.path]
          /\ sidebar.page \in 1 .. PagesOf(query.data)
          /\ sidebar.path \in 0 .. MaxProject /\ sidebar.expanded \in 0 .. MaxProject
      BY DEF PageInv, SidebarOf
    <2>2. query' = query /\ p \in 0 .. MaxProject /\ 0 \in 0 .. MaxProject
      BY <1>13, SideBounds DEF Expand, Turn
    <2>3. CASE Expand(p)
      <3>1. PICK e \in 0 .. MaxProject : sidebar' = [sidebar EXCEPT !.expanded = e]
        BY <2>2, <2>3 DEF Expand
      <3>2. sidebar' = [page |-> sidebar.page, expanded |-> e, path |-> sidebar.path]
        BY <2>1, <3>1
      <3>3. /\ sidebar'.page = sidebar.page /\ sidebar'.expanded = e
            /\ sidebar'.path = sidebar.path
            /\ sidebar' = [page |-> sidebar'.page, expanded |-> sidebar'.expanded,
                           path |-> sidebar'.path]
        BY <3>2
      <3>4. QED
        BY <1>2, <2>1, <2>2, <3>3 DEF SidebarOf
    <2>4. CASE Turn(p)
      <3>1. p \in 1 .. PagesOf(query.data) /\ sidebar' = [sidebar EXCEPT !.page = p]
        BY <2>4 DEF Turn
      <3>2. sidebar' = [page |-> p, expanded |-> sidebar.expanded, path |-> sidebar.path]
        BY <2>1, <3>1
      <3>3. /\ sidebar'.page = p /\ sidebar'.expanded = sidebar.expanded
            /\ sidebar'.path = sidebar.path
            /\ sidebar' = [page |-> sidebar'.page, expanded |-> sidebar'.expanded,
                           path |-> sidebar'.path]
        BY <3>2
      <3>4. QED
        BY <1>2, <2>1, <2>2, <3>1, <3>3 DEF SidebarOf
    <2>5. QED
      BY <1>13, <2>3, <2>4
  <1>14. CASE UNCHANGED sidebarVars
    BY <1>1, <1>14 DEF sidebarVars
  <1>15. QED
    BY <1>4, <1>5, <1>6, <1>7, <1>8, <1>9, <1>10, <1>11, <1>12, <1>13, <1>14 DEF SidebarNext

LEMMA InitPage == SidebarInit => PageInv
  <1> SUFFICES ASSUME SidebarInit PROVE PageInv
    OBVIOUS
  <1>1. query.data = Unloaded /\ sidebar = [page |-> 1, expanded |-> 0, path |-> 0]
    BY DEF SidebarInit
  <1>2. PagesOf(query.data) \in Nat \ {0}
    BY <1>1, NothingIsView, PagesAre
  <1>3. 0 \in 0 .. MaxProject
    BY SideBounds
  <1>4. QED
    BY <1>1, <1>2, <1>3 DEF PageInv, SidebarOf

\* The form is well formed, and the page of the sidebar is one it has whatever is
\* hidden or deleted: the render that clamps it sees every change of the data.
THEOREM SidebarTyping == SidebarSpec => []SidebarTypeOK
  <1>1. SidebarInv /\ PageInv => SidebarTypeOK
    <2> SUFFICES ASSUME SidebarInv, PageInv PROVE SidebarTypeOK
      OBVIOUS
    <2>1. /\ owned \subseteq Items /\ unborn \subseteq Later \ owned
          /\ \A i \in owned : <<i[1], 0>> \in owned
          /\ DOMAIN pins \subseteq owned
          /\ reading.at \in {"none", "asked", "served"}
          /\ saving.at \in {"none", "asked", "served"}
      BY DEF SidebarInv, SidebarTypes, Stored, Whole, ReadStages
    <2>2. Range(form.groups.projects) = DOMAIN form.groups.systems
      BY DEF SidebarInv, FormTypes, IsGroups
    <2>3. saving.own => form.open
      BY DEF SidebarInv, FormInv
    <2>4. /\ sidebar.page \in 1 .. PagesOf(query.data)
          /\ sidebar.path \in 0 .. MaxProject /\ sidebar.expanded \in 0 .. MaxProject
      BY DEF PageInv, SidebarOf
    <2>5. QED
      BY <2>1, <2>2, <2>3, <2>4 DEF SidebarTypeOK
  <1>2. QED
    BY <1>1, SidebarInvariant, InitPage, PageKeeps, PTL DEF SidebarSpec

-----------------------------------------------------------------------------
(* The two together: each is as it is alone.                               *)

LEMMA AloneClient == ClientSpec => SetupSpec /\ SidebarSpec
  <1>1. ClientInit => SetupInit /\ SidebarInit
    BY DEF ClientInit
  <1>2. [ClientNext]_<<part, setupVars, sidebarVars>> =>
          [SetupNext]_setupVars /\ [SidebarNext]_sidebarVars
    BY DEF ClientNext
  <1>3. QED
    BY <1>1, <1>2, PTL DEF ClientSpec, SetupSpec, SidebarSpec

\* The states of the guide and of the sidebar are well formed.
THEOREM ClientTyping == ClientSpec => []TypeOK
  <1>1. SetupTypeOK /\ SidebarTypeOK => TypeOK
    BY DEF TypeOK
  <1>2. QED
    BY <1>1, AloneClient, SetupTyping, SidebarTyping, PTL
=============================================================================
