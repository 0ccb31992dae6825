-------------------------- MODULE SidebarSettings --------------------------
(* The tree of projects in the sidebar, the page "Navegação" that chooses what
   is in it and in which order, and the service that stores the choice. The
   cached query has two readers, the form of the settings page keeps a copy of
   it that the user edits, and four things can replace it: the answer to a
   save, a refetch after a project or a system was created or deleted, and what
   another tab saved in between.                                            *)
EXTENDS Integers, Sequences, FiniteSets, FiniteSetsExt, SequencesExt

CONSTANTS
    MaxProject,     \* bound: projects, numbered as they are created
    MaxSystem,      \* bound: systems of a project, numbered by name
    First, Later,   \* items there are at first, and that are created later
    NavSize,        \* SIDEBAR_NAV_PAGE_SIZE
    MaxEdits,       \* bound: edits of the form
    MaxChanges      \* bound: deletions, saves by another tab and requests that fail

\* <<p, 0>> is project p, <<p, s>> its system s
Items == (1 .. MaxProject) \X (0 .. MaxSystem)

ASSUME SidebarAssumption ==
    /\ {MaxProject, NavSize} \subseteq Nat \ {0}
    /\ {MaxSystem, MaxEdits, MaxChanges} \subseteq Nat
    /\ First \union Later \subseteq Items /\ First \intersect Later = {}
    /\ \A i \in First : <<i[1], 0>> \in First

VARIABLES
    owned,     \* the projects and systems that exist
    unborn,    \* those still to be created
    pins,      \* user_navigation_pins: item -> [visible, order]
    query,     \* the cached query: its data and whether the last read failed
    reading,   \* the read on its way: "none", "asked", or what the API answered
    form,      \* the settings page: is it open, groups, dirty, groupsSource
    saving,    \* the save on its way
    sidebar,   \* the page of the tree, the project that is expanded, the path
    edits, changes,     \* bounds
    blurred    \* history: why the cache may differ from the server: a request
               \* failed, another tab saved, or a read and a change crossed

sidebarVars == <<owned, unborn, pins, query, reading, form, saving, sidebar,
                 edits, changes, blurred>>

IsProject(i) == i[2] = 0
\* the order in which forUser visits the items: projects as created, systems by name
Visited(i, j) == i[1] < j[1] \/ (i[1] = j[1] /\ i[2] < j[2])

\* What the API answers (items) is a function from the items to visible and order.
ForUser(items, saved) ==
    [i \in items |->
        IF i \in DOMAIN saved THEN saved[i]
        ELSE [visible |-> TRUE, order |-> Cardinality({j \in items : Visited(j, i)})]]

Unloaded == [i \in {} |-> [visible |-> TRUE, order |-> 0]]

\* usort, sortBy and the client's sort are stable: equal orders keep forUser's.
Before(view, j, i) ==
    \/ view[j].order < view[i].order
    \/ view[j].order = view[i].order /\ Visited(j, i)

Sorted(S, view) ==
    CHOOSE s \in [1 .. Cardinality(S) -> S] :
        \A n, m \in DOMAIN s : n < m => Before(view, s[n], s[m])

ProjectsOf(items) == {i \in items : IsProject(i)}
SystemsOf(items, p) == {i \in items : i[1] = p[1] /\ ~IsProject(i)}

Seen(view) == {i \in DOMAIN view : view[i].visible}

\* buildTree: the visible projects, each with its visible systems
ProjectRows(view) == Sorted(ProjectsOf(Seen(view)), view)
Tree(view) ==
    LET projects == ProjectRows(view) IN
    [n \in DOMAIN projects |->
        [project |-> projects[n], systems |-> Sorted(SystemsOf(Seen(view), projects[n]), view)]]

\* groupItems: every project with its systems, and which of them are hidden
GroupItems(view) ==
    LET all == DOMAIN view IN
    [projects |-> Sorted(ProjectsOf(all), view),
     systems |-> [p \in ProjectsOf(all) |-> Sorted(SystemsOf(all, p), view)],
     hidden |-> {i \in all : ~view[i].visible}]

InGroups(groups) ==
    Range(groups.projects) \union UNION {Range(groups.systems[p]) : p \in Range(groups.projects)}

Place(s, x) == CHOOSE n \in DOMAIN s : s[n] = x

\* flattenGroups numbers each project, then its systems, then the next project
FlatBefore(groups, j, i) ==
    LET of(x) == Place(groups.projects, <<x[1], 0>>)
        at(x) == IF IsProject(x) THEN 0 ELSE Place(groups.systems[<<x[1], 0>>], x)
    IN of(j) < of(i) \/ (of(j) = of(i) /\ at(j) < at(i))

ProjectsBefore(groups, j, i) ==
    IsProject(j) /\ Place(groups.projects, j) < Place(groups.projects, <<i[1], 0>>)

FlattenGroupsByProject(groups) ==
    [i \in InGroups(groups) |->
        [visible |-> i \notin groups.hidden,
         order |-> Cardinality({j \in InGroups(groups) : ProjectsBefore(groups, j, i)})]]

FlattenGroups(groups) ==
    [i \in InGroups(groups) |->
        [visible |-> i \notin groups.hidden,
         order |-> Cardinality({j \in InGroups(groups) : FlatBefore(groups, j, i)})]]

\* syncForUser skips what the user does not own (any more) and overwrites or
\* inserts the rest
SyncForUser(payload) ==
    LET kept == DOMAIN payload \intersect owned IN
    [i \in DOMAIN pins \union kept |-> IF i \in kept THEN payload[i] ELSE pins[i]]

-----------------------------------------------------------------------------
(* What a render makes of the query's data                                  *)

\* unsaved is history: a save failed, or the form was edited while one was on
\* its way, and no save was started since
Opened(view) == [open |-> TRUE, groups |-> GroupItems(view), dirty |-> FALSE,
                 source |-> view, unsaved |-> FALSE]
Closed == [Opened(Unloaded) EXCEPT !.open = FALSE]

\* The form takes the items again whenever their signature changes, and forgets
\* the user's edits.
FormShows(view) == IF form.open /\ view # form.source THEN Opened(view) ELSE form

PagesOf(view) == LET n == Cardinality(ProjectsOf(Seen(view))) IN
    IF n = 0 THEN 1 ELSE (n + NavSize - 1) \div NavSize

Clamped(view) == LET pages == PagesOf(view) IN
    [sidebar EXCEPT !.page = IF @ > pages THEN pages ELSE @]

UnclampedShows(view, failed) ==
    /\ query' = [data |-> view, failed |-> failed]
    /\ form' = FormShows(view)
    /\ UNCHANGED sidebar

Shows(view, failed) ==
    /\ query' = [data |-> view, failed |-> failed]
    /\ form' = FormShows(view)
    /\ sidebar' = Clamped(view)

NoRead == [at |-> "none", view |-> Unloaded]
Asking == [at |-> "asked", view |-> Unloaded]
\* own: the form that saves is still open
NoSave == [at |-> "none", view |-> Unloaded, own |-> FALSE]

SidebarInit ==
    /\ owned = First /\ unborn = Later
    /\ pins = Unloaded
    /\ query = [data |-> Unloaded, failed |-> FALSE]
    /\ reading = Asking
    /\ form = Closed
    /\ saving = NoSave
    /\ sidebar = [page |-> 1, expanded |-> 0, path |-> 0]
    /\ edits = 0 /\ changes = 0 /\ blurred = FALSE

-----------------------------------------------------------------------------
(* The query                                                                *)

ReadServed ==
    /\ reading.at = "asked"
    /\ reading' = [at |-> "served", view |-> ForUser(owned, pins)]
    /\ UNCHANGED <<owned, unborn, pins, query, form, saving, sidebar, edits, changes, blurred>>

ReadLands ==
    /\ reading.at = "served"
    /\ reading' = NoRead
    /\ Shows(reading.view, FALSE)
    /\ UNCHANGED <<owned, unborn, pins, saving, edits, changes, blurred>>

\* The data of an earlier answer stays in the sidebar.
ReadFails ==
    /\ reading.at # "none" /\ changes < MaxChanges
    /\ reading' = NoRead
    /\ query' = [query EXCEPT !.failed = TRUE]
    /\ changes' = changes + 1
    /\ blurred' = TRUE
    /\ UNCHANGED <<owned, unborn, pins, form, saving, sidebar, edits>>

\* An identical query that is on its way is shared.
Asked == IF reading.at = "none" THEN Asking ELSE reading

Retry ==
    /\ form.open /\ query.failed
    /\ reading' = Asked
    /\ UNCHANGED <<owned, unborn, pins, query, form, saving, sidebar, edits, changes, blurred>>

-----------------------------------------------------------------------------
(* Projects and systems come and go, and another tab saves                  *)

\* invalidateSidebarNavigation, by the hook that created or deleted something
Invalidate(crossing) ==
    /\ reading' = Asked
    /\ blurred' = (blurred \/ reading.at = "served" \/ crossing)

CreateQuietly(i) ==
    /\ i \in unborn /\ (~IsProject(i) => <<i[1], 0>> \in owned)
    /\ owned' = owned \union {i}
    /\ unborn' = unborn \ {i}
    /\ UNCHANGED <<pins, query, reading, form, saving, sidebar, edits, changes, blurred>>

Create(i) ==
    /\ i \in unborn /\ (~IsProject(i) => <<i[1], 0>> \in owned)
    /\ owned' = owned \union {i}
    /\ unborn' = unborn \ {i}
    /\ Invalidate(saving.at # "none")
    /\ UNCHANGED <<pins, query, form, saving, sidebar, edits, changes>>

\* The foreign keys delete the systems and the pins.
RemoveItem(i) ==
    LET gone == IF IsProject(i) THEN {j \in Items : j[1] = i[1]} ELSE {i} IN
    /\ i \in owned /\ changes < MaxChanges
    /\ changes' = changes + 1
    /\ owned' = owned \ gone
    /\ unborn' = unborn \ gone
    /\ pins' = [j \in DOMAIN pins \ gone |-> pins[j]]
    /\ Invalidate(saving.at # "none")
    /\ UNCHANGED <<query, form, saving, sidebar, edits>>

\* Another tab saves its form with one thing shown or hidden.
SaveElsewhere(i) ==
    LET view == ForUser(owned, pins) IN
    /\ i \in owned /\ changes < MaxChanges
    /\ changes' = changes + 1
    /\ pins' = FlattenGroups(GroupItems([view EXCEPT ![i].visible = ~@]))
    /\ blurred' = TRUE
    /\ UNCHANGED <<owned, unborn, query, reading, form, saving, sidebar, edits>>

-----------------------------------------------------------------------------
(* The form                                                                 *)

OpenSettings ==
    /\ ~form.open
    /\ form' = Opened(query.data)
    /\ sidebar' = [sidebar EXCEPT !.path = 0]
    /\ UNCHANGED <<owned, unborn, pins, query, reading, saving, edits, changes, blurred>>

\* ErrorShow replaces the form while the query has an error.
Usable == form.open /\ ~query.failed

\* Every edit marks the form dirty, one that changes nothing too.
Edited(groups) ==
    /\ Usable /\ edits < MaxEdits
    /\ form' = [form EXCEPT !.groups = groups, !.dirty = TRUE, !.unsaved = @ \/ saving.own]
    /\ edits' = edits + 1
    /\ UNCHANGED <<owned, unborn, pins, query, reading, saving, sidebar, changes, blurred>>

\* arrayMove; the arrows of moveProject and moveSystem move by one place
ArrayMove(s, from, to) == InsertAt(RemoveAt(s, from), to, s[from])

DragProject(from, to) ==
    /\ {from, to} \subseteq DOMAIN form.groups.projects /\ from # to
    /\ Edited([form.groups EXCEPT !.projects = ArrayMove(@, from, to)])

\* A system dropped on one of another project stays where it is.
DragSystem(i, j) ==
    LET p == <<i[1], 0>> IN
    /\ {i, j} \subseteq InGroups(form.groups) /\ i # j /\ ~IsProject(i) /\ ~IsProject(j)
    /\ Edited(IF i[1] # j[1] THEN form.groups
              ELSE [form.groups EXCEPT !.systems[p] = ArrayMove(@, Place(@, i), Place(@, j))])

Toggle(i) ==
    /\ i \in InGroups(form.groups)
    /\ Edited([form.groups EXCEPT !.hidden = IF i \in @ THEN @ \ {i} ELSE @ \union {i}])

\* One save at a time: a bound for forms that are closed and opened again.
Save ==
    /\ Usable /\ form.dirty /\ saving.at = "none"
    /\ saving' = [at |-> "asked", view |-> FlattenGroups(form.groups), own |-> TRUE]
    /\ form' = [form EXCEPT !.unsaved = FALSE]
    /\ blurred' = (blurred \/ reading.at # "none")
    /\ UNCHANGED <<owned, unborn, pins, query, reading, sidebar, edits, changes>>

SaveServed ==
    /\ saving.at = "asked"
    /\ pins' = SyncForUser(saving.view)
    /\ saving' = [saving EXCEPT !.at = "served", !.view = ForUser(owned, pins')]
    /\ UNCHANGED <<owned, unborn, query, reading, form, sidebar, edits, changes, blurred>>

\* handleSave ends with setDirty(false), whether the save succeeded or not.
SaveLandsUnwritten ==
    /\ saving.at = "served"
    /\ saving' = NoSave
    /\ form' = [form EXCEPT !.dirty = @ /\ ~saving.own]
    /\ UNCHANGED <<owned, unborn, pins, query, reading, sidebar, edits, changes, blurred>>

SaveLands ==
    /\ saving.at = "served"
    /\ saving' = NoSave
    /\ query' = [data |-> saving.view, failed |-> FALSE]
    /\ form' = [FormShows(saving.view) EXCEPT !.dirty = @ /\ ~saving.own]
    /\ sidebar' = Clamped(saving.view)
    /\ UNCHANGED <<owned, unborn, pins, reading, edits, changes, blurred>>

SaveFails ==
    /\ saving.at # "none" /\ changes < MaxChanges
    /\ saving' = NoSave
    /\ form' = IF saving.own THEN [form EXCEPT !.dirty = FALSE, !.unsaved = TRUE] ELSE form
    /\ changes' = changes + 1
    /\ blurred' = TRUE
    /\ UNCHANGED <<owned, unborn, pins, query, reading, sidebar, edits>>

-----------------------------------------------------------------------------
(* The sidebar                                                              *)

\* The sidebar follows the path to a project it shows, once: a path it was
\* loaded with, or that came before the data, turns no page.
Navigate(p) ==
    LET rows == ProjectRows(query.data)
        at == {n \in DOMAIN rows : rows[n] = <<p, 0>>}
    IN
    /\ p # sidebar.path /\ (p # 0 => <<p, 0>> \in owned)
    /\ sidebar' = [path |-> p,
                   expanded |-> IF at = {} THEN sidebar.expanded ELSE p,
                   page |-> IF at = {} THEN sidebar.page
                            ELSE (Max(at) - 1) \div NavSize + 1]
    /\ form' = Closed
    /\ saving' = [saving EXCEPT !.own = FALSE]
    /\ UNCHANGED <<owned, unborn, pins, query, reading, edits, changes, blurred>>

OnPage == LET rows == ProjectRows(query.data) IN
    {rows[n] : n \in {m \in DOMAIN rows : (m - 1) \div NavSize + 1 = sidebar.page}}

Expand(p) ==
    /\ <<p, 0>> \in OnPage
    /\ sidebar' = [sidebar EXCEPT !.expanded = IF @ = p THEN 0 ELSE p]
    /\ UNCHANGED <<owned, unborn, pins, query, reading, form, saving, edits, changes, blurred>>

Turn(page) ==
    /\ page \in 1 .. PagesOf(query.data) /\ page \in {sidebar.page - 1, sidebar.page + 1}
    /\ sidebar' = [sidebar EXCEPT !.page = page]
    /\ UNCHANGED <<owned, unborn, pins, query, reading, form, saving, edits, changes, blurred>>

SidebarNext ==
    \/ ReadServed \/ ReadLands \/ ReadFails \/ Retry
    \/ \E i \in Items : Create(i) \/ RemoveItem(i) \/ SaveElsewhere(i) \/ Toggle(i)
    \/ OpenSettings \/ Save \/ SaveServed \/ SaveLands \/ SaveFails
    \/ \E from, to \in 1 .. MaxProject : DragProject(from, to)
    \/ \E i, j \in Items : DragSystem(i, j)
    \/ \E p \in 0 .. MaxProject : Navigate(p)
    \/ \E p \in 1 .. MaxProject : Expand(p) \/ Turn(p)

SidebarSpec == SidebarInit /\ [][SidebarNext]_sidebarVars

-----------------------------------------------------------------------------
(* Properties                                                               *)

\* Among the rest: the page of the sidebar is one it has, whatever is hidden or
\* deleted (projects-sidebar-nav.tsx, setPage(totalPages) in the render).
SidebarTypeOK ==
    /\ owned \subseteq Items /\ unborn \subseteq Later \ owned
    /\ \A i \in owned : <<i[1], 0>> \in owned
    /\ DOMAIN pins \subseteq owned
    /\ form.open => Range(form.groups.projects) = DOMAIN form.groups.systems
    /\ sidebar.page \in 1 .. PagesOf(query.data)
    /\ sidebar.path \in 0 .. MaxProject /\ sidebar.expanded \in 0 .. MaxProject
    /\ reading.at \in {"none", "asked", "served"} /\ saving.at \in {"none", "asked", "served"}
    /\ saving.own => form.open

\* When the form offers nothing to save, what it shows is what the query says is
\* stored: a save that succeeded, and an answer that arrived under the user's
\* hands, leave no edit that looks saved and is not. The exception is
\* setDirty(false) after a save that failed, or over an edit made meanwhile.
CleanIsStored ==
    (form.open /\ ~form.dirty /\ ~saving.own /\ ~form.unsaved) =>
        form.groups = GroupItems(query.data)

\* What a tree shows, what is above what of the same level, and of that what
\* was sent.
InTree(tree) ==
    {tree[n].project : n \in DOMAIN tree} \union UNION {Range(tree[n].systems) : n \in DOMAIN tree}
Above(tree) ==
    {x \in InTree(tree) \X InTree(tree) :
        \E n, m \in DOMAIN tree :
            \/ x = <<tree[n].project, tree[m].project>> /\ n < m
            \/ /\ n = m
               /\ \E a, b \in DOMAIN tree[n].systems :
                    x = <<tree[n].systems[a], tree[n].systems[b]>> /\ a < b}
Kept(tree) ==
    LET sent == DOMAIN saving.view IN
    [rows |-> InTree(tree) \intersect sent, above |-> Above(tree) \intersect (sent \X sent)]

\* A saved order is the order of the sidebar: flattenGroups, syncForUser, forUser
\* and buildTree, each of which renumbers or sorts, keep what the form showed
\* when it was saved. What is sent sorts to what the form shows, and what comes
\* back sorts to what was sent, of all that still exists.
SavedIsShown ==
    [][/\ (saving.at = "none" /\ saving'.at = "asked") =>
            GroupItems(saving'.view) = form.groups
       /\ (saving.at = "asked" /\ saving'.at = "served") =>
            Kept(Tree(saving'.view)) =
              Kept(Tree([i \in DOMAIN saving.view \intersect owned |-> saving.view[i]]))]_sidebarVars

\* With nothing on its way the sidebar is what the API would answer now, however
\* creations, deletions and saves of this tab came in, unless a request failed,
\* another tab saved, or a read and a change crossed.
SidebarIsCurrent ==
    (reading.at = "none" /\ saving.at = "none" /\ ~blurred) =>
        query.data = ForUser(owned, pins)
=============================================================================
