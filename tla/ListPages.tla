----------------------------- MODULE ListPages ------------------------------
(* The pages of the web client that list, filter and delete: the two         *)
(* catalogs, the users, the notifications, the history of remediation, the   *)
(* dispatches of a system and the cards of projects and systems. They are    *)
(* one machine with different parts: a pager, filters of three kinds, a      *)
(* dialog that asks before a deletion, deletions on their way, answers that  *)
(* replace the list. A behaviour is one page in one browser.                 *)
EXTENDS Naturals, FiniteSets, FiniteSetsExt

CONSTANTS
    Rows,       \* bound: how many items there can be; the newest comes first
    PageSize,   \* DEFAULT_PAGE_SIZE
    Found,      \* the items a search (users) or a date (history) keeps
    Mine,       \* the items an author (catalogs) or a role (users) keeps at first
    MaxPending  \* bound: mutations on their way at once

ASSUME ListAssumption ==
    /\ Rows \in Nat /\ PageSize \in Nat \ {0}
    /\ Found \subseteq 1..Rows /\ Mine \subseteq 1..Rows
    /\ MaxPending \in Nat

VARIABLES
    list,       \* which page this is
    stored,     \* the items that exist
    mine,       \* those the author or the role selects
    pager,      \* page, and the filters its query has
    draft,      \* filters the user has entered, not applied yet
    waiting,    \* is the 300 ms timer of the search running?
    answer,     \* the query's data
    fetching,   \* isFetching
    target,     \* the item the dialog asks about, 0: there is no dialog
    all,        \* is the dialog open that asks about everything?
    deletions,  \* deletions and changes of a role that are on their way
    marked,     \* deletingId of the notifications
    gone,       \* items that no longer exist
    acked,      \* history: the users an administrator was told are deleted
    left        \* history: items that left since the page was last 1

listVars == <<list, stored, mine, pager, draft, waiting, answer, fetching,
              target, all, deletions, marked, gone, acked, left>>

Items == 1..Rows
Kinds == {"catalog", "users", "notifications", "history", "dispatches", "cards"}
Paged == {"catalog", "users", "notifications", "history"}
Polled == {"notifications", "dispatches"}
Filters == SUBSET {"select", "search"}

NoAnswer == [is |-> "none", page |-> 0, rows |-> {}, total |-> 0]
Everything == 0

\* Laravel's paginate: a page past the end is empty, and says what it is.
Kept(filter) == {i \in stored : /\ "select" \in filter => i \in mine
                                /\ "search" \in filter => i \in Found}
Slice(items, page) ==
    {i \in items : LET newer == Cardinality({j \in items : j > i}) IN
                     newer \div PageSize = page - 1}
Last(total) == Max({1, (total + PageSize - 1) \div PageSize})
Listed ==
    LET items == Kept(pager.filter) IN
    [is |-> "data", page |-> pager.page,
     rows |-> IF list \in Paged THEN Slice(items, pager.page) ELSE items,
     total |-> Cardinality(items)]

ListInit ==
    /\ list \in Kinds
    /\ stored \in {1..n : n \in 0..Rows}
    /\ mine = Mine
    /\ pager = [page |-> 1, filter |-> {}]
    /\ draft = {}
    /\ waiting = (list = "users")
    /\ answer = NoAnswer /\ fetching = TRUE
    /\ target = 0 /\ all = FALSE
    /\ deletions = {} /\ marked = 0
    /\ gone = {} /\ acked = {} /\ left = FALSE

-----------------------------------------------------------------------------
\* What the page shows: rows unless it is loading or shows an error.
Shown == IF answer.is = "data" THEN answer.rows ELSE {}
\* ListPagination, where the page has one and shows it.
PagerShown ==
    /\ list \in Paged /\ answer.is # "none" /\ Last(answer.total) > 1
    /\ list = "catalog" => answer.is = "data" /\ answer.total > 0
    /\ list \in {"notifications", "history"} => Shown # {}

Undisturbed == target = 0 /\ ~all
Of(what) == {d \in deletions : d.what = what}
\* A hook has one isPending; each card, and each dialog on a dispatch, a hook.
BusyButUsers(i) == list # "users" /\ \E d \in Of("delete") : d.item = i /\ d.asked
Busy(i) ==
    IF list = "users" THEN Of("delete") # {}
    ELSE \E d \in Of("delete") : d.item = i /\ d.asked

\* A new key: the query loads, whatever was shown is gone.
Turn(page, filter) ==
    /\ pager' = [page |-> page, filter |-> filter]
    /\ IF pager' = pager THEN UNCHANGED <<answer, fetching>>
       ELSE answer' = NoAnswer /\ fetching' = TRUE

\* setPage(1), in every handler that changes a filter.
Refilter(filter) ==
    /\ Turn(1, filter)
    /\ left' = (left /\ pager' = pager)

GoToNext(page) ==
    /\ PagerShown /\ ~fetching /\ Undisturbed
    /\ page \in {answer.page - 1, answer.page + 1} \ {0}
    /\ Turn(page, pager.filter)
    /\ left' = (left /\ page # 1)
    /\ UNCHANGED <<list, stored, mine, draft, waiting, target, all, deletions, marked, gone, acked>>
GoTo(page) ==
    /\ PagerShown /\ ~fetching /\ Undisturbed
    /\ page \in {answer.page - 1, answer.page + 1} \cap 1..Last(answer.total)
    /\ Turn(page, pager.filter)
    /\ left' = (left /\ page # 1)
    /\ UNCHANGED <<list, stored, mine, draft, waiting, target, all, deletions, marked, gone, acked>>

\* handleOwnerChange, handleRoleFilterChange
Select ==
    /\ list \in {"catalog", "users"} /\ Undisturbed
    /\ Refilter(IF "select" \in pager.filter THEN pager.filter \ {"select"}
                ELSE pager.filter \union {"select"})
    /\ UNCHANGED <<list, stored, mine, draft, waiting, target, all, deletions, marked, gone, acked>>

\* The search field, and the fields of the history's filter.
Enter(filter) ==
    /\ Undisturbed /\ filter # draft
    /\ \/ list = "users" /\ filter \subseteq {"search"}
       \/ list = "history" /\ filter \subseteq {"search"}
    /\ draft' = filter
    /\ waiting' = (list = "users")
    /\ UNCHANGED <<list, stored, mine, pager, answer, fetching, target, all,
                   deletions, marked, left, gone, acked>>

\* The timer of the search, under any dialog.
Debounced ==
    /\ waiting /\ waiting' = FALSE
    /\ Refilter((pager.filter \ {"search"}) \union draft)
    /\ UNCHANGED <<list, stored, mine, draft, target, all, deletions, marked, gone, acked>>

ApplyFilters ==
    /\ list = "history"
    /\ Refilter(draft)
    /\ UNCHANGED <<list, stored, mine, draft, waiting, target, all, deletions, marked, gone, acked>>

ClearFilters ==
    /\ list = "history"
    /\ draft' = {}
    /\ Refilter({})
    /\ UNCHANGED <<list, stored, mine, waiting, target, all, deletions, marked, gone, acked>>

-----------------------------------------------------------------------------
\* A card that goes takes its dialog and its hook with it.
Unmounted(gonerows) ==
    /\ target' = IF list = "cards" /\ target \in gonerows THEN 0 ELSE target
    /\ deletions' = {IF list = "cards" /\ d.item \in gonerows
                       THEN [d EXCEPT !.asked = FALSE] ELSE d : d \in deletions}

Answer ==
    /\ fetching /\ fetching' = FALSE
    /\ answer' = Listed
    /\ Unmounted(Items \ answer'.rows)
    /\ UNCHANGED <<list, stored, mine, pager, draft, waiting, all, marked, left, gone, acked>>

FetchFails ==
    /\ fetching /\ fetching' = FALSE
    /\ answer' = [answer EXCEPT !.is = "error"]
    /\ Unmounted(Items)
    /\ UNCHANGED <<list, stored, mine, pager, draft, waiting, all, marked, left, gone, acked>>

\* refetchInterval, or the button of an error.
Refresh ==
    /\ ~fetching /\ fetching' = TRUE
    /\ list \in Polled \/ answer.is = "error"
    /\ UNCHANGED <<list, stored, mine, pager, draft, waiting, answer, target, all,
                   deletions, marked, left, gone, acked>>

-----------------------------------------------------------------------------
\* The button on a row: users block it while any deletion is on its way.
Ask(i) ==
    /\ list \in {"catalog", "users", "dispatches", "cards"}
    /\ Undisturbed /\ i \in Shown
    /\ list = "users" => ~Busy(i)
    /\ target' = i
    /\ UNCHANGED <<list, stored, mine, pager, draft, waiting, answer, fetching, all,
                   deletions, marked, left, gone, acked>>

\* A ConfirmActionModal that waits cannot be closed, the modal of a dispatch
\* can: it is unmounted, and its deletion goes on (asked: by a dialog that is
\* still there).
Cancel ==
    /\ target # 0 /\ target' = 0
    /\ list # "dispatches" => ~Busy(target)
    /\ deletions' = {[d EXCEPT !.asked = d.asked /\ list # "dispatches"] : d \in deletions}
    /\ UNCHANGED <<list, stored, mine, pager, draft, waiting, answer, fetching, all,
                   marked, left, gone, acked>>

Send(d) ==
    /\ Cardinality(deletions) < MaxPending
    /\ deletions' = deletions \union {d}
Sent(what, item) == [what |-> what, item |-> item, asked |-> target = item, step |-> "sent"]

Confirm ==
    /\ target # 0 /\ ~Busy(target)
    /\ Send(Sent("delete", target))
    /\ UNCHANGED <<list, stored, mine, pager, draft, waiting, answer, fetching, target,
                   all, marked, left, gone, acked>>

\* Notifications are deleted without a question.
Delete(i) ==
    /\ list = "notifications" /\ Undisturbed
    /\ i \in Shown /\ marked # i
    /\ marked' = i
    /\ Send(Sent("delete", i))
    /\ UNCHANGED <<list, stored, mine, pager, draft, waiting, answer, fetching, target,
                   all, left, gone, acked>>

AskAll ==
    /\ list \in {"notifications", "dispatches"}
    /\ Undisturbed /\ Shown # {}
    /\ all' = TRUE
    /\ UNCHANGED <<list, stored, mine, pager, draft, waiting, answer, fetching, target,
                   deletions, marked, left, gone, acked>>

CancelAll ==
    /\ all /\ all' = FALSE
    /\ UNCHANGED <<list, stored, mine, pager, draft, waiting, answer, fetching, target,
                   deletions, marked, left, gone, acked>>

ConfirmAll ==
    /\ all /\ Of("all") = {}
    /\ Send(Sent("all", Everything))
    /\ UNCHANGED <<list, stored, mine, pager, draft, waiting, answer, fetching, target,
                   all, marked, left, gone, acked>>

ChangeRole(i) ==
    /\ list = "users" /\ Undisturbed
    /\ i \in Shown /\ Of("role") = {}
    /\ Send(Sent("role", i))
    /\ UNCHANGED <<list, stored, mine, pager, draft, waiting, answer, fetching, target,
                   all, marked, left, gone, acked>>

-----------------------------------------------------------------------------
\* The API obeys or refuses; its answer reaches the hook or is lost.
Serve(d) ==
    /\ d \in deletions /\ d.step = "sent"
    /\ \E ok, obeyed \in BOOLEAN :
         /\ ok => obeyed
         /\ obeyed => d.what = "all" \/ d.item \in stored
         /\ deletions' = (deletions \ {d}) \union
                           {[d EXCEPT !.step = IF ok THEN "done" ELSE "refused"]}
         /\ stored' = CASE ~obeyed \/ d.what = "role" -> stored
                        [] d.what = "all" -> {}
                        [] d.what = "delete" -> stored \ {d.item}
         /\ mine' = IF obeyed /\ d.what = "role"
                    THEN (mine \ {d.item}) \union ({d.item} \ mine) ELSE mine
         /\ left' = (left \/ stored' # stored \/ mine' # mine)
         /\ gone' = gone \union (stored \ stored')
    /\ UNCHANGED <<list, pager, draft, waiting, answer, fetching, target, all, marked, acked>>

\* onSuccess makes the list fetch again. The hooks of the users wait for that
\* before their handlers go on; the other handlers go on at once.
SettleAtOnce(d) ==
    /\ d \in deletions /\ d.step = "done"
    /\ fetching' = TRUE
    /\ acked' = IF list = "users" /\ d.what = "delete"
                 THEN acked \union {d.item} ELSE acked
    /\ deletions' = deletions \ {d}
    /\ target' = CASE list = "dispatches" /\ d.what = "delete" -> 0
                   [] list = "users" /\ d.what = "delete" -> 0
                   [] list = "cards" /\ target = d.item /\ d.asked -> 0
                   [] OTHER -> target
    /\ marked' = IF d.what = "delete" THEN 0 ELSE marked
    /\ UNCHANGED <<list, stored, mine, pager, draft, waiting, answer, all, left, gone>>
Settle(d) ==
    /\ d \in deletions /\ d.step = "done"
    /\ fetching' = TRUE
    /\ acked' = IF list = "users" /\ d.what = "delete"
                 THEN acked \union {d.item} ELSE acked
    /\ IF list = "users"
       THEN /\ deletions' = (deletions \ {d}) \union {[d EXCEPT !.step = "awaited"]}
            /\ UNCHANGED <<target, marked>>
       ELSE /\ deletions' = deletions \ {d}
            \* handleClose of a dispatch's dialog closes the one that is open;
            \* a card closes its own; deleteAttack and deleteRemediation answer
            \* with nothing, which their handlers take for a failure.
            /\ target' = CASE list = "dispatches" /\ d.what = "delete" -> 0
                           [] list = "cards" /\ target = d.item /\ d.asked -> 0
                           [] OTHER -> target
            \* finally: setDeletingId(null), whoever's it is.
            /\ marked' = IF d.what = "delete" THEN 0 ELSE marked
    /\ UNCHANGED <<list, stored, mine, pager, draft, waiting, answer, all, left, gone>>

\* setPendingDelete(null) of the users, once the list was fetched.
Close(d) ==
    /\ d \in deletions /\ d.step = "awaited" /\ ~fetching
    /\ deletions' = deletions \ {d}
    /\ target' = IF d.what = "delete" THEN 0 ELSE target
    /\ UNCHANGED <<list, stored, mine, pager, draft, waiting, answer, fetching, all,
                   marked, left, gone, acked>>

\* A message; the dialog stays.
Refused(d) ==
    /\ d \in deletions /\ d.step = "refused"
    /\ deletions' = deletions \ {d}
    /\ marked' = IF d.what = "delete" THEN 0 ELSE marked
    /\ UNCHANGED <<list, stored, mine, pager, draft, waiting, answer, fetching, target,
                   all, left, gone, acked>>

\* The workers, other users, other tabs.
Elsewhere(i) ==
    /\ \/ i \in stored /\ stored' = stored \ {i}
       \/ i = Max(stored \union gone \union {0}) + 1 /\ stored' = stored \union {i}
    /\ left' = (left \/ i \in stored)
    /\ gone' = gone \union (stored \ stored')
    /\ UNCHANGED <<list, mine, pager, draft, waiting, answer, fetching, target, all,
                   deletions, marked, acked>>

ListNext ==
    \/ \E page \in 1..Rows : GoTo(page)
    \/ \E filter \in Filters : Enter(filter)
    \/ Select \/ Debounced \/ ApplyFilters \/ ClearFilters
    \/ Answer \/ FetchFails \/ Refresh
    \/ \E i \in Items : Ask(i) \/ Delete(i) \/ ChangeRole(i) \/ Elsewhere(i)
    \/ Cancel \/ Confirm \/ AskAll \/ CancelAll \/ ConfirmAll
    \/ \E d \in deletions : Serve(d) \/ Settle(d) \/ Close(d) \/ Refused(d)

ListSpec == ListInit /\ [][ListNext]_listVars
-----------------------------------------------------------------------------
ListTypeOK ==
    /\ list \in Kinds
    /\ {stored, mine, gone, acked} \subseteq SUBSET Items
    /\ pager \in [page : 1..Last(Rows), filter : Filters]
    /\ draft \in Filters
    /\ {waiting, fetching, all, left} \subseteq BOOLEAN
    /\ answer \in [is : {"none", "data", "error"}, page : 0..Last(Rows),
                   rows : SUBSET Items, total : 0..Rows]
    /\ {target, marked} \subseteq Items \union {0}
    /\ deletions \subseteq [what : {"delete", "all", "role"}, item : Items \union {0},
                            asked : BOOLEAN,
                            step : {"sent", "done", "refused", "awaited"}]

\* A filter never leaves the user on a page past the end of what it keeps
\* (setPage(1) in every handler that changes one, the timer of the search
\* included): a page that is empty while others are not lost its items after
\* it was chosen.
FilterFromTheStart ==
    (answer.is = "data" /\ list \in Paged /\ answer.rows = {} /\ answer.total > 0) => left

\* Nobody is told that a deletion was done, by its dialog closing, when it was
\* another one's: the dialogs wait for their own (the modal of a dispatch
\* alone can be left while it waits).
DialogIsAnswered ==
    [][(target # 0 /\ target' = 0 /\ deletions # {} /\ list # "dispatches") =>
         \/ \A d \in Of("delete") : d.item # target \/ ~d.asked   \* the user closes it
         \/ \E d \in deletions \ deletions' : d.item = target /\ d.what = "delete"
         \/ list = "cards" /\ target \notin Shown']_listVars

\* An administrator cannot send the deletion of a user a second time: the
\* dialog is there until the list no longer shows who was deleted (the awaited
\* invalidateQueries of useDeleteAdminUser).
NeverDeletedTwice ==
    [][\A d \in deletions' \ deletions :
         (list = "users" /\ d.what = "delete" /\ d.step = "sent") =>
            d.item \notin acked]_listVars
=============================================================================
