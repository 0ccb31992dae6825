---------------------------- MODULE ResultsPage -----------------------------
(* The page of one dispatch: findings and probes in two lists with a common  *)
(* query, filters that are entered and applied, a button that copies every   *)
(* finding page by page, the export and the deletion of the dispatch. The    *)
(* scan goes on meanwhile, and the user may leave while something is under   *)
(* way.                                                                      *)
EXTENDS Naturals, FiniteSets, FiniteSetsExt

CONSTANTS
    MaxFindings, MaxProbes,  \* bounds
    MaxRemovals,             \* bound: requests to remove the dispatch
    ShownSize,               \* DEFAULT_PAGE_SIZE, of both lists
    CopySize,                \* COPY_PAGE_SIZE
    Logged,                  \* the findings and probes the log filters keep
    Vulnerable               \* the probes whose outcome is "vulnerable"

ASSUME ResultsAssumption ==
    /\ {MaxFindings, MaxProbes, MaxRemovals} \subseteq Nat
    /\ {ShownSize, CopySize} \subseteq Nat \ {0}

VARIABLES
    scan,      \* the dispatch: status and how many findings and probes it has
    view,      \* the state of the page that its query depends on
    entered,   \* logFilterDraft: has the user entered filters?
    results,   \* the query's data
    copy,      \* loadAllResults
    removal,   \* the dialog that removes the dispatch, isPending of its hook,
               \* and the requests on their way
    export,    \* the dialog that exports it, and its request
    where      \* "results": on this page

resultsVars == <<scan, view, entered, results, copy, removal, export, where>>

ProbeFilters == {"all", "vulnerable", "clean"}
FirstView == [filter |-> "all", logged |-> FALSE, page |-> 1, probePage |-> 1]
NoResults == [is |-> "none", status |-> "pending", found |-> {}, rows |-> {},
              probes |-> {}, probeRows |-> {}]
NoCopy == [step |-> "idle", page |-> 0, logged |-> FALSE, got |-> {}, want |-> {}]

ResultsInit ==
    /\ scan = [status |-> "pending", findings |-> 0, probes |-> 0]
    /\ view = FirstView
    /\ entered = FALSE
    /\ results = NoResults
    /\ copy = NoCopy
    /\ removal = [open |-> FALSE, busy |-> FALSE, sent |-> 0, done |-> 0, refused |-> 0]
    /\ export = "closed"
    /\ where = "results"

-----------------------------------------------------------------------------
\* SystemResultController::show: latest() of each list, the newest first.
Findings(logged) == {f \in 1..scan.findings : logged => f \in Logged}
Probes(v) ==
    {p \in 1..scan.probes : /\ v.logged => p \in Logged
                            /\ v.filter = "vulnerable" => p \in Vulnerable
                            /\ v.filter = "clean" => p \notin Vulnerable}
OnPage(items, page, size) ==
    {i \in items : Cardinality({j \in items : j > i}) \div size = page - 1}
Pages(items, size) == Max({1, (Cardinality(items) + size - 1) \div size})

Gone == scan.status = "deleted"

\* The query answers, also while it is polled; without the dispatch it fails.
AnswerResults ==
    /\ where = "results"
    /\ results' =
         IF Gone THEN [results EXCEPT !.is = "error"]
         ELSE LET found == Findings(view.logged)
                  probes == Probes(view)
              IN [is |-> "data", status |-> scan.status, found |-> found,
                  rows |-> OnPage(found, view.page, ShownSize),
                  probes |-> probes,
                  probeRows |-> OnPage(probes, view.probePage, ShownSize)]
    /\ UNCHANGED <<scan, view, entered, copy, removal, export, where>>

RequestFails ==
    /\ where = "results"
    /\ results' = [results EXCEPT !.is = "error"]
    /\ UNCHANGED <<scan, view, entered, copy, removal, export, where>>

\* Another key of the query: nothing is shown until it answers.
Show(v) ==
    /\ view' = v
    /\ results' = IF v = view THEN results ELSE NoResults
    /\ UNCHANGED <<scan, copy, removal, export, where>>

Free == where = "results" /\ ~removal.open /\ export = "closed"
Ready == Free /\ results.is = "data"

SetProbeFilter(filter) ==
    /\ Ready
    /\ Show([view EXCEPT !.filter = filter, !.probePage = 1, !.page = 1])
    /\ UNCHANGED entered

EnterLogFilters ==
    /\ Ready
    /\ entered' = ~entered
    /\ UNCHANGED <<scan, view, results, copy, removal, export, where>>

ApplyOneList ==
    /\ Ready
    /\ Show([view EXCEPT !.logged = entered, !.probePage = 1])
    /\ UNCHANGED entered
ApplyLogFilters ==
    /\ Ready
    /\ Show([view EXCEPT !.logged = entered, !.probePage = 1, !.page = 1])
    /\ UNCHANGED entered

ClearLogFilters ==
    /\ Ready
    /\ entered' = FALSE
    /\ Show([view EXCEPT !.logged = FALSE, !.probePage = 1, !.page = 1])

\* A scan that is SAST, or these filters of its probes, show the findings;
\* a list that is empty has no pager.
FindingsShown == view.filter \in {"all", "vulnerable"}

TurnFindings(page) ==
    /\ Ready /\ FindingsShown
    /\ page \in {view.page - 1, view.page + 1} \cap 1..Pages(results.found, ShownSize)
    /\ Show([view EXCEPT !.page = page])
    /\ UNCHANGED entered

TurnProbes(page) ==
    /\ Ready
    /\ page \in {view.probePage - 1, view.probePage + 1}
                   \cap 1..Pages(results.probes, ShownSize)
    /\ Show([view EXCEPT !.probePage = page])
    /\ UNCHANGED entered

-----------------------------------------------------------------------------
\* The button takes what is on screen when that is everything there is.
StartCopy ==
    /\ Ready /\ FindingsShown /\ results.found # {}
    /\ copy.step \in {"idle", "copied", "failed"}
    /\ copy' = IF results.rows = results.found
               THEN [NoCopy EXCEPT !.step = "copied", !.got = results.rows,
                                   !.want = results.found]
               ELSE [NoCopy EXCEPT !.step = "loading", !.page = 1,
                                   !.logged = view.logged, !.want = results.found]
    /\ UNCHANGED <<scan, view, entered, results, removal, export, where>>

\* One request of the loop, which ends by the last page of its own answer.
CopyPageKnownEnd ==
    /\ copy.step = "loading" /\ ~Gone
    /\ LET all == Findings(copy.logged) IN
       copy' = [copy EXCEPT !.got = @ \union OnPage(all, copy.page, CopySize),
                            !.page = @ + 1,
                            !.step = IF copy.page < Pages(copy.want, CopySize)
                                     THEN "loading" ELSE "copied"]
    /\ UNCHANGED <<scan, view, entered, results, removal, export, where>>
CopyPage ==
    /\ copy.step = "loading" /\ ~Gone
    /\ LET all == Findings(copy.logged) IN
       copy' = [copy EXCEPT !.got = @ \union OnPage(all, copy.page, CopySize),
                            !.page = @ + 1,
                            !.step = IF copy.page < Pages(all, CopySize)
                                     THEN "loading" ELSE "copied"]
    /\ UNCHANGED <<scan, view, entered, results, removal, export, where>>

CopyFails ==
    /\ copy.step = "loading"
    /\ copy' = [copy EXCEPT !.step = "failed"]
    /\ UNCHANGED <<scan, view, entered, results, removal, export, where>>

-----------------------------------------------------------------------------
\* DeleteDispatchModal: it can be closed while it waits, which resets its hook
\* and recalls neither the request nor what its handler does on success.
OpenRemoval ==
    /\ where = "results" /\ export = "closed" /\ results.is # "none"
    /\ ~removal.open
    /\ removal' = [removal EXCEPT !.open = TRUE]
    /\ UNCHANGED <<scan, view, entered, results, copy, export, where>>

CloseRemoval ==
    /\ removal.open
    /\ removal' = [removal EXCEPT !.open = FALSE, !.busy = FALSE]
    /\ UNCHANGED <<scan, view, entered, results, copy, export, where>>

Requests == removal.sent + removal.done + removal.refused

ConfirmRemoval ==
    /\ removal.open /\ ~removal.busy /\ Requests < MaxRemovals
    /\ removal' = [removal EXCEPT !.busy = TRUE, !.sent = @ + 1]
    /\ UNCHANGED <<scan, view, entered, results, copy, export, where>>

ServeRemoval ==
    /\ removal.sent > 0
    /\ \E ok \in BOOLEAN :
         /\ ok => ~Gone
         /\ scan' = IF ok THEN [scan EXCEPT !.status = "deleted"] ELSE scan
         /\ removal' = IF ok THEN [removal EXCEPT !.sent = @ - 1, !.done = @ + 1]
                              ELSE [removal EXCEPT !.sent = @ - 1, !.refused = @ + 1]
    /\ UNCHANGED <<view, entered, results, copy, export, where>>

RemovalDone ==
    /\ removal.done > 0
    /\ removal' = [removal EXCEPT !.open = FALSE, !.busy = FALSE, !.done = @ - 1]
    /\ where' = "system"
    /\ results' = NoResults
    /\ UNCHANGED <<scan, view, entered, copy, export>>

\* The hook follows its latest request alone.
RemovalRefused ==
    /\ removal.refused > 0
    /\ \E busy \in IF Requests = 1 THEN {FALSE} ELSE {removal.busy, FALSE} :
         removal' = [removal EXCEPT !.busy = busy, !.refused = @ - 1]
    /\ UNCHANGED <<scan, view, entered, results, copy, export, where>>

\* ExportAuditReportModal: offered for a completed scan, not to be closed while
\* the file is on its way; a failure is shown in the dialog.
OpenExport ==
    /\ Ready /\ results.status = "completed"
    /\ export' = "open"
    /\ UNCHANGED <<scan, view, entered, results, copy, removal, where>>

CloseExport ==
    /\ export \in {"open", "failed"}
    /\ export' = "closed"
    /\ UNCHANGED <<scan, view, entered, results, copy, removal, where>>

StartExport ==
    /\ export \in {"open", "failed"}
    /\ export' = "loading"
    /\ UNCHANGED <<scan, view, entered, results, copy, removal, where>>

EndExport ==
    /\ export = "loading"
    /\ export' \in IF Gone THEN {"failed"} ELSE {"failed", "closed"}
    /\ UNCHANGED <<scan, view, entered, results, copy, removal, where>>

\* A link, the browser's history: the page and its dialogs are gone, requests
\* and handlers are not.
Leave ==
    /\ where = "results" /\ where' = "elsewhere"
    /\ view' = FirstView /\ entered' = FALSE
    /\ results' = NoResults
    /\ copy' = IF copy.step = "loading" THEN copy ELSE NoCopy
    /\ removal' = [removal EXCEPT !.open = FALSE, !.busy = FALSE]
    /\ export' = "closed"
    /\ UNCHANGED scan

-----------------------------------------------------------------------------
\* The results consumer, and another tab.
FindingStored ==
    /\ scan.status = "pending" /\ scan.findings < MaxFindings
    /\ scan' = [scan EXCEPT !.findings = @ + 1]
    /\ UNCHANGED <<view, entered, results, copy, removal, export, where>>

ProbeStored ==
    /\ scan.status = "pending" /\ scan.probes < MaxProbes
    /\ scan' = [scan EXCEPT !.probes = @ + 1]
    /\ UNCHANGED <<view, entered, results, copy, removal, export, where>>

ScanEnds ==
    /\ scan.status = "pending"
    /\ \E status \in {"completed", "failed"} : scan' = [scan EXCEPT !.status = status]
    /\ UNCHANGED <<view, entered, results, copy, removal, export, where>>

RemovedElsewhere ==
    /\ ~Gone
    /\ scan' = [scan EXCEPT !.status = "deleted"]
    /\ UNCHANGED <<view, entered, results, copy, removal, export, where>>

ResultsNext ==
    \/ AnswerResults \/ RequestFails
    \/ \E filter \in ProbeFilters : SetProbeFilter(filter)
    \/ EnterLogFilters \/ ApplyLogFilters \/ ClearLogFilters
    \/ \E page \in 1..MaxFindings + 1 : TurnFindings(page)
    \/ \E page \in 1..MaxProbes : TurnProbes(page)
    \/ StartCopy \/ CopyPage \/ CopyFails
    \/ OpenRemoval \/ CloseRemoval \/ ConfirmRemoval \/ ServeRemoval
    \/ RemovalDone \/ RemovalRefused
    \/ OpenExport \/ CloseExport \/ StartExport \/ EndExport
    \/ Leave
    \/ FindingStored \/ ProbeStored \/ ScanEnds \/ RemovedElsewhere

ResultsSpec == ResultsInit /\ [][ResultsNext]_resultsVars
-----------------------------------------------------------------------------
ResultsTypeOK ==
    /\ scan \in [status : {"pending", "completed", "failed", "deleted"},
                 findings : 0..MaxFindings, probes : 0..MaxProbes]
    /\ view \in [filter : ProbeFilters, logged : BOOLEAN,
                 page : 1..Pages(1..MaxFindings, ShownSize),
                 probePage : 1..Pages(1..MaxProbes, ShownSize)]
    /\ entered \in BOOLEAN
    /\ results.is \in {"none", "data", "error"}
    /\ results.rows \subseteq results.found /\ results.probeRows \subseteq results.probes
    /\ copy.step \in {"idle", "loading", "copied", "failed"}
    /\ removal \in [open : BOOLEAN, busy : BOOLEAN, sent : 0..MaxRemovals,
                    done : 0..MaxRemovals, refused : 0..MaxRemovals]
    /\ export \in {"closed", "open", "loading", "failed"}
    /\ where \in {"results", "elsewhere", "system"}

\* "Copiar todas as vulnerabilidades" (copy-vulnerabilities-button.tsx): a copy
\* that succeeds has every finding the page counted, although the scan stores
\* more between its requests and moves the pages.
CopyIsWhole == copy.step = "copied" => copy.want \subseteq copy.got

\* The two lists share their filters: neither is ever on a page its filters
\* leave empty while they keep something (the handlers of the filters reset
\* both pages).
NoEmptyPage ==
    results.is = "data" =>
        /\ results.found # {} => results.rows # {}
        /\ results.probes # {} => results.probeRows # {}
=============================================================================
