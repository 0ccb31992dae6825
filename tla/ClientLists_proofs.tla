------------------------- MODULE ClientLists_proofs -------------------------
(***************************************************************************)
(* Theorems about ListPages, ResultsPage and CoverPicker, for every number *)
(* of items, every size of a page and every bound.                         *)
(***************************************************************************)
EXTENDS MCClientLists, FiniteSetTheorems, TLAPS

-----------------------------------------------------------------------------
(* What a page of a list is: arithmetic, and the ranks of a finite set.    *)

\* What a division by a size says of the page.
LEMMA Division ==
  ASSUME NEW n \in Nat, NEW s \in Nat \ {0}
  PROVE  /\ n \div s \in Nat
         /\ (n \div s) * s <= n
         /\ n < ((n \div s) + 1) * s
  OBVIOUS

LEMMA Products ==
  ASSUME NEW a \in Nat, NEW b \in Nat, NEW s \in Nat \ {0}, a * s < b * s
  PROVE  a < b
  OBVIOUS

LEMMA PageOf ==
  ASSUME NEW n \in Nat, NEW s \in Nat \ {0}, NEW p \in Nat \ {0}
  PROVE  n \div s = p - 1 <=> (p - 1) * s <= n /\ n < p * s
  <1> DEFINE q == n \div s
  <1>1. q \in Nat /\ q * s <= n /\ n < (q + 1) * s
    BY Division
  <1>2. q = p - 1 => (p - 1) * s <= n /\ n < p * s
    BY <1>1
  <1>3. ASSUME (p - 1) * s <= n, n < p * s PROVE q = p - 1
    <2> HIDE DEF q
    <2>1. q * s < p * s
      BY <1>1, <1>3
    <2>2. (p - 1) * s < (q + 1) * s
      BY <1>1, <1>3
    <2>3. q < p
      BY <1>1, <2>1, Products
    <2>4. p - 1 < q + 1
      BY <1>1, <2>2, Products
    <2>5. QED
      BY <1>1, <2>3, <2>4
  <1>4. QED
    BY <1>2, <1>3

LEMMA LargerOf ==
  ASSUME NEW q \in Int
  PROVE  /\ Max({1, q}) \in {1, q} /\ Max({1, q}) >= 1 /\ Max({1, q}) >= q
  <1> DEFINE m == IF q > 1 THEN q ELSE 1
  <1>1. m \in {1, q} /\ \A y \in {1, q} : m >= y
    OBVIOUS
  <1>2. QED
    BY <1>1 DEF Max

\* The pages of n items: the last one is the first, or has an item.
LEMMA LastPage ==
  ASSUME NEW n \in Nat, NEW s \in Nat \ {0}, NEW p \in Nat \ {0}
  PROVE  /\ Max({1, (n + s - 1) \div s}) \in Nat \ {0}
         /\ p <= Max({1, (n + s - 1) \div s}) <=> p = 1 \/ (p - 1) * s < n
  <1> DEFINE t == n + s - 1
             q == t \div s
  <1>1. t \in Nat
    OBVIOUS
  <1>2. q \in Nat /\ q * s <= t /\ t < (q + 1) * s
    BY <1>1, Division
  <1> HIDE DEF q
  <1>3. /\ Max({1, q}) \in {1, q} /\ Max({1, q}) >= 1 /\ Max({1, q}) >= q
    BY <1>2, LargerOf
  <1>4. ASSUME p <= q PROVE (p - 1) * s < n
    <2>1. p * s <= q * s
      BY <1>2, <1>4
    <2>2. p * s <= n + s - 1
      BY <1>2, <2>1
    <2>3. (p - 1) * s = p * s - s
      OBVIOUS
    <2>4. QED
      BY <2>2, <2>3
  <1>5. ASSUME (p - 1) * s < n PROVE p <= q
    <2>1. (p - 1) * s = p * s - s
      OBVIOUS
    <2>2. p * s <= t
      BY <1>5, <2>1
    <2>3. p * s < (q + 1) * s
      BY <1>1, <1>2, <2>2
    <2>4. p < q + 1
      BY <1>2, <2>3, Products
    <2>5. QED
      BY <1>2, <2>4
  <1>6. QED
    BY <1>2, <1>3, <1>4, <1>5 DEF q

Newer(S, i) == {j \in S : j > i}

LEMMA FiniteItems ==
  ASSUME NEW n \in Nat, NEW S \in SUBSET (1..n)
  PROVE  /\ IsFiniteSet(S) /\ Cardinality(S) \in Nat /\ Cardinality(S) <= n
         /\ \A T \in SUBSET S : /\ IsFiniteSet(T) /\ Cardinality(T) \in Nat
                                /\ Cardinality(T) <= Cardinality(S)
  <1>1. IsFiniteSet(1..n) /\ Cardinality(1..n) = n
    BY FS_Interval
  <1>2. IsFiniteSet(S) /\ Cardinality(S) <= n
    BY <1>1, FS_Subset
  <1>3. QED
    BY <1>2, FS_Subset, FS_CardinalityType

\* As many items as there are, so many ranks: each is one item's.
LEMMA Ranks ==
  ASSUME NEW n \in Nat, NEW S \in SUBSET (1..n), NEW k \in Nat, k < Cardinality(S)
  PROVE  \E i \in S : Cardinality(Newer(S, i)) = k
  <1>1. IsFiniteSet(S) /\ Cardinality(S) \in Nat
    BY FiniteItems
  <1> DEFINE T == 0..(Cardinality(S) - 1)
             r == [i \in S |-> Cardinality(Newer(S, i))]
  <1>2. ASSUME NEW i \in S
        PROVE  /\ IsFiniteSet(Newer(S, i)) /\ Cardinality(Newer(S, i)) \in Nat
               /\ Cardinality(Newer(S, i)) < Cardinality(S)
    <2>1. Newer(S, i) \in SUBSET (S \ {i})
      BY DEF Newer
    <2>2. IsFiniteSet(S \ {i}) /\ Cardinality(S \ {i}) = Cardinality(S) - 1
      BY <1>1, FS_RemoveElement
    <2>3. QED
      BY <1>1, <2>1, <2>2, FS_Subset, FS_CardinalityType
  <1>3. r \in [S -> T]
    BY <1>1, <1>2
  <1>4. ASSUME NEW a \in S, NEW b \in S, a < b
        PROVE  Cardinality(Newer(S, b)) < Cardinality(Newer(S, a))
    <2>0. \A j \in S : j \in Int
      OBVIOUS
    <2>1. Newer(S, b) \union {b} \in SUBSET Newer(S, a)
      <3>1. \A j \in Newer(S, b) \union {b} : j \in S /\ j > a
        BY <1>4, <2>0 DEF Newer
      <3>2. QED
        BY <3>1 DEF Newer
    <2>2. b \notin Newer(S, b)
      BY DEF Newer
    <2>3. Cardinality(Newer(S, b) \union {b}) = Cardinality(Newer(S, b)) + 1
      BY <1>2, <2>2, FS_AddElement
    <2>4. Cardinality(Newer(S, b) \union {b}) <= Cardinality(Newer(S, a))
      BY <1>2, <2>1, FS_Subset
    <2>5. QED
      BY <1>2, <2>3, <2>4
  <1>5. r \in Injection(S, T)
    <2>1. ASSUME NEW a \in S, NEW b \in S, r[a] = r[b] PROVE a = b
      <3>1. a \in Int /\ b \in Int
        OBVIOUS
      <3>2. ~(a < b) /\ ~(b < a)
        BY <1>2, <1>4, <2>1
      <3>3. QED
        BY <3>1, <3>2
    <2>2. QED
      BY <1>3, <2>1 DEF Injection, IsInjective
  <1>6. IsFiniteSet(T) /\ Cardinality(T) = Cardinality(S)
    <2>1. 0 \in Int /\ Cardinality(S) - 1 \in Int
      BY <1>1
    <2>2. /\ IsFiniteSet(T)
          /\ Cardinality(T) = IF 0 > Cardinality(S) - 1 THEN 0 ELSE Cardinality(S) - 1 - 0 + 1
      BY <2>1, FS_Interval
    <2>3. QED
      BY <1>1, <2>2
  <1>7. r \in Surjection(S, T)
    BY <1>5, <1>6, FS_Injection
  <1>8. PICK i \in S : r[i] = k
    <2>1. k \in T
      BY <1>1
    <2>2. \E i \in DOMAIN r : r[i] = k
      BY <1>7, <2>1 DEF Surjection
    <2>3. QED
      BY <2>2
  <1>9. QED
    BY <1>8

-----------------------------------------------------------------------------
(* The page of a dispatch: both lists and the copy of all findings.        *)

FindingsOf(n, logged) == {f \in 1..n : logged => f \in Logged}
ProbesOf(n, v) == {p \in 1..n : /\ v.logged => p \in Logged
                                /\ v.filter = "vulnerable" => p \in Vulnerable
                                /\ v.filter = "clean" => p \notin Vulnerable}
Views == [filter : ProbeFilters, logged : BOOLEAN, page : Nat \ {0}, probePage : Nat \ {0}]
Answers == [is : {"none", "data", "error"},
            status : {"pending", "completed", "failed", "deleted"},
            found : SUBSET Nat, rows : SUBSET Nat, probes : SUBSET Nat, probeRows : SUBSET Nat]
Copies == [step : {"idle", "loading", "copied", "failed"}, page : Nat, logged : BOOLEAN,
           got : SUBSET Nat, want : SUBSET Nat]

\* A page that exists: the first one, or one with an item.
Exists(page, S) == page = 1 \/ (page - 1) * ShownSize < Cardinality(S)

\* The dispatch, the dialogs and the requests to remove it.
AroundInv ==
  /\ scan \in [status : {"pending", "completed", "failed", "deleted"},
               findings : 0..MaxFindings, probes : 0..MaxProbes]
  /\ entered \in BOOLEAN
  /\ removal \in [open : BOOLEAN, busy : BOOLEAN, sent : Nat, done : Nat, refused : Nat]
  /\ Requests <= MaxRemovals
  /\ export \in {"closed", "open", "loading", "failed"}
  /\ where \in {"results", "elsewhere", "system"}

\* Both pages exist in what the scan has by now, of which an answer is a part.
ViewAt(n, m, v, r) ==
  /\ v \in Views /\ r \in Answers
  /\ Exists(v.page, FindingsOf(n, v.logged))
  /\ Exists(v.probePage, ProbesOf(m, v))
  /\ r.found \subseteq FindingsOf(n, v.logged) /\ r.probes \subseteq ProbesOf(m, v)
  /\ r.rows \subseteq r.found /\ r.probeRows \subseteq r.probes
  /\ r.is = "data" => /\ r.found # {} => r.rows # {}
                      /\ r.probes # {} => r.probeRows # {}

\* A copy under way has what it wants of the pages it has been through: what
\* is stored meanwhile moves findings to later pages, never to earlier ones.
CopyAt(n, c) ==
  /\ c \in Copies
  /\ c.step = "loading" =>
       /\ c.page # 0
       /\ c.want \subseteq FindingsOf(n, c.logged)
       /\ \A f \in c.want :
            Cardinality(Newer(FindingsOf(n, c.logged), f)) < (c.page - 1) * CopySize
              => f \in c.got
  /\ c.step = "copied" => c.want \subseteq c.got

ViewInv == ViewAt(scan.findings, scan.probes, view, results)
CopyInv == CopyAt(scan.findings, copy)

LEMMA Bounds ==
  /\ MaxFindings \in Nat /\ MaxProbes \in Nat /\ MaxRemovals \in Nat
  /\ ShownSize \in Nat \ {0} /\ CopySize \in Nat \ {0}
  BY ResultsAssumption DEF ResultsAssumption

LEMMA PageCount ==
  ASSUME NEW S, Cardinality(S) \in Nat, NEW s \in Nat \ {0}, NEW p \in Nat \ {0}
  PROVE  /\ Pages(S, s) \in Nat \ {0}
         /\ p <= Pages(S, s) <=> p = 1 \/ (p - 1) * s < Cardinality(S)
  <1>1. PICK n \in Nat : n = Cardinality(S)
    OBVIOUS
  <1>2. /\ Max({1, (n + s - 1) \div s}) \in Nat \ {0}
        /\ p <= Max({1, (n + s - 1) \div s}) <=> p = 1 \/ (p - 1) * s < n
    BY LastPage
  <1>3. Pages(S, s) = Max({1, (n + s - 1) \div s})
    BY <1>1 DEF Pages
  <1>4. QED
    BY <1>1, <1>2, <1>3

LEMMA ByCount ==
  /\ \A l : Findings(l) = FindingsOf(scan.findings, l)
  /\ \A v : Probes(v) = ProbesOf(scan.probes, v)
  BY DEF Findings, FindingsOf, Probes, ProbesOf

\* More findings and probes: each list grows, and no item has fewer newer ones.
LEMMA Grow ==
  ASSUME NEW n \in Nat, NEW m \in Nat, n <= m, NEW l, NEW v
  PROVE  /\ FindingsOf(n, l) \subseteq FindingsOf(m, l)
         /\ FindingsOf(m, l) \in SUBSET (1..m)
         /\ Cardinality(FindingsOf(n, l)) <= Cardinality(FindingsOf(m, l))
         /\ Cardinality(FindingsOf(n, l)) \in Nat
         /\ ProbesOf(n, v) \subseteq ProbesOf(m, v)
         /\ ProbesOf(m, v) \in SUBSET (1..m)
         /\ Cardinality(ProbesOf(n, v)) <= Cardinality(ProbesOf(m, v))
         /\ Cardinality(ProbesOf(n, v)) \in Nat
         /\ \A f \in FindingsOf(n, l) :
              /\ Cardinality(Newer(FindingsOf(n, l), f)) <= Cardinality(Newer(FindingsOf(m, l), f))
              /\ Cardinality(Newer(FindingsOf(n, l), f)) \in Nat
              /\ Cardinality(Newer(FindingsOf(n, l), f)) < Cardinality(FindingsOf(n, l))
  <1>1. /\ FindingsOf(n, l) \subseteq FindingsOf(m, l) /\ FindingsOf(m, l) \in SUBSET (1..m)
        /\ FindingsOf(n, l) \in SUBSET (1..n)
    BY DEF FindingsOf
  <1>2. /\ ProbesOf(n, v) \subseteq ProbesOf(m, v) /\ ProbesOf(m, v) \in SUBSET (1..m)
        /\ ProbesOf(n, v) \in SUBSET (1..n)
    BY DEF ProbesOf
  <1>3. /\ Cardinality(FindingsOf(n, l)) <= Cardinality(FindingsOf(m, l))
        /\ Cardinality(FindingsOf(n, l)) \in Nat
    BY <1>1, FiniteItems
  <1>4. /\ Cardinality(ProbesOf(n, v)) <= Cardinality(ProbesOf(m, v))
        /\ Cardinality(ProbesOf(n, v)) \in Nat
    BY <1>2, FiniteItems
  <1>5. ASSUME NEW f \in FindingsOf(n, l)
        PROVE  /\ Cardinality(Newer(FindingsOf(n, l), f)) <= Cardinality(Newer(FindingsOf(m, l), f))
               /\ Cardinality(Newer(FindingsOf(n, l), f)) \in Nat
               /\ Cardinality(Newer(FindingsOf(n, l), f)) < Cardinality(FindingsOf(n, l))
    <2> DEFINE A == Newer(FindingsOf(n, l), f)
               B == Newer(FindingsOf(m, l), f)
    <2>1. A \in SUBSET B /\ B \in SUBSET (1..m) /\ A \in SUBSET FindingsOf(n, l)
      BY <1>1 DEF Newer
    <2>2. f \in Int /\ f \notin A
      BY <1>1 DEF Newer
    <2> HIDE DEF A, B
    <2>3. Cardinality(A) <= Cardinality(B) /\ Cardinality(A) \in Nat
      BY <2>1, FiniteItems
    <2>4. IsFiniteSet(FindingsOf(n, l)) /\ Cardinality(A) <= Cardinality(FindingsOf(n, l))
      BY <1>1, <2>1, FiniteItems
    <2>5. A # FindingsOf(n, l)
      BY <2>2, <1>5
    <2>6. Cardinality(A) # Cardinality(FindingsOf(n, l))
      BY <2>1, <2>4, <2>5, FS_Subset
    <2>7. QED
      BY <1>3, <2>3, <2>4, <2>6 DEF A, B
  <1>6. QED
    BY <1>1, <1>2, <1>3, <1>4, <1>5

\* A page that exists is not empty.
LEMMA PageHasItems ==
  ASSUME NEW n \in Nat, NEW S \in SUBSET (1..n), S # {}, NEW page \in Nat \ {0},
         Exists(page, S)
  PROVE  OnPage(S, page, ShownSize) # {}
  <1> DEFINE k == (page - 1) * ShownSize
  <1>1. Cardinality(S) \in Nat /\ Cardinality(S) # 0
    BY FiniteItems, FS_EmptySet
  <1>2. k \in Nat /\ (page = 1 => k = 0)
    BY Bounds
  <1>3. k < Cardinality(S)
    BY <1>1, <1>2 DEF Exists
  <1>4. PICK i \in S : Cardinality(Newer(S, i)) = k
    BY <1>2, <1>3, Ranks
  <1>5. k < page * ShownSize
    BY Bounds
  <1>6. k \div ShownSize = page - 1
    BY <1>2, <1>5, Bounds, PageOf
  <1>7. i \in OnPage(S, page, ShownSize)
    BY <1>4, <1>6 DEF OnPage, Newer
  <1>8. QED
    BY <1>7

\* The first page always exists, a page of a pager while no list shrinks.
LEMMA PagerPages ==
  ASSUME NEW n \in Nat, NEW S \in SUBSET (1..n), NEW page \in 1..Pages(S, ShownSize)
  PROVE  page \in Nat \ {0} /\ Exists(page, S)
  <1>1. Cardinality(S) \in Nat
    BY FiniteItems
  <1>2. Pages(S, ShownSize) \in Nat \ {0}
    BY <1>1, Bounds, PageCount
  <1>3. page \in Nat \ {0} /\ page <= Pages(S, ShownSize)
    BY <1>2
  <1>4. QED
    BY <1>1, <1>3, Bounds, PageCount DEF Exists

LEMMA ExistsMore ==
  ASSUME NEW page \in Nat \ {0}, NEW S, NEW T, Exists(page, S),
         Cardinality(S) \in Nat, Cardinality(T) \in Nat, Cardinality(S) <= Cardinality(T)
  PROVE  Exists(page, T)
  <1>1. (page - 1) * ShownSize \in Int
    BY Bounds
  <1>2. QED
    BY <1>1 DEF Exists

ResultsInv == AroundInv /\ ViewInv /\ CopyInv

LEMMA InitResultsInv == ResultsInit => ResultsInv
  <1> SUFFICES ASSUME ResultsInit PROVE ResultsInv
    OBVIOUS
  <1>1. AroundInv
    <2>1. /\ removal \in [open : BOOLEAN, busy : BOOLEAN, sent : Nat, done : Nat, refused : Nat]
          /\ removal.sent = 0 /\ removal.done = 0 /\ removal.refused = 0
      BY DEF ResultsInit
    <2>2. Requests <= MaxRemovals
      BY <2>1, Bounds DEF Requests
    <2>3. QED
      <3>1. 0 \in 0..MaxFindings /\ 0 \in 0..MaxProbes
        BY Bounds
      <3>2. scan \in [status : {"pending", "completed", "failed", "deleted"},
                      findings : 0..MaxFindings, probes : 0..MaxProbes]
        BY <3>1 DEF ResultsInit
      <3>3. QED
        BY <2>1, <2>2, <3>2 DEF ResultsInit, AroundInv
  <1>2. view \in Views /\ view.page = 1 /\ view.probePage = 1
    BY DEF ResultsInit, FirstView, Views, ProbeFilters
  <1>3. results \in Answers /\ results.is = "none" /\ results.found = {} /\ results.rows = {}
        /\ results.probes = {} /\ results.probeRows = {}
    BY DEF ResultsInit, NoResults, Answers
  <1>4. ViewInv
    BY <1>2, <1>3 DEF ViewInv, ViewAt, Exists
  <1>5. copy \in Copies /\ copy.step = "idle"
    BY DEF ResultsInit, NoCopy, Copies
  <1>6. QED
    BY <1>1, <1>4, <1>5 DEF ResultsInv, CopyInv, CopyAt

\* What the scan has stored stays: only the dispatch as a whole is deleted.
LEMMA AroundStep ==
  ASSUME AroundInv, [ResultsNext]_resultsVars
  PROVE  /\ AroundInv'
         /\ scan.findings \in Nat /\ scan'.findings \in Nat /\ scan.findings <= scan'.findings
         /\ scan.probes \in Nat /\ scan'.probes \in Nat /\ scan.probes <= scan'.probes
  <1> DEFINE Scans == [status : {"pending", "completed", "failed", "deleted"},
                       findings : 0..MaxFindings, probes : 0..MaxProbes]
             Removals == [open : BOOLEAN, busy : BOOLEAN, sent : Nat, done : Nat, refused : Nat]
  <1>1. /\ scan \in Scans /\ scan.findings \in Nat /\ scan.probes \in Nat
        /\ removal \in Removals /\ Requests <= MaxRemovals
        /\ entered \in BOOLEAN /\ export \in {"closed", "open", "loading", "failed"}
        /\ where \in {"results", "elsewhere", "system"}
    BY Bounds DEF AroundInv
  <1>2. scan' = scan \/ FindingStored \/ ProbeStored \/ ScanEnds \/ RemovedElsewhere \/ ServeRemoval
    BY DEF ResultsNext, resultsVars, AnswerResults, RequestFails, SetProbeFilter, Show,
       EnterLogFilters, ApplyLogFilters, ClearLogFilters, TurnFindings, TurnProbes, StartCopy,
       CopyPage, CopyFails, OpenRemoval, CloseRemoval, ConfirmRemoval, RemovalDone,
       RemovalRefused, OpenExport, CloseExport, StartExport, EndExport, Leave
  <1>3. /\ scan' \in Scans /\ scan.findings <= scan'.findings /\ scan.probes <= scan'.probes
        /\ scan'.findings \in Nat /\ scan'.probes \in Nat
    <2>1. CASE scan' = scan
      BY <1>1, <2>1
    <2>2. CASE FindingStored
      BY <1>1, <2>2, Bounds DEF FindingStored
    <2>3. CASE ProbeStored
      BY <1>1, <2>3, Bounds DEF ProbeStored
    <2>4. CASE ScanEnds
      BY <1>1, <2>4 DEF ScanEnds
    <2>5. CASE RemovedElsewhere
      BY <1>1, <2>5 DEF RemovedElsewhere
    <2>6. CASE ServeRemoval
      BY <1>1, <2>6 DEF ServeRemoval
    <2>7. QED
      BY <1>2, <2>1, <2>2, <2>3, <2>4, <2>5, <2>6
  <1>4. \/ removal' = removal
        \/ OpenRemoval \/ CloseRemoval \/ ConfirmRemoval \/ ServeRemoval \/ RemovalDone
        \/ RemovalRefused \/ Leave
    BY DEF ResultsNext, resultsVars, AnswerResults, RequestFails, SetProbeFilter, Show,
       EnterLogFilters, ApplyLogFilters, ClearLogFilters, TurnFindings, TurnProbes, StartCopy,
       CopyPage, CopyFails, OpenExport, CloseExport, StartExport, EndExport,
       FindingStored, ProbeStored, ScanEnds, RemovedElsewhere
  <1>5. removal' \in Removals /\ Requests' <= MaxRemovals
    <2>0. removal.sent \in Nat /\ removal.done \in Nat /\ removal.refused \in Nat
          /\ removal.sent + removal.done + removal.refused <= MaxRemovals
      BY <1>1 DEF Requests
    <2>1. CASE removal' = removal
      BY <1>1, <2>1 DEF Requests
    <2>2. CASE OpenRemoval
      BY <1>1, <2>2 DEF OpenRemoval, Requests
    <2>3. CASE CloseRemoval \/ Leave
      BY <1>1, <2>3 DEF CloseRemoval, Leave, Requests
    <2>4. CASE ConfirmRemoval
      <3>1. removal'.sent = removal.sent + 1 /\ removal'.done = removal.done
            /\ removal'.refused = removal.refused
        BY <1>1, <2>0, <2>4 DEF ConfirmRemoval
      <3>0. removal.sent + 1 \in Nat
        BY <2>0, <3>1
      <3>2. removal' \in Removals
        BY <1>1, <2>4, <3>0 DEF ConfirmRemoval
      <3>3. removal.sent + removal.done + removal.refused < MaxRemovals
        BY <2>4 DEF ConfirmRemoval, Requests
      <3>4. QED
        BY <2>0, <3>1, <3>2, <3>3, Bounds DEF Requests
    <2>5. CASE ServeRemoval
      <3>1. /\ removal.sent > 0 /\ removal'.sent = removal.sent - 1
            /\ \/ removal'.done = removal.done + 1 /\ removal'.refused = removal.refused
               \/ removal'.done = removal.done /\ removal'.refused = removal.refused + 1
        BY <1>1, <2>0, <2>5 DEF ServeRemoval
      <3>0. removal.sent - 1 \in Nat /\ removal.done + 1 \in Nat /\ removal.refused + 1 \in Nat
        BY <2>0, <3>1
      <3>2. removal' \in Removals
        BY <1>1, <2>5, <3>0 DEF ServeRemoval
      <3>3. QED
        BY <2>0, <3>1, <3>2, Bounds DEF Requests
    <2>6. CASE RemovalDone
      <3>1. /\ removal.done > 0 /\ removal'.sent = removal.sent
            /\ removal'.done = removal.done - 1 /\ removal'.refused = removal.refused
        BY <1>1, <2>0, <2>6 DEF RemovalDone
      <3>0. removal.done - 1 \in Nat
        BY <2>0, <3>1
      <3>2. removal' \in Removals
        BY <1>1, <2>6, <3>0 DEF RemovalDone
      <3>3. QED
        BY <2>0, <3>1, <3>2, Bounds DEF Requests
    <2>7. CASE RemovalRefused
      <3>1. /\ removal.refused > 0 /\ removal'.sent = removal.sent
            /\ removal'.done = removal.done /\ removal'.refused = removal.refused - 1
        BY <1>1, <2>0, <2>7 DEF RemovalRefused
      <3>0. removal.refused - 1 \in Nat
        BY <2>0, <3>1
      <3>2. removal' \in Removals
        BY <1>1, <2>7, <3>0 DEF RemovalRefused
      <3>3. QED
        BY <2>0, <3>1, <3>2, Bounds DEF Requests
    <2>8. QED
      BY <1>4, <2>1, <2>2, <2>3, <2>4, <2>5, <2>6, <2>7
  <1>6. entered' \in BOOLEAN
    BY <1>1 DEF ResultsNext, resultsVars, AnswerResults, RequestFails, SetProbeFilter, Show,
       EnterLogFilters, ApplyLogFilters, ClearLogFilters, TurnFindings, TurnProbes, StartCopy,
       CopyPage, CopyFails, OpenRemoval, CloseRemoval, ConfirmRemoval, ServeRemoval, RemovalDone,
       RemovalRefused, OpenExport, CloseExport, StartExport, EndExport, Leave,
       FindingStored, ProbeStored, ScanEnds, RemovedElsewhere
  <1>7. export' \in {"closed", "open", "loading", "failed"}
    BY <1>1 DEF ResultsNext, resultsVars, AnswerResults, RequestFails, SetProbeFilter, Show,
       EnterLogFilters, ApplyLogFilters, ClearLogFilters, TurnFindings, TurnProbes, StartCopy,
       CopyPage, CopyFails, OpenRemoval, CloseRemoval, ConfirmRemoval, ServeRemoval, RemovalDone,
       RemovalRefused, OpenExport, CloseExport, StartExport, EndExport, Leave,
       FindingStored, ProbeStored, ScanEnds, RemovedElsewhere
  <1>8. where' \in {"results", "elsewhere", "system"}
    BY <1>1 DEF ResultsNext, resultsVars, AnswerResults, RequestFails, SetProbeFilter, Show,
       EnterLogFilters, ApplyLogFilters, ClearLogFilters, TurnFindings, TurnProbes, StartCopy,
       CopyPage, CopyFails, OpenRemoval, CloseRemoval, ConfirmRemoval, ServeRemoval, RemovalDone,
       RemovalRefused, OpenExport, CloseExport, StartExport, EndExport, Leave,
       FindingStored, ProbeStored, ScanEnds, RemovedElsewhere
  <1>9. QED
    BY <1>1, <1>3, <1>5, <1>6, <1>7, <1>8 DEF AroundInv

LEMMA ViewGrows ==
  ASSUME NEW n \in Nat, NEW n2 \in Nat, NEW m \in Nat, NEW m2 \in Nat,
         n <= n2, m <= m2, NEW v, NEW r, ViewAt(n, m, v, r)
  PROVE  ViewAt(n2, m2, v, r)
  <1>1. v.page \in Nat \ {0} /\ v.probePage \in Nat \ {0}
    BY DEF ViewAt, Views
  <1>2. /\ FindingsOf(n, v.logged) \subseteq FindingsOf(n2, v.logged)
        /\ Cardinality(FindingsOf(n, v.logged)) <= Cardinality(FindingsOf(n2, v.logged))
        /\ Cardinality(FindingsOf(n, v.logged)) \in Nat
        /\ Cardinality(FindingsOf(n2, v.logged)) \in Nat
        /\ ProbesOf(m, v) \subseteq ProbesOf(m2, v)
        /\ Cardinality(ProbesOf(m, v)) <= Cardinality(ProbesOf(m2, v))
        /\ Cardinality(ProbesOf(m, v)) \in Nat
        /\ Cardinality(ProbesOf(m2, v)) \in Nat
    <2>1. n2 <= n2 /\ m2 <= m2
      OBVIOUS
    <2>2. Cardinality(FindingsOf(n2, v.logged)) \in Nat /\ Cardinality(ProbesOf(m2, v)) \in Nat
      BY <2>1, Grow
    <2>3. QED
      BY <2>2, Grow
  <1>3. Exists(v.page, FindingsOf(n2, v.logged)) /\ Exists(v.probePage, ProbesOf(m2, v))
    BY <1>1, <1>2, ExistsMore DEF ViewAt
  <1>4. QED
    BY <1>2, <1>3 DEF ViewAt

LEMMA NothingShown ==
  /\ NoResults \in Answers /\ NoResults.is = "none"
  /\ NoResults.found = {} /\ NoResults.rows = {}
  /\ NoResults.probes = {} /\ NoResults.probeRows = {}
  BY DEF NoResults, Answers

LEMMA ShowStep ==
  ASSUME ViewInv, NEW w \in Views, Show(w), 
         Exists(w.page, FindingsOf(scan.findings, w.logged)),
         Exists(w.probePage, ProbesOf(scan.probes, w))
  PROVE  ViewInv'
  <1>1. view' = w /\ scan' = scan /\ results' = IF w = view THEN results ELSE NoResults
    BY DEF Show
  <1>2. ViewAt(scan.findings, scan.probes, w, NoResults)
    BY NothingShown DEF ViewAt
  <1>3. ViewAt(scan.findings, scan.probes, w, results')
    BY <1>1, <1>2 DEF ViewInv
  <1>4. QED
    BY <1>1, <1>3 DEF ViewInv

LEMMA FirstPages ==
  ASSUME NEW v \in Views, NEW one, one = 1
  PROVE  /\ \A filter \in ProbeFilters :
              LET w == [v EXCEPT !.filter = filter, !.probePage = one, !.page = one]
              IN  w \in Views /\ w.page = 1 /\ w.probePage = 1
         /\ \A logged \in BOOLEAN :
              LET w == [v EXCEPT !.logged = logged, !.probePage = one, !.page = one]
              IN  w \in Views /\ w.page = 1 /\ w.probePage = 1
  <1>1. one \in Nat \ {0}
    OBVIOUS
  <1>2. ASSUME NEW filter \in ProbeFilters
        PROVE  [v EXCEPT !.filter = filter, !.probePage = one, !.page = one] \in Views
    BY <1>1 DEF Views
  <1>3. ASSUME NEW logged \in BOOLEAN
        PROVE  [v EXCEPT !.logged = logged, !.probePage = one, !.page = one] \in Views
    BY <1>1 DEF Views
  <1>4. QED
    BY <1>2, <1>3 DEF Views

LEMMA ViewStep ==
  ASSUME ResultsInv, [ResultsNext]_resultsVars
  PROVE  ViewInv'
  <1>1. /\ ViewInv /\ AroundInv
        /\ scan.findings \in Nat /\ scan'.findings \in Nat /\ scan.findings <= scan'.findings
        /\ scan.probes \in Nat /\ scan'.probes \in Nat /\ scan.probes <= scan'.probes
    BY AroundStep DEF ResultsInv
  <1>2. /\ view \in Views /\ results \in Answers
        /\ Exists(view.page, FindingsOf(scan.findings, view.logged))
        /\ Exists(view.probePage, ProbesOf(scan.probes, view))
        /\ results.found \subseteq FindingsOf(scan.findings, view.logged)
        /\ results.probes \subseteq ProbesOf(scan.probes, view)
    BY <1>1 DEF ViewInv, ViewAt
  <1>3. CASE UNCHANGED <<view, results>>
    <2>1. ViewAt(scan'.findings, scan'.probes, view, results)
      BY <1>1, ViewGrows DEF ViewInv
    <2>2. QED
      BY <1>3, <2>1 DEF ViewInv
  <1>4. CASE AnswerResults
    <2> DEFINE found == FindingsOf(scan.findings, view.logged)
               probes == ProbesOf(scan.probes, view)
               r == [is |-> "data", status |-> scan.status, found |-> found,
                     rows |-> OnPage(found, view.page, ShownSize), probes |-> probes,
                     probeRows |-> OnPage(probes, view.probePage, ShownSize)]
    <2>1. scan' = scan /\ view' = view
      BY <1>4 DEF AnswerResults
    <2>2. CASE Gone
      <3>1. results' = [results EXCEPT !.is = "error"]
        BY <1>4, <2>2 DEF AnswerResults
      <3>2. results' \in Answers /\ results'.is = "error" /\ results'.found = results.found
            /\ results'.rows = results.rows /\ results'.probes = results.probes
            /\ results'.probeRows = results.probeRows
        BY <1>2, <3>1 DEF Answers
      <3>3. ViewAt(scan.findings, scan.probes, view, results')
        BY <1>1, <3>2 DEF ViewInv, ViewAt
      <3>4. QED
        BY <2>1, <3>3 DEF ViewInv
    <2>3. CASE ~Gone
      <3>1. results' = r
        BY <1>4, <2>3, ByCount DEF AnswerResults
      <3>2. found \in SUBSET (1..scan.findings) /\ probes \in SUBSET (1..scan.probes)
        BY DEF FindingsOf, ProbesOf
      <3>3. view.page \in Nat \ {0} /\ view.probePage \in Nat \ {0}
        BY <1>2 DEF Views
      <3>4. found # {} => OnPage(found, view.page, ShownSize) # {}
        BY <1>1, <1>2, <3>2, <3>3, PageHasItems
      <3>5. probes # {} => OnPage(probes, view.probePage, ShownSize) # {}
        BY <1>1, <1>2, <3>2, <3>3, PageHasItems
      <3>6. /\ OnPage(found, view.page, ShownSize) \subseteq found
            /\ OnPage(probes, view.probePage, ShownSize) \subseteq probes
        BY DEF OnPage
      <3>7. scan.status \in {"pending", "completed", "failed", "deleted"}
        BY <1>1 DEF AroundInv
      <3>8. found \subseteq Nat /\ probes \subseteq Nat
        BY <1>1, <3>2
      <3>9. r \in Answers
        BY <3>6, <3>7, <3>8 DEF Answers
      <3>10. ViewAt(scan.findings, scan.probes, view, r)
        BY <1>2, <3>4, <3>5, <3>6, <3>9 DEF ViewAt
      <3>11. QED
        BY <2>1, <3>1, <3>10 DEF ViewInv
    <2>4. QED
      BY <2>2, <2>3
  <1>5. CASE RequestFails
    <2>1. results' = [results EXCEPT !.is = "error"] /\ scan' = scan /\ view' = view
      BY <1>5 DEF RequestFails
    <2>2. results' \in Answers /\ results'.is = "error" /\ results'.found = results.found
          /\ results'.rows = results.rows /\ results'.probes = results.probes
          /\ results'.probeRows = results.probeRows
      BY <1>2, <2>1 DEF Answers
    <2>3. ViewAt(scan.findings, scan.probes, view, results')
      BY <1>1, <2>2 DEF ViewInv, ViewAt
    <2>4. QED
      BY <2>1, <2>3 DEF ViewInv
  \* A filter that is changed, in any of the handlers, shows both first pages.
  <1>6. ASSUME NEW w \in Views, Show(w), w.page = 1, w.probePage = 1 PROVE ViewInv'
    BY <1>1, <1>6, ShowStep DEF Exists
  <1>7. ASSUME NEW filter \in ProbeFilters, SetProbeFilter(filter) PROVE ViewInv'
    <2> DEFINE w == [view EXCEPT !.filter = filter, !.probePage = 1, !.page = 1]
    <2>1. w \in Views /\ w.page = 1 /\ w.probePage = 1
      BY <1>2, FirstPages
    <2>2. Show(w)
      BY <1>7 DEF SetProbeFilter
    <2> HIDE DEF w
    <2>3. QED
      BY <1>6, <2>1, <2>2
  <1>8. CASE ApplyLogFilters
    <2> DEFINE w == [view EXCEPT !.logged = entered, !.probePage = 1, !.page = 1]
    <2>1. w \in Views /\ w.page = 1 /\ w.probePage = 1
      <3>1. entered \in BOOLEAN
        BY <1>1 DEF AroundInv
      <3>2. PICK l \in BOOLEAN : l = entered
        BY <3>1
      <3>3. [view EXCEPT !.logged = l, !.probePage = 1, !.page = 1] \in Views
        BY <1>2, FirstPages
      <3>4. w \in Views
        BY <3>2, <3>3
      <3>5. QED
        BY <1>2, <3>4 DEF Views
    <2>2. Show(w)
      BY <1>8 DEF ApplyLogFilters
    <2> HIDE DEF w
    <2>3. QED
      BY <1>6, <2>1, <2>2
  <1>9. CASE ClearLogFilters
    <2> DEFINE w == [view EXCEPT !.logged = FALSE, !.probePage = 1, !.page = 1]
    <2>1. w \in Views /\ w.page = 1 /\ w.probePage = 1
      BY <1>2, FirstPages
    <2>2. Show(w)
      BY <1>9 DEF ClearLogFilters
    <2> HIDE DEF w
    <2>3. QED
      BY <1>6, <2>1, <2>2
  <1>10. ASSUME NEW page, TurnFindings(page) PROVE ViewInv'
    <2> DEFINE w == [view EXCEPT !.page = page]
    <2>1. page \in 1..Pages(results.found, ShownSize) /\ Show(w)
      BY <1>10 DEF TurnFindings
    <2>2. results.found \in SUBSET (1..scan.findings)
      BY <1>2 DEF FindingsOf
    <2>3. page \in Nat \ {0} /\ Exists(page, results.found)
      BY <1>1, <2>1, <2>2, PagerPages
    <2>4. /\ Cardinality(results.found) \in Nat
          /\ Cardinality(FindingsOf(scan.findings, view.logged)) \in Nat
          /\ Cardinality(results.found) <= Cardinality(FindingsOf(scan.findings, view.logged))
      <3>1. FindingsOf(scan.findings, view.logged) \in SUBSET (1..scan.findings)
        BY DEF FindingsOf
      <3>2. QED
        BY <1>1, <1>2, <3>1, FiniteItems
    <2>5. Exists(page, FindingsOf(scan.findings, view.logged))
      BY <2>3, <2>4, ExistsMore
    <2>6. /\ w \in Views /\ w.page = page /\ w.probePage = view.probePage
          /\ w.logged = view.logged /\ w.filter = view.filter
      BY <1>2, <2>3 DEF Views
    <2> HIDE DEF w
    <2>7. ProbesOf(scan.probes, w) = ProbesOf(scan.probes, view)
      BY <2>6 DEF ProbesOf
    <2>8. QED
      BY <1>1, <1>2, <2>1, <2>5, <2>6, <2>7, ShowStep
  <1>11. ASSUME NEW page, TurnProbes(page) PROVE ViewInv'
    <2> DEFINE w == [view EXCEPT !.probePage = page]
    <2>1. page \in 1..Pages(results.probes, ShownSize) /\ Show(w)
      BY <1>11 DEF TurnProbes
    <2>2. results.probes \in SUBSET (1..scan.probes)
      BY <1>2 DEF ProbesOf
    <2>3. page \in Nat \ {0} /\ Exists(page, results.probes)
      BY <1>1, <2>1, <2>2, PagerPages
    <2>4. /\ Cardinality(results.probes) \in Nat
          /\ Cardinality(ProbesOf(scan.probes, view)) \in Nat
          /\ Cardinality(results.probes) <= Cardinality(ProbesOf(scan.probes, view))
      <3>1. ProbesOf(scan.probes, view) \in SUBSET (1..scan.probes)
        BY DEF ProbesOf
      <3>2. QED
        BY <1>1, <1>2, <3>1, FiniteItems
    <2>5. Exists(page, ProbesOf(scan.probes, view))
      BY <2>3, <2>4, ExistsMore
    <2>6. /\ w \in Views /\ w.page = view.page /\ w.probePage = page
          /\ w.logged = view.logged /\ w.filter = view.filter
      BY <1>2, <2>3 DEF Views
    <2> HIDE DEF w
    <2>7. ProbesOf(scan.probes, w) = ProbesOf(scan.probes, view)
      BY <2>6 DEF ProbesOf
    <2>8. QED
      BY <1>1, <1>2, <2>1, <2>5, <2>6, <2>7, ShowStep
  <1>12. CASE RemovalDone
    <2>1. view' = view /\ scan' = scan /\ results' = NoResults
      BY <1>12 DEF RemovalDone
    <2>2. ViewAt(scan.findings, scan.probes, view, NoResults)
      BY <1>2, NothingShown DEF ViewAt
    <2>3. QED
      BY <2>1, <2>2 DEF ViewInv
  <1>13. CASE Leave
    <2>1. view' = FirstView /\ scan' = scan /\ results' = NoResults
      BY <1>13 DEF Leave
    <2>2. FirstView \in Views /\ FirstView.page = 1 /\ FirstView.probePage = 1
      BY DEF FirstView, Views, ProbeFilters
    <2>3. ViewAt(scan.findings, scan.probes, FirstView, NoResults)
      BY <2>2, NothingShown DEF ViewAt, Exists
    <2>4. QED
      BY <2>1, <2>3 DEF ViewInv
  <1>14. \/ UNCHANGED <<view, results>>
         \/ AnswerResults \/ RequestFails
         \/ \E filter \in ProbeFilters : SetProbeFilter(filter)
         \/ ApplyLogFilters \/ ClearLogFilters
         \/ \E page : TurnFindings(page) \/ TurnProbes(page)
         \/ RemovalDone \/ Leave
    BY DEF ResultsNext, resultsVars, EnterLogFilters, StartCopy,
       CopyPage, CopyFails, OpenRemoval, CloseRemoval, ConfirmRemoval, ServeRemoval,
       RemovalRefused, OpenExport, CloseExport, StartExport, EndExport,
       FindingStored, ProbeStored, ScanEnds, RemovedElsewhere
  <1>15. QED
    BY <1>3, <1>4, <1>5, <1>7, <1>8, <1>9, <1>10, <1>11, <1>12, <1>13, <1>14

\* A page is through, or it is the last: what was wanted of it is there.
LEMMA OnePageMore ==
  ASSUME NEW n \in Nat, NEW c, CopyAt(n, c), c.step = "loading", NEW d \in Copies,
         d.want = c.want, d.page = c.page + 1, d.logged = c.logged,
         d.got = c.got \union OnPage(FindingsOf(n, c.logged), c.page, CopySize),
         d.step = IF c.page < Pages(FindingsOf(n, c.logged), CopySize)
                  THEN "loading" ELSE "copied"
  PROVE  CopyAt(n, d)
  <1> DEFINE F == FindingsOf(n, c.logged)
  <1>1. /\ c.page \in Nat \ {0} /\ c.want \subseteq F
        /\ \A f \in c.want : Cardinality(Newer(F, f)) < (c.page - 1) * CopySize => f \in c.got
    BY DEF CopyAt, Copies
  <1>2. /\ F \in SUBSET (1..n) /\ Cardinality(F) \in Nat
        /\ \A f \in F : /\ Cardinality(Newer(F, f)) \in Nat
                        /\ Cardinality(Newer(F, f)) < Cardinality(F)
    BY Grow
  <1>3. ASSUME NEW f \in c.want, Cardinality(Newer(F, f)) < c.page * CopySize
        PROVE  f \in d.got
    <2> DEFINE k == Cardinality(Newer(F, f))
    <2>1. k \in Nat /\ f \in F
      BY <1>1, <1>2
    <2>2. CASE k < (c.page - 1) * CopySize
      BY <1>1, <2>2
    <2>3. CASE ~(k < (c.page - 1) * CopySize)
      <3>1. (c.page - 1) * CopySize \in Int
        BY <1>1, Bounds
      <3>2. (c.page - 1) * CopySize <= k /\ k < c.page * CopySize
        BY <1>3, <2>1, <2>3, <3>1
      <3> HIDE DEF k
      <3>3. k \div CopySize = c.page - 1
        BY <1>1, <2>1, <3>2, Bounds, PageOf
      <3>4. f \in OnPage(F, c.page, CopySize)
        BY <2>1, <3>3 DEF OnPage, Newer, k
      <3>5. QED
        BY <3>4
    <2>4. QED
      BY <2>2, <2>3
  <1>4. CASE c.page < Pages(F, CopySize)
    <2>1. d.step = "loading" /\ d.page # 0 /\ d.page - 1 = c.page
      BY <1>1, <1>4
    <2>2. \A f \in d.want : Cardinality(Newer(F, f)) < (d.page - 1) * CopySize => f \in d.got
      BY <1>3, <2>1
    <2> HIDE DEF F
    <2>3. QED
      BY <1>1, <2>1, <2>2 DEF CopyAt, F
  <1>5. CASE ~(c.page < Pages(F, CopySize))
    <2>1. d.step = "copied"
      BY <1>5
    <2>2. Pages(F, CopySize) \in Nat \ {0} /\ c.page + 1 \in Nat \ {0}
      BY <1>1, <1>2, Bounds, PageCount
    <2>3. ~(c.page + 1 <= Pages(F, CopySize))
      BY <1>1, <1>5, <2>2
    <2>4. ~(c.page * CopySize < Cardinality(F))
      <3>1. PICK p \in Nat \ {0} : p = c.page + 1
        BY <2>2
      <3>2. p # 1 /\ p - 1 = c.page
        BY <1>1, <3>1
      <3>3. p <= Pages(F, CopySize) <=> p = 1 \/ (p - 1) * CopySize < Cardinality(F)
        BY <1>2, Bounds, PageCount
      <3>4. ~(p <= Pages(F, CopySize))
        BY <2>3, <3>1
      <3>5. ~((p - 1) * CopySize < Cardinality(F))
        BY <3>2, <3>3, <3>4
      <3>6. QED
        BY <3>2, <3>5
    <2>5. Cardinality(F) <= c.page * CopySize
      <3>1. c.page * CopySize \in Nat
        BY <1>1, Bounds
      <3>2. QED
        BY <1>2, <2>4, <3>1
    <2>6. ASSUME NEW f \in c.want PROVE f \in d.got
      <3>1. Cardinality(Newer(F, f)) \in Nat /\ Cardinality(Newer(F, f)) < Cardinality(F)
        BY <1>1, <1>2
      <3>2. c.page * CopySize \in Nat
        BY <1>1, Bounds
      <3>3. Cardinality(Newer(F, f)) < c.page * CopySize
        BY <1>2, <2>5, <3>1, <3>2
      <3>4. QED
        BY <1>3, <3>3
    <2>7. QED
      BY <2>1, <2>6 DEF CopyAt
  <1>6. QED
    BY <1>4, <1>5

\* While a copy is under way the scan may go on.
LEMMA CopyGrows ==
  ASSUME NEW n \in Nat, NEW m \in Nat, n <= m, NEW c, CopyAt(n, c)
  PROVE  CopyAt(m, c)
  <1>1. CASE c.step = "loading"
    <2>1. /\ c.page \in Nat \ {0} /\ c.want \subseteq FindingsOf(n, c.logged)
          /\ \A f \in c.want :
               Cardinality(Newer(FindingsOf(n, c.logged), f)) < (c.page - 1) * CopySize
                 => f \in c.got
      BY <1>1 DEF CopyAt, Copies
    <2>2. FindingsOf(n, c.logged) \subseteq FindingsOf(m, c.logged)
      BY Grow
    <2>3. ASSUME NEW f \in c.want,
                 Cardinality(Newer(FindingsOf(m, c.logged), f)) < (c.page - 1) * CopySize
          PROVE  f \in c.got
      <3>1. f \in FindingsOf(n, c.logged) /\ f \in FindingsOf(m, c.logged)
        BY <2>1, <2>2
      <3>2. /\ Cardinality(Newer(FindingsOf(n, c.logged), f))
                 <= Cardinality(Newer(FindingsOf(m, c.logged), f))
            /\ Cardinality(Newer(FindingsOf(n, c.logged), f)) \in Nat
        BY <3>1, Grow
      <3>3. m <= m /\ (c.page - 1) * CopySize \in Int
        BY <2>1, Bounds
      <3>4. Cardinality(Newer(FindingsOf(m, c.logged), f)) \in Nat
        BY <3>1, <3>3, Grow
      <3>5. Cardinality(Newer(FindingsOf(n, c.logged), f)) < (c.page - 1) * CopySize
        BY <2>3, <3>2, <3>3, <3>4
      <3>6. QED
        BY <2>1, <3>5
    <2>4. QED
      BY <1>1, <2>1, <2>2, <2>3 DEF CopyAt
  <1>2. QED
    BY <1>1 DEF CopyAt

LEMMA CopyStep ==
  ASSUME ResultsInv, [ResultsNext]_resultsVars
  PROVE  CopyInv'
  <1>1. /\ ViewInv /\ CopyInv /\ copy \in Copies /\ CopyAt(scan.findings, copy)
        /\ scan.findings \in Nat /\ scan'.findings \in Nat /\ scan.findings <= scan'.findings
    BY AroundStep DEF ResultsInv, CopyInv, CopyAt
  <1>2. CASE copy' = copy
    BY <1>1, <1>2, CopyGrows DEF CopyInv
  <1>3. CASE StartCopy
    <2> DEFINE all1 == [NoCopy EXCEPT !.step = "copied", !.got = results.rows,
                                      !.want = results.found]
               first == [NoCopy EXCEPT !.step = "loading", !.page = 1,
                                       !.logged = view.logged, !.want = results.found]
    <2>1. scan' = scan /\ copy' = IF results.rows = results.found THEN all1 ELSE first
      BY <1>3 DEF StartCopy
    <2>2. /\ results.found \subseteq Nat /\ results.rows \subseteq Nat
          /\ results.found \subseteq FindingsOf(scan.findings, view.logged)
          /\ view.logged \in BOOLEAN
      BY <1>1 DEF ViewInv, ViewAt, Answers, Views
    <2>3. CASE results.rows = results.found
      <3>1. all1 \in Copies /\ all1.step = "copied" /\ all1.want \subseteq all1.got
        BY <2>2, <2>3 DEF NoCopy, Copies
      <3> HIDE DEF all1
      <3>2. CopyAt(scan.findings, all1)
        BY <3>1 DEF CopyAt
      <3>3. QED
        BY <2>1, <2>3, <3>2 DEF CopyInv
    <2>4. CASE results.rows # results.found
      <3>1. first \in Copies /\ first.step = "loading" /\ first.page = 1
            /\ first.logged = view.logged /\ first.want = results.found
        BY <2>2 DEF NoCopy, Copies
      <3> HIDE DEF first
      <3>2. ASSUME NEW f \in first.want
            PROVE  ~(Cardinality(Newer(FindingsOf(scan.findings, first.logged), f))
                       < (first.page - 1) * CopySize)
        <4>1. scan.findings <= scan.findings /\ f \in FindingsOf(scan.findings, first.logged)
          BY <1>1, <2>2, <3>1
        <4>2. Cardinality(Newer(FindingsOf(scan.findings, first.logged), f)) \in Nat
          BY <1>1, <4>1, Grow
        <4>3. (first.page - 1) * CopySize = 0
          BY <3>1, Bounds
        <4>4. QED
          BY <4>2, <4>3
      <3>3. CopyAt(scan.findings, first)
        BY <2>2, <3>1, <3>2 DEF CopyAt
      <3>4. QED
        BY <2>1, <2>4, <3>3 DEF CopyInv
    <2>5. QED
      BY <2>3, <2>4
  <1>4. CASE CopyPage
    <2> DEFINE F == FindingsOf(scan.findings, copy.logged)
               d == [copy EXCEPT !.got = @ \union OnPage(F, copy.page, CopySize),
                                 !.page = @ + 1,
                                 !.step = IF copy.page < Pages(F, CopySize)
                                          THEN "loading" ELSE "copied"]
    <2>1. copy' = d /\ scan' = scan /\ copy.step = "loading"
      BY <1>4, ByCount DEF CopyPage
    <2>2. OnPage(F, copy.page, CopySize) \subseteq Nat
      BY <1>1 DEF OnPage, FindingsOf
    <2>3. copy.page + 1 \in Nat
      BY <1>1 DEF Copies
    <2>4. /\ d \in Copies /\ d.want = copy.want /\ d.page = copy.page + 1
          /\ d.logged = copy.logged /\ d.got = copy.got \union OnPage(F, copy.page, CopySize)
          /\ d.step = IF copy.page < Pages(F, CopySize) THEN "loading" ELSE "copied"
      BY <1>1, <2>2, <2>3 DEF Copies
    <2> HIDE DEF d
    <2>5. CopyAt(scan.findings, d)
      BY <1>1, <2>1, <2>4, OnePageMore
    <2>6. QED
      BY <2>1, <2>5 DEF CopyInv
  <1>5. CASE CopyFails
    <2>1. copy' = [copy EXCEPT !.step = "failed"] /\ scan' = scan
      BY <1>5 DEF CopyFails
    <2>2. copy' \in Copies /\ copy'.step = "failed"
      BY <1>1, <2>1 DEF Copies
    <2>3. QED
      BY <2>1, <2>2 DEF CopyInv, CopyAt
  <1>6. CASE copy' = NoCopy
    <2>1. NoCopy \in Copies /\ NoCopy.step = "idle"
      BY DEF NoCopy, Copies
    <2>2. QED
      BY <1>6, <2>1 DEF CopyInv, CopyAt
  <1>7. copy' = copy \/ StartCopy \/ CopyPage \/ CopyFails \/ copy' = NoCopy
    BY DEF ResultsNext, resultsVars, AnswerResults, RequestFails, SetProbeFilter, Show,
       EnterLogFilters, ApplyLogFilters, ClearLogFilters, TurnFindings, TurnProbes,
       OpenRemoval, CloseRemoval, ConfirmRemoval, ServeRemoval, RemovalDone,
       RemovalRefused, OpenExport, CloseExport, StartExport, EndExport, Leave,
       FindingStored, ProbeStored, ScanEnds, RemovedElsewhere
  <1>8. QED
    BY <1>2, <1>3, <1>4, <1>5, <1>6, <1>7

LEMMA ResultsStep == ResultsInv /\ [ResultsNext]_resultsVars => ResultsInv'
  BY AroundStep, ViewStep, CopyStep DEF ResultsInv

LEMMA ResultsInvariant == ResultsSpec => []ResultsInv
  BY InitResultsInv, ResultsStep, PTL DEF ResultsSpec

\* The state is well typed: no pager leads past the most there can be.
THEOREM ResultsTypes == ResultsSpec => []ResultsTypeOK
  <1>1. ResultsInv => ResultsTypeOK
    <2> SUFFICES ASSUME ResultsInv PROVE ResultsTypeOK
      OBVIOUS
    <2>1. AroundInv /\ view \in Views /\ results \in Answers /\ copy \in Copies
          /\ results.rows \subseteq results.found /\ results.probeRows \subseteq results.probes
          /\ Exists(view.page, FindingsOf(scan.findings, view.logged))
          /\ Exists(view.probePage, ProbesOf(scan.probes, view))
      BY DEF ResultsInv, ViewInv, ViewAt, CopyInv, CopyAt
    <2>2. /\ scan.findings \in Nat /\ scan.findings <= MaxFindings
          /\ scan.probes \in Nat /\ scan.probes <= MaxProbes
      BY <2>1, Bounds DEF AroundInv
    <2>3. ASSUME NEW n \in Nat, NEW m \in Nat, n <= m, NEW S \in SUBSET (1..n),
                 NEW page \in Nat \ {0}, Exists(page, S)
          PROVE  page \in 1..Pages(1..m, ShownSize)
      <3>1. Cardinality(1..m) = m
        <4>1. Cardinality(1..m) = IF 1 > m THEN 0 ELSE m - 1 + 1
          BY FS_Interval
        <4>2. QED
          BY <4>1
      <3>2. Cardinality(S) \in Nat /\ Cardinality(S) <= m
        BY <2>3, FiniteItems
      <3>3. (page - 1) * ShownSize \in Int
        BY Bounds
      <3>4. page = 1 \/ (page - 1) * ShownSize < m
        BY <2>3, <3>2, <3>3 DEF Exists
      <3>5. page <= Pages(1..m, ShownSize) /\ Pages(1..m, ShownSize) \in Nat
        BY <3>1, <3>4, Bounds, PageCount
      <3>6. QED
        BY <3>5
    <2>4. view.page \in Nat \ {0} /\ view.probePage \in Nat \ {0}
      BY <2>1 DEF Views
    <2>5. view.page \in 1..Pages(1..MaxFindings, ShownSize)
      <3>1. FindingsOf(scan.findings, view.logged) \in SUBSET (1..scan.findings)
        BY DEF FindingsOf
      <3>2. QED
        BY <2>1, <2>2, <2>3, <2>4, <3>1, Bounds
    <2>6. view.probePage \in 1..Pages(1..MaxProbes, ShownSize)
      <3>1. ProbesOf(scan.probes, view) \in SUBSET (1..scan.probes)
        BY DEF ProbesOf
      <3>2. QED
        BY <2>1, <2>2, <2>3, <2>4, <3>1, Bounds
    <2>7. view \in [filter : ProbeFilters, logged : BOOLEAN,
                    page : 1..Pages(1..MaxFindings, ShownSize),
                    probePage : 1..Pages(1..MaxProbes, ShownSize)]
      BY <2>1, <2>5, <2>6 DEF Views
    <2>8. removal \in [open : BOOLEAN, busy : BOOLEAN, sent : 0..MaxRemovals,
                       done : 0..MaxRemovals, refused : 0..MaxRemovals]
      <3>1. /\ removal \in [open : BOOLEAN, busy : BOOLEAN, sent : Nat, done : Nat, refused : Nat]
            /\ removal.sent + removal.done + removal.refused <= MaxRemovals
        BY <2>1 DEF AroundInv, Requests
      <3>2. removal.sent \in Nat /\ removal.done \in Nat /\ removal.refused \in Nat
        BY <3>1
      <3>3. removal.sent \in 0..MaxRemovals /\ removal.done \in 0..MaxRemovals
            /\ removal.refused \in 0..MaxRemovals
        BY <3>1, <3>2, Bounds
      <3>4. QED
        BY <3>1, <3>3
    <2>9. results.is \in {"none", "data", "error"}
          /\ copy.step \in {"idle", "loading", "copied", "failed"}
      BY <2>1 DEF Answers, Copies
    <2>10. QED
      BY <2>1, <2>7, <2>8, <2>9 DEF ResultsTypeOK, AroundInv
  <1>2. QED
    BY <1>1, ResultsInvariant, PTL

\* A copy that succeeds has every finding the page counted, although the scan
\* stores more between its requests, for all sizes of a page.
THEOREM WholeCopy == ResultsSpec => []CopyIsWhole
  <1>1. ResultsInv => CopyIsWhole
    BY DEF ResultsInv, CopyInv, CopyAt, CopyIsWhole
  <1>2. QED
    BY <1>1, ResultsInvariant, PTL

\* No filter and no page leaves a list empty while it keeps something.
THEOREM NoListEmpty == ResultsSpec => []NoEmptyPage
  <1>1. ResultsInv => NoEmptyPage
    BY DEF ResultsInv, ViewInv, ViewAt, NoEmptyPage
  <1>2. QED
    BY <1>1, ResultsInvariant, PTL

-----------------------------------------------------------------------------
(* The paged lists and their dialogs.                                      *)

Stages == {"sent", "done", "refused", "awaited"}
Marks == [is : {"none", "data", "error"}, page : 0..Last(Rows), rows : SUBSET Items,
          total : 0..Rows]
Sendings == [what : {"delete", "all", "role"}, item : Items \union {0}, asked : BOOLEAN,
             step : Stages]

\* What can be on its way from a page: deletions and roles are of an item, only
\* users have a role, only two pages can delete everything.
Sendable(l) ==
  {d \in Sendings : /\ d.what # "all" => d.item \in Items
                    /\ d.what = "all" => l \in {"notifications", "dispatches"}
                    /\ d.what = "role" => l = "users"}

ListTypes ==
  /\ list \in Kinds
  /\ stored \subseteq Items /\ mine \subseteq Items
  /\ gone \subseteq Items /\ acked \subseteq Items
  /\ pager \in [page : 1..Last(Rows), filter : Filters]
  /\ draft \in Filters
  /\ waiting \in BOOLEAN /\ fetching \in BOOLEAN /\ all \in BOOLEAN /\ left \in BOOLEAN
  /\ all => list \in {"notifications", "dispatches"}
  /\ answer \in Marks
  /\ target \in Items \union {0} /\ marked \in Items \union {0}
  /\ deletions \subseteq Sendable(list)

LEMMA ListBounds ==
  /\ Rows \in Nat /\ PageSize \in Nat \ {0} /\ Mine \subseteq Items
  /\ Last(Rows) \in Nat \ {0}
  /\ \A n \in Nat, page \in Nat \ {0} :
       /\ Last(n) \in Nat \ {0}
       /\ page <= Last(n) <=> page = 1 \/ (page - 1) * PageSize < n
  <1>1. Rows \in Nat /\ PageSize \in Nat \ {0} /\ Mine \subseteq Items
    BY ListAssumption DEF ListAssumption, Items
  <1>2. ASSUME NEW n \in Nat, NEW page \in Nat \ {0}
        PROVE  /\ Last(n) \in Nat \ {0}
               /\ page <= Last(n) <=> page = 1 \/ (page - 1) * PageSize < n
    <2>1. /\ Max({1, (n + PageSize - 1) \div PageSize}) \in Nat \ {0}
          /\ page <= Max({1, (n + PageSize - 1) \div PageSize})
               <=> page = 1 \/ (page - 1) * PageSize < n
      BY <1>1, LastPage
    <2>2. Last(n) = Max({1, (n + PageSize - 1) \div PageSize})
      BY DEF Last
    <2>3. QED
      BY <2>1, <2>2
  <1>3. 1 \in Nat \ {0}
    OBVIOUS
  <1>4. QED
    BY <1>1, <1>2, <1>3

LEMMA NoAnswerIs ==
  /\ NoAnswer \in Marks /\ NoAnswer.is = "none" /\ NoAnswer.total = 0 /\ NoAnswer.rows = {}
  <1>1. 0 \in 0..Last(Rows) /\ 0 \in 0..Rows
    BY ListBounds
  <1>2. QED
    BY <1>1 DEF NoAnswer, Marks

\* What is kept is there, of whichever filter; a page shows a part of it.
LEMMA KeptItems ==
  ASSUME ListTypes
  PROVE  /\ \A filter : Kept(filter) \in SUBSET Items /\ Kept(filter) \subseteq stored
         /\ \A filter : Cardinality(Kept(filter)) \in 0..Rows
         /\ \A S \in SUBSET Items : \A page : Slice(S, page) \subseteq S
         /\ Listed \in Marks /\ Listed.is = "data" /\ Listed.page = pager.page
         /\ Listed.total = Cardinality(Kept(pager.filter))
         /\ Listed.rows \subseteq stored
  <1>1. \A filter : Kept(filter) \in SUBSET Items /\ Kept(filter) \subseteq stored
    BY DEF Kept, ListTypes
  <1>2. \A S \in SUBSET Items : \A page : Slice(S, page) \subseteq S
    BY DEF Slice
  <1>3. ASSUME NEW filter PROVE Cardinality(Kept(filter)) \in 0..Rows
    <2>1. Kept(filter) \in SUBSET (1..Rows)
      BY <1>1 DEF Items
    <2>2. Cardinality(Kept(filter)) \in Nat /\ Cardinality(Kept(filter)) <= Rows
      BY <2>1, ListBounds, FiniteItems
    <2>3. QED
      BY <2>2
  <1>4. pager.page \in 0..Last(Rows)
    BY ListBounds DEF ListTypes
  <1>5. /\ Listed.is = "data" /\ Listed.page = pager.page
        /\ Listed.total = Cardinality(Kept(pager.filter))
        /\ Listed.rows \subseteq Kept(pager.filter)
    BY <1>1, <1>2 DEF Listed
  <1>6. Listed \in Marks
    BY <1>1, <1>2, <1>3, <1>4 DEF Listed, Marks
  <1>7. QED
    BY <1>1, <1>2, <1>3, <1>5, <1>6

\* Which actions change what.
LEMMA ListFrame ==
  ASSUME [ListNext]_listVars
  PROVE  /\ list' = list
         /\ \/ UNCHANGED <<stored, mine, gone>>
            \/ \E d \in deletions : Serve(d)
            \/ \E i \in Items : Elsewhere(i)
         /\ \/ UNCHANGED pager
            \/ \E page \in 1..Rows : GoTo(page)
            \/ Select \/ Debounced \/ ApplyFilters \/ ClearFilters
         /\ \/ UNCHANGED answer
            \/ \E page \in 1..Rows : GoTo(page)
            \/ Select \/ Debounced \/ ApplyFilters \/ ClearFilters
            \/ Answer \/ FetchFails
         /\ UNCHANGED <<draft, waiting>> \/ (\E filter \in Filters : Enter(filter))
            \/ Debounced \/ ClearFilters
         /\ UNCHANGED marked \/ (\E i \in Items : Delete(i))
            \/ \E d \in deletions : Settle(d) \/ Refused(d)
         /\ UNCHANGED acked \/ \E d \in deletions : Settle(d)
  <1>1. CASE UNCHANGED listVars
    BY <1>1 DEF listVars
  <1>2. CASE \E page \in 1..Rows : GoTo(page)
    BY <1>2 DEF GoTo
  <1>3. CASE \E filter \in Filters : Enter(filter)
    BY <1>3 DEF Enter
  <1>4. CASE Select
    BY <1>4 DEF Select
  <1>5. CASE Debounced
    BY <1>5 DEF Debounced
  <1>6. CASE ApplyFilters
    BY <1>6 DEF ApplyFilters
  <1>7. CASE ClearFilters
    BY <1>7 DEF ClearFilters
  <1>8. CASE Answer
    BY <1>8 DEF Answer
  <1>9. CASE FetchFails
    BY <1>9 DEF FetchFails
  <1>10. CASE Refresh
    BY <1>10 DEF Refresh
  <1>11. CASE \E i \in Items : Ask(i)
    BY <1>11 DEF Ask
  <1>12. CASE \E i \in Items : Delete(i)
    BY <1>12 DEF Delete
  <1>13. CASE \E i \in Items : ChangeRole(i)
    BY <1>13 DEF ChangeRole
  <1>14. CASE \E i \in Items : Elsewhere(i)
    BY <1>14 DEF Elsewhere
  <1>15. CASE Cancel
    BY <1>15 DEF Cancel
  <1>16. CASE Confirm
    BY <1>16 DEF Confirm
  <1>17. CASE AskAll \/ CancelAll
    BY <1>17 DEF AskAll, CancelAll
  <1>18. CASE ConfirmAll
    BY <1>18 DEF ConfirmAll
  <1>19. CASE \E d \in deletions : Serve(d)
    BY <1>19 DEF Serve
  <1>20. CASE \E d \in deletions : Settle(d)
    BY <1>20 DEF Settle
  <1>21. CASE \E d \in deletions : Close(d)
    BY <1>21 DEF Close
  <1>22. CASE \E d \in deletions : Refused(d)
    BY <1>22 DEF Refused
  <1>23. QED
    BY <1>1, <1>2, <1>3, <1>4, <1>5, <1>6, <1>7, <1>8, <1>9, <1>10, <1>11, <1>12, <1>13,
       <1>14, <1>15, <1>16, <1>17, <1>18, <1>19, <1>20, <1>21, <1>22 DEF ListNext

\* What becomes of the requests and of the dialog.
LEMMA DialogFrame ==
  ASSUME [ListNext]_listVars
  PROVE  \/ UNCHANGED <<deletions, target>>
         \/ Answer \/ FetchFails \/ Cancel \/ Confirm \/ ConfirmAll
         \/ \E i \in Items : Ask(i) \/ Delete(i) \/ ChangeRole(i)
         \/ \E d \in deletions : Serve(d) \/ Settle(d) \/ Close(d) \/ Refused(d)
  <1>1. CASE UNCHANGED listVars
    BY <1>1 DEF listVars
  <1>2. CASE \E page \in 1..Rows : GoTo(page)
    BY <1>2 DEF GoTo
  <1>3. CASE \E filter \in Filters : Enter(filter)
    BY <1>3 DEF Enter
  <1>4. CASE Select \/ Debounced \/ ApplyFilters \/ ClearFilters
    BY <1>4 DEF Select, Debounced, ApplyFilters, ClearFilters
  <1>5. CASE Refresh \/ AskAll \/ CancelAll
    BY <1>5 DEF Refresh, AskAll, CancelAll
  <1>6. CASE \E i \in Items : Elsewhere(i)
    BY <1>6 DEF Elsewhere
  <1>7. QED
    BY <1>1, <1>2, <1>3, <1>4, <1>5, <1>6 DEF ListNext

LEMMA SentIsSendable ==
  ASSUME NEW what \in {"delete", "all", "role"}, NEW i \in Items \union {0},
         what # "all" => i \in Items,
         what = "all" => list \in {"notifications", "dispatches"},
         what = "role" => list = "users"
  PROVE  /\ Sent(what, i) \in Sendable(list)
         /\ Sent(what, i).what = what /\ Sent(what, i).item = i /\ Sent(what, i).step = "sent"
  BY DEF Sent, Sendable, Sendings, Stages

\* A request goes through its stages as itself.
LEMMA StageOf ==
  ASSUME ListTypes, NEW d \in deletions
  PROVE  /\ d \in Sendable(list)
         /\ d.what \in {"delete", "all", "role"} /\ d.asked \in BOOLEAN
         /\ d.what # "all" => d.item \in Items
         /\ \A step \in Stages :
              /\ [d EXCEPT !.step = step] \in Sendable(list)
              /\ [d EXCEPT !.step = step].what = d.what
              /\ [d EXCEPT !.step = step].item = d.item
              /\ [d EXCEPT !.step = step].step = step
         /\ \A asked \in BOOLEAN :
              /\ [d EXCEPT !.asked = asked] \in Sendable(list)
              /\ asked = d.asked => [d EXCEPT !.asked = asked] = d
  <1>1. d \in Sendable(list)
    BY DEF ListTypes
  <1>2. QED
    BY <1>1 DEF Sendable, Sendings

LEMMA DeletionTypes ==
  ASSUME ListTypes, [ListNext]_listVars
  PROVE  deletions' \subseteq Sendable(list)
  <1>1. deletions \subseteq Sendable(list)
    BY DEF ListTypes
  <1>2. CASE Answer \/ FetchFails
    <2>1. PICK R : Unmounted(R)
      BY <1>2 DEF Answer, FetchFails
    <2>2. QED
      BY <2>1, <1>1, StageOf DEF Unmounted
  <1>3. CASE Cancel
    <2>1. ASSUME NEW e \in deletions' PROVE e \in Sendable(list)
      <3>1. PICK d \in deletions :
              e = [d EXCEPT !.asked = d.asked /\ list # "dispatches"]
        BY <1>3 DEF Cancel
      <3>2. PICK b \in BOOLEAN : b <=> (d.asked /\ list # "dispatches")
        OBVIOUS
      <3>3. (d.asked /\ list # "dispatches") \in BOOLEAN
        OBVIOUS
      <3>4. QED
        BY <3>1, <3>3, StageOf
    <2>2. QED
      BY <2>1
  <1>4. CASE Confirm
    <2>1. target \in Items
      BY <1>4 DEF Confirm, ListTypes
    <2>2. Sent("delete", target) \in Sendable(list)
      BY <2>1, SentIsSendable
    <2>3. deletions' = deletions \union {Sent("delete", target)}
      BY <1>4 DEF Confirm, Send
    <2>4. QED
      BY <1>1, <2>2, <2>3
  <1>5. CASE ConfirmAll
    <2>1. PICK d : d = Sent("all", Everything)
      OBVIOUS
    <2>2. d \in Sendable(list)
      <3>1. list \in {"notifications", "dispatches"} /\ Everything = 0
        BY <1>5 DEF ConfirmAll, ListTypes, Everything
      <3>2. QED
        BY <2>1, <3>1, SentIsSendable
    <2>3. deletions' = deletions \union {d}
      BY <1>5, <2>1 DEF ConfirmAll, Send
    <2>4. QED
      BY <1>1, <2>2, <2>3
  <1>6. ASSUME NEW i \in Items, Delete(i) PROVE deletions' \subseteq Sendable(list)
    <2>1. Sent("delete", i) \in Sendable(list)
      BY SentIsSendable
    <2>2. deletions' = deletions \union {Sent("delete", i)}
      BY <1>6 DEF Delete, Send
    <2>3. QED
      BY <1>1, <2>1, <2>2
  <1>7. ASSUME NEW i \in Items, ChangeRole(i) PROVE deletions' \subseteq Sendable(list)
    <2>1. list = "users"
      BY <1>7 DEF ChangeRole
    <2>2. Sent("role", i) \in Sendable(list)
      BY <2>1, SentIsSendable
    <2>3. deletions' = deletions \union {Sent("role", i)}
      BY <1>7 DEF ChangeRole, Send
    <2>4. QED
      BY <1>1, <2>2, <2>3
  <1>8. ASSUME NEW d \in deletions, Serve(d) PROVE deletions' \subseteq Sendable(list)
    <2>1. PICK step \in {"done", "refused"} :
            deletions' = (deletions \ {d}) \union {[d EXCEPT !.step = step]}
      BY <1>8 DEF Serve
    <2>2. [d EXCEPT !.step = step] \in Sendable(list)
      BY StageOf DEF Stages
    <2>3. QED
      BY <1>1, <2>1, <2>2
  <1>9. ASSUME NEW d \in deletions, Settle(d) \/ Close(d) \/ Refused(d)
        PROVE  deletions' \subseteq Sendable(list)
    <2>1. deletions' \subseteq deletions \union {[d EXCEPT !.step = "awaited"]}
      BY <1>9 DEF Settle, Close, Refused
    <2>2. [d EXCEPT !.step = "awaited"] \in Sendable(list)
      BY StageOf DEF Stages
    <2>3. QED
      BY <1>1, <2>1, <2>2
  <1>10. CASE UNCHANGED deletions
    BY <1>1, <1>10
  <1>11. ASSUME NEW i \in Items, Ask(i) PROVE UNCHANGED deletions
    BY <1>11 DEF Ask
  <1>12. QED
    BY <1>2, <1>3, <1>4, <1>5, <1>6, <1>7, <1>8, <1>9, <1>10, <1>11, DialogFrame

\* The pages and the answer of the query are typed.
LEMMA PageTypes ==
  ASSUME ListTypes, [ListNext]_listVars
  PROVE  /\ pager' \in [page : 1..Last(Rows), filter : Filters]
         /\ answer' \in Marks
         /\ draft' \in Filters /\ waiting' \in BOOLEAN
  <1>0. /\ pager \in [page : 1..Last(Rows), filter : Filters] /\ answer \in Marks
        /\ draft \in Filters /\ waiting \in BOOLEAN
        /\ pager.filter \in Filters /\ answer.total \in 0..Rows
    BY DEF ListTypes, Marks
  <1>1. ASSUME NEW page \in Nat, NEW filter, Turn(page, filter)
        PROVE  pager' = [page |-> page, filter |-> filter] /\ answer' \in Marks
    BY <1>0, <1>1, NoAnswerIs DEF Turn
  <1>2. ASSUME NEW filter \in Filters, Refilter(filter)
        PROVE  pager' \in [page : 1..Last(Rows), filter : Filters] /\ answer' \in Marks
    <2>1. pager' = [page |-> 1, filter |-> filter] /\ answer' \in Marks
      BY <1>1, <1>2 DEF Refilter
    <2>2. 1 \in 1..Last(Rows)
      BY ListBounds
    <2>3. QED
      BY <2>1, <2>2
  <1>3. ASSUME NEW page, GoTo(page)
        PROVE  pager' \in [page : 1..Last(Rows), filter : Filters] /\ answer' \in Marks
    <2>1. page \in 1..Last(answer.total) /\ Turn(page, pager.filter)
      BY <1>3 DEF GoTo
    <2>2. page \in Nat \ {0} /\ page <= Last(answer.total)
      BY <1>0, <2>1, ListBounds
    <2>3. page = 1 \/ (page - 1) * PageSize < answer.total
      BY <1>0, <2>2, ListBounds
    <2>4. (page - 1) * PageSize \in Int
      BY <2>2, ListBounds
    <2>5. page = 1 \/ (page - 1) * PageSize < Rows
      BY <1>0, <2>3, <2>4, ListBounds
    <2>6. page \in 1..Last(Rows)
      BY <2>2, <2>5, ListBounds
    <2>7. QED
      BY <1>0, <1>1, <2>1, <2>2, <2>6
  <1>4. pager.filter \ {"select"} \in Filters /\ pager.filter \union {"select"} \in Filters
        /\ (pager.filter \ {"search"}) \union draft \in Filters /\ {} \in Filters
    BY <1>0 DEF Filters
  <1>5. CASE Select
    <2>1. PICK filter \in Filters : Refilter(filter)
      BY <1>4, <1>5 DEF Select
    <2>2. QED
      BY <1>0, <1>2, <1>5, <2>1 DEF Select
  <1>6. CASE Debounced
    BY <1>0, <1>2, <1>4, <1>6 DEF Debounced
  <1>7. CASE ApplyFilters
    BY <1>0, <1>2, <1>7 DEF ApplyFilters
  <1>8. CASE ClearFilters
    BY <1>0, <1>2, <1>4, <1>8 DEF ClearFilters
  <1>9. CASE Answer
    BY <1>0, <1>9, KeptItems DEF Answer
  <1>10. CASE FetchFails
    <2>1. answer' = [answer EXCEPT !.is = "error"]
      BY <1>10 DEF FetchFails
    <2>2. QED
      BY <1>0, <1>10, <2>1 DEF FetchFails, Marks
  <1>11. draft' \in Filters /\ waiting' \in BOOLEAN
    BY <1>0, <1>4, ListFrame DEF Enter, Debounced, ClearFilters
  <1>12. QED
    BY <1>0, <1>3, <1>5, <1>6, <1>7, <1>8, <1>9, <1>10, <1>11, ListFrame

LEMMA ItemTypes ==
  ASSUME ListTypes, [ListNext]_listVars
  PROVE  /\ stored' \subseteq Items /\ mine' \subseteq Items /\ gone' \subseteq Items
         /\ acked' \subseteq Items /\ marked' \in Items \union {0}
  <1>0. /\ stored \subseteq Items /\ mine \subseteq Items /\ gone \subseteq Items
        /\ acked \subseteq Items /\ marked \in Items \union {0}
    BY DEF ListTypes
  <1>1. mine' \subseteq Items
    <2>1. ASSUME NEW d \in deletions, Serve(d) PROVE mine' \subseteq Items
      BY <1>0, <2>1, StageOf DEF Serve
    <2>2. ASSUME NEW i \in Items, Elsewhere(i) PROVE mine' \subseteq Items
      BY <1>0, <2>2 DEF Elsewhere
    <2>3. CASE UNCHANGED mine
      BY <1>0, <2>3
    <2>4. QED
      BY <2>1, <2>2, <2>3, ListFrame
  <1>2. stored' \subseteq Items /\ gone' \subseteq Items
    <2>1. ASSUME NEW d \in deletions, Serve(d) PROVE stored' \subseteq stored /\ gone' \subseteq Items
      <3>1. stored' \in {stored, {}, stored \ {d.item}}
        BY <2>1, StageOf DEF Serve
      <3>2. gone' = gone \union (stored \ stored')
        BY <2>1 DEF Serve
      <3>3. QED
        BY <1>0, <3>1, <3>2
    <2>2. ASSUME NEW i \in Items, Elsewhere(i) PROVE stored' \subseteq Items /\ gone' \subseteq Items
      BY <1>0, <2>2 DEF Elsewhere
    <2>3. QED
      BY <1>0, <2>1, <2>2, ListFrame
  <1>3. acked' \subseteq Items
    <2>1. ASSUME NEW d \in deletions, Settle(d) PROVE acked' \subseteq Items
      <3>1. acked' = acked \/ (d.what = "delete" /\ acked' = acked \union {d.item})
        BY <2>1 DEF Settle
      <3>2. d.what = "delete" => d.item \in Items
        BY StageOf
      <3>3. QED
        BY <1>0, <3>1, <3>2
    <2>2. QED
      BY <1>0, <2>1, ListFrame
  <1>4. marked' \in Items \union {0}
    BY <1>0, ListFrame DEF Delete, Settle, Refused
  <1>5. QED
    BY <1>1, <1>2, <1>3, <1>4

\* Flags and the dialog.
LEMMA FlagTypes ==
  ASSUME ListTypes, [ListNext]_listVars
  PROVE  /\ fetching' \in BOOLEAN /\ all' \in BOOLEAN /\ left' \in BOOLEAN
         /\ all' => list \in {"notifications", "dispatches"}
         /\ target' \in Items \union {0}
  <1>0. /\ fetching \in BOOLEAN /\ all \in BOOLEAN /\ left \in BOOLEAN
        /\ all => list \in {"notifications", "dispatches"}
        /\ target \in Items \union {0}
    BY DEF ListTypes
  <1>1. fetching' \in BOOLEAN
    <2>1. ASSUME NEW page, NEW filter, Turn(page, filter) PROVE fetching' \in BOOLEAN
      BY <1>0, <2>1 DEF Turn
    <2>2. ASSUME NEW page, GoTo(page) PROVE fetching' \in BOOLEAN
      BY <2>1, <2>2 DEF GoTo
    <2>3. ASSUME NEW filter, Refilter(filter) PROVE fetching' \in BOOLEAN
      BY <2>1, <2>3 DEF Refilter
    <2>4. CASE Select \/ Debounced \/ ApplyFilters \/ ClearFilters
      BY <2>3, <2>4 DEF Select, Debounced, ApplyFilters, ClearFilters
    <2>5. CASE UNCHANGED fetching \/ fetching' = TRUE \/ fetching' = FALSE
      BY <1>0, <2>5
    <2>6. \/ UNCHANGED fetching \/ fetching' = TRUE \/ fetching' = FALSE
          \/ Select \/ Debounced \/ ApplyFilters \/ ClearFilters
          \/ \E page : GoTo(page)
      BY DEF ListNext, listVars, Enter, Answer, FetchFails, Refresh, Ask, Delete, ChangeRole,
         Elsewhere, Cancel, Confirm, AskAll, CancelAll, ConfirmAll, Serve, Settle, Close, Refused
    <2>7. QED
      BY <2>2, <2>4, <2>5, <2>6
  <1>2. all' \in BOOLEAN /\ (all' => list \in {"notifications", "dispatches"})
    <2>1. UNCHANGED all \/ AskAll \/ CancelAll
      BY DEF ListNext, listVars, GoTo, Enter, Select, Debounced, ApplyFilters, ClearFilters,
         Answer, FetchFails, Refresh, Ask, Delete, ChangeRole, Elsewhere, Cancel,
         Confirm, ConfirmAll, Serve, Settle, Close, Refused
    <2>2. CASE UNCHANGED all
      <3>1. all' = all
        BY <2>2
      <3>2. QED
        BY <1>0, <3>1, Zenon
    <2>3. CASE AskAll
      <3>1. all' = TRUE /\ list \in {"notifications", "dispatches"}
        BY <2>3 DEF AskAll
      <3>2. QED
        BY <3>1
    <2>4. CASE CancelAll
      <3>1. all' = FALSE
        BY <2>4 DEF CancelAll
      <3>2. QED
        BY <3>1
    <2>5. QED
      BY <2>1, <2>2, <2>3, <2>4
  <1>3. left' \in BOOLEAN
    <2>1. ASSUME NEW filter, Refilter(filter) PROVE left' \in BOOLEAN
      BY <1>0, <2>1 DEF Refilter
    <2>2. CASE Select \/ Debounced \/ ApplyFilters \/ ClearFilters
      BY <2>1, <2>2 DEF Select, Debounced, ApplyFilters, ClearFilters
    <2>3. ASSUME NEW page, GoTo(page) PROVE left' \in BOOLEAN
      BY <1>0, <2>3 DEF GoTo
    <2>4. ASSUME NEW d, Serve(d) PROVE left' \in BOOLEAN
      BY <1>0, <2>4 DEF Serve
    <2>5. ASSUME NEW i, Elsewhere(i) PROVE left' \in BOOLEAN
      BY <1>0, <2>5 DEF Elsewhere
    <2>6. \/ UNCHANGED left \/ Select \/ Debounced \/ ApplyFilters \/ ClearFilters
          \/ (\E page : GoTo(page)) \/ (\E d : Serve(d)) \/ (\E i : Elsewhere(i))
      BY DEF ListNext, listVars, Enter, Answer, FetchFails, Refresh, Ask, Delete, ChangeRole,
         Cancel, Confirm, AskAll, CancelAll, ConfirmAll, Settle, Close, Refused
    <2>7. QED
      BY <1>0, <2>1, <2>2, <2>3, <2>4, <2>5, <2>6
  <1>4. target' \in {target, 0} \/ \E i \in Items : target' = i
    BY DialogFrame DEF Answer, FetchFails, Unmounted, Ask, Delete, ChangeRole, Cancel, Confirm,
       ConfirmAll, Serve, Settle, Close, Refused
  <1>5. QED
    BY <1>0, <1>1, <1>2, <1>3, <1>4

LEMMA ListTypesStep ==
  ASSUME ListTypes, [ListNext]_listVars
  PROVE  ListTypes'
  <1>1. list' = list
    BY ListFrame
  <1>2. /\ deletions' \subseteq Sendable(list)
        /\ pager' \in [page : 1..Last(Rows), filter : Filters]
        /\ answer' \in Marks
        /\ draft' \in Filters /\ waiting' \in BOOLEAN
    BY DeletionTypes, PageTypes
  <1>3. /\ stored' \subseteq Items /\ mine' \subseteq Items /\ gone' \subseteq Items
        /\ acked' \subseteq Items /\ marked' \in Items \union {0}
    BY ItemTypes
  <1>4. /\ fetching' \in BOOLEAN /\ all' \in BOOLEAN /\ left' \in BOOLEAN
        /\ all' => list \in {"notifications", "dispatches"}
        /\ target' \in Items \union {0}
    BY FlagTypes
  <1>5. QED
    BY <1>1, <1>2, <1>3, <1>4 DEF ListTypes

LEMMA InitListTypes == ListInit => ListTypes
  <1> SUFFICES ASSUME ListInit PROVE ListTypes
    OBVIOUS
  <1>1. stored \subseteq Items /\ mine \subseteq Items
    BY ListBounds DEF ListInit, Items
  <1>2. pager \in [page : 1..Last(Rows), filter : Filters]
    BY ListBounds DEF ListInit, Filters
  <1>3. answer \in Marks
    BY NoAnswerIs DEF ListInit
  <1>4. QED
    BY <1>1, <1>2, <1>3 DEF ListInit, ListTypes, Filters

\* What each variable can be, at every step.
THEOREM PageTyping == ListSpec => []ListTypeOK
  <1>1. ListInit => ListTypes
    BY InitListTypes
  <1>2. ListTypes /\ [ListNext]_listVars => ListTypes'
    BY ListTypesStep
  <1>3. ListTypes => ListTypeOK
    <2> SUFFICES ASSUME ListTypes PROVE ListTypeOK
      OBVIOUS
    <2>1. {stored, mine, gone, acked} \subseteq SUBSET Items
      BY DEF ListTypes
    <2>2. {waiting, fetching, all, left} \subseteq BOOLEAN
      BY DEF ListTypes
    <2>3. {target, marked} \subseteq Items \union {0}
      BY DEF ListTypes
    <2>4. deletions \subseteq [what : {"delete", "all", "role"}, item : Items \union {0},
                              asked : BOOLEAN,
                              step : {"sent", "done", "refused", "awaited"}]
      BY DEF ListTypes, Sendable, Sendings, Stages
    <2>5. answer \in [is : {"none", "data", "error"}, page : 0..Last(Rows),
                     rows : SUBSET Items, total : 0..Rows]
      BY DEF ListTypes, Marks
    <2>6. QED
      BY <2>1, <2>2, <2>3, <2>4, <2>5 DEF ListTypes, ListTypeOK
  <1>4. QED
    BY <1>1, <1>2, <1>3, PTL DEF ListSpec

-----------------------------------------------------------------------------
(* A filter starts from the first page.                                    *)

\* As long as nothing has left the list since, the chosen page is the first or
\* has an item, what the answer counted is still there, and a page is chosen
\* from the answer to itself.
PageAt(kept, pg, an, lf, l) ==
  /\ ~lf => /\ pg.page = 1 \/ (pg.page - 1) * PageSize < Cardinality(kept)
            /\ an.total <= Cardinality(kept)
  /\ an.total > 0 => an.page = pg.page
  /\ (an.is = "data" /\ l \in Paged /\ an.rows = {} /\ an.total > 0) => lf

PageInv == ListTypes /\ PageAt(Kept(pager.filter), pager, answer, left, list)

\* A page that n items have: the first, or one with an item.
Within(page, n) == page = 1 \/ (page - 1) * PageSize < n

\* Where there is an item for a page, the page shows one.
LEMMA PageHasRows ==
  ASSUME NEW S \in SUBSET Items, NEW page \in Nat \ {0},
         Within(page, Cardinality(S)), Cardinality(S) > 0
  PROVE  Slice(S, page) # {}
  <1>1. S \in SUBSET (1..Rows) /\ Rows \in Nat /\ PageSize \in Nat \ {0}
    BY ListBounds DEF Items
  <1>2. Cardinality(S) \in Nat
    BY <1>1, FiniteItems
  <1>3. PICK k : k = (page - 1) * PageSize
    OBVIOUS
  <1>4. k \in Nat /\ k < Cardinality(S)
    <2>1. page - 1 \in Nat
      OBVIOUS
    <2>2. k \in Nat
      BY <1>1, <1>3, <2>1
    <2>3. page = 1 => k = 0
      BY <1>1, <1>3
    <2>4. QED
      BY <1>2, <1>3, <2>2, <2>3 DEF Within
  <1>5. PICK i \in S : Cardinality(Newer(S, i)) = k
    BY <1>1, <1>4, Ranks
  <1>6. k \div PageSize = page - 1
    <2>1. k < page * PageSize
      BY <1>1, <1>3
    <2>2. QED
      BY <1>1, <1>3, <1>4, <2>1, PageOf
  <1>7. i \in Slice(S, page)
    BY <1>5, <1>6 DEF Slice, Newer
  <1>8. QED
    BY <1>7

\* What is kept of more is more.
LEMMA MoreKept ==
  ASSUME ListTypes, ListTypes', UNCHANGED <<mine, pager>>, stored \subseteq stored'
  PROVE  Cardinality(Kept(pager.filter)) <= Cardinality(Kept(pager.filter)')
  <1>1. Kept(pager.filter) \subseteq Kept(pager.filter)'
    BY DEF Kept
  <1>2. Kept(pager.filter)' \in SUBSET (1..Rows)
    BY DEF Kept, ListTypes, Items
  <1>3. QED
    BY <1>1, <1>2, ListBounds, FiniteItems

\* The page keeps the rule while its list only grows.
LEMMA PageStays ==
  ASSUME NEW K, NEW K2, Cardinality(K) \in Nat, Cardinality(K2) \in Nat,
         NEW pg \in [page : Nat \ {0}, filter : Filters], NEW an \in Marks,
         NEW lf \in BOOLEAN, NEW lf2 \in BOOLEAN, NEW l,
         PageAt(K, pg, an, lf, l), lf => lf2,
         ~lf2 => Cardinality(K) <= Cardinality(K2)
  PROVE  PageAt(K2, pg, an, lf2, l)
  <1>1. an.total \in Nat /\ pg.page \in Nat \ {0}
    BY ListBounds DEF Marks
  <1>2. ASSUME ~lf2
        PROVE  /\ pg.page = 1 \/ (pg.page - 1) * PageSize < Cardinality(K2)
               /\ an.total <= Cardinality(K2)
    <2>1. ~lf /\ Cardinality(K) <= Cardinality(K2)
      BY <1>2
    <2>2. /\ pg.page = 1 \/ (pg.page - 1) * PageSize < Cardinality(K)
          /\ an.total <= Cardinality(K)
      BY <2>1 DEF PageAt
    <2>3. PICK k : k = (pg.page - 1) * PageSize
      OBVIOUS
    <2>4. k \in Int
      BY <1>1, <2>3, ListBounds
    <2>5. QED
      BY <1>1, <2>1, <2>2, <2>3, <2>4
  <1>3. QED
    BY <1>2 DEF PageAt

\* A page that is chosen starts without an answer.
LEMMA PageTurns ==
  ASSUME NEW K, Cardinality(K) \in Nat, NEW page, NEW filter, NEW lf, NEW l,
         ~lf => page = 1 \/ (page - 1) * PageSize < Cardinality(K)
  PROVE  PageAt(K, [page |-> page, filter |-> filter], NoAnswer, lf, l)
  BY NoAnswerIs DEF PageAt

LEMMA PageRefilters ==
  ASSUME PageInv, ListTypes', NEW filter, Refilter(filter), UNCHANGED <<list, stored, mine>>
  PROVE  PageAt(Kept(pager.filter), pager, answer, left, list)'
  <1>0. PageAt(Kept(pager.filter), pager, answer, left, list)
    BY DEF PageInv
  <1>1. pager' = [page |-> 1, filter |-> filter]
    BY DEF Refilter, Turn
  <1>2. CASE pager' = pager
    <2>1. UNCHANGED <<answer, pager, stored, mine, list>>
      BY <1>2 DEF Refilter, Turn
    <2>2. left' = left
      <3>1. left \in BOOLEAN
        BY DEF PageInv, ListTypes
      <3>2. left' = (left /\ TRUE)
        BY <1>2 DEF Refilter
      <3>3. QED
        BY <3>1, <3>2
    <2>3. Kept(pager.filter)' = Kept(pager.filter)
      BY <2>1 DEF Kept
    <2>4. QED
      BY <1>0, <2>1, <2>2, <2>3
  <1>3. CASE pager' # pager
    <2>1. answer' = NoAnswer
      BY <1>3 DEF Refilter, Turn
    <2>2. Cardinality(Kept(pager.filter)') \in Nat
      <3>1. Kept(pager.filter)' \in SUBSET (1..Rows)
        BY DEF Kept, ListTypes, Items
      <3>2. QED
        BY <3>1, ListBounds, FiniteItems
    <2>3. PageAt(Kept(pager.filter)', [page |-> 1, filter |-> filter], NoAnswer, left', list')
      BY <2>2, PageTurns
    <2>4. QED
      BY <1>1, <2>1, <2>3
  <1>4. QED
    BY <1>2, <1>3

LEMMA PageIsChosen ==
  ASSUME PageInv, ListTypes', NEW page \in 1..Rows, GoTo(page)
  PROVE  PageAt(Kept(pager.filter), pager, answer, left, list)'
  <1>0. PageAt(Kept(pager.filter), pager, answer, left, list) /\ ListTypes
    BY DEF PageInv
  <1>1. /\ Turn(page, pager.filter) /\ page \in 1..Last(answer.total)
        /\ page \in {answer.page - 1, answer.page + 1} /\ Last(answer.total) > 1
        /\ left' = (left /\ page # 1) /\ UNCHANGED <<list, stored, mine>>
    BY DEF GoTo, PagerShown
  <1>2. /\ answer.total \in Nat /\ answer.page \in Nat /\ pager.page \in Nat
        /\ page \in Nat \ {0}
    BY <1>0, ListBounds DEF ListTypes, Marks
  <1>3. answer.total > 0
    <2>1. 2 <= Last(answer.total)
      BY <1>1, <1>2, ListBounds
    <2>2. 2 = 1 \/ (2 - 1) * PageSize < answer.total
      BY <1>2, <2>1, ListBounds
    <2>3. QED
      BY <1>2, <2>2, ListBounds
  <1>4. page # pager.page
    BY <1>0, <1>1, <1>2, <1>3 DEF PageAt
  <1>5. pager' = [page |-> page, filter |-> pager.filter]
    BY <1>1 DEF Turn
  <1>6. pager' # pager
    BY <1>4, <1>5
  <1>7. answer' = NoAnswer
    BY <1>1, <1>6 DEF Turn
  <1>8. Kept(pager.filter)' = Kept(pager.filter)
    BY <1>1, <1>5 DEF Kept
  <1>9. PICK n : n = Cardinality(Kept(pager.filter))
    OBVIOUS
  <1>10. n \in Nat
    BY <1>0, <1>9, KeptItems, ListBounds
  <1>11. page = 1 \/ (page - 1) * PageSize < answer.total
    BY <1>1, <1>2, ListBounds
  <1>12. ~left => answer.total <= n
    BY <1>0, <1>9 DEF PageAt
  <1>13. PICK k : k = (page - 1) * PageSize
    OBVIOUS
  <1>14. k \in Int
    BY <1>2, <1>13, ListBounds
  <1>15. ~left' => page = 1 \/ (page - 1) * PageSize < n
    <2>1. SUFFICES ASSUME ~left', page # 1 PROVE k < n
      BY <1>13
    <2>2. ~left
      BY <1>1, <2>1
    <2>3. k < answer.total /\ answer.total <= n
      BY <1>11, <1>12, <1>13, <2>1, <2>2
    <2>4. QED
      BY <1>2, <1>10, <1>14, <2>3
  <1>16. PageAt(Kept(pager.filter), [page |-> page, filter |-> pager.filter], NoAnswer,
                left', list')
    BY <1>9, <1>10, <1>15, PageTurns
  <1>17. QED
    BY <1>5, <1>7, <1>8, <1>16

LEMMA PageIsAnswered ==
  ASSUME PageInv, ListTypes', Answer
  PROVE  PageAt(Kept(pager.filter), pager, answer, left, list)'
  <1>0. PageAt(Kept(pager.filter), pager, answer, left, list) /\ ListTypes
    BY DEF PageInv
  <1>1. answer' = Listed /\ UNCHANGED <<list, stored, mine, pager, left>>
    BY DEF Answer
  <1>2. Kept(pager.filter)' = Kept(pager.filter)
    BY <1>1 DEF Kept
  <1>3. PICK K : K = Kept(pager.filter)
    OBVIOUS
  <1>4. /\ K \in SUBSET Items /\ Cardinality(K) \in Nat
        /\ Listed.total = Cardinality(K) /\ Listed.page = pager.page
    BY <1>0, <1>3, KeptItems, ListBounds
  <1>5. pager.page \in Nat \ {0}
    BY <1>0, ListBounds DEF ListTypes
  <1>6. list \in Paged => Listed.rows = Slice(K, pager.page)
    BY <1>3 DEF Listed
  <1>7. ~left => pager.page = 1 \/ (pager.page - 1) * PageSize < Cardinality(K)
    BY <1>0, <1>3 DEF PageAt
  <1>8. (list \in Paged /\ Listed.rows = {} /\ Listed.total > 0) => left
    <2>1. SUFFICES ASSUME list \in Paged, ~left, Cardinality(K) > 0
                   PROVE  Slice(K, pager.page) # {}
      BY <1>4, <1>6
    <2>2. Within(pager.page, Cardinality(K))
      BY <1>7, <2>1 DEF Within
    <2>3. QED
      BY <1>4, <1>5, <2>1, <2>2, PageHasRows
  <1>9. PageAt(K, pager, Listed, left, list)
    BY <1>4, <1>7, <1>8 DEF PageAt
  <1>10. QED
    BY <1>1, <1>2, <1>3, <1>9

LEMMA PageStep ==
  ASSUME PageInv, [ListNext]_listVars
  PROVE  PageInv'
  <1>0. PageAt(Kept(pager.filter), pager, answer, left, list) /\ ListTypes /\ PageInv
    BY DEF PageInv
  <1>1. ListTypes' /\ list' = list
    BY <1>0, ListTypesStep, ListFrame
  <1>2. SUFFICES PageAt(Kept(pager.filter), pager, answer, left, list)'
    BY <1>1 DEF PageInv
  <1>3. Cardinality(Kept(pager.filter)) \in Nat /\ Cardinality(Kept(pager.filter)') \in Nat
    <2>1. Kept(pager.filter) \in SUBSET (1..Rows) /\ Kept(pager.filter)' \in SUBSET (1..Rows)
      BY <1>0, <1>1 DEF Kept, ListTypes, Items
    <2>2. QED
      BY <2>1, ListBounds, FiniteItems
  <1>4. /\ pager \in [page : Nat \ {0}, filter : Filters] /\ answer \in Marks
        /\ left \in BOOLEAN /\ left' \in BOOLEAN
    BY <1>0, <1>1, ListBounds DEF ListTypes
  <1>5. ASSUME UNCHANGED <<pager, answer>>, left => left',
               ~left' => UNCHANGED mine /\ stored \subseteq stored'
        PROVE  PageAt(Kept(pager.filter), pager, answer, left, list)'
    <2>1. ~left' => Cardinality(Kept(pager.filter)) <= Cardinality(Kept(pager.filter)')
      BY <1>0, <1>1, <1>5, MoreKept
    <2>2. PageAt(Kept(pager.filter)', pager, answer, left', list)
      BY <1>0, <1>3, <1>4, <1>5, <2>1, PageStays
    <2>3. QED
      BY <1>1, <1>5, <2>2
  <1>6. CASE \E page \in 1..Rows : GoTo(page)
    BY <1>0, <1>1, <1>6, PageIsChosen
  <1>7. CASE Select
    <2>1. PICK filter : Refilter(filter)
      BY <1>7 DEF Select
    <2>2. UNCHANGED <<list, stored, mine>>
      BY <1>7 DEF Select
    <2>3. QED
      BY <1>0, <1>1, <2>1, <2>2, PageRefilters
  <1>8. CASE Debounced \/ ApplyFilters \/ ClearFilters
    <2>1. PICK filter : Refilter(filter)
      BY <1>8 DEF Debounced, ApplyFilters, ClearFilters
    <2>2. UNCHANGED <<list, stored, mine>>
      BY <1>8 DEF Debounced, ApplyFilters, ClearFilters
    <2>3. QED
      BY <1>0, <1>1, <2>1, <2>2, PageRefilters
  <1>9. CASE Answer
    BY <1>0, <1>1, <1>9, PageIsAnswered
  <1>10. CASE FetchFails
    <2>1. /\ answer' = [answer EXCEPT !.is = "error"]
          /\ UNCHANGED <<list, stored, mine, pager, left>>
      BY <1>10 DEF FetchFails
    <2>2. answer'.is = "error" /\ answer'.page = answer.page /\ answer'.total = answer.total
      BY <1>4, <2>1 DEF Marks
    <2>3. Kept(pager.filter)' = Kept(pager.filter)
      BY <2>1 DEF Kept
    <2>4. QED
      BY <1>0, <2>1, <2>2, <2>3 DEF PageAt
  <1>11. ASSUME NEW d \in deletions, Serve(d)
         PROVE  PageAt(Kept(pager.filter), pager, answer, left, list)'
    <2>1. /\ UNCHANGED <<pager, answer>>
          /\ left' = (left \/ stored' # stored \/ mine' # mine)
      BY <1>11 DEF Serve
    <2>2. QED
      BY <1>5, <2>1
  <1>12. ASSUME NEW i \in Items, Elsewhere(i)
         PROVE  PageAt(Kept(pager.filter), pager, answer, left, list)'
    <2>1. /\ UNCHANGED <<pager, answer, mine>> /\ left' = (left \/ i \in stored)
          /\ i \notin stored => stored' = stored \union {i}
      BY <1>12 DEF Elsewhere
    <2>2. QED
      BY <1>5, <2>1
  <1>13. CASE UNCHANGED <<pager, answer, left, stored, mine>>
    BY <1>5, <1>13
  <1>14. \/ UNCHANGED <<pager, answer, left, stored, mine>>
         \/ (\E page \in 1..Rows : GoTo(page)) \/ Select \/ Debounced \/ ApplyFilters
         \/ ClearFilters \/ Answer \/ FetchFails \/ (\E d \in deletions : Serve(d))
         \/ (\E i \in Items : Elsewhere(i))
    BY DEF ListNext, listVars, Enter, Refresh, Ask, Delete, ChangeRole, Cancel, Confirm,
       AskAll, CancelAll, ConfirmAll, Settle, Close, Refused
  <1>15. QED
    BY <1>6, <1>7, <1>8, <1>9, <1>10, <1>11, <1>12, <1>13, <1>14

LEMMA InitPage == ListInit => PageInv
  <1> SUFFICES ASSUME ListInit PROVE PageInv
    OBVIOUS
  <1>1. ListTypes
    BY InitListTypes
  <1>2. Cardinality(Kept(pager.filter)) \in Nat
    BY <1>1, KeptItems, ListBounds
  <1>3. PageAt(Kept(pager.filter), [page |-> 1, filter |-> {}], NoAnswer, left, list)
    BY <1>2, PageTurns
  <1>4. QED
    BY <1>1, <1>3 DEF ListInit, PageInv

\* A filter, whenever it is applied, never leaves the user past the end of what
\* it keeps: an empty page lost its items after it was chosen.
THEOREM FromTheStart == ListSpec => []FilterFromTheStart
  <1>1. ListInit => PageInv
    BY InitPage
  <1>2. PageInv /\ [ListNext]_listVars => PageInv'
    BY PageStep
  <1>3. PageInv => FilterFromTheStart
    BY DEF PageInv, PageAt, FilterFromTheStart
  <1>4. QED
    BY <1>1, <1>2, <1>3, PTL DEF ListSpec

-----------------------------------------------------------------------------
(* Deletions and their dialogs.                                            *)

\* What is deleted is gone, for good. The page of the users sends one deletion
\* at a time, and shows who was deleted, in the list or in the dialog, only
\* while that deletion waits for the list.
AwaitsDeletion == \E d \in Of("delete") : d.step = "awaited"

GoneInv ==
  /\ stored \cap gone = {} /\ acked \subseteq gone
  /\ \A d \in deletions :
       /\ d.what = "delete" /\ d.step \in {"done", "awaited"} => d.item \in gone
       /\ d.step = "awaited" => list = "users"

UsersInv ==
  list = "users" =>
    /\ \A d, e \in Of("delete") : d = e
    /\ answer.is = "data" /\ answer.rows \cap acked # {} => fetching /\ AwaitsDeletion
    /\ target \in acked => AwaitsDeletion

DialogInv == ListTypes /\ GoneInv /\ UsersInv

\* The next name was nobody's.
LEMMA NextIsNew ==
  ASSUME NEW S \in SUBSET Items
  PROVE  Max(S \union {0}) + 1 \notin S
  <1>1. Rows \in Nat /\ S \in SUBSET (1..Rows)
    BY ListBounds DEF Items
  <1>2. \E m \in S \union {0} : \A j \in S \union {0} : m >= j
    <2>1. CASE S = {}
      BY <2>1
    <2>2. CASE S # {}
      <3>1. IsFiniteSet(S) /\ Cardinality(S) \in Nat /\ 0 < Cardinality(S)
        <4>1. IsFiniteSet(S) /\ Cardinality(S) \in Nat
          BY <1>1, FiniteItems
        <4>2. Cardinality(S) # 0
          BY <2>2, <4>1, FS_EmptySet
        <4>3. QED
          BY <4>1, <4>2
      <3>2. PICK m \in S : Cardinality(Newer(S, m)) = 0
        BY <1>1, <3>1, Ranks
      <3>3. Newer(S, m) = {}
        <4>1. Newer(S, m) \in SUBSET S
          BY DEF Newer
        <4>2. IsFiniteSet(Newer(S, m))
          BY <1>1, <4>1, FiniteItems
        <4>3. QED
          BY <3>2, <4>2, FS_EmptySet
      <3>4. \A j \in S : ~(j > m)
        BY <3>3 DEF Newer
      <3>5. m \in Nat /\ \A j \in S : j \in Nat
        BY <1>1
      <3>6. QED
        BY <3>4, <3>5
    <2>3. QED
      BY <2>1, <2>2
  <1>3. PICK m : m = Max(S \union {0})
    OBVIOUS
  <1>4. m \in S \union {0} /\ \A j \in S \union {0} : m >= j
    BY <1>2, <1>3 DEF Max
  <1>5. m \in Nat /\ \A j \in S : j \in Nat
    BY <1>1, <1>4
  <1>6. m + 1 \notin S
    BY <1>4, <1>5
  <1>7. QED
    BY <1>3, <1>6

\* Nothing that is gone comes back.
LEMMA GoneStays ==
  ASSUME ListTypes, GoneInv, [ListNext]_listVars
  PROVE  gone \subseteq gone' /\ stored' \cap gone' = {}
  <1>0. stored \cap gone = {} /\ gone \subseteq Items /\ stored \subseteq Items
    BY DEF GoneInv, ListTypes
  <1>1. ASSUME NEW d \in deletions, Serve(d) PROVE gone \subseteq gone' /\ stored' \cap gone' = {}
    <2>1. stored' \in {stored, {}, stored \ {d.item}}
      BY <1>1, StageOf DEF Serve
    <2>2. gone' = gone \union (stored \ stored')
      BY <1>1 DEF Serve
    <2>3. QED
      BY <1>0, <2>1, <2>2
  <1>2. ASSUME NEW i \in Items, Elsewhere(i)
        PROVE  gone \subseteq gone' /\ stored' \cap gone' = {}
    <2>1. gone' = gone \union (stored \ stored')
      BY <1>2 DEF Elsewhere
    <2>2. CASE stored' = stored \ {i}
      BY <1>0, <2>1, <2>2
    <2>3. CASE i = Max(stored \union gone \union {0}) + 1 /\ stored' = stored \union {i}
      <3>1. stored \union gone \in SUBSET Items
        BY <1>0
      <3>2. Max((stored \union gone) \union {0}) + 1 \notin stored \union gone
        BY <3>1, NextIsNew
      <3>3. i \notin gone
        BY <2>3, <3>2
      <3>4. QED
        BY <1>0, <2>1, <2>3, <3>3
    <2>4. QED
      BY <1>2, <2>2, <2>3 DEF Elsewhere
  <1>3. QED
    BY <1>0, <1>1, <1>2, ListFrame

\* The same request, with or without its dialog.
Same(d, e) == e.what = d.what /\ e.item = d.item /\ e.step = d.step

LEMMA SameWhoAsked ==
  ASSUME ListTypes, NEW d \in deletions, NEW asked \in BOOLEAN
  PROVE  Same(d, [d EXCEPT !.asked = asked])
  BY DEF ListTypes, Sendable, Sendings, Same

\* Where the requests that are on their way come from.
LEMMA Provenance ==
  ASSUME ListTypes, [ListNext]_listVars, NEW e \in deletions'
  PROVE  \/ \E d \in deletions : Same(d, e)
         \/ e.step = "sent"
         \/ \E d \in deletions :
              /\ e.what = d.what /\ e.item = d.item
              /\ \/ e.step = "refused"
                 \/ e.step = "done" /\ (d.what = "delete" => d.item \in gone')
                 \/ e.step = "awaited" /\ d.step = "done" /\ list = "users"
  <1>1. ASSUME e \in deletions PROVE \E d \in deletions : Same(d, e)
    BY <1>1 DEF Same
  <1>2. ASSUME NEW R, Unmounted(R) PROVE \E d \in deletions : Same(d, e)
    <2>1. PICK d \in deletions :
            e = IF list = "cards" /\ d.item \in R THEN [d EXCEPT !.asked = FALSE] ELSE d
      BY <1>2 DEF Unmounted
    <2>2. Same(d, d) /\ Same(d, [d EXCEPT !.asked = FALSE])
      BY SameWhoAsked DEF Same
    <2>3. QED
      BY <2>1, <2>2
  <1>3. CASE Answer
    BY <1>2, <1>3 DEF Answer
  <1>4. CASE FetchFails
    BY <1>2, <1>4 DEF FetchFails
  <1>5. CASE Cancel
    <2>1. PICK d \in deletions : e = [d EXCEPT !.asked = d.asked /\ list # "dispatches"]
      BY <1>5 DEF Cancel
    <2>2. (d.asked /\ list # "dispatches") \in BOOLEAN
      OBVIOUS
    <2>3. Same(d, e)
      BY <2>1, <2>2, SameWhoAsked
    <2>4. QED
      BY <2>3
  <1>6. CASE Confirm \/ ConfirmAll \/ \E i \in Items : Delete(i) \/ ChangeRole(i)
    <2>1. PICK what, i : deletions' = deletions \union {Sent(what, i)}
      BY <1>6 DEF Confirm, ConfirmAll, Delete, ChangeRole, Send
    <2>2. Sent(what, i).step = "sent"
      BY DEF Sent
    <2>3. QED
      BY <1>1, <2>1, <2>2
  <1>7. ASSUME NEW d \in deletions, Serve(d)
        PROVE  \/ e \in deletions
               \/ /\ e.what = d.what /\ e.item = d.item
                  /\ \/ e.step = "refused"
                     \/ e.step = "done" /\ (d.what = "delete" => d.item \in gone')
    <2>1. PICK ok \in BOOLEAN, obeyed \in BOOLEAN :
            /\ ok => obeyed
            /\ obeyed => d.what = "all" \/ d.item \in stored
            /\ deletions' = (deletions \ {d}) \union
                              {[d EXCEPT !.step = IF ok THEN "done" ELSE "refused"]}
            /\ stored' = CASE ~obeyed \/ d.what = "role" -> stored
                           [] d.what = "all" -> {}
                           [] d.what = "delete" -> stored \ {d.item}
      BY <1>7 DEF Serve
    <2>2. gone' = gone \union (stored \ stored')
      BY <1>7 DEF Serve
    <2>3. PICK step : step = IF ok THEN "done" ELSE "refused"
      OBVIOUS
    <2>4. step \in Stages
      BY <2>3 DEF Stages
    <2>5. e \in deletions \/ e = [d EXCEPT !.step = step]
      BY <2>1, <2>3
    <2>6. ok /\ d.what = "delete" => d.item \in gone'
      BY <2>1, <2>2
    <2>7. /\ [d EXCEPT !.step = step].what = d.what
          /\ [d EXCEPT !.step = step].item = d.item
          /\ [d EXCEPT !.step = step].step = step
      BY <2>4, StageOf
    <2>8. CASE e = [d EXCEPT !.step = step]
      <3>1. e.what = d.what /\ e.item = d.item /\ e.step = step
        BY <2>7, <2>8
      <3>2. QED
        BY <2>3, <2>6, <3>1
    <2>9. QED
      BY <2>5, <2>8
  <1>8. ASSUME NEW d \in deletions, Settle(d)
        PROVE  \/ e \in deletions
               \/ /\ e.what = d.what /\ e.item = d.item
                  /\ e.step = "awaited" /\ d.step = "done" /\ list = "users"
    <2>1. "awaited" \in Stages
      BY DEF Stages
    <2>2. d.step = "done" /\ (e \in deletions \/ (list = "users" /\ e = [d EXCEPT !.step = "awaited"]))
      BY <1>8 DEF Settle
    <2>3. /\ [d EXCEPT !.step = "awaited"].what = d.what
          /\ [d EXCEPT !.step = "awaited"].item = d.item
          /\ [d EXCEPT !.step = "awaited"].step = "awaited"
      BY <2>1, StageOf
    <2>4. CASE list = "users" /\ e = [d EXCEPT !.step = "awaited"]
      BY <2>2, <2>3, <2>4
    <2>5. QED
      BY <2>2, <2>4
  <1>9. ASSUME NEW d \in deletions, Close(d) \/ Refused(d) PROVE e \in deletions
    BY <1>9 DEF Close, Refused
  <1>10. ASSUME NEW i \in Items, Ask(i) PROVE e \in deletions
    BY <1>10 DEF Ask
  <1>11. QED
    BY <1>1, <1>3, <1>4, <1>5, <1>6, <1>7, <1>8, <1>9, <1>10, DialogFrame

LEMMA GoneStep ==
  ASSUME ListTypes, GoneInv, [ListNext]_listVars
  PROVE  GoneInv'
  <1>0. /\ stored' \cap gone' = {} /\ gone \subseteq gone' /\ list' = list
        /\ acked \subseteq gone
        /\ \A d \in deletions :
             /\ d.what = "delete" /\ d.step \in {"done", "awaited"} => d.item \in gone
             /\ d.step = "awaited" => list = "users"
    BY GoneStays, ListFrame DEF GoneInv
  <1>1. acked' \subseteq gone'
    <2>1. ASSUME NEW d \in deletions, Settle(d) PROVE acked' \subseteq gone
      <3>1. d.step = "done" /\ (acked' = acked \/ (d.what = "delete" /\ acked' = acked \union {d.item}))
        BY <2>1 DEF Settle
      <3>2. QED
        BY <1>0, <3>1
    <2>2. QED
      BY <1>0, <2>1, ListFrame
  <1>2. ASSUME NEW e \in deletions'
        PROVE  /\ e.what = "delete" /\ e.step \in {"done", "awaited"} => e.item \in gone'
               /\ e.step = "awaited" => list = "users"
    <2>1. CASE \E d \in deletions : Same(d, e)
      BY <1>0, <2>1 DEF Same
    <2>2. CASE e.step = "sent"
      BY <2>2
    <2>3. ASSUME NEW d \in deletions,
                 e.what = d.what, e.item = d.item,
                 \/ e.step = "refused"
                 \/ e.step = "done" /\ (d.what = "delete" => d.item \in gone')
                 \/ e.step = "awaited" /\ d.step = "done" /\ list = "users"
          PROVE  /\ e.what = "delete" /\ e.step \in {"done", "awaited"} => e.item \in gone'
                 /\ e.step = "awaited" => list = "users"
      BY <1>0, <2>3
    <2>4. QED
      BY <2>1, <2>2, <2>3, Provenance
  <1>3. QED
    BY <1>0, <1>1, <1>2 DEF GoneInv

\* The requests of the users' page: a deletion is not sent beside another, and
\* the wait for the list ends with the answer, and with the dialog.
LEMMA UsersRequests ==
  ASSUME ListTypes, UsersInv, [ListNext]_listVars, list = "users"
  PROVE  /\ \A d, e \in Of("delete")' : d = e
         /\ AwaitsDeletion => \/ AwaitsDeletion'
                              \/ ~fetching /\ target' = 0 /\ UNCHANGED <<fetching, acked, answer>>
         /\ \A d \in deletions : Settle(d) /\ d.what = "delete" => AwaitsDeletion'
  <1> DEFINE Rule == /\ \A d, e \in Of("delete")' : d = e
                     /\ AwaitsDeletion => AwaitsDeletion'
  <1>0. \A d, e \in Of("delete") : d = e
    BY DEF UsersInv
  <1>1. ASSUME deletions' = deletions PROVE Rule
    BY <1>0, <1>1 DEF AwaitsDeletion, Of
  <1>2. ASSUME Answer \/ FetchFails PROVE Rule
    <2>1. PICK R : Unmounted(R)
      BY <1>2 DEF Answer, FetchFails
    <2>2. deletions' = deletions
      BY <2>1 DEF Unmounted
    <2>3. QED
      BY <1>1, <2>2
  <1>3. ASSUME Cancel PROVE Rule
    <2>1. ASSUME NEW d \in deletions
          PROVE  [d EXCEPT !.asked = d.asked /\ list # "dispatches"] = d
      <3>1. PICK b : b = (d.asked /\ list # "dispatches")
        OBVIOUS
      <3>2. b = d.asked /\ b \in BOOLEAN
        BY <3>1, StageOf
      <3>3. [d EXCEPT !.asked = b] = d
        BY <3>2, StageOf
      <3>4. QED
        BY <3>1, <3>3
    <2>2. deletions' = deletions
      BY <1>3, <2>1 DEF Cancel
    <2>3. QED
      BY <1>1, <2>2
  <1>4. ASSUME Confirm PROVE Rule
    <2>1. Of("delete") = {}
      BY <1>4 DEF Confirm, Busy
    <2>2. deletions' = deletions \union {Sent("delete", target)}
      BY <1>4 DEF Confirm, Send
    <2>3. \A d \in Of("delete")' : d = Sent("delete", target)
      BY <2>1, <2>2 DEF Of
    <2>4. ~AwaitsDeletion
      BY <2>1 DEF AwaitsDeletion
    <2>5. QED
      BY <2>3, <2>4
  <1>5. ASSUME NEW i \in Items, ChangeRole(i) PROVE Rule
    <2>1. deletions' = deletions \union {Sent("role", i)}
      BY <1>5 DEF ChangeRole, Send
    <2>2. Sent("role", i).what = "role"
      BY DEF Sent
    <2>3. Of("delete")' = Of("delete")
      BY <2>1, <2>2 DEF Of
    <2>4. QED
      BY <1>0, <2>3 DEF AwaitsDeletion
  <1>6. ASSUME NEW d \in deletions, NEW e, e.what = d.what, d.step # "awaited",
               deletions' = (deletions \ {d}) \union {e}
        PROVE  Rule
    <2>1. \A f \in Of("delete")' : f \in Of("delete") \ {d} \/ (f = e /\ d \in Of("delete"))
      BY <1>6 DEF Of
    <2>2. \A f, g \in Of("delete")' : f = g
      BY <1>0, <2>1
    <2>3. \A f \in Of("delete") : f.step = "awaited" => f \in Of("delete")'
      BY <1>6 DEF Of
    <2>4. QED
      BY <2>2, <2>3 DEF AwaitsDeletion
  <1>7. ASSUME NEW d \in deletions, Serve(d) PROVE Rule
    <2>1. PICK step \in {"done", "refused"} :
            deletions' = (deletions \ {d}) \union {[d EXCEPT !.step = step]}
      BY <1>7 DEF Serve
    <2>2. [d EXCEPT !.step = step].what = d.what
      BY StageOf DEF Stages
    <2>3. d.step # "awaited"
      BY <1>7 DEF Serve
    <2>4. QED
      BY <1>6, <2>1, <2>2, <2>3
  <1>8. ASSUME NEW d \in deletions, Settle(d)
        PROVE  Rule /\ (d.what = "delete" => AwaitsDeletion')
    <2>1. deletions' = (deletions \ {d}) \union {[d EXCEPT !.step = "awaited"]}
      BY <1>8 DEF Settle
    <2>2. /\ [d EXCEPT !.step = "awaited"].what = d.what
          /\ [d EXCEPT !.step = "awaited"].step = "awaited"
      BY StageOf DEF Stages
    <2>3. d.step # "awaited"
      BY <1>8 DEF Settle
    <2>4. d.what = "delete" => AwaitsDeletion'
      BY <2>1, <2>2 DEF AwaitsDeletion, Of
    <2>5. QED
      BY <1>6, <2>1, <2>2, <2>3, <2>4
  <1>9. ASSUME NEW d \in deletions, Close(d)
        PROVE  /\ \A f, g \in Of("delete")' : f = g
               /\ AwaitsDeletion => \/ AwaitsDeletion'
                                    \/ ~fetching /\ target' = 0
                                       /\ UNCHANGED <<fetching, acked, answer>>
    <2>1. deletions' = deletions \ {d}
      BY <1>9 DEF Close
    <2>2. \A f, g \in Of("delete")' : f = g
      BY <1>0, <2>1 DEF Of
    <2>3. CASE d.what = "delete"
      BY <1>9, <2>2, <2>3 DEF Close
    <2>4. CASE d.what # "delete"
      <3>1. Of("delete")' = Of("delete")
        BY <2>1, <2>4 DEF Of
      <3>2. QED
        BY <2>2, <3>1 DEF AwaitsDeletion
    <2>5. QED
      BY <2>3, <2>4
  <1>10. ASSUME NEW d \in deletions, Refused(d) PROVE Rule
    <2>1. deletions' = deletions \ {d} /\ d.step = "refused"
      BY <1>10 DEF Refused
    <2>2. QED
      BY <1>0, <2>1 DEF AwaitsDeletion, Of
  <1>11. ASSUME NEW i \in Items, Ask(i) \/ Delete(i) PROVE deletions' = deletions
    BY <1>11 DEF Ask, Delete
  <1>12. ~ConfirmAll
    BY DEF ConfirmAll, ListTypes
  <1>13. Rule \/ \E d \in deletions : Close(d)
    <2> HIDE DEF Rule
    <2>1. ASSUME NEW d \in deletions, Serve(d) \/ Settle(d) \/ Refused(d) PROVE Rule
      BY <1>7, <1>8, <1>10, <2>1
    <2>2. ASSUME NEW i \in Items, Ask(i) \/ Delete(i) \/ ChangeRole(i) PROVE Rule
      BY <1>1, <1>5, <1>11, <2>2
    <2>3. CASE UNCHANGED <<deletions, target>>
      BY <1>1, <2>3
    <2>4. QED
      BY <1>2, <1>3, <1>4, <1>12, <2>1, <2>2, <2>3, DialogFrame
  <1>14. QED
    BY <1>8, <1>9, <1>13

\* What the page of the users asks, and tells.
LEMMA UsersTarget ==
  ASSUME ListTypes, [ListNext]_listVars, list = "users"
  PROVE  target' \in {target, 0} \/ \E i \in Items : Ask(i) /\ target' = i
  BY DialogFrame DEF Answer, FetchFails, Unmounted, Ask, Delete, ChangeRole, Cancel, Confirm,
     ConfirmAll, Serve, Settle, Close, Refused

LEMMA UsersStep ==
  ASSUME ListTypes, GoneInv, UsersInv, [ListNext]_listVars, list = "users"
  PROVE  UsersInv'
  <1>0. /\ acked \subseteq gone /\ stored \cap gone = {} /\ acked \subseteq Items
        /\ answer.is = "data" /\ answer.rows \cap acked # {} => fetching /\ AwaitsDeletion
        /\ target \in acked => AwaitsDeletion
        /\ \A d, e \in Of("delete") : d = e
    BY DEF ListTypes, GoneInv, UsersInv
  <1>1. /\ \A d, e \in Of("delete")' : d = e
        /\ AwaitsDeletion => \/ AwaitsDeletion'
                             \/ ~fetching /\ target' = 0 /\ UNCHANGED <<fetching, acked, answer>>
        /\ \A d \in deletions : Settle(d) /\ d.what = "delete" => AwaitsDeletion'
    BY UsersRequests
  <1>2. 0 \notin acked'
    <2>1. acked' \subseteq Items
      BY ItemTypes
    <2>2. 0 \notin Items
      BY DEF Items
    <2>3. QED
      BY <2>1, <2>2
  <1>3. acked' = acked \/ AwaitsDeletion'
    <2>1. ASSUME NEW d \in deletions, Settle(d) PROVE acked' = acked \/ AwaitsDeletion'
      BY <1>1, <2>1 DEF Settle
    <2>2. QED
      BY <2>1, ListFrame
  <1>4. target' \in acked' => AwaitsDeletion'
    <2>1. SUFFICES ASSUME target' \in acked', acked' = acked PROVE AwaitsDeletion'
      BY <1>3
    <2>2. target' # 0
      BY <1>2, <2>1
    <2>3. CASE target' = target
      BY <1>0, <1>1, <2>1, <2>2, <2>3
    <2>4. ASSUME NEW i \in Items, Ask(i), target' = i PROVE FALSE
      <3>1. Of("delete") = {} /\ i \in Shown
        BY <2>4 DEF Ask, Busy
      <3>2. ~AwaitsDeletion
        BY <3>1 DEF AwaitsDeletion
      <3>3. answer.is = "data" /\ i \in answer.rows
        BY <3>1 DEF Shown
      <3>4. QED
        BY <1>0, <2>1, <2>4, <3>2, <3>3
    <2>5. QED
      BY <2>2, <2>3, <2>4, UsersTarget
  <1>5. answer'.is = "data" /\ answer'.rows \cap acked' # {} => fetching' /\ AwaitsDeletion'
    <2>1. SUFFICES ASSUME answer'.is = "data", answer'.rows \cap acked' # {}
                   PROVE  fetching' /\ AwaitsDeletion'
      OBVIOUS
    <2>2. ASSUME NEW d \in deletions, Settle(d) PROVE fetching' /\ AwaitsDeletion'
      <3>1. fetching' /\ UNCHANGED answer
        BY <2>2 DEF Settle
      <3>2. CASE acked' = acked
        <4>1. fetching /\ AwaitsDeletion
          BY <1>0, <2>1, <3>1, <3>2
        <4>2. QED
          BY <1>1, <3>1, <4>1
      <3>3. QED
        BY <1>3, <3>1, <3>2
    <2>3. ASSUME acked' = acked, UNCHANGED answer, fetching => fetching'
          PROVE  fetching' /\ AwaitsDeletion'
      <3>1. fetching /\ AwaitsDeletion
        BY <1>0, <2>1, <2>3
      <3>2. QED
        BY <1>1, <2>3, <3>1
    <2>4. CASE Answer
      <3>1. answer' = Listed /\ acked' = acked
        BY <2>4 DEF Answer
      <3>2. Listed.rows \subseteq stored
        BY KeptItems
      <3>3. QED
        BY <1>0, <2>1, <3>1, <3>2
    <2>5. CASE FetchFails
      <3>1. answer'.is = "error"
        BY <2>5 DEF FetchFails, ListTypes, Marks
      <3>2. QED
        BY <2>1, <3>1
    <2>6. ASSUME NEW page, NEW filter, Turn(page, filter), acked' = acked
          PROVE  fetching' /\ AwaitsDeletion'
      <3>1. UNCHANGED <<answer, fetching>> \/ answer' = NoAnswer
        BY <2>6 DEF Turn
      <3>2. answer' # NoAnswer
        BY <2>1, NoAnswerIs
      <3>3. QED
        BY <2>3, <2>6, <3>1, <3>2
    <2>7. CASE \E page \in 1..Rows : GoTo(page)
      BY <2>6, <2>7 DEF GoTo
    <2>8. CASE Select \/ Debounced \/ ApplyFilters \/ ClearFilters
      BY <2>6, <2>8 DEF Select, Debounced, ApplyFilters, ClearFilters, Refilter
    <2>9. CASE UNCHANGED <<answer, acked>> /\ (fetching => fetching')
      BY <2>3, <2>9
    <2>10. \/ UNCHANGED <<answer, acked>> /\ (fetching' = fetching \/ fetching' = TRUE)
           \/ Select \/ Debounced \/ ApplyFilters \/ ClearFilters \/ Answer \/ FetchFails
           \/ (\E page \in 1..Rows : GoTo(page)) \/ (\E d \in deletions : Settle(d))
      BY DEF ListNext, listVars, Enter, Refresh, Ask, Delete, ChangeRole, Elsewhere, Cancel,
         Confirm, AskAll, CancelAll, ConfirmAll, Serve, Close, Refused
    <2>11. QED
      BY <2>2, <2>4, <2>5, <2>7, <2>8, <2>9, <2>10
  <1>6. QED
    BY <1>1, <1>4, <1>5 DEF UsersInv

LEMMA DialogStep ==
  ASSUME DialogInv, [ListNext]_listVars
  PROVE  DialogInv'
  <1>1. ListTypes' /\ GoneInv' /\ list' = list
    BY ListTypesStep, GoneStep, ListFrame DEF DialogInv
  <1>2. CASE list = "users"
    BY <1>1, <1>2, UsersStep DEF DialogInv
  <1>3. CASE list # "users"
    BY <1>1, <1>3 DEF DialogInv, UsersInv
  <1>4. QED
    BY <1>2, <1>3

LEMMA InitDialog == ListInit => DialogInv
  <1> SUFFICES ASSUME ListInit PROVE DialogInv
    OBVIOUS
  <1>1. ListTypes
    BY InitListTypes
  <1>2. GoneInv /\ UsersInv
    BY DEF ListInit, GoneInv, UsersInv, Of
  <1>3. QED
    BY <1>1, <1>2 DEF DialogInv

\* An administrator never sends the deletion of a user who is deleted.
THEOREM DeletedOnce == ListSpec => NeverDeletedTwice
  <1>1. ListInit => DialogInv
    BY InitDialog
  <1>2. DialogInv /\ [ListNext]_listVars => DialogInv'
    BY DialogStep
  <1>3. ASSUME DialogInv, [ListNext]_listVars,
               NEW e \in deletions' \ deletions,
               list = "users", e.what = "delete", e.step = "sent"
        PROVE  e.item \notin acked
    <2>1. ListTypes /\ UsersInv
      BY <1>3 DEF DialogInv
    <2>2. ASSUME NEW R, Unmounted(R) PROVE FALSE
      BY <1>3, <2>2 DEF Unmounted
    <2>3. CASE Confirm
      <3>1. Of("delete") = {} /\ e = Sent("delete", target)
        BY <1>3, <2>3 DEF Confirm, Busy, Send
      <3>2. e.item = target
        BY <3>1 DEF Sent
      <3>3. ~AwaitsDeletion
        BY <3>1 DEF AwaitsDeletion
      <3>4. QED
        BY <1>3, <2>1, <3>2, <3>3 DEF UsersInv
    <2>4. ASSUME NEW i \in Items, ChangeRole(i) PROVE FALSE
      BY <1>3, <2>4 DEF ChangeRole, Send, Sent
    <2>5. ASSUME NEW d \in deletions, Serve(d) PROVE FALSE
      <3>1. PICK step \in {"done", "refused"} : e = [d EXCEPT !.step = step]
        BY <1>3, <2>5 DEF Serve
      <3>2. [d EXCEPT !.step = step].step = step
        BY <2>1, StageOf DEF Stages
      <3>3. QED
        BY <1>3, <3>1, <3>2
    <2>6. ASSUME NEW d \in deletions, Settle(d) PROVE FALSE
      <3>1. e = [d EXCEPT !.step = "awaited"]
        BY <1>3, <2>6 DEF Settle
      <3>2. [d EXCEPT !.step = "awaited"].step = "awaited"
        BY <2>1, StageOf DEF Stages
      <3>3. QED
        BY <1>3, <3>1, <3>2
    <2>7. CASE Cancel
      <3>1. PICK d \in deletions : e = [d EXCEPT !.asked = d.asked /\ list # "dispatches"]
        BY <1>3, <2>7 DEF Cancel
      <3>2. PICK b : b = (d.asked /\ list # "dispatches")
        OBVIOUS
      <3>3. b = d.asked /\ b \in BOOLEAN
        BY <1>3, <2>1, <3>2, StageOf
      <3>4. [d EXCEPT !.asked = b] = d
        BY <2>1, <3>3, StageOf
      <3>5. QED
        BY <1>3, <3>1, <3>2, <3>4
    <2>8. ~ConfirmAll
      BY <1>3, <2>1 DEF ConfirmAll, ListTypes
    <2>9. ASSUME NEW i \in Items, Ask(i) \/ Delete(i) PROVE FALSE
      BY <1>3, <2>9 DEF Ask, Delete
    <2>10. ASSUME NEW d \in deletions, Close(d) \/ Refused(d) PROVE FALSE
      BY <1>3, <2>10 DEF Close, Refused
    <2>11. QED
      BY <1>3, <2>2, <2>3, <2>4, <2>5, <2>6, <2>7, <2>8, <2>9, <2>10, DialogFrame
         DEF Answer, FetchFails
  <1>4. DialogInv /\ [ListNext]_listVars =>
          [\A d \in deletions' \ deletions :
             (list = "users" /\ d.what = "delete" /\ d.step = "sent") => d.item \notin acked]_listVars
    BY <1>3
  <1>5. QED
    BY <1>1, <1>2, <1>4, PTL DEF ListSpec, NeverDeletedTwice

\* A dialog that waits closes when it was its own deletion that was answered.
THEOREM OwnAnswer == ListSpec => DialogIsAnswered
  <1>1. ListInit => DialogInv
    BY InitDialog
  <1>2. DialogInv /\ [ListNext]_listVars => DialogInv'
    BY DialogStep
  <1>3. ASSUME DialogInv, [ListNext]_listVars,
               target # 0, target' = 0, deletions # {}, list # "dispatches"
        PROVE  \/ \A d \in Of("delete") : d.item # target \/ ~d.asked
               \/ \E d \in deletions \ deletions' : d.item = target /\ d.what = "delete"
               \/ list = "cards" /\ target \notin Shown'
    <2>1. ListTypes /\ UsersInv /\ GoneInv
      BY <1>3 DEF DialogInv
    <2>2. CASE Answer
      <3>1. Unmounted(Items \ answer'.rows)
        BY <2>2 DEF Answer
      <3>2. list = "cards" /\ target \notin answer'.rows
        BY <1>3, <3>1 DEF Unmounted
      <3>3. QED
        BY <3>2 DEF Shown
    <2>3. CASE FetchFails
      <3>1. answer' = [answer EXCEPT !.is = "error"] /\ Unmounted(Items)
        BY <2>3 DEF FetchFails
      <3>2. answer'.is = "error"
        BY <2>1, <3>1 DEF ListTypes, Marks
      <3>3. list = "cards"
        BY <1>3, <3>1 DEF Unmounted
      <3>4. QED
        BY <3>2, <3>3 DEF Shown
    <2>4. CASE Cancel
      BY <1>3, <2>4 DEF Cancel, Busy
    <2>5. ASSUME NEW d \in deletions, Settle(d)
          PROVE  \E e \in deletions \ deletions' : e.item = target /\ e.what = "delete"
      <3>1. list = "cards" /\ target = d.item /\ deletions' = deletions \ {d}
        BY <1>3, <2>5 DEF Settle
      <3>2. d.what = "delete"
        BY <2>1, <3>1 DEF ListTypes, Sendable, Sendings
      <3>3. QED
        BY <3>1, <3>2
    <2>6. ASSUME NEW d \in deletions, Close(d)
          PROVE  \/ \A e \in Of("delete") : e.item # target \/ ~e.asked
                 \/ \E e \in deletions \ deletions' : e.item = target /\ e.what = "delete"
      <3>1. d.what = "delete" /\ deletions' = deletions \ {d} /\ d.step = "awaited"
        BY <1>3, <2>6 DEF Close
      <3>2. list = "users"
        BY <2>1, <3>1 DEF GoneInv
      <3>3. \A e \in Of("delete") : e = d
        BY <2>1, <3>1, <3>2 DEF UsersInv, Of
      <3>4. QED
        BY <3>1, <3>3
    <2>7. ASSUME NEW i \in Items, Ask(i) PROVE FALSE
      BY <1>3, <2>7 DEF Ask, Undisturbed
    <2>8. \/ target' = target \/ Answer \/ FetchFails \/ Cancel
          \/ \E i \in Items : Ask(i)
          \/ \E d \in deletions : Settle(d) \/ Close(d)
      BY <1>3, DialogFrame DEF Confirm, ConfirmAll, Delete, ChangeRole, Serve, Refused
    <2>9. QED
      BY <1>3, <2>2, <2>3, <2>4, <2>5, <2>6, <2>7, <2>8
  <1>4. DialogInv /\ [ListNext]_listVars =>
          [(target # 0 /\ target' = 0 /\ deletions # {} /\ list # "dispatches") =>
             \/ \A d \in Of("delete") : d.item # target \/ ~d.asked
             \/ \E d \in deletions \ deletions' : d.item = target /\ d.what = "delete"
             \/ list = "cards" /\ target \notin Shown']_listVars
    BY <1>3
  <1>5. QED
    BY <1>1, <1>2, <1>4, PTL DEF ListSpec, DialogIsAnswered

-----------------------------------------------------------------------------
(* The choice of a picture: one source.                                    *)

Files == Pictures \union Images \union {None}
Forms == [open : BOOLEAN, expanded : BOOLEAN, file : Files, upload : Uploads \union {None},
          remove : BOOLEAN, submitted : BOOLEAN, error : BOOLEAN]
Panes == [tab : Tabs, stock : Images \union {None}, picking : BOOLEAN,
          target : Uploads \union {None}, crop : Pictures \union {None},
          step : {"none", "loading", "ready", "saving", "error"}]
Picks == [image : Images, live : BOOLEAN]

\* One source in the values of a form, and the highlighted image is its file.
OneOf(c, p) ==
  /\ c.file = None \/ c.upload = None
  /\ p.stock # None => p.stock = c.file

\* What a handler may hand to Render: values, pane and downloads that are well
\* typed; one download at most is the pane's, and the pane shows it; while no
\* download was ever hidden each is the pane's, and no upload stands beside it.
Fit(c, p, ps) ==
  /\ c \in Forms /\ p \in Panes /\ ps \subseteq Picks
  /\ c.error => c.submitted \/ kind = "modal"
  /\ p.crop = None <=> p.step = "none"
  /\ kind # "avatar" => p.crop = None
  /\ kind = "avatar" => ps = {} /\ p.stock = None /\ c.file \in Pictures \union {None}
  /\ \A d, e \in ps : d.live /\ e.live => d = e
  /\ p.picking <=> \E d \in ps : d.live
  /\ ~hidden => \A d \in ps : d.live
  /\ ~hidden /\ ps # {} => c.upload = None
  /\ c.open /\ ~hidden => OneOf(c, p)

CoverInv ==
  /\ kind \in {"form", "modal", "avatar"} /\ {sending, hidden} \subseteq BOOLEAN
  /\ crops \subseteq Pictures /\ (kind # "avatar" => crops = {})
  /\ Fit(cover, pane, picks)
  /\ ~Visible(cover) => pane = NewPane

LEMMA NewPaneFits ==
  /\ NewPane.tab = "library" /\ NewPane.stock = None /\ ~NewPane.picking
  /\ NewPane.target = None /\ NewPane.crop = None /\ NewPane.step = "none"
  /\ NewPane \in Panes
  BY DEF NewPane, Panes, Tabs

\* A form that is drawn keeps the pane if it can be seen; else the downloads
\* are nobody's from then on, which hidden remembers.
LEMMA Rendered ==
  ASSUME CoverInv, NEW c, NEW p, NEW ps, NEW rs,
         Fit(c, p, ps), Render(c, p, ps, rs), kind' = kind,
         sending' \in BOOLEAN, crops' \subseteq Pictures, kind # "avatar" => crops' = {}
  PROVE  CoverInv'
  <1>1. CASE Visible(c)
    <2>1. cover' = c /\ pane' = p /\ picks' = ps /\ hidden' = hidden /\ kind' = kind
      BY <1>1 DEF Render
    <2>2. Visible(cover)'
      BY <1>1, <2>1 DEF Visible
    <2>3. Fit(cover, pane, picks)'
      BY <2>1 DEF Fit, OneOf, Panes, Tabs
    <2>4. QED
      BY <2>1, <2>2, <2>3 DEF CoverInv
  <1>2. CASE ~Visible(c)
    <2>1. /\ cover' = c /\ pane' = NewPane /\ kind' = kind
          /\ hidden' = (picks' # {} \/ (c.open /\ hidden))
          /\ picks' \subseteq {[d EXCEPT !.live = FALSE] : d \in ps}
      BY <1>2 DEF Render
    <2>2. ~Visible(cover)'
      BY <1>2, <2>1 DEF Visible
    <2>3. \A d \in picks' : d \in Picks /\ ~d.live
      <3> SUFFICES ASSUME NEW d \in picks' PROVE d \in Picks /\ ~d.live
        OBVIOUS
      <3>1. PICK e \in ps : d = [e EXCEPT !.live = FALSE]
        BY <2>1
      <3>2. e \in Picks
        BY DEF Fit
      <3>3. QED
        BY <3>1, <3>2 DEF Picks
    <2>4. kind = "avatar" => picks' = {}
      BY <2>1 DEF Fit
    <2>5. ~hidden' => picks' = {} /\ (c.open => ~hidden)
      BY <2>1
    <2>6. c.open /\ ~hidden' => OneOf(c, NewPane)
      BY <2>5, NewPaneFits DEF Fit, OneOf
    <2>7. Fit(cover, pane, picks)'
      BY <2>1, <2>3, <2>4, <2>5, <2>6, NewPaneFits DEF Fit, OneOf, Panes, Tabs, Forms, Files
    <2>8. hidden' \in BOOLEAN
      BY <2>1
    <2>9. NewPane' = NewPane
      OBVIOUS
    <2> QED
      BY <2>1, <2>2, <2>7, <2>8 DEF CoverInv
  <1>3. QED
    BY <1>1, <1>2

\* Validation changes the error alone.
LEMMA Changed ==
  ASSUME CoverInv, NEW c, NEW p, NEW ps, NEW rs,
         Fit(c, p, ps), Change(c, p, ps, rs), kind' = kind,
         sending' \in BOOLEAN, crops' \subseteq Pictures, kind # "avatar" => crops' = {}
  PROVE  CoverInv'
  <1>1. PICK e \in BOOLEAN : /\ Render([c EXCEPT !.error = e], p, ps, rs)
                             /\ e => c.submitted \/ e = c.error
    <2>1. c.error \in BOOLEAN
      BY DEF Fit, Forms
    <2>2. QED
      BY <2>1 DEF Change, Validated
  <1>2. Fit([c EXCEPT !.error = e], p, ps)
    BY <1>1 DEF Fit, OneOf, Forms
  <1>3. QED
    BY <1>1, <1>2, Rendered

LEMMA InitCoverInv == CoverInit => CoverInv
  <1> SUFFICES ASSUME CoverInit PROVE CoverInv
    OBVIOUS
  <1>1. cover \in Forms /\ ~cover.error /\ cover.file = None /\ cover.upload = None
    BY DEF CoverInit, NewForm, Forms, Files
  <1>2. Fit(cover, pane, picks)
    BY <1>1, NewPaneFits DEF CoverInit, Fit, OneOf
  <1>3. QED
    BY <1>2 DEF CoverInit, CoverInv

\* Nothing but the form, nothing but the pane: what stays fit.
LEMMA FormLemma ==
  ASSUME CoverInv
  PROVE  /\ cover \in Forms /\ pane \in Panes /\ Fit(cover, pane, picks)
         /\ pane.tab \in Tabs
         /\ None \notin Uploads /\ None \notin Pictures /\ None \notin Images
  BY CoverAssumption DEF CoverInv, Fit, Panes

LEMMA DialogSteps ==
  ASSUME CoverInv,
         Open \/ CancelForm \/ Expand \/ (\E tab \in Tabs : ShowTab(tab))
  PROVE  CoverInv'
  <1>0. CoverInv /\ cover \in Forms /\ pane \in Panes /\ Fit(cover, pane, picks)
        /\ kind \in {"form", "modal", "avatar"} /\ sending \in BOOLEAN
        /\ crops \subseteq Pictures /\ (kind # "avatar" => crops = {})
    BY FormLemma DEF CoverInv
  <1>1. CASE Open
    <2> DEFINE new == [NewForm EXCEPT !.open = TRUE]
    <2>1. new \in Forms /\ ~new.error /\ new.file = None /\ new.upload = None
      BY DEF NewForm, Forms, Files
    <2>2. NewPane = pane
      BY <1>1 DEF Open, CoverInv, Visible
    <2>3. Fit(new, NewPane, picks)
      BY <1>0, <2>1, <2>2, NewPaneFits DEF Fit, OneOf
    <2>4. Render(new, NewPane, picks, removals) /\ UNCHANGED <<kind, crops, sending>>
      BY <1>1 DEF Open
    <2> HIDE DEF new
    <2>5. QED
      BY <1>0, <2>3, <2>4, Rendered
  <1>2. CASE CancelForm
    <2> DEFINE c == [cover EXCEPT !.open = FALSE]
    <2>1. Fit(c, pane, picks)
      BY <1>0 DEF Fit, OneOf, Forms
    <2>2. Render(c, pane, picks, removals) /\ UNCHANGED <<kind, crops, sending>>
      BY <1>2 DEF CancelForm
    <2> HIDE DEF c
    <2>3. QED
      BY <1>0, <2>1, <2>2, Rendered
  <1>3. CASE Expand
    <2> DEFINE c == [cover EXCEPT !.expanded = ~@]
    <2>1. Fit(c, pane, picks)
      BY <1>0 DEF Fit, OneOf, Forms
    <2>2. Render(c, pane, picks, removals) /\ UNCHANGED <<kind, crops, sending>>
      BY <1>3 DEF Expand
    <2> HIDE DEF c
    <2>3. QED
      BY <1>0, <2>1, <2>2, Rendered
  <1>4. ASSUME NEW tab \in Tabs, ShowTab(tab) PROVE CoverInv'
    <2> DEFINE p == [pane EXCEPT !.tab = tab, !.target = None]
               rs == {[r EXCEPT !.by = IF @ = "picker" THEN "pane" ELSE @] : r \in removals}
    <2>1. Fit(cover, p, picks)
      BY <1>0 DEF Fit, OneOf, Panes
    <2>2. Render(cover, p, picks, rs) /\ UNCHANGED <<kind, crops, sending>>
      BY <1>4 DEF ShowTab
    <2> HIDE DEF p, rs
    <2>3. QED
      BY <1>0, <2>1, <2>2, Rendered
  <1>5. QED
    BY <1>1, <1>2, <1>3, <1>4

\* While no download is the pane's there is none at all, unless one was hidden.
LEMMA Idle ==
  ASSUME CoverInv, ~pane.picking
  PROVE  (\A d \in picks : ~d.live) /\ (hidden \/ picks = {})
  BY DEF CoverInv, Fit, Picks

LEMMA SelectStep ==
  ASSUME CoverInv, NEW u \in Uploads, SelectUpload(u)
  PROVE  CoverInv'
  <1>0. CoverInv /\ cover \in Forms /\ pane \in Panes /\ Fit(cover, pane, picks)
        /\ sending \in BOOLEAN /\ crops \subseteq Pictures /\ (kind # "avatar" => crops = {})
    BY FormLemma DEF CoverInv
  <1>1. hidden \/ picks = {}
    BY Idle DEF SelectUpload
  <1>2. kind' = kind /\ crops' = crops /\ sending' = sending
    BY DEF SelectUpload
  <1>3. CASE cover.upload = u
    <2> DEFINE c == [cover EXCEPT !.upload = None]
    <2>1. Fit(c, pane, picks)
      BY <1>0 DEF Fit, OneOf, Forms
    <2>2. Change(c, pane, picks, removals)
      BY <1>3 DEF SelectUpload
    <2> HIDE DEF c
    <2>3. QED
      BY <1>0, <1>2, <2>1, <2>2, Changed
  <1>4. CASE cover.upload # u
    <2> DEFINE c == [cover EXCEPT !.file = None, !.upload = u]
               p == [pane EXCEPT !.stock = None]
    <2>1. Fit(c, p, picks)
      BY <1>0, <1>1 DEF Fit, OneOf, Forms, Panes, Files
    <2>2. Change(c, p, picks, removals)
      BY <1>4 DEF SelectUpload
    <2> HIDE DEF c, p
    <2>3. QED
      BY <1>0, <1>2, <2>1, <2>2, Changed
  <1>5. QED
    BY <1>3, <1>4

LEMMA FileSteps ==
  ASSUME CoverInv, (\E f \in Pictures : ChooseFile(f)) \/ RemoveFile
  PROVE  CoverInv'
  <1>0. CoverInv /\ cover \in Forms /\ pane \in Panes /\ Fit(cover, pane, picks)
        /\ sending \in BOOLEAN /\ crops \subseteq Pictures /\ (kind # "avatar" => crops = {})
    BY FormLemma DEF CoverInv
  <1>1. ASSUME NEW f \in Pictures, ChooseFile(f) PROVE CoverInv'
    <2> DEFINE c == [cover EXCEPT !.upload = None]
               p == [pane EXCEPT !.stock = None]
    <2>1. f # None
      BY FormLemma
    <2>2. kind' = kind /\ crops' = crops /\ sending' = sending
      BY <1>1 DEF ChooseFile
    <2>3. Fit(c, p, picks) /\ c \in Forms /\ p \in Panes
      BY <1>0 DEF Fit, OneOf, Forms, Panes
    <2>4. CASE kind = "avatar"
      <3> DEFINE q == [p EXCEPT !.crop = f, !.step = "loading"]
      <3>1. Fit(c, q, picks)
        BY <2>1, <2>3, <2>4 DEF Fit, OneOf, Panes
      <3>2. Change(c, q, picks, removals)
        BY <1>1, <2>4 DEF ChooseFile
      <3> HIDE DEF c, q
      <3>3. QED
        BY <1>0, <2>2, <3>1, <3>2, Changed
    <2>5. CASE kind # "avatar"
      <3> DEFINE d == [c EXCEPT !.file = f]
      <3>1. Fit(d, p, picks)
        BY <2>3, <2>5 DEF Fit, OneOf, Forms, Panes, Files
      <3>2. Change(d, p, picks, removals)
        BY <1>1, <2>5 DEF ChooseFile
      <3> HIDE DEF d, p
      <3>3. QED
        BY <1>0, <2>2, <3>1, <3>2, Changed
    <2>6. QED
      BY <2>4, <2>5
  <1>2. CASE RemoveFile
    <2> DEFINE c == [cover EXCEPT !.file = None, !.upload = None]
               p == [pane EXCEPT !.stock = None]
    <2>1. kind' = kind /\ crops' = crops /\ sending' = sending
      BY <1>2 DEF RemoveFile
    <2>2. Fit(c, p, picks)
      BY <1>0 DEF Fit, OneOf, Forms, Panes, Files
    <2>3. Change(c, p, picks, removals)
      BY <1>2 DEF RemoveFile
    <2> HIDE DEF c, p
    <2>4. QED
      BY <1>0, <2>1, <2>2, <2>3, Changed
  <1>3. QED
    BY <1>1, <1>2

\* A second image cannot be picked while the first is on its way.
LEMMA PickStep ==
  ASSUME CoverInv, NEW i \in Images, PickStock(i)
  PROVE  CoverInv'
  <1>0. CoverInv /\ cover \in Forms /\ pane \in Panes /\ Fit(cover, pane, picks)
        /\ sending \in BOOLEAN /\ crops \subseteq Pictures /\ (kind # "avatar" => crops = {})
    BY FormLemma DEF CoverInv
  <1>1. kind' = kind /\ crops' = crops /\ sending' = sending
    BY DEF PickStock
  <1>2. kind # "avatar"
    <2>1. pane.tab = "stock" /\ pane.tab \in Tabs
      BY FormLemma DEF PickStock, Here
    <2>2. QED
      BY <2>1 DEF Tabs
  <1>3. (\A d \in picks : ~d.live) /\ (hidden \/ picks = {})
    BY Idle DEF PickStock
  <1> DEFINE taken == [pane EXCEPT !.stock = None]
  <1>4. taken \in Panes /\ taken.stock = None /\ taken.picking = pane.picking
        /\ taken.crop = pane.crop /\ taken.step = pane.step
    BY <1>0 DEF Panes
  <1>5. CASE Change([cover EXCEPT !.file = None], taken, picks, removals)
    <2> DEFINE c == [cover EXCEPT !.file = None]
    <2>1. c \in Forms /\ c.file = None /\ c.upload = cover.upload /\ c.error = cover.error
          /\ c.submitted = cover.submitted /\ c.open = cover.open
      BY <1>0 DEF Forms, Files
    <2> HIDE DEF c, taken
    <2>2. Fit(c, taken, picks)
      BY <1>0, <1>2, <1>4, <2>1 DEF Fit, OneOf
    <2>3. Change(c, taken, picks, removals)
      BY <1>5 DEF c
    <2>4. QED
      BY <1>0, <1>1, <2>2, <2>3, Changed
  <1>6. CASE Touch(taken)
    <2> HIDE DEF taken
    <2>1. Fit(cover, taken, picks)
      BY <1>0, <1>2, <1>4 DEF Fit, OneOf
    <2>2. QED
      BY <1>0, <1>1, <1>6, <2>1, Rendered DEF Touch
  <1>7. CASE Change([cover EXCEPT !.upload = None], [pane EXCEPT !.picking = TRUE],
                    picks \union {[image |-> i, live |-> TRUE]}, removals)
    <2> DEFINE c == [cover EXCEPT !.upload = None]
               p == [pane EXCEPT !.picking = TRUE]
               ps == picks \union {[image |-> i, live |-> TRUE]}
    <2>1. c \in Forms /\ c.file = cover.file /\ c.upload = None /\ c.error = cover.error
          /\ c.submitted = cover.submitted /\ c.open = cover.open
      BY <1>0 DEF Forms
    <2>2. p \in Panes /\ p.stock = pane.stock /\ p.picking
          /\ p.crop = pane.crop /\ p.step = pane.step
      BY <1>0 DEF Panes
    <2>3. ps \subseteq Picks /\ (\A d, e \in ps : d.live /\ e.live => d = e)
          /\ (\E d \in ps : d.live) /\ (~hidden => \A d \in ps : d.live)
      <3> DEFINE new == [image |-> i, live |-> TRUE]
      <3>1. new \in Picks /\ new.live
        BY DEF Picks
      <3>2. picks \subseteq Picks
        BY <1>0 DEF Fit
      <3>3. ps = picks \union {new}
        OBVIOUS
      <3> HIDE DEF new, ps
      <3>4. QED
        BY <1>3, <3>1, <3>2, <3>3
    <2> HIDE DEF c, p, ps
    <2>a. c.open /\ ~hidden => OneOf(c, p)
      BY <1>0, <2>1, <2>2 DEF Fit, OneOf
    <2>b. (c.error => c.submitted \/ kind = "modal") /\ (p.crop = None <=> p.step = "none")
          /\ (kind # "avatar" => p.crop = None)
      BY <1>0, <2>1, <2>2 DEF Fit
    <2>c. p.picking <=> \E d \in ps : d.live
      BY <2>2, <2>3
    <2>4. Fit(c, p, ps)
      BY <1>2, <2>1, <2>2, <2>3, <2>a, <2>b, <2>c DEF Fit
    <2>5. Change(c, p, ps, removals)
      BY <1>7 DEF c, p, ps
    <2>6. QED
      BY <1>0, <1>1, <2>4, <2>5, Changed
  <1>8. QED
    BY <1>5, <1>6, <1>7 DEF PickStock

\* A download that lands, or fails, is one of a form without an avatar; that it
\* was hidden is known, and if it is the pane's it was the only one.
LEMMA PickOf ==
  ASSUME CoverInv, NEW d \in picks
  PROVE  /\ kind # "avatar" /\ d.image \in Images /\ d.live \in BOOLEAN
         /\ d.live \/ hidden
         /\ hidden \/ cover.upload = None
         /\ picks \ {d} \subseteq Picks
         /\ \A e, f \in picks \ {d} : e.live /\ f.live => e = f
         /\ ~hidden => \A e \in picks \ {d} : e.live
         /\ d.live => \A e \in picks \ {d} : ~e.live
         /\ ~d.live => ((\E e \in picks \ {d} : e.live) <=> pane.picking)
  <1>1. d \in Picks
    BY DEF CoverInv, Fit
  <1>2. QED
    BY <1>1 DEF CoverInv, Fit, Picks

LEMMA LandingSteps ==
  ASSUME CoverInv, NEW d \in picks, PickLands(d) \/ PickFails(d)
  PROVE  CoverInv'
  <1>0. CoverInv /\ cover \in Forms /\ pane \in Panes /\ Fit(cover, pane, picks)
        /\ sending \in BOOLEAN /\ crops \subseteq Pictures /\ (kind # "avatar" => crops = {})
    BY FormLemma DEF CoverInv
  <1>1. kind' = kind /\ crops' = crops /\ sending' = sending
    BY DEF PickLands, PickFails
  <1>2. PICK f \in Images \union {None} :
          /\ f # None => f = d.image
          /\ Change(WithFile(cover, f),
                    IF d.live THEN [pane EXCEPT !.stock = f, !.picking = FALSE] ELSE pane,
                    picks \ {d}, removals)
    BY PickOf DEF PickLands, PickFails
  <1> DEFINE c == WithFile(cover, f)
             p == IF d.live THEN [pane EXCEPT !.stock = f, !.picking = FALSE] ELSE pane
             ps == picks \ {d}
  <1>3. /\ c \in Forms /\ c.file = f /\ c.upload = cover.upload /\ c.error = cover.error
        /\ c.submitted = cover.submitted /\ c.open = cover.open
    BY <1>0, PickOf DEF WithFile, Forms, Files
  <1>4. /\ p \in Panes /\ p.crop = pane.crop /\ p.step = pane.step
        /\ p.picking = IF d.live THEN FALSE ELSE pane.picking
        /\ d.live => p.stock = f
    BY <1>0 DEF Panes
  <1>5. /\ ps \subseteq Picks /\ (\A e, g \in ps : e.live /\ g.live => e = g)
        /\ (~hidden => \A e \in ps : e.live)
        /\ (p.picking <=> \E e \in ps : e.live)
    BY <1>4, PickOf
  <1>6. c.open /\ ~hidden => OneOf(c, p)
    BY <1>3, <1>4, PickOf DEF OneOf
  <1> HIDE DEF c, p, ps
  <1>7. Fit(c, p, ps)
    BY <1>0, <1>3, <1>4, <1>5, <1>6, PickOf DEF Fit
  <1>8. Change(c, p, ps, removals)
    BY <1>2 DEF c, p, ps
  <1>9. QED
    BY <1>0, <1>1, <1>7, <1>8, Changed

LEMMA CropSteps ==
  ASSUME CoverInv, AdjustCrop \/ CropLoads \/ ConfirmCrop \/ CancelCrop
  PROVE  CoverInv'
  <1>0. CoverInv /\ cover \in Forms /\ pane \in Panes /\ Fit(cover, pane, picks)
        /\ sending \in BOOLEAN /\ crops \subseteq Pictures /\ (kind # "avatar" => crops = {})
    BY FormLemma DEF CoverInv
  <1>1. pane.crop # None <=> pane.step # "none"
    BY <1>0 DEF Fit
  <1>2. pane.crop # None => kind = "avatar" /\ pane.crop \in Pictures
    BY <1>0 DEF Fit, Panes
  \* Whatever becomes of the crop, the pane of an avatar has no other source.
  <1>3. ASSUME NEW p \in Panes, kind = "avatar", p.stock = None, p.picking = pane.picking,
               p.crop = None <=> p.step = "none"
        PROVE  Fit(cover, p, picks)
    BY <1>0, <1>3 DEF Fit, OneOf
  <1>4. ASSUME NEW p \in Panes, Fit(cover, p, picks), Touch(p), kind' = kind,
               sending' = sending, crops' \subseteq Pictures, kind # "avatar" => crops' = {}
        PROVE  CoverInv'
    BY <1>0, <1>4, Rendered DEF Touch
  <1>5. CASE AdjustCrop
    <2> DEFINE p == [pane EXCEPT !.crop = cover.file, !.step = "loading"]
    <2>1. kind = "avatar" /\ cover.file \in Pictures /\ cover.file # None
          /\ pane.stock = None
      BY <1>0, <1>5 DEF AdjustCrop, Fit
    <2>2. p \in Panes /\ p.stock = None /\ p.picking = pane.picking
          /\ p.crop # None /\ p.step # "none"
      BY <1>0, <2>1 DEF Panes
    <2>3. Touch(p) /\ UNCHANGED <<kind, crops, sending>>
      BY <1>5 DEF AdjustCrop
    <2> HIDE DEF p
    <2>4. QED
      BY <1>0, <1>3, <1>4, <2>1, <2>2, <2>3
  <1>6. CASE CropLoads
    <2>1. PICK step \in {"ready", "error"} : Touch([pane EXCEPT !.step = step])
      BY <1>6 DEF CropLoads
    <2> DEFINE p == [pane EXCEPT !.step = step]
    <2>2. kind = "avatar" /\ pane.stock = None
      BY <1>0, <1>1, <1>2, <1>6 DEF CropLoads, Fit
    <2>3. p \in Panes /\ p.stock = None /\ p.picking = pane.picking
          /\ p.crop # None /\ p.step # "none"
      BY <1>0, <1>1, <1>6, <2>2 DEF Panes, CropLoads
    <2>4. Touch(p) /\ UNCHANGED <<kind, crops, sending>>
      BY <1>6, <2>1 DEF CropLoads
    <2> HIDE DEF p
    <2>5. QED
      BY <1>0, <1>3, <1>4, <2>2, <2>3, <2>4
  <1>7. CASE ConfirmCrop
    <2> DEFINE p == [pane EXCEPT !.step = "saving"]
    <2>1. kind = "avatar" /\ pane.stock = None /\ pane.crop \in Pictures
      BY <1>0, <1>1, <1>2, <1>7 DEF ConfirmCrop, Fit
    <2>2. p \in Panes /\ p.stock = None /\ p.picking = pane.picking
          /\ p.crop # None /\ p.step # "none"
      BY <1>0, <1>1, <1>7, <2>1 DEF Panes, ConfirmCrop
    <2>3. Touch(p) /\ crops' \subseteq Pictures /\ UNCHANGED <<kind, sending>>
      BY <1>0, <1>7, <2>1 DEF ConfirmCrop
    <2> HIDE DEF p
    <2>4. QED
      BY <1>3, <1>4, <2>1, <2>2, <2>3
  <1>8. CASE CancelCrop
    <2> DEFINE p == [pane EXCEPT !.crop = None, !.step = "none",
                            !.stock = IF cover.file = None THEN None ELSE @]
    <2>1. kind = "avatar" /\ pane.stock = None
      BY <1>0, <1>1, <1>2, <1>8 DEF CancelCrop, Fit
    <2>2. p \in Panes /\ p.stock = None /\ p.picking = pane.picking
          /\ p.crop = None /\ p.step = "none"
      BY <1>0, <2>1 DEF Panes
    <2>3. Touch(p) /\ UNCHANGED <<kind, crops, sending>>
      BY <1>8 DEF CancelCrop
    <2> HIDE DEF p
    <2>4. QED
      BY <1>0, <1>3, <1>4, <2>1, <2>2, <2>3
  <1>9. QED
    BY <1>5, <1>6, <1>7, <1>8

LEMMA DrawnStep ==
  ASSUME CoverInv, NEW f \in crops, CropDrawn(f)
  PROVE  CoverInv'
  <1>0. CoverInv /\ cover \in Forms /\ pane \in Panes /\ Fit(cover, pane, picks)
        /\ sending \in BOOLEAN /\ crops \subseteq Pictures
    BY FormLemma DEF CoverInv
  <1>1. kind = "avatar" /\ f \in Pictures /\ f # None /\ picks = {} /\ pane.stock = None
    BY <1>0, FormLemma DEF CoverInv, Fit
  <1>2. kind' = kind /\ sending' = sending /\ crops' \subseteq Pictures
    BY <1>0 DEF CropDrawn
  <1>3. CASE Change(WithFile(cover, f), [pane EXCEPT !.crop = None, !.step = "none"],
                    picks, removals)
    <2> DEFINE c == WithFile(cover, f)
               p == [pane EXCEPT !.crop = None, !.step = "none"]
    <2>1. c \in Forms /\ c.file = f /\ c.upload = None /\ c.error = cover.error
          /\ c.submitted = cover.submitted
      BY <1>0, <1>1 DEF WithFile, Forms, Files
    <2>2. p \in Panes /\ p.stock = None /\ p.picking = pane.picking
          /\ p.crop = None /\ p.step = "none"
      BY <1>0, <1>1 DEF Panes
    <2> HIDE DEF c, p
    <2>3. Fit(c, p, picks)
      BY <1>0, <1>1, <2>1, <2>2 DEF Fit, OneOf
    <2>4. Change(c, p, picks, removals)
      BY <1>3 DEF c, p
    <2>5. QED
      BY <1>0, <1>1, <1>2, <2>3, <2>4, Changed
  <1>4. CASE Touch([pane EXCEPT !.step = IF pane.crop = f /\ @ = "saving" THEN "error" ELSE @])
    <2> DEFINE p == [pane EXCEPT !.step = IF pane.crop = f /\ @ = "saving" THEN "error" ELSE @]
    <2>1. p \in Panes /\ p.stock = None /\ p.picking = pane.picking
          /\ p.crop = pane.crop /\ (p.step = "none" <=> pane.step = "none")
      BY <1>0, <1>1 DEF Panes
    <2> HIDE DEF p
    <2>2. Fit(cover, p, picks)
      BY <1>0, <1>1, <2>1 DEF Fit, OneOf
    <2>3. Touch(p)
      BY <1>4 DEF p
    <2>4. QED
      BY <1>0, <1>1, <1>2, <2>2, <2>3, Rendered DEF Touch
  <1>5. QED
    BY <1>3, <1>4 DEF CropDrawn

\* The dialog over the library may take the selected upload away, no more.
LEMMA RemovalSteps ==
  ASSUME CoverInv,
         (\E u \in Uploads : AskRemoval(u)) \/ CancelRemoval \/ RemoveUpload
           \/ (\E r \in removals : RemovalLands(r))
  PROVE  CoverInv'
  <1>0. CoverInv /\ cover \in Forms /\ pane \in Panes /\ Fit(cover, pane, picks)
        /\ sending \in BOOLEAN /\ crops \subseteq Pictures /\ (kind # "avatar" => crops = {})
    BY FormLemma DEF CoverInv
  <1>1. kind' = kind /\ crops' = crops /\ sending' = sending
    BY DEF AskRemoval, CancelRemoval, RemoveUpload, RemovalLands
  <1>2. ASSUME NEW t \in Uploads \union {None} PROVE Fit(cover, [pane EXCEPT !.target = t], picks)
    BY <1>0 DEF Fit, OneOf, Panes
  <1>3. ASSUME NEW u \in Uploads, AskRemoval(u) PROVE CoverInv'
    BY <1>0, <1>1, <1>2, <1>3, Rendered DEF AskRemoval, Touch
  <1>4. CASE CancelRemoval
    BY <1>0, <1>1, <1>2, <1>4, Rendered DEF CancelRemoval, Touch
  <1>5. CASE RemoveUpload
    <2>1. PICK rs : Render(cover, pane, picks, rs)
      BY <1>5 DEF RemoveUpload
    <2>2. QED
      BY <1>0, <1>1, <2>1, Rendered
  <1>6. ASSUME NEW r \in removals, RemovalLands(r) PROVE CoverInv'
    <2>1. PICK u \in {None, cover.upload}, t \in {None, pane.target} :
            Change([cover EXCEPT !.upload = u], [pane EXCEPT !.target = t],
                   picks, removals \ {r})
      BY <1>6 DEF RemovalLands
    <2> DEFINE c == [cover EXCEPT !.upload = u]
               p == [pane EXCEPT !.target = t]
    <2>2. c \in Forms /\ c.file = cover.file /\ c.upload \in {None, cover.upload}
          /\ c.error = cover.error /\ c.submitted = cover.submitted /\ c.open = cover.open
      BY <1>0 DEF Forms
    <2>3. p \in Panes /\ p.stock = pane.stock /\ p.picking = pane.picking
          /\ p.crop = pane.crop /\ p.step = pane.step
      BY <1>0 DEF Panes
    <2>4. Change(c, p, picks, removals \ {r})
      BY <2>1
    <2> HIDE DEF c, p
    <2>5. Fit(c, p, picks)
      BY <1>0, <2>2, <2>3 DEF Fit, OneOf
    <2>6. QED
      BY <1>0, <1>1, <2>4, <2>5, Changed
  <1>7. QED
    BY <1>3, <1>4, <1>5, <1>6

LEMMA SubmitSteps ==
  ASSUME CoverInv, RemoveAvatar \/ Submit \/ SubmitLands
  PROVE  CoverInv'
  <1>0. CoverInv /\ cover \in Forms /\ pane \in Panes /\ Fit(cover, pane, picks)
        /\ sending \in BOOLEAN /\ crops \subseteq Pictures /\ (kind # "avatar" => crops = {})
    BY FormLemma DEF CoverInv
  <1>1. kind' = kind /\ crops' = crops /\ sending' \in BOOLEAN
    BY <1>0 DEF RemoveAvatar, Submit, SubmitLands
  <1>2. CASE RemoveAvatar
    <2>1. PICK c \in Forms :
            /\ c.file \in {None, cover.file} /\ c.upload \in {None, cover.upload}
            /\ c.error = cover.error /\ c.submitted = cover.submitted /\ c.open = cover.open
            /\ Change(c, pane, picks, removals)
      <3> DEFINE b == [cover EXCEPT !.remove = ~@]
                 c == IF b.remove THEN [b EXCEPT !.file = None, !.upload = None] ELSE b
      <3>1. b \in Forms /\ b.file = cover.file /\ b.upload = cover.upload
            /\ b.error = cover.error /\ b.submitted = cover.submitted /\ b.open = cover.open
        BY <1>0 DEF Forms
      <3>2. Change(c, pane, picks, removals)
        BY <1>2 DEF RemoveAvatar
      <3> HIDE DEF b
      <3>3. c \in Forms /\ c.file \in {None, cover.file} /\ c.upload \in {None, cover.upload}
            /\ c.error = cover.error /\ c.submitted = cover.submitted /\ c.open = cover.open
        BY <3>1 DEF Forms, Files
      <3> HIDE DEF c
      <3>4. QED
        BY <3>2, <3>3
    <2>2. kind = "avatar"
      BY <1>2 DEF RemoveAvatar
    <2>3. Fit(c, pane, picks)
      BY <1>0, <2>1, <2>2 DEF Fit, OneOf
    <2>4. QED
      BY <1>0, <1>1, <2>1, <2>3, Changed
  \* Whether the form is open, submitted or in error concerns no source.
  <1>3. ASSUME NEW c \in Forms, c.file = cover.file, c.upload = cover.upload,
               c.open => cover.open, c.error => c.submitted \/ kind = "modal"
        PROVE  Fit(c, pane, picks)
    BY <1>0, <1>3 DEF Fit, OneOf
  <1>4. CASE Submit
    <2>1. PICK error \in BOOLEAN :
            Render([cover EXCEPT !.submitted = TRUE, !.error = error], pane, picks, removals)
      BY <1>4 DEF Submit
    <2>2. Fit([cover EXCEPT !.submitted = TRUE, !.error = error], pane, picks)
      BY <1>0, <1>3 DEF Forms
    <2>3. QED
      BY <1>0, <1>1, <2>1, <2>2, Rendered
  <1>5. CASE SubmitLands
    <2>1. CASE Render([cover EXCEPT !.open = FALSE], pane, picks, removals)
      <3>1. Fit([cover EXCEPT !.open = FALSE], pane, picks)
        <4>1. cover.error => cover.submitted \/ kind = "modal"
          BY <1>0 DEF Fit
        <4>2. QED
          BY <1>0, <1>3, <4>1 DEF Forms
      <3>2. QED
        BY <1>0, <1>1, <2>1, <3>1, Rendered
    <2>2. ASSUME NEW e \in BOOLEAN, e => cover.submitted \/ kind = "modal",
                 Render([cover EXCEPT !.error = @ \/ e], pane, picks, removals)
          PROVE  CoverInv'
      <3>1. Fit([cover EXCEPT !.error = @ \/ e], pane, picks)
        <4>1. cover.error => cover.submitted \/ kind = "modal"
          BY <1>0 DEF Fit
        <4>2. QED
          BY <1>0, <1>3, <2>2, <4>1 DEF Forms
      <3>2. QED
        BY <1>0, <1>1, <2>2, <3>1, Rendered
    <2>3. QED
      BY <1>5, <2>1, <2>2 DEF SubmitLands
  <1>6. QED
    BY <1>2, <1>4, <1>5

LEMMA CoverStep == CoverInv /\ [CoverNext]_coverVars => CoverInv'
  <1> SUFFICES ASSUME CoverInv, [CoverNext]_coverVars PROVE CoverInv'
    OBVIOUS
  <1>1. CASE UNCHANGED coverVars
    BY <1>1 DEF coverVars, CoverInv, Fit, OneOf, Visible, Panes, Tabs
  <1>2. CASE CoverNext
    BY <1>2, DialogSteps, SelectStep, FileSteps, PickStep, LandingSteps, CropSteps,
       DrawnStep, RemovalSteps, SubmitSteps DEF CoverNext
  <1>3. QED
    BY <1>1, <1>2

LEMMA CoverInvariant == CoverSpec => []CoverInv
  BY InitCoverInv, CoverStep, PTL DEF CoverSpec

\* The state is well typed, and the pane shows that a download is its own.
THEOREM CoverTypes == CoverSpec => []CoverTypeOK
  <1>1. CoverInv => CoverTypeOK
    <2> SUFFICES ASSUME CoverInv PROVE CoverTypeOK
      OBVIOUS
    <2>1. cover \in Forms /\ pane \in Panes /\ picks \subseteq Picks /\ Fit(cover, pane, picks)
      BY DEF CoverInv, Fit
    <2>2. QED
      BY <2>1 DEF CoverInv, CoverTypeOK, Fit, Forms, Panes, Picks, Files
  <1>2. QED
    BY <1>1, CoverInvariant, PTL

\* One source of a picture, whatever lands while the user goes on choosing.
THEOREM SingleSource == CoverSpec => []OneSource
  <1>1. CoverInv => OneSource
    BY DEF CoverInv, Fit, OneOf, OneSource
  <1>2. QED
    BY <1>1, CoverInvariant, PTL

-----------------------------------------------------------------------------
(* The three together: each is as it is alone.                             *)

LEMMA Alone == Spec => ListSpec /\ ResultsSpec /\ CoverSpec
  <1>1. Init => ListInit /\ ResultsInit /\ CoverInit
    BY DEF Init
  <1>2. [Next]_<<part, listVars, resultsVars, coverVars>> =>
          [ListNext]_listVars /\ [ResultsNext]_resultsVars /\ [CoverNext]_coverVars
    BY DEF Next
  <1>3. QED
    BY <1>1, <1>2, PTL DEF Spec, ListSpec, ResultsSpec, CoverSpec

\* The states of the three pages are well formed.
THEOREM ListsAreTyped == Spec => []TypeOK
  <1>1. ListTypeOK /\ ResultsTypeOK /\ CoverTypeOK => TypeOK
    BY DEF TypeOK
  <1>2. QED
    BY <1>1, Alone, PageTyping, ResultsTypes, CoverTypes, PTL

\* No filter, and no scan that goes on, leaves a list on a page past its end,
\* for all sizes of a page and all that the filters keep.
THEOREM NoPagePastTheEnd == Spec => []PagesExist
  <1>1. FilterFromTheStart /\ NoEmptyPage => PagesExist
    BY DEF PagesExist
  <1>2. QED
    BY <1>1, Alone, FromTheStart, NoListEmpty, PTL
=============================================================================
