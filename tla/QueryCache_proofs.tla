--------------------------- MODULE QueryCache_proofs ---------------------------
(***************************************************************************)
(* Theorems about QueryCache, for every number of mutations.               *)
(***************************************************************************)
EXTENDS QueryCache, QueueLemmas

-----------------------------------------------------------------------------
(* Prefixes of keys.                                                       *)

LEMMA PrefixOf ==
  ASSUME NEW S, NEW s \in Seq(S), NEW t \in Seq(S), Len(s) <= Len(t),
         \A i \in 1..Len(s) : s[i] = t[i]
  PROVE  IsPrefix(s, t)
  BY DEF IsPrefix

LEMMA PrefixFacts ==
  ASSUME NEW S, NEW s \in Seq(S), NEW t \in Seq(S), IsPrefix(s, t)
  PROVE  /\ Len(s) \in Nat /\ Len(t) \in Nat /\ Len(s) <= Len(t)
         /\ \A i \in 1..Len(s) : s[i] = t[i]
  <1>1. /\ Len(s) \in Nat /\ Len(t) \in Nat /\ Len(s) <= Len(t)
        /\ SubSeq(s, 1, Len(s)) = SubSeq(t, 1, Len(s))
    BY LenProperties DEF IsPrefix
  <1>2. ASSUME NEW i \in 1..Len(s) PROVE s[i] = t[i]
    <2>1. i \in Nat /\ i \in 1..Len(t)
      BY <1>1
    <2>2. \A j \in 1..Len(s) : s[j] \in S /\ t[j] \in S
      BY <1>1, ElementOfSeq
    <2>3. /\ \A j \in 1..Len(s) - 1 + 1 : SubSeq(s, 1, Len(s))[j] = s[1 + j - 1]
          /\ \A j \in 1..Len(s) - 1 + 1 : SubSeq(t, 1, Len(s))[j] = t[1 + j - 1]
      BY <1>1, <2>2, SubSeqProperties
    <2>4. i \in 1..Len(s) - 1 + 1 /\ 1 + i - 1 = i
      BY <1>1, <2>1
    <2>5. QED
      BY <1>1, <2>3, <2>4
  <1>3. QED
    BY <1>1, <1>2

LEMMA PrefixSelf ==
  ASSUME NEW S, NEW s \in Seq(S)
  PROVE  IsPrefix(s, s)
  <1>1. Len(s) \in Nat
    BY LenProperties
  <1>2. QED
    BY <1>1 DEF IsPrefix

\* A key is a prefix of what it is continued with.
LEMMA PrefixThen ==
  ASSUME NEW S, NEW s \in Seq(S), NEW t \in Seq(S), NEW u \in Seq(S), IsPrefix(s, t)
  PROVE  IsPrefix(s, t \o u)
  <1>1. /\ Len(s) \in Nat /\ Len(t) \in Nat /\ Len(u) \in Nat /\ Len(s) <= Len(t)
        /\ \A i \in 1..Len(s) : s[i] = t[i]
    BY PrefixFacts, LenProperties
  <1>2. /\ t \o u \in Seq(S) /\ Len(t \o u) = Len(t) + Len(u)
        /\ \A i \in 1 .. Len(t) + Len(u) :
             (t \o u)[i] = IF i <= Len(t) THEN t[i] ELSE u[i - Len(t)]
    BY ConcatProperties
  <1>3. Len(s) <= Len(t \o u)
    BY <1>1, <1>2
  <1>4. \A i \in 1..Len(s) : i \in 1..Len(t) + Len(u) /\ i <= Len(t)
    BY <1>1
  <1>5. \A i \in 1..Len(s) : s[i] = (t \o u)[i]
    BY <1>1, <1>2, <1>4
  <1>6. QED
    BY <1>2, <1>3, <1>5, PrefixOf

\* Keys under the same key keep their order.
LEMMA PrefixUnder ==
  ASSUME NEW S, NEW p \in Seq(S), NEW s \in Seq(S), NEW t \in Seq(S), IsPrefix(s, t)
  PROVE  IsPrefix(p \o s, p \o t)
  <1>1. /\ Len(s) \in Nat /\ Len(t) \in Nat /\ Len(p) \in Nat /\ Len(s) <= Len(t)
        /\ \A i \in 1..Len(s) : s[i] = t[i]
    BY PrefixFacts, LenProperties
  <1>2. /\ p \o s \in Seq(S) /\ Len(p \o s) = Len(p) + Len(s)
        /\ \A i \in 1 .. Len(p) + Len(s) :
             (p \o s)[i] = IF i <= Len(p) THEN p[i] ELSE s[i - Len(p)]
    BY ConcatProperties
  <1>3. /\ p \o t \in Seq(S) /\ Len(p \o t) = Len(p) + Len(t)
        /\ \A i \in 1 .. Len(p) + Len(t) :
             (p \o t)[i] = IF i <= Len(p) THEN p[i] ELSE t[i - Len(p)]
    BY ConcatProperties
  <1>4. Len(p \o s) <= Len(p \o t)
    BY <1>1, <1>2, <1>3
  <1>5. ASSUME NEW i \in 1..Len(p \o s) PROVE (p \o s)[i] = (p \o t)[i]
    <2>1. /\ i \in 1 .. Len(p) + Len(s) /\ i \in 1 .. Len(p) + Len(t)
          /\ i > Len(p) => i - Len(p) \in 1..Len(s)
      BY <1>1, <1>2
    <2>2. QED
      BY <1>1, <1>2, <1>3, <2>1
  <1>6. QED
    BY <1>2, <1>3, <1>4, <1>5, PrefixOf

Word == {"me", "admin", "users", "page", "cover-uploads", "systems", "owned", "s", "catalog",
         "attacks", "remediations", "imports", "i", "notifications", "unread-count",
         "projects", "u", "p", "dashboard", "manual-proxy", "routes", "dispatches", "d",
         "attack-acknowledgment", "compare", "d1", "d2", "remediation-history", "sidebar"}

LEMMA KeysAreSeqs ==
  /\ Project \in Seq(Word) /\ System \in Seq(Word)
  /\ System = Project \o <<"systems", "s">>
  /\ \A q \in DOMAIN Key : Key[q] \in Seq(Word)
  <1>1. Project \in Seq(Word)
    BY DEF Project, Word
  <1>2. System \in Seq(Word) /\ System = Project \o <<"systems", "s">>
    <2>1. <<"systems", "s">> \in Seq(Word)
      BY DEF Word
    <2>2. QED
      BY <1>1, <2>1, ConcatProperties DEF System
  <1>3. \A t \in Seq(Word) : Project \o t \in Seq(Word) /\ System \o t \in Seq(Word)
    BY <1>1, <1>2, ConcatProperties
  <1>4. /\ <<"dashboard">> \in Seq(Word) /\ <<"systems">> \in Seq(Word)
        /\ <<"manual-proxy", "routes">> \in Seq(Word) /\ <<"dispatches">> \in Seq(Word)
        /\ <<"dispatches", "d", "page">> \in Seq(Word)
        /\ <<"attack-acknowledgment">> \in Seq(Word) /\ <<"attacks", "catalog">> \in Seq(Word)
        /\ <<"compare", "d1", "d2">> \in Seq(Word)
        /\ <<"remediation-history", "page">> \in Seq(Word)
    BY DEF Word
  <1>5. /\ <<"me">> \in Seq(Word) /\ <<"admin", "users", "page">> \in Seq(Word)
        /\ <<"cover-uploads">> \in Seq(Word) /\ <<"systems", "owned">> \in Seq(Word)
        /\ <<"systems", "owned", "s">> \in Seq(Word)
        /\ <<"catalog", "attacks", "page">> \in Seq(Word)
        /\ <<"catalog", "remediations", "page">> \in Seq(Word)
        /\ <<"catalog", "imports", "i">> \in Seq(Word)
        /\ <<"notifications", "page">> \in Seq(Word)
        /\ <<"notifications", "unread-count">> \in Seq(Word)
        /\ <<"projects", "u">> \in Seq(Word) /\ <<"sidebar">> \in Seq(Word)
    BY DEF Word
  <1>6. /\ Key.me \in Seq(Word) /\ Key.adminUsers \in Seq(Word)
        /\ Key.coverUploads \in Seq(Word) /\ Key.ownedSystems \in Seq(Word)
        /\ Key.ownedSystem \in Seq(Word) /\ Key.catalogAttacks \in Seq(Word)
        /\ Key.catalogRemediations \in Seq(Word) /\ Key.catalogImport \in Seq(Word)
        /\ Key.notifications \in Seq(Word) /\ Key.unreadCount \in Seq(Word)
        /\ Key.projects \in Seq(Word) /\ Key.sidebar \in Seq(Word)
    BY <1>5 DEF Key
  <1>7. /\ Key.project \in Seq(Word) /\ Key.projectDashboard \in Seq(Word)
        /\ Key.systems \in Seq(Word) /\ Key.system \in Seq(Word)
        /\ Key.manualProxyRoutes \in Seq(Word) /\ Key.dispatches \in Seq(Word)
        /\ Key.results \in Seq(Word) /\ Key.attackAcknowledgment \in Seq(Word)
        /\ Key.dispatchCatalog \in Seq(Word) /\ Key.dispatchCompare \in Seq(Word)
        /\ Key.remediationHistory \in Seq(Word)
    BY <1>1, <1>2, <1>3, <1>4 DEF Key
  <1>8. DOMAIN Key =
         {"me", "adminUsers", "coverUploads", "ownedSystems", "ownedSystem",
          "catalogAttacks", "catalogRemediations", "catalogImport", "notifications",
          "unreadCount", "projects", "project", "projectDashboard", "systems",
          "system", "manualProxyRoutes", "dispatches", "results",
          "attackAcknowledgment", "dispatchCatalog", "dispatchCompare",
          "remediationHistory", "sidebar"}
    BY DEF Key
  <1>9. \A q \in DOMAIN Key : Key[q] \in Seq(Word)
    BY <1>6, <1>7, <1>8
  <1>10. QED
    BY <1>1, <1>2, <1>9

UnderSystems == {"system", "dispatches", "results", "dispatchCompare", "remediationHistory"}

LEMMA KeyPrefixes ==
  /\ \A q \in DOMAIN Key : IsPrefix(Key[q], Key[q])
  /\ \A q \in UnderSystems \union {"project", "projectDashboard", "systems"} :
       IsPrefix(Project, Key[q])
  /\ \A q \in UnderSystems : IsPrefix(Key.systems, Key[q])
  /\ IsPrefix(Key.dispatches, Key.results)
  /\ IsPrefix(System \o <<"remediation-history">>, Key.remediationHistory)
  /\ IsPrefix(<<"notifications">>, Key.notifications)
  /\ IsPrefix(<<"notifications">>, Key.unreadCount)
  /\ IsPrefix(<<"catalog", "attacks">>, Key.catalogAttacks)
  /\ IsPrefix(<<"catalog", "remediations">>, Key.catalogRemediations)
  /\ IsPrefix(<<"admin", "users">>, Key.adminUsers)
  <1>1. \A q \in DOMAIN Key : IsPrefix(Key[q], Key[q])
    BY KeysAreSeqs, PrefixSelf
  <1> DEFINE Continued == {<<"dispatches">>, <<"dispatches", "d", "page">>,
               <<"compare", "d1", "d2">>, <<"remediation-history", "page">>}
  <1>2. /\ \A t \in Continued : t \in Seq(Word)
        /\ Key.project = Project /\ Key.projectDashboard = Project \o <<"dashboard">>
        /\ Key.systems = Project \o <<"systems">> /\ Key.system = System
        /\ \A q \in UnderSystems \ {"system"} : \E t \in Continued : Key[q] = System \o t
    <2>1. /\ <<"dispatches">> \in Seq(Word) /\ <<"dispatches", "d", "page">> \in Seq(Word)
          /\ <<"compare", "d1", "d2">> \in Seq(Word)
          /\ <<"remediation-history", "page">> \in Seq(Word)
      BY DEF Word
    <2>2. \A t \in Continued : t \in Seq(Word)
      BY <2>1
    <2>3. /\ Key.project = Project /\ Key.projectDashboard = Project \o <<"dashboard">>
          /\ Key.systems = Project \o <<"systems">> /\ Key.system = System
          /\ Key.dispatches = System \o <<"dispatches">>
          /\ Key.results = System \o <<"dispatches", "d", "page">>
          /\ Key.dispatchCompare = System \o <<"compare", "d1", "d2">>
          /\ Key.remediationHistory = System \o <<"remediation-history", "page">>
      BY DEF Key
    <2>4. \A q \in UnderSystems \ {"system"} : \E t \in Continued : Key[q] = System \o t
      BY <2>3 DEF UnderSystems
    <2>5. QED
      BY <2>2, <2>3, <2>4
  <1>3. Project \in Seq(Word) /\ System \in Seq(Word) /\ Key.systems \in Seq(Word)
    BY KeysAreSeqs DEF Key
  <1> HIDE DEF Continued
  <1>4. IsPrefix(Project, Project)
    BY <1>3, PrefixSelf
  <1>5. IsPrefix(Project, System) /\ IsPrefix(Project, Key.systems)
        /\ IsPrefix(Project, Key.projectDashboard)
    <2>1. <<"systems", "s">> \in Seq(Word) /\ <<"systems">> \in Seq(Word)
          /\ <<"dashboard">> \in Seq(Word)
      BY DEF Word
    <2>2. QED
      BY <1>2, <1>3, <1>4, <2>1, KeysAreSeqs, PrefixThen
  <1>6. IsPrefix(Key.systems, System)
    <2>1. <<"systems", "s">> \in Seq(Word) /\ <<"systems">> \in Seq(Word)
      BY DEF Word
    <2>2. IsPrefix(<<"systems">>, <<"systems", "s">>)
      BY DEF IsPrefix
    <2>3. QED
      BY <1>2, <1>3, <2>1, <2>2, KeysAreSeqs, PrefixUnder
  <1>7. \A q \in UnderSystems : IsPrefix(Project, Key[q]) /\ IsPrefix(Key.systems, Key[q])
    <2> SUFFICES ASSUME NEW q \in UnderSystems, q # "system"
                 PROVE  IsPrefix(Project, Key[q]) /\ IsPrefix(Key.systems, Key[q])
      BY <1>2, <1>5, <1>6
    <2>1. PICK t \in Continued : Key[q] = System \o t
      BY <1>2
    <2>2. QED
      BY <1>2, <1>3, <1>5, <1>6, <2>1, PrefixThen
  <1>8. IsPrefix(Key.dispatches, Key.results)
    <2>1. <<"dispatches">> \in Seq(Word) /\ <<"dispatches", "d", "page">> \in Seq(Word)
      BY DEF Word
    <2>2. IsPrefix(<<"dispatches">>, <<"dispatches", "d", "page">>)
      BY DEF IsPrefix
    <2>3. /\ Key.dispatches = System \o <<"dispatches">>
          /\ Key.results = System \o <<"dispatches", "d", "page">>
      BY DEF Key
    <2>4. QED
      BY <1>3, <2>1, <2>2, <2>3, PrefixUnder
  <1>9. IsPrefix(System \o <<"remediation-history">>, Key.remediationHistory)
    <2>1. /\ <<"remediation-history">> \in Seq(Word)
          /\ <<"remediation-history", "page">> \in Seq(Word)
      BY DEF Word
    <2>2. IsPrefix(<<"remediation-history">>, <<"remediation-history", "page">>)
      BY DEF IsPrefix
    <2>3. Key.remediationHistory = System \o <<"remediation-history", "page">>
      BY DEF Key
    <2>4. QED
      BY <1>3, <2>1, <2>2, <2>3, PrefixUnder
  <1>10. /\ IsPrefix(<<"notifications">>, Key.notifications)
         /\ IsPrefix(<<"notifications">>, Key.unreadCount)
    <2>1. /\ IsPrefix(<<"notifications">>, <<"notifications", "page">>)
          /\ IsPrefix(<<"notifications">>, <<"notifications", "unread-count">>)
      BY DEF IsPrefix
    <2>2. QED
      BY <2>1 DEF Key
  <1>11. /\ IsPrefix(<<"catalog", "attacks">>, Key.catalogAttacks)
         /\ IsPrefix(<<"catalog", "remediations">>, Key.catalogRemediations)
         /\ IsPrefix(<<"admin", "users">>, Key.adminUsers)
    <2>1. /\ IsPrefix(<<"catalog", "attacks">>, <<"catalog", "attacks", "page">>)
          /\ IsPrefix(<<"catalog", "remediations">>, <<"catalog", "remediations", "page">>)
          /\ IsPrefix(<<"admin", "users">>, <<"admin", "users", "page">>)
      BY DEF IsPrefix
    <2>2. QED
      BY <2>1 DEF Key
  <1>12. QED
    BY <1>1, <1>2, <1>4, <1>5, <1>7, <1>8, <1>9, <1>10, <1>11

-----------------------------------------------------------------------------
(* Which queries read what.                                                *)

LEMMA Joins ==
  ASSUME NEW G, NEW x \in DOMAIN Joined(G)
  PROVE  \E g \in G : x \in DOMAIN g /\ Joined(G)[x] = g[x]
  BY DEF Joined

Readers ==
  [user |-> {"me"},
   projects |-> {"projects", "sidebar"},
   project |-> {"projects", "project", "sidebar"},
   systems |-> {"projectDashboard", "systems", "ownedSystems", "sidebar"},
   system |-> {"projectDashboard", "systems", "system", "ownedSystems", "ownedSystem", "sidebar"},
   dispatch |-> {"projectDashboard", "dispatches"},
   finding |-> {"dispatchCompare", "remediationHistory", "results"},
   remediation |-> {"remediationHistory"},
   settings |-> {"systems", "system", "ownedSystems", "ownedSystem"},
   acknowledgment |-> {"attackAcknowledgment"},
   catalogAttack |-> {"dispatchCatalog", "catalogAttacks"},
   catalogRemediation |-> {"catalogRemediations"},
   import |-> {"catalogImport"},
   notification |-> {"notifications", "unreadCount"},
   account |-> {"adminUsers"},
   cover |-> {"coverUploads"},
   route |-> {"manualProxyRoutes"},
   pin |-> {"sidebar"}]

LEMMA ReadersAreKnown ==
  /\ Queries \subseteq DOMAIN Key
  /\ \A q \in Queries : \A r \in Reads[q] : q \in Readers[r]
  <1>1. \A q \in DOMAIN AuthReads : q \in DOMAIN Key /\ \A r \in AuthReads[q] : q \in Readers[r]
    BY DEF AuthReads, Readers, Key
  <1>2. \A q \in DOMAIN ProjectReads : q \in DOMAIN Key /\ \A r \in ProjectReads[q] : q \in Readers[r]
    BY DEF ProjectReads, Readers, Key
  <1>3. \A q \in DOMAIN InsightReads : q \in DOMAIN Key /\ \A r \in InsightReads[q] : q \in Readers[r]
    BY DEF InsightReads, Readers, Key
  <1>4. \A q \in DOMAIN SystemReads : q \in DOMAIN Key /\ \A r \in SystemReads[q] : q \in Readers[r]
    BY DEF SystemReads, Readers, Key
  <1>5. \A q \in DOMAIN OwnedReads : q \in DOMAIN Key /\ \A r \in OwnedReads[q] : q \in Readers[r]
    BY DEF OwnedReads, Readers, Key
  <1>6. \A q \in DOMAIN AttackReads : q \in DOMAIN Key /\ \A r \in AttackReads[q] : q \in Readers[r]
    BY DEF AttackReads, Readers, Key
  <1>7. \A q \in DOMAIN ResultReads : q \in DOMAIN Key /\ \A r \in ResultReads[q] : q \in Readers[r]
    BY DEF ResultReads, Readers, Key
  <1>8. \A q \in DOMAIN CatalogAttackReads : q \in DOMAIN Key /\ \A r \in CatalogAttackReads[q] : q \in Readers[r]
    BY DEF CatalogAttackReads, Readers, Key
  <1>9. \A q \in DOMAIN CatalogRemediationReads : q \in DOMAIN Key /\ \A r \in CatalogRemediationReads[q] : q \in Readers[r]
    BY DEF CatalogRemediationReads, Readers, Key
  <1>10. \A q \in DOMAIN ImportReads : q \in DOMAIN Key /\ \A r \in ImportReads[q] : q \in Readers[r]
    BY DEF ImportReads, Readers, Key
  <1>11. \A q \in DOMAIN NoticeReads : q \in DOMAIN Key /\ \A r \in NoticeReads[q] : q \in Readers[r]
    BY DEF NoticeReads, Readers, Key
  <1>12. \A q \in DOMAIN AdminReads : q \in DOMAIN Key /\ \A r \in AdminReads[q] : q \in Readers[r]
    BY DEF AdminReads, Readers, Key
  <1>13. \A q \in DOMAIN CoverReads : q \in DOMAIN Key /\ \A r \in CoverReads[q] : q \in Readers[r]
    BY DEF CoverReads, Readers, Key
  <1>14. \A q \in DOMAIN RouteReads : q \in DOMAIN Key /\ \A r \in RouteReads[q] : q \in Readers[r]
    BY DEF RouteReads, Readers, Key
  <1>15. \A q \in DOMAIN SidebarReads : q \in DOMAIN Key /\ \A r \in SidebarReads[q] : q \in Readers[r]
    BY DEF SidebarReads, Readers, Key
  <1> SUFFICES ASSUME NEW q \in Queries
               PROVE  q \in DOMAIN Key /\ \A r \in Reads[q] : q \in Readers[r]
    OBVIOUS
  <1>16. PICK g \in {AuthReads, ProjectReads, InsightReads, SystemReads, OwnedReads, AttackReads, ResultReads, CatalogAttackReads, CatalogRemediationReads, ImportReads, NoticeReads, AdminReads, CoverReads, RouteReads, SidebarReads} :
           q \in DOMAIN g /\ Reads[q] = g[q]
    BY Joins DEF Queries, Reads
  <1>17. QED
    BY <1>1, <1>2, <1>3, <1>4, <1>5, <1>6, <1>7, <1>8, <1>9, <1>10, <1>11, <1>12, <1>13, <1>14, <1>15, <1>16

-----------------------------------------------------------------------------
(* Which writes refresh what they change.                                  *)

Refreshes(m, w, q) ==
  \/ q \in w.presets \union w.sets
  \/ \E k \in w.invalidates \union w.removes : IsPrefix(k, Key[q])
  \/ (\E k \in w.ofUser : IsPrefix(k, Key[q])) /\ (m = "createProject" \/ q = "projects")
  \/ <<m, q>> \in LeftBehind

Refreshing(g) ==
  \A m \in DOMAIN g : \A r \in g[m].changes : \A q \in Queries \cap Readers[r] :
    Refreshes(m, g[m], q)

LEMMA ProfileWritesRefresh == Refreshing(ProfileWrites)
  BY KeyPrefixes, ReadersAreKnown DEF Refreshing, Refreshes, ProfileWrites, Mutation, Readers, LeftBehind, UnderSystems

LEMMA ProjectWritesRefresh == Refreshing(ProjectWrites)
  <1> DEFINE create == ProjectWrites.createProject
             update == ProjectWrites.updateProject
             delete == ProjectWrites.deleteProject
  <1>1. DOMAIN ProjectWrites = {"createProject", "updateProject", "deleteProject"}
    BY DEF ProjectWrites
  <1>2. ASSUME NEW r \in create.changes, NEW q \in Queries \cap Readers[r]
        PROVE  Refreshes("createProject", create, q)
    <2>1. q \in {"projects", "coverUploads", "sidebar"} /\ Key[q] \in create.ofUser
      BY DEF ProjectWrites, Mutation, Readers
    <2>2. QED
      BY <2>1, KeyPrefixes, ReadersAreKnown DEF Refreshes
  <1>3. ASSUME NEW r \in update.changes, NEW q \in Queries \cap Readers[r]
        PROVE  Refreshes("updateProject", update, q)
    <2>1. /\ update.changes = {"project", "cover"} /\ update.sets = {"project"}
          /\ update.invalidates = {Key.coverUploads, Key.sidebar}
          /\ update.ofUser = {Key.projects}
      BY DEF ProjectWrites, Mutation
    <2>2. q \in {"projects", "project", "coverUploads", "sidebar"}
      BY <2>1 DEF Readers
    <2>3. QED
      BY <2>1, <2>2, KeyPrefixes, ReadersAreKnown DEF Refreshes
  <1>4. ASSUME NEW r \in delete.changes, NEW q \in Queries \cap Readers[r]
        PROVE  Refreshes("deleteProject", delete, q)
    <2>1. \/ q \in UnderSystems \union {"project", "projectDashboard", "systems"}
          \/ q \in {"ownedSystems", "ownedSystem"}
          \/ q \in {"coverUploads", "sidebar"} /\ Key[q] \in delete.invalidates
          \/ q = "projects" /\ Key[q] \in delete.ofUser
      BY DEF ProjectWrites, Mutation, Readers, UnderSystems
    <2>2. CASE \/ q \in UnderSystems \union {"project", "projectDashboard", "systems"}
               \/ q \in {"ownedSystems", "ownedSystem"}
      BY <2>2, KeyPrefixes, ReadersAreKnown DEF Refreshes, LeftBehind
    <2>3. QED
      BY <2>1, <2>2, KeyPrefixes, ReadersAreKnown DEF Refreshes
  <1>5. QED
    BY <1>1, <1>2, <1>3, <1>4 DEF Refreshing

LEMMA SystemWritesRefresh == Refreshing(SystemWrites)
  BY KeyPrefixes, ReadersAreKnown DEF Refreshing, Refreshes, SystemWrites, Mutation, Readers, LeftBehind, UnderSystems

LEMMA SettingsWritesRefresh == Refreshing(SettingsWrites)
  BY KeyPrefixes, ReadersAreKnown DEF Refreshing, Refreshes, SettingsWrites, Mutation, Readers, LeftBehind, UnderSystems

LEMMA AttackWritesRefresh == Refreshing(AttackWrites)
  BY KeyPrefixes, ReadersAreKnown DEF Refreshing, Refreshes, AttackWrites, Mutation, Readers, LeftBehind, UnderSystems

LEMMA ResultWritesRefresh == Refreshing(ResultWrites)
  BY KeyPrefixes, ReadersAreKnown DEF Refreshing, Refreshes, ResultWrites, Mutation, Readers, LeftBehind, UnderSystems

LEMMA RemediationWritesRefresh == Refreshing(RemediationWrites)
  <1> SUFFICES ASSUME NEW m \in DOMAIN RemediationWrites,
                      NEW r \in RemediationWrites[m].changes, NEW q \in Queries \cap Readers[r]
               PROVE  Refreshes(m, RemediationWrites[m], q)
    BY DEF Refreshing
  <1>1. RemediationWrites[m] = Mutation({"remediation"}, {System \o <<"remediation-history">>})
    BY DEF RemediationWrites
  <1>2. /\ r = "remediation"
        /\ System \o <<"remediation-history">> \in RemediationWrites[m].invalidates
    BY <1>1 DEF Mutation
  <1>3. q = "remediationHistory"
    BY <1>2 DEF Readers
  <1>4. QED
    BY <1>2, <1>3, KeyPrefixes DEF Refreshes

LEMMA CatalogAttackWritesRefresh == Refreshing(CatalogAttackWrites)
  BY KeyPrefixes, ReadersAreKnown DEF Refreshing, Refreshes, CatalogAttackWrites, Mutation, Readers, LeftBehind, UnderSystems

LEMMA CatalogRemediationWritesRefresh == Refreshing(CatalogRemediationWrites)
  BY KeyPrefixes, ReadersAreKnown DEF Refreshing, Refreshes, CatalogRemediationWrites, Mutation, Readers, LeftBehind, UnderSystems

LEMMA ImportWritesRefresh == Refreshing(ImportWrites)
  BY KeyPrefixes, ReadersAreKnown DEF Refreshing, Refreshes, ImportWrites, Mutation, Readers, LeftBehind, UnderSystems

LEMMA NoticeWritesRefresh == Refreshing(NoticeWrites)
  BY KeyPrefixes, ReadersAreKnown DEF Refreshing, Refreshes, NoticeWrites, Mutation, Readers, LeftBehind, UnderSystems, NoticeMutations

LEMMA AdminWritesRefresh == Refreshing(AdminWrites)
  BY KeyPrefixes, ReadersAreKnown DEF Refreshing, Refreshes, AdminWrites, Mutation, Readers, LeftBehind, UnderSystems

LEMMA CoverWritesRefresh == Refreshing(CoverWrites)
  BY KeyPrefixes, ReadersAreKnown DEF Refreshing, Refreshes, CoverWrites, Mutation, Readers, LeftBehind, UnderSystems

LEMMA RouteWritesRefresh == Refreshing(RouteWrites)
  BY KeyPrefixes, ReadersAreKnown DEF Refreshing, Refreshes, RouteWrites, Mutation, Readers, LeftBehind, UnderSystems

LEMMA SidebarWritesRefresh == Refreshing(SidebarWrites)
  BY KeyPrefixes, ReadersAreKnown DEF Refreshing, Refreshes, SidebarWrites, Mutation, Readers, LeftBehind, UnderSystems

LEMMA WritesRefresh ==
  ASSUME NEW m \in Mutations, NEW q \in Queries, Writes[m].changes \cap Reads[q] # {}
  PROVE  Refreshes(m, Writes[m], q)
  <1>1. PICK r \in Writes[m].changes : q \in Readers[r]
    BY ReadersAreKnown
  <1>2. PICK g \in {ProfileWrites, ProjectWrites, SystemWrites, SettingsWrites, AttackWrites,
                    ResultWrites, RemediationWrites, CatalogAttackWrites,
                    CatalogRemediationWrites, ImportWrites, NoticeWrites, AdminWrites,
                    CoverWrites, RouteWrites, SidebarWrites} :
          m \in DOMAIN g /\ Writes[m] = g[m]
    BY Joins DEF Mutations, Writes
  <1>3. Refreshing(g)
    BY <1>2, ProfileWritesRefresh, ProjectWritesRefresh, SystemWritesRefresh,
       SettingsWritesRefresh, AttackWritesRefresh, ResultWritesRefresh,
       RemediationWritesRefresh, CatalogAttackWritesRefresh,
       CatalogRemediationWritesRefresh, ImportWritesRefresh, NoticeWritesRefresh,
       AdminWritesRefresh, CoverWritesRefresh, RouteWritesRefresh, SidebarWritesRefresh
  <1>4. QED
    BY <1>1, <1>2, <1>3 DEF Refreshing

\* No mutation sets the list of projects.
LEMMA ProjectsNeverSet ==
  ASSUME NEW m \in Mutations
  PROVE  "projects" \notin Writes[m].presets \union Writes[m].sets
  <1>1. PICK g \in {ProfileWrites, ProjectWrites, SystemWrites, SettingsWrites, AttackWrites,
                    ResultWrites, RemediationWrites, CatalogAttackWrites,
                    CatalogRemediationWrites, ImportWrites, NoticeWrites, AdminWrites,
                    CoverWrites, RouteWrites, SidebarWrites} :
          m \in DOMAIN g /\ Writes[m] = g[m]
    BY Joins DEF Mutations, Writes
  <1>2. "projects" \notin g[m].presets \union g[m].sets
    <2>1. CASE g = ProfileWrites
      BY <1>1, <2>1 DEF ProfileWrites, Mutation
    <2>2. CASE g = SettingsWrites
      BY <1>1, <2>2 DEF SettingsWrites, Mutation
    <2>3. CASE g = SidebarWrites
      <3>1. SidebarWrites[m] = [Mutation({"pin"}, {}) EXCEPT !.presets = {"sidebar"}]
        BY <1>1, <2>3 DEF SidebarWrites
      <3>2. SidebarWrites[m].presets = {"sidebar"} /\ SidebarWrites[m].sets = {}
        BY <3>1 DEF Mutation
      <3>3. QED
        BY <2>3, <3>2
    <2>4. CASE g = ProjectWrites
      <3>1. /\ DOMAIN ProjectWrites = {"createProject", "updateProject", "deleteProject"}
            /\ ProjectWrites.createProject.presets = {} /\ ProjectWrites.createProject.sets = {}
            /\ ProjectWrites.deleteProject.presets = {} /\ ProjectWrites.deleteProject.sets = {}
            /\ ProjectWrites.updateProject.presets = {}
            /\ ProjectWrites.updateProject.sets = {"project"}
        BY DEF ProjectWrites, Mutation
      <3>2. QED
        BY <1>1, <2>4, <3>1
    <2>5. CASE g \in {AttackWrites, ResultWrites, RemediationWrites, CatalogAttackWrites}
      BY <1>1, <2>5 DEF AttackWrites, ResultWrites, RemediationWrites, CatalogAttackWrites,
                        Mutation
    <2>6. CASE g \in {CatalogRemediationWrites, ImportWrites, NoticeWrites, AdminWrites}
      BY <1>1, <2>6 DEF CatalogRemediationWrites, ImportWrites, NoticeWrites, AdminWrites,
                        Mutation
    <2>7. CASE g \in {CoverWrites, RouteWrites}
      BY <1>1, <2>7 DEF CoverWrites, RouteWrites, Mutation
    <2>8. CASE g = SystemWrites
      BY <1>1, <2>8 DEF SystemWrites, Mutation
    <2>9. QED
      BY <1>1, <2>1, <2>2, <2>3, <2>4, <2>5, <2>6, <2>7, <2>8
  <1>3. QED
    BY <1>1, <1>2

-----------------------------------------------------------------------------
(* The cache.                                                              *)

EntryState == [data : BOOLEAN, missed : SUBSET Mutations, invalid : BOOLEAN,
               stale : BOOLEAN, shows : BOOLEAN, outlived : BOOLEAN]
FlightState == [step : {"idle", "asked", "answered"}, missed : SUBSET Mutations,
                shows : BOOLEAN, failures : 0..1, late : BOOLEAN]
WriteState == [step : {"sent", "applied", "refused", "settled"}, missed : SUBSET Mutations]

TypeInv ==
  /\ query \in Queries /\ known \in BOOLEAN /\ mounted \in BOOLEAN /\ pending \in BOOLEAN
  /\ entry \in EntryState /\ flight \in FlightState
  /\ DOMAIN write \subseteq Mutations /\ \A n \in DOMAIN write : write[n] \in WriteState

\* What is missed was applied, and changes what the query reads.
Missing(ns) ==
  \A n \in ns : /\ n \in DOMAIN write /\ write[n].step \in {"applied", "settled"}
                /\ Writes[n].changes \cap Reads[query] # {}

\* Why an entry may miss a write that has settled.
Excused(n, e, f) ==
  \/ e.invalid \/ f.step # "idle" \/ e.outlived
  \/ <<n, query>> \in LeftBehind
  \/ n = "createProject" /\ ~known

\* An answer on its way that misses a write that has settled is known to be late.
Sound(e, f) ==
  /\ Missing(e.missed) /\ Missing(f.missed)
  /\ ~e.data => e.missed = {}
  /\ f.step # "answered" => f.missed = {}
  /\ \A n \in f.missed : write[n].step = "settled" => f.late
  /\ \A n \in e.missed : write[n].step = "settled" => Excused(n, e, f)

\* The response of a mutation does not miss the mutation.
ResponsesInv ==
  \A n \in DOMAIN write : Missing(write[n].missed) /\ n \notin write[n].missed

\* Without the user in the cache the list of projects is never asked for.
ProjectsInv ==
  query = "projects" /\ ~known => ~entry.data /\ flight.step = "idle" /\ ~mounted

CacheInv == TypeInv /\ Sound(entry, flight) /\ ResponsesInv /\ ProjectsInv

LEMMA EmptyStates ==
  /\ NoEntry \in EntryState /\ NoFlight \in FlightState /\ Asked \in FlightState
  /\ NoEntry.missed = {} /\ ~NoEntry.data
  /\ NoFlight.missed = {} /\ Asked.missed = {} /\ NoFlight.step = "idle" /\ Asked.step = "asked"
  <1>1. 0 \in 0..1
    OBVIOUS
  <1>2. QED
    BY <1>1 DEF NoEntry, NoFlight, Asked, EntryState, FlightState

LEMMA InitCache == CacheInit => CacheInv
  <1> SUFFICES ASSUME CacheInit PROVE CacheInv
    OBVIOUS
  <1>1. DOMAIN write = {}
    <2>1. write = << >> /\ << >> \in Seq({}) /\ Len(<< >>) = 0
      BY EmptySeq DEF CacheInit
    <2>2. DOMAIN write = 1..0
      BY <2>1, LenProperties
    <2>3. QED
      BY <2>2
  <1>2. entry = NoEntry /\ flight = NoFlight /\ mounted = FALSE
    BY DEF CacheInit
  <1>3. query \in Queries /\ known \in BOOLEAN /\ pending \in BOOLEAN
    BY DEF CacheInit
  <1>4. TypeInv
    BY <1>1, <1>2, <1>3, EmptyStates DEF TypeInv
  <1>5. Sound(entry, flight) /\ ResponsesInv /\ ProjectsInv
    BY <1>1, <1>2, EmptyStates DEF Sound, Missing, ResponsesInv, ProjectsInv
  <1>6. QED
    BY <1>4, <1>5 DEF CacheInv

\* A step that leaves the writes alone.
LEMMA SameWrites ==
  ASSUME CacheInv, UNCHANGED <<query, known, write>>,
         mounted' \in BOOLEAN, pending' \in BOOLEAN,
         entry' \in EntryState, flight' \in FlightState, Sound(entry', flight'),
         query = "projects" /\ ~known => ~entry'.data /\ flight'.step = "idle" /\ ~mounted'
  PROVE  CacheInv'
  <1>1. TypeInv'
    BY DEF CacheInv, TypeInv
  <1>2. Sound(entry, flight)'
    BY DEF Sound, Missing, Excused
  <1>3. ResponsesInv' /\ ProjectsInv'
    BY DEF CacheInv, ResponsesInv, ProjectsInv, Missing
  <1>4. QED
    BY <1>1, <1>2, <1>3 DEF CacheInv

\* A new request never makes the cache less sound.
LEMMA AskedSound ==
  ASSUME NEW e, NEW f, Sound(e, f)
  PROVE  Sound(e, Asked)
  BY EmptyStates DEF Sound, Excused, Missing

LEMMA QuerySteps ==
  ASSUME CacheInv,
         \/ Mount \/ Unmount \/ GrowStale \/ Collect \/ Poll \/ Refetch
         \/ Answer \/ Land \/ Fail \/ JobEnds
  PROVE  CacheInv'
  <1>1. /\ TypeInv /\ Sound(entry, flight) /\ ResponsesInv /\ ProjectsInv
        /\ entry \in EntryState /\ flight \in FlightState
        /\ mounted \in BOOLEAN /\ pending \in BOOLEAN /\ known \in BOOLEAN
    BY DEF CacheInv, TypeInv
  <1>2. CASE Mount
    <2>1. /\ UNCHANGED <<query, known, write, entry, pending>> /\ mounted' = TRUE
          /\ flight' \in {flight, Asked}
          /\ ~(query = "projects" /\ ~known)
      BY <1>2 DEF Mount, Enabled
    <2>2. Sound(entry, flight') /\ flight' \in FlightState
      BY <1>1, <2>1, AskedSound, EmptyStates
    <2>3. Sound(entry', flight')
      BY <2>1, <2>2
    <2>4. QED
      BY <1>1, <2>1, <2>2, <2>3, SameWrites
  <1>3. CASE Unmount
    <2>1. UNCHANGED <<query, known, write, entry, flight, pending>> /\ mounted' = FALSE
      BY <1>3 DEF Unmount
    <2>2. Sound(entry', flight')
      BY <1>1, <2>1
    <2>3. QED
      BY <1>1, <2>1, <2>2, SameWrites DEF ProjectsInv
  <1>4. CASE GrowStale
    <2>1. /\ UNCHANGED <<query, known, write, flight, mounted, pending>>
          /\ entry' = [entry EXCEPT !.stale = TRUE]
      BY <1>4 DEF GrowStale
    <2>2. /\ entry' \in EntryState /\ entry'.missed = entry.missed /\ entry'.data = entry.data
          /\ entry'.invalid = entry.invalid /\ entry'.outlived = entry.outlived
      BY <1>1, <2>1 DEF EntryState
    <2>3. Sound(entry', flight')
      BY <1>1, <2>1, <2>2 DEF Sound, Excused
    <2>4. QED
      BY <1>1, <2>1, <2>2, <2>3, SameWrites DEF ProjectsInv
  <1>5. CASE Collect
    <2>1. UNCHANGED <<query, known, write, flight, mounted, pending>> /\ entry' = NoEntry
      BY <1>5 DEF Collect
    <2>2. Sound(NoEntry, flight)
      BY <1>1, EmptyStates DEF Sound, Missing
    <2>3. QED
      BY <1>1, <2>1, <2>2, EmptyStates, SameWrites DEF ProjectsInv
  <1>6. CASE Poll \/ Refetch
    <2>1. /\ UNCHANGED <<query, known, write, entry, mounted, pending>> /\ flight' = Asked
          /\ mounted
      BY <1>6 DEF Poll, Refetch
    <2>2. Sound(entry, Asked)
      BY <1>1, AskedSound
    <2>3. QED
      BY <1>1, <2>1, <2>2, EmptyStates, SameWrites DEF ProjectsInv
  <1>7. CASE Answer
    <2>1. /\ UNCHANGED <<query, known, write, entry, mounted, pending>>
          /\ flight.step = "asked"
          /\ flight' = [flight EXCEPT !.step = "answered", !.shows = pending]
      BY <1>7 DEF Answer
    <2>2. /\ flight' \in FlightState /\ flight'.step = "answered"
          /\ flight'.missed = flight.missed /\ flight'.late = flight.late
      BY <1>1, <2>1 DEF FlightState
    <2>3. Sound(entry, flight')
      BY <1>1, <2>1, <2>2 DEF Sound, Excused, Missing
    <2>4. Sound(entry', flight')
      BY <2>1, <2>3
    <2>5. QED
      BY <1>1, <2>1, <2>2, <2>4, SameWrites DEF ProjectsInv
  <1>8. CASE Land
    <2>1. /\ UNCHANGED <<query, known, write, mounted, pending>>
          /\ flight.step = "answered" /\ flight' = NoFlight
          /\ entry' = [data |-> TRUE, missed |-> flight.missed, invalid |-> FALSE,
                       stale |-> FALSE, shows |-> flight.shows, outlived |-> flight.late]
      BY <1>8 DEF Land
    <2>2. /\ entry' \in EntryState /\ entry'.missed = flight.missed /\ entry'.data
          /\ entry'.outlived = flight.late
      BY <1>1, <2>1 DEF EntryState, FlightState
    <2>3. Sound(entry', NoFlight)
      BY <1>1, <2>2, EmptyStates DEF Sound, Excused, Missing
    <2>4. QED
      BY <1>1, <2>1, <2>2, <2>3, EmptyStates, SameWrites DEF ProjectsInv
  <1>9. CASE Fail
    <2>1. /\ UNCHANGED <<query, known, write, mounted, pending>> /\ flight.step # "idle"
          /\ \/ /\ flight.failures < Retries(query) /\ entry' = entry
                /\ flight' = [Asked EXCEPT !.failures = flight.failures + 1]
             \/ flight' = NoFlight /\ entry' = [entry EXCEPT !.invalid = entry.data]
      BY <1>9 DEF Fail
    <2>2. ~(query = "projects" /\ ~known)
      BY <1>1, <2>1 DEF ProjectsInv
    <2>3. CASE /\ flight.failures < Retries(query) /\ entry' = entry
               /\ flight' = [Asked EXCEPT !.failures = flight.failures + 1]
      <3>1. flight.failures \in 0..1 /\ flight.failures < 1
        BY <1>1, <2>3 DEF FlightState, Retries
      <3>2. flight.failures + 1 \in 0..1
        BY <3>1
      <3>3. flight' \in FlightState /\ flight'.step = "asked" /\ flight'.missed = {}
        BY <2>3, <3>2, EmptyStates DEF Asked, NoFlight, FlightState
      <3>4. Sound(entry', flight')
        BY <1>1, <2>3, <3>3 DEF Sound, Excused, Missing
      <3>5. QED
        BY <1>1, <2>1, <2>2, <2>3, <3>3, <3>4, SameWrites
    <2>4. CASE flight' = NoFlight /\ entry' = [entry EXCEPT !.invalid = entry.data]
      <3>1. /\ entry' \in EntryState /\ entry'.missed = entry.missed /\ entry'.data = entry.data
            /\ entry'.invalid = entry.data
        BY <1>1, <2>4 DEF EntryState
      <3>2. Sound(entry', NoFlight)
        BY <1>1, <3>1, EmptyStates DEF Sound, Excused, Missing
      <3>3. QED
        BY <1>1, <2>1, <2>2, <2>4, <3>1, <3>2, EmptyStates, SameWrites
    <2>5. QED
      BY <2>1, <2>3, <2>4
  <1>10. CASE JobEnds
    <2>1. UNCHANGED <<query, known, write, entry, flight, mounted>> /\ pending' = FALSE
      BY <1>10 DEF JobEnds
    <2>2. Sound(entry', flight')
      BY <1>1, <2>1
    <2>3. QED
      BY <1>1, <2>1, <2>2, SameWrites DEF ProjectsInv
  <1>11. QED
    BY <1>2, <1>3, <1>4, <1>5, <1>6, <1>7, <1>8, <1>9, <1>10

-----------------------------------------------------------------------------
(* The mutations.                                                          *)

LEMMA SubmitStep ==
  ASSUME CacheInv, NEW m \in Mutations, Submit(m)
  PROVE  CacheInv'
  <1>1. /\ TypeInv /\ Sound(entry, flight) /\ ResponsesInv /\ ProjectsInv
        /\ m \notin DOMAIN write /\ UNCHANGED <<query, known, entry, flight, mounted, pending>>
    BY DEF CacheInv, Submit
  <1>2. /\ DOMAIN write' = {m} \union DOMAIN write
        /\ write'[m] = [step |-> "sent", missed |-> {}]
        /\ \A n \in DOMAIN write : write'[n] = write[n]
    BY <1>1 DEF Submit
  <1>3. TypeInv'
    BY <1>1, <1>2 DEF TypeInv, WriteState
  <1>4. ASSUME NEW ns, Missing(ns) PROVE Missing(ns)' /\ m \notin ns
    BY <1>1, <1>2, <1>4 DEF Missing
  <1>5. Sound(entry, flight)'
    <2>1. Missing(entry.missed) /\ Missing(flight.missed)
      BY <1>1 DEF Sound
    <2>2. PICK ns, fs : ns = entry.missed /\ fs = flight.missed
      OBVIOUS
    <2>3. Missing(ns)' /\ Missing(fs)' /\ m \notin ns /\ m \notin fs
      BY <2>1, <2>2, <1>4
    <2>4. \A n \in ns \union fs : write'[n] = write[n]
      BY <1>1, <1>2, <2>1, <2>2 DEF Missing
    <2>5. entry'.missed = ns /\ flight'.missed = fs
      BY <1>1, <2>2
    <2>6. QED
      BY <1>1, <2>2, <2>3, <2>4, <2>5 DEF Sound, Excused
  <1>6. ResponsesInv'
    <2> SUFFICES ASSUME NEW n \in DOMAIN write' PROVE (Missing(write[n].missed) /\ n \notin write[n].missed)'
      BY DEF ResponsesInv
    <2>1. CASE n = m
      BY <1>2, <2>1 DEF Missing
    <2>2. CASE n \in DOMAIN write
      <3>1. Missing(write[n].missed) /\ n \notin write[n].missed /\ write'[n] = write[n]
        BY <1>1, <1>2, <2>2 DEF ResponsesInv
      <3>2. PICK ns : ns = write[n].missed
        OBVIOUS
      <3>3. Missing(ns)' /\ write'[n].missed = ns
        BY <3>1, <3>2, <1>4
      <3>4. QED
        BY <3>1, <3>2, <3>3 DEF Missing
    <2>3. QED
      BY <1>2, <2>1, <2>2
  <1>7. ProjectsInv'
    BY <1>1 DEF ProjectsInv
  <1>8. QED
    BY <1>3, <1>5, <1>6, <1>7 DEF CacheInv

LEMMA RefuseStep ==
  ASSUME CacheInv, NEW m \in Mutations, Refuse(m)
  PROVE  CacheInv'
  <1>1. /\ TypeInv /\ Sound(entry, flight) /\ ResponsesInv /\ ProjectsInv
        /\ m \in DOMAIN write /\ write[m].step = "sent"
        /\ write' = [write EXCEPT ![m].step = "refused"]
        /\ UNCHANGED <<query, known, entry, flight, mounted, pending>>
    BY DEF CacheInv, Refuse
  <1>2. \A n \in DOMAIN write : write[n] \in WriteState
    BY <1>1 DEF TypeInv
  <1>3. /\ DOMAIN write' = DOMAIN write
        /\ \A n \in DOMAIN write :
             /\ write'[n] \in WriteState /\ write'[n].missed = write[n].missed
             /\ n # m => write'[n] = write[n]
    BY <1>1, <1>2 DEF WriteState
  <1>4. TypeInv'
    BY <1>1, <1>3 DEF TypeInv
  <1>5. ASSUME NEW ns, Missing(ns) PROVE Missing(ns)' /\ \A n \in ns : write'[n] = write[n]
    BY <1>1, <1>3, <1>5 DEF Missing
  <1>6. Sound(entry, flight)'
    <2>1. Missing(entry.missed) /\ Missing(flight.missed)
      BY <1>1 DEF Sound
    <2>2. PICK ns, fs : ns = entry.missed /\ fs = flight.missed
      OBVIOUS
    <2>3. Missing(ns)' /\ Missing(fs)' /\ \A n \in ns \union fs : write'[n] = write[n]
      BY <2>1, <2>2, <1>5
    <2>4. entry'.missed = ns /\ flight'.missed = fs
      BY <1>1, <2>2
    <2>5. QED
      BY <1>1, <2>2, <2>3, <2>4 DEF Sound, Excused
  <1>7. ResponsesInv'
    <2> SUFFICES ASSUME NEW n \in DOMAIN write' PROVE (Missing(write[n].missed) /\ n \notin write[n].missed)'
      BY DEF ResponsesInv
    <2>1. /\ Missing(write[n].missed) /\ n \notin write[n].missed
          /\ write'[n].missed = write[n].missed
      BY <1>1, <1>3 DEF ResponsesInv
    <2>2. PICK ns : ns = write[n].missed
      OBVIOUS
    <2>3. Missing(ns)' /\ write'[n].missed = ns
      BY <2>1, <2>2, <1>5
    <2>4. QED
      BY <2>1, <2>2, <2>3 DEF Missing
  <1>8. ProjectsInv'
    BY <1>1 DEF ProjectsInv
  <1>9. QED
    BY <1>4, <1>6, <1>7, <1>8 DEF CacheInv

\* Whatever was answered before the write is applied misses it.
LEMMA ApplyStep ==
  ASSUME CacheInv, NEW m \in Mutations, Apply(m)
  PROVE  CacheInv'
  <1> DEFINE Hit(ns) == IF Writes[m].changes \cap Reads[query] # {} THEN ns \union {m} ELSE ns
  <1>1. /\ TypeInv /\ Sound(entry, flight) /\ ResponsesInv /\ ProjectsInv
        /\ entry \in EntryState /\ flight \in FlightState
        /\ m \in DOMAIN write /\ write[m].step = "sent"
        /\ UNCHANGED <<query, known, mounted, pending>>
    BY DEF CacheInv, TypeInv, Apply
  <1>2. /\ entry' = [entry EXCEPT !.missed = IF entry.data THEN Hit(@) ELSE @]
        /\ flight' = [flight EXCEPT !.missed = IF flight.step = "answered" THEN Hit(@) ELSE @]
    BY DEF Apply
  <1>3. /\ DOMAIN write' = DOMAIN write
        /\ write'[m] = [step |-> "applied", missed |-> {}]
        /\ \A n \in DOMAIN write \ {m} :
             IF write[n].step = "applied"
             THEN write'[n] = [write[n] EXCEPT !.missed = Hit(@)] ELSE write'[n] = write[n]
    BY <1>1 DEF Apply
  <1>4. \A ns \in SUBSET Mutations : Hit(ns) \in SUBSET Mutations /\ Hit(ns) \subseteq ns \union {m}
    OBVIOUS
  <1>5. ASSUME NEW ns, Missing(ns)
        PROVE  Missing(ns)' /\ Missing(Hit(ns))' /\ m \notin ns
    <2>1. m \notin ns
      BY <1>1, <1>5 DEF Missing
    <2>2. \A n \in ns : n \in DOMAIN write \ {m} /\ write'[n].step = write[n].step
      <3> SUFFICES ASSUME NEW n \in ns PROVE n \in DOMAIN write \ {m} /\ write'[n].step = write[n].step
        OBVIOUS
      <3>1. n \in DOMAIN write \ {m} /\ write[n] \in WriteState
        BY <1>1, <1>5, <2>1 DEF Missing, TypeInv
      <3>2. QED
        BY <1>3, <3>1 DEF WriteState
    <2>3. QED
      BY <1>1, <1>3, <1>5, <2>1, <2>2 DEF Missing
  <1> HIDE DEF Hit
  <1>6. \A n \in DOMAIN write \ {m} :
          /\ write'[n] \in WriteState /\ write'[n].step = write[n].step
          /\ write'[n].missed \in {write[n].missed, Hit(write[n].missed)}
    <2> SUFFICES ASSUME NEW n \in DOMAIN write \ {m}
                 PROVE  /\ write'[n] \in WriteState /\ write'[n].step = write[n].step
                        /\ write'[n].missed \in {write[n].missed, Hit(write[n].missed)}
      OBVIOUS
    <2>1. write[n] \in WriteState
      BY <1>1 DEF TypeInv
    <2>2. Hit(write[n].missed) \in SUBSET Mutations
      BY <1>4, <2>1 DEF WriteState
    <2>3. QED
      BY <1>3, <2>1, <2>2 DEF WriteState
  <1>7. /\ entry' \in EntryState /\ entry'.data = entry.data /\ entry'.invalid = entry.invalid
        /\ entry'.outlived = entry.outlived
        /\ entry'.missed \in {entry.missed, Hit(entry.missed)}
        /\ ~entry.data => entry'.missed = entry.missed
    <2>1. Hit(entry.missed) \in SUBSET Mutations
      BY <1>1, <1>4 DEF EntryState
    <2>2. QED
      BY <1>1, <1>2, <2>1 DEF EntryState
  <1>8. /\ flight' \in FlightState /\ flight'.step = flight.step /\ flight'.late = flight.late
        /\ flight'.missed \in {flight.missed, Hit(flight.missed)}
        /\ flight.step # "answered" => flight'.missed = flight.missed
    <2>1. Hit(flight.missed) \in SUBSET Mutations
      BY <1>1, <1>4 DEF FlightState
    <2>2. QED
      BY <1>1, <1>2, <2>1 DEF FlightState
  <1>9. TypeInv'
    <2>1. write'[m] \in WriteState
      BY <1>3 DEF WriteState
    <2>2. QED
      BY <1>1, <1>3, <1>6, <1>7, <1>8, <2>1 DEF TypeInv
  <1>10. Sound(entry, flight)'
    <2>1. /\ Missing(entry.missed) /\ Missing(flight.missed)
          /\ entry.missed \in SUBSET Mutations /\ flight.missed \in SUBSET Mutations
      BY <1>1 DEF Sound, EntryState, FlightState
    <2>2. PICK ns, fs : ns = entry.missed /\ fs = flight.missed
      OBVIOUS
    <2>3. PICK es, gs : es = Hit(ns) /\ gs = Hit(fs)
      OBVIOUS
    <2>4. /\ Missing(ns)' /\ Missing(fs)' /\ m \notin ns /\ m \notin fs
          /\ Missing(es)' /\ Missing(gs)' /\ es \subseteq ns \union {m}
          /\ gs \subseteq fs \union {m}
      <3>1. Missing(ns)' /\ Missing(Hit(ns))' /\ m \notin ns
        BY <2>1, <2>2, <1>5
      <3>2. Missing(fs)' /\ Missing(Hit(fs))' /\ m \notin fs
        BY <2>1, <2>2, <1>5
      <3>3. Missing(es)' /\ Missing(gs)'
        BY <1>1, <2>3, <3>1, <3>2 DEF Hit, Missing
      <3>4. QED
        BY <1>4, <2>1, <2>2, <2>3, <3>1, <3>2, <3>3
    <2>5. entry'.missed \in {ns, es} /\ flight'.missed \in {fs, gs}
      BY <1>7, <1>8, <2>2, <2>3
    <2>6. Missing(entry.missed)' /\ Missing(flight.missed)'
      BY <2>4, <2>5 DEF Missing
    <2>7. ASSUME NEW n \in entry'.missed, write'[n].step = "settled"
          PROVE  Excused(n, entry, flight)'
      <3>1. n # m
        BY <1>3, <2>7
      <3>2. n \in entry.missed /\ n \in DOMAIN write \ {m}
        BY <2>1, <2>2, <2>4, <2>5, <3>1 DEF Missing
      <3>3. write[n].step = "settled"
        BY <1>6, <2>7, <3>2
      <3>4. Excused(n, entry, flight)
        BY <1>1, <3>2, <3>3 DEF Sound
      <3>5. QED
        BY <1>1, <1>7, <1>8, <3>4 DEF Excused
    <2>8. ASSUME NEW n \in flight'.missed, write'[n].step = "settled" PROVE flight'.late
      <3>1. n # m
        BY <1>3, <2>8
      <3>2. n \in flight.missed /\ n \in DOMAIN write \ {m}
        BY <2>1, <2>2, <2>4, <2>5, <3>1 DEF Missing
      <3>3. write[n].step = "settled"
        BY <1>6, <2>8, <3>2
      <3>4. QED
        BY <1>1, <1>8, <3>2, <3>3 DEF Sound
    <2>9. (~entry'.data => entry'.missed = {}) /\ (flight'.step # "answered" => flight'.missed = {})
      BY <1>1, <1>7, <1>8 DEF Sound
    <2>10. QED
      BY <2>6, <2>7, <2>8, <2>9 DEF Sound
  <1>11. ResponsesInv'
    <2> SUFFICES ASSUME NEW n \in DOMAIN write'
                 PROVE  (Missing(write[n].missed) /\ n \notin write[n].missed)'
      BY DEF ResponsesInv
    <2>1. CASE n = m
      BY <1>3, <2>1 DEF Missing
    <2>2. CASE n # m
      <3>1. /\ Missing(write[n].missed) /\ n \notin write[n].missed
            /\ n \in DOMAIN write \ {m} /\ write[n].missed \in SUBSET Mutations
        BY <1>1, <1>3, <2>2 DEF ResponsesInv, TypeInv, WriteState
      <3>2. PICK ns, es : ns = write[n].missed /\ es = Hit(ns)
        OBVIOUS
      <3>3. Missing(ns)' /\ Missing(Hit(ns))'
        BY <3>1, <3>2, <1>5
      <3>4. Missing(es)' /\ es \subseteq ns \union {m}
        BY <1>1, <1>4, <3>1, <3>2, <3>3 DEF Hit, Missing
      <3>5. write'[n].missed \in {ns, es}
        BY <1>6, <3>1, <3>2
      <3>6. QED
        BY <2>2, <3>1, <3>2, <3>3, <3>4, <3>5 DEF Missing
    <2>3. QED
      BY <2>1, <2>2
  <1>12. ProjectsInv'
    BY <1>1, <1>7, <1>8 DEF ProjectsInv
  <1>13. QED
    BY <1>9, <1>10, <1>11, <1>12 DEF CacheInv

\* onSuccess: the four ways in which it changes the cache keep it sound.
CacheState == [entry : EntryState, flight : FlightState]
Good(c) ==
  /\ c \in CacheState /\ Sound(c.entry, c.flight)
  /\ query = "projects" /\ ~known => ~c.entry.data /\ c.flight.step = "idle" /\ ~mounted

LEMMA SetKeeps ==
  ASSUME CacheInv, NEW m \in DOMAIN write, NEW queries, "projects" \notin queries,
         NEW c, Good(c)
  PROVE  /\ Good(AfterSet(m, queries, c))
         /\ query \in queries => m \notin AfterSet(m, queries, c).entry.missed
         /\ query \notin queries => AfterSet(m, queries, c) = c
  <1>1. CASE query \notin queries
    BY <1>1 DEF AfterSet
  <1>2. CASE query \in queries
    <2>1. /\ c \in CacheState /\ Sound(c.entry, c.flight) /\ query # "projects"
          /\ entry \in EntryState /\ write[m] \in WriteState
          /\ Missing(write[m].missed) /\ m \notin write[m].missed
      BY <1>2 DEF Good, CacheInv, TypeInv, ResponsesInv
    <2>2. PICK old \in BOOLEAN : old = \E w \in write[m].missed : write[w].step = "settled"
      OBVIOUS
    <2>3. PICK e : e = [NoEntry EXCEPT !.data = TRUE, !.missed = write[m].missed,
                                       !.shows = entry.shows, !.outlived = old]
      OBVIOUS
    <2>4. /\ e \in EntryState /\ e.missed = write[m].missed /\ e.data /\ e.outlived = old
      BY <2>1, <2>3 DEF EntryState, WriteState, NoEntry
    <2>5. AfterSet(m, queries, c) = [c EXCEPT !.entry = e]
      BY <1>2, <2>2, <2>3 DEF AfterSet
    <2>6. /\ AfterSet(m, queries, c) \in CacheState
          /\ AfterSet(m, queries, c).entry = e /\ AfterSet(m, queries, c).flight = c.flight
      BY <2>1, <2>4, <2>5 DEF CacheState
    <2>7. Sound(e, c.flight)
      BY <2>1, <2>2, <2>4 DEF Sound, Excused
    <2>8. QED
      BY <1>2, <2>1, <2>4, <2>6, <2>7 DEF Good
  <1>3. QED
    BY <1>1, <1>2

LEMMA InvalidateKeeps ==
  ASSUME CacheInv, NEW m, NEW c, Good(c)
  PROVE  /\ Good(AfterInvalidate(m, c))
         /\ AfterInvalidate(m, c).entry.missed = c.entry.missed
         /\ Invalidated(m) /\ c.entry.data =>
              AfterInvalidate(m, c).entry.invalid \/ AfterInvalidate(m, c).entry.outlived
  <1>1. /\ c \in CacheState /\ Sound(c.entry, c.flight)
        /\ c.entry \in EntryState /\ c.flight \in FlightState /\ mounted \in BOOLEAN
    BY DEF Good, CacheState, CacheInv, TypeInv
  <1>2. PICK e, f : /\ e = AfterInvalidate(m, c).entry /\ f = AfterInvalidate(m, c).flight
                    /\ AfterInvalidate(m, c) = [entry |-> e, flight |-> f]
    BY DEF AfterInvalidate
  <1>3. \/ e = c.entry /\ ~Invalidated(m)
        \/ e = [c.entry EXCEPT !.outlived = c.entry.data]
        \/ e = [c.entry EXCEPT !.invalid = c.entry.data]
    BY <1>2 DEF AfterInvalidate
  <1>4. /\ f \in {Asked, c.flight}
        /\ ~mounted => f = c.flight
    BY <1>2 DEF AfterInvalidate
  <1>5. /\ e \in EntryState /\ e.missed = c.entry.missed /\ e.data = c.entry.data
        /\ \/ e = c.entry /\ ~Invalidated(m)
           \/ e.outlived = c.entry.data /\ e.invalid = c.entry.invalid
           \/ e.invalid = c.entry.data /\ e.outlived = c.entry.outlived
    BY <1>1, <1>3 DEF EntryState
  <1>6. Sound(e, c.flight)
    <2>1. \A n \in e.missed : e.data
      BY <1>1, <1>5 DEF Sound
    <2>2. QED
      BY <1>1, <1>5, <2>1 DEF Sound, Excused
  <1>7. Sound(e, f) /\ f \in FlightState
    BY <1>1, <1>4, <1>6, AskedSound, EmptyStates
  <1>8. AfterInvalidate(m, c) \in CacheState
    BY <1>2, <1>5, <1>7 DEF CacheState
  <1>9. Good(AfterInvalidate(m, c))
    <2>1. query = "projects" /\ ~known => ~e.data /\ f.step = "idle" /\ ~mounted
      BY <1>4, <1>5 DEF Good
    <2>2. QED
      BY <1>2, <1>7, <1>8, <2>1 DEF Good
  <1>10. QED
    BY <1>2, <1>5, <1>9

LEMMA RemoveKeeps ==
  ASSUME CacheInv, NEW m, NEW c, Good(c)
  PROVE  /\ Good(AfterRemove(m, c))
         /\ Matched(Writes[m].removes) => AfterRemove(m, c).entry.missed = {}
         /\ ~Matched(Writes[m].removes) => AfterRemove(m, c) = c
  <1>1. CASE ~Matched(Writes[m].removes)
    BY <1>1 DEF AfterRemove
  <1>2. CASE Matched(Writes[m].removes)
    <2>1. PICK f \in {Asked, NoFlight} :
            /\ AfterRemove(m, c) = [entry |-> NoEntry, flight |-> f]
            /\ ~mounted => f = NoFlight
      BY <1>2 DEF AfterRemove
    <2>2. AfterRemove(m, c) \in CacheState
      BY <2>1, EmptyStates DEF CacheState
    <2>3. Sound(NoEntry, f)
      BY EmptyStates DEF Sound, Missing
    <2>4. QED
      BY <1>2, <2>1, <2>2, <2>3, EmptyStates DEF Good
  <1>3. QED
    BY <1>1, <1>2

\* A mutation that settles is not missed by what it leaves in the cache, unless
\* that is excused.
LEMMA SettleExcuses ==
  ASSUME CacheInv, NEW m \in DOMAIN write, NEW c1, NEW c2, NEW c3, NEW c4,
         NEW c0, c0 = [entry |-> entry, flight |-> flight],
         c1 = AfterSet(m, Writes[m].presets, c0), c2 = AfterInvalidate(m, c1),
         c3 = AfterSet(m, Writes[m].sets, c2), c4 = AfterRemove(m, c3)
  PROVE  Good(c4) /\ (m \in c4.entry.missed => Excused(m, c4.entry, c4.flight))
  <1>1. /\ TypeInv /\ Sound(entry, flight) /\ ProjectsInv /\ m \in Mutations
        /\ entry \in EntryState /\ flight \in FlightState /\ query \in Queries
    BY DEF CacheInv, TypeInv
  <1>2. Good(c0)
    BY <1>1 DEF Good, CacheState, ProjectsInv
  <1>3. /\ "projects" \notin Writes[m].presets /\ "projects" \notin Writes[m].sets
    BY <1>1, ProjectsNeverSet
  <1>4. /\ Good(c1)
        /\ query \in Writes[m].presets => m \notin c1.entry.missed
        /\ query \notin Writes[m].presets => c1 = c0
    BY <1>2, <1>3, SetKeeps
  <1>5. /\ Good(c2) /\ c2.entry.missed = c1.entry.missed
        /\ Invalidated(m) /\ c1.entry.data => c2.entry.invalid \/ c2.entry.outlived
    BY <1>4, InvalidateKeeps
  <1>6. /\ Good(c3)
        /\ query \in Writes[m].sets => m \notin c3.entry.missed
        /\ query \notin Writes[m].sets => c3 = c2
    BY <1>3, <1>5, SetKeeps
  <1>7. /\ Good(c4)
        /\ Matched(Writes[m].removes) => c4.entry.missed = {}
        /\ ~Matched(Writes[m].removes) => c4 = c3
    BY <1>6, RemoveKeeps
  <1>8. ASSUME m \in c4.entry.missed PROVE Excused(m, c4.entry, c4.flight)
    <2>1. /\ ~Matched(Writes[m].removes) /\ c4 = c2 /\ c1 = c0
          /\ query \notin Writes[m].presets \union Writes[m].sets
      BY <1>4, <1>5, <1>6, <1>7, <1>8
    <2>2. m \in entry.missed /\ c1.entry = entry
      BY <1>5, <1>8, <2>1
    <2>3. entry.data /\ Writes[m].changes \cap Reads[query] # {}
      BY <1>1, <2>2 DEF Sound, Missing
    <2>4. Refreshes(m, Writes[m], query)
      BY <1>1, <2>3, WritesRefresh
    <2>5. CASE Invalidated(m)
      BY <1>5, <2>1, <2>2, <2>3, <2>5 DEF Excused
    <2>6. CASE ~Invalidated(m)
      <3>1. \A k \in Writes[m].invalidates : ~IsPrefix(k, Key[query])
        BY <2>6 DEF Invalidated, Matched
      <3>2. known => \A k \in Writes[m].ofUser : ~IsPrefix(k, Key[query])
        BY <2>6 DEF Invalidated, Matched
      <3>3. \A k \in Writes[m].removes : ~IsPrefix(k, Key[query])
        BY <2>1 DEF Matched
      <3>4. ~(query = "projects" /\ ~known)
        BY <1>1, <2>3 DEF ProjectsInv
      <3>5. \/ <<m, query>> \in LeftBehind
            \/ m = "createProject" /\ ~known
        BY <2>1, <2>4, <3>1, <3>2, <3>3, <3>4 DEF Refreshes
      <3>6. QED
        BY <3>5 DEF Excused
    <2>7. QED
      BY <2>5, <2>6
  <1>9. QED
    BY <1>7, <1>8

LEMMA SettleStep ==
  ASSUME CacheInv, NEW m \in Mutations, Settle(m)
  PROVE  CacheInv'
  <1>1. /\ TypeInv /\ ResponsesInv /\ m \in DOMAIN write /\ write[m].step = "applied"
        /\ write' = [write EXCEPT ![m].step = "settled"]
        /\ UNCHANGED <<query, known, mounted, pending>>
    BY DEF CacheInv, Settle
  <1>2. PICK c0 : c0 = [entry |-> entry, flight |-> flight]
    OBVIOUS
  <1>3. PICK c1 : c1 = AfterSet(m, Writes[m].presets, c0)
    OBVIOUS
  <1>4. PICK c2 : c2 = AfterInvalidate(m, c1)
    OBVIOUS
  <1>5. PICK c3 : c3 = AfterSet(m, Writes[m].sets, c2)
    OBVIOUS
  <1>6. PICK c : c = AfterRemove(m, c3)
    OBVIOUS
  <1>7. Good(c) /\ (m \in c.entry.missed => Excused(m, c.entry, c.flight))
    BY <1>1, <1>2, <1>3, <1>4, <1>5, <1>6, SettleExcuses
  <1>8. entry' = c.entry /\ flight' = [c.flight EXCEPT !.late = @ \/ m \in c.flight.missed]
    BY <1>2, <1>3, <1>4, <1>5, <1>6 DEF Settle
  <1>9. c.entry \in EntryState /\ c.flight \in FlightState /\ Sound(c.entry, c.flight)
    BY <1>7 DEF Good, CacheState
  <1>10. /\ flight' \in FlightState /\ flight'.step = c.flight.step
         /\ flight'.missed = c.flight.missed
         /\ c.flight.late \/ m \in c.flight.missed => flight'.late
    <2>1. PICK late \in BOOLEAN : late = (c.flight.late \/ m \in c.flight.missed)
      OBVIOUS
    <2>2. flight' = [c.flight EXCEPT !.late = late]
      BY <1>8, <2>1
    <2>3. QED
      BY <1>9, <2>1, <2>2 DEF FlightState
  <1>11. \A n \in DOMAIN write : write[n] \in WriteState
    BY <1>1 DEF TypeInv
  <1>12. /\ DOMAIN write' = DOMAIN write
         /\ write'[m].step = "settled"
         /\ \A n \in DOMAIN write :
              /\ write'[n] \in WriteState /\ write'[n].missed = write[n].missed
              /\ n # m => write'[n] = write[n]
    BY <1>1, <1>11 DEF WriteState
  <1>13. TypeInv'
    BY <1>1, <1>8, <1>9, <1>10, <1>12 DEF TypeInv
  <1>14. ASSUME NEW ns, Missing(ns) PROVE Missing(ns)'
    BY <1>1, <1>12, <1>14 DEF Missing
  <1>15. Sound(entry, flight)'
    <2>1. PICK ns, fs : ns = c.entry.missed /\ fs = c.flight.missed
      OBVIOUS
    <2>2. Missing(ns) /\ Missing(fs)
      BY <1>9, <2>1 DEF Sound
    <2>3. Missing(ns)' /\ Missing(fs)' /\ entry'.missed = ns /\ flight'.missed = fs
      BY <1>8, <1>10, <1>14, <2>1, <2>2
    <2>4. ASSUME NEW n \in ns, write'[n].step = "settled" PROVE Excused(n, entry, flight)'
      <3>1. Excused(n, c.entry, c.flight)
        <4>1. CASE n = m
          BY <1>7, <2>1, <4>1
        <4>2. CASE n # m
          BY <1>9, <1>12, <2>1, <2>2, <2>4, <4>2 DEF Sound, Missing
        <4>3. QED
          BY <4>1, <4>2
      <3>2. QED
        BY <1>1, <1>8, <1>10, <3>1 DEF Excused
    <2>5. ASSUME NEW n \in fs, write'[n].step = "settled" PROVE flight'.late
      <3>1. CASE n = m
        BY <1>10, <2>1, <3>1
      <3>2. CASE n # m
        BY <1>9, <1>10, <1>12, <2>1, <2>2, <2>5, <3>2 DEF Sound, Missing
      <3>3. QED
        BY <3>1, <3>2
    <2>6. (~entry'.data => entry'.missed = {}) /\ (flight'.step # "answered" => flight'.missed = {})
      BY <1>8, <1>9, <1>10 DEF Sound
    <2>7. QED
      BY <2>3, <2>4, <2>5, <2>6 DEF Sound
  <1>16. ResponsesInv'
    <2> SUFFICES ASSUME NEW n \in DOMAIN write'
                 PROVE  (Missing(write[n].missed) /\ n \notin write[n].missed)'
      BY DEF ResponsesInv
    <2>1. /\ Missing(write[n].missed) /\ n \notin write[n].missed
          /\ write'[n].missed = write[n].missed
      BY <1>1, <1>12 DEF ResponsesInv
    <2>2. PICK ns : ns = write[n].missed
      OBVIOUS
    <2>3. Missing(ns)' /\ write'[n].missed = ns
      BY <1>14, <2>1, <2>2
    <2>4. QED
      BY <2>1, <2>2, <2>3 DEF Missing
  <1>17. ProjectsInv'
    BY <1>1, <1>7, <1>8, <1>10 DEF ProjectsInv, Good
  <1>18. QED
    BY <1>13, <1>15, <1>16, <1>17 DEF CacheInv

-----------------------------------------------------------------------------
LEMMA CacheKept == CacheSpec => []CacheInv
  <1>1. CacheInv /\ [CacheNext]_cacheVars => CacheInv'
    <2> SUFFICES ASSUME CacheInv, [CacheNext]_cacheVars PROVE CacheInv'
      OBVIOUS
    <2>1. CASE \/ Mount \/ Unmount \/ GrowStale \/ Collect \/ Poll \/ Refetch
               \/ Answer \/ Land \/ Fail \/ JobEnds
      BY <2>1, QuerySteps
    <2>2. CASE \E m \in Mutations : Submit(m) \/ Apply(m) \/ Refuse(m) \/ Settle(m)
      BY <2>2, SubmitStep, ApplyStep, RefuseStep, SettleStep
    <2>3. CASE UNCHANGED cacheVars
      BY <2>3 DEF cacheVars, CacheInv, TypeInv, Sound, Missing, Excused, ResponsesInv,
                  ProjectsInv
    <2>4. QED
      BY <2>1, <2>2, <2>3 DEF CacheNext
  <1>2. QED
    BY <1>1, InitCache, PTL DEF CacheSpec

\* Every variable of the cache keeps its type.
THEOREM CacheTypes == CacheSpec => []CacheTypeOK
  <1>1. CacheInv => CacheTypeOK
    BY DEF CacheInv, TypeInv, CacheTypeOK, EntryState, FlightState
  <1>2. QED
    BY <1>1, CacheKept, PTL

\* What a user did is not shown as if it had not happened.
THEOREM WritesAreSeen == CacheSpec => []OwnWritesSeen
  <1>1. CacheInv => OwnWritesSeen
    BY DEF CacheInv, Sound, Excused, OwnWritesSeen
  <1>2. QED
    BY <1>1, CacheKept, PTL
=============================================================================
