------------------------- MODULE ClientSession_proofs -------------------------
(***************************************************************************)
(* Theorems about WebSession, for every set of tabs and users and every    *)
(* bound, and about RemediationPanel, for all pages of findings.           *)
(***************************************************************************)
EXTENDS MCClientSession, QueueLemmas

-----------------------------------------------------------------------------
(* The session of each tab: types.                                         *)

\* The state is typed, a sign-in that is on its way is someone's, and the token
\* it was served with is that one's.
SessionInv ==
  /\ SessionTypeOK
  /\ tab.post.op = "login" =>
       /\ tab.post.user \in Users
       /\ tab.post.step = "served" =>
            tab.post.token \in Token /\ owner[tab.post.token] = tab.post.user

LEMMA NothingSent ==
  /\ NoFetch.of = "none" /\ NoFetch.token = 0 /\ NoFetch.answer = "none"
  /\ NoPost.op = "none" /\ NoPost.token = 0
  BY DEF NoFetch, NoPost

\* A page that is loaded is typed, and so is where the proxy sends it.
LEMMA LoadedTypes ==
  ASSUME SessionTypeOK, NEW s \in {"login", "app", "away"}, NEW p \in Pages \union {""}
  PROVE  /\ Loaded(tab, s, p) \in TabState
         /\ Loaded(tab, s, p).fetch = NoFetch /\ Loaded(tab, s, p).post = NoPost
         /\ Loaded(tab, s, p).code = 0
  BY DEF SessionTypeOK, TabState, Loaded, NoFetch, NoPost, Person, NoOne

LEMMA ProxiedTypes ==
  ASSUME NEW t \in TabState, NEW page \in Pages \union {""}, NEW c
  PROVE  /\ Proxied(t, page, c) \in TabState
         /\ Proxied(t, page, c).fetch = t.fetch /\ Proxied(t, page, c).post = t.post
         /\ Proxied(t, page, c).code = t.code
  BY DEF TabState, Proxied

\* A token that is issued is the owner's, and the others keep theirs.
LEMMA IssueTypes ==
  ASSUME SessionTypeOK, NEW u \in Users, Issue(u)
  PROVE  /\ owner' \in Seq(Users) /\ Len(owner') = Len(owner) + 1 /\ Len(owner) \in Nat
         /\ Token \subseteq Token' /\ Len(owner') \in Token'
         /\ owner'[Len(owner')] = u /\ \A k \in Token : owner'[k] = owner[k]
         /\ live' \subseteq Token'
  <1>1. owner \in Seq(Users) /\ Len(owner) \in Nat /\ owner' = Append(owner, u)
    BY LenProperties DEF SessionTypeOK, Issue
  <1>2. /\ owner' \in Seq(Users) /\ Len(owner') = Len(owner) + 1
        /\ \A k \in Token : owner'[k] = owner[k]
        /\ owner'[Len(owner')] = u
    BY <1>1, AppendElements DEF Token
  <1>3. Token \subseteq Token' /\ Len(owner') \in Token'
    BY <1>1, <1>2 DEF Token
  <1>4. QED
    BY <1>1, <1>2, <1>3 DEF SessionTypeOK, Issue

LEMMA InitSessionInv == SessionInit => SessionInv
  <1> SUFFICES ASSUME SessionInit PROVE SessionInv
    OBVIOUS
  <1>1. /\ tab \in TabState /\ tab.fetch.token = 0 /\ tab.code = 0
        /\ tab.post.token = 0 /\ tab.post.op = "none"
    BY DEF SessionInit, Loaded, TabState, NoFetch, NoPost, Person, NoOne
  <1>2. MaxFaults \in Nat /\ faults = 0
    BY SessionAssumption DEF SessionInit
  <1>3. faults \in 0..MaxFaults
    BY <1>2
  <1>4. google \in [nonce : Nat, redirect : Pages \union {""}]
    BY DEF SessionInit, NoGoogle
  <1>5. owner = <<>> /\ live = {} /\ cookie = 0 /\ nonces = 0
    BY DEF SessionInit
  <1>6. owner \in Seq(Users) /\ live \subseteq Token /\ cookie \in Token \union {0}
    BY <1>5
  <1>7. QED
    BY <1>1, <1>3, <1>4, <1>5, <1>6 DEF SessionInv, SessionTypeOK

\* What a step leaves of the state when only the tab changes.
LEMMA OnlyTab ==
  ASSUME SessionInv, UNCHANGED <<cookie, google, owner, live, nonces, faults>>,
         tab' \in TabState,
         {tab'.fetch.token, tab'.post.token, tab'.code} \subseteq Token \union {0},
         tab'.post.op = "login" => tab'.post = tab.post \/
            (tab'.post.user \in Users /\ tab'.post.step # "served")
  PROVE  SessionInv'
  <1>1. Token' = Token
    BY DEF Token
  <1>2. SessionTypeOK'
    BY <1>1 DEF SessionInv, SessionTypeOK
  <1>3. QED
    BY <1>1, <1>2 DEF SessionInv

LEMMA Navigates ==
  ASSUME SessionInv, NEW page \in Pages \union {""}, Visit(page) \/ Load(page)
  PROVE  SessionInv'
  <1>1. tab \in TabState /\ tab.fetch.token \in Token \union {0}
        /\ tab.post.token \in Token \union {0} /\ tab.code \in Token \union {0}
    BY DEF SessionInv, SessionTypeOK
  <1>2. CASE Visit(page)
    BY <1>1, <1>2, ProxiedTypes, OnlyTab DEF Visit
  <1>3. CASE Load(page)
    <2> DEFINE t == Loaded(tab, "login", "")
    <2>1. t \in TabState /\ t.fetch = NoFetch /\ t.post = NoPost /\ t.code = 0
      BY LoadedTypes DEF SessionInv
    <2>2. tab' = Proxied(t, page, cookie)
      BY <1>3 DEF Load
    <2> HIDE DEF t
    <2>3. /\ tab' \in TabState /\ tab'.fetch = NoFetch /\ tab'.post = NoPost
          /\ tab'.code = 0
      BY <2>1, <2>2, ProxiedTypes
    <2>4. QED
      BY <1>3, <2>3, NothingSent, OnlyTab DEF Load
  <1>4. QED
    BY <1>2, <1>3

LEMMA Fetches ==
  ASSUME SessionInv, (\E of \in {"me", "data"} : Fetch(of)) \/ Serve \/ Land \/ StartSetup
  PROVE  SessionInv'
  <1>1. /\ tab \in TabState /\ tab.fetch.token \in Token \union {0}
        /\ tab.post.token \in Token \union {0} /\ tab.code \in Token \union {0}
        /\ cookie \in Token \union {0} /\ owner \in Seq(Users) /\ live \subseteq Token
    BY DEF SessionInv, SessionTypeOK
  <1>2. ASSUME NEW of \in {"me", "data"}, Fetch(of)
        PROVE  SessionInv'
    <2>1. [of |-> of, token |-> cookie, answer |-> "none"] \in
            [of : {"none", "me", "data"}, token : Nat, answer : Person]
      BY <1>1 DEF Token, Person, NoOne
    <2>2. /\ tab' \in TabState /\ tab'.post = tab.post /\ tab'.code = tab.code
          /\ tab'.fetch.token = cookie
      BY <1>1, <1>2, <2>1 DEF Fetch, TabState
    <2>3. QED
      BY <1>1, <1>2, <2>2, OnlyTab DEF Fetch
  <1>3. CASE Serve
    <2>1. \A k \in Token : owner[k] \in Users
      BY <1>1, ElementOfSeq DEF Token
    <2>2. (IF tab.fetch.token \in live THEN owner[tab.fetch.token] ELSE "error") \in Person
      BY <1>1, <2>1 DEF Person, NoOne
    <2>3. /\ tab' \in TabState /\ tab'.post = tab.post /\ tab'.code = tab.code
          /\ tab'.fetch.token = tab.fetch.token
      BY <1>1, <1>3, <2>2 DEF Serve, TabState
    <2>4. QED
      BY <1>1, <1>3, <2>3, OnlyTab DEF Serve
  <1>4. CASE Land
    <2>1. tab.fetch.answer \in Person /\ tab.me \in Person
      BY <1>1 DEF TabState
    <2>2. (IF tab.fetch.of = "data" /\ tab.fetch.answer # "error"
           THEN tab.data \union {tab.fetch.answer} ELSE tab.data) \subseteq Users
      BY <1>1, <1>4, <2>1 DEF Land, TabState, Person, NoOne
    <2>3. NoFetch \in [of : {"none", "me", "data"}, token : Nat, answer : Person]
      BY DEF NoFetch, Person, NoOne
    <2>4. /\ tab' \in TabState /\ tab'.post = tab.post /\ tab'.code = tab.code
          /\ tab'.fetch = NoFetch
      BY <1>1, <1>4, <2>1, <2>2, <2>3 DEF Land, TabState
    <2>5. QED
      BY <1>1, <1>4, <2>4, NothingSent, OnlyTab DEF Land
  <1>5. CASE StartSetup
    <2>1. /\ tab' \in TabState /\ tab'.post = tab.post /\ tab'.code = tab.code
          /\ tab'.fetch = tab.fetch
      BY <1>1, <1>5 DEF StartSetup, TabState, Person, NoOne
    <2>2. QED
      BY <1>1, <1>5, <2>1, OnlyTab DEF StartSetup
  <1>6. QED
    BY <1>2, <1>3, <1>4, <1>5

LEMMA Submits ==
  ASSUME SessionInv, (\E u \in Users : SubmitLogin(u)) \/ LoginRefused \/ SubmitLogout
  PROVE  SessionInv'
  <1>1. /\ tab \in TabState /\ tab.fetch.token \in Token \union {0}
        /\ tab.post.token \in Token \union {0} /\ tab.code \in Token \union {0}
        /\ cookie \in Token \union {0}
    BY DEF SessionInv, SessionTypeOK
  <1>2. ASSUME NEW u \in Users, SubmitLogin(u)
        PROVE  SessionInv'
    <2>1. /\ tab'.post = [op |-> "login", user |-> u, token |-> 0, step |-> "sent"]
          /\ tab' \in TabState /\ tab'.fetch = tab.fetch /\ tab'.code = tab.code
      BY <1>1, <1>2 DEF SubmitLogin, TabState, NoPost
    <2>2. /\ tab'.post.op = "login" /\ tab'.post.user = u /\ tab'.post.token = 0
          /\ tab'.post.step = "sent"
      BY <2>1
    <2>3. UNCHANGED <<cookie, google, owner, live, nonces, faults>>
      BY <1>2 DEF SubmitLogin
    <2>4. QED
      BY <1>1, <2>1, <2>2, <2>3, OnlyTab
  <1>3. CASE LoginRefused
    <2>1. NoPost \in [op : {"none", "login", "logout"}, user : Users \union {"none"},
                      token : Nat, step : {"none", "sent", "served"}]
      BY DEF NoPost
    <2>2. /\ tab'.post = NoPost /\ tab' \in TabState /\ tab'.fetch = tab.fetch
          /\ tab'.code = tab.code
      BY <1>1, <1>3, <2>1 DEF LoginRefused, TabState
    <2>3. QED
      BY <1>1, <1>3, <2>2, NothingSent, OnlyTab DEF LoginRefused
  <1>4. CASE SubmitLogout
    <2>1. cookie \in Nat
      BY <1>1 DEF Token
    <2>2. /\ tab'.post = [op |-> "logout", user |-> "none", token |-> cookie, step |-> "sent"]
          /\ tab' \in TabState /\ tab'.fetch = tab.fetch /\ tab'.code = tab.code
      BY <1>1, <1>4, <2>1 DEF SubmitLogout, TabState, NoPost
    <2>3. tab'.post.op = "logout" /\ tab'.post.token = cookie
      BY <2>2
    <2>4. UNCHANGED <<cookie, google, owner, live, nonces, faults>>
      BY <1>4 DEF SubmitLogout
    <2>5. QED
      BY <1>1, <2>2, <2>3, <2>4, OnlyTab
  <1>5. QED
    BY <1>2, <1>3, <1>4

\* What any step leaves, from what it does to the parts.
LEMMA AnyStep ==
  ASSUME SessionInv,
         owner' \in Seq(Users), Token \subseteq Token', \A k \in Token : owner'[k] = owner[k],
         live' \subseteq Token', cookie' \in Token' \union {0},
         nonces' \in Nat, faults' \in 0..MaxFaults,
         google' \in [nonce : Nat, redirect : Pages \union {""}],
         tab' \in TabState,
         tab'.fetch.token \in Token' \union {0}, tab'.post.token \in Token' \union {0},
         tab'.code \in Token' \union {0},
         \/ tab'.post = tab.post
         \/ tab'.post.op # "login"
         \/ /\ tab'.post.user \in Users
            /\ tab'.post.token \in Token' /\ owner'[tab'.post.token] = tab'.post.user
  PROVE  SessionInv'
  <1>1. SessionTypeOK'
    BY DEF SessionTypeOK
  <1>2. ASSUME tab'.post.op = "login"
        PROVE  /\ tab'.post.user \in Users
               /\ tab'.post.step = "served" =>
                    tab'.post.token \in Token' /\ owner'[tab'.post.token] = tab'.post.user
    BY <1>2 DEF SessionInv
  <1>3. QED
    BY <1>1, <1>2 DEF SessionInv

\* What SessionInv says of the parts, in the form AnyStep asks for.
LEMMA Parts ==
  ASSUME SessionInv
  PROVE  /\ owner \in Seq(Users) /\ live \subseteq Token /\ cookie \in Token \union {0}
         /\ nonces \in Nat /\ faults \in 0..MaxFaults
         /\ google \in [nonce : Nat, redirect : Pages \union {""}]
         /\ tab \in TabState
         /\ tab.fetch.token \in Token \union {0} /\ tab.post.token \in Token \union {0}
         /\ tab.code \in Token \union {0}
         /\ Len(owner) \in Nat /\ \A k \in Token : k \in Nat /\ owner[k] \in Users
  <1>1. Len(owner) \in Nat /\ \A k \in 1..Len(owner) : k \in Nat /\ owner[k] \in Users
    <2>1. owner \in Seq(Users)
      BY DEF SessionInv, SessionTypeOK
    <2>2. \A k \in 1..Len(owner) : owner[k] \in Users
      BY <2>1, ElementOfSeq
    <2>3. QED
      BY <2>1, <2>2, LenProperties
  <1>2. /\ owner \in Seq(Users) /\ live \subseteq Token /\ cookie \in Token \union {0}
        /\ nonces \in Nat /\ faults \in 0..MaxFaults
        /\ google \in [nonce : Nat, redirect : Pages \union {""}]
        /\ tab \in TabState
        /\ tab.fetch.token \in Token \union {0} /\ tab.post.token \in Token \union {0}
        /\ tab.code \in Token \union {0}
    BY DEF SessionInv, SessionTypeOK
  <1>3. QED
    BY <1>1, <1>2 DEF Token

LEMMA FaultTypes ==
  ASSUME SessionInv, Fault
  PROVE  faults' \in 0..MaxFaults
  <1>1. MaxFaults \in Nat /\ faults \in 0..MaxFaults /\ faults < MaxFaults
    BY SessionAssumption DEF SessionInv, SessionTypeOK, Fault
  <1>2. QED
    BY <1>1 DEF Fault

LEMMA NonceDrawn ==
  ASSUME nonces \in Nat, nonces' = nonces + 1
  PROVE  nonces' \in Nat
  OBVIOUS

LEMMA NoPostTypes ==
  NoPost \in [op : {"none", "login", "logout"}, user : Users \union {"none"},
             token : Nat, step : {"none", "sent", "served"}]
  BY DEF NoPost

LEMMA ResetTypes ==
  ASSUME NEW t \in TabState, NEW user \in Person
  PROVE  /\ Reset(t, user) \in TabState
         /\ Reset(t, user).fetch = NoFetch /\ Reset(t, user).post = t.post
         /\ Reset(t, user).code = t.code
  BY DEF TabState, Reset, NoFetch, Person, NoOne

LEMMA SwitchTypes ==
  ASSUME NEW t \in TabState
  PROVE  /\ Switch(t) \in TabState
         /\ Switch(t).fetch = t.fetch /\ Switch(t).post = t.post
         /\ Switch(t).code = t.code
  BY DEF TabState, Switch

LEMMA SignsIn ==
  ASSUME SessionInv, ServeLogin \/ LoginLands \/ LoginLost
  PROVE  SessionInv'
  <1>1. CASE ServeLogin
    <2>1. Issue(tab.post.user) /\ tab.post.user \in Users
      BY <1>1 DEF ServeLogin, SessionInv
    <2>2. /\ owner' \in Seq(Users) /\ Len(owner') \in Nat
          /\ Token \subseteq Token' /\ Len(owner') \in Token'
          /\ owner'[Len(owner')] = tab.post.user /\ \A k \in Token : owner'[k] = owner[k]
          /\ live' \subseteq Token'
      <3>1. \A u \in Users : Issue(u) =>
              /\ owner' \in Seq(Users) /\ Len(owner') = Len(owner) + 1 /\ Len(owner) \in Nat
              /\ Token \subseteq Token' /\ Len(owner') \in Token'
              /\ owner'[Len(owner')] = u /\ \A k \in Token : owner'[k] = owner[k]
              /\ live' \subseteq Token'
        BY IssueTypes DEF SessionInv
      <3>2. QED
        BY <2>1, <3>1
    <2>3. /\ tab' \in TabState /\ tab'.fetch = tab.fetch /\ tab'.code = tab.code
          /\ tab'.post.user = tab.post.user /\ tab'.post.token = Len(owner')
      BY <1>1, <2>2, Parts DEF ServeLogin, TabState
    <2>4. UNCHANGED <<cookie, google, nonces, faults>>
      BY <1>1 DEF ServeLogin
    <2>5. QED
      BY <2>1, <2>2, <2>3, <2>4, Parts, AnyStep
  <1>2. CASE LoginLands
    <2>1. /\ tab.post.user \in Users /\ tab.post.token \in Token
          /\ cookie' = tab.post.token
      BY <1>2 DEF LoginLands, SessionInv
    <2> DEFINE t == Reset(tab, tab.post.user)
    <2>2. t \in TabState /\ t.fetch = NoFetch /\ t.code = tab.code
      BY <2>1, Parts, ResetTypes DEF Person
    <2>3. Landing(tab.wish) \in Pages
      BY Parts DEF Landing, Pages, TabState
    <2>4. tab' = [t EXCEPT !.post = NoPost, !.screen = "app", !.path = Landing(tab.wish),
                           !.wish = ""]
      BY <1>2 DEF LoginLands
    <2>5. UNCHANGED <<google, owner, live, nonces, faults>>
      BY <1>2 DEF LoginLands
    <2> HIDE DEF t
    <2>6. /\ tab' \in TabState /\ tab'.fetch = NoFetch /\ tab'.code = tab.code
          /\ tab'.post = NoPost
      BY <2>2, <2>3, <2>4, NoPostTypes DEF TabState
    <2>7. Token' = Token
      BY <2>5 DEF Token
    <2>8. QED
      BY <2>1, <2>5, <2>6, <2>7, NothingSent, Parts, AnyStep
  <1>3. CASE LoginLost
    <2>1. /\ UNCHANGED <<google, owner, live, nonces>> /\ Fault
          /\ tab.post.op = "login" /\ tab.post.step = "served"
      BY <1>3 DEF LoginLost
    <2>2. Token' = Token
      BY <2>1 DEF Token
    <2>3. PICK t \in {tab, Switch(tab)} : /\ tab' = [t EXCEPT !.post = NoPost, !.wish = ""]
                                         /\ cookie' \in {cookie, tab.post.token}
      BY <1>3 DEF LoginLost
    <2>4. t \in TabState /\ t.fetch = tab.fetch /\ t.code = tab.code
      BY Parts, SwitchTypes
    <2>5. /\ tab' \in TabState /\ tab'.fetch = tab.fetch /\ tab'.code = tab.code
          /\ tab'.post = NoPost
      BY <2>3, <2>4, NoPostTypes DEF TabState
    <2>6. QED
      BY <2>1, <2>2, <2>3, <2>5, NothingSent, FaultTypes, Parts, AnyStep
  <1>4. QED
    BY <1>1, <1>2, <1>3

LEMMA SignsOut ==
  ASSUME SessionInv, ServeLogout \/ LogoutLands \/ LogoutLost
  PROVE  SessionInv'
  <1>1. CASE ServeLogout
    <2>1. /\ tab' \in TabState /\ tab'.fetch = tab.fetch /\ tab'.code = tab.code
          /\ tab'.post.op = "logout" /\ tab'.post.token = tab.post.token
      BY <1>1, Parts DEF ServeLogout, TabState
    <2>2. UNCHANGED <<cookie, google, owner, nonces, faults>> /\ live' \subseteq live
      BY <1>1 DEF ServeLogout
    <2>3. Token' = Token
      BY <2>2 DEF Token
    <2>4. QED
      BY <2>1, <2>2, <2>3, Parts, AnyStep
  <1>2. CASE LogoutLands
    <2> DEFINE r == Reset(tab, "none")  t == [r EXCEPT !.post = NoPost]
    <2>1. r \in TabState /\ r.fetch = NoFetch /\ r.code = tab.code
      BY Parts, ResetTypes DEF Person, NoOne
    <2>2. tab' = Proxied(t, "", 0)
      BY <1>2 DEF LogoutLands
    <2> HIDE DEF r
    <2>3. t \in TabState /\ t.fetch = NoFetch /\ t.code = tab.code /\ t.post = NoPost
      BY <2>1, NoPostTypes DEF TabState
    <2> HIDE DEF t
    <2>4. /\ tab' \in TabState /\ tab'.fetch = NoFetch /\ tab'.code = tab.code
          /\ tab'.post = NoPost
      BY <2>2, <2>3, ProxiedTypes
    <2>5. UNCHANGED <<google, owner, live, nonces, faults>> /\ cookie' = 0
      BY <1>2 DEF LogoutLands
    <2>6. Token' = Token
      BY <2>5 DEF Token
    <2>7. QED
      BY <2>4, <2>5, <2>6, NothingSent, Parts, AnyStep
  <1>3. CASE LogoutLost
    <2> DEFINE t == [tab EXCEPT !.post = NoPost]
    <2>1. t \in TabState /\ t.fetch = tab.fetch /\ t.code = tab.code /\ t.post = NoPost
      BY Parts, NoPostTypes DEF TabState
    <2>2. /\ UNCHANGED <<google, owner, live, nonces>> /\ Fault
          /\ cookie' \in {cookie, 0} /\ tab' = Proxied(t, "", cookie')
      BY <1>3 DEF LogoutLost
    <2> HIDE DEF t
    <2>3. PICK c \in {cookie, 0} : tab' = Proxied(t, "", c)
      BY <2>2
    <2>4. /\ tab' \in TabState /\ tab'.fetch = tab.fetch /\ tab'.code = tab.code
          /\ tab'.post = NoPost
      BY <2>1, <2>3, ProxiedTypes
    <2>5. Token' = Token
      BY <2>2 DEF Token
    <2>6. QED
      BY <2>2, <2>4, <2>5, NothingSent, FaultTypes, Parts, AnyStep
  <1>4. QED
    BY <1>1, <1>2, <1>3

LEMMA ThroughGoogle ==
  ASSUME SessionInv, GoogleStart \/ (\E u \in Users : GoogleConsent(u)) \/ GoogleCallback
  PROVE  SessionInv'
  <1>1. CASE GoogleStart
    <2> DEFINE t == Loaded(tab, "away", "")
    <2>1. t \in TabState /\ t.fetch = NoFetch /\ t.post = NoPost /\ t.code = 0
      BY LoadedTypes DEF SessionInv
    <2>2. /\ tab' = [t EXCEPT !.attempt = nonces', !.wish = tab.path]
          /\ nonces' = nonces + 1 /\ google' = [nonce |-> nonces', redirect |-> tab.path]
          /\ UNCHANGED <<cookie, owner, live, faults>>
      BY <1>1 DEF GoogleStart
    <2> HIDE DEF t
    <2>3. /\ tab.path \in Pages \union {""} /\ nonces' \in Nat
          /\ google' \in [nonce : Nat, redirect : Pages \union {""}]
      <3>1. nonces \in Nat /\ tab \in TabState
        BY Parts
      <3>2. tab.path \in Pages \union {""}
        BY <3>1 DEF TabState
      <3>3. nonces' \in Nat
        BY <2>2, <3>1
      <3>4. google' = [nonce |-> nonces', redirect |-> tab.path]
        BY <2>2
      <3>5. QED
        BY <3>2, <3>3, <3>4
    <2>4. /\ tab' \in TabState /\ tab'.fetch = NoFetch /\ tab'.post = NoPost
          /\ tab'.code = 0
      BY <2>1, <2>2, <2>3 DEF TabState
    <2>5. Token' = Token
      BY <2>2 DEF Token
    <2>6. QED
      BY <2>2, <2>3, <2>4, <2>5, NothingSent, Parts, AnyStep
  <1>2. ASSUME NEW u \in Users, GoogleConsent(u)
        PROVE  SessionInv'
    <2>1. /\ owner' \in Seq(Users) /\ Len(owner') \in Nat
          /\ Token \subseteq Token' /\ Len(owner') \in Token'
          /\ \A k \in Token : owner'[k] = owner[k]
          /\ live' \subseteq Token'
      BY <1>2, IssueTypes DEF GoogleConsent, SessionInv
    <2>2. /\ tab' \in TabState /\ tab'.fetch = tab.fetch /\ tab'.post = tab.post
          /\ tab'.code = Len(owner')
      BY <1>2, <2>1, Parts DEF GoogleConsent, TabState
    <2>3. UNCHANGED <<cookie, google, nonces, faults>>
      BY <1>2 DEF GoogleConsent
    <2>4. QED
      BY <2>1, <2>2, <2>3, Parts, AnyStep
  <1>3. CASE GoogleCallback
    <2>1. UNCHANGED <<owner, live, nonces, faults>> /\ google' = NoGoogle
      BY <1>3 DEF GoogleCallback
    <2>2. Token' = Token /\ google' \in [nonce : Nat, redirect : Pages \union {""}]
      BY <2>1 DEF Token, NoGoogle
    <2>3. CASE tab.code # 0 /\ google.nonce = tab.attempt
      <3>1. Landing(google.redirect) \in Pages
        BY Parts DEF Landing, Pages
      <3> DEFINE t == Loaded(tab, "app", Landing(google.redirect))
      <3>2. t \in TabState /\ t.fetch = NoFetch /\ t.post = NoPost /\ t.code = 0
        BY <3>1, LoadedTypes DEF SessionInv
      <3>3. tab' = [t EXCEPT !.drifted = TRUE] /\ cookie' = tab.code
        BY <1>3, <2>3 DEF GoogleCallback
      <3> HIDE DEF t
      <3>4. /\ tab' \in TabState /\ tab'.fetch = NoFetch /\ tab'.post = NoPost
            /\ tab'.code = 0
        BY <3>2, <3>3 DEF TabState
      <3>5. QED
        BY <2>1, <2>2, <3>3, <3>4, NothingSent, Parts, AnyStep
    <2>4. CASE ~(tab.code # 0 /\ google.nonce = tab.attempt)
      <3> DEFINE t == Loaded(tab, "login", "")
      <3>1. t \in TabState /\ t.fetch = NoFetch /\ t.post = NoPost /\ t.code = 0
        BY LoadedTypes DEF SessionInv
      <3>2. tab' = Proxied(t, "", cookie) /\ cookie' = cookie
        BY <1>3, <2>4 DEF GoogleCallback
      <3> HIDE DEF t
      <3>3. /\ tab' \in TabState /\ tab'.fetch = NoFetch /\ tab'.post = NoPost
            /\ tab'.code = 0
        BY <3>1, <3>2, ProxiedTypes
      <3>4. QED
        BY <2>1, <2>2, <3>2, <3>3, NothingSent, Parts, AnyStep
    <2>5. QED
      BY <2>3, <2>4
  <1>4. QED
    BY <1>1, <1>2, <1>3

LEMMA Elsewhere ==
  ASSUME SessionInv,
         \/ Expire \/ OtherSignsOut
         \/ \E u \in Users : AccountDeleted(u) \/ OtherSignsIn(u) \/ OtherGoogleCallback(u)
         \/ \E page \in Pages \union {""} : OtherGoogleStart(page)
  PROVE  SessionInv'
  <1>1. CASE Expire
    <2>1. UNCHANGED <<google, owner, live, nonces, tab>> /\ cookie' = 0 /\ Fault
      BY <1>1 DEF Expire
    <2>2. Token' = Token
      BY <2>1 DEF Token
    <2>3. QED
      BY <2>1, <2>2, FaultTypes, Parts, AnyStep
  <1>2. CASE OtherSignsOut
    <2>1. /\ UNCHANGED <<google, owner, nonces, faults, tab>> /\ cookie' = 0
          /\ live' \subseteq live
      BY <1>2 DEF OtherSignsOut
    <2>2. Token' = Token
      BY <2>1 DEF Token
    <2>3. QED
      BY <2>1, <2>2, Parts, AnyStep
  <1>3. ASSUME NEW u \in Users, AccountDeleted(u)
        PROVE  SessionInv'
    <2>1. /\ UNCHANGED <<cookie, google, owner, nonces, tab>> /\ Fault
          /\ live' \subseteq live
      BY <1>3 DEF AccountDeleted
    <2>2. Token' = Token
      BY <2>1 DEF Token
    <2>3. QED
      BY <2>1, <2>2, FaultTypes, Parts, AnyStep
  <1>4. ASSUME NEW u \in Users, Issue(u), cookie' = Len(owner'), tab' = Switch(tab),
               UNCHANGED <<nonces, faults>>,
               google' \in [nonce : Nat, redirect : Pages \union {""}]
        PROVE  SessionInv'
    <2>1. /\ owner' \in Seq(Users)
          /\ Token \subseteq Token' /\ Len(owner') \in Token'
          /\ \A k \in Token : owner'[k] = owner[k]
          /\ live' \subseteq Token'
      BY <1>4, IssueTypes DEF SessionInv
    <2>2. /\ tab' \in TabState /\ tab'.fetch = tab.fetch /\ tab'.post = tab.post
          /\ tab'.code = tab.code
      BY <1>4, Parts, SwitchTypes
    <2>3. QED
      BY <1>4, <2>1, <2>2, Parts, AnyStep
  <1>5. ASSUME NEW u \in Users, OtherSignsIn(u)
        PROVE  SessionInv'
    BY <1>4, <1>5, Parts DEF OtherSignsIn
  <1>6. ASSUME NEW u \in Users, OtherGoogleCallback(u)
        PROVE  SessionInv'
    <2>1. google' \in [nonce : Nat, redirect : Pages \union {""}]
      BY <1>6 DEF OtherGoogleCallback, NoGoogle
    <2>2. CASE UNCHANGED <<cookie, owner, live, tab>>
      <3>1. Token' = Token
        BY <2>2 DEF Token
      <3>2. UNCHANGED <<nonces, faults>>
        BY <1>6 DEF OtherGoogleCallback
      <3>3. QED
        BY <2>1, <2>2, <3>1, <3>2, Parts, AnyStep
    <2>3. CASE Issue(u) /\ cookie' = Len(owner') /\ tab' = Switch(tab)
      BY <1>4, <1>6, <2>1, <2>3 DEF OtherGoogleCallback
    <2>4. QED
      BY <1>6, <2>2, <2>3 DEF OtherGoogleCallback
  <1>7. ASSUME NEW page \in Pages \union {""}, OtherGoogleStart(page)
        PROVE  SessionInv'
    <2>1. /\ UNCHANGED <<cookie, owner, live, faults, tab>> /\ nonces' = nonces + 1
          /\ google' = [nonce |-> nonces', redirect |-> page]
      BY <1>7 DEF OtherGoogleStart
    <2>2. Token' = Token
      BY <2>1 DEF Token
    <2>3. nonces' \in Nat /\ google' \in [nonce : Nat, redirect : Pages \union {""}]
      <3>1. nonces \in Nat
        BY Parts
      <3>2. nonces' = nonces + 1
        BY <2>1
      <3>3. nonces' \in Nat
        BY <3>1, <3>2, NonceDrawn
      <3>4. google' = [nonce |-> nonces', redirect |-> page]
        BY <2>1
      <3>5. QED
        BY <3>3, <3>4
    <2>4. QED
      BY <2>1, <2>2, <2>3, Parts, AnyStep
  <1>8. QED
    BY <1>1, <1>2, <1>3, <1>5, <1>6, <1>7

LEMMA SessionKept == SessionSpec => []SessionInv
  <1>1. SessionInv /\ [SessionNext]_sessionVars => SessionInv'
    <2> SUFFICES ASSUME SessionInv, [SessionNext]_sessionVars
                 PROVE  SessionInv'
      OBVIOUS
    <2>1. CASE UNCHANGED sessionVars
      BY <2>1 DEF sessionVars, SessionInv, SessionTypeOK, Token
    <2>2. CASE SessionNext
      BY <2>2, Navigates, Fetches, Submits, SignsIn, SignsOut, ThroughGoogle, Elsewhere
         DEF SessionNext
    <2>3. QED
      BY <2>1, <2>2
  <1>2. QED
    BY <1>1, InitSessionInv, PTL DEF SessionSpec

-----------------------------------------------------------------------------
(* Whose data a tab has and may still get.                                 *)

\* The users a tab names: in what it shows and in what its session and the
\* request it waits for will bring.
Named(u) ==
  \/ u \in tab.data \union {tab.me, tab.fetch.answer}
  \/ \E k \in {cookie, tab.fetch.token} \ {0} : owner[k] = u

\* They are one user unless the tab missed a change of the session, and it is
\* the one whose guided setup the tab has.
OneInv == ~tab.switched => \A u, v \in Users : Named(u) /\ Named(v) => u = v
OwnInv == ~tab.drifted =>
  ~tab.switched /\ \A u \in Users : Named(u) => tab.setup \in {"none", u}
UserInv == OneInv /\ OwnInv

\* A step that names no one anew.
LEMMA Narrows ==
  ASSUME UserInv, \A u \in Users : Named(u)' => Named(u),
         tab'.switched = tab.switched, tab'.drifted = tab.drifted, tab'.setup = tab.setup
  PROVE  UserInv'
  <1>1. OneInv'
    <2> SUFFICES ASSUME ~tab'.switched, NEW u \in Users, NEW v \in Users, Named(u)', Named(v)'
                 PROVE  u = v
      BY DEF OneInv
    <2>1. Named(u) /\ Named(v) /\ ~tab.switched
      OBVIOUS
    <2>2. QED
      BY <2>1 DEF UserInv, OneInv
  <1>2. OwnInv'
    <2> SUFFICES ASSUME ~tab'.drifted
                 PROVE  ~tab'.switched /\ \A u \in Users : Named(u)' => tab'.setup \in {"none", u}
      BY DEF OwnInv
    <2>1. QED
      BY DEF UserInv, OwnInv
  <1>3. QED
    BY <1>1, <1>2 DEF UserInv

\* A step after which the tab names no one but x.
LEMMA NamesOne ==
  ASSUME NEW x, \A u \in Users : Named(u)' => u = x,
         tab'.switched = FALSE, tab'.drifted \/ tab'.setup = "none"
  PROVE  UserInv'
  <1>1. OneInv'
    BY DEF OneInv
  <1>2. OwnInv'
    BY DEF OwnInv
  <1>3. QED
    BY <1>1, <1>2 DEF UserInv

\* A page that is loaded afresh names no one but the user of the session.
LEMMA LoadsAfresh ==
  ASSUME SessionInv, UserInv, tab'.data = {}, tab'.me = "none", tab'.fetch = NoFetch,
         tab'.switched = FALSE, tab'.drifted = tab.drifted, tab'.setup = tab.setup,
         UNCHANGED <<cookie, owner>>
  PROVE  UserInv'
  <1>1. \A u \in Users : Named(u)' => cookie # 0 /\ owner[cookie] = u
    <2> SUFFICES ASSUME NEW u \in Users, Named(u)'
                 PROVE  cookie # 0 /\ owner[cookie] = u
      OBVIOUS
    <2>1. u # "none"
      BY SessionAssumption
    <2>2. tab'.fetch.token = 0 /\ tab'.fetch.answer = "none"
      BY NothingSent
    <2>3. u \notin tab'.data \union {tab'.me, tab'.fetch.answer}
      BY <2>1, <2>2
    <2>4. PICK k \in {cookie', tab'.fetch.token} \ {0} : owner'[k] = u
      BY <2>3 DEF Named
    <2>5. QED
      BY <2>2, <2>4
  <1>2. OneInv'
    BY <1>1 DEF OneInv
  <1>3. \A u \in Users : Named(u)' => Named(u)
    BY <1>1 DEF Named
  <1>4. OwnInv'
    BY <1>3 DEF UserInv, OwnInv
  <1>5. QED
    BY <1>2, <1>4 DEF UserInv

LEMMA SwitchNames ==
  ASSUME tab'.switched = TRUE, tab'.drifted = TRUE
  PROVE  UserInv'
  BY DEF UserInv, OneInv, OwnInv

LEMMA InitUsers == SessionInit => UserInv
  <1> SUFFICES ASSUME SessionInit PROVE UserInv
    OBVIOUS
  <1>1. /\ tab.data = {} /\ tab.me = "none" /\ tab.fetch = NoFetch /\ tab.switched = FALSE
        /\ tab.setup = "none" /\ cookie = 0
    BY DEF SessionInit, Loaded
  <1>2. tab.fetch.token = 0 /\ tab.fetch.answer = "none"
    BY <1>1, NothingSent
  <1>3. \A u \in Users : ~Named(u)
    BY <1>1, <1>2, SessionAssumption DEF Named
  <1>4. QED
    BY <1>1, <1>3 DEF UserInv, OneInv, OwnInv

\* A step that changes neither the session nor what the tab has, at most its
\* screen, its forms and its requests to sign in and out.
SameNames ==
  /\ tab'.data = tab.data /\ tab'.me = tab.me /\ tab'.fetch = tab.fetch
  /\ tab'.switched = tab.switched /\ tab'.drifted = tab.drifted /\ tab'.setup = tab.setup

LEMMA KeepsNames ==
  ASSUME SessionInv, UserInv, SameNames, cookie' \in {cookie, 0},
         \A k \in Token : owner'[k] = owner[k]
  PROVE  UserInv'
  <1>1. \A u \in Users : Named(u)' => Named(u)
    <2> SUFFICES ASSUME NEW u \in Users, Named(u)' PROVE Named(u)
      OBVIOUS
    <2>1. CASE u \in tab'.data \union {tab'.me, tab'.fetch.answer}
      BY <2>1 DEF Named, SameNames
    <2>2. ASSUME NEW k \in {cookie', tab'.fetch.token} \ {0}, owner'[k] = u
          PROVE  Named(u)
      <3>1. k \in {cookie, tab.fetch.token} \ {0}
        BY <2>2 DEF SameNames
      <3>2. k \in Token
        BY <3>1, Parts
      <3>3. owner[k] = u
        BY <2>2, <3>2
      <3>4. QED
        BY <3>1, <3>3 DEF Named
    <2>3. QED
      BY <2>1, <2>2 DEF Named
  <1>2. QED
    BY <1>1, Narrows DEF SameNames

-----------------------------------------------------------------------------
(* One step.                                                               *)

LEMMA NavigatesUsers ==
  ASSUME SessionInv, UserInv, NEW page \in Pages \union {""}, Visit(page) \/ Load(page)
  PROVE  UserInv'
  <1>1. tab \in TabState
    BY Parts
  <1>2. CASE Visit(page)
    <2>1. SameNames
      BY <1>1, <1>2 DEF Visit, Proxied, SameNames, TabState
    <2>2. UNCHANGED <<cookie, owner>>
      BY <1>2 DEF Visit
    <2>3. QED
      BY <2>1, <2>2, KeepsNames
  <1>3. CASE Load(page)
    <2>1. /\ tab'.data = {} /\ tab'.me = "none" /\ tab'.fetch = NoFetch
          /\ tab'.switched = FALSE /\ tab'.drifted = tab.drifted /\ tab'.setup = tab.setup
      BY <1>3 DEF Load, Proxied, Loaded
    <2>2. UNCHANGED <<cookie, owner>>
      BY <1>3 DEF Load
    <2>3. QED
      BY <2>1, <2>2, LoadsAfresh
  <1>4. QED
    BY <1>2, <1>3

LEMMA FetchesUsers ==
  ASSUME SessionInv, UserInv,
         (\E of \in {"me", "data"} : Fetch(of)) \/ Serve \/ Land \/ StartSetup
  PROVE  UserInv'
  <1>1. tab \in TabState
    BY Parts
  <1>2. UNCHANGED <<cookie, owner>>
    BY DEF Fetch, Serve, Land, StartSetup
  <1>3. ASSUME NEW of \in {"me", "data"}, Fetch(of)
        PROVE  UserInv'
    <2>1. /\ tab'.fetch.token = cookie /\ tab'.fetch.answer = "none"
          /\ tab'.data = tab.data /\ tab'.me = tab.me /\ tab'.switched = tab.switched
          /\ tab'.drifted = tab.drifted /\ tab'.setup = tab.setup
      BY <1>1, <1>3 DEF Fetch, TabState
    <2>2. \A u \in Users : Named(u)' => Named(u)
      BY <1>2, <2>1, SessionAssumption DEF Named
    <2>3. QED
      BY <2>1, <2>2, Narrows
  <1>4. CASE Serve
    <2>1. /\ tab'.fetch.token = tab.fetch.token
          /\ tab'.fetch.answer = (IF tab.fetch.token \in live THEN owner[tab.fetch.token]
                                 ELSE "error")
          /\ tab'.data = tab.data /\ tab'.me = tab.me /\ tab'.switched = tab.switched
          /\ tab'.drifted = tab.drifted /\ tab'.setup = tab.setup
      BY <1>1, <1>4 DEF Serve, TabState
    <2>2. tab.fetch.token \in live => tab.fetch.token # 0
      <3>1. live \subseteq Token /\ Len(owner) \in Nat
        BY Parts
      <3>2. \A k \in Token : k # 0
        BY <3>1 DEF Token
      <3>3. QED
        BY <3>1, <3>2
    <2>3. \A u \in Users : Named(u)' => Named(u)
      BY <1>2, <2>1, <2>2, SessionAssumption DEF Named
    <2>4. QED
      BY <2>1, <2>3, Narrows
  <1>5. CASE Land
    <2>1. /\ tab'.fetch = NoFetch
          /\ tab'.data \subseteq tab.data \union {tab.fetch.answer}
          /\ tab'.me \in {tab.me, tab.fetch.answer} /\ tab'.switched = tab.switched
          /\ tab'.drifted = tab.drifted /\ tab'.setup = tab.setup
      BY <1>1, <1>5 DEF Land, TabState
    <2>2. tab'.fetch.token = 0 /\ tab'.fetch.answer = "none"
      BY <2>1, NothingSent
    <2>3. \A u \in Users : Named(u)' => Named(u)
      BY <1>2, <2>1, <2>2, SessionAssumption DEF Named
    <2>4. QED
      BY <2>1, <2>3, Narrows
  <1>6. CASE StartSetup
    <2>1. /\ tab'.fetch = tab.fetch /\ tab'.data = tab.data /\ tab'.me = tab.me
          /\ tab'.switched = tab.switched /\ tab'.drifted = tab.drifted
          /\ tab'.setup = tab.me /\ tab.me \in Users
      BY <1>1, <1>6 DEF StartSetup, TabState, Person
    <2>2. \A u \in Users : Named(u)' <=> Named(u)
      BY <1>2, <2>1 DEF Named
    <2>3. Named(tab.me)
      BY DEF Named
    <2>4. OneInv'
      BY <2>1, <2>2 DEF UserInv, OneInv
    <2>5. OwnInv'
      BY <2>1, <2>2, <2>3 DEF UserInv, OneInv, OwnInv
    <2>6. QED
      BY <2>4, <2>5 DEF UserInv
  <1>7. QED
    BY <1>3, <1>4, <1>5, <1>6

LEMMA FormsUsers ==
  ASSUME SessionInv, UserInv,
         \/ (\E u \in Users : SubmitLogin(u)) \/ LoginRefused \/ SubmitLogout
         \/ ServeLogin \/ ServeLogout \/ LogoutLost \/ \E u \in Users : GoogleConsent(u)
  PROVE  UserInv'
  <1>1. tab \in TabState
    BY Parts
  <1>2. ASSUME UNCHANGED owner PROVE \A k \in Token : owner'[k] = owner[k]
    BY <1>2
  <1>3. ASSUME NEW u \in Users, SubmitLogin(u) PROVE UserInv'
    <2>1. SameNames
      BY <1>1, <1>3 DEF SubmitLogin, SameNames, TabState
    <2>2. QED
      BY <1>2, <1>3, <2>1, KeepsNames DEF SubmitLogin
  <1>4. CASE LoginRefused
    <2>1. SameNames
      BY <1>1, <1>4 DEF LoginRefused, SameNames, TabState
    <2>2. QED
      BY <1>2, <1>4, <2>1, KeepsNames DEF LoginRefused
  <1>5. CASE SubmitLogout
    <2>1. SameNames
      BY <1>1, <1>5 DEF SubmitLogout, SameNames, TabState
    <2>2. QED
      BY <1>2, <1>5, <2>1, KeepsNames DEF SubmitLogout
  <1>6. CASE ServeLogin
    <2>1. SameNames
      BY <1>1, <1>6 DEF ServeLogin, SameNames, TabState
    <2>2. Issue(tab.post.user) /\ tab.post.user \in Users /\ cookie' = cookie
      BY <1>6 DEF ServeLogin, SessionInv
    <2>3. \A u \in Users : Issue(u) => \A k \in Token : owner'[k] = owner[k]
      BY IssueTypes DEF SessionInv
    <2>4. QED
      BY <2>1, <2>2, <2>3, KeepsNames
  <1>7. CASE ServeLogout
    <2>1. SameNames
      BY <1>1, <1>7 DEF ServeLogout, SameNames, TabState
    <2>2. QED
      BY <1>2, <1>7, <2>1, KeepsNames DEF ServeLogout
  <1>8. CASE LogoutLost
    <2>1. SameNames
      BY <1>1, <1>8 DEF LogoutLost, Proxied, SameNames, TabState
    <2>2. UNCHANGED owner /\ cookie' \in {cookie, 0}
      BY <1>8 DEF LogoutLost
    <2>3. QED
      BY <1>2, <2>1, <2>2, KeepsNames
  <1>9. ASSUME NEW u \in Users, GoogleConsent(u) PROVE UserInv'
    <2>1. SameNames
      BY <1>1, <1>9 DEF GoogleConsent, SameNames, TabState
    <2>2. Issue(u) /\ cookie' = cookie
      BY <1>9 DEF GoogleConsent
    <2>3. \A k \in Token : owner'[k] = owner[k]
      BY <2>2, IssueTypes DEF SessionInv
    <2>4. QED
      BY <2>1, <2>2, <2>3, KeepsNames
  <1>10. QED
    BY <1>3, <1>4, <1>5, <1>6, <1>7, <1>8, <1>9

LEMMA SessionEndsUsers ==
  ASSUME SessionInv, UserInv, LoginLands \/ LoginLost \/ LogoutLands
  PROVE  UserInv'
  <1>1. tab \in TabState
    BY Parts
  <1>2. CASE LoginLands
    <2>1. /\ tab'.data = {} /\ tab'.me = tab.post.user /\ tab'.fetch = NoFetch
          /\ tab'.switched = FALSE /\ tab'.setup = "none"
          /\ cookie' = tab.post.token /\ owner' = owner
      BY <1>1, <1>2 DEF LoginLands, Reset, TabState
    <2>2. tab.post.token \in Token /\ owner[tab.post.token] = tab.post.user
      BY <1>2 DEF LoginLands, SessionInv
    <2>3. tab'.fetch.token = 0 /\ tab'.fetch.answer = "none"
      BY <2>1, NothingSent
    <2>4. \A u \in Users : Named(u)' => u = tab.post.user
      BY <2>1, <2>2, <2>3, SessionAssumption DEF Named
    <2>5. QED
      <3> DEFINE x == tab.post.user
      <3>1. \A u \in Users : Named(u)' => u = x
        BY <2>4
      <3> HIDE DEF x
      <3>2. QED
        BY <2>1, <3>1, NamesOne
  <1>3. CASE LoginLost
    <2>1. CASE UNCHANGED cookie /\ tab' = [tab EXCEPT !.post = NoPost, !.wish = ""]
      <3>1. SameNames
        BY <1>1, <2>1 DEF SameNames, TabState
      <3>2. QED
        BY <1>3, <2>1, <3>1, KeepsNames DEF LoginLost
    <2>2. CASE tab' = [Switch(tab) EXCEPT !.post = NoPost, !.wish = ""]
      <3>1. tab'.switched = TRUE /\ tab'.drifted = TRUE
        BY <1>1, <2>2 DEF Switch, TabState
      <3>2. QED
        BY <3>1, SwitchNames
    <2>3. QED
      BY <1>3, <2>1, <2>2 DEF LoginLost
  <1>4. CASE LogoutLands
    <2>1. /\ tab'.data = {} /\ tab'.me = "none" /\ tab'.fetch = NoFetch
          /\ tab'.switched = FALSE /\ tab'.setup = "none"
          /\ cookie' = 0 /\ owner' = owner
      BY <1>1, <1>4 DEF LogoutLands, Proxied, Reset, TabState
    <2>2. tab'.fetch.token = 0 /\ tab'.fetch.answer = "none"
      BY <2>1, NothingSent
    <2>3. \A u \in Users : Named(u)' => u = "none"
      BY <2>1, <2>2, SessionAssumption DEF Named
    <2>4. QED
      BY <2>1, <2>3, NamesOne
  <1>5. QED
    BY <1>2, <1>3, <1>4

LEMMA GoogleUsers ==
  ASSUME SessionInv, UserInv, GoogleStart \/ GoogleCallback
  PROVE  UserInv'
  <1>1. tab \in TabState
    BY Parts
  <1>2. CASE GoogleStart
    <2>1. /\ tab'.data = {} /\ tab'.me = "none" /\ tab'.fetch = NoFetch
          /\ tab'.switched = FALSE /\ tab'.drifted = tab.drifted /\ tab'.setup = tab.setup
      BY <1>2 DEF GoogleStart, Loaded
    <2>2. UNCHANGED <<cookie, owner>>
      BY <1>2 DEF GoogleStart
    <2>3. QED
      BY <2>1, <2>2, LoadsAfresh
  <1>3. CASE GoogleCallback /\ tab.code # 0 /\ google.nonce = tab.attempt
    <2>1. /\ tab'.data = {} /\ tab'.me = "none" /\ tab'.fetch = NoFetch
          /\ tab'.switched = FALSE /\ tab'.drifted = TRUE
          /\ cookie' = tab.code /\ owner' = owner
      BY <1>3 DEF GoogleCallback, Loaded
    <2>2. tab'.fetch.token = 0 /\ tab'.fetch.answer = "none"
      BY <2>1, NothingSent
    <2> DEFINE x == owner[tab.code]
    <2>3. \A u \in Users : Named(u)' => u = x
      BY <2>1, <2>2, SessionAssumption DEF Named
    <2> HIDE DEF x
    <2>4. QED
      BY <2>1, <2>3, NamesOne
  <1>4. CASE GoogleCallback /\ ~(tab.code # 0 /\ google.nonce = tab.attempt)
    <2>1. /\ tab'.data = {} /\ tab'.me = "none" /\ tab'.fetch = NoFetch
          /\ tab'.switched = FALSE /\ tab'.drifted = tab.drifted /\ tab'.setup = tab.setup
          /\ UNCHANGED <<cookie, owner>>
      BY <1>4 DEF GoogleCallback, Proxied, Loaded
    <2>2. QED
      BY <2>1, LoadsAfresh
  <1>5. QED
    BY <1>2, <1>3, <1>4

LEMMA ElsewhereUsers ==
  ASSUME SessionInv, UserInv,
         \/ Expire \/ OtherSignsOut
         \/ \E u \in Users : AccountDeleted(u) \/ OtherSignsIn(u) \/ OtherGoogleCallback(u)
         \/ \E page \in Pages \union {""} : OtherGoogleStart(page)
  PROVE  UserInv'
  <1>1. CASE UNCHANGED <<owner, tab>> /\ cookie' \in {cookie, 0}
    BY <1>1, KeepsNames DEF SameNames
  <1>2. CASE tab' = Switch(tab)
    <2>1. tab \in TabState
      BY Parts
    <2>2. tab'.switched = TRUE /\ tab'.drifted = TRUE
      BY <1>2, <2>1 DEF Switch, TabState
    <2>3. QED
      BY <2>2, SwitchNames
  <1>3. QED
    BY <1>1, <1>2 DEF Expire, OtherSignsOut, AccountDeleted, OtherSignsIn,
       OtherGoogleCallback, OtherGoogleStart

LEMMA UsersKept == SessionSpec => []UserInv
  <1>1. SessionInv /\ UserInv /\ [SessionNext]_sessionVars => UserInv'
    <2> SUFFICES ASSUME SessionInv, UserInv, [SessionNext]_sessionVars
                 PROVE  UserInv'
      OBVIOUS
    <2>1. CASE UNCHANGED sessionVars
      BY <2>1, KeepsNames DEF sessionVars, SameNames
    <2>2. CASE SessionNext
      BY <2>2, NavigatesUsers, FetchesUsers, FormsUsers, SessionEndsUsers, GoogleUsers,
         ElsewhereUsers DEF SessionNext
    <2>3. QED
      BY <2>1, <2>2
  <1>2. QED
    BY <1>1, InitUsers, SessionKept, PTL DEF SessionSpec

-----------------------------------------------------------------------------

\* What a tab shows, user and data, is one user's, unless another tab or a lost
\* answer changed the session under it.
THEOREM OneUser == SessionSpec => []OneUserPerTab
  <1>1. SessionInv /\ UserInv => OneUserPerTab
    <2> SUFFICES ASSUME SessionInv, UserInv, ~tab.switched,
                        NEW u \in tab.data \union ({tab.me} \ NoOne),
                        NEW v \in tab.data \union ({tab.me} \ NoOne)
                 PROVE  u = v
      BY DEF OneUserPerTab
    <2>1. u \in Users /\ v \in Users
      BY Parts DEF TabState, Person
    <2>2. Named(u) /\ Named(v)
      BY DEF Named
    <2>3. QED
      BY <2>1, <2>2 DEF UserInv, OneInv
  <1>2. QED
    BY <1>1, SessionKept, UsersKept, PTL

\* A guided setup is shown to the user who began it, unless the session changed
\* in another tab or through Google.
THEOREM OwnSetup == SessionSpec => []SetupIsOwn
  <1>1. SessionInv /\ UserInv => SetupIsOwn
    <2> SUFFICES ASSUME SessionInv, UserInv, ~tab.drifted, tab.me \notin NoOne
                 PROVE  tab.setup \in {"none", tab.me}
      BY DEF SetupIsOwn
    <2>1. tab.me \in Users /\ Named(tab.me)
      BY Parts DEF TabState, Person, Named
    <2>2. QED
      BY <2>1 DEF UserInv, OwnInv
  <1>2. QED
    BY <1>1, SessionKept, UsersKept, PTL

-----------------------------------------------------------------------------
(* Where a sign-in through Google ends.                                    *)

\* A tab that is away at Google posts nothing, and while the cookies name its own
\* attempt they name the page it was going to; a code is only of a tab that is away.
TripInv ==
  /\ google.nonce \in 0 .. nonces
  /\ tab.screen = "away" =>
       /\ tab.post = NoPost /\ tab.attempt \in 1 .. nonces
       /\ google.nonce = tab.attempt => google.redirect = tab.wish
  /\ tab.screen # "away" => tab.code = 0

\* A step that leaves the cookies and stays away, or is back or was never gone.
LEMMA TripStays ==
  ASSUME TripInv, UNCHANGED <<google, nonces>>,
         \/ tab'.screen # "away" /\ tab'.code = 0
         \/ /\ tab.screen = "away" /\ tab'.screen = "away" /\ tab'.post = tab.post
            /\ tab'.attempt = tab.attempt /\ tab'.wish = tab.wish
  PROVE  TripInv'
  BY DEF TripInv

\* A number that is drawn is new, and 0 never is.
LEMMA Draws ==
  ASSUME NEW n \in Nat
  PROVE  /\ 0 \in 0 .. n /\ 0 \notin 1 .. n
         /\ n + 1 \in 0 .. (n + 1)
         /\ \A k \in 1 .. n : k \in 1 .. (n + 1) /\ k # n + 1
  OBVIOUS

\* A tab that posts, or is on a page or the form, is not away and has no code.
LEMMA NotAway ==
  ASSUME TripInv, tab.post.op # "none" \/ tab.screen \in {"login", "app"}
  PROVE  tab.screen # "away" /\ tab.code = 0
  BY NothingSent DEF TripInv

LEMMA TripNavigates ==
  ASSUME SessionInv, TripInv, NEW page \in Pages \union {""}, Visit(page) \/ Load(page)
  PROVE  TripInv'
  <1>1. \A t \in TabState : \A c : /\ Proxied(t, page, c).screen \in {"login", "app"}
                                  /\ Proxied(t, page, c).code = t.code
    BY DEF TabState, Proxied
  <1>2. CASE Visit(page)
    BY <1>1, <1>2, Parts, TripStays DEF Visit, TripInv
  <1>3. CASE Load(page)
    <2>1. Loaded(tab, "login", "") \in TabState /\ Loaded(tab, "login", "").code = 0
      BY LoadedTypes DEF SessionInv
    <2>2. QED
      BY <1>1, <1>3, <2>1, TripStays DEF Load
  <1>4. QED
    BY <1>2, <1>3

LEMMA TripFetches ==
  ASSUME SessionInv, TripInv,
         (\E of \in {"me", "data"} : Fetch(of)) \/ Serve \/ Land \/ StartSetup
  PROVE  TripInv'
  <1>1. tab \in TabState /\ UNCHANGED <<google, nonces>>
    BY Parts DEF Fetch, Serve, Land, StartSetup
  <1>2. /\ tab'.screen = tab.screen /\ tab'.post = tab.post /\ tab'.code = tab.code
        /\ tab'.attempt = tab.attempt /\ tab'.wish = tab.wish
    BY <1>1 DEF Fetch, Serve, Land, StartSetup, TabState
  <1>3. QED
    BY <1>1, <1>2, TripStays DEF TripInv

LEMMA TripForms ==
  ASSUME SessionInv, TripInv,
         \/ \E u \in Users : SubmitLogin(u)
         \/ ServeLogin \/ LoginRefused \/ LoginLands \/ LoginLost
         \/ SubmitLogout \/ ServeLogout \/ LogoutLands \/ LogoutLost
  PROVE  TripInv' /\ tab.code = 0
  <1>1. tab \in TabState /\ UNCHANGED <<google, nonces>>
    BY Parts DEF SubmitLogin, ServeLogin, LoginRefused, LoginLands, LoginLost,
       SubmitLogout, ServeLogout, LogoutLands, LogoutLost
  <1>2. tab.post.op # "none" \/ tab.screen \in {"login", "app"}
    <2>1. CASE LogoutLost
      BY <2>1 DEF LogoutLost
    <2>2. CASE SubmitLogout
      BY <2>2 DEF SubmitLogout, SignOutOffered
    <2>3. QED
      BY <2>1, <2>2 DEF SubmitLogin, ServeLogin, LoginRefused, LoginLands, LoginLost,
         ServeLogout, LogoutLands
  <1>3. tab.screen # "away" /\ tab.code = 0
    BY <1>2, NotAway
  <1>4. tab'.screen # "away" /\ tab'.code = tab.code
    BY <1>1, <1>3 DEF SubmitLogin, ServeLogin, LoginRefused, LoginLands, LoginLost,
       SubmitLogout, ServeLogout, LogoutLands, LogoutLost, TabState, Reset, Switch, Proxied
  <1>5. QED
    BY <1>1, <1>3, <1>4, TripStays

LEMMA TripToGoogle ==
  ASSUME SessionInv, TripInv,
         (\E u \in Users : GoogleConsent(u)) \/ GoogleStart \/ GoogleCallback
  PROVE  TripInv'
  <1>1. CASE \E u \in Users : GoogleConsent(u)
    <2>1. /\ tab \in TabState /\ tab.screen = "away" /\ UNCHANGED <<google, nonces>>
          /\ tab' = [tab EXCEPT !.code = Len(owner')]
      BY <1>1, Parts DEF GoogleConsent
    <2>2. /\ tab'.screen = "away" /\ tab'.post = tab.post
          /\ tab'.attempt = tab.attempt /\ tab'.wish = tab.wish
      BY <2>1 DEF TabState
    <2>3. QED
      BY <2>1, <2>2, TripStays
  <1>2. CASE GoogleStart
    <2>1. nonces \in Nat /\ nonces' = nonces + 1
      BY <1>2, Parts DEF GoogleStart
    <2>2. google' = [nonce |-> nonces', redirect |-> tab.path]
      BY <1>2 DEF GoogleStart
    <2>3. google'.nonce = nonces' /\ google'.redirect = tab.path
      BY <2>2
    <2>4. /\ tab'.screen = "away" /\ tab'.post = NoPost
          /\ tab'.attempt = nonces' /\ tab'.wish = tab.path
      BY <1>2 DEF GoogleStart, Loaded
    <2>5. nonces' \in 1 .. nonces' /\ nonces' \in 0 .. nonces'
      BY <2>1
    <2>6. QED
      BY <2>3, <2>4, <2>5 DEF TripInv
  <1>3. CASE GoogleCallback
    <2>1. nonces \in Nat /\ nonces' = nonces /\ google' = NoGoogle
      BY <1>3, Parts DEF GoogleCallback
    <2>2. tab'.screen # "away" /\ tab'.code = 0
      BY <1>3 DEF GoogleCallback, Loaded, Proxied
    <2>3. google'.nonce = 0 /\ 0 \in 0 .. nonces'
      BY <2>1, Draws DEF NoGoogle
    <2>4. QED
      BY <2>2, <2>3 DEF TripInv
  <1>4. QED
    BY <1>1, <1>2, <1>3

LEMMA SwitchAway ==
  ASSUME NEW t \in TabState
  PROVE  /\ Switch(t).screen = t.screen /\ Switch(t).post = t.post /\ Switch(t).code = t.code
         /\ Switch(t).attempt = t.attempt /\ Switch(t).wish = t.wish
  BY DEF Switch, TabState

LEMMA TripElsewhere ==
  ASSUME SessionInv, TripInv,
         \/ Expire \/ OtherSignsOut
         \/ \E u \in Users : AccountDeleted(u) \/ OtherSignsIn(u) \/ OtherGoogleCallback(u)
         \/ \E page \in Pages \union {""} : OtherGoogleStart(page)
  PROVE  TripInv'
  <1>0. tab \in TabState /\ nonces \in Nat
    BY Parts
  <1>1. tab' = tab \/ tab' = Switch(tab)
    BY DEF Expire, OtherSignsOut, AccountDeleted, OtherSignsIn, OtherGoogleCallback,
       OtherGoogleStart
  <1>2. /\ tab'.screen = tab.screen /\ tab'.post = tab.post /\ tab'.code = tab.code
        /\ tab'.attempt = tab.attempt /\ tab'.wish = tab.wish
    BY <1>0, <1>1, SwitchAway
  <1>3. CASE UNCHANGED <<google, nonces>>
    BY <1>2, <1>3, TripStays DEF TripInv
  <1>4. CASE google' = NoGoogle /\ nonces' = nonces
    <2>1. google'.nonce = 0 /\ 0 \in 0 .. nonces' /\ 0 \notin 1 .. nonces'
      BY <1>0, <1>4, Draws DEF NoGoogle
    <2>2. QED
      BY <1>2, <1>4, <2>1 DEF TripInv
  <1>5. ASSUME NEW page \in Pages \union {""}, OtherGoogleStart(page)
        PROVE  TripInv'
    <2>1. google' = [nonce |-> nonces', redirect |-> page] /\ nonces' = nonces + 1
      BY <1>5 DEF OtherGoogleStart
    <2>2. google'.nonce = nonces'
      BY <2>1
    <2>3. \A n \in 1 .. nonces : n \in 1 .. nonces' /\ n # nonces'
      BY <1>0, <2>1, Draws
    <2>4. nonces' \in 0 .. nonces'
      BY <1>0, <2>1, Draws
    <2>5. QED
      BY <1>2, <2>2, <2>3, <2>4 DEF TripInv
  <1>6. QED
    BY <1>3, <1>4, <1>5 DEF Expire, OtherSignsOut, AccountDeleted, OtherSignsIn,
       OtherGoogleCallback

LEMMA TripKept == SessionSpec => []TripInv
  <1>1. SessionInit => TripInv
    <2> SUFFICES ASSUME SessionInit PROVE TripInv
      OBVIOUS
    <2>1. google.nonce = 0 /\ nonces = 0 /\ tab.screen = "login" /\ tab.code = 0
      BY DEF SessionInit, NoGoogle, Loaded
    <2>2. 0 \in 0 .. 0
      BY Draws
    <2>3. QED
      BY <2>1, <2>2 DEF TripInv
  <1>2. SessionInv /\ TripInv /\ [SessionNext]_sessionVars => TripInv'
    <2>1. ASSUME TripInv, UNCHANGED sessionVars PROVE TripInv'
      BY <2>1 DEF sessionVars, TripInv
    <2>2. QED
      BY <2>1, TripNavigates, TripFetches, TripForms, TripToGoogle, TripElsewhere
         DEF SessionNext
  <1>3. QED
    BY <1>1, <1>2, SessionKept, PTL DEF SessionSpec

\* A sign-in through Google ends where its own tab was going, whatever other tabs
\* begin, abandon or finish meanwhile.
THEOREM OwnRedirect == SessionSpec => GoogleOwnRedirect
  <1> DEFINE Arrives == (tab.code # 0 /\ cookie' # cookie /\ cookie' = tab.code) =>
                          tab'.path = Landing(tab.wish)
  <1>1. SessionInv /\ TripInv /\ [SessionNext]_sessionVars => Arrives
    <2> SUFFICES ASSUME SessionInv, TripInv, [SessionNext]_sessionVars,
                        tab.code # 0, cookie' # cookie, cookie' = tab.code
                 PROVE  tab'.path = Landing(tab.wish)
      OBVIOUS
    <2>1. /\ SessionNext /\ tab.screen = "away" /\ tab.code \in Token
          /\ google.nonce = tab.attempt => google.redirect = tab.wish
      BY Parts DEF TripInv, sessionVars
    <2>2. CASE GoogleCallback
      <3>1. tab' = [Loaded(tab, "app", Landing(google.redirect)) EXCEPT !.drifted = TRUE]
            /\ google.nonce = tab.attempt
        BY <2>2 DEF GoogleCallback
      <3>2. tab'.path = Landing(google.redirect)
        BY <3>1 DEF Loaded
      <3>3. QED
        BY <2>1, <3>1, <3>2
    <2>3. ASSUME NEW u \in Users, Issue(u) PROVE cookie' # Len(owner')
      <3>1. Len(owner') = Len(owner) + 1 /\ Len(owner) \in Nat
        BY <2>3, IssueTypes DEF SessionInv
      <3>2. QED
        BY <2>1, <3>1 DEF Token
    <2>4. cookie' # 0
      OBVIOUS
    <2>5. ~(\E u \in Users : OtherSignsIn(u) \/ OtherGoogleCallback(u))
      BY <2>3 DEF OtherSignsIn, OtherGoogleCallback
    <2>6. ~Expire /\ ~OtherSignsOut
      BY <2>4 DEF Expire, OtherSignsOut
    <2>7. ~(\E u \in Users : SubmitLogin(u)) /\ ~ServeLogin /\ ~LoginRefused /\ ~LoginLands
          /\ ~LoginLost /\ ~SubmitLogout /\ ~ServeLogout /\ ~LogoutLands /\ ~LogoutLost
      BY TripForms
    <2>8. \A page : ~Visit(page) /\ ~Load(page) /\ ~OtherGoogleStart(page)
      BY DEF Visit, Load, OtherGoogleStart
    <2>9. /\ \A of : ~Fetch(of)
          /\ ~Serve /\ ~Land /\ ~StartSetup /\ ~GoogleStart
          /\ \A u : ~GoogleConsent(u) /\ ~AccountDeleted(u)
      BY DEF Fetch, Serve, Land, StartSetup, GoogleStart, GoogleConsent, AccountDeleted
    <2>10. QED
      BY <2>1, <2>2, <2>5, <2>6, <2>7, <2>8, <2>9 DEF SessionNext
  <1>2. QED
    BY <1>1, SessionKept, TripKept, PTL DEF SessionSpec, GoogleOwnRedirect

-----------------------------------------------------------------------------
(* The remediation panel: types.                                           *)

Text == AllFindings \X (1..MaxTexts)
ListState == [is : {"none", "loading", "served", "data", "failed"}, page : PanelPages,
              turn : BOOLEAN, anew : BOOLEAN, texts : SUBSET Text]
PreviewState == [is : {"none", "loading", "served", "data", "failed"},
                 asked : SUBSET AllFindings, texts : SUBSET Text, ready : BOOLEAN,
                 moved : SUBSET AllFindings]
Pull == [is : {"sent", "done"}, ids : (SUBSET AllFindings) \ {{}}, seen : SUBSET Text,
         moved : SUBSET AllFindings, texts : SUBSET Text]

StoredInv ==
  /\ made \in [AllFindings -> 0..MaxTexts]
  /\ kept \subseteq AllFindings /\ \A f \in kept : made[f] > 0
ListsInv ==
  /\ catalog \in ListState /\ ai \in ListState
  /\ had \subseteq {"catalog", "ai"} /\ face \in {"catalog"} \union had

\* The hook waits as long as a pull request is on its way, and there is one.
DialogInv ==
  /\ open \in BOOLEAN /\ busy \in BOOLEAN /\ preview \in PreviewState
  /\ opening \in Seq(Pull) /\ OnePr /\ (~busy => opening = << >>)
PanelInv == StoredInv /\ ListsInv /\ DialogInv

LEMMA FirstPage == 1 \in PanelPages /\ \A p \in PanelPages : OnPage[p] \subseteq AllFindings
  <1>1. OnPage \in Seq(SUBSET Nat) /\ OnPage # << >>
    BY RemediationAssumption
  <1>2. DOMAIN OnPage = 1..Len(OnPage) /\ Len(OnPage) \in Nat \ {0}
    BY <1>1, LenProperties, EmptySeq
  <1>3. QED
    BY <1>2 DEF PanelPages, AllFindings

LEMMA EmptyTypes == NoList \in ListState /\ NoPreview \in PreviewState
  BY FirstPage DEF NoList, NoPreview, ListState, PreviewState

\* The findings to patch are findings of the page.
LEMMA InputTypes ==
  ASSUME ai \in ListState
  PROVE  Input(ai) \subseteq AllFindings
  BY DEF ListState, Input, Text

LEMMA ReviewTypes ==
  ASSUME preview \in PreviewState, NEW shown, NEW input \in SUBSET AllFindings
  PROVE  Review(shown, input) \in PreviewState
  BY DEF PreviewState, Review, NoPreview

\* The one pull request on its way is the first.
LEMMA TheOne ==
  ASSUME DialogInv, NEW i \in DOMAIN opening
  PROVE  /\ i = 1 /\ Len(opening) = 1 /\ DOMAIN opening = {1}
         /\ opening[i] \in Pull /\ busy
         /\ RemoveAt(opening, i) = << >>
  <1>1. opening \in Seq(Pull) /\ Len(opening) <= 1
    BY DEF DialogInv, OnePr
  <1>2. DOMAIN opening = 1..Len(opening) /\ Len(opening) \in Nat
    BY <1>1, LenProperties
  <1>3. i = 1 /\ Len(opening) = 1 /\ DOMAIN opening = {1}
    BY <1>1, <1>2
  <1>4. opening[i] \in Pull
    BY <1>1, <1>3, ElementOfSeq
  <1>5. SubSeq(opening, 1, 0) = << >> /\ SubSeq(opening, 2, 1) = << >>
    BY SubSeqEmpty
  <1>6. << >> \o << >> = << >>
    BY ConcatEmptySeq
  <1>7. RemoveAt(opening, i) = << >>
    BY <1>3, <1>5, <1>6 DEF RemoveAt
  <1>8. busy
    BY <1>3, EmptySeq DEF DialogInv
  <1>9. QED
    BY <1>3, <1>4, <1>7, <1>8

\* A function on the places of a sequence is a sequence of the same length.
LEMMA Rewritten ==
  ASSUME NEW S, NEW s \in Seq(S), NEW T, NEW t, t \in [DOMAIN s -> T]
  PROVE  t \in Seq(T) /\ Len(t) = Len(s) /\ (s = << >> => t = << >>)
  <1>1. Len(s) \in Nat /\ DOMAIN s = 1..Len(s)
    BY LenProperties
  <1>2. t \in [1..Len(s) -> T]
    BY <1>1
  <1>3. t \in Seq(T)
    BY <1>1, <1>2, SeqDef
  <1>4. DOMAIN t = 1..Len(t) /\ Len(t) \in Nat
    BY <1>3, LenProperties
  <1>5. Len(t) = Len(s)
    BY <1>1, <1>2, <1>4
  <1>6. s = << >> => t = << >>
    BY <1>3, <1>5, EmptySeq
  <1>7. QED
    BY <1>3, <1>5, <1>6

LEMMA InitPanel == PanelInit => PanelInv
  <1> SUFFICES ASSUME PanelInit PROVE PanelInv
    OBVIOUS
  <1>1. StoredInv
    <2>1. MaxTexts \in Nat \ {0}
      BY RemediationAssumption
    <2>2. /\ made \in [AllFindings -> {0, 1}]
          /\ kept = {f \in AllFindings : made[f] = 1}
      BY DEF PanelInit
    <2>3. {0, 1} \subseteq 0..MaxTexts
      BY <2>1
    <2>4. QED
      BY <2>2, <2>3 DEF StoredInv
  <1>2. ListsInv
    BY EmptyTypes DEF PanelInit, ListsInv
  <1>3. DialogInv
    <2>1. << >> \in Seq(Pull) /\ Len(<< >>) = 0
      BY EmptySeq
    <2>2. /\ opening = << >> /\ open = FALSE /\ busy = FALSE /\ preview = NoPreview
      BY DEF PanelInit
    <2>3. opening \in Seq(Pull) /\ OnePr
      BY <2>1, <2>2 DEF OnePr
    <2>4. QED
      BY <2>2, <2>3, EmptyTypes DEF DialogInv
  <1>4. QED
    BY <1>1, <1>2, <1>3 DEF PanelInv

-----------------------------------------------------------------------------
(* What writing and discarding texts does.                                 *)

LEMMA MadeTypes ==
  ASSUME StoredInv, NEW W \in SUBSET AllFindings, \A f \in W : made[f] < MaxTexts,
         made' = [f \in AllFindings |-> made[f] + IF f \in W THEN 1 ELSE 0]
  PROVE  /\ made' \in [AllFindings -> 0..MaxTexts]
         /\ \A f \in AllFindings : made[f] > 0 \/ f \in W => made'[f] > 0
         /\ \A f \in AllFindings \ W : made'[f] = made[f]
  <1>1. MaxTexts \in Nat
    BY RemediationAssumption
  <1>2. \A f \in AllFindings : made[f] \in 0..MaxTexts
    BY DEF StoredInv
  <1>3. \A f \in AllFindings :
          /\ made'[f] \in 0..MaxTexts
          /\ made[f] > 0 \/ f \in W => made'[f] > 0
          /\ f \notin W => made'[f] = made[f]
    BY <1>1, <1>2
  <1>4. QED
    BY <1>3

\* The pull requests on their way are told which findings moved.
LEMMA ToldTypes ==
  ASSUME DialogInv, NEW m \in SUBSET AllFindings,
         opening' = [i \in DOMAIN opening |-> [opening[i] EXCEPT !.moved = @ \union m]]
  PROVE  /\ opening' \in Seq(Pull) /\ OnePr' /\ (opening = << >> => opening' = << >>)
         /\ DOMAIN opening' = DOMAIN opening
         /\ \A i \in DOMAIN opening :
              /\ opening'[i] \in Pull /\ opening[i] \in Pull
              /\ opening'[i].is = opening[i].is /\ opening'[i].ids = opening[i].ids
              /\ opening'[i].seen = opening[i].seen /\ opening'[i].texts = opening[i].texts
              /\ opening'[i].moved = opening[i].moved \union m
  <1>1. \A i \in DOMAIN opening : opening[i] \in Pull
    BY TheOne
  <1>2. \A i \in DOMAIN opening :
          /\ opening'[i] = [opening[i] EXCEPT !.moved = @ \union m]
          /\ opening'[i] \in Pull
          /\ opening'[i].is = opening[i].is /\ opening'[i].ids = opening[i].ids
          /\ opening'[i].seen = opening[i].seen /\ opening'[i].texts = opening[i].texts
          /\ opening'[i].moved = opening[i].moved \union m
    BY <1>1 DEF Pull
  <1>3. opening \in Seq(Pull) /\ Len(opening) <= 1
    BY DEF DialogInv, OnePr
  <1>4. opening' \in [DOMAIN opening -> Pull]
    BY <1>2
  <1>5. /\ opening' \in Seq(Pull) /\ Len(opening') = Len(opening)
        /\ (opening = << >> => opening' = << >>)
    BY <1>3, <1>4, Rewritten
  <1>6. QED
    BY <1>1, <1>2, <1>3, <1>4, <1>5 DEF OnePr

LEMMA GenerateTypes ==
  ASSUME PanelInv, NEW fs \in SUBSET AllFindings, NEW anew \in BOOLEAN,
         NEW lost \in SUBSET AllFindings, Generate(fs, anew, lost)
  PROVE  /\ StoredInv'
         /\ opening' \in Seq(Pull) /\ OnePr' /\ (opening = << >> => opening' = << >>)
         /\ \A f \in fs : <<f, made'[f]>> \in Text
  <1> DEFINE W == Written(fs, anew)
  <1>1. StoredInv /\ DialogInv /\ W \in SUBSET AllFindings /\ W \subseteq fs
    BY DEF PanelInv, Written
  <1>2. fs \subseteq kept \union W
    BY DEF Written
  <1>3. /\ \A f \in W : made[f] < MaxTexts
        /\ made' = [f \in AllFindings |-> made[f] + IF f \in W THEN 1 ELSE 0]
        /\ kept' = (kept \union fs) \ lost
        /\ opening' = [i \in DOMAIN opening |->
                         [opening[i] EXCEPT !.moved = @ \union (W \union lost)]]
    BY DEF Generate
  <1> HIDE DEF W
  <1>4. /\ made' \in [AllFindings -> 0..MaxTexts]
        /\ \A f \in AllFindings : made[f] > 0 \/ f \in W => made'[f] > 0
    BY <1>1, <1>3, MadeTypes
  <1>5. \A f \in kept \union fs : f \in AllFindings /\ made'[f] > 0
    BY <1>1, <1>2, <1>4 DEF StoredInv
  <1>6. StoredInv'
    BY <1>1, <1>3, <1>4, <1>5 DEF StoredInv
  <1>7. /\ opening' \in Seq(Pull) /\ OnePr' /\ (opening = << >> => opening' = << >>)
    BY <1>1, <1>3, ToldTypes
  <1>8. \A f \in fs : made'[f] \in 1..MaxTexts
    <2>1. MaxTexts \in Nat
      BY RemediationAssumption
    <2>2. \A f \in fs : made'[f] \in 0..MaxTexts /\ made'[f] > 0
      BY <1>4, <1>5
    <2>3. QED
      BY <2>1, <2>2
  <1>9. \A f \in fs : <<f, made'[f]>> \in Text
    BY <1>8 DEF Text
  <1>10. QED
    BY <1>6, <1>7, <1>9

-----------------------------------------------------------------------------
(* What was reviewed.                                                      *)

Firsts(ts) == {t[1] : t \in ts}

\* The stored texts of the findings are the given ones, unless they moved.
Fresh(fs, moved, ts) == \A f \in fs \ moved : f \in kept /\ <<f, made[f]>> \in ts

\* A dialog with something to patch shows a preview of that, and its texts are
\* those of the findings that did not move since.
PreviewOk ==
  open /\ Input(ai) # {} =>
    /\ preview.is \in {"loading", "served", "data"} => preview.asked = Input(ai)
    /\ preview.is \in {"served", "data"} =>
         /\ Firsts(preview.texts) = preview.asked
         /\ Fresh(preview.asked, preview.moved, preview.texts)

PullOk(o) ==
  /\ Firsts(o.seen) = o.ids
  /\ o.is = "sent" => Fresh(o.ids, o.moved, o.seen)
  /\ o.is = "done" => \A t \in o.texts : t \in o.seen \/ t[1] \in o.moved
PullsOk == \A i \in DOMAIN opening : PullOk(opening[i])
ReviewInv == PreviewOk /\ PullsOk

LEMMA PullsStay ==
  ASSUME PullsOk, UNCHANGED <<made, kept, opening>>
  PROVE  PullsOk'
  BY DEF PullsOk, PullOk, Fresh

LEMMA PullsTold ==
  ASSUME DialogInv, PullsOk, NEW m \in SUBSET AllFindings,
         opening' = [i \in DOMAIN opening |-> [opening[i] EXCEPT !.moved = @ \union m]],
         \A f \in kept \ m : f \in kept' /\ made'[f] = made[f]
  PROVE  PullsOk'
  <1> SUFFICES ASSUME NEW i \in DOMAIN opening PROVE PullOk(opening[i])'
    BY ToldTypes DEF PullsOk
  <1>1. /\ opening'[i].is = opening[i].is /\ opening'[i].ids = opening[i].ids
        /\ opening'[i].seen = opening[i].seen /\ opening'[i].texts = opening[i].texts
        /\ opening'[i].moved = opening[i].moved \union m
    BY ToldTypes
  <1>2. PullOk(opening[i])
    BY DEF PullsOk
  <1>3. ASSUME opening[i].is = "sent"
        PROVE  Fresh(opening[i].ids, opening[i].moved, opening[i].seen)'
    <2>1. \A f \in opening[i].ids \ opening[i].moved :
            f \in kept /\ <<f, made[f]>> \in opening[i].seen
      BY <1>2, <1>3 DEF PullOk, Fresh
    <2>2. QED
      BY <1>1, <2>1 DEF Fresh
  <1>4. QED
    BY <1>1, <1>2, <1>3 DEF PullOk

LEMMA GeneratedPulls ==
  ASSUME PanelInv, PullsOk, NEW fs \in SUBSET AllFindings, NEW anew \in BOOLEAN,
         NEW lost \in SUBSET AllFindings, Generate(fs, anew, lost)
  PROVE  PullsOk'
  <1> DEFINE W == Written(fs, anew)  m == W \union lost
  <1>1. StoredInv /\ DialogInv /\ W \in SUBSET AllFindings
    BY DEF PanelInv, Written
  <1>2. /\ \A f \in W : made[f] < MaxTexts
        /\ made' = [f \in AllFindings |-> made[f] + IF f \in W THEN 1 ELSE 0]
        /\ kept' = (kept \union fs) \ lost
        /\ opening' = [i \in DOMAIN opening |-> [opening[i] EXCEPT !.moved = @ \union m]]
    BY DEF Generate
  <1> HIDE DEF W
  <1>3. \A f \in AllFindings \ W : made'[f] = made[f]
    BY <1>1, <1>2, MadeTypes
  <1>4. \A f \in kept \ m : f \in kept' /\ made'[f] = made[f]
    BY <1>1, <1>2, <1>3 DEF StoredInv
  <1>5. m \in SUBSET AllFindings
    BY <1>1
  <1> HIDE DEF m
  <1>6. QED
    BY <1>1, <1>2, <1>4, <1>5, PullsTold

\* At every render the preview is asked for anew.
LEMMA Reviewed ==
  ASSUME NEW shown, NEW input, open' = shown, Input(ai)' = input,
         preview' = Review(shown, input)
  PROVE  PreviewOk'
  BY DEF PreviewOk, Review, NoPreview

-----------------------------------------------------------------------------
(* One step.                                                               *)

ReviewedInv == PanelInv /\ ReviewInv

LEMMA InitReviewed == PanelInit => ReviewedInv
  BY InitPanel DEF ReviewedInv, ReviewInv, PreviewOk, PullsOk, PanelInit

\* A render that leaves what is stored and the pull requests alone.
LEMMA RenderStep ==
  ASSUME ReviewedInv, Render, UNCHANGED <<made, kept, ai, open, opening, busy>>,
         catalog' \in ListState,
         had' \subseteq {"catalog", "ai"}, face' \in {"catalog"} \union had'
  PROVE  ReviewedInv'
  <1>1. preview' = Review(open, Input(ai)) /\ Input(ai)' = Input(ai)
    BY DEF Render, Input
  <1>2. preview' \in PreviewState
    BY <1>1, InputTypes, ReviewTypes DEF ReviewedInv, PanelInv, ListsInv, DialogInv
  <1>3. StoredInv' /\ ListsInv' /\ DialogInv'
    BY <1>2 DEF ReviewedInv, PanelInv, StoredInv, ListsInv, DialogInv, OnePr
  <1>4. PreviewOk'
    <2> DEFINE shown == open  input == Input(ai)
    <2>1. open' = shown /\ Input(ai)' = input /\ preview' = Review(shown, input)
      BY <1>1
    <2>2. QED
      BY <2>1, Reviewed
  <1>5. PullsOk'
    BY PullsStay DEF ReviewedInv, ReviewInv
  <1>6. QED
    BY <1>3, <1>4, <1>5 DEF ReviewedInv, PanelInv, ReviewInv

LEMMA CatalogSteps ==
  ASSUME ReviewedInv,
         \/ PageRenders \/ GenerateCatalog \/ (\E page \in PanelPages : TurnCatalog(page))
         \/ CatalogLands \/ CatalogFails \/ \E v \in {"catalog", "ai"} : ToggleView(v)
  PROVE  ReviewedInv'
  <1>1. /\ catalog \in ListState /\ had \subseteq {"catalog", "ai"}
        /\ face \in {"catalog"} \union had
    BY DEF ReviewedInv, PanelInv, ListsInv
  <1>2. CASE PageRenders
    BY <1>1, <1>2, RenderStep DEF PageRenders, stored, lists
  <1>3. ASSUME NEW page \in PanelPages, NEW turn \in BOOLEAN, LoadCatalogPage(page, turn)
        PROVE  ReviewedInv'
    <2>1. catalog' \in ListState
      BY <1>3 DEF LoadCatalogPage, NoList, ListState
    <2>2. Render /\ UNCHANGED <<made, kept, ai, had, face, open, opening, busy>>
      BY <1>3 DEF LoadCatalogPage, stored
    <2>3. QED
      BY <1>1, <2>1, <2>2, RenderStep
  <1>4. CASE GenerateCatalog
    BY <1>3, <1>4, FirstPage DEF GenerateCatalog
  <1>5. ASSUME NEW page \in PanelPages, TurnCatalog(page) PROVE ReviewedInv'
    BY <1>3, <1>5 DEF TurnCatalog
  <1>6. CASE CatalogLands
    <2>1. catalog' \in ListState
      BY <1>1, <1>6 DEF CatalogLands, ListState
    <2>2. /\ Render /\ UNCHANGED <<made, kept, ai, open, opening, busy>>
          /\ had' = had \union {"catalog"} /\ face' \in {"catalog", face}
      BY <1>6 DEF CatalogLands, stored
    <2>3. QED
      BY <1>1, <2>1, <2>2, RenderStep
  <1>7. CASE CatalogFails
    <2>1. catalog' \in ListState
      BY <1>7, EmptyTypes DEF CatalogFails, ListState
    <2>2. Render /\ UNCHANGED <<made, kept, ai, had, face, open, opening, busy>>
      BY <1>7 DEF CatalogFails, stored
    <2>3. QED
      BY <1>1, <2>1, <2>2, RenderStep
  <1>8. ASSUME NEW v \in {"catalog", "ai"}, ToggleView(v) PROVE ReviewedInv'
    <2>1. /\ Render /\ UNCHANGED <<made, kept, catalog, ai, had, open, opening, busy>>
          /\ v \in had /\ face' = v
      BY <1>8 DEF ToggleView, stored
    <2>2. QED
      BY <1>1, <2>1, RenderStep
  <1>9. QED
    BY <1>2, <1>4, <1>5, <1>6, <1>7, <1>8

\* The suggestions load, fail or are served: nothing can be patched meanwhile.
LEMMA AiSteps ==
  ASSUME ReviewedInv,
         \/ SuggestWithAi \/ RegenerateAi \/ (\E page \in PanelPages : TurnAi(page))
         \/ AiFails
  PROVE  ReviewedInv'
  <1>1. ASSUME ai' \in ListState, ai'.is # "data",
               UNCHANGED <<made, kept, catalog, had, face, open, preview, opening, busy>>
        PROVE  ReviewedInv'
    <2>1. Input(ai)' = {}
      BY <1>1 DEF Input
    <2>2. PreviewOk'
      BY <2>1 DEF PreviewOk
    <2>3. PullsOk'
      BY <1>1, PullsStay DEF ReviewedInv, ReviewInv
    <2>4. PanelInv'
      BY <1>1 DEF ReviewedInv, PanelInv, StoredInv, ListsInv, DialogInv, OnePr
    <2>5. QED
      BY <2>2, <2>3, <2>4 DEF ReviewedInv, ReviewInv
  <1>2. ASSUME NEW page \in PanelPages, NEW turn \in BOOLEAN, NEW anew \in BOOLEAN,
               LoadAiPage(page, turn, anew)
        PROVE  ReviewedInv'
    <2>1. ai' \in ListState /\ ai'.is = "loading"
      BY <1>2 DEF LoadAiPage, NoList, ListState
    <2>2. UNCHANGED <<made, kept, catalog, had, face, open, preview, opening, busy>>
      BY <1>2 DEF LoadAiPage, stored, dialog
    <2>3. QED
      BY <1>1, <2>1, <2>2
  <1>3. CASE SuggestWithAi \/ RegenerateAi
    BY <1>2, <1>3, FirstPage DEF SuggestWithAi, RegenerateAi
  <1>4. ASSUME NEW page \in PanelPages, TurnAi(page) PROVE ReviewedInv'
    BY <1>2, <1>4 DEF TurnAi
  <1>5. CASE AiFails
    <2>1. ai' \in ListState /\ ai'.is = "failed"
      BY <1>5, FirstPage DEF AiFails, NoList, ListState
    <2>2. UNCHANGED <<made, kept, catalog, had, face, open, preview, opening, busy>>
      BY <1>5 DEF AiFails, stored, dialog
    <2>3. QED
      BY <1>1, <2>1, <2>2
  <1>6. QED
    BY <1>3, <1>4, <1>5

LEMMA ServeAiStep ==
  ASSUME ReviewedInv, ServeAi
  PROVE  ReviewedInv'
  <1>1. /\ ai \in ListState /\ ai.is = "loading"
        /\ UNCHANGED <<catalog, had, face, open, preview, busy>>
    BY DEF ReviewedInv, PanelInv, ListsInv, ServeAi
  <1>2. PICK fs \in SUBSET OnPage[ai.page] :
          /\ \E lost \in SUBSET (OnPage[ai.page] \ fs) : Generate(fs, ai.anew, lost)
          /\ ai' = IF fs = OnPage[ai.page]
                   THEN [ai EXCEPT !.is = "served", !.texts = {<<f, made'[f]>> : f \in fs}]
                   ELSE [NoList EXCEPT !.is = "failed"]
    BY DEF ServeAi
  <1>3. PICK lost \in SUBSET (OnPage[ai.page] \ fs) : Generate(fs, ai.anew, lost)
    BY <1>2
  <1>4. PICK anew \in BOOLEAN : anew = ai.anew
    BY <1>1 DEF ListState
  <1>5. fs \in SUBSET AllFindings /\ lost \in SUBSET AllFindings
    BY <1>1, FirstPage DEF ListState
  <1>6. PanelInv /\ Generate(fs, anew, lost)
    BY <1>3, <1>4 DEF ReviewedInv
  <1>7. /\ StoredInv'
        /\ opening' \in Seq(Pull) /\ OnePr' /\ (opening = << >> => opening' = << >>)
        /\ \A f \in fs : <<f, made'[f]>> \in Text
    BY <1>5, <1>6, GenerateTypes
  <1>8. ai' \in ListState /\ ai'.is # "data"
    <2>1. CASE fs = OnPage[ai.page]
      <3>1. {<<f, made'[f]>> : f \in fs} \in SUBSET Text
        BY <1>7
      <3>2. ai' = [ai EXCEPT !.is = "served", !.texts = {<<f, made'[f]>> : f \in fs}]
        BY <1>2, <2>1
      <3>3. QED
        BY <1>1, <3>1, <3>2 DEF ListState
    <2>2. CASE fs # OnPage[ai.page]
      <3>1. ai' = [NoList EXCEPT !.is = "failed"]
        BY <1>2, <2>2
      <3>2. QED
        BY <3>1, FirstPage DEF NoList, ListState
    <2>3. QED
      BY <2>1, <2>2
  <1>9. PanelInv'
    BY <1>1, <1>7, <1>8 DEF ReviewedInv, PanelInv, ListsInv, DialogInv
  <1>10. PreviewOk'
    BY <1>8 DEF PreviewOk, Input
  <1>11. PullsOk'
    BY <1>5, <1>6, GeneratedPulls DEF ReviewedInv, ReviewInv
  <1>12. QED
    BY <1>9, <1>10, <1>11 DEF ReviewedInv, ReviewInv

LEMMA AiLandsStep ==
  ASSUME ReviewedInv, AiLands
  PROVE  ReviewedInv'
  <1>1. /\ PanelInv /\ PullsOk /\ ai \in ListState
        /\ UNCHANGED <<made, kept, catalog, open, opening, busy>>
        /\ preview' = Review(open, Input(ai'))
    BY DEF ReviewedInv, PanelInv, ReviewInv, ListsInv, AiLands, stored
  <1>2. ai' \in ListState
    BY <1>1 DEF AiLands, ListState
  <1>3. ListsInv'
    BY <1>1, <1>2 DEF PanelInv, ListsInv, AiLands
  <1>4. PICK input : input = Input(ai')
    OBVIOUS
  <1>5. input \in SUBSET AllFindings
    BY <1>2, <1>4 DEF Input, ListState, Text
  <1>6. preview' \in PreviewState
    BY <1>1, <1>4, <1>5, ReviewTypes DEF PanelInv, DialogInv
  <1>7. StoredInv' /\ DialogInv'
    BY <1>1, <1>6 DEF PanelInv, StoredInv, DialogInv, OnePr
  <1>8. PreviewOk'
    <2> DEFINE shown == open
    <2>1. open' = shown /\ Input(ai)' = input /\ preview' = Review(shown, input)
      BY <1>1, <1>4
    <2>2. QED
      BY <2>1, Reviewed
  <1>9. PullsOk'
    BY <1>1, PullsStay
  <1>10. QED
    BY <1>3, <1>7, <1>8, <1>9 DEF ReviewedInv, PanelInv, ReviewInv

LEMMA PreviewSteps ==
  ASSUME ReviewedInv, OpenPreview \/ ClosePreview \/ PreviewLands \/ PreviewFails \/ Remount
  PROVE  ReviewedInv'
  <1>1. /\ StoredInv /\ ListsInv /\ DialogInv /\ PreviewOk /\ PullsOk
        /\ ai \in ListState /\ preview \in PreviewState
    BY DEF ReviewedInv, PanelInv, ReviewInv, ListsInv, DialogInv
  <1>2. ASSUME UNCHANGED <<made, kept, catalog, ai, had, face, opening, busy>>,
               open' \in BOOLEAN, preview' \in PreviewState, PreviewOk'
        PROVE  ReviewedInv'
    <2>1. StoredInv' /\ ListsInv' /\ DialogInv'
      BY <1>1, <1>2 DEF StoredInv, ListsInv, DialogInv, OnePr
    <2>2. PullsOk'
      BY <1>1, <1>2, PullsStay
    <2>3. QED
      BY <1>2, <2>1, <2>2 DEF ReviewedInv, PanelInv, ReviewInv
  <1>3. CASE OpenPreview
    <2>1. /\ UNCHANGED <<made, kept, catalog, ai, had, face, opening, busy>>
          /\ open' = TRUE /\ preview' = Review(TRUE, Input(ai))
      BY <1>3 DEF OpenPreview, stored, lists
    <2>2. preview' \in PreviewState
      BY <1>1, <2>1, InputTypes, ReviewTypes
    <2>3. PreviewOk'
      <3> DEFINE shown == TRUE  input == Input(ai)
      <3>1. open' = shown /\ Input(ai)' = input /\ preview' = Review(shown, input)
        BY <2>1 DEF Input
      <3>2. QED
        BY <3>1, Reviewed
    <2>4. QED
      BY <1>2, <2>1, <2>2, <2>3
  <1>4. CASE ClosePreview
    <2>1. /\ UNCHANGED <<made, kept, catalog, ai, had, face, opening, busy>>
          /\ open' = FALSE /\ preview' = NoPreview
      BY <1>4 DEF ClosePreview, stored, lists
    <2>2. PreviewOk'
      BY <2>1 DEF PreviewOk
    <2>3. QED
      BY <1>2, <2>1, <2>2, EmptyTypes
  <1>5. CASE PreviewLands
    <2>1. /\ UNCHANGED <<made, kept, catalog, ai, had, face, open, opening, busy>>
          /\ preview.is = "served" /\ preview' = [preview EXCEPT !.is = "data"]
      BY <1>5 DEF PreviewLands, stored, lists
    <2>2. /\ preview' \in PreviewState /\ preview'.is = "data"
          /\ preview'.asked = preview.asked /\ preview'.texts = preview.texts
          /\ preview'.moved = preview.moved
      BY <1>1, <2>1 DEF PreviewState
    <2>3. PreviewOk'
      BY <1>1, <2>1, <2>2 DEF PreviewOk, Fresh, Input
    <2>4. open' \in BOOLEAN
      BY <1>1, <2>1 DEF DialogInv
    <2>5. QED
      BY <1>2, <2>1, <2>2, <2>3, <2>4
  <1>6. CASE PreviewFails
    <2>1. /\ UNCHANGED <<made, kept, catalog, ai, had, face, open, opening, busy>>
          /\ preview' = [NoPreview EXCEPT !.is = "failed"]
      BY <1>6 DEF PreviewFails, stored, lists
    <2>2. preview' \in PreviewState /\ preview'.is = "failed"
      BY <2>1 DEF NoPreview, PreviewState
    <2>3. PreviewOk'
      BY <2>2 DEF PreviewOk
    <2>4. open' \in BOOLEAN
      BY <1>1, <2>1 DEF DialogInv
    <2>5. QED
      BY <1>2, <2>1, <2>2, <2>3, <2>4
  <1>7. CASE Remount
    <2>1. /\ UNCHANGED <<made, kept>> /\ catalog' = NoList /\ ai' = NoList /\ had' = {}
          /\ face' = "catalog" /\ open' = FALSE /\ preview' = NoPreview /\ busy' = FALSE
          /\ opening' = << >>
      BY <1>7 DEF Remount, stored
    <2>2. << >> \in Seq(Pull) /\ Len(<< >>) <= 1
      BY EmptySeq
    <2>3. StoredInv' /\ ListsInv'
      BY <1>1, <2>1, EmptyTypes DEF StoredInv, ListsInv
    <2>4. DialogInv'
      BY <2>1, <2>2, EmptyTypes DEF DialogInv, OnePr
    <2>5. PreviewOk' /\ PullsOk'
      BY <2>1 DEF PreviewOk, PullsOk
    <2>6. QED
      BY <2>3, <2>4, <2>5 DEF ReviewedInv, PanelInv, ReviewInv
  <1>8. QED
    BY <1>3, <1>4, <1>5, <1>6, <1>7

LEMMA ServePreviewStep ==
  ASSUME ReviewedInv, ServePreview
  PROVE  ReviewedInv'
  <1>1. /\ PanelInv /\ ListsInv /\ DialogInv /\ PreviewOk /\ PullsOk
        /\ preview \in PreviewState /\ preview.is = "loading"
        /\ Generate(preview.asked, FALSE, {})
        /\ UNCHANGED <<catalog, ai, had, face, open, busy>>
    BY DEF ReviewedInv, PanelInv, ReviewInv, DialogInv, ServePreview, lists
  <1>2. PICK fs \in SUBSET AllFindings : fs = preview.asked
    BY <1>1 DEF PreviewState
  <1>3. Generate(fs, FALSE, {})
    BY <1>1, <1>2
  <1>4. /\ StoredInv'
        /\ opening' \in Seq(Pull) /\ OnePr' /\ (opening = << >> => opening' = << >>)
        /\ \A f \in fs : <<f, made'[f]>> \in Text
    BY <1>1, <1>3, GenerateTypes
  <1>5. PullsOk'
    BY <1>1, <1>3, GeneratedPulls
  <1>6. PICK texts : texts = {<<f, made'[f]>> : f \in fs}
    OBVIOUS
  <1>7. texts \in SUBSET Text
    BY <1>4, <1>6
  <1>8. \E ready \in BOOLEAN :
          preview' = [preview EXCEPT !.is = "served", !.ready = ready, !.moved = {},
                                     !.texts = texts]
    BY <1>2, <1>6 DEF ServePreview
  <1>9. /\ preview' \in PreviewState /\ preview'.asked = fs /\ preview'.texts = texts
        /\ preview'.is = "served" /\ preview'.moved = {}
    BY <1>1, <1>2, <1>7, <1>8 DEF PreviewState
  <1>10. \A f \in fs : f \in kept' /\ <<f, made'[f]>> \in texts
    BY <1>3, <1>6 DEF Generate
  <1>11. Firsts(texts) = fs
    <2>1. \A f \in fs : <<f, made'[f]>>[1] = f
      OBVIOUS
    <2>2. ASSUME NEW x \in Firsts(texts) PROVE x \in fs
      BY <1>6, <2>1 DEF Firsts
    <2>3. ASSUME NEW x \in fs PROVE x \in Firsts(texts)
      <3>1. <<x, made'[x]>> \in texts
        BY <1>6
      <3>2. QED
        BY <2>1, <3>1 DEF Firsts
    <2>4. QED
      BY <2>2, <2>3
  <1>12. PreviewOk'
    <2>1. Fresh(fs, {}, texts)'
      BY <1>10 DEF Fresh
    <2>2. open' /\ Input(ai)' # {} => preview'.asked = Input(ai)'
      BY <1>1, <1>2, <1>9 DEF PreviewOk, Input
    <2>3. QED
      BY <1>9, <1>11, <2>1, <2>2 DEF PreviewOk, Fresh
  <1>13. PanelInv'
    BY <1>1, <1>4, <1>9 DEF PanelInv, ListsInv, DialogInv
  <1>14. QED
    BY <1>5, <1>12, <1>13 DEF ReviewedInv, ReviewInv

LEMMA ConfirmStep ==
  ASSUME ReviewedInv, Confirm
  PROVE  ReviewedInv'
  <1>0. /\ open /\ preview.is = "data" /\ ~busy /\ Input(ai) # {}
        /\ Render /\ busy' = TRUE
        /\ UNCHANGED <<made, kept, catalog, ai, had, face, open>>
    BY DEF Confirm, stored, lists
  <1>1. /\ PanelInv /\ StoredInv /\ ListsInv /\ DialogInv /\ PreviewOk
        /\ ai \in ListState /\ preview \in PreviewState
        /\ open /\ preview.is = "data" /\ ~busy /\ Input(ai) # {} /\ opening = << >>
        /\ Render /\ busy' = TRUE
        /\ UNCHANGED <<made, kept, catalog, ai, had, face, open>>
    <2>1. StoredInv /\ ListsInv /\ DialogInv /\ PreviewOk /\ PanelInv
      BY DEF ReviewedInv, PanelInv, ReviewInv
    <2>2. ai \in ListState
      BY <2>1 DEF ListsInv
    <2>3. preview \in PreviewState /\ opening = << >>
      BY <1>0, <2>1 DEF DialogInv
    <2>4. QED
      BY <1>0, <2>1, <2>2, <2>3
  <1>2. Input(ai) \in (SUBSET AllFindings) \ {{}}
    <2>1. Input(ai) \subseteq AllFindings
      BY <1>1, InputTypes
    <2>2. Input(ai) # {}
      BY <1>0
    <2>3. QED
      BY <2>1, <2>2
  <1>3. PICK o : o = [is |-> "sent", ids |-> Input(ai), seen |-> preview.texts,
                      moved |-> preview.moved, texts |-> {}]
    OBVIOUS
  <1>4. opening' = Append(opening, o) /\ o \in Pull
    BY <1>1, <1>2, <1>3 DEF Confirm, Pull, PreviewState
  <1>5. /\ Firsts(o.seen) = o.ids /\ o.is = "sent"
        /\ \A f \in o.ids \ o.moved : f \in kept /\ <<f, made[f]>> \in o.seen
    BY <1>1, <1>3 DEF PreviewOk, Fresh
  <1>6. /\ opening' \in Seq(Pull) /\ Len(opening') = 1 /\ opening'[1] = o
    <2>1. opening \in Seq(Pull) /\ Len(opening) = 0
      BY <1>1, EmptySeq
    <2>2. PICK n \in Nat : n = Len(opening)
      BY <2>1
    <2>3. /\ opening' \in Seq(Pull) /\ Len(opening') = n + 1
          /\ opening'[n + 1] = o
      BY <1>4, <2>1, <2>2, AppendElements
    <2>4. n + 1 = 1
      BY <2>1, <2>2
    <2>5. QED
      BY <2>3, <2>4
  <1>7. DOMAIN opening' = 1..1
    BY <1>6, LenProperties
  <1>8. PullsOk'
    <2>1. PullOk(o)'
      BY <1>1, <1>5 DEF PullOk, Fresh
    <2>2. QED
      BY <1>6, <1>7, <2>1 DEF PullsOk
  <1>9. preview' = Review(open, Input(ai)) /\ Input(ai)' = Input(ai)
    BY <1>1 DEF Render, Input
  <1>10. preview' \in PreviewState
    BY <1>1, <1>9, InputTypes, ReviewTypes
  <1>11. PreviewOk'
    <2> DEFINE shown == open  input == Input(ai)
    <2>1. open' = shown /\ Input(ai)' = input /\ preview' = Review(shown, input)
      BY <1>1, <1>9
    <2>2. QED
      BY <2>1, Reviewed
  <1>12. StoredInv' /\ ListsInv'
    BY <1>1 DEF StoredInv, ListsInv
  <1>13. DialogInv'
    BY <1>1, <1>6, <1>10 DEF DialogInv, OnePr
  <1>14. QED
    BY <1>8, <1>11, <1>12, <1>13 DEF ReviewedInv, PanelInv, ReviewInv

\* Serving a pull request writes the texts that are not stored: those moved.
LEMMA ServePrStep ==
  ASSUME ReviewedInv, NEW i \in DOMAIN opening, ServePr(i)
  PROVE  ReviewedInv'
  <1> DEFINE o == opening[i]
             W == o.ids \ kept
             texts == {<<f, made'[f]>> : f \in o.ids}
  <1>1. /\ StoredInv /\ ListsInv /\ DialogInv /\ PreviewOk /\ PullsOk
        /\ o.is = "sent" /\ UNCHANGED <<catalog, ai, had, face, open, preview, busy>>
    BY DEF ReviewedInv, PanelInv, ReviewInv, ServePr, lists
  <1>2. i = 1 /\ DOMAIN opening = {1} /\ o \in Pull
    BY <1>1, TheOne
  <1>3. W \in SUBSET AllFindings /\ o.ids \in SUBSET AllFindings
    BY <1>2 DEF Pull
  <1>4. /\ \A f \in W : made[f] < MaxTexts
        /\ made' = [f \in AllFindings |-> made[f] + IF f \in W THEN 1 ELSE 0]
        /\ kept' = kept \union o.ids
        /\ opening' = [opening EXCEPT ![i].is = "done", ![i].texts = texts]
    BY DEF ServePr
  <1>5. /\ made' \in [AllFindings -> 0..MaxTexts]
        /\ \A f \in AllFindings : made[f] > 0 \/ f \in W => made'[f] > 0
        /\ \A f \in AllFindings \ W : made'[f] = made[f]
    <2> HIDE DEF W
    <2>1. QED
      BY <1>1, <1>3, <1>4, MadeTypes
  <1>6. StoredInv'
    <2>1. \A f \in kept' : f \in AllFindings /\ made'[f] > 0
      BY <1>1, <1>3, <1>4, <1>5 DEF StoredInv
    <2>2. QED
      BY <1>5, <2>1 DEF StoredInv
  <1>7. \A f \in kept : f \in kept' /\ made'[f] = made[f]
    BY <1>1, <1>4, <1>5 DEF StoredInv
  <1>8. texts \in SUBSET Text
    <2>1. MaxTexts \in Nat
      BY RemediationAssumption
    <2>2. \A f \in o.ids : made'[f] \in 0..MaxTexts /\ made'[f] > 0
      BY <1>3, <1>4, <1>5, <1>6 DEF StoredInv
    <2>3. \A f \in o.ids : made'[f] \in 1..MaxTexts
      BY <2>1, <2>2
    <2>4. QED
      BY <1>3, <2>3 DEF Text
  <1>9. PICK p : p = [o EXCEPT !.is = "done", !.texts = texts]
    OBVIOUS
  <1>10. \A f \in o.ids \ o.moved : f \in kept /\ <<f, made[f]>> \in o.seen
    BY <1>1 DEF PullsOk, PullOk, Fresh
  <1>11. \A t \in texts : t \in o.seen \/ t[1] \in o.moved
    <2> SUFFICES ASSUME NEW f \in o.ids PROVE <<f, made'[f]>> \in o.seen \/ f \in o.moved
      OBVIOUS
    <2>1. QED
      BY <1>7, <1>10
  <1>12. Firsts(o.seen) = o.ids
    BY <1>1 DEF PullsOk, PullOk
  <1> HIDE DEF texts
  <1>13. /\ p \in Pull /\ p.is = "done" /\ p.texts = texts /\ p.seen = o.seen
         /\ p.ids = o.ids /\ p.moved = o.moved
    BY <1>2, <1>8, <1>9 DEF Pull
  <1>20. opening' = [opening EXCEPT ![i] = p]
    BY <1>4, <1>9
  <1>21. \A t \in p.texts : t \in p.seen \/ t[1] \in p.moved
    BY <1>11, <1>13
  <1>22. Firsts(p.seen) = p.ids
    BY <1>12, <1>13 DEF Firsts
  <1> HIDE DEF o, W
  <1>14. PullOk(p)'
    BY <1>13, <1>21, <1>22 DEF PullOk, Firsts
  <1>15. /\ opening' \in Seq(Pull) /\ OnePr' /\ DOMAIN opening' = {1} /\ opening'[1] = p
    <2>1. opening \in Seq(Pull) /\ Len(opening) <= 1
      BY <1>1 DEF DialogInv, OnePr
    <2>2. DOMAIN opening = 1..Len(opening) /\ Len(opening) \in Nat
      BY <2>1, LenProperties
    <2>3. i \in 1..Len(opening)
      BY <2>2
    <2>4. /\ opening' \in Seq(Pull) /\ Len(opening') = Len(opening)
          /\ opening'[i] = p
      BY <1>20, <1>13, <2>1, <2>3, ExceptSeq
    <2>5. DOMAIN opening' = 1..Len(opening')
      BY <2>4, LenProperties
    <2>6. QED
      BY <1>2, <2>1, <2>2, <2>4, <2>5 DEF OnePr
  <1>16. PullsOk'
    BY <1>14, <1>15 DEF PullsOk
  <1>17. PreviewOk'
    <2>1. \A f \in preview.asked \ preview.moved :
            f \in kept /\ <<f, made[f]>> \in preview.texts =>
            f \in kept' /\ <<f, made'[f]>> \in preview.texts
      BY <1>7
    <2>2. QED
      BY <1>1, <2>1 DEF PreviewOk, Fresh, Input
  <1>18. ListsInv' /\ DialogInv'
    <2>1. busy
      BY <1>1, TheOne
    <2>2. QED
      BY <1>1, <1>15, <2>1 DEF ListsInv, DialogInv
  <1>19. QED
    BY <1>6, <1>16, <1>17, <1>18 DEF ReviewedInv, PanelInv, ReviewInv

LEMMA PrEnds ==
  ASSUME ReviewedInv, NEW i \in DOMAIN opening, PrLands(i) \/ PrFails(i)
  PROVE  ReviewedInv'
  <1>1. /\ StoredInv /\ ListsInv /\ DialogInv /\ PreviewOk
        /\ ai \in ListState /\ preview \in PreviewState
        /\ UNCHANGED <<made, kept, catalog, ai, had, face>>
    BY DEF ReviewedInv, PanelInv, ReviewInv, ListsInv, DialogInv, PrLands, PrFails, stored,
           lists
  <1>2. opening' = << >> /\ busy' = FALSE
    BY <1>1, TheOne DEF PrLands, PrFails
  <1>3. << >> \in Seq(Pull) /\ Len(<< >>) <= 1
    BY EmptySeq
  <1>4. Review(open, Input(ai)) \in PreviewState
    BY <1>1, InputTypes, ReviewTypes
  <1>5. preview' \in PreviewState /\ open' \in BOOLEAN /\ PreviewOk'
    <2>1. CASE PrLands(i)
      BY <1>1, <1>4, <2>1 DEF PrLands, PreviewOk
    <2>2. CASE PrFails(i)
      <3> DEFINE shown == open  input == Input(ai)
      <3>1. open' = shown /\ Input(ai)' = input /\ preview' = Review(shown, input)
        BY <1>1, <2>2 DEF PrFails, Render, Input
      <3>2. PreviewOk'
        BY <3>1, Reviewed
      <3>3. QED
        BY <1>1, <1>4, <3>1, <3>2 DEF DialogInv
    <2>3. QED
      BY <2>1, <2>2
  <1>6. StoredInv' /\ ListsInv' /\ DialogInv'
    BY <1>1, <1>2, <1>3, <1>5 DEF StoredInv, ListsInv, DialogInv, OnePr
  <1>7. PullsOk'
    BY <1>2 DEF PullsOk
  <1>8. QED
    BY <1>5, <1>6, <1>7 DEF ReviewedInv, PanelInv, ReviewInv

\* A text that is discarded or written elsewhere: whoever saw it is told.
LEMMA MovedElsewhere ==
  ASSUME ReviewedInv, NEW f \in AllFindings, Moved(f), StoredInv',
         \A g \in kept \ {f} : g \in kept' /\ made'[g] = made[g],
         UNCHANGED <<catalog, ai, had, face, open, busy>>
  PROVE  ReviewedInv'
  <1>1. /\ ListsInv /\ DialogInv /\ PreviewOk /\ PullsOk /\ preview \in PreviewState
        /\ opening' = [i \in DOMAIN opening |-> [opening[i] EXCEPT !.moved = @ \union {f}]]
    BY DEF ReviewedInv, PanelInv, ReviewInv, DialogInv, Moved
  <1>2. /\ preview' \in PreviewState /\ preview'.is = preview.is
        /\ preview'.asked = preview.asked /\ preview'.texts = preview.texts
        /\ preview.is \in {"served", "data"} => preview'.moved = preview.moved \union {f}
    BY <1>1 DEF Moved, PreviewState
  <1>3. {f} \in SUBSET AllFindings
    OBVIOUS
  <1>4. /\ opening' \in Seq(Pull) /\ OnePr' /\ (opening = << >> => opening' = << >>)
    BY <1>1, <1>3, ToldTypes
  <1>5. PullsOk'
    BY <1>1, <1>3, PullsTold
  <1>6. PreviewOk'
    <2>1. Input(ai)' = Input(ai)
      BY DEF Input
    <2>2. ASSUME Fresh(preview.asked, preview.moved, preview.texts),
                 preview.is \in {"served", "data"}
          PROVE  Fresh(preview.asked, preview.moved, preview.texts)'
      BY <1>2, <2>2 DEF Fresh
    <2>3. QED
      BY <1>1, <1>2, <2>1, <2>2 DEF PreviewOk, Firsts
  <1>7. ListsInv' /\ DialogInv'
    BY <1>1, <1>2, <1>4 DEF ListsInv, DialogInv
  <1>8. QED
    BY <1>5, <1>6, <1>7 DEF ReviewedInv, PanelInv, ReviewInv

LEMMA ElsewhereStep ==
  ASSUME ReviewedInv, NEW f \in AllFindings, DiscardedElsewhere(f) \/ WrittenElsewhere(f)
  PROVE  ReviewedInv'
  <1>1. StoredInv /\ MaxTexts \in Nat
    BY RemediationAssumption DEF ReviewedInv, PanelInv
  <1>2. Moved(f) /\ UNCHANGED <<catalog, ai, had, face, open, busy>>
    BY DEF DiscardedElsewhere, WrittenElsewhere, lists
  <1>3. /\ \A g \in kept \ {f} : g \in kept' /\ made'[g] = made[g]
        /\ StoredInv'
    <2>1. CASE DiscardedElsewhere(f)
      BY <1>1, <2>1 DEF DiscardedElsewhere, StoredInv
    <2>2. CASE WrittenElsewhere(f)
      <3>1. /\ made[f] \in 0..MaxTexts /\ made[f] < MaxTexts
            /\ made' = [made EXCEPT ![f] = @ + 1] /\ kept' = kept \union {f}
        BY <1>1, <2>2 DEF WrittenElsewhere, StoredInv
      <3>2. made[f] + 1 \in 0..MaxTexts /\ made[f] + 1 > 0
        BY <1>1, <3>1
      <3>3. made' \in [AllFindings -> 0..MaxTexts] /\ made'[f] > 0
        BY <1>1, <3>1, <3>2 DEF StoredInv
      <3>4. \A g \in kept \ {f} : made'[g] = made[g]
        BY <1>1, <3>1 DEF StoredInv
      <3>5. QED
        BY <1>1, <3>1, <3>3, <3>4 DEF StoredInv
    <2>3. QED
      BY <2>1, <2>2
  <1>4. QED
    BY <1>2, <1>3, MovedElsewhere

-----------------------------------------------------------------------------
LEMMA PanelKept == PanelSpec => []ReviewedInv
  <1>1. PanelInit => ReviewedInv
    BY InitReviewed
  <1>2. ReviewedInv /\ [PanelNext]_panelVars => ReviewedInv'
    <2> SUFFICES ASSUME ReviewedInv, [PanelNext]_panelVars PROVE ReviewedInv'
      OBVIOUS
    <2>1. CASE \/ PageRenders \/ GenerateCatalog
               \/ \E page \in PanelPages : TurnCatalog(page)
               \/ CatalogLands \/ CatalogFails
               \/ \E v \in {"catalog", "ai"} : ToggleView(v)
      BY <2>1, CatalogSteps
    <2>2. CASE \/ SuggestWithAi \/ RegenerateAi \/ \E page \in PanelPages : TurnAi(page)
               \/ AiFails
      BY <2>2, AiSteps
    <2>3. CASE ServeAi
      BY <2>3, ServeAiStep
    <2>4. CASE AiLands
      BY <2>4, AiLandsStep
    <2>5. CASE OpenPreview \/ ClosePreview \/ PreviewLands \/ PreviewFails \/ Remount
      BY <2>5, PreviewSteps
    <2>6. CASE ServePreview
      BY <2>6, ServePreviewStep
    <2>7. CASE Confirm
      BY <2>7, ConfirmStep
    <2>8. CASE \E i \in DOMAIN opening : ServePr(i) \/ PrLands(i) \/ PrFails(i)
      BY <2>8, ServePrStep, PrEnds
    <2>9. CASE \E f \in AllFindings : DiscardedElsewhere(f) \/ WrittenElsewhere(f)
      BY <2>9, ElsewhereStep
    <2>10. CASE UNCHANGED panelVars
      BY <2>10 DEF panelVars, ReviewedInv, PanelInv, StoredInv, ListsInv, DialogInv, OnePr,
                   ReviewInv, PreviewOk, PullsOk, PullOk, Fresh, Input
    <2>11. QED
      BY <2>1, <2>2, <2>3, <2>4, <2>5, <2>6, <2>7, <2>8, <2>9, <2>10 DEF PanelNext
  <1>3. QED
    BY <1>1, <1>2, PTL DEF PanelSpec

\* The variables and the records of the panel have the types it says they have.
THEOREM PanelTypes == PanelSpec => []PanelTypeOK
  <1>1. ReviewedInv => PanelTypeOK
    <2> SUFFICES ASSUME ReviewedInv PROVE PanelTypeOK
      OBVIOUS
    <2>1. StoredInv /\ ListsInv /\ DialogInv
      BY DEF ReviewedInv, PanelInv
    <2>2. \A i \in DOMAIN opening : opening[i].ids # {}
      BY <2>1, TheOne DEF Pull
    <2>3. /\ made \in [AllFindings -> 0..MaxTexts] /\ \A f \in kept : made[f] > 0
          /\ had \subseteq {"catalog", "ai"} /\ face \in {"catalog"} \union had
          /\ {open, busy} \subseteq BOOLEAN
      BY <2>1 DEF StoredInv, ListsInv, DialogInv
    <2>4. preview.is \in {"none", "loading", "served", "data", "failed"}
      BY <2>1 DEF DialogInv, PreviewState
    <2>5. \A list \in {catalog, ai} :
            /\ list.is \in {"none", "loading", "served", "data", "failed"}
            /\ list.page \in PanelPages /\ list.texts \subseteq AllFindings \X (1..MaxTexts)
      BY <2>1 DEF ListsInv, ListState, Text
    <2>6. QED
      BY <2>2, <2>3, <2>4, <2>5 DEF PanelTypeOK
  <1>2. QED
    BY <1>1, PanelKept, PTL

\* A pull request of the panel has the texts its preview showed, except those
\* that were written anew since.
THEOREM PullsAreReviewed == PanelSpec => []PrIsReviewed
  <1>1. ReviewedInv => PrIsReviewed
    BY DEF ReviewedInv, ReviewInv, PullsOk, PullOk, PrIsReviewed, Firsts
  <1>2. QED
    BY <1>1, PanelKept, PTL

\* The panel never has two pull requests on their way.
THEOREM OnePull == PanelSpec => []OnePr
  <1>1. ReviewedInv => OnePr
    BY DEF ReviewedInv, PanelInv, DialogInv
  <1>2. QED
    BY <1>1, PanelKept, PTL

-----------------------------------------------------------------------------
(* The two together: each is as it is alone.                               *)

LEMMA AloneSession == Spec => SessionSpec /\ PanelSpec
  <1>1. Init => SessionInit /\ PanelInit
    BY DEF Init
  <1>2. [Next]_<<part, sessionVars, panelVars>> =>
          [SessionNext]_sessionVars /\ [PanelNext]_panelVars
    BY DEF Next
  <1>3. QED
    BY <1>1, <1>2, PTL DEF Spec, SessionSpec, PanelSpec

\* The states of the session and of the panel are well formed.
THEOREM ClientTyped == Spec => []TypeOK
  <1>1. SessionInv => SessionTypeOK
    BY DEF SessionInv
  <1>2. SessionTypeOK /\ PanelTypeOK => TypeOK
    BY DEF TypeOK
  <1>3. QED
    BY <1>1, <1>2, AloneSession, SessionKept, PanelTypes, PTL
=============================================================================
