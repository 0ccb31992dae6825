----------------------------- MODULE WebSession -----------------------------
(* Who is signed in, as the web client knows it: one cookie that the tabs of *)
(* a browser share, a cache of user and data in each tab, the route handlers *)
(* that exchange credentials for the cookie, and the proxy that lets a page  *)
(* through when there is one. Requests overlap, answers are lost, the cookie *)
(* expires, accounts are deleted.                                            *)
(* A behaviour follows one tab in full; the other tabs of the browser are    *)
(* what they do to the cookies, at any moment.                               *)
EXTENDS Naturals, Sequences, FiniteSets

CONSTANTS
    Users,
    Wide,        \* is the window of the tab wide (Tailwind's lg)?
    MaxTokens,   \* bound: how many tokens the API issues
    MaxFaults    \* bound: answers lost, cookies expired, accounts deleted

ASSUME SessionAssumption ==
    /\ Wide \in BOOLEAN
    /\ MaxTokens \in Nat /\ MaxFaults \in Nat
    /\ Users \cap {"none", "error"} = {}

VARIABLES
    cookie,   \* AUTH_COOKIE: a token, 0 when there is none
    google,   \* GOOGLE_LOGIN_NONCE_COOKIE and GOOGLE_REDIRECT_COOKIE
    owner,    \* the user of each token the API has issued
    live,     \* the tokens the API accepts
    nonces,   \* how many nonces were drawn
    faults,   \* how many faults there were
    tab       \* what the tab shows, holds and waits for

sessionVars == <<cookie, google, owner, live, nonces, faults, tab>>

Home  == "/projetos"
Pages == {Home, "/perfil"}
NoOne == {"none", "error"}
Token == 1..Len(owner)

-----------------------------------------------------------------------------
NoGoogle == [nonce |-> 0, redirect |-> ""]
NoFetch == [of |-> "none", token |-> 0, answer |-> "none"]
NoPost  == [op |-> "none", user |-> "none", token |-> 0, step |-> "none"]

\* A page that has just been loaded. sessionStorage (setup) outlives it.
\* History: the cookie came to name someone else since the tab's cache was
\* last empty (switched), since its sessionStorage was last emptied (drifted).
Loaded(t, screen, path) ==
    [screen |-> screen, path |-> path, me |-> "none", data |-> {},
     fetch |-> NoFetch, post |-> NoPost, attempt |-> 0, code |-> 0, wish |-> "",
     setup |-> t.setup, switched |-> FALSE, drifted |-> t.drifted]

SessionInit ==
    /\ cookie = 0
    /\ google = NoGoogle
    /\ owner = << >> /\ live = {} /\ nonces = 0 /\ faults = 0
    /\ tab = Loaded([setup |-> "none", drifted |-> FALSE], "login", "")

\* The proxy only looks whether there is a cookie: a page is swapped for the
\* sign-in form, which keeps its path as the redirect, and the form for a page.
\* "" is the sign-in form; on a page that was reached path is of no more use.
Proxied(t, page, c) ==
    [t EXCEPT !.screen = IF c = 0 THEN "login" ELSE "app",
              !.path   = IF c = 0 THEN page ELSE ""]

\* safeAppPath with its default.
Landing(path) == IF path = "" THEN Home ELSE path

\* resetClientAuthCache: the cache, Apollo's store and the guided setup go,
\* and with the cache the requests it was waiting for.
ResetKeepsSetup(t, user) ==
    [t EXCEPT !.me = user, !.data = {}, !.fetch = NoFetch,
              !.switched = FALSE, !.drifted = FALSE]
ResetKeepsRequests(t, user) ==
    [t EXCEPT !.me = user, !.data = {}, !.setup = "none",
              !.switched = FALSE, !.drifted = FALSE]
Reset(t, user) ==
    [t EXCEPT !.me = user, !.data = {}, !.fetch = NoFetch, !.setup = "none",
              !.switched = FALSE, !.drifted = FALSE]

\* What a change of the cookie is to a tab that does not reset for it.
Switch(t) == [t EXCEPT !.switched = TRUE, !.drifted = TRUE]

-----------------------------------------------------------------------------
\* A link or router.push, and an address that is loaded afresh.
Visit(page) ==
    /\ tab.screen # "away"
    /\ tab' = Proxied(tab, page, cookie)
    /\ UNCHANGED <<cookie, google, owner, live, nonces, faults>>

Load(page) ==
    /\ tab' = Proxied(Loaded(tab, "login", ""), page, cookie)
    /\ UNCHANGED <<cookie, google, owner, live, nonces, faults>>

\* useMe asks once (and again after an error), the pages ask for the rest.
Fetch(of) ==
    /\ tab.screen = "app" /\ tab.fetch = NoFetch
    /\ of = "me" => tab.me \in NoOne
    /\ tab' = [tab EXCEPT !.fetch = [of |-> of, token |-> cookie, answer |-> "none"]]
    /\ UNCHANGED <<cookie, google, owner, live, nonces, faults>>

\* forwardToApi with the cookie's token as bearer.
Serve ==
    LET f == tab.fetch IN
    /\ f.of # "none" /\ f.answer = "none"
    /\ tab' = [tab EXCEPT !.fetch.answer =
                 IF f.token \in live THEN owner[f.token] ELSE "error"]
    /\ UNCHANGED <<cookie, google, owner, live, nonces, faults>>

LandAnyAnswer ==
    LET f == tab.fetch IN
    /\ f.answer # "none"
    /\ tab' = [tab EXCEPT
         !.fetch = NoFetch,
         !.me = IF f.of = "me" THEN f.answer ELSE @,
         !.data = IF f.of = "data" THEN @ \union {f.answer} ELSE @]
    /\ UNCHANGED <<cookie, google, owner, live, nonces, faults>>
Land ==
    LET f == tab.fetch IN
    /\ f.answer # "none"
    /\ tab' = [tab EXCEPT
         !.fetch = NoFetch,
         !.me = IF f.of = "me" THEN f.answer ELSE @,
         !.data = IF f.of = "data" /\ f.answer # "error"
                     THEN @ \union {f.answer} ELSE @]
    /\ UNCHANGED <<cookie, google, owner, live, nonces, faults>>

\* start(): the guided setup of whoever the tab takes to be signed in.
StartSetup ==
    /\ tab.screen = "app" /\ tab.me \notin NoOne
    /\ tab' = [tab EXCEPT !.setup = tab.me]
    /\ UNCHANGED <<cookie, google, owner, live, nonces, faults>>

-----------------------------------------------------------------------------
\* Sign in (or register: the handlers differ in the address alone).
SubmitLogin(u) ==
    /\ tab.screen = "login" /\ tab.post = NoPost
    /\ tab' = [tab EXCEPT !.post = [NoPost EXCEPT !.op = "login", !.user = u,
                                                      !.step = "sent"],
                          !.wish = tab.path]
    /\ UNCHANGED <<cookie, google, owner, live, nonces, faults>>

Fault == faults < MaxFaults /\ faults' = faults + 1

Issue(u) ==
    /\ Len(owner) < MaxTokens
    /\ owner' = Append(owner, u)
    /\ live' = live \union {Len(owner) + 1}

ServeLogin ==
    /\ tab.post.op = "login" /\ tab.post.step = "sent"
    /\ Issue(tab.post.user)
    /\ tab' = [tab EXCEPT !.post.token = Len(owner'), !.post.step = "served"]
    /\ UNCHANGED <<cookie, google, nonces, faults>>

LoginRefused ==
    /\ tab.post.op = "login" /\ tab.post.step = "sent"
    /\ tab' = [tab EXCEPT !.post = NoPost, !.wish = ""]
    /\ UNCHANGED <<cookie, google, owner, live, nonces, faults>>

LoginLands ==
    LET p == tab.post IN
    /\ p.op = "login" /\ p.step = "served"
    /\ cookie' = p.token
    /\ tab' = [Reset(tab, p.user) EXCEPT
                 !.post = NoPost, !.screen = "app", !.path = Landing(tab.wish), !.wish = ""]
    /\ UNCHANGED <<google, owner, live, nonces, faults>>

\* The answer is lost, with its Set-Cookie or after it.
LoginLost ==
    LET p == tab.post IN
    /\ Fault
    /\ p.op = "login" /\ p.step = "served"
    /\ \/ tab' = [tab EXCEPT !.post = NoPost, !.wish = ""] /\ UNCHANGED cookie
       \/ /\ cookie' = p.token
          /\ tab' = [Switch(tab) EXCEPT !.post = NoPost, !.wish = ""]
    /\ UNCHANGED <<google, owner, live, nonces>>

-----------------------------------------------------------------------------
\* Header: wide windows have the button, narrow ones the menu of the user,
\* which needs one.
SignOutOffered ==
    /\ tab.screen = "app"
    /\ Wide \/ tab.me \notin NoOne

SubmitLogout ==
    /\ SignOutOffered /\ tab.post = NoPost
    /\ tab' = [tab EXCEPT !.post = [NoPost EXCEPT !.op = "logout", !.token = cookie,
                                                      !.step = "sent"]]
    /\ UNCHANGED <<cookie, google, owner, live, nonces, faults>>

\* The route handler answers also when the API cannot be reached.
ServeLogout ==
    /\ tab.post.op = "logout" /\ tab.post.step = "sent"
    /\ live' \in {live, live \ {tab.post.token}}
    /\ tab' = [tab EXCEPT !.post.step = "served"]
    /\ UNCHANGED <<cookie, google, owner, nonces, faults>>

LogoutLands ==
    /\ tab.post.op = "logout" /\ tab.post.step = "served"
    /\ cookie' = 0
    /\ tab' = Proxied([Reset(tab, "none") EXCEPT !.post = NoPost], "", 0)
    /\ UNCHANGED <<google, owner, live, nonces, faults>>

\* handleLogout goes to the sign-in form in any case, without a reset.
LogoutLost ==
    /\ Fault
    /\ tab.post.op = "logout" /\ tab.post.step # "none"
    /\ cookie' \in IF tab.post.step = "served" THEN {cookie, 0} ELSE {cookie}
    /\ tab' = Proxied([tab EXCEPT !.post = NoPost], "", cookie')
    /\ UNCHANGED <<google, owner, live, nonces>>

-----------------------------------------------------------------------------
\* The button leaves the page; nonce and redirect are cookies of the browser.
GoogleStartKeepsRedirect ==
    /\ tab.screen = "login" /\ nonces < MaxTokens
    /\ nonces' = nonces + 1
    /\ google' = [nonce |-> nonces', redirect |->
                    IF tab.path # "" THEN tab.path ELSE google.redirect]
    /\ tab' = [Loaded(tab, "away", "") EXCEPT !.attempt = nonces', !.wish = tab.path]
    /\ UNCHANGED <<cookie, owner, live, faults>>
GoogleStart ==
    /\ tab.screen = "login" /\ nonces < MaxTokens
    /\ nonces' = nonces + 1
    /\ google' = [nonce |-> nonces', redirect |-> tab.path]
    /\ tab' = [Loaded(tab, "away", "") EXCEPT !.attempt = nonces', !.wish = tab.path]
    /\ UNCHANGED <<cookie, owner, live, faults>>

\* The API binds a code and its token to the nonce it was given.
GoogleConsent(u) ==
    /\ tab.screen = "away" /\ tab.code = 0
    /\ Issue(u)
    /\ tab' = [tab EXCEPT !.code = Len(owner')]
    /\ UNCHANGED <<cookie, google, nonces, faults>>

GoogleCallback ==
    /\ tab.screen = "away"
    /\ google' = NoGoogle
    /\ IF tab.code # 0 /\ google.nonce = tab.attempt
       THEN /\ cookie' = tab.code
            /\ tab' = [Loaded(tab, "app", Landing(google.redirect)) EXCEPT !.drifted = TRUE]
       ELSE /\ tab' = Proxied(Loaded(tab, "login", ""), "", cookie)
            /\ UNCHANGED cookie
    /\ UNCHANGED <<owner, live, nonces, faults>>

-----------------------------------------------------------------------------
\* maxAge of the cookie, and AdminUserService::delete of the account.
Expire ==
    /\ Fault
    /\ cookie # 0
    /\ cookie' = 0
    /\ UNCHANGED <<google, owner, live, nonces, tab>>

AccountDeleted(u) ==
    /\ Fault
    /\ \E k \in live : owner[k] = u
    /\ live' = {k \in live : owner[k] # u}
    /\ UNCHANGED <<cookie, google, owner, nonces, tab>>

\* Another tab signs in, signs out, or goes through Google.
OtherSignsIn(u) ==
    /\ Issue(u)
    /\ cookie' = Len(owner')
    /\ tab' = Switch(tab)
    /\ UNCHANGED <<google, nonces, faults>>

OtherSignsOut ==
    /\ cookie # 0
    /\ live' = live \ {cookie}
    /\ cookie' = 0
    /\ UNCHANGED <<google, owner, nonces, faults, tab>>

OtherGoogleStart(page) ==
    /\ nonces < MaxTokens
    /\ nonces' = nonces + 1
    /\ google' = [nonce |-> nonces', redirect |-> page]
    /\ UNCHANGED <<cookie, owner, live, faults, tab>>

OtherGoogleCallback(u) ==
    /\ google' = NoGoogle
    /\ \/ /\ google.nonce \notin {0, tab.attempt}
          /\ Issue(u) /\ cookie' = Len(owner') /\ tab' = Switch(tab)
       \/ UNCHANGED <<cookie, owner, live, tab>>
    /\ UNCHANGED <<nonces, faults>>

SessionNext ==
    \/ \E page \in Pages \union {""} : Visit(page) \/ Load(page) \/ OtherGoogleStart(page)
    \/ \E of \in {"me", "data"} : Fetch(of)
    \/ \E u \in Users : \/ SubmitLogin(u) \/ GoogleConsent(u) \/ AccountDeleted(u)
                        \/ OtherSignsIn(u) \/ OtherGoogleCallback(u)
    \/ Serve \/ Land \/ StartSetup
    \/ ServeLogin \/ LoginRefused \/ LoginLands \/ LoginLost
    \/ SubmitLogout \/ ServeLogout \/ LogoutLands \/ LogoutLost
    \/ GoogleStart \/ GoogleCallback
    \/ Expire \/ OtherSignsOut

SessionSpec == SessionInit /\ [][SessionNext]_sessionVars
-----------------------------------------------------------------------------
Person == Users \union NoOne
TabState ==
    [screen : {"login", "app", "away"}, path : Pages \union {""}, me : Person,
     data : SUBSET Users,
     fetch : [of : {"none", "me", "data"}, token : Nat, answer : Person],
     post : [op : {"none", "login", "logout"}, user : Users \union {"none"},
             token : Nat, step : {"none", "sent", "served"}],
     attempt : Nat, code : Nat, wish : Pages \union {""},
     setup : Users \union {"none"}, switched : BOOLEAN, drifted : BOOLEAN]

SessionTypeOK ==
    /\ owner \in Seq(Users)
    /\ live \subseteq Token
    /\ cookie \in Token \union {0}
    /\ nonces \in Nat /\ faults \in 0..MaxFaults
    /\ google \in [nonce : Nat, redirect : Pages \union {""}]
    /\ tab \in TabState
    /\ {tab.fetch.token, tab.post.token, tab.code} \subseteq Token \union {0}

\* What a tab shows, user and data, is one user's (resetClientAuthCache, the
\* page loads around Google): answers to requests of an earlier session, lost
\* answers and expired cookies included. Only a sign-in in another tab, or one
\* whose answer was lost after its cookie was set, mixes two users.
OneUserPerTab ==
    ~tab.switched => \A u, v \in tab.data \union ({tab.me} \ NoOne) : u = v

\* A guided setup is shown to the user who began it (sessionStorage is emptied
\* by resetClientAuthCache), unless the session changed in another tab or
\* through Google, neither of which empties it.
SetupIsOwn ==
    (tab.screen = "app" /\ ~tab.drifted /\ tab.me \notin NoOne) =>
        tab.setup \in {"none", tab.me}

\* A sign-in through Google ends where its own tab was going, whatever other
\* tabs began, abandoned or finished meanwhile (google/route.ts sets nonce and
\* redirect together, the callback uses both or none).
GoogleOwnRedirect ==
    [][(tab.code # 0 /\ cookie' # cookie /\ cookie' = tab.code) =>
         tab'.path = Landing(tab.wish)]_sessionVars

\* "Sessão expirada. Faça login novamente." (lib/api/error-handler.ts): a tab
\* that is told so can get to the sign-in form, by itself or by signing out.
NeverLockedOut ==
    (tab.screen = "app" /\ tab.me = "error") =>
        cookie \in live \union {0} \/ SignOutOffered
=============================================================================
