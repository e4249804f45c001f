---- MODULE Oidc ----
(***************************************************************************)
(* Sessions of the OIDC module (modules/oidc): login with its cookies, the *)
(* encrypted session cookie, its renewal and its end.  All state is in one *)
(* user's browser, whose tabs send requests in parallel: each carries the  *)
(* cookies of the moment it is sent and brings back cookies when it is     *)
(* answered.  A request is answered in the step that ends its handler.     *)
(* There is one client, so ClientName always matches.                      *)
(***************************************************************************)
EXTENDS Integers, FiniteSets

CONSTANTS
  Tabs,         \* tabs, and the page each of them opens
  Logins,       \* values of state and nonce; one is used again when it is gone
  None,         \* an absent cookie
  TokenLife,    \* how long a token of the provider is valid
  RenewOffset,  \* renewOffset
  Expirations,  \* values of client.expiration; 0 when none is configured
  MaxTime       \* bound on the clock

authInfo ==
  [authAt : Nat, expiry : Nat, member : BOOLEAN]

ASSUME OidcAssumption ==
  /\ TokenLife \in Nat \ {0} /\ RenewOffset \in Nat /\ MaxTime \in Nat
  /\ Expirations \subseteq Nat
  /\ None \notin Logins \cup Tabs \cup authInfo

VARIABLES
  now,          \* the clock
  expiration,   \* client.expiration
  member,       \* the user is in an allowed group
  jar,          \* the cookies in the browser
  tab,          \* what a tab is doing, or where its request is
  method,       \* the method of its request
  at,           \* the page a tab shows
  sent,         \* the cookies its request carries, those that it is asked for
  login,        \* the state and nonce it was sent to the provider with
  info,         \* the authInfo its request has extracted
  vouched       \* when the user last logged in, if an expiration is configured; else
                \* when the provider last issued a token that names the group

provider == <<member, vouched>>
tabs == <<tab, method, at, sent, login, info>>
vars == <<now, expiration, provider, jar, tabs>>

(* The cookies of a login come and go together. *)
OneLogin(c) == c.nonce = c.state /\ (c.redirect = None <=> c.state = None)

Cookies ==
  [state : Logins \cup {None}, nonce : Logins \cup {None},
   redirect : Tabs \cup {None}, session : authInfo \cup {None}]

TypeOK ==
  /\ now \in 0..MaxTime /\ vouched \in -1..now
  /\ expiration \in Expirations
  /\ member \in BOOLEAN
  /\ jar \in Cookies /\ OneLogin(jar)
  /\ tab \in [Tabs -> {"page", "request", "renew", "validate", "next", "provider", "callback"}]
  /\ method \in [Tabs -> {"get", "post"}]
  /\ at \in [Tabs -> Tabs \cup {None}]
  /\ sent \in [Tabs -> Cookies] /\ \A t \in Tabs : OneLogin(sent[t])
  /\ login \in [Tabs -> Logins \cup {None}]
  /\ info \in [Tabs -> authInfo \cup {None}]
  /\ \A t \in Tabs : info[t] # None <=> tab[t] \in {"renew", "validate", "next"}
  /\ \A t \in Tabs : login[t] # None <=> tab[t] \in {"provider", "callback"}

NoCookies == [state |-> None, nonce |-> None, redirect |-> None, session |-> None]

Init ==
  /\ now = 0 /\ vouched = -1
  /\ expiration \in Expirations
  /\ member \in BOOLEAN
  /\ jar = NoCookies
  /\ tab = [t \in Tabs |-> "page"] /\ method = [t \in Tabs |-> "get"] /\ at = [t \in Tabs |-> t]
  /\ sent = [t \in Tabs |-> NoCookies]
  /\ login = [t \in Tabs |-> None] /\ info = [t \in Tabs |-> None]

(***************************************************************************)
(* The surroundings: time, the provider, the controller, the user.         *)
(***************************************************************************)
Tick ==
  /\ now < MaxTime /\ now' = now + 1
  /\ UNCHANGED <<expiration, provider, jar, tabs>>

MembershipChanges ==
  /\ member' = ~member
  /\ UNCHANGED <<now, expiration, jar, tabs, vouched>>

(* The user closes the browser, the Max-Age of the session cookie is over, or the
   key it is encrypted with has changed.                                       *)
ForgetSession ==
  /\ jar.session # None /\ jar' = [jar EXCEPT !.session = None]
  /\ UNCHANGED <<now, expiration, provider, tabs>>

(***************************************************************************)
(* Answers.  They end a request: its locals are forgotten, its Set-Cookies *)
(* are put in the jar.                                                     *)
(***************************************************************************)
Answer(t, next, cookies) ==
  /\ tab' = [tab EXCEPT ![t] = next]
  /\ method' = [method EXCEPT ![t] = "get"] /\ info' = [info EXCEPT ![t] = None]
  /\ sent' = [sent EXCEPT ![t] = NoCookies]
  /\ jar' = cookies
  /\ UNCHANGED <<now, expiration>>

(* The user leaves before the answer, and the cookies in it are lost. *)
Abandon(t) ==
  /\ tab[t] # "page"
  /\ Answer(t, "page", jar)
  /\ at' = [at EXCEPT ![t] = t] /\ login' = [login EXCEPT ![t] = None]
  /\ UNCHANGED provider

InUse ==
  LET of(c) == {c.state, c.nonce} IN
  of(jar) \cup UNION {of(sent[t]) \cup {login[t]} : t \in Tabs}

randString == CHOOSE l \in Logins : l \notin InUse

(* Mutant: one of the cookies of a login stays. *)
callbackCookiesShort == {"state", "redirect"}

callbackCookies == {"state", "nonce", "redirect"}

Cleared(c, names) == [n \in DOMAIN c |-> IF n \in names THEN None ELSE c[n]]

(* Mutant: a login that is under way in another tab is taken over, so that both
   can finish.                                                                 *)
startLoginShared(t, cookies) ==
  LET l == IF jar.state # None THEN jar.state ELSE randString IN
  /\ Logins \ InUse # {}
  /\ Answer(t, "provider",
            [cookies EXCEPT !.state = l, !.nonce = l, !.redirect = at[t]])
  /\ login' = [login EXCEPT ![t] = l]
  /\ UNCHANGED <<at, provider>>

startLogin(t, cookies) ==
  /\ Logins \ InUse # {}
  /\ Answer(t, "provider",
            [cookies EXCEPT !.state = randString, !.nonce = randString, !.redirect = at[t]])
  /\ login' = [login EXCEPT ![t] = randString]
  /\ UNCHANGED <<at, provider>>

(* The session cookie is cleared if the request had one, whatever the browser
   has in its place by now.                                                    *)
handleUnauthorized(t) ==
  LET cookies == IF sent[t].session # None THEN [jar EXCEPT !.session = None] ELSE jar IN
  \/ method[t] = "get" /\ startLogin(t, cookies)
  \/ /\ method[t] = "post" /\ Answer(t, "page", cookies)
     /\ UNCHANGED <<at, login, provider>>

(***************************************************************************)
(* A request for a page of the protected route.  post stands for every     *)
(* request that cannot be redirected: other methods and WebSockets.        *)
(***************************************************************************)
Open(t, m) ==
  /\ tab[t] = "page"
  /\ tab' = [tab EXCEPT ![t] = "request"] /\ method' = [method EXCEPT ![t] = m]
  /\ sent' = [sent EXCEPT ![t] = Cleared(jar, callbackCookies)]
  /\ UNCHANGED <<now, expiration, provider, jar, at, login, info>>

(* A cookie that cannot be decrypted is an absent one, see ForgetSession. *)
extractAuthInfo(t) == sent[t].session

renewalDue(i) == ~(i.expiry > now + RenewOffset)

IngressMiddleware(t) ==
  LET i == extractAuthInfo(t) IN
  /\ tab[t] = "request"
  /\ \/ i = None /\ handleUnauthorized(t)
     \/ /\ i # None
        /\ tab' = [tab EXCEPT ![t] = IF renewalDue(i) THEN "renew" ELSE "validate"]
        /\ info' = [info EXCEPT ![t] = i]
        /\ UNCHANGED <<now, expiration, provider, jar, method, at, sent, login>>

(* Mutant: a renewal counts as an authentication. *)
renewedInfoAnew(i) == [i EXCEPT !.authAt = now, !.expiry = now + TokenLife, !.member = member]

(* The info made from the provider's answer to a refresh. *)
renewedInfo(i) == [i EXCEPT !.expiry = now + TokenLife, !.member = member]

(* Without a refresh token nothing is renewed.  The refresh fails when the provider
   does not answer, refuses a token that a request in parallel has used before, or
   leaves out the ID token, or when the cookie cannot be made: the old info is kept. *)
renewAuthInfo(t) ==
  /\ tab[t] = "renew" /\ tab' = [tab EXCEPT ![t] = "validate"]
  /\ \/ UNCHANGED <<info, vouched>>
     \/ /\ info' = [info EXCEPT ![t] = renewedInfo(@)]
        /\ vouched' = IF expiration = 0 /\ member THEN now ELSE vouched
  /\ UNCHANGED <<now, expiration, member, jar, method, at, sent, login>>

validateInfo(i) ==
  IF expiration # 0 THEN i.authAt + expiration > now ELSE i.expiry > now

checkAccess(i) == i.member

Validate(t) ==
  /\ tab[t] = "validate"
  /\ \/ ~validateInfo(info[t]) /\ handleUnauthorized(t)
     \/ /\ validateInfo(info[t]) /\ ~checkAccess(info[t])
        /\ Answer(t, "page", jar) /\ UNCHANGED <<at, login, provider>>
     \/ /\ validateInfo(info[t]) /\ checkAccess(info[t])
        /\ tab' = [tab EXCEPT ![t] = "next"]
        /\ UNCHANGED <<now, expiration, provider, jar, method, at, sent, login, info>>

(* The rest of the chain.  A renewed cookie only reaches the browser when the
   request is proxied; a later middleware may answer by itself.                *)
Proxied(t) ==
  /\ tab[t] = "next"
  /\ \/ Answer(t, "page",
               IF info[t] # sent[t].session THEN [jar EXCEPT !.session = info[t]] ELSE jar)
     \/ Answer(t, "page", jar)
  /\ UNCHANGED <<at, login, provider>>

(***************************************************************************)
(* The login.                                                              *)
(***************************************************************************)

(* The provider sends the browser to the callback with a code, whose token will
   carry the nonce, and the state.                                             *)
Authenticate(t) ==
  /\ tab[t] = "provider"
  /\ tab' = [tab EXCEPT ![t] = "callback"]
  /\ sent' = [sent EXCEPT ![t] = Cleared(jar, {"session"})]
  /\ UNCHANGED <<now, expiration, provider, jar, method, at, login, info>>

(* Mutant: the lifetime in the provider's answer is not read. *)
newInfoNoExpiry == [authAt |-> now, expiry |-> 0, member |-> member]

newInfo == [authAt |-> now, expiry |-> now + TokenLife, member |-> member]

(* The error page is written before the cookies are cleared: they stay. *)
CallbackRefused(t) ==
  /\ sent[t].state = None \/ sent[t].state # login[t] \/ sent[t].nonce # login[t]
  /\ Answer(t, "page", jar)
  /\ at' = at /\ login' = [login EXCEPT ![t] = None] /\ UNCHANGED provider

ExchangeFails(t) ==
  /\ sent[t].state = login[t]
  /\ Answer(t, "page", jar)
  /\ at' = at /\ login' = [login EXCEPT ![t] = None] /\ UNCHANGED provider

(* generateJwtCookie fails: the user is authenticated, and has no session. *)
CookieFails(t) ==
  /\ sent[t].state = login[t] /\ sent[t].nonce = login[t]
  /\ Answer(t, "page", Cleared(jar, callbackCookies))
  /\ at' = at /\ login' = [login EXCEPT ![t] = None] /\ UNCHANGED provider

CallbackSucceeds(t) ==
  /\ sent[t].state = login[t] /\ sent[t].nonce = login[t]
  /\ Answer(t, "page", [Cleared(jar, callbackCookies) EXCEPT !.session = newInfo])
  /\ at' = [at EXCEPT ![t] = sent[t].redirect] /\ login' = [login EXCEPT ![t] = None]
  /\ vouched' = IF expiration # 0 \/ member THEN now ELSE vouched
  /\ UNCHANGED member

handleCallback(t) ==
  /\ tab[t] = "callback"
  /\ CallbackRefused(t) \/ ExchangeFails(t) \/ CookieFails(t) \/ CallbackSucceeds(t)
----------------------------------------------------------------------------
Handler(t) ==
  IngressMiddleware(t) \/ renewAuthInfo(t) \/ Validate(t) \/ Proxied(t) \/ handleCallback(t)

Next ==
  \/ Tick \/ MembershipChanges \/ ForgetSession
  \/ \E t \in Tabs :
       \/ \E m \in {"get", "post"} : Open(t, m)
       \/ Authenticate(t) \/ Abandon(t) \/ Handler(t)

(* The scheduler runs handlers.  Nothing is assumed of the user and the provider. *)
Fairness == \A t \in Tabs : WF_vars(Handler(t))

Spec == Init /\ [][Next]_vars /\ Fairness

(***************************************************************************)
(* Properties.                                                             *)
(***************************************************************************)

AuthExpiration == IF expiration # 0 THEN expiration ELSE TokenLife

(* Nobody is let through on an old session: with authExpiration the user has logged
   in less than that long ago, whatever has been renewed since; without it the
   provider has issued a token with the group less than a token's life ago.  This is
   across tabs that renew in parallel, fail to renew, and put cookies back that
   another tab has replaced.                                                      *)
AccessBounded ==
  [][\A t \in Tabs : tab[t] # "next" /\ tab'[t] = "next" =>
       vouched >= 0 /\ now < vouched + AuthExpiration]_vars

(* A login ends on the page it was started from, though all logins of the browser
   share one cookie for the page: handleCallback redirects to the cookie only when
   state and nonce show that it belongs to this login.                           *)
ReturnsToPage == \A t \in Tabs : at[t] = t

(* The user only uses tab t, and waits for answers; the provider answers there. *)
Undisturbed(t) ==
  /\ \A u \in Tabs \ {t} : tab'[u] = "page"
  /\ method'[t] = "get" /\ ~ForgetSession
  /\ Handler(t) \/ ~Abandon(t)
  /\ tab[t] = "callback" => ~ExchangeFails(t) /\ ~CookieFails(t)

Persistent(t) ==
  WF_vars(Open(t, "get") \/ Authenticate(t)) /\ <>[][Undisturbed(t)]_vars

(* A user who keeps trying gets a session that is accepted: logins that were cut
   short, and the cookies they and failed renewals left, do not send them round in
   circles.  Only for a tab that is left alone, once the provider answers: two tabs
   that start logins in turn can overwrite each other's cookies for ever.         *)
LoginCompletes ==
  \A t \in Tabs :
    Persistent(t) => []<>(tab[t] = "validate" /\ validateInfo(info[t]))
====
