---- MODULE OidcProofs ----
(***************************************************************************)
(* The safety of OIDC sessions, for any number of tabs and any times.      *)
(***************************************************************************)
EXTENDS Oidc, TLAPS

(* The redirect cookie that comes with the state of a login names the tab that has
   started it.                                                                    *)
Owned(c) == \A u \in Tabs : c.state # None /\ c.state = login[u] => c.redirect = u

(* A session is no newer than what the provider has vouched for. *)
Backed(i) ==
  i # None =>
    IF expiration # 0 THEN vouched >= 0 /\ i.authAt <= vouched
    ELSE i.member => vouched >= 0 /\ i.expiry <= vouched + TokenLife

LoginsApart == \A t, u \in Tabs : t # u /\ login[t] # None => login[t] # login[u]

LoginInv ==
  /\ ReturnsToPage /\ LoginsApart
  /\ Owned(jar) /\ \A t \in Tabs : Owned(sent[t])

SessionInv ==
  Backed(jar.session) /\ \A t \in Tabs : Backed(sent[t].session) /\ Backed(info[t])

OidcInv == TypeOK /\ LoginInv /\ SessionInv
----------------------------------------------------------------------------
(* clearHttpCookie leaves a set of cookies, without those that it clears. *)
LEMMA ClearedCookies ==
  ASSUME NEW c \in Cookies, NEW names
  PROVE  /\ Cleared(c, names) \in Cookies
         /\ Cleared(c, names).state = IF "state" \in names THEN None ELSE c.state
         /\ Cleared(c, names).nonce = IF "nonce" \in names THEN None ELSE c.nonce
         /\ Cleared(c, names).redirect = IF "redirect" \in names THEN None ELSE c.redirect
         /\ Cleared(c, names).session = IF "session" \in names THEN None ELSE c.session
<1> DEFINE d == Cleared(c, names)
<1>1. DOMAIN c = {"state", "nonce", "redirect", "session"}
  BY DEF Cookies
<1>2. /\ d.state = IF "state" \in names THEN None ELSE c.state
      /\ d.nonce = IF "nonce" \in names THEN None ELSE c.nonce
      /\ d.redirect = IF "redirect" \in names THEN None ELSE c.redirect
      /\ d.session = IF "session" \in names THEN None ELSE c.session
  BY <1>1 DEF Cleared
<1>3. d = [state |-> d.state, nonce |-> d.nonce, redirect |-> d.redirect, session |-> d.session]
  BY <1>1 DEF Cleared
<1>4. /\ d.state \in Logins \cup {None} /\ d.nonce \in Logins \cup {None}
      /\ d.redirect \in Tabs \cup {None} /\ d.session \in authInfo \cup {None}
  BY <1>2 DEF Cookies
<1>5. d \in Cookies
  <2> HIDE DEF d
  <2> QED BY <1>3, <1>4 DEF Cookies
<1> QED BY <1>2, <1>5

(* The state and nonce of a login are in use nowhere else. *)
LEMMA RandStringFresh ==
  ASSUME Logins \ InUse # {}
  PROVE  /\ randString \in Logins
         /\ randString # jar.state
         /\ \A t \in Tabs : randString # login[t] /\ randString # sent[t].state
<1>1. randString \in Logins /\ randString \notin InUse
  BY DEF randString
<1>2. jar.state \in InUse /\ \A t \in Tabs : login[t] \in InUse /\ sent[t].state \in InUse
  BY DEF InUse
<1> QED BY <1>1, <1>2
----------------------------------------------------------------------------
(* The cookies of a request that is over. *)
LEMMA NoCookiesOK == NoCookies \in Cookies /\ OneLogin(NoCookies) /\ NoCookies.session = None
BY DEF NoCookies, Cookies, OneLogin

(* What an answer does to the types: it is enough to know its cookies and where the
   tab goes.                                                                       *)
LEMMA AnswerType ==
  ASSUME TypeOK, NEW t \in Tabs, NEW to \in {"page", "provider"}, NEW cookies \in Cookies,
         OneLogin(cookies), Answer(t, to, cookies),
         NEW l \in Logins \cup {None}, l # None <=> to = "provider",
         login' = [login EXCEPT ![t] = l],
         at' \in [Tabs -> Tabs \cup {None}], member' \in BOOLEAN, vouched' \in -1..now
  PROVE  TypeOK'
<1> USE DEF TypeOK, Answer
<1>1. tab' \in [Tabs -> {"page", "request", "renew", "validate", "next", "provider", "callback"}]
      /\ method' \in [Tabs -> {"get", "post"}]
  OBVIOUS
<1>2. sent' \in [Tabs -> Cookies] /\ \A u \in Tabs : OneLogin(sent'[u])
  BY NoCookiesOK
<1>3. login' \in [Tabs -> Logins \cup {None}] /\ info' \in [Tabs -> authInfo \cup {None}]
  OBVIOUS
<1>4. \A u \in Tabs : info'[u] # None <=> tab'[u] \in {"renew", "validate", "next"}
  OBVIOUS
<1>5. \A u \in Tabs : login'[u] # None <=> tab'[u] \in {"provider", "callback"}
  OBVIOUS
<1>6. now' = now /\ expiration' = expiration /\ jar' = cookies
  OBVIOUS
<1> QED BY <1>1, <1>2, <1>3, <1>4, <1>5, <1>6 DEF OneLogin

(* An answer that starts no login keeps the logins apart. *)
LEMMA AnswerLogin ==
  ASSUME TypeOK, LoginInv, NEW t \in Tabs, NEW cookies \in Cookies,
         Answer(t, "page", cookies), login' = login \/ login' = [login EXCEPT ![t] = None],
         cookies.state = None \/ (cookies.state = jar.state /\ cookies.redirect = jar.redirect)
  PROVE  LoginsApart' /\ Owned(jar)' /\ \A u \in Tabs : Owned(sent[u])'
<1> USE DEF TypeOK, Answer, LoginInv
<1>1. \A u \in Tabs : login'[u] = login[u] \/ login'[u] = None
  OBVIOUS
<1>2. LoginsApart'
  BY <1>1 DEF LoginsApart
<1>3. Owned(jar)'
  BY <1>1 DEF Owned
<1>4. \A u \in Tabs : Owned(sent[u])'
  BY <1>1 DEF Owned, NoCookies
<1> QED BY <1>2, <1>3, <1>4

(* What the provider has vouched for only grows, so no session is disowned. *)
LEMMA BackedKept ==
  ASSUME TypeOK, TypeOK', expiration' = expiration, vouched' >= vouched
  PROVE  \A i \in authInfo \cup {None} : Backed(i) => Backed(i)'
<1> SUFFICES ASSUME NEW i \in authInfo \cup {None}, Backed(i) PROVE Backed(i)'
  OBVIOUS
<1>1. vouched \in Int /\ vouched' \in Int /\ TokenLife \in Int
  BY OidcAssumption DEF TypeOK
<1>2. i # None => i.authAt \in Int /\ i.expiry \in Int
  BY DEF authInfo
<1> QED BY <1>1, <1>2 DEF Backed

(* A step that leaves in every place a session of before, or none, or a backed one. *)
LEMMA SessionKept ==
  ASSUME TypeOK, TypeOK', SessionInv, expiration' = expiration, vouched' >= vouched,
         Backed(jar.session)' \/ jar'.session \in {None, jar.session},
         \A t \in Tabs : sent'[t].session \in {None, jar.session, sent[t].session},
         \A t \in Tabs : Backed(info[t])' \/ info'[t] \in {None, info[t], sent[t].session}
  PROVE  SessionInv'
<1>1. /\ jar.session \in authInfo \cup {None}
      /\ \A t \in Tabs : sent[t].session \in authInfo \cup {None} /\ info[t] \in authInfo \cup {None}
  BY DEF TypeOK, Cookies
<1>2. \A i \in authInfo \cup {None} : Backed(i) => Backed(i)'
  BY BackedKept
<1>3. \A i : i = None => Backed(i)'
  BY DEF Backed
<1>4. Backed(jar.session)'
  BY <1>1, <1>2, <1>3 DEF SessionInv, Backed
<1>5. ASSUME NEW t \in Tabs PROVE Backed(sent[t].session)'
  BY <1>1, <1>2, <1>3 DEF SessionInv, Backed
<1>6. ASSUME NEW t \in Tabs PROVE Backed(info[t])'
  BY <1>1, <1>2, <1>3 DEF SessionInv, Backed
<1> QED BY <1>4, <1>5, <1>6 DEF SessionInv
----------------------------------------------------------------------------
(* At the start there are no cookies and no sessions. *)
THEOREM InitOK == Init => OidcInv
<1> SUFFICES ASSUME Init PROVE OidcInv
  OBVIOUS
<1>1. TypeOK
  BY NoCookiesOK, OidcAssumption DEF Init, TypeOK
<1>2. LoginInv
  BY DEF Init, LoginInv, ReturnsToPage, LoginsApart, Owned, NoCookies
<1>3. SessionInv
  BY NoCookiesOK DEF Init, SessionInv, Backed
<1> QED BY <1>1, <1>2, <1>3 DEF OidcInv

(* startLogin: the new login is nobody else's, and its cookies name its tab. *)
LEMMA StartLoginOK ==
  ASSUME OidcInv, NEW t \in Tabs, NEW cookies \in {jar, [jar EXCEPT !.session = None]},
         tab[t] \in {"request", "validate"}, startLogin(t, cookies)
  PROVE  OidcInv'
<1> DEFINE new == [cookies EXCEPT !.state = randString, !.nonce = randString, !.redirect = at[t]]
<1>1. TypeOK /\ LoginInv /\ SessionInv /\ at[t] = t /\ jar \in Cookies /\ cookies \in Cookies
  BY DEF OidcInv, LoginInv, ReturnsToPage, TypeOK, Cookies
<1>2. /\ randString \in Logins /\ randString # jar.state
      /\ \A u \in Tabs : randString # login[u] /\ randString # sent[u].state
  BY RandStringFresh DEF startLogin
<1>3. /\ new \in Cookies /\ new.state = randString /\ new.nonce = randString /\ new.redirect = t
      /\ new.session \in {None, jar.session}
  BY <1>1, <1>2, Zenon DEF Cookies
<1> HIDE DEF new
<1>4. /\ Answer(t, "provider", new) /\ login' = [login EXCEPT ![t] = randString]
      /\ at' = at /\ member' = member /\ vouched' = vouched
  BY DEF startLogin, provider, new
<1>5. TypeOK'
  <2>1. OneLogin(new) /\ randString # None
    BY <1>1, <1>2, <1>3, OidcAssumption DEF OneLogin
  <2>2. at' \in [Tabs -> Tabs \cup {None}] /\ member' \in BOOLEAN /\ vouched' \in -1..now
    BY <1>1, <1>4 DEF TypeOK
  <2>3. /\ randString \in Logins \cup {None} /\ "provider" \in {"page", "provider"}
        /\ randString # None <=> "provider" = "provider"
    BY <1>2, <2>1
  <2> QED BY <1>1, <1>3, <1>4, <2>1, <2>2, <2>3, AnswerType, Zenon
<1>6. jar' = new /\ sent' = [sent EXCEPT ![t] = NoCookies] /\ info' = [info EXCEPT ![t] = None]
      /\ expiration' = expiration
  BY <1>4 DEF Answer
<1>7. \A u \in Tabs : login'[u] = IF u = t THEN randString ELSE login[u]
  BY <1>1, <1>4 DEF TypeOK
<1>8. LoginsApart'
  BY <1>1, <1>2, <1>7 DEF LoginInv, LoginsApart
<1>9. Owned(jar)'
  BY <1>1, <1>2, <1>3, <1>6, <1>7 DEF Owned
<1>10. ASSUME NEW u \in Tabs PROVE Owned(sent[u])'
  <2>1. CASE u = t
    BY <1>1, <1>6, <2>1 DEF TypeOK, Owned, NoCookies
  <2>2. CASE u # t
    <3>1. sent'[u] = sent[u] /\ Owned(sent[u]) /\ sent[u].state # randString
      BY <1>1, <1>2, <1>6, <2>2 DEF TypeOK, LoginInv
    <3> QED BY <1>7, <3>1 DEF Owned
  <2> QED BY <2>1, <2>2
<1>11. ReturnsToPage'
  BY <1>1, <1>4 DEF LoginInv, ReturnsToPage
<1>12. SessionInv'
  <2>1. \A u \in Tabs : sent'[u].session \in {None, sent[u].session} /\ info'[u] \in {None, info[u]}
    BY <1>1, <1>6, NoCookiesOK DEF TypeOK
  <2>2. vouched' >= vouched
    BY <1>1, <1>4 DEF TypeOK
  <2> QED BY <1>1, <1>3, <1>5, <1>6, <2>1, <2>2, SessionKept
<1> QED BY <1>5, <1>8, <1>9, <1>10, <1>11, <1>12 DEF OidcInv, LoginInv

(* An answer that starts no login, with the cookies of before but for the session. *)
LEMMA PageOK ==
  ASSUME OidcInv, NEW t \in Tabs, NEW cookies \in Cookies, Answer(t, "page", cookies),
         OneLogin(cookies),
         cookies.state = None \/ (cookies.state = jar.state /\ cookies.redirect = jar.redirect),
         login' = [login EXCEPT ![t] = None], at' \in [Tabs -> Tabs \cup {None}], ReturnsToPage',
         member' \in BOOLEAN, vouched' \in vouched..now,
         Backed(jar.session)' \/ cookies.session \in {None, jar.session}
  PROVE  OidcInv'
<1>1. TypeOK /\ LoginInv /\ SessionInv /\ vouched \in -1..now
  BY DEF OidcInv, TypeOK
<1>2. vouched' \in -1..now /\ vouched' >= vouched /\ now \in Nat
  BY <1>1, OidcAssumption DEF TypeOK
<1>3. TypeOK'
  BY <1>1, <1>2, AnswerType, Zenon
<1>4. LoginInv'
  BY <1>1, AnswerLogin, Zenon DEF LoginInv
<1>5. jar' = cookies /\ sent' = [sent EXCEPT ![t] = NoCookies] /\ info' = [info EXCEPT ![t] = None]
      /\ expiration' = expiration
  BY DEF Answer
<1>6. \A u \in Tabs : sent'[u].session \in {None, sent[u].session} /\ info'[u] \in {None, info[u]}
  BY <1>1, <1>5, NoCookiesOK DEF TypeOK
<1>7. SessionInv'
  BY <1>1, <1>2, <1>3, <1>5, <1>6, SessionKept
<1> QED BY <1>3, <1>4, <1>7 DEF OidcInv

(* The simplest of these: nothing but the session cookie may change. *)
LEMMA PlainPageOK ==
  ASSUME OidcInv, NEW t \in Tabs, NEW i \in authInfo \cup {None}, Backed(i),
         Answer(t, "page", jar) \/ Answer(t, "page", [jar EXCEPT !.session = i]),
         (login' = login /\ login[t] = None) \/ login' = [login EXCEPT ![t] = None],
         ReturnsToPage', at' \in [Tabs -> Tabs \cup {None}], provider' = provider
  PROVE  OidcInv'
<1> PICK cookies \in {jar, [jar EXCEPT !.session = i]} : Answer(t, "page", cookies)
  OBVIOUS
<1>1. TypeOK /\ vouched' = vouched /\ member' = member /\ vouched \in Int /\ now \in Int
      /\ vouched <= now /\ member \in BOOLEAN
  BY OidcAssumption DEF OidcInv, TypeOK, provider
<1>2. /\ cookies \in Cookies /\ OneLogin(cookies)
      /\ cookies.state = jar.state /\ cookies.redirect = jar.redirect
      /\ cookies.session \in {jar.session, i}
  BY <1>1 DEF TypeOK, Cookies, OneLogin
<1>3. jar' = cookies /\ expiration' = expiration
  BY DEF Answer
<1>4. Backed(jar.session)' \/ cookies.session = jar.session
  BY <1>1, <1>2, <1>3 DEF Backed
<1>5. login' = [login EXCEPT ![t] = None]
  BY <1>1 DEF TypeOK
<1>6. vouched' \in vouched..now /\ member' \in BOOLEAN
  BY <1>1
<1> QED BY <1>2, <1>4, <1>5, <1>6, PageOK, Zenon

(* handleUnauthorized: a login, or an error page. *)
LEMMA UnauthorizedOK ==
  ASSUME OidcInv, NEW t \in Tabs, tab[t] \in {"request", "validate"}, handleUnauthorized(t)
  PROVE  OidcInv'
<1> DEFINE cookies == IF sent[t].session # None THEN [jar EXCEPT !.session = None] ELSE jar
<1>1. CASE startLogin(t, cookies)
  BY <1>1, StartLoginOK
<1>2. CASE Answer(t, "page", cookies) /\ UNCHANGED <<at, login, provider>>
  <2>1. login[t] = None /\ ReturnsToPage' /\ at' \in [Tabs -> Tabs \cup {None}]
    BY <1>2 DEF OidcInv, TypeOK, LoginInv, ReturnsToPage
  <2>2. Backed(None)
    BY DEF Backed
  <2> QED BY <1>2, <2>1, <2>2, PlainPageOK
<1> QED BY <1>1, <1>2 DEF handleUnauthorized
----------------------------------------------------------------------------
(* Steps that answer nothing, and change neither the logins nor the jar's. *)
LEMMA QuietLogin ==
  ASSUME OidcInv, UNCHANGED <<at, login>>,
         jar'.state = jar.state, jar'.redirect = jar.redirect,
         \A t \in Tabs : \/ sent'[t].state = None
                         \/ sent'[t].state = jar.state /\ sent'[t].redirect = jar.redirect
                         \/ sent'[t] = sent[t]
  PROVE  LoginInv'
<1> USE DEF OidcInv, LoginInv, Owned
<1>1. ReturnsToPage' /\ LoginsApart' /\ Owned(jar)'
  BY DEF ReturnsToPage, LoginsApart
<1>2. ASSUME NEW t \in Tabs PROVE Owned(sent[t])'
  OBVIOUS
<1> QED BY <1>1, <1>2

(* Every step of a tab, of the provider and of time preserves the invariant. *)
THEOREM StepOK == OidcInv /\ [Next]_vars => OidcInv'
<1> SUFFICES ASSUME OidcInv, [Next]_vars PROVE OidcInv'
  OBVIOUS
<1>0. TypeOK /\ LoginInv /\ SessionInv /\ ReturnsToPage /\ at \in [Tabs -> Tabs \cup {None}]
      /\ now \in Nat /\ vouched \in Int /\ vouched >= -1 /\ vouched <= now /\ TokenLife \in Nat
  BY OidcAssumption DEF OidcInv, TypeOK, LoginInv
<1>1. CASE Tick
  <2>1. TypeOK'
    BY <1>0, <1>1, OidcAssumption DEF Tick, TypeOK, provider, tabs
  <2>2. LoginInv' /\ SessionInv'
    BY <1>0, <1>1 DEF Tick, LoginInv, SessionInv, ReturnsToPage, LoginsApart, Owned, Backed,
                      provider, tabs
  <2> QED BY <2>1, <2>2 DEF OidcInv
<1>2. CASE MembershipChanges
  <2>1. TypeOK'
    BY <1>0, <1>2 DEF MembershipChanges, TypeOK, tabs
  <2>2. LoginInv' /\ SessionInv'
    BY <1>0, <1>2 DEF MembershipChanges, LoginInv, SessionInv, ReturnsToPage, LoginsApart, Owned,
                      Backed, tabs
  <2> QED BY <2>1, <2>2 DEF OidcInv
<1>3. CASE ForgetSession
  <2>1. /\ jar' \in Cookies /\ OneLogin(jar)' /\ jar'.session = None
        /\ jar'.state = jar.state /\ jar'.redirect = jar.redirect
    BY <1>0, <1>3 DEF ForgetSession, TypeOK, Cookies, OneLogin
  <2>2. TypeOK'
    BY <1>0, <1>3, <2>1 DEF ForgetSession, TypeOK, provider, tabs
  <2>3. LoginInv'
    BY <1>3, <2>1, QuietLogin DEF ForgetSession, tabs
  <2>4. SessionInv'
    BY <1>0, <1>3, <2>1, <2>2, SessionKept DEF ForgetSession, provider, tabs
  <2> QED BY <2>2, <2>3, <2>4 DEF OidcInv
<1>4. ASSUME NEW t \in Tabs, NEW m \in {"get", "post"}, Open(t, m)
      PROVE  OidcInv'
  <2>1. /\ Cleared(jar, callbackCookies) \in Cookies /\ OneLogin(Cleared(jar, callbackCookies))
        /\ Cleared(jar, callbackCookies).state = None
        /\ Cleared(jar, callbackCookies).session = jar.session
    BY <1>0, ClearedCookies DEF TypeOK, callbackCookies, OneLogin
  <2>2. /\ sent' = [sent EXCEPT ![t] = Cleared(jar, callbackCookies)]
        /\ tab' = [tab EXCEPT ![t] = "request"] /\ tab[t] = "page"
        /\ method' = [method EXCEPT ![t] = m]
        /\ UNCHANGED <<now, expiration, member, vouched, jar, at, login, info>>
    BY <1>4 DEF Open, provider
  <2>3. \A u \in Tabs : sent'[u] = sent[u] \/ sent'[u] = Cleared(jar, callbackCookies)
    BY <1>0, <2>2 DEF TypeOK
  <2>4. TypeOK'
    BY <1>0, <2>1, <2>2 DEF TypeOK
  <2>5. LoginInv'
    BY <2>1, <2>2, <2>3, QuietLogin
  <2>6. SessionInv'
    BY <1>0, <2>1, <2>2, <2>3, <2>4, SessionKept
  <2> QED BY <2>4, <2>5, <2>6 DEF OidcInv
<1>5. ASSUME NEW t \in Tabs, Authenticate(t)
      PROVE  OidcInv'
  <2> DEFINE c == Cleared(jar, {"session"})
  <2>1. c \in Cookies /\ OneLogin(c) /\ c.state = jar.state /\ c.redirect = jar.redirect
        /\ c.session = None
    BY <1>0, ClearedCookies DEF TypeOK, OneLogin
  <2>2. /\ sent' = [sent EXCEPT ![t] = c]
        /\ tab' = [tab EXCEPT ![t] = "callback"] /\ tab[t] = "provider"
        /\ UNCHANGED <<now, expiration, member, vouched, jar, method, at, login, info>>
    BY <1>5 DEF Authenticate, provider
  <2> HIDE DEF c
  <2>3. \A u \in Tabs : sent'[u] = sent[u] \/ sent'[u] = c
    BY <1>0, <2>2 DEF TypeOK
  <2>4. TypeOK'
    BY <1>0, <2>1, <2>2 DEF TypeOK
  <2>5. LoginInv'
    BY <2>1, <2>2, <2>3, QuietLogin
  <2>6. SessionInv'
    BY <1>0, <2>1, <2>2, <2>3, <2>4, SessionKept
  <2> QED BY <2>4, <2>5, <2>6 DEF OidcInv
<1>6. ASSUME NEW t \in Tabs, Abandon(t)
      PROVE  OidcInv'
  <2>1. at' \in [Tabs -> Tabs \cup {None}] /\ ReturnsToPage'
    BY <1>0, <1>6 DEF Abandon, ReturnsToPage
  <2>2. Backed(None)
    BY DEF Backed
  <2> QED BY <1>6, <2>1, <2>2, PlainPageOK, Zenon DEF Abandon
<1>7. ASSUME NEW t \in Tabs, IngressMiddleware(t)
      PROVE  OidcInv'
  <2> DEFINE i == extractAuthInfo(t)
  <2>1. CASE i = None
    BY <1>7, <2>1, UnauthorizedOK DEF IngressMiddleware
  <2>2. CASE i # None
    <3>1. /\ tab[t] = "request" /\ info' = [info EXCEPT ![t] = i] /\ i = sent[t].session
          /\ UNCHANGED <<now, expiration, member, vouched, jar, method, at, sent, login>>
          /\ \/ tab' = [tab EXCEPT ![t] = "renew"]
             \/ tab' = [tab EXCEPT ![t] = "validate"]
      BY <1>7, <2>2 DEF IngressMiddleware, extractAuthInfo, provider
    <3>2. i \in authInfo
      BY <1>0, <2>2, <3>1 DEF TypeOK, Cookies
    <3> HIDE DEF i
    <3>3. TypeOK'
      BY <1>0, <2>2, <3>1, <3>2 DEF TypeOK
    <3>4. LoginInv'
      BY <3>1, QuietLogin
    <3>5. SessionInv'
      <4>1. \A u \in Tabs : info'[u] \in {info[u], sent[u].session}
        BY <1>0, <3>1 DEF TypeOK
      <4> QED BY <1>0, <3>1, <3>3, <4>1, SessionKept
    <3> QED BY <3>3, <3>4, <3>5 DEF OidcInv
  <2> QED BY <2>1, <2>2
<1>8. ASSUME NEW t \in Tabs, renewAuthInfo(t)
      PROVE  OidcInv'
  <2>1. /\ tab[t] = "renew" /\ tab' = [tab EXCEPT ![t] = "validate"]
        /\ UNCHANGED <<now, expiration, member, jar, method, at, sent, login>>
    BY <1>8 DEF renewAuthInfo
  <2>2. info[t] \in authInfo
    BY <1>0, <2>1 DEF TypeOK
  <2>3. /\ renewedInfo(info[t]) \in authInfo
        /\ renewedInfo(info[t]).authAt = info[t].authAt
        /\ renewedInfo(info[t]).expiry = now + TokenLife
        /\ renewedInfo(info[t]).member = member
    <3>1. now + TokenLife \in Nat /\ member \in BOOLEAN
      BY <1>0 DEF TypeOK
    <3> QED BY <2>2, <3>1, Zenon DEF renewedInfo, authInfo
  <2>4. \/ info' = info /\ vouched' = vouched
        \/ /\ info' = [info EXCEPT ![t] = renewedInfo(info[t])]
           /\ vouched' = IF expiration = 0 /\ member THEN now ELSE vouched
    BY <1>0, <1>8 DEF renewAuthInfo, TypeOK
  <2>5. vouched' \in Int /\ vouched' >= vouched /\ vouched' >= -1 /\ vouched' <= now
    BY <1>0, <2>4
  <2>6. TypeOK'
    <3>1. info' \in [Tabs -> authInfo \cup {None}]
      BY <1>0, <2>3, <2>4 DEF TypeOK
    <3>2. \A u \in Tabs : info'[u] # None <=> info[u] # None
      BY <1>0, <2>2, <2>3, <2>4, OidcAssumption DEF TypeOK
    <3>3. \A u \in Tabs : /\ tab'[u] \in {"renew", "validate", "next"} <=> tab[u] \in {"renew", "validate", "next"}
                          /\ tab'[u] \in {"provider", "callback"} <=> tab[u] \in {"provider", "callback"}
      BY <1>0, <2>1 DEF TypeOK
    <3>4. tab' \in [Tabs -> {"page", "request", "renew", "validate", "next", "provider", "callback"}]
      BY <1>0, <2>1 DEF TypeOK
    <3>5. vouched' \in -1..now
      BY <1>0, <2>5
    <3> QED BY <1>0, <2>1, <3>1, <3>2, <3>3, <3>4, <3>5 DEF TypeOK
  <2>7. LoginInv'
    BY <2>1, QuietLogin
  <2>8. SessionInv'
    <3>1. ASSUME NEW u \in Tabs PROVE info'[u] = info[u] \/ Backed(info[u])'
      <4>1. CASE u = t /\ info' # info
        <5>1. info'[u] = renewedInfo(info[t])
          BY <1>0, <2>4, <4>1 DEF TypeOK
        <5>2. Backed(info[t]) /\ info[t] # None /\ info[t].authAt \in Nat
          BY <1>0, <2>2, OidcAssumption DEF SessionInv, authInfo
        <5> QED BY <1>0, <2>1, <2>3, <2>4, <2>5, <4>1, <5>1, <5>2 DEF Backed
      <4>2. CASE u # t \/ info' = info
        BY <1>0, <2>4, <4>2 DEF TypeOK
      <4> QED BY <4>1, <4>2
    <3> QED BY <1>0, <2>1, <2>5, <2>6, <3>1, SessionKept
  <2> QED BY <2>6, <2>7, <2>8 DEF OidcInv
<1>9. ASSUME NEW t \in Tabs, Validate(t)
      PROVE  OidcInv'
  <2>1. CASE handleUnauthorized(t)
    BY <1>9, <2>1, UnauthorizedOK DEF Validate
  <2>2. CASE Answer(t, "page", jar) /\ UNCHANGED <<at, login, provider>>
    <3>1. login[t] = None /\ ReturnsToPage' /\ Backed(None)
      BY <1>0, <1>9, <2>2 DEF Validate, TypeOK, ReturnsToPage, Backed
    <3> QED BY <1>0, <2>2, <3>1, PlainPageOK, Zenon
  <2>3. CASE /\ tab[t] = "validate" /\ tab' = [tab EXCEPT ![t] = "next"]
             /\ UNCHANGED <<now, expiration, provider, jar, method, at, sent, login, info>>
    <3>1. TypeOK'
      BY <1>0, <2>3 DEF TypeOK, provider
    <3>2. LoginInv'
      BY <2>3, QuietLogin
    <3>3. SessionInv'
      BY <1>0, <2>3, <3>1, SessionKept DEF provider
    <3> QED BY <3>1, <3>2, <3>3 DEF OidcInv
  <2> QED BY <1>9, <2>1, <2>2, <2>3 DEF Validate
<1>10. ASSUME NEW t \in Tabs, Proxied(t)
       PROVE  OidcInv'
  <2>1. info[t] \in authInfo \cup {None} /\ Backed(info[t]) /\ login[t] = None /\ ReturnsToPage'
    BY <1>0, <1>10 DEF Proxied, TypeOK, SessionInv, ReturnsToPage
  <2>2. Answer(t, "page", jar) \/ Answer(t, "page", [jar EXCEPT !.session = info[t]])
    BY <1>10 DEF Proxied
  <2> QED BY <1>0, <1>10, <2>1, <2>2, PlainPageOK DEF Proxied
<1>11. ASSUME NEW t \in Tabs, handleCallback(t)
       PROVE  OidcInv'
  <2>1. CASE CallbackRefused(t) \/ ExchangeFails(t)
    <3>1. ReturnsToPage' /\ Backed(None)
      BY <1>0, <2>1 DEF CallbackRefused, ExchangeFails, ReturnsToPage, Backed
    <3> QED BY <1>0, <2>1, <3>1, PlainPageOK, Zenon DEF CallbackRefused, ExchangeFails
  <2>2. CASE CookieFails(t)
    <3> DEFINE c == Cleared(jar, callbackCookies)
    <3>1. ReturnsToPage'
      BY <1>0, <2>2 DEF CookieFails, ReturnsToPage
    <3>2. c \in Cookies /\ OneLogin(c) /\ c.state = None /\ c.session = jar.session
      BY <1>0, ClearedCookies DEF TypeOK, callbackCookies, OneLogin, Cookies
    <3>3. /\ Answer(t, "page", c) /\ login' = [login EXCEPT ![t] = None]
          /\ vouched' = vouched /\ member' = member /\ at' = at
      BY <2>2 DEF CookieFails, provider
    <3> HIDE DEF c
    <3>4. vouched' \in vouched..now /\ member' \in BOOLEAN /\ at' \in [Tabs -> Tabs \cup {None}]
      BY <1>0, <3>3 DEF TypeOK
    <3>5. /\ c.state = None \/ (c.state = jar.state /\ c.redirect = jar.redirect)
          /\ Backed(jar.session)' \/ c.session \in {None, jar.session}
      BY <3>2, Zenon
    <3> QED BY <3>1, <3>2, <3>3, <3>4, <3>5, PageOK, Zenon
  <2>3. CASE CallbackSucceeds(t)
    <3> DEFINE c == [Cleared(jar, callbackCookies) EXCEPT !.session = newInfo]
    <3>1. login[t] # None /\ sent[t].state = login[t]
      BY <1>0, <1>11, <2>3 DEF handleCallback, CallbackSucceeds, TypeOK
    <3>2. sent[t].redirect = t
      BY <1>0, <3>1 DEF LoginInv, Owned
    <3>3. ReturnsToPage' /\ at' \in [Tabs -> Tabs \cup {None}]
      BY <1>0, <2>3, <3>2 DEF CallbackSucceeds, ReturnsToPage
    <3>4. newInfo \in authInfo /\ newInfo.authAt = now /\ newInfo.expiry = now + TokenLife
          /\ newInfo.member = member
      BY <1>0 DEF newInfo, authInfo, TypeOK
    <3>5. c \in Cookies /\ OneLogin(c) /\ c.state = None /\ c.session = newInfo
      BY <1>0, <3>4, ClearedCookies DEF TypeOK, callbackCookies, OneLogin, Cookies
    <3> HIDE DEF c
    <3>6. /\ Answer(t, "page", c) /\ login' = [login EXCEPT ![t] = None] /\ member' = member
          /\ vouched' = IF expiration # 0 \/ member THEN now ELSE vouched
      BY <2>3 DEF CallbackSucceeds, c
    <3>7. jar' = c /\ expiration' = expiration
      BY <3>6 DEF Answer
    <3>8. Backed(jar.session)'
      BY <1>0, <3>4, <3>5, <3>6, <3>7 DEF Backed
    <3>9. vouched' \in vouched..now /\ member' \in BOOLEAN
      BY <1>0, <3>6 DEF TypeOK
    <3>10. /\ c \in Cookies /\ Answer(t, "page", c) /\ OneLogin(c)
           /\ c.state = None \/ (c.state = jar.state /\ c.redirect = jar.redirect)
           /\ Backed(jar.session)' \/ c.session \in {None, jar.session}
      BY <3>5, <3>6, <3>8, Zenon
    <3> QED BY <3>3, <3>6, <3>9, <3>10, PageOK, Zenon
  <2> QED BY <1>11, <2>1, <2>2, <2>3 DEF handleCallback
<1>12. CASE UNCHANGED vars
  BY <1>0, <1>12 DEF vars, tabs, provider, OidcInv, TypeOK, LoginInv, SessionInv, ReturnsToPage,
                     LoginsApart, Owned, Backed
<1> QED
  BY <1>1, <1>2, <1>3, <1>4, <1>5, <1>6, <1>7, <1>8, <1>9, <1>10, <1>11, <1>12 DEF Next, Handler
----------------------------------------------------------------------------
(* The invariant holds throughout. *)
THEOREM InvCorrect == Spec => []OidcInv
BY InitOK, StepOK, PTL DEF Spec

(* Every variable of a browser and of its requests keeps its type: the cookies of a
   login come and go together, for any number of tabs and logins.               *)
THEOREM TypeCorrect == Spec => []TypeOK
BY InvCorrect, PTL DEF OidcInv

(* handleCallback sends every login back to the page it was started from, whatever
   other tabs have done to the redirect cookie in between.                      *)
THEOREM ReturnsCorrect == Spec => []ReturnsToPage
BY InvCorrect, PTL DEF OidcInv, LoginInv

(* validateInfo and checkAccess let nobody through on a session that is too old, for
   any expiration, lifetime of tokens and renewal offset.                       *)
THEOREM AccessCorrect == Spec => AccessBounded
<1> DEFINE Enters == \A t \in Tabs : tab[t] # "next" /\ tab'[t] = "next" =>
                      vouched >= 0 /\ now < vouched + AuthExpiration
<1>1. OidcInv /\ [Next]_vars => [Enters]_vars
  <2> SUFFICES ASSUME OidcInv, Next, NEW t \in Tabs, tab[t] # "next", tab'[t] = "next"
               PROVE  vouched >= 0 /\ now < vouched + AuthExpiration
    OBVIOUS
  <2>0. TypeOK /\ SessionInv /\ tab' # tab
    BY DEF OidcInv
  <2>1. PICK u \in Tabs : \/ \E m \in {"get", "post"} : Open(u, m)
                         \/ Authenticate(u) \/ Abandon(u) \/ Handler(u)
    BY <2>0 DEF Next, Tick, MembershipChanges, ForgetSession, tabs
  <2>2. Validate(u) /\ tab' = [tab EXCEPT ![u] = "next"]
        /\ validateInfo(info[u]) /\ checkAccess(info[u])
    <3>1. ASSUME NEW to \in {"page", "request", "renew", "validate", "provider", "callback"},
                 tab' = [tab EXCEPT ![u] = to]
          PROVE  FALSE
      BY <2>0, <3>1 DEF TypeOK
    <3>2. \A to, c : Answer(u, to, c) => tab' = [tab EXCEPT ![u] = to]
      BY DEF Answer
    <3>3. ~handleUnauthorized(u)
      BY <3>1, <3>2 DEF handleUnauthorized, startLogin
    <3>4. ~Abandon(u) /\ ~Proxied(u) /\ ~handleCallback(u)
      BY <3>1, <3>2 DEF Abandon, Proxied, handleCallback, CallbackRefused, ExchangeFails,
                       CookieFails, CallbackSucceeds
    <3>5. ~Authenticate(u) /\ ~renewAuthInfo(u) /\ ~IngressMiddleware(u)
          /\ \A m \in {"get", "post"} : ~Open(u, m)
      BY <3>1, <3>3 DEF Authenticate, renewAuthInfo, IngressMiddleware, Open
    <3>6. Validate(u)
      BY <2>1, <3>4, <3>5 DEF Handler
    <3> QED BY <3>1, <3>2, <3>3, <3>6 DEF Validate
  <2>3. info[u] \in authInfo /\ info[u] # None /\ Backed(info[u])
    BY <2>0, <2>2, OidcAssumption DEF Validate, TypeOK, SessionInv
  <2>4. /\ info[u].authAt \in Nat /\ info[u].expiry \in Nat /\ TokenLife \in Nat
        /\ now \in Nat /\ vouched \in Int /\ expiration \in Nat
    BY <2>0, <2>3, OidcAssumption DEF TypeOK, authInfo
  <2> QED BY <2>2, <2>3, <2>4 DEF validateInfo, checkAccess, Backed, AuthExpiration
<1> QED BY <1>1, InvCorrect, PTL DEF AccessBounded, Spec
====
