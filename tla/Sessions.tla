------------------------------ MODULE Sessions ------------------------------
(***************************************************************************)
(* Sign-in, sessions and logout of one browser: the sessions rows          *)
(* (internal/db/db.go: CreateSession, ResolveSession, DeleteSession), the  *)
(* users rows they belong to (UpsertUser, UpsertFriend), the handlers that *)
(* call them (main.go: handleSteamCallback, handleLogout; the middleware   *)
(* LoadSteamId before every other page) and the browser's cookie.  Several *)
(* requests of the browser are in flight at once, and their responses      *)
(* arrive in any order or not at all.                                      *)
(***************************************************************************)
EXTENDS Naturals

CONSTANTS
    Users, NoUser,
    Tokens, NoToken,  \* what newSessionToken returns, each once
    Requests,         \* the requests of the browser
    Lifetime,         \* seven days
    MaxTime           \* bound: how long the clock runs

ASSUME NoneAssumption == NoUser \notin Users /\ NoToken \notin Tokens
ASSUME TimeAssumption == Lifetime \in Nat \ {0} /\ MaxTime \in Nat

VARIABLES
    now,
    standing,  \* standing[u]: u's users row: none, a "friend", or "signedIn" (ever_logged_in)
    made,      \* history: the tokens handed out so far
    rows,      \* the tokens with a sessions row
    userOf,    \* userOf[t]: the user of t's row
    expires,   \* expires[t]: when t's row expires
    jar,       \* the session cookie of the browser
    stage,     \* stage[r]: the call that r is making
    token,     \* token[r]: the session r came with, or has made
    identity,  \* identity[r]: the user r acts as, or signs in
    current,   \* history: the session of the last sign-in to arrive and not logged out
    overlap    \* history: a sign-in or logout has arrived while a page was in flight

db == <<standing, made, rows, userOf, expires>>
vars == <<now, db, jar, stage, token, identity, current, overlap>>
history == <<current, overlap>>

NoCookie == [token |-> NoToken, expires |-> 0]
Cookies == [token : Tokens \cup {NoToken}, expires : 0 .. MaxTime + Lifetime]

Stages ==
    {"idle", "resolve", "handler", "upsert", "create", "signedIn", "delete", "clear"}

TypeOK ==
    /\ now \in 0 .. MaxTime
    /\ standing \in [Users -> {"none", "friend", "signedIn"}]
    /\ made \subseteq Tokens /\ rows \subseteq made
    /\ userOf \in [Tokens -> Users \cup {NoUser}]
    /\ expires \in [Tokens -> 0 .. MaxTime + Lifetime]
    /\ \A t \in rows : expires[t] <= now + Lifetime
    /\ jar \in Cookies
    /\ stage \in [Requests -> Stages]
    /\ token \in [Requests -> Tokens \cup {NoToken}]
    /\ identity \in [Requests -> Users \cup {NoUser}]
    /\ current \in Tokens \cup {NoToken}
    /\ overlap \in BOOLEAN

Init ==
    /\ now = 0
    /\ standing = [u \in Users |-> "none"]
    /\ made = {}
    /\ rows = {}
    /\ userOf = [t \in Tokens |-> NoUser]
    /\ expires = [t \in Tokens |-> 0]
    /\ jar = NoCookie
    /\ stage = [r \in Requests |-> "idle"]
    /\ token = [r \in Requests |-> NoToken]
    /\ identity = [r \in Requests |-> NoUser]
    /\ current = NoToken
    /\ overlap = FALSE

-----------------------------------------------------------------------------
Live(t) == t \in rows /\ expires[t] > now

\* A token that has been handed out and is of no use any more.
Dead(t) == t \in made /\ ~Live(t)

To(r, from, to) == stage[r] = from /\ stage' = [stage EXCEPT ![r] = to]

\* r has ended, or is about to be sent: it remembers nothing.
Forget(r) ==
    /\ token' = [token EXCEPT ![r] = NoToken]
    /\ identity' = [identity EXCEPT ![r] = NoUser]

PagesInFlight == {r \in Requests : stage[r] \in {"resolve", "handler"}}

\* The browser has been told which session it has now.
Settle(t) ==
    /\ current' = t
    /\ overlap' = (overlap \/ PagesInFlight # {})

Give(t) == jar' = [token |-> t, expires |-> now + Lifetime]

-----------------------------------------------------------------------------
(* A page: LoadSteamId, then its handler.  Without a cookie it touches      *)
(* nothing here.                                                           *)

SendPage(r) ==
    /\ jar # NoCookie
    /\ To(r, "idle", "resolve")
    /\ token' = [token EXCEPT ![r] = jar.token]
    /\ UNCHANGED <<now, db, jar, identity, history>>

\* Mutant of Extend: the lifetime is added to what is left.
ExtendFurther(t) == expires' = [expires EXCEPT ![t] = @ + Lifetime]

Extend(t) == expires' = [expires EXCEPT ![t] = now + Lifetime]

\* Mutant of ResolveSession: the row is found by its token alone.
ResolveExpired(r) ==
    /\ To(r, "resolve", "handler")
    /\ token[r] \in rows
    /\ Extend(token[r])
    /\ identity' = [identity EXCEPT ![r] = userOf[token[r]]]
    /\ UNCHANGED <<now, standing, made, rows, userOf, jar, token, history>>

\* ResolveSession refreshes an unexpired session: r acts as its user from here on.
ResolveSession(r) ==
    /\ To(r, "resolve", "handler")
    /\ Live(token[r])
    /\ Extend(token[r])
    /\ identity' = [identity EXCEPT ![r] = userOf[token[r]]]
    /\ UNCHANGED <<now, standing, made, rows, userOf, jar, token, history>>

\* No such session, or the call fails: the page is that of a stranger, and the
\* cookie is left alone.  A call that fails may have refreshed the session.
NotResolved(r) ==
    /\ To(r, "resolve", "idle")
    /\ IF Live(token[r]) THEN Extend(token[r]) \/ UNCHANGED expires ELSE UNCHANGED expires
    /\ Forget(r)
    /\ UNCHANGED <<now, standing, made, rows, userOf, jar, history>>

\* The response arrives and sets the cookie again, whatever it is by now.
PageArrives(r) ==
    /\ To(r, "handler", "idle")
    /\ Give(token[r])
    /\ Forget(r)
    /\ UNCHANGED <<now, db, history>>

-----------------------------------------------------------------------------
(* handleSteamCallback                                                     *)

\* Steam confirms that the browser is u and knows the profile of u.  Every other
\* answer is rejected before anything is stored.
Verified(r, u) ==
    /\ To(r, "idle", "upsert")
    /\ identity' = [identity EXCEPT ![r] = u]
    /\ UNCHANGED <<now, db, jar, token, history>>

\* Mutant of SignIn: a row that is there is left as it is.
SignInUnlessKnown(u) ==
    standing' = [standing EXCEPT ![u] = IF @ = "none" THEN "signedIn" ELSE @]

SignIn(u) == standing' = [standing EXCEPT ![u] = "signedIn"]

UpsertUser(r) ==
    /\ To(r, "upsert", "create")
    /\ SignIn(identity[r])
    /\ UNCHANGED <<now, made, rows, userOf, expires, jar, token, identity, history>>

CreateSession(r) ==
    /\ To(r, "create", "signedIn")
    /\ \E t \in Tokens \ made :
        /\ made' = made \cup {t}
        /\ rows' = rows \cup {t}
        /\ userOf' = [userOf EXCEPT ![t] = identity[r]]
        /\ Extend(t)
        /\ token' = [token EXCEPT ![r] = t]
    /\ UNCHANGED <<now, standing, jar, identity, history>>

\* A store call fails, having taken effect or not: nobody is signed in, and a
\* session that was made after all is known to nobody ("signedIn", then lost).
SignInFails(r) ==
    /\ \/ To(r, "upsert", "idle") /\ (SignIn(identity[r]) \/ UNCHANGED standing)
       \/ To(r, "create", "idle") /\ UNCHANGED standing
    /\ Forget(r)
    /\ UNCHANGED <<now, made, rows, userOf, expires, jar, history>>

SignInArrives(r) ==
    /\ To(r, "signedIn", "idle")
    /\ Give(token[r])
    /\ Settle(token[r])
    /\ Forget(r)
    /\ UNCHANGED <<now, db>>

-----------------------------------------------------------------------------
(* handleLogout                                                            *)

\* Without a cookie there is nothing to delete, but the response clears it all the same.
SendLogout(r) ==
    /\ To(r, "idle", IF jar = NoCookie THEN "clear" ELSE "delete")
    /\ token' = [token EXCEPT ![r] = jar.token]
    /\ UNCHANGED <<now, db, jar, identity, history>>

DeleteSession(r) ==
    /\ To(r, "delete", "clear")
    /\ rows' = rows \ {token[r]}
    /\ UNCHANGED <<now, standing, made, userOf, expires, jar, token, identity, history>>

DeleteFails(r) ==
    /\ To(r, "delete", "clear")
    /\ UNCHANGED <<now, db, jar, token, identity, history>>

\* Mutant of LogoutArrives: the cookie is cleared only with its session.
LogoutArrivesIfDeleted(r) ==
    /\ To(r, "clear", "idle")
    /\ jar' = IF token[r] \in rows THEN jar ELSE NoCookie
    /\ Settle(NoToken)
    /\ Forget(r)
    /\ UNCHANGED <<now, db>>

LogoutArrives(r) ==
    /\ To(r, "clear", "idle")
    /\ jar' = NoCookie
    /\ Settle(NoToken)
    /\ Forget(r)
    /\ UNCHANGED <<now, db>>

-----------------------------------------------------------------------------
\* The friends refresh of another user meets u (syncLoginFriends).
UpsertFriend(u) ==
    /\ standing' = [standing EXCEPT ![u] = IF @ = "none" THEN "friend" ELSE @]
    /\ UNCHANGED <<now, made, rows, userOf, expires, jar, stage, token, identity, history>>

\* A response that never reaches the browser.
ResponseLost(r) ==
    /\ \E from \in {"handler", "signedIn", "clear"} : To(r, from, "idle")
    /\ Forget(r)
    /\ UNCHANGED <<now, db, jar, history>>

\* Time passes, and the browser drops a cookie that has expired.
Tick ==
    /\ now < MaxTime
    /\ now' = now + 1
    /\ jar' = IF jar.expires <= now + 1 THEN NoCookie ELSE jar
    /\ UNCHANGED <<db, stage, token, identity, history>>

Next ==
    \/ \E r \in Requests :
        \/ SendPage(r) \/ ResolveSession(r) \/ NotResolved(r) \/ PageArrives(r)
        \/ \E u \in Users : Verified(r, u)
        \/ UpsertUser(r) \/ CreateSession(r) \/ SignInFails(r) \/ SignInArrives(r)
        \/ SendLogout(r) \/ DeleteSession(r) \/ DeleteFails(r) \/ LogoutArrives(r)
        \/ ResponseLost(r)
    \/ \E u \in Users : UpsertFriend(u)
    \/ Tick

Spec == Init /\ [][Next]_vars

-----------------------------------------------------------------------------
(* Properties.                                                             *)

\* Every session, and every request that acts for somebody, is of a user who has
\* signed in, whatever friends refreshes write to the same users row: such a user
\* is asked before joining a party (db.go:58-99, main.go:297-303).
SessionsAreSignedIn ==
    /\ \A t \in rows : standing[userOf[t]] = "signedIn"
    /\ \A r \in Requests : stage[r] = "handler" => standing[identity[r]] = "signedIn"

\* A session that was deleted or has expired is never again good for anything: no
\* request still on its way, and no response that puts its token back into the
\* browser, brings it back (db.go:157-183, middleware.go:99-102).
DeadTokensStayDead ==
    [][\A t \in Tokens : Dead(t) =>
          /\ Dead(t)'
          /\ \A r \in Requests : token[r] = t /\ stage[r] = "resolve" =>
                stage'[r] # "handler"]_vars

\* A browser that has logged out holds no session, even when the deletion failed,
\* and one that has signed in holds the new one.  Only the response of a page that
\* was in flight meanwhile can put an older one back (main.go:527-543,
\* middleware.go:103-111).
LastWordCounts == ~overlap => jar.token \in {current, NoToken}

=============================================================================
