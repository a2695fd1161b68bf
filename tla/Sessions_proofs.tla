--------------------------- MODULE Sessions_proofs ---------------------------
(***************************************************************************)
(* Theorems about Sessions, for every set of users, tokens and requests,   *)
(* every lifetime and every bound on the clock.                            *)
(*                                                                         *)
(* SessionsAreSignedIn is not inductive: it says nothing of a sign-in that *)
(* has stored its user and not yet its session, nor of the tokens that the *)
(* browser and its requests carry.  SessionInv adds both.                  *)
(***************************************************************************)
EXTENDS Sessions, TLAPS

\* Whom a request is about, as far as it is: a sign-in that is about to make a
\* session has stored its user as signed in.
WhoByStage ==
    \A r \in Requests :
        /\ stage[r] \in {"upsert", "create", "handler"} => identity[r] \in Users
        /\ stage[r] \in {"create", "handler"} => standing[identity[r]] = "signedIn"

\* A request that needs a token has one.
TokenByStage ==
    \A r \in Requests :
        stage[r] \in {"resolve", "handler", "signedIn", "delete"} =>
            token[r] \in made

CookieWasMade == jar # NoCookie => jar.token \in made

RowsAreSignedIn ==
    \A t \in rows : userOf[t] \in Users /\ standing[userOf[t]] = "signedIn"

SessionInv ==
    /\ TypeOK
    /\ WhoByStage
    /\ TokenByStage
    /\ CookieWasMade
    /\ RowsAreSignedIn

-----------------------------------------------------------------------------
LEMMA InitHolds == Init => SessionInv
<1> SUFFICES ASSUME Init PROVE SessionInv
  OBVIOUS
<1>1. TypeOK
  <2>1. 0 \in 0 .. MaxTime /\ 0 \in 0 .. MaxTime + Lifetime
    BY TimeAssumption
  <2> QED BY <2>1 DEF Init, TypeOK, NoCookie, Cookies, Stages
<1>2. WhoByStage /\ TokenByStage /\ CookieWasMade /\ RowsAreSignedIn
  BY DEF Init, WhoByStage, TokenByStage, CookieWasMade, RowsAreSignedIn
<1> QED BY <1>1, <1>2 DEF SessionInv

LEMMA StutterHolds == SessionInv /\ UNCHANGED vars => SessionInv'
  BY DEF vars, db, history, SessionInv, TypeOK, WhoByStage, TokenByStage, CookieWasMade,
         RowsAreSignedIn, NoCookie, Cookies, Stages

\* A page preserves the invariant: the session that it is given is one of a user
\* who has signed in.
LEMMA PageHolds ==
    ASSUME SessionInv, NEW r \in Requests,
           SendPage(r) \/ ResolveSession(r) \/ NotResolved(r) \/ PageArrives(r)
    PROVE  SessionInv'
<1> USE NoneAssumption, TimeAssumption
    DEF SessionInv, TypeOK, To, Forget, Give, Extend, Live, NoCookie, Cookies, Stages, db, history
<1>1. CASE SendPage(r)
  BY <1>1 DEF SendPage, WhoByStage, TokenByStage, CookieWasMade, RowsAreSignedIn
<1>2. CASE ResolveSession(r)
  BY <1>2 DEF ResolveSession, WhoByStage, TokenByStage, CookieWasMade, RowsAreSignedIn
<1>3. CASE NotResolved(r)
  BY <1>3 DEF NotResolved, WhoByStage, TokenByStage, CookieWasMade, RowsAreSignedIn
<1>4. CASE PageArrives(r)
  BY <1>4 DEF PageArrives, WhoByStage, TokenByStage, CookieWasMade, RowsAreSignedIn
<1> QED BY <1>1, <1>2, <1>3, <1>4

\* A sign-in preserves the invariant: the user is stored before the session.
LEMMA SignInHolds ==
    ASSUME SessionInv, NEW r \in Requests,
           \/ \E u \in Users : Verified(r, u)
           \/ UpsertUser(r) \/ CreateSession(r) \/ SignInFails(r) \/ SignInArrives(r)
    PROVE  SessionInv'
<1> USE NoneAssumption, TimeAssumption
    DEF SessionInv, TypeOK, To, Forget, Give, Extend, Settle, SignIn, NoCookie, Cookies, Stages,
        db, history
<1>1. CASE \E u \in Users : Verified(r, u)
  BY <1>1 DEF Verified, WhoByStage, TokenByStage, CookieWasMade, RowsAreSignedIn
<1>2. CASE UpsertUser(r)
  BY <1>2 DEF UpsertUser, WhoByStage, TokenByStage, CookieWasMade, RowsAreSignedIn
<1>3. CASE CreateSession(r)
  BY <1>3 DEF CreateSession, WhoByStage, TokenByStage, CookieWasMade, RowsAreSignedIn
<1>4. CASE SignInFails(r)
  BY <1>4 DEF SignInFails, WhoByStage, TokenByStage, CookieWasMade, RowsAreSignedIn
<1>5. CASE SignInArrives(r)
  BY <1>5 DEF SignInArrives, WhoByStage, TokenByStage, CookieWasMade, RowsAreSignedIn
<1> QED BY <1>1, <1>2, <1>3, <1>4, <1>5

\* Nothing else signs anybody in or out of the users table.
LEMMA OtherHolds ==
    ASSUME SessionInv,
           \/ \E r \in Requests :
                SendLogout(r) \/ DeleteSession(r) \/ DeleteFails(r) \/ LogoutArrives(r)
                  \/ ResponseLost(r)
           \/ \E u \in Users : UpsertFriend(u)
           \/ Tick
    PROVE  SessionInv'
<1> USE NoneAssumption, TimeAssumption
    DEF SessionInv, TypeOK, To, Forget, Settle, NoCookie, Cookies, Stages, db, history
<1>1. ASSUME NEW r \in Requests, SendLogout(r) PROVE SessionInv'
  BY <1>1 DEF SendLogout, WhoByStage, TokenByStage, CookieWasMade, RowsAreSignedIn
<1>2. ASSUME NEW r \in Requests, DeleteSession(r) \/ DeleteFails(r) PROVE SessionInv'
  BY <1>2 DEF DeleteSession, DeleteFails, WhoByStage, TokenByStage, CookieWasMade, RowsAreSignedIn
<1>3. ASSUME NEW r \in Requests, LogoutArrives(r) PROVE SessionInv'
  BY <1>3 DEF LogoutArrives, WhoByStage, TokenByStage, CookieWasMade, RowsAreSignedIn
<1>4. ASSUME NEW r \in Requests, ResponseLost(r) PROVE SessionInv'
  BY <1>4 DEF ResponseLost, WhoByStage, TokenByStage, CookieWasMade, RowsAreSignedIn
<1>5. ASSUME NEW u \in Users, UpsertFriend(u) PROVE SessionInv'
  BY <1>5 DEF UpsertFriend, WhoByStage, TokenByStage, CookieWasMade, RowsAreSignedIn
<1>6. CASE Tick
  BY <1>6 DEF Tick, WhoByStage, TokenByStage, CookieWasMade, RowsAreSignedIn
<1> QED BY <1>1, <1>2, <1>3, <1>4, <1>5, <1>6

LEMMA NextHolds == SessionInv /\ [Next]_vars => SessionInv'
<1> SUFFICES ASSUME SessionInv, [Next]_vars PROVE SessionInv'
  OBVIOUS
<1>1. CASE Next
  BY <1>1, PageHolds, SignInHolds, OtherHolds DEF Next
<1>2. CASE UNCHANGED vars
  BY <1>2, StutterHolds
<1> QED BY <1>1, <1>2

LEMMA InvHolds == Spec => []SessionInv
  BY InitHolds, NextHolds, PTL DEF Spec

-----------------------------------------------------------------------------
\* Every variable of Sessions keeps its type, and no session lives longer than its
\* lifetime after its last use (db.go:146-148, 163).
THEOREM SessionsTypeCorrect == Spec => []TypeOK
<1>1. SessionInv => TypeOK
  BY DEF SessionInv
<1> QED BY <1>1, InvHolds, PTL

\* Whoever has a session, or acts through one, has signed in (db.go:58-99,
\* main.go:297-303).
THEOREM SessionsOnlyOfSignedIn == Spec => []SessionsAreSignedIn
<1>1. SessionInv => SessionsAreSignedIn
  BY DEF SessionInv, RowsAreSignedIn, WhoByStage, SessionsAreSignedIn
<1> QED BY <1>1, InvHolds, PTL

\* What a step may do to a dead token.
Undisturbed ==
    \A t \in Tokens : Dead(t) =>
        /\ Dead(t)'
        /\ \A r \in Requests : token[r] = t /\ stage[r] = "resolve" => stage'[r] # "handler"

\* The row of a token is only made once, and only refreshed while it lives.
LEMMA StepLeavesDead == SessionInv /\ [Next]_vars => Undisturbed
<1> SUFFICES ASSUME SessionInv, [Next]_vars,
                    NEW t \in Tokens, Dead(t)
             PROVE  /\ Dead(t)'
                    /\ \A r \in Requests :
                          token[r] = t /\ stage[r] = "resolve" => stage'[r] # "handler"
  BY DEF Undisturbed
<1> USE TimeAssumption DEF SessionInv, TypeOK, Dead, Live, To, db, history
<1>1. ASSUME NEW r \in Requests, ResolveSession(r) \/ NotResolved(r)
      PROVE  /\ Dead(t)'
             /\ \A q \in Requests : token[q] = t /\ stage[q] = "resolve" => stage'[q] # "handler"
  BY <1>1 DEF ResolveSession, NotResolved, Extend
<1>2. ASSUME NEW r \in Requests, CreateSession(r)
      PROVE  /\ Dead(t)'
             /\ \A q \in Requests : token[q] = t /\ stage[q] = "resolve" => stage'[q] # "handler"
  BY <1>2 DEF CreateSession, Extend
<1>3. ASSUME NEW r \in Requests, DeleteSession(r)
      PROVE  /\ Dead(t)'
             /\ \A q \in Requests : token[q] = t /\ stage[q] = "resolve" => stage'[q] # "handler"
  BY <1>3 DEF DeleteSession
<1>4. ASSUME NEW r \in Requests,
             \/ SendPage(r) \/ PageArrives(r) \/ \E u \in Users : Verified(r, u)
             \/ UpsertUser(r) \/ SignInFails(r) \/ SignInArrives(r)
             \/ SendLogout(r) \/ DeleteFails(r) \/ LogoutArrives(r) \/ ResponseLost(r)
      PROVE  /\ Dead(t)'
             /\ \A q \in Requests : token[q] = t /\ stage[q] = "resolve" => stage'[q] # "handler"
  BY <1>4 DEF SendPage, PageArrives, Verified, UpsertUser, SignInFails, SignInArrives,
              SendLogout, DeleteFails, LogoutArrives, ResponseLost
<1>5. ASSUME (\E u \in Users : UpsertFriend(u)) \/ Tick \/ UNCHANGED vars
      PROVE  /\ Dead(t)'
             /\ \A q \in Requests : token[q] = t /\ stage[q] = "resolve" => stage'[q] # "handler"
  BY <1>5 DEF UpsertFriend, Tick, vars
<1> QED BY <1>1, <1>2, <1>3, <1>4, <1>5 DEF Next

\* A session that was deleted or has expired is never good for anything again
\* (db.go:157-183).
THEOREM DeadTokensAlwaysStayDead == Spec => DeadTokensStayDead
<1>1. SessionInv /\ [Next]_vars => [Undisturbed]_vars
  BY StepLeavesDead
<1> QED BY <1>1, InvHolds, PTL DEF Spec, DeadTokensStayDead, Undisturbed

-----------------------------------------------------------------------------
\* While no answer of a sign-in or logout has met a page on its way, the browser
\* and its pages know of no session but the last.
OneSession ==
    ~overlap =>
        /\ jar.token \in {current, NoToken}
        /\ \A r \in PagesInFlight : token[r] \in {current, NoToken}

LEMMA StepKeepsOneSession ==
    SessionInv /\ OneSession /\ [Next]_vars => OneSession'
<1> SUFFICES ASSUME SessionInv, OneSession, [Next]_vars PROVE OneSession'
  OBVIOUS
<1> USE DEF SessionInv, TypeOK, OneSession, PagesInFlight, To, Forget, Give, db, history
<1>1. ASSUME NEW r \in Requests,
             SendPage(r) \/ ResolveSession(r) \/ NotResolved(r) \/ PageArrives(r)
      PROVE  OneSession'
  BY <1>1 DEF SendPage, ResolveSession, NotResolved, PageArrives
<1>2. ASSUME NEW r \in Requests, SignInArrives(r) \/ LogoutArrives(r)
      PROVE  OneSession'
  <2>1. jar'.token = current'
    BY <1>2 DEF SignInArrives, LogoutArrives, Settle, NoCookie
  <2>2. /\ stage' = [stage EXCEPT ![r] = "idle"]
        /\ overlap' = (overlap \/ PagesInFlight # {})
    BY <1>2 DEF SignInArrives, LogoutArrives, Settle
  <2>3. ~overlap' => PagesInFlight' = {}
    <3> SUFFICES ASSUME ~overlap' PROVE PagesInFlight' = {}
      OBVIOUS
    <3>1. PagesInFlight = {}
      BY <2>2
    <3> QED BY <2>2, <3>1
  <2> QED BY <2>1, <2>3
<1>3. ASSUME NEW r \in Requests,
             \/ \E u \in Users : Verified(r, u)
             \/ UpsertUser(r) \/ CreateSession(r) \/ SignInFails(r)
             \/ SendLogout(r) \/ DeleteSession(r) \/ DeleteFails(r) \/ ResponseLost(r)
      PROVE  OneSession'
  <2>1. CASE (\E u \in Users : Verified(r, u)) \/ UpsertUser(r) \/ SignInFails(r)
    BY <2>1 DEF Verified, UpsertUser, SignInFails
  <2>2. CASE CreateSession(r)
    BY <2>2 DEF CreateSession
  <2>3. CASE SendLogout(r)
    BY <2>3 DEF SendLogout
  <2>4. CASE DeleteSession(r) \/ DeleteFails(r) \/ ResponseLost(r)
    BY <2>4 DEF DeleteSession, DeleteFails, ResponseLost
  <2> QED BY <1>3, <2>1, <2>2, <2>3, <2>4
<1>4. ASSUME (\E u \in Users : UpsertFriend(u)) \/ Tick \/ UNCHANGED vars
      PROVE  OneSession'
  BY <1>4 DEF UpsertFriend, Tick, NoCookie, vars
<1> QED BY <1>1, <1>2, <1>3, <1>4 DEF Next

\* A browser that has logged out holds no session, and one that has signed in holds
\* the new one, unless a page was on its way meanwhile (main.go:527-543,
\* middleware.go:103-111).
THEOREM LastWordAlwaysCounts == Spec => []LastWordCounts
<1>1. Init => OneSession
  BY DEF Init, OneSession, PagesInFlight, NoCookie
<1>2. Spec => []OneSession
  BY <1>1, InvHolds, StepKeepsOneSession, PTL DEF Spec
<1>3. OneSession => LastWordCounts
  BY DEF OneSession, LastWordCounts
<1> QED BY <1>2, <1>3, PTL

=============================================================================
