---------------------------- MODULE TokenRefresh ----------------------------
(***************************************************************************)
(* Requests of one user and the access token they share: RestClient's      *)
(* OAuthRefreshInterceptor, one per user, resends a request that was       *)
(* answered 401 after it has got a new token from the provider of          *)
(* ClientManager, where one thread refreshes and the others wait for it.   *)
(* Tokens are numbered in the order the server issues them.                *)
(***************************************************************************)
EXTENDS Naturals

CONSTANTS Requests,                  \* each is sent once by a thread of its own
          RevokedTokenShouldLogout   \* the setting of the client manager

ASSUME LogoutAssumption == RevokedTokenShouldLogout \in BOOLEAN

VARIABLES issued,      \* the last token the server has issued
          account,     \* "in", "leaving" (isLoggingOut) or "none"
          stored,      \* KEY_AUTHTOKEN of the account
          authToken,   \* of the interceptor
          getting,     \* gettingAuthToken
          last,        \* lastNewAuthToken; lastNewInstanceUrl is null with it
          pc,          \* where the thread of a request is
          sent,        \* the token in the request that is on its way
          token,       \* the new token a thread of getNewAuthToken() has
          interrupted  \* the threads whose wait was interrupted

provider == <<getting, last>>
thread == <<pc, sent, token, interrupted>>
vars == <<issued, account, stored, authToken, provider, thread>>

None == 0

Refreshing == {"refreshing", "denied", "refreshed"}
Ended == {"ok", "unauthorized", "revoked", "crashed", "error", "gone"}
Pcs == {"idle", "sent", "refused", "waiting", "woken", "got", "updated",
        "renewed", "resent"} \cup Refreshing \cup Ended

(***************************************************************************)
(* One user is logged in and has a token.                                  *)
(***************************************************************************)
Init ==
    /\ issued = 1
    /\ account = "in"
    /\ stored = 1
    /\ authToken = 1
    /\ getting = FALSE
    /\ last = 1
    /\ pc = [r \in Requests |-> "idle"]
    /\ sent = [r \in Requests |-> None]
    /\ token = [r \in Requests |-> None]
    /\ interrupted = {}

Goto(r, from, to) ==
    /\ pc[r] = from
    /\ pc' = [pc EXCEPT ![r] = to]

-----------------------------------------------------------------------------
(* intercept() *)

\* buildAuthenticatedRequest() with whatever token the interceptor has now
Send(r) ==
    /\ \/ Goto(r, "idle", "sent")
       \/ Goto(r, "renewed", "resent")
    /\ sent' = [sent EXCEPT ![r] = authToken]
    /\ UNCHANGED <<issued, account, stored, authToken, provider, token, interrupted>>

Finish(r, from, to) ==
    /\ Goto(r, from, to)
    /\ sent' = [sent EXCEPT ![r] = None]
    /\ token' = [token EXCEPT ![r] = None]

\* The server accepts the token, at any time it may refuse it: the answer to
\* the second request goes to the caller as it is
Answer(r) ==
    /\ \/ Finish(r, "sent", "ok")
       \/ Finish(r, "resent", "ok")
       \/ Finish(r, "resent", "unauthorized")
       \/ Goto(r, "sent", "refused") /\ UNCHANGED <<sent, token>>
    /\ UNCHANGED <<issued, account, stored, authToken, provider, interrupted>>

\* proceed() throws
NetworkError(r) ==
    /\ Finish(r, "sent", "error") \/ Finish(r, "resent", "error")
    /\ UNCHANGED <<issued, account, stored, authToken, provider, interrupted>>

\* refreshAccessToken() up to setAuthToken(): another thread may have begun
\* and lost a refresh since this one got its token
SetAuthToken(r) ==
    /\ IF token[r] = None \/ last = None
       THEN /\ Finish(r, "got", "revoked")
            /\ UNCHANGED authToken
       ELSE /\ Finish(r, "got", "updated")
            /\ authToken' = token[r]
    /\ UNCHANGED <<issued, account, stored, provider, interrupted>>

\* The rest of refreshAccessToken() reads the instance URL a second time and
\* makes a URI of it: of null, if a refresh was lost in between
ReadInstanceUrl(r) ==
    /\ Goto(r, "updated", IF last = None THEN "crashed" ELSE "renewed")
    /\ UNCHANGED <<issued, account, stored, authToken, provider, sent, token, interrupted>>

-----------------------------------------------------------------------------
(* getNewAuthToken() *)

Return(r, from, t) ==
    /\ Goto(r, from, "got")
    /\ token' = [token EXCEPT ![r] = t]

BugMayRefresh == TRUE
MayRefresh == ~getting

\* Without an account there is no token; one thread refreshes, the others wait
GetNewAuthToken(r) ==
    /\ \/ /\ account = "none"
          /\ Return(r, "refused", None)
          /\ UNCHANGED getting
       \/ /\ account # "none"
          /\ MayRefresh
          /\ Goto(r, "refused", "refreshing")
          /\ getting' = TRUE
          /\ UNCHANGED token
       \/ /\ account # "none"
          /\ ~MayRefresh
          /\ Goto(r, "refused", "waiting")
          /\ UNCHANGED <<getting, token>>
    /\ UNCHANGED <<issued, account, stored, authToken, last, sent, interrupted>>

\* wait() ends with an InterruptedException, which is caught and logged
Interrupt(r) ==
    /\ Goto(r, "waiting", "woken")
    /\ interrupted' = interrupted \cup {r}
    /\ UNCHANGED <<issued, account, stored, authToken, provider, sent, token>>

\* wait() has the lock again
ReturnLast(r) ==
    /\ Return(r, "woken", last)
    /\ UNCHANGED <<issued, account, stored, authToken, provider, sent, interrupted>>

Obtained(r, t) ==
    /\ Goto(r, "refreshing", "refreshed")
    /\ token' = [token EXCEPT ![r] = t]

BugStoredToken == stored
BugStoredOther == issued' + 1
StoredToken == issued'

\* refreshStaleToken(): the new token is stored in the account and returned,
\* unless a later call of the same try block throws
RefreshGranted(r) ==
    /\ account # "none"
    /\ issued' = issued + 1
    /\ stored' = StoredToken
    /\ Obtained(r, issued') \/ Obtained(r, None)
    /\ UNCHANGED <<account, authToken, provider, sent, interrupted>>

\* The token endpoint answers with an error, of whatever kind: the bundle has
\* no token in it
RefreshDenied(r) ==
    /\ account # "none"
    /\ Goto(r, "refreshing", IF RevokedTokenShouldLogout THEN "denied" ELSE "refreshed")
    /\ token' = [token EXCEPT ![r] = None]
    /\ UNCHANGED <<issued, account, stored, authToken, provider, sent, interrupted>>

\* Without the finally block an exception would leave the flag up
BugRefreshLost(r) ==
    /\ Return(r, "refreshing", None)
    /\ UNCHANGED <<issued, account, stored, authToken, provider, sent, interrupted>>

\* peekRestClient() finds the user leaving, or the endpoint is not reached
RefreshLost(r) ==
    /\ Obtained(r, None)
    /\ UNCHANGED <<issued, account, stored, authToken, provider, sent, interrupted>>

\* logout(null, false)
Logout(r) ==
    /\ Goto(r, "denied", "refreshed")
    /\ account' = IF account = "in" THEN "leaving" ELSE account
    /\ UNCHANGED <<issued, stored, authToken, provider, sent, token, interrupted>>

\* notifyAll() wakes everybody who waits; notify() would wake one of them
BugWoken(q) ==
    IF q = CHOOSE p \in Requests : pc[p] = "waiting" THEN "woken" ELSE "waiting"

Woken(q) == "woken"
BugPublished(r) == last
Published(r) == token[r]

\* The finally block of the thread that refreshes
Publish(r) ==
    /\ pc[r] = "refreshed"
    /\ getting' = FALSE
    /\ last' = Published(r)
    /\ pc' = [q \in Requests |-> CASE q = r -> "got"
                                   [] pc[q] = "waiting" -> Woken(q)
                                   [] OTHER -> pc[q]]
    /\ UNCHANGED <<issued, account, stored, authToken, sent, token, interrupted>>

-----------------------------------------------------------------------------
(* The surroundings *)

\* The application logs the user out, or the account of a logout is removed
Leave ==
    /\ \/ account = "in" /\ account' = "leaving"
       \/ account = "leaving" /\ account' = "none"
    /\ UNCHANGED <<issued, stored, authToken, provider, thread>>

\* The process dies: the client of the next one is made from the account
Restart ==
    /\ account # "none"
    /\ \E r \in Requests : pc[r] \notin Ended \cup {"idle"}
    /\ account' = "in"
    /\ authToken' = stored
    /\ getting' = FALSE
    /\ last' = stored
    /\ pc' = [r \in Requests |-> IF pc[r] \in Ended \cup {"idle"} THEN pc[r] ELSE "gone"]
    /\ sent' = [r \in Requests |-> None]
    /\ token' = [r \in Requests |-> None]
    /\ interrupted' = {}
    /\ UNCHANGED <<issued, stored>>

Refresh(r) == RefreshGranted(r) \/ RefreshDenied(r) \/ RefreshLost(r)

\* What the thread of a request does of its own, once the request is sent
Step(r) ==
    \/ Answer(r) \/ NetworkError(r)
    \/ GetNewAuthToken(r) \/ ReturnLast(r)
    \/ Refresh(r) \/ Logout(r) \/ Publish(r)
    \/ SetAuthToken(r) \/ ReadInstanceUrl(r)
    \/ pc[r] = "renewed" /\ Send(r)

Next ==
    \/ \E r \in Requests : Send(r) \/ Interrupt(r) \/ Step(r)
    \/ Leave \/ Restart

Fairness == \A r \in Requests : WF_vars(Step(r))

Spec == Init /\ [][Next]_vars
FairSpec == Spec /\ Fairness

-----------------------------------------------------------------------------
(* Properties *)

\* The state of the model is well formed: tokens are numbers the server has
\* issued, threads are at a line of intercept() or getNewAuthToken()
TypeOK ==
    /\ issued \in Nat
    /\ account \in {"in", "leaving", "none"}
    /\ stored \in 1 .. issued
    /\ authToken \in 1 .. issued
    /\ getting \in BOOLEAN
    /\ last \in 0 .. issued
    /\ pc \in [Requests -> Pcs]
    /\ sent \in [Requests -> 0 .. issued]
    /\ token \in [Requests -> 0 .. issued]
    /\ interrupted \subseteq Requests

\* No two threads refresh the token at the same time, and the flag that makes
\* the others wait is up exactly while one does: a flag left up by a failed
\* refresh would make every later 401 wait for a notification nobody sends
\* (ClientManager.getNewAuthToken)
OneRefreshAtATime ==
    /\ \A r, q \in Requests : pc[r] \in Refreshing /\ pc[q] \in Refreshing => r = q
    /\ getting <=> \E r \in Requests : pc[r] \in Refreshing

\* A thread waits only while another one refreshes, and so will be notified
WaitersAreWoken == \A r \in Requests : pc[r] = "waiting" => getting

\* "wait for it to finish and use that access token": the token that a thread
\* gets, whether it refreshed or waited, is newer than the one the server
\* refused, unless its wait was interrupted
GivesNewerToken ==
    \A r \in Requests :
        pc[r] = "got" /\ token[r] # None /\ r \notin interrupted => token[r] > sent[r]

\* The account never keeps an older token than the one a client uses or is
\* about to use: a new process does not go back to a token that was replaced
\* (refreshStaleToken stores the token before getNewAuthToken hands it out)
StoredIsNewest ==
    /\ authToken <= stored
    /\ last <= stored
    /\ \A r \in Requests : sent[r] <= stored /\ token[r] <= stored

\* Every request that is sent ends, with an answer or with an exception:
\* neither a failed refresh nor a logout leaves a thread waiting
EveryRequestEnds == \A r \in Requests : pc[r] = "sent" ~> pc[r] \in Ended
=============================================================================
