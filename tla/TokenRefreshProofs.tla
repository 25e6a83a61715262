------------------------- MODULE TokenRefreshProofs -------------------------
(***************************************************************************)
(* The shared refresh of the access token, for every set of requests.      *)
(*                                                                         *)
(* GivesNewerToken is not inductive: it speaks of a thread that is back    *)
(* from getNewAuthToken(), while the reason lies with the thread that      *)
(* refreshes and with those that wait. NewestIsHeld says that the token a  *)
(* refresh has obtained and not yet published is newer than every token    *)
(* anybody can have sent; LastIsNewer carries that over to the threads     *)
(* that the publication has woken.                                         *)
(***************************************************************************)
EXTENDS TokenRefresh, TLAPS

NewestIsHeld ==
    \A h \in Requests : pc[h] = "refreshed" /\ token[h] # None =>
        /\ last < token[h]
        /\ authToken < token[h]
        /\ \A r \in Requests : sent[r] < token[h] /\ (r # h => token[r] < token[h])

LastIsNewer ==
    \A r \in Requests : pc[r] = "woken" /\ r \notin interrupted /\ last # None => last > sent[r]

\* The thread whose refresh was denied has no token to publish
DeniedHasNone == \A r \in Requests : pc[r] = "denied" => token[r] = None

IInv ==
    /\ TypeOK
    /\ OneRefreshAtATime
    /\ WaitersAreWoken
    /\ StoredIsNewest
    /\ NewestIsHeld
    /\ LastIsNewer
    /\ DeniedHasNone
    /\ GivesNewerToken

USE DEF IInv, None, Pcs, Refreshing, Ended

LEMMA InitIInv == Init => IInv
<1>1. Init => TypeOK
  <2>1. Init => getting \in BOOLEAN
    BY DEF Init
  <2>2. QED
    BY <2>1, SMT DEF Init, TypeOK
<1>2. Init => OneRefreshAtATime
  BY SMT DEF Init, OneRefreshAtATime
<1>3. QED
  BY <1>1, <1>2, SMT DEF Init, WaitersAreWoken, StoredIsNewest, NewestIsHeld,
     LastIsNewer, DeniedHasNone, GivesNewerToken

\* The token of the interceptor is older than one that is not yet published
LEMMA SendIInv ==
  ASSUME IInv, NEW r \in Requests, Send(r)
  PROVE  IInv'
<1> USE DEF Send, Goto, provider
<1>1. TypeOK'
  BY SMT DEF TypeOK
<1>2. OneRefreshAtATime'
  BY SMT DEF TypeOK, OneRefreshAtATime, WaitersAreWoken
<1>3. WaitersAreWoken'
  BY SMT DEF TypeOK, OneRefreshAtATime, WaitersAreWoken
<1>4. StoredIsNewest'
  BY SMT DEF TypeOK, StoredIsNewest
<1>5. NewestIsHeld'
  BY SMT DEF TypeOK, OneRefreshAtATime, StoredIsNewest, NewestIsHeld,
     DeniedHasNone
<1>6. LastIsNewer'
  BY SMT DEF TypeOK, OneRefreshAtATime, NewestIsHeld, LastIsNewer
<1>7. DeniedHasNone'
  BY SMT DEF TypeOK, DeniedHasNone
<1>8. GivesNewerToken'
  BY SMT DEF TypeOK, LastIsNewer, NewestIsHeld, GivesNewerToken
<1>9. QED
  BY <1>1, <1>2, <1>3, <1>4, <1>5, <1>6, <1>7, <1>8

\* Nobody else is concerned
LEMMA AnswerIInv ==
  ASSUME IInv, NEW r \in Requests, Answer(r)
  PROVE  IInv'
<1> USE DEF Answer, Finish, Goto, provider
<1>1. TypeOK'
  BY SMT DEF TypeOK
<1>2. OneRefreshAtATime'
  BY SMT DEF TypeOK, OneRefreshAtATime, WaitersAreWoken
<1>3. WaitersAreWoken'
  BY SMT DEF TypeOK, OneRefreshAtATime, WaitersAreWoken
<1>4. StoredIsNewest'
  BY SMT DEF TypeOK, StoredIsNewest
<1>5. NewestIsHeld'
  BY SMT DEF TypeOK, OneRefreshAtATime, StoredIsNewest, NewestIsHeld,
     DeniedHasNone
<1>6. LastIsNewer'
  BY SMT DEF TypeOK, OneRefreshAtATime, NewestIsHeld, LastIsNewer
<1>7. DeniedHasNone'
  BY SMT DEF TypeOK, DeniedHasNone
<1>8. GivesNewerToken'
  BY SMT DEF TypeOK, LastIsNewer, NewestIsHeld, GivesNewerToken
<1>9. QED
  BY <1>1, <1>2, <1>3, <1>4, <1>5, <1>6, <1>7, <1>8

LEMMA NetworkErrorIInv ==
  ASSUME IInv, NEW r \in Requests, NetworkError(r)
  PROVE  IInv'
<1> USE DEF NetworkError, Finish, Goto, provider
<1>1. TypeOK'
  BY SMT DEF TypeOK
<1>2. OneRefreshAtATime'
  BY SMT DEF TypeOK, OneRefreshAtATime, WaitersAreWoken
<1>3. WaitersAreWoken'
  BY SMT DEF TypeOK, OneRefreshAtATime, WaitersAreWoken
<1>4. StoredIsNewest'
  BY SMT DEF TypeOK, StoredIsNewest
<1>5. NewestIsHeld'
  BY SMT DEF TypeOK, OneRefreshAtATime, StoredIsNewest, NewestIsHeld,
     DeniedHasNone
<1>6. LastIsNewer'
  BY SMT DEF TypeOK, OneRefreshAtATime, NewestIsHeld, LastIsNewer
<1>7. DeniedHasNone'
  BY SMT DEF TypeOK, DeniedHasNone
<1>8. GivesNewerToken'
  BY SMT DEF TypeOK, LastIsNewer, NewestIsHeld, GivesNewerToken
<1>9. QED
  BY <1>1, <1>2, <1>3, <1>4, <1>5, <1>6, <1>7, <1>8

\* A late thread may set a token older than the one in use, never a newer one
\* than the account has
LEMMA SetAuthTokenIInv ==
  ASSUME IInv, NEW r \in Requests, SetAuthToken(r)
  PROVE  IInv'
<1> USE DEF SetAuthToken, Finish, Goto, provider
<1>1. TypeOK'
  BY SMT DEF TypeOK
<1>2. OneRefreshAtATime'
  BY SMT DEF TypeOK, OneRefreshAtATime, WaitersAreWoken
<1>3. WaitersAreWoken'
  BY SMT DEF TypeOK, OneRefreshAtATime, WaitersAreWoken
<1>4. StoredIsNewest'
  BY SMT DEF TypeOK, StoredIsNewest
<1>5. NewestIsHeld'
  BY SMT DEF TypeOK, OneRefreshAtATime, StoredIsNewest, NewestIsHeld,
     DeniedHasNone
<1>6. LastIsNewer'
  BY SMT DEF TypeOK, OneRefreshAtATime, NewestIsHeld, LastIsNewer
<1>7. DeniedHasNone'
  BY SMT DEF TypeOK, DeniedHasNone
<1>8. GivesNewerToken'
  BY SMT DEF TypeOK, LastIsNewer, NewestIsHeld, GivesNewerToken
<1>9. QED
  BY <1>1, <1>2, <1>3, <1>4, <1>5, <1>6, <1>7, <1>8

LEMMA ReadInstanceUrlIInv ==
  ASSUME IInv, NEW r \in Requests, ReadInstanceUrl(r)
  PROVE  IInv'
<1> USE DEF ReadInstanceUrl, Goto, provider
<1>1. TypeOK'
  BY SMT DEF TypeOK
<1>2. OneRefreshAtATime'
  BY SMT DEF TypeOK, OneRefreshAtATime, WaitersAreWoken
<1>3. WaitersAreWoken'
  BY SMT DEF TypeOK, OneRefreshAtATime, WaitersAreWoken
<1>4. StoredIsNewest'
  BY SMT DEF TypeOK, StoredIsNewest
<1>5. NewestIsHeld'
  BY SMT DEF TypeOK, OneRefreshAtATime, StoredIsNewest, NewestIsHeld,
     DeniedHasNone
<1>6. LastIsNewer'
  BY SMT DEF TypeOK, OneRefreshAtATime, NewestIsHeld, LastIsNewer
<1>7. DeniedHasNone'
  BY SMT DEF TypeOK, DeniedHasNone
<1>8. GivesNewerToken'
  BY SMT DEF TypeOK, LastIsNewer, NewestIsHeld, GivesNewerToken
<1>9. QED
  BY <1>1, <1>2, <1>3, <1>4, <1>5, <1>6, <1>7, <1>8

\* The flag goes up with the thread that refreshes
LEMMA GetNewAuthTokenIInv ==
  ASSUME IInv, NEW r \in Requests, GetNewAuthToken(r)
  PROVE  IInv'
<1> USE DEF GetNewAuthToken, Return, Goto, MayRefresh
<1>1. TypeOK'
  <2>1. pc' \in [Requests -> Pcs]
    BY SMT DEF TypeOK
  <2>2. token' \in [Requests -> 0 .. issued']
    BY SMT DEF TypeOK
  <2>3. getting' \in BOOLEAN
    BY DEF TypeOK
  <2>4. UNCHANGED <<issued, account, stored, authToken, last, sent, interrupted>>
    BY SMT DEF TypeOK
  <2>5. QED
    BY <2>1, <2>2, <2>3, <2>4 DEF TypeOK
<1>2. OneRefreshAtATime'
  BY SMT DEF TypeOK, OneRefreshAtATime, WaitersAreWoken
<1>3. WaitersAreWoken'
  BY SMT DEF TypeOK, OneRefreshAtATime, WaitersAreWoken
<1>4. StoredIsNewest'
  BY SMT DEF TypeOK, StoredIsNewest
<1>5. NewestIsHeld'
  BY SMT DEF TypeOK, OneRefreshAtATime, StoredIsNewest, NewestIsHeld,
     DeniedHasNone
<1>6. LastIsNewer'
  BY SMT DEF TypeOK, OneRefreshAtATime, NewestIsHeld, LastIsNewer
<1>7. DeniedHasNone'
  BY SMT DEF TypeOK, DeniedHasNone
<1>8. GivesNewerToken'
  BY SMT DEF TypeOK, LastIsNewer, NewestIsHeld, GivesNewerToken
<1>9. QED
  BY <1>1, <1>2, <1>3, <1>4, <1>5, <1>6, <1>7, <1>8

\* LastIsNewer and GivesNewerToken leave this thread out from now on
LEMMA InterruptIInv ==
  ASSUME IInv, NEW r \in Requests, Interrupt(r)
  PROVE  IInv'
<1> USE DEF Interrupt, Goto, provider
<1>1. TypeOK'
  BY SMT DEF TypeOK
<1>2. OneRefreshAtATime'
  BY SMT DEF TypeOK, OneRefreshAtATime, WaitersAreWoken
<1>3. WaitersAreWoken'
  BY SMT DEF TypeOK, OneRefreshAtATime, WaitersAreWoken
<1>4. StoredIsNewest'
  BY SMT DEF TypeOK, StoredIsNewest
<1>5. NewestIsHeld'
  BY SMT DEF TypeOK, OneRefreshAtATime, StoredIsNewest, NewestIsHeld,
     DeniedHasNone
<1>6. LastIsNewer'
  BY SMT DEF TypeOK, OneRefreshAtATime, NewestIsHeld, LastIsNewer
<1>7. DeniedHasNone'
  BY SMT DEF TypeOK, DeniedHasNone
<1>8. GivesNewerToken'
  BY SMT DEF TypeOK, LastIsNewer, NewestIsHeld, GivesNewerToken
<1>9. QED
  BY <1>1, <1>2, <1>3, <1>4, <1>5, <1>6, <1>7, <1>8

\* What LastIsNewer says of last holds of the token that is returned
LEMMA ReturnLastIInv ==
  ASSUME IInv, NEW r \in Requests, ReturnLast(r)
  PROVE  IInv'
<1> USE DEF ReturnLast, Return, Goto, provider
<1>1. TypeOK'
  BY SMT DEF TypeOK
<1>2. OneRefreshAtATime'
  BY SMT DEF TypeOK, OneRefreshAtATime, WaitersAreWoken
<1>3. WaitersAreWoken'
  BY SMT DEF TypeOK, OneRefreshAtATime, WaitersAreWoken
<1>4. StoredIsNewest'
  BY SMT DEF TypeOK, StoredIsNewest
<1>5. NewestIsHeld'
  BY SMT DEF TypeOK, OneRefreshAtATime, StoredIsNewest, NewestIsHeld,
     DeniedHasNone
<1>6. LastIsNewer'
  BY SMT DEF TypeOK, OneRefreshAtATime, NewestIsHeld, LastIsNewer
<1>7. DeniedHasNone'
  BY SMT DEF TypeOK, DeniedHasNone
<1>8. GivesNewerToken'
  BY SMT DEF TypeOK, LastIsNewer, NewestIsHeld, GivesNewerToken
<1>9. QED
  BY <1>1, <1>2, <1>3, <1>4, <1>5, <1>6, <1>7, <1>8

\* The token the server issues is newer than everything there is
LEMMA RefreshGrantedIInv ==
  ASSUME IInv, NEW r \in Requests, RefreshGranted(r)
  PROVE  IInv'
<1> USE DEF RefreshGranted, Obtained, StoredToken, Goto, provider
<1>1. TypeOK'
  BY SMT DEF TypeOK
<1>2. OneRefreshAtATime'
  BY SMT DEF TypeOK, OneRefreshAtATime, WaitersAreWoken
<1>3. WaitersAreWoken'
  BY SMT DEF TypeOK, OneRefreshAtATime, WaitersAreWoken
<1>4. StoredIsNewest'
  BY SMT DEF TypeOK, StoredIsNewest
<1>5. NewestIsHeld'
  BY SMT DEF TypeOK, OneRefreshAtATime, StoredIsNewest, NewestIsHeld,
     DeniedHasNone
<1>6. LastIsNewer'
  BY SMT DEF TypeOK, OneRefreshAtATime, NewestIsHeld, LastIsNewer
<1>7. DeniedHasNone'
  BY SMT DEF TypeOK, DeniedHasNone
<1>8. GivesNewerToken'
  BY SMT DEF TypeOK, LastIsNewer, NewestIsHeld, GivesNewerToken
<1>9. QED
  BY <1>1, <1>2, <1>3, <1>4, <1>5, <1>6, <1>7, <1>8

LEMMA RefreshDeniedIInv ==
  ASSUME IInv, NEW r \in Requests, RefreshDenied(r)
  PROVE  IInv'
<1> USE DEF RefreshDenied, Goto, provider
<1>1. TypeOK'
  BY SMT DEF TypeOK
<1>2. OneRefreshAtATime'
  BY SMT DEF TypeOK, OneRefreshAtATime, WaitersAreWoken
<1>3. WaitersAreWoken'
  BY SMT DEF TypeOK, OneRefreshAtATime, WaitersAreWoken
<1>4. StoredIsNewest'
  BY SMT DEF TypeOK, StoredIsNewest
<1>5. NewestIsHeld'
  BY SMT DEF TypeOK, OneRefreshAtATime, StoredIsNewest, NewestIsHeld,
     DeniedHasNone
<1>6. LastIsNewer'
  BY SMT DEF TypeOK, OneRefreshAtATime, NewestIsHeld, LastIsNewer
<1>7. DeniedHasNone'
  BY SMT DEF TypeOK, DeniedHasNone
<1>8. GivesNewerToken'
  BY SMT DEF TypeOK, LastIsNewer, NewestIsHeld, GivesNewerToken
<1>9. QED
  BY <1>1, <1>2, <1>3, <1>4, <1>5, <1>6, <1>7, <1>8

LEMMA RefreshLostIInv ==
  ASSUME IInv, NEW r \in Requests, RefreshLost(r)
  PROVE  IInv'
<1> USE DEF RefreshLost, Obtained, Goto, provider
<1>1. TypeOK'
  BY SMT DEF TypeOK
<1>2. OneRefreshAtATime'
  BY SMT DEF TypeOK, OneRefreshAtATime, WaitersAreWoken
<1>3. WaitersAreWoken'
  BY SMT DEF TypeOK, OneRefreshAtATime, WaitersAreWoken
<1>4. StoredIsNewest'
  BY SMT DEF TypeOK, StoredIsNewest
<1>5. NewestIsHeld'
  BY SMT DEF TypeOK, OneRefreshAtATime, StoredIsNewest, NewestIsHeld,
     DeniedHasNone
<1>6. LastIsNewer'
  BY SMT DEF TypeOK, OneRefreshAtATime, NewestIsHeld, LastIsNewer
<1>7. DeniedHasNone'
  BY SMT DEF TypeOK, DeniedHasNone
<1>8. GivesNewerToken'
  BY SMT DEF TypeOK, LastIsNewer, NewestIsHeld, GivesNewerToken
<1>9. QED
  BY <1>1, <1>2, <1>3, <1>4, <1>5, <1>6, <1>7, <1>8

LEMMA LogoutIInv ==
  ASSUME IInv, NEW r \in Requests, Logout(r)
  PROVE  IInv'
<1> USE DEF Logout, Goto, provider
<1>1. TypeOK'
  BY SMT DEF TypeOK
<1>2. OneRefreshAtATime'
  BY SMT DEF TypeOK, OneRefreshAtATime, WaitersAreWoken
<1>3. WaitersAreWoken'
  BY SMT DEF TypeOK, OneRefreshAtATime, WaitersAreWoken
<1>4. StoredIsNewest'
  BY SMT DEF TypeOK, StoredIsNewest
<1>5. NewestIsHeld'
  BY SMT DEF TypeOK, OneRefreshAtATime, StoredIsNewest, NewestIsHeld,
     DeniedHasNone
<1>6. LastIsNewer'
  BY SMT DEF TypeOK, OneRefreshAtATime, NewestIsHeld, LastIsNewer
<1>7. DeniedHasNone'
  BY SMT DEF TypeOK, DeniedHasNone
<1>8. GivesNewerToken'
  BY SMT DEF TypeOK, LastIsNewer, NewestIsHeld, GivesNewerToken
<1>9. QED
  BY <1>1, <1>2, <1>3, <1>4, <1>5, <1>6, <1>7, <1>8

\* What NewestIsHeld says of the token holds of last, and nobody waits any more
LEMMA PublishIInv ==
  ASSUME IInv, NEW r \in Requests, Publish(r)
  PROVE  IInv'
<1> USE DEF Publish, Woken, Published
<1>1. TypeOK'
  <2>1. \A q \in Requests : pc'[q] \in Pcs
    BY SMT DEF TypeOK
  <2>2. pc' \in [Requests -> Pcs]
    BY SMT DEF TypeOK
  <2>3. last' \in 0 .. issued
    BY SMT DEF TypeOK
  <2>4. getting' \in BOOLEAN
    BY DEF TypeOK
  <2>5. UNCHANGED <<issued, account, stored, authToken, sent, token, interrupted>>
    BY SMT DEF TypeOK
  <2>6. QED
    BY <2>1, <2>2, <2>3, <2>4, <2>5 DEF TypeOK
<1>2. OneRefreshAtATime'
  BY SMT DEF TypeOK, OneRefreshAtATime, WaitersAreWoken
<1>3. WaitersAreWoken'
  BY SMT DEF TypeOK, OneRefreshAtATime, WaitersAreWoken
<1>4. StoredIsNewest'
  BY SMT DEF TypeOK, StoredIsNewest
<1>5. NewestIsHeld'
  BY SMT DEF TypeOK, OneRefreshAtATime, StoredIsNewest, NewestIsHeld,
     DeniedHasNone
<1>6. LastIsNewer'
  BY SMT DEF TypeOK, OneRefreshAtATime, NewestIsHeld, LastIsNewer
<1>7. DeniedHasNone'
  BY SMT DEF TypeOK, DeniedHasNone
<1>8. GivesNewerToken'
  BY SMT DEF TypeOK, LastIsNewer, NewestIsHeld, GivesNewerToken
<1>9. QED
  BY <1>1, <1>2, <1>3, <1>4, <1>5, <1>6, <1>7, <1>8

\* No thread is left
LEMMA RestartIInv ==
  ASSUME IInv, Restart
  PROVE  IInv'
<1> USE DEF Restart
<1>1. TypeOK'
  <2>1. pc' \in [Requests -> Pcs]
    BY SMT DEF TypeOK
  <2>2. sent' \in [Requests -> 0 .. issued'] /\ token' \in [Requests -> 0 .. issued']
    BY SMT DEF TypeOK
  <2>3. getting' \in BOOLEAN
    BY DEF TypeOK
  <2>4. /\ UNCHANGED <<issued, stored>> /\ account' = "in" /\ authToken' = stored
        /\ last' = stored /\ interrupted' = {}
    BY SMT DEF TypeOK
  <2>5. QED
    BY <2>1, <2>2, <2>3, <2>4 DEF TypeOK
<1>2. OneRefreshAtATime'
  BY SMT DEF TypeOK, OneRefreshAtATime, WaitersAreWoken
<1>3. WaitersAreWoken'
  BY SMT DEF TypeOK, OneRefreshAtATime, WaitersAreWoken
<1>4. StoredIsNewest'
  BY SMT DEF TypeOK, StoredIsNewest
<1>5. NewestIsHeld'
  BY SMT DEF TypeOK, OneRefreshAtATime, StoredIsNewest, NewestIsHeld,
     DeniedHasNone
<1>6. LastIsNewer'
  BY SMT DEF TypeOK, OneRefreshAtATime, NewestIsHeld, LastIsNewer
<1>7. DeniedHasNone'
  BY SMT DEF TypeOK, DeniedHasNone
<1>8. GivesNewerToken'
  BY SMT DEF TypeOK, LastIsNewer, NewestIsHeld, GivesNewerToken
<1>9. QED
  BY <1>1, <1>2, <1>3, <1>4, <1>5, <1>6, <1>7, <1>8

LEMMA LeaveIInv ==
  ASSUME IInv, Leave
  PROVE  IInv'
<1> USE DEF Leave, thread, provider
<1>1. TypeOK'
  BY SMT DEF TypeOK
<1>2. OneRefreshAtATime'
  BY SMT DEF TypeOK, OneRefreshAtATime, WaitersAreWoken
<1>3. WaitersAreWoken'
  BY SMT DEF TypeOK, OneRefreshAtATime, WaitersAreWoken
<1>4. StoredIsNewest'
  BY SMT DEF TypeOK, StoredIsNewest
<1>5. NewestIsHeld'
  BY SMT DEF TypeOK, OneRefreshAtATime, StoredIsNewest, NewestIsHeld,
     DeniedHasNone
<1>6. LastIsNewer'
  BY SMT DEF TypeOK, OneRefreshAtATime, NewestIsHeld, LastIsNewer
<1>7. DeniedHasNone'
  BY SMT DEF TypeOK, DeniedHasNone
<1>8. GivesNewerToken'
  BY SMT DEF TypeOK, LastIsNewer, NewestIsHeld, GivesNewerToken
<1>9. QED
  BY <1>1, <1>2, <1>3, <1>4, <1>5, <1>6, <1>7, <1>8

-----------------------------------------------------------------------------
LEMMA NextIInv == IInv /\ [Next]_vars => IInv'
<1> SUFFICES ASSUME IInv, [Next]_vars
             PROVE  IInv'
  OBVIOUS
<1>1. ASSUME NEW r \in Requests, Send(r)
      PROVE  IInv'
  BY <1>1, SendIInv
<1>2. ASSUME NEW r \in Requests, Answer(r)
      PROVE  IInv'
  BY <1>2, AnswerIInv
<1>3. ASSUME NEW r \in Requests, NetworkError(r)
      PROVE  IInv'
  BY <1>3, NetworkErrorIInv
<1>4. ASSUME NEW r \in Requests, SetAuthToken(r)
      PROVE  IInv'
  BY <1>4, SetAuthTokenIInv
<1>5. ASSUME NEW r \in Requests, ReadInstanceUrl(r)
      PROVE  IInv'
  BY <1>5, ReadInstanceUrlIInv
<1>6. ASSUME NEW r \in Requests, GetNewAuthToken(r)
      PROVE  IInv'
  BY <1>6, GetNewAuthTokenIInv
<1>7. ASSUME NEW r \in Requests, Interrupt(r)
      PROVE  IInv'
  BY <1>7, InterruptIInv
<1>8. ASSUME NEW r \in Requests, ReturnLast(r)
      PROVE  IInv'
  BY <1>8, ReturnLastIInv
<1>9. ASSUME NEW r \in Requests, RefreshGranted(r)
      PROVE  IInv'
  BY <1>9, RefreshGrantedIInv
<1>10. ASSUME NEW r \in Requests, RefreshDenied(r)
      PROVE  IInv'
  BY <1>10, RefreshDeniedIInv
<1>11. ASSUME NEW r \in Requests, RefreshLost(r)
      PROVE  IInv'
  BY <1>11, RefreshLostIInv
<1>12. ASSUME NEW r \in Requests, Logout(r)
      PROVE  IInv'
  BY <1>12, LogoutIInv
<1>13. ASSUME NEW r \in Requests, Publish(r)
      PROVE  IInv'
  BY <1>13, PublishIInv
<1>14. CASE Leave
  BY <1>14, LeaveIInv
<1>15. CASE Restart
  BY <1>15, RestartIInv
<1>16. CASE UNCHANGED vars
  BY <1>16 DEF vars, provider, thread, TypeOK, OneRefreshAtATime, WaitersAreWoken, StoredIsNewest,
     NewestIsHeld, LastIsNewer, DeniedHasNone, GivesNewerToken
<1>17. QED
  BY <1>1, <1>2, <1>3, <1>4, <1>5, <1>6, <1>7, <1>8, <1>9, <1>10, <1>11, <1>12, <1>13,
     <1>14, <1>15, <1>16 DEF Next, Step, Refresh

LEMMA InvariantHolds == Spec => []IInv
  BY InitIInv, NextIInv, PTL DEF Spec

\* The state stays well formed, whatever the set of requests
THEOREM TypeCorrect == Spec => []TypeOK
  BY InvariantHolds, PTL

\* However many requests are answered 401 at once, one of them refreshes at a time
\* (ClientManager.getNewAuthToken)
THEOREM RefreshIsExclusive == Spec => []OneRefreshAtATime
  BY InvariantHolds, PTL

\* Whoever waits has a thread that is still going to notify it, whichever way the
\* refresh ends (the finally of ClientManager.getNewAuthToken)
THEOREM WaitersGetNotified == Spec => []WaitersAreWoken
  BY InvariantHolds, PTL

\* Nobody whose wait is not interrupted sends the refused token again, however
\* the refreshes of several threads follow each other
THEOREM RetriesWithNewer == Spec => []GivesNewerToken
  BY InvariantHolds, PTL

\* A new process never goes back behind a token that was in use
THEOREM AccountHasNewest == Spec => []StoredIsNewest
  BY InvariantHolds, PTL
=============================================================================
