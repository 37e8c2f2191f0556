---------------------------- MODULE SessionsProofs ----------------------------
(***************************************************************************)
(* Proofs about Sessions, for any number of sessions, of requests and of   *)
(* failures, any lifetimes, and identity providers that rotate refresh     *)
(* tokens and that do not.                                                 *)
(***************************************************************************)
EXTENDS Sessions, TLAPS

InSession == {"refresh", "write", "drop", "serve", "served"}
InLogin   == {"consume", "exchange", "open"}

SessionHandlers == [at : InSession, id : Sids, began : Nat, token : Nat]
LoginHandlers   == [at : InLogin, id : States, expired : BOOLEAN]

\* Where a handler is tells what it holds.
LEMMA HandlerShape ==
  ASSUME NEW h \in Handlers
  PROVE  /\ h.at \in InSession => h \in SessionHandlers
         /\ h.at \in InLogin => h \in LoginHandlers
  BY DEF Handlers, InSession, InLogin, SessionHandlers, LoginHandlers

LEMMA HandlerType ==
  /\ SessionHandlers \subseteq Handlers
  /\ LoginHandlers \subseteq Handlers
  /\ [at |-> "insert"] \in Handlers
  BY DEF Handlers, InSession, InLogin, SessionHandlers, LoginHandlers

\* A handler that moves on within a session or a login keeps what it holds.
LEMMA HandlerMoves ==
  /\ \A h \in SessionHandlers, place \in InSession :
        /\ [h EXCEPT !.at = place] \in SessionHandlers
        /\ \A g \in Nat : [h EXCEPT !.at = place, !.token = g] \in SessionHandlers
  /\ \A h \in LoginHandlers, place \in InLogin : [h EXCEPT !.at = place] \in LoginHandlers
  BY DEF InSession, InLogin, SessionHandlers, LoginHandlers

LEMMA AtShape ==
  ASSUME SessionsTypeOK, NEW r \in Requests, NEW place, At(r, place)
  PROVE  /\ place \in InSession => req[r] \in SessionHandlers
         /\ place \in InLogin => req[r] \in LoginHandlers
<1>1. req[r] \in Handlers /\ req[r].at = place
  BY DEF At, SessionsTypeOK
<1>2. QED
  BY <1>1, HandlerShape

-----------------------------------------------------------------------------
(* Types *)

LEMMA SessionsTypeStep == SessionsTypeOK /\ [Next]_vars => SessionsTypeOK'
<1> SUFFICES ASSUME SessionsTypeOK, [Next]_vars PROVE SessionsTypeOK'
  OBVIOUS
<1> USE DEF SessionsTypeOK
<1>0. /\ {"refresh", "write", "drop", "serve", "served"} = InSession
      /\ {"consume", "exchange", "open"} = InLogin
      /\ EXPIRES_IN \in Nat
  BY LifetimesAssumption DEF InSession, InLogin
<1>1. ASSUME NEW r \in Requests, Reap(r) PROVE SessionsTypeOK'
  BY <1>1, HandlerType DEF Reap
<1>2. ASSUME NEW r \in Requests, InsertState(r) PROVE SessionsTypeOK'
  BY <1>2 DEF InsertState
<1>3. ASSUME NEW r \in Requests, NEW st \in States, ReadState(r, st) PROVE SessionsTypeOK'
  <2>1. \A late \in BOOLEAN :
           [at |-> "consume", id |-> st, expired |-> late] \in Handlers
    BY <1>0, HandlerType DEF LoginHandlers
  <2> DEFINE late == oauth[st] + OAUTH_STATE_TTL <= now
  <2>2. late \in BOOLEAN
    OBVIOUS
  <2>3. [at |-> "consume", id |-> st, expired |-> late] \in Handlers
    BY <2>1, <2>2
  <2>4. req' = [req EXCEPT ![r] = [at |-> "consume", id |-> st, expired |-> late]]
    BY <1>3 DEF ReadState
  <2> HIDE DEF late
  <2>5. req' \in [Requests -> Handlers \cup {None}]
    BY <2>3, <2>4
  <2>6. QED
    BY <1>3, <2>5 DEF ReadState
<1>4. ASSUME NEW r \in Requests, Consume(r) PROVE SessionsTypeOK'
  <2>1. req[r] \in LoginHandlers
    BY <1>0, <1>4, AtShape DEF Consume
  <2>2. [req[r] EXCEPT !.at = "exchange"] \in Handlers
    BY <1>0, <2>1, HandlerMoves, HandlerType
  <2>3. req[r].id \in States
    BY <2>1 DEF LoginHandlers
  <2>4. QED
    BY <1>4, <2>2, <2>3 DEF Consume
<1>5. ASSUME NEW r \in Requests, Exchange(r) PROVE SessionsTypeOK'
  <2>1. req[r] \in LoginHandlers
    BY <1>0, <1>5, AtShape DEF Exchange
  <2>2. [req[r] EXCEPT !.at = "open"] \in Handlers
    BY <1>0, <2>1, HandlerMoves, HandlerType
  <2>3. QED
    BY <1>5, <2>2 DEF Exchange
<1>6. ASSUME NEW r \in Requests, OpenSession(r) PROVE SessionsTypeOK'
  <2>1. PICK s \in Sids, g \in {0, 1} :
          /\ session' = [session EXCEPT ![s] =
                 [created |-> now, expires |-> now + EXPIRES_IN, refresh |-> g,
                  tokenKey |-> keys.primary, idKey |-> keys.primary]]
          /\ opened' = [opened EXCEPT ![s] = now]
          /\ latest' = [latest EXCEPT ![s] = g]
    BY <1>6 DEF OpenSession
  <2>2. [created |-> now, expires |-> now + EXPIRES_IN, refresh |-> g,
         tokenKey |-> keys.primary, idKey |-> keys.primary] \in SessionRows
    BY <1>0 DEF SessionRows
  <2>3. session' \in [Sids -> SessionRows \cup {None}]
    BY <2>1, <2>2
  <2>4. opened' \in [Sids -> Nat \cup {None}] /\ latest' \in [Sids -> Nat]
    BY <2>1
  <2>5. req' \in [Requests -> Handlers \cup {None}]
    BY <1>6 DEF OpenSession
  <2>6. QED
    BY <1>6, <2>3, <2>4, <2>5 DEF OpenSession
<1>7. ASSUME NEW r \in Requests, NEW s \in Sids, ReadSession(r, s) PROVE SessionsTypeOK'
  <2>1. session[s] \in SessionRows
    BY <1>7 DEF ReadSession, Readable
  <2>2. \A place \in {"drop", "served", "refresh"} :
           [at |-> place, id |-> s, began |-> now, token |-> session[s].refresh] \in Handlers
    BY <1>0, <2>1, HandlerType DEF SessionHandlers, SessionRows
  <2>3. QED
    BY <1>7, <2>2 DEF ReadSession
<1>8. ASSUME NEW r \in Requests, NEW s \in Sids, Logout(r, s) PROVE SessionsTypeOK'
  <2>1. session[s] \in SessionRows
    BY <1>8 DEF Logout, Readable
  <2>2. [at |-> "drop", id |-> s, began |-> now, token |-> session[s].refresh] \in Handlers
    BY <1>0, <2>1, HandlerType DEF SessionHandlers, SessionRows
  <2>3. QED
    BY <1>8, <2>2 DEF Logout
<1>9. ASSUME NEW r \in Requests, Refresh(r) PROVE SessionsTypeOK'
  <2>1. req[r] \in SessionHandlers
    BY <1>0, <1>9, AtShape DEF Refresh
  <2>2. req[r].id \in Sids
    BY <2>1 DEF SessionHandlers
  <2>3. latest' \in [Sids -> Nat]
    BY <1>9, <2>2 DEF Refresh
  <2>4. [req[r] EXCEPT !.at = "drop"] \in Handlers
        /\ [req[r] EXCEPT !.at = "write", !.token = latest'[req[r].id]] \in Handlers
    BY <1>0, <2>1, <2>2, <2>3, HandlerMoves, HandlerType
  <2>5. req' \in [Requests -> Handlers \cup {None}]
    BY <1>9, <2>4 DEF Refresh
  <2>6. QED
    BY <1>9, <2>3, <2>5 DEF Refresh
<1>10. ASSUME NEW r \in Requests, RefreshRaises(r) PROVE SessionsTypeOK'
  <2>1. req[r] \in SessionHandlers
    BY <1>0, <1>10, AtShape DEF RefreshRaises
  <2>2. req[r].id \in Sids
    BY <2>1 DEF SessionHandlers
  <2>3. latest' \in [Sids -> Nat]
    BY <1>10, <2>2 DEF RefreshRaises
  <2>4. req' \in [Requests -> Handlers \cup {None}]
    BY <1>10 DEF RefreshRaises
  <2>5. QED
    BY <1>10, <2>2, <2>3, <2>4 DEF RefreshRaises
<1>11. ASSUME NEW r \in Requests, WriteTokens(r) PROVE SessionsTypeOK'
  <2>1. req[r] \in SessionHandlers
    BY <1>0, <1>11, AtShape DEF WriteTokens
  <2>2. req[r].id \in Sids /\ req[r].token \in Nat
    BY <2>1 DEF SessionHandlers
  <2>3. CASE session[req[r].id] = None
    BY <1>11, <2>3 DEF WriteTokens
  <2>4. CASE session[req[r].id] # None
    <3>1. session[req[r].id] \in SessionRows
      BY <2>2, <2>4
    <3>2. now + EXPIRES_IN \in Nat /\ keys.primary \in Nat
      BY <1>0
    <3>3. [session[req[r].id] EXCEPT !.expires = now + EXPIRES_IN, !.refresh = req[r].token,
                                     !.tokenKey = keys.primary] \in SessionRows
      BY <2>2, <3>1, <3>2 DEF SessionRows
    <3>4. session' \in [Sids -> SessionRows \cup {None}]
      BY <1>11, <2>2, <2>4, <3>3 DEF WriteTokens
    <3>5. [req[r] EXCEPT !.at = "serve"] \in Handlers
      BY <1>0, <2>1, HandlerMoves, HandlerType
    <3>6. QED
      BY <1>11, <2>4, <3>4, <3>5 DEF WriteTokens
  <2>5. QED
    BY <2>3, <2>4
<1>12. ASSUME NEW r \in Requests, Serve(r) PROVE SessionsTypeOK'
  <2>1. req[r] \in SessionHandlers
    BY <1>0, <1>12, AtShape DEF Serve
  <2>2. [req[r] EXCEPT !.at = "served"] \in Handlers
    BY <1>0, <2>1, HandlerMoves, HandlerType
  <2>3. QED
    BY <1>12, <2>2 DEF Serve
<1>13. ASSUME NEW r \in Requests, Drop(r) PROVE SessionsTypeOK'
  BY <1>13 DEF Drop
<1>14. ASSUME NEW r \in Requests, Answered(r) PROVE SessionsTypeOK'
  BY <1>14 DEF Answered
<1>15. ASSUME NEW s \in Sids, ProviderEnds(s) PROVE SessionsTypeOK'
  BY <1>15 DEF ProviderEnds
<1>16. CASE Tick
  BY <1>16 DEF Tick
<1>17. CASE RotateKey
  BY <1>17 DEF RotateKey
<1>18. CASE RetireKey
  BY <1>18 DEF RetireKey
<1>19. CASE UNCHANGED vars
  BY <1>19 DEF vars
<1>20. QED
  BY <1>1, <1>2, <1>3, <1>4, <1>5, <1>6, <1>7, <1>8, <1>9, <1>10, <1>11, <1>12, <1>13,
     <1>14, <1>15, <1>16, <1>17, <1>18, <1>19 DEF Next

\* Rows, tokens and handlers keep their types: a renewal never stores a token that is none.
THEOREM SessionsTyped == Spec => []SessionsTypeOK
<1>1. Init => SessionsTypeOK
  BY DEF Init, SessionsTypeOK
<1>2. QED
  BY <1>1, SessionsTypeStep, PTL DEF Spec

-----------------------------------------------------------------------------
(* Ended sessions *)

\* Only a callback inserts a row, under an id that was never used: the renewal of a
\* session that was ended meanwhile finds nothing to update.
THEOREM EndedStaysEnded == Spec => EndedIsFinal
<1>1. ASSUME SessionsTypeOK, [Next]_vars, NEW s \in Sids, opened[s] # None, session[s] = None
      PROVE  session'[s] = None
  <2> USE <1>1 DEF SessionsTypeOK
  <2>1. ASSUME NEW r \in Requests, OpenSession(r) PROVE session'[s] = None
    BY <2>1 DEF OpenSession
  <2>2. ASSUME NEW r \in Requests, WriteTokens(r) PROVE session'[s] = None
    BY <2>2 DEF WriteTokens
  <2>3. ASSUME NEW r \in Requests, Reap(r) \/ Drop(r) PROVE session'[s] = None
    BY <2>3 DEF Reap, Drop
  <2>4. QED
    BY <2>1, <2>2, <2>3
    DEF Next, vars, InsertState, ReadState, Consume, Exchange, ReadSession, Logout, Refresh,
        RefreshRaises, Serve, Answered, ProviderEnds, Tick, RotateKey, RetireKey
<1>2. SessionsTypeOK /\ [Next]_vars =>
        [\A s \in Sids : opened[s] # None /\ session[s] = None => session'[s] = None]_vars
  BY <1>1
<1>3. QED
  BY <1>2, SessionsTyped, PTL DEF Spec, EndedIsFinal

-----------------------------------------------------------------------------
(* One-time states *)

\* A state is spent in the step that deletes it, before the code is exchanged, and a new
\* one never has the id of one that was.
THEOREM StatesAreSpentOnce == Spec => []SpentStaysSpent
<1>1. Init => SpentStaysSpent
  BY DEF Init, SpentStaysSpent, At
<1>2. ASSUME SessionsTypeOK, SpentStaysSpent, [Next]_vars PROVE SpentStaysSpent'
  <2> USE <1>2 DEF SessionsTypeOK
  <2>0. \A r \in Requests, place \in InSession :
           At(r, place) => req[r] \in SessionHandlers
    BY AtShape
  <2>1. ASSUME NEW r \in Requests, Reap(r) PROVE SpentStaysSpent'
    BY <2>1 DEF Reap, SpentStaysSpent, At
  <2>2. ASSUME NEW r \in Requests, InsertState(r) PROVE SpentStaysSpent'
    BY <2>2 DEF InsertState, SpentStaysSpent, At
  <2>3. ASSUME NEW r \in Requests, NEW st \in States, ReadState(r, st) PROVE SpentStaysSpent'
    BY <2>3 DEF ReadState, SpentStaysSpent, At
  <2>4. ASSUME NEW r \in Requests, Consume(r) PROVE SpentStaysSpent'
    <3>1. req[r] \in LoginHandlers
      BY <2>4, AtShape DEF Consume, InLogin
    <3>2. QED
      BY <2>4, <3>1 DEF Consume, SpentStaysSpent, At, LoginHandlers
  <2>5. ASSUME NEW r \in Requests, Exchange(r) PROVE SpentStaysSpent'
    <3>1. req[r] \in LoginHandlers
      BY <2>5, AtShape DEF Exchange, InLogin
    <3>2. QED
      BY <2>5, <3>1 DEF Exchange, SpentStaysSpent, At, LoginHandlers
  <2>6. ASSUME NEW r \in Requests, OpenSession(r) \/ Drop(r) \/ Answered(r) \/ RefreshRaises(r)
        PROVE  SpentStaysSpent'
    BY <2>6 DEF OpenSession, Drop, Answered, RefreshRaises, SpentStaysSpent, At
  <2>7. ASSUME NEW r \in Requests, NEW s \in Sids, ReadSession(r, s) \/ Logout(r, s)
        PROVE  SpentStaysSpent'
    BY <2>7 DEF ReadSession, Logout, SpentStaysSpent, At
  <2>8. ASSUME NEW r \in Requests, Refresh(r) \/ WriteTokens(r) \/ Serve(r)
        PROVE  SpentStaysSpent'
    <3>1. req[r] \in SessionHandlers
      BY <2>0, <2>8 DEF Refresh, WriteTokens, Serve, InSession
    <3>2. \A place \in InSession, g \in Nat :
             /\ [req[r] EXCEPT !.at = place].at = place
             /\ [req[r] EXCEPT !.at = place, !.token = g].at = place
      BY <3>1 DEF SessionHandlers
    <3>3. req'[r] = None \/ req'[r].at \in InSession
      BY <2>8, <3>1, <3>2 DEF Refresh, WriteTokens, Serve, InSession, SessionHandlers
    <3>4. \A q \in Requests : q # r => req'[q] = req[q]
      BY <2>8 DEF Refresh, WriteTokens, Serve
    <3>5. UNCHANGED <<oauth, spent>>
      BY <2>8 DEF Refresh, WriteTokens, Serve
    <3>6. QED
      BY <3>3, <3>4, <3>5 DEF SpentStaysSpent, At, InSession
  <2>9. ASSUME NEW s \in Sids, ProviderEnds(s) PROVE SpentStaysSpent'
    BY <2>9 DEF ProviderEnds, SpentStaysSpent, At
  <2>10. CASE Tick \/ RotateKey \/ RetireKey \/ UNCHANGED vars
    BY <2>10 DEF Tick, RotateKey, RetireKey, vars, SpentStaysSpent, At
  <2>11. QED
    BY <2>1, <2>2, <2>3, <2>4, <2>5, <2>6, <2>7, <2>8, <2>9, <2>10 DEF Next
<1>3. QED
  BY <1>1, <1>2, SessionsTyped, PTL DEF Spec

-----------------------------------------------------------------------------
(* The absolute lifetime *)

\* A row keeps the moment of the login, and a handler that goes on with a session began
\* within its lifetime: neither depends on how often the tokens were renewed.
LifetimeInv ==
    /\ \A s \in Sids : session[s] # None => opened[s] # None /\ session[s].created = opened[s]
    /\ \A r \in Requests : \A place \in InSession : At(r, place) =>
          /\ opened[req[r].id] # None
          /\ place # "drop" => req[r].began < opened[req[r].id] + SESSION_LIFETIME

\* What a step does to the handlers of other requests, and of its own.
LEMMA OthersKeepTheirHandlers ==
  ASSUME SessionsTypeOK, LifetimeInv, NEW r \in Requests, SessionsTypeOK',
         \A q \in Requests \ {r} : req'[q] = req[q],
         \A s \in Sids : opened[s] # None => opened'[s] = opened[s],
         \A s \in Sids : session'[s] # None =>
             opened'[s] # None /\ session'[s].created = opened'[s],
         \/ req'[r] = None
         \/ req'[r].at \notin InSession
         \/ /\ req'[r].at = "drop" \/ req'[r].began < opened[req'[r].id] + SESSION_LIFETIME
            /\ opened[req'[r].id] # None /\ req'[r].id \in Sids
  PROVE  LifetimeInv'
<1> SUFFICES ASSUME NEW q \in Requests, NEW place \in InSession, At(q, place)'
             PROVE  /\ opened'[req'[q].id] # None
                    /\ place # "drop" =>
                          req'[q].began < opened'[req'[q].id] + SESSION_LIFETIME
  BY DEF LifetimeInv
<1>1. CASE q = r
  BY <1>1 DEF At
<1>2. CASE q # r
  <2>1. At(q, place) /\ req'[q] = req[q]
    BY <1>2 DEF At
  <2>2. req[q].id \in Sids
    BY <2>1, AtShape DEF SessionHandlers
  <2>3. QED
    BY <2>1, <2>2 DEF LifetimeInv
<1>3. QED
  BY <1>1, <1>2

LEMMA LifetimeStep ==
  SessionsTypeOK /\ SessionsTypeOK' /\ LifetimeInv /\ [Next]_vars => LifetimeInv'
<1> SUFFICES ASSUME SessionsTypeOK, SessionsTypeOK', LifetimeInv, [Next]_vars PROVE LifetimeInv'
  OBVIOUS
<1>1. ASSUME NEW r \in Requests, Reap(r) PROVE LifetimeInv'
  <2>1. req'[r].at \notin InSession
    BY <1>1 DEF Reap, SessionsTypeOK, InSession
  <2>2. QED
    BY <1>1, <2>1, OthersKeepTheirHandlers DEF Reap, SessionsTypeOK, LifetimeInv
<1>2. ASSUME NEW r \in Requests, InsertState(r) \/ Drop(r) \/ Answered(r) \/ RefreshRaises(r)
      PROVE  LifetimeInv'
  BY <1>2, OthersKeepTheirHandlers
  DEF InsertState, Drop, Answered, RefreshRaises, SessionsTypeOK, LifetimeInv
<1>3. ASSUME NEW r \in Requests, NEW st \in States, ReadState(r, st) PROVE LifetimeInv'
  <2>1. req'[r].at \notin InSession
    BY <1>3 DEF ReadState, SessionsTypeOK, InSession
  <2>2. QED
    BY <1>3, <2>1, OthersKeepTheirHandlers DEF ReadState, SessionsTypeOK, LifetimeInv
<1>4. ASSUME NEW r \in Requests, Consume(r) \/ Exchange(r) PROVE LifetimeInv'
  <2>1. req[r] \in LoginHandlers
    BY <1>4, AtShape DEF Consume, Exchange, InLogin
  <2>2. req'[r] = None \/ req'[r].at \notin InSession
    BY <1>4, <2>1 DEF Consume, Exchange, SessionsTypeOK, InSession, LoginHandlers
  <2>3. QED
    BY <1>4, <2>2, OthersKeepTheirHandlers DEF Consume, Exchange, SessionsTypeOK, LifetimeInv
<1>5. ASSUME NEW r \in Requests, OpenSession(r) PROVE LifetimeInv'
  <2>1. PICK s \in Sids, g \in {0, 1} :
          /\ opened[s] = None
          /\ session' = [session EXCEPT ![s] =
                 [created |-> now, expires |-> now + EXPIRES_IN, refresh |-> g,
                  tokenKey |-> keys.primary, idKey |-> keys.primary]]
          /\ opened' = [opened EXCEPT ![s] = now]
    BY <1>5 DEF OpenSession
  <2>2. opened'[s] # None
    BY <2>1, NoRowAssumption DEF SessionsTypeOK
  <2>3. req' = [req EXCEPT ![r] = None]
    BY <1>5 DEF OpenSession
  <2>4. \A e \in Sids : session'[e] # None =>
             opened'[e] # None /\ session'[e].created = opened'[e]
    BY <2>1, <2>2 DEF SessionsTypeOK, LifetimeInv
  <2>5. \A e \in Sids : opened[e] # None => opened'[e] = opened[e]
    BY <2>1 DEF SessionsTypeOK
  <2>6. QED
    BY <2>3, <2>4, <2>5, OthersKeepTheirHandlers DEF SessionsTypeOK
<1>6. ASSUME NEW r \in Requests, NEW s \in Sids, ReadSession(r, s) PROVE LifetimeInv'
  <2>1. PICK place \in {"drop", "served", "refresh"} :
          /\ place = "drop" <=> session_expired(s)
          /\ req' = [req EXCEPT ![r] =
                 [at |-> place, id |-> s, began |-> now, token |-> session[s].refresh]]
    BY <1>6 DEF ReadSession
  <2>2. session[s] # None /\ opened[s] # None /\ session[s].created = opened[s]
        /\ opened[s] \in Nat
    BY <1>6 DEF ReadSession, Readable, LifetimeInv, SessionsTypeOK
  <2>3. place = "drop" \/ now < opened[s] + SESSION_LIFETIME
    BY <2>1, <2>2, LifetimesAssumption DEF session_expired, SessionsTypeOK
  <2>4. /\ req'[r].at = place /\ req'[r].id = s /\ req'[r].began = now
        /\ \A q \in Requests \ {r} : req'[q] = req[q]
    BY <2>1 DEF SessionsTypeOK
  <2>5. UNCHANGED <<opened, session>>
    BY <1>6 DEF ReadSession
  <2>6. QED
    BY <2>2, <2>3, <2>4, <2>5, OthersKeepTheirHandlers DEF LifetimeInv
<1>7. ASSUME NEW r \in Requests, NEW s \in Sids, Logout(r, s) PROVE LifetimeInv'
  <2>1. /\ req'[r].at = "drop" /\ req'[r].id = s
        /\ \A q \in Requests \ {r} : req'[q] = req[q]
    BY <1>7 DEF Logout, SessionsTypeOK
  <2>2. opened[s] # None /\ UNCHANGED <<opened, session>>
    BY <1>7 DEF Logout, Readable, LifetimeInv
  <2>3. QED
    BY <2>1, <2>2, OthersKeepTheirHandlers DEF LifetimeInv
<1>8. ASSUME NEW r \in Requests, Refresh(r) \/ WriteTokens(r) \/ Serve(r) PROVE LifetimeInv'
  <2>1. PICK place \in {"refresh", "write", "serve"} : At(r, place)
    BY <1>8 DEF Refresh, WriteTokens, Serve
  <2>2. req[r] \in SessionHandlers
    BY <2>1, AtShape DEF InSession
  <2>3. /\ opened[req[r].id] # None
        /\ req[r].began < opened[req[r].id] + SESSION_LIFETIME
    BY <2>1 DEF LifetimeInv, InSession
  <2>4. \/ req'[r] = None
        \/ req'[r].id = req[r].id /\ req'[r].began = req[r].began
    BY <1>8, <2>2 DEF Refresh, WriteTokens, Serve, SessionHandlers, SessionsTypeOK
  <2>5. /\ \A q \in Requests \ {r} : req'[q] = req[q]
        /\ UNCHANGED opened
    BY <1>8 DEF Refresh, WriteTokens, Serve, SessionsTypeOK
  <2>6. \A s \in Sids : session'[s] # None =>
           session[s] # None /\ session'[s].created = session[s].created
    <3>1. CASE Refresh(r) \/ Serve(r)
      BY <3>1 DEF Refresh, Serve
    <3>2. CASE WriteTokens(r) /\ session[req[r].id] = None
      BY <3>2 DEF WriteTokens
    <3>3. CASE WriteTokens(r) /\ session[req[r].id] # None
      <4>1. session[req[r].id] \in SessionRows
        BY <2>2, <3>3 DEF SessionsTypeOK, SessionHandlers
      <4> DEFINE new == [session[req[r].id] EXCEPT !.expires = now + EXPIRES_IN,
                                                   !.refresh = req[r].token,
                                                   !.tokenKey = keys.primary]
      <4>2. session' = [session EXCEPT ![req[r].id] = new]
        BY <3>3 DEF WriteTokens
      <4>3. session'[req[r].id].created = session[req[r].id].created
        BY <2>2, <4>1, <4>2 DEF SessionRows, SessionHandlers, SessionsTypeOK
      <4>4. QED
        BY <3>3, <4>2, <4>3 DEF SessionsTypeOK
    <3>4. QED
      BY <1>8, <3>1, <3>2, <3>3
  <2>7. QED
    BY <2>2, <2>3, <2>4, <2>5, <2>6, OthersKeepTheirHandlers DEF LifetimeInv, SessionHandlers
<1>9. ASSUME NEW s \in Sids, ProviderEnds(s) PROVE LifetimeInv'
  BY <1>9 DEF ProviderEnds, LifetimeInv, At
<1>10. CASE Tick \/ RotateKey \/ RetireKey \/ UNCHANGED vars
  BY <1>10 DEF Tick, RotateKey, RetireKey, vars, LifetimeInv, At
<1>11. QED
  BY <1>1, <1>2, <1>3, <1>4, <1>5, <1>6, <1>7, <1>8, <1>9, <1>10 DEF Next

LEMMA LifetimeHolds == Spec => []LifetimeInv
<1>1. Init => LifetimeInv
  BY DEF Init, LifetimeInv, At
<1>2. QED
  BY <1>1, LifetimeStep, SessionsTyped, PTL DEF Spec

\* Whatever is renewed, by whichever request and however often, the moment of the login
\* bounds what is served.
THEOREM LifetimeIsAbsolute == Spec => []AbsoluteLifetime
<1>1. LifetimeInv => AbsoluteLifetime
  BY DEF LifetimeInv, AbsoluteLifetime, InSession
<1>2. QED
  BY <1>1, LifetimeHolds, PTL

-----------------------------------------------------------------------------
(* Sessions that nothing disturbs *)

\* A request that may go on to renew or to delete the session.
Concerns(q, s) == req[q] # None /\ req[q].at \in {"refresh", "write", "drop"} /\ req[q].id = s

\* One request at a time renews the session, it holds the token that the identity provider
\* accepts, and while none has got a newer one the row holds it as well.
Renewable(s) ==
    /\ session[s] # None
    /\ \A q \in Requests : Concerns(q, s) =>
          /\ req[q].at # "drop"
          /\ req[q].token = latest[s] /\ latest[s] # 0
          /\ \A p \in Requests : Concerns(p, s) => p = q
    /\ (\A q \in Requests : Concerns(q, s) => req[q].at = "refresh")
          => session[s].refresh = latest[s]

Undisturbed(s) ==
    /\ opened[s] # None /\ s \notin disturbed
    /\ ~(opened[s] + SESSION_LIFETIME <= now)

RenewalInv == \A s \in Sids : Undisturbed(s) => Renewable(s)

\* A step that leaves a session's row, token and requests alone.
LEMMA Elsewhere ==
  ASSUME NEW s \in Sids, Undisturbed(s) => Renewable(s), Undisturbed(s)',
         opened[s] # None /\ s \notin disturbed' => Undisturbed(s),
         opened'[s] = opened[s], session'[s] = session[s], latest'[s] = latest[s],
         disturbed \subseteq disturbed',
         \A q \in Requests : \/ req'[q] = req[q]
                            \/ (~Concerns(q, s) /\ ~Concerns(q, s)')
  PROVE  Renewable(s)'
<1>1. Renewable(s)
  BY DEF Undisturbed
<1>2. \A q \in Requests : Concerns(q, s)' => Concerns(q, s) /\ req'[q] = req[q]
  BY DEF Concerns
<1>3. \A q \in Requests : Concerns(q, s) => Concerns(q, s)' /\ req'[q] = req[q]
  BY DEF Concerns
<1>4. QED
  BY <1>1, <1>2, <1>3 DEF Renewable

LEMMA RenewalStep ==
  SessionsTypeOK /\ SessionsTypeOK' /\ LifetimeInv /\ RenewalInv /\ [Next]_vars => RenewalInv'
<1> SUFFICES ASSUME SessionsTypeOK, SessionsTypeOK', LifetimeInv, RenewalInv, [Next]_vars,
                    NEW s \in Sids, Undisturbed(s)'
             PROVE  Renewable(s)'
  BY DEF RenewalInv
<1>0. /\ Undisturbed(s) => Renewable(s)
      /\ now \in Nat /\ now' \in Nat /\ opened[s] \in Nat \cup {None}
      /\ SESSION_LIFETIME \in Nat
  BY LifetimesAssumption DEF RenewalInv, SessionsTypeOK
<1> DEFINE Same == /\ opened'[s] = opened[s] /\ session'[s] = session[s]
                   /\ latest'[s] = latest[s] /\ disturbed \subseteq disturbed'
           Clock == UNCHANGED now
<1>1. ASSUME Same, Clock, NEW r \in Requests, \A q \in Requests \ {r} : req'[q] = req[q],
             ~Concerns(r, s), ~Concerns(r, s)'
      PROVE  Renewable(s)'
  <2>1. Undisturbed(s)
    BY <1>1 DEF Undisturbed
  <2>2. \A q \in Requests : req'[q] = req[q] \/ (~Concerns(q, s) /\ ~Concerns(q, s)')
    <3> TAKE q \in Requests
    <3>1. CASE q = r
      BY <1>1, <3>1 DEF Concerns
    <3>2. CASE q # r
      BY <1>1, <3>2
    <3>3. QED
      BY <3>1, <3>2
  <2>3. QED
    BY <1>0, <1>1, <2>1, <2>2, Elsewhere
<1>2. ASSUME NEW r \in Requests, Reap(r) PROVE Renewable(s)'
  <2>1. Undisturbed(s)
    BY <1>2 DEF Reap, Undisturbed
  <2>2. session[s] # None /\ session[s].created = opened[s] /\ opened[s] \in Nat
    BY <1>0, <2>1, NoRowAssumption DEF Renewable, LifetimeInv, Undisturbed
  <2>3. session'[s] = session[s]
    BY <1>0, <1>2, <2>1, <2>2 DEF Reap, Undisturbed
  <2>4. Same /\ Clock
    BY <1>2, <2>3 DEF Reap
  <2>5. \A q \in Requests \ {r} : req'[q] = req[q]
    BY <1>2 DEF Reap, SessionsTypeOK
  <2>6. ~Concerns(r, s)
    BY <1>2 DEF Reap, Concerns, Idle
  <2>7. ~Concerns(r, s)'
    BY <1>2 DEF Reap, Concerns, SessionsTypeOK
  <2>8. QED
    BY <1>1, <2>4, <2>5, <2>6, <2>7
<1>3. ASSUME NEW r \in Requests, InsertState(r) PROVE Renewable(s)'
  <2>1. \A q \in Requests \ {r} : req'[q] = req[q]
    BY <1>3 DEF InsertState, SessionsTypeOK
  <2>2. ~Concerns(r, s)
    BY <1>3 DEF InsertState, Concerns, At
  <2>3. ~Concerns(r, s)'
    BY <1>3 DEF InsertState, Concerns, SessionsTypeOK
  <2>4. QED
    BY <1>1, <1>3, <2>1, <2>2, <2>3 DEF InsertState
<1>4. ASSUME NEW r \in Requests, NEW st \in States, ReadState(r, st) PROVE Renewable(s)'
  <2>1. \A q \in Requests \ {r} : req'[q] = req[q]
    BY <1>4 DEF ReadState, SessionsTypeOK
  <2>2. ~Concerns(r, s)
    BY <1>4 DEF ReadState, Concerns, Idle
  <2>3. ~Concerns(r, s)'
    BY <1>4 DEF ReadState, Concerns, SessionsTypeOK
  <2>4. QED
    BY <1>1, <1>4, <2>1, <2>2, <2>3 DEF ReadState
<1>5. ASSUME NEW r \in Requests, Consume(r) \/ Exchange(r) PROVE Renewable(s)'
  <2>1. req[r] \in LoginHandlers
    BY <1>5, AtShape DEF Consume, Exchange, InLogin
  <2>2. \A q \in Requests \ {r} : req'[q] = req[q]
    BY <1>5 DEF Consume, Exchange, SessionsTypeOK
  <2>3. ~Concerns(r, s)
    BY <1>5, <2>1 DEF Consume, Exchange, Concerns, LoginHandlers, InLogin
  <2>4. ~Concerns(r, s)'
    BY <1>5, <2>1 DEF Consume, Exchange, Concerns, SessionsTypeOK, LoginHandlers, InLogin
  <2>5. QED
    BY <1>1, <1>5, <2>2, <2>3, <2>4 DEF Consume, Exchange
<1>6. ASSUME NEW r \in Requests, OpenSession(r) PROVE Renewable(s)'
  <2>1. PICK e \in Sids, g \in {0, 1} :
          /\ opened[e] = None
          /\ session' = [session EXCEPT ![e] =
                 [created |-> now, expires |-> now + EXPIRES_IN, refresh |-> g,
                  tokenKey |-> keys.primary, idKey |-> keys.primary]]
          /\ opened' = [opened EXCEPT ![e] = now]
          /\ latest' = [latest EXCEPT ![e] = g]
    BY <1>6 DEF OpenSession
  <2>2. /\ \A q \in Requests \ {r} : req'[q] = req[q]
        /\ ~Concerns(r, s)
        /\ req'[r] = None
    BY <1>6 DEF OpenSession, At, Concerns, SessionsTypeOK
  <2>3. CASE e # s
    <3>1. ~Concerns(r, s)'
      BY <2>2 DEF Concerns
    <3>2. Same /\ Clock
      BY <1>6, <2>1, <2>3 DEF OpenSession, SessionsTypeOK
    <3>3. QED
      BY <1>1, <2>2, <3>1, <3>2
  <2>4. CASE e = s
    <3>1. \A q \in Requests : ~Concerns(q, s)
      BY <2>1, <2>4 DEF Concerns, LifetimeInv, At, InSession
    <3>2. \A q \in Requests : ~Concerns(q, s)'
      BY <2>2, <3>1 DEF Concerns
    <3>3. session'[s] # None
      <4>1. [created |-> now, expires |-> now + EXPIRES_IN, refresh |-> g,
             tokenKey |-> keys.primary, idKey |-> keys.primary] \in SessionRows
        BY LifetimesAssumption DEF SessionRows, SessionsTypeOK
      <4>2. QED
        BY <2>1, <2>4, <4>1, NoRowAssumption DEF SessionsTypeOK
    <3>4. session'[s].refresh = latest'[s]
      BY <2>1, <2>4 DEF SessionsTypeOK
    <3>5. QED
      BY <3>2, <3>3, <3>4 DEF Renewable
  <2>5. QED
    BY <2>3, <2>4
<1>7. ASSUME NEW r \in Requests, NEW e \in Sids, ReadSession(r, e) PROVE Renewable(s)'
  <2>1. PICK place \in {"drop", "served", "refresh"} :
          /\ place = "drop" <=> session_expired(e)
          /\ place = "refresh" => session[e].refresh # 0
          /\ req' = [req EXCEPT ![r] =
                 [at |-> place, id |-> e, began |-> now, token |-> session[e].refresh]]
          /\ disturbed' = IF place = "refresh" /\ Renewing(e) # {} THEN disturbed \cup {e}
                          ELSE disturbed
    BY <1>7 DEF ReadSession
  <2>2. /\ \A q \in Requests \ {r} : req'[q] = req[q]
        /\ req'[r] = [at |-> place, id |-> e, began |-> now, token |-> session[e].refresh]
        /\ ~Concerns(r, s)
    BY <1>7, <2>1 DEF ReadSession, Idle, Concerns, SessionsTypeOK
  <2>3. Same /\ Clock
    BY <1>7, <2>1 DEF ReadSession
  <2>4. CASE e # s \/ place = "served"
    <3>1. ~Concerns(r, s)'
      BY <2>2, <2>4 DEF Concerns
    <3>2. QED
      BY <1>1, <2>2, <2>3, <3>1
  <2>5. CASE e = s /\ place = "drop"
    <3>1. session[s].created + SESSION_LIFETIME <= now
      BY <2>1, <2>5 DEF session_expired
    <3>2. session[s] # None
      BY <1>7, <2>5 DEF ReadSession, Readable
    <3>3. QED
      BY <2>3, <3>1, <3>2 DEF LifetimeInv, Undisturbed
  <2>6. CASE e = s /\ place = "refresh"
    <3>1. Renewing(s) = {}
      BY <2>1, <2>6 DEF Undisturbed
    <3>2. Renewable(s)
      BY <1>0, <2>3 DEF Undisturbed
    <3>3. \A q \in Requests : ~Concerns(q, s)
      BY <3>1, <3>2 DEF Renewing, Concerns, Renewable
    <3>4. session[s].refresh = latest[s] /\ session[s] # None /\ latest[s] # 0
      BY <2>1, <2>6, <3>2, <3>3 DEF Renewable
    <3>5. \A q \in Requests : Concerns(q, s)' => q = r
      BY <2>2, <3>3 DEF Concerns
    <3>6. req'[r].at = "refresh" /\ req'[r].token = latest'[s]
      BY <2>2, <2>3, <2>6, <3>4
    <3>7. QED
      BY <2>3, <3>4, <3>5, <3>6 DEF Renewable
  <2>7. QED
    BY <2>4, <2>5, <2>6
<1>8. ASSUME NEW r \in Requests, NEW e \in Sids, Logout(r, e) PROVE Renewable(s)'
  <2>1. e # s
    BY <1>8 DEF Logout, Undisturbed
  <2>2. \A q \in Requests \ {r} : req'[q] = req[q]
    BY <1>8 DEF Logout, SessionsTypeOK
  <2>3. ~Concerns(r, s)
    BY <1>8, <2>1 DEF Logout, Concerns, Idle
  <2>4. ~Concerns(r, s)'
    BY <1>8, <2>1 DEF Logout, Concerns, SessionsTypeOK
  <2>5. QED
    BY <1>1, <1>8, <2>2, <2>3, <2>4 DEF Logout
<1>9. ASSUME NEW r \in Requests, Refresh(r) PROVE Renewable(s)'
  <2>1. req[r] \in SessionHandlers /\ req[r].at = "refresh" /\ req[r] # None
    BY <1>9, AtShape DEF Refresh, InSession, At
  <2>2. CASE req[r].id # s
    <3>1. req'[r].id # s
      BY <1>9, <2>1, <2>2 DEF Refresh, SessionHandlers, SessionsTypeOK
    <3>2. /\ \A q \in Requests \ {r} : req'[q] = req[q]
          /\ ~Concerns(r, s)
      BY <1>9, <2>2 DEF Refresh, Concerns, SessionsTypeOK
    <3> ~Concerns(r, s)'
      BY <3>1 DEF Concerns
    <3>3. latest'[s] = latest[s]
      BY <1>9, <2>2 DEF Refresh, SessionsTypeOK
    <3>4. QED
      BY <1>1, <1>9, <3>2, <3>3 DEF Refresh
  <2>3. CASE req[r].id = s
    <3>1. Renewable(s)
      BY <1>0, <1>9 DEF Refresh, Undisturbed
    <3>2. Concerns(r, s) /\ latest[s] # 0 /\ req[r].token = latest[s]
      BY <2>1, <2>3, <3>1 DEF Concerns, Renewable
    <3>3. /\ latest' = [latest EXCEPT ![s] = IF Rotating THEN @ + 1 ELSE @]
          /\ req' = [req EXCEPT ![r].at = "write", ![r].token = latest'[s]]
      BY <1>9, <2>3, <3>2 DEF Refresh
    <3>4. req'[r].at = "write" /\ req'[r].token = latest'[s] /\ req'[r].id = s
      BY <2>1, <2>3, <3>3 DEF SessionHandlers, SessionsTypeOK
    <3>10. req'[r] # None
      <4>1. req'[r] = [req[r] EXCEPT !.at = "write", !.token = latest'[s]]
        BY <3>3 DEF SessionsTypeOK
      <4>2. latest'[s] \in Nat
        BY DEF SessionsTypeOK
      <4>3. req'[r] \in Handlers
        BY <2>1, <4>1, <4>2, HandlerMoves, HandlerType DEF InSession
      <4>4. QED
        BY <4>3, NoRowAssumption
    <3>5. latest'[s] # 0
      BY <3>2, <3>3 DEF SessionsTypeOK
    <3>6. \A q \in Requests : Concerns(q, s)' => q = r
      BY <3>1, <3>2, <3>3 DEF Renewable, Concerns, SessionsTypeOK
    <3>7. session'[s] # None
      BY <1>9, <3>1 DEF Refresh, Renewable
    <3>8. Concerns(r, s)' /\ req'[r].at # "refresh"
      BY <3>4, <3>10 DEF Concerns
    <3>9. QED
      BY <3>4, <3>5, <3>6, <3>7, <3>8 DEF Renewable
  <2>4. QED
    BY <2>2, <2>3
<1>10. ASSUME NEW r \in Requests, RefreshRaises(r) PROVE Renewable(s)'
  <2>1. req[r].id # s
    BY <1>10 DEF RefreshRaises, Undisturbed
  <2>2. /\ \A q \in Requests \ {r} : req'[q] = req[q]
        /\ ~Concerns(r, s)
    BY <1>10, <2>1 DEF RefreshRaises, Concerns, SessionsTypeOK
  <2> ~Concerns(r, s)'
    BY <1>10 DEF RefreshRaises, Concerns, SessionsTypeOK
  <2>3. latest'[s] = latest[s]
    BY <1>10, <2>1 DEF RefreshRaises, SessionsTypeOK
  <2>4. QED
    BY <1>1, <1>10, <2>2, <2>3 DEF RefreshRaises
<1>11. ASSUME NEW r \in Requests, WriteTokens(r) PROVE Renewable(s)'
  <2>1. req[r] \in SessionHandlers /\ req[r].at = "write" /\ req[r] # None
    BY <1>11, AtShape DEF WriteTokens, InSession, At
  <2>2. \A q \in Requests \ {r} : req'[q] = req[q]
    BY <1>11 DEF WriteTokens, SessionsTypeOK
  <2>3. ~Concerns(r, s)'
    BY <1>11, <2>1 DEF WriteTokens, Concerns, SessionsTypeOK, SessionHandlers
  <2>4. CASE req[r].id # s
    <3>1. ~Concerns(r, s)
      BY <2>4 DEF Concerns
    <3>2. session'[s] = session[s]
      BY <1>11, <2>4 DEF WriteTokens, SessionsTypeOK
    <3>3. Same /\ Clock
      BY <1>11, <3>2 DEF WriteTokens
    <3>4. QED
      BY <1>1, <2>2, <2>3, <3>1, <3>3
  <2>5. CASE req[r].id = s
    <3>1. Renewable(s)
      BY <1>0, <1>11 DEF WriteTokens, Undisturbed
    <3>2. Concerns(r, s) /\ req[r].token = latest[s]
      BY <2>1, <2>5, <3>1 DEF Concerns, Renewable
    <3>3. session[s] \in SessionRows
      BY <3>1 DEF Renewable, SessionsTypeOK
    <3> DEFINE new == [session[s] EXCEPT !.expires = now + EXPIRES_IN, !.refresh = req[r].token,
                                         !.tokenKey = keys.primary]
    <3>4. session' = [session EXCEPT ![s] = new]
      BY <1>11, <2>5, <3>1 DEF WriteTokens, Renewable
    <3>5. new.refresh = req[r].token
      BY <3>3 DEF SessionRows
    <3>6. session'[s].refresh = latest'[s]
      BY <1>11, <3>2, <3>4, <3>5 DEF SessionsTypeOK, WriteTokens
    <3>7. session'[s] # None
      <4>2. new \in SessionRows
        <5>1. now + EXPIRES_IN \in Nat /\ keys.primary \in Nat /\ req[r].token \in Nat
          BY <2>1, LifetimesAssumption DEF SessionHandlers, SessionsTypeOK
        <5>2. QED
          BY <3>3, <5>1 DEF SessionRows
      <4>3. QED
        BY <3>4, <4>2, NoRowAssumption DEF SessionsTypeOK
    <3>8. \A q \in Requests : ~Concerns(q, s)'
      BY <2>2, <2>3, <3>1, <3>2 DEF Renewable, Concerns
    <3>9. QED
      BY <3>6, <3>7, <3>8 DEF Renewable
  <2>6. QED
    BY <2>4, <2>5
<1>12. ASSUME NEW r \in Requests, Serve(r) \/ Answered(r) PROVE Renewable(s)'
  <2>1. req[r] \in SessionHandlers /\ req[r].at \in {"serve", "served"} /\ req[r] # None
    BY <1>12, AtShape DEF Serve, Answered, InSession, At
  <2>2. \A q \in Requests \ {r} : req'[q] = req[q]
    BY <1>12 DEF Serve, Answered, SessionsTypeOK
  <2>3. ~Concerns(r, s)
    BY <1>12, <2>1 DEF Serve, Answered, Concerns, SessionHandlers
  <2>4. ~Concerns(r, s)'
    BY <1>12, <2>1 DEF Serve, Answered, Concerns, SessionsTypeOK, SessionHandlers
  <2>5. QED
    BY <1>1, <1>12, <2>2, <2>3, <2>4 DEF Serve, Answered
<1>13. ASSUME NEW r \in Requests, Drop(r) PROVE Renewable(s)'
  <2>1. req[r].at = "drop" /\ req[r] # None
    BY <1>13 DEF Drop, At
  <2>2. req[r].id # s
    BY <1>0, <1>13, <2>1 DEF Drop, Undisturbed, Renewable, Concerns
  <2>3. /\ \A q \in Requests \ {r} : req'[q] = req[q]
        /\ ~Concerns(r, s)
    BY <1>13, <2>2 DEF Drop, Concerns, SessionsTypeOK
  <2> ~Concerns(r, s)'
    BY <1>13 DEF Drop, Concerns, SessionsTypeOK
  <2>4. session'[s] = session[s]
    BY <1>13, <2>2 DEF Drop, SessionsTypeOK
  <2>5. QED
    BY <1>1, <1>13, <2>3, <2>4 DEF Drop
<1>14. ASSUME NEW e \in Sids, ProviderEnds(e) PROVE Renewable(s)'
  <2>1. e # s
    BY <1>14 DEF ProviderEnds, Undisturbed
  <2>2. latest'[s] = latest[s]
    BY <1>14, <2>1 DEF ProviderEnds, SessionsTypeOK
  <2>3. Undisturbed(s) /\ opened' = opened /\ session' = session /\ req' = req
    BY <1>14 DEF ProviderEnds, Undisturbed
  <2>4. QED
    BY <1>0, <2>2, <2>3 DEF Renewable, Concerns
<1>15. CASE Tick
  <2>1. Undisturbed(s)
    BY <1>0, <1>15, NoRowAssumption DEF Tick, Undisturbed
  <2>2. QED
    BY <1>0, <1>15, <2>1 DEF Tick, Renewable, Concerns
<1>16. CASE RotateKey \/ RetireKey \/ UNCHANGED vars
  <2>1. Undisturbed(s) /\ UNCHANGED <<session, latest, req>>
    BY <1>16 DEF RotateKey, RetireKey, vars, Undisturbed
  <2>2. QED
    BY <1>0, <2>1 DEF Renewable, Concerns
<1>17. QED
  BY <1>2, <1>3, <1>4, <1>5, <1>6, <1>7, <1>8, <1>9, <1>10, <1>11, <1>12, <1>13, <1>14,
     <1>15, <1>16 DEF Next

\* Renewals one after another never present a token that was used: a session that ends
\* early was logged out, ended by the identity provider, renewed twice at once, or lost
\* the answer to a renewal.
THEOREM SessionsAreKept == Spec => []KeptUnlessDisturbed
<1>1. Init => RenewalInv
  BY DEF Init, RenewalInv, Undisturbed
<1>2. RenewalInv => KeptUnlessDisturbed
  BY DEF RenewalInv, KeptUnlessDisturbed, Undisturbed, Renewable
<1>3. QED
  BY <1>1, <1>2, RenewalStep, LifetimeHolds, SessionsTyped, PTL DEF Spec

=============================================================================
