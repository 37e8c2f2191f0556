------------------------------- MODULE Sessions -------------------------------
(***************************************************************************)
(* Browser sessions of ingestion-api (routes/auth.py, deps.py): the login  *)
(* with its one-time OAuth state, requests that read the session row and   *)
(* renew its tokens at the identity provider without any lock, logout, the *)
(* sweep that every login makes, and the rotation of the key the tokens    *)
(* are encrypted with.  Handlers run side by side; each of their           *)
(* transactions is a step.                                                 *)
(*                                                                         *)
(* A refresh token is the number of its generation.  With Rotating the     *)
(* identity provider accepts the latest one only.  Ids are random, so a    *)
(* state or a session id is never given out twice.  A request that is      *)
(* refused without changing any state is left out.                         *)
(***************************************************************************)
EXTENDS Integers, FiniteSets

CONSTANTS
    States,            \* ids of oauth_states rows
    Sids,              \* ids of user_sessions rows
    Requests,          \* requests under way, one at a time each
    SESSION_LIFETIME,  \* absolute, from login
    OAUTH_STATE_TTL,
    EXPIRES_IN,        \* lifetime of an access token
    Rotating,          \* whether a refresh token can be used once only
    None,              \* no row, no request
    MaxTime,           \* bound: how far the clock goes
    MaxRotations,      \* bound: how often the encryption key is rotated
    MaxFailures,       \* bound: token calls that raise, or lose their answer
    MaxRenewals        \* bound: refresh tokens per session

ASSUME LifetimesAssumption ==
    /\ {SESSION_LIFETIME, OAUTH_STATE_TTL, EXPIRES_IN} \subseteq Nat \ {0}
    /\ {MaxTime, MaxRotations, MaxFailures, MaxRenewals} \subseteq Nat
    /\ Rotating \in BOOLEAN

VARIABLES
    now,
    oauth,     \* created_at of each oauth_states row
    spent,     \* states that a callback has decided about, or that were swept
    session,   \* the user_sessions rows
    opened,    \* when each session was created; never forgotten
    latest,    \* the generation of refresh token the identity provider accepts
    keys,      \* encryption keys: the primary one, and whether the previous one is still accepted
    failures,  \* token calls that failed so far
    disturbed, \* sessions that lost a row or a token for a reason of their own
    req        \* what each request has read and does next

vars == <<now, oauth, spent, session, opened, latest, keys, failures, disturbed, req>>

\* created_at and expires_at; the refresh token; the keys its columns are encrypted with.
\* 0 is the absence of a refresh token.
SessionRows ==
    [created : Nat, expires : Nat, refresh : Nat, tokenKey : Nat, idKey : Nat]

\* The places of login, of callback, of a request in a session, and of logout.
Handlers ==
    [at : {"insert"}]
    \cup [at : {"consume", "exchange", "open"}, id : States, expired : BOOLEAN]
    \cup [at : {"refresh", "write", "drop", "serve", "served"}, id : Sids,
          began : Nat, token : Nat]

ASSUME NoRowAssumption == None \notin Nat /\ None \notin SessionRows /\ None \notin Handlers

Init ==
    /\ now = 0
    /\ oauth = [st \in States |-> None]
    /\ spent = {}
    /\ session = [s \in Sids |-> None]
    /\ opened = [s \in Sids |-> None]
    /\ latest = [s \in Sids |-> 0]
    /\ keys = [primary |-> 0, previous |-> FALSE]
    /\ failures = 0
    /\ disturbed = {}
    /\ req = [r \in Requests |-> None]

Idle(r) == req[r] = None
At(r, place) == req[r] # None /\ req[r].at = place

\* Every column can be decrypted with the primary or the previous key.
Readable(s) ==
    /\ session[s] # None
    /\ {session[s].tokenKey, session[s].idKey}
           \subseteq {keys.primary} \cup (IF keys.previous THEN {keys.primary - 1} ELSE {})

-----------------------------------------------------------------------------
(* routes/auth.py: login and callback *)

\* _purge_expired: in SQL, strictly older than the lifetime.
Reap(r) ==
    LET stale == {st \in States : oauth[st] # None /\ oauth[st] < now - OAUTH_STATE_TTL}
    IN  /\ Idle(r)
        /\ oauth' = [st \in States |-> IF st \in stale THEN None ELSE oauth[st]]
        /\ spent' = spent \cup stale
        /\ session' = [s \in Sids |->
               IF session[s] # None /\ session[s].created < now - SESSION_LIFETIME
               THEN None ELSE session[s]]
        /\ req' = [req EXCEPT ![r] = [at |-> "insert"]]
        /\ UNCHANGED <<now, opened, latest, keys, failures, disturbed>>

InsertState(r) ==
    /\ At(r, "insert")
    /\ \E st \in States \ spent :
          /\ oauth[st] = None
          /\ oauth' = [oauth EXCEPT ![st] = now]
    /\ req' = [req EXCEPT ![r] = None]
    /\ UNCHANGED <<now, spent, session, opened, latest, keys, failures, disturbed>>

\* The state of the request is the one of the browser's cookie.
ReadState(r, st) ==
    /\ Idle(r) /\ oauth[st] # None
    /\ req' = [req EXCEPT ![r] =
           [at |-> "consume", id |-> st, expired |-> oauth[st] + OAUTH_STATE_TTL <= now]]
    /\ UNCHANGED <<now, oauth, spent, session, opened, latest, keys, failures, disturbed>>

\* Mutant of Consume: an expired state is refused without being deleted.
ConsumeValid(r) ==
    /\ At(r, "consume")
    /\ IF req[r].expired
       THEN /\ req' = [req EXCEPT ![r] = None]
            /\ UNCHANGED oauth
       ELSE /\ oauth' = [oauth EXCEPT ![req[r].id] = None]
            /\ req' = [req EXCEPT ![r].at = "exchange"]
    /\ spent' = spent \cup {req[r].id}
    /\ UNCHANGED <<now, session, opened, latest, keys, failures, disturbed>>

\* The DELETE of a row another request has deleted is not an error, so two
\* callbacks that have read one state both go on.
Consume(r) ==
    /\ At(r, "consume")
    /\ oauth' = [oauth EXCEPT ![req[r].id] = None]
    /\ spent' = spent \cup {req[r].id}
    /\ req' = [req EXCEPT ![r] = IF req[r].expired THEN None ELSE [req[r] EXCEPT !.at = "exchange"]]
    /\ UNCHANGED <<now, session, opened, latest, keys, failures, disturbed>>

\* The identity provider accepts the code, or the handler ends with an error.
Exchange(r) ==
    /\ At(r, "exchange")
    /\ \/ req' = [req EXCEPT ![r].at = "open"]
       \/ req' = [req EXCEPT ![r] = None]
    /\ UNCHANGED <<now, oauth, spent, session, opened, latest, keys, failures, disturbed>>

OpenSession(r) ==
    /\ At(r, "open")
    /\ \E s \in Sids, g \in {0, 1} :
          /\ opened[s] = None
          /\ session' = [session EXCEPT ![s] =
                 [created |-> now, expires |-> now + EXPIRES_IN, refresh |-> g,
                  tokenKey |-> keys.primary, idKey |-> keys.primary]]
          /\ opened' = [opened EXCEPT ![s] = now]
          /\ latest' = [latest EXCEPT ![s] = g]
    /\ req' = [req EXCEPT ![r] = None]
    /\ UNCHANGED <<now, oauth, spent, keys, failures, disturbed>>

-----------------------------------------------------------------------------
(* deps.py: a request in a session *)

\* Requests that hold a refresh token they read from the row.
Renewing(s) == {r \in Requests : req[r] # None /\ req[r].at \in {"refresh", "write"} /\ req[r].id = s}

session_expired(s) == session[s].created + SESSION_LIFETIME <= now

\* _claims_from_session and get_current_access_token: what is done with the row
\* is decided where it is read. A token that has not expired by the row's clock
\* may still be refused by parse_claims, and is then renewed.
ReadSession(r, s) ==
    /\ Idle(r) /\ Readable(s)
    /\ \E place \in {"drop", "served", "refresh"} :
          /\ place = "drop" <=> session_expired(s)
          /\ place = "served" => session[s].expires > now
          /\ place = "refresh" => session[s].refresh # 0
          /\ req' = [req EXCEPT ![r] =
                 [at |-> place, id |-> s, began |-> now, token |-> session[s].refresh]]
          /\ disturbed' = IF place = "refresh" /\ Renewing(s) # {} THEN disturbed \cup {s}
                          ELSE disturbed
    /\ UNCHANGED <<now, oauth, spent, session, opened, latest, keys, failures>>

\* The identity provider's verdict on the refresh token. Anything but a 200 ends
\* the session.
Refresh(r) ==
    LET s == req[r].id IN
    /\ At(r, "refresh")
    /\ IF latest[s] # 0 /\ (Rotating => req[r].token = latest[s])
       THEN /\ latest[s] < MaxRenewals
            /\ latest' = [latest EXCEPT ![s] = IF Rotating THEN @ + 1 ELSE @]
            /\ req' = [req EXCEPT ![r].at = "write", ![r].token = latest'[s]]
       ELSE /\ req' = [req EXCEPT ![r].at = "drop"]
            /\ UNCHANGED latest
    /\ UNCHANGED <<now, oauth, spent, session, opened, keys, failures, disturbed>>

\* The call raises: it never arrived, or its answer was lost; or the process
\* dies with the answer in its hands. The row is left as it is.
RefreshRaises(r) ==
    /\ At(r, "refresh") \/ At(r, "write")
    /\ failures < MaxFailures
    /\ failures' = failures + 1
    /\ latest' \in {latest, [latest EXCEPT ![req[r].id] =
                                IF Rotating /\ At(r, "refresh") /\ req[r].token = @ THEN @ + 1 ELSE @]}
    /\ disturbed' = disturbed \cup {req[r].id}
    /\ req' = [req EXCEPT ![r] = None]
    /\ UNCHANGED <<now, oauth, spent, session, opened, keys>>

\* Mutants of WriteTokens: a merge that inserts a row that is gone; the renewal
\* starts the lifetime again; the new refresh token is not kept.
WriteRow(r, row, created, refresh) ==
    /\ session' = [session EXCEPT ![req[r].id] =
           [row EXCEPT !.created = created, !.expires = now + EXPIRES_IN, !.refresh = refresh,
                       !.tokenKey = keys.primary]]
    /\ req' = [req EXCEPT ![r].at = "serve"]
    /\ UNCHANGED <<now, oauth, spent, opened, latest, keys, failures, disturbed>>

MergeTokens(r) ==
    /\ At(r, "write")
    /\ WriteRow(r, [created |-> opened[req[r].id], expires |-> 0, refresh |-> 0,
                    tokenKey |-> 0, idKey |-> keys.primary], opened[req[r].id], req[r].token)

SlideLifetime(r) ==
    /\ At(r, "write") /\ session[req[r].id] # None
    /\ WriteRow(r, session[req[r].id], now, req[r].token)

ForgetToken(r) ==
    /\ At(r, "write") /\ session[req[r].id] # None
    /\ WriteRow(r, session[req[r].id], session[req[r].id].created, session[req[r].id].refresh)

\* The UPDATE names the columns that were assigned: the id token stays as it
\* was. It finds no row if the session was ended meanwhile, and raises.
WriteTokens(r) ==
    LET row == session[req[r].id] IN
    /\ At(r, "write")
    /\ IF row = None
       THEN req' = [req EXCEPT ![r] = None] /\ UNCHANGED session
       ELSE /\ session' = [session EXCEPT ![req[r].id] =
                   [row EXCEPT !.expires = now + EXPIRES_IN, !.refresh = req[r].token,
                               !.tokenKey = keys.primary]]
            /\ req' = [req EXCEPT ![r].at = "serve"]
    /\ UNCHANGED <<now, oauth, spent, opened, latest, keys, failures, disturbed>>

\* The commit expires the row: its access token is read again, is whatever is
\* there by now, and parse_claims may still refuse it.
Serve(r) ==
    /\ At(r, "serve")
    /\ \/ Readable(req[r].id) /\ req' = [req EXCEPT ![r].at = "served"]
       \/ req' = [req EXCEPT ![r] = None]
    /\ UNCHANGED <<now, oauth, spent, session, opened, latest, keys, failures, disturbed>>

\* _drop_session, the refusal branch of _refresh_session, and logout's delete.
Drop(r) ==
    /\ At(r, "drop")
    /\ session' = [session EXCEPT ![req[r].id] = None]
    /\ req' = [req EXCEPT ![r] = None]
    /\ UNCHANGED <<now, oauth, spent, opened, latest, keys, failures, disturbed>>

Answered(r) ==
    /\ At(r, "served")
    /\ req' = [req EXCEPT ![r] = None]
    /\ UNCHANGED <<now, oauth, spent, session, opened, latest, keys, failures, disturbed>>

\* logout has read the row.
Logout(r, s) ==
    /\ Idle(r) /\ Readable(s)
    /\ disturbed' = disturbed \cup {s}
    /\ req' = [req EXCEPT ![r] =
           [at |-> "drop", id |-> s, began |-> now, token |-> session[s].refresh]]
    /\ UNCHANGED <<now, oauth, spent, session, opened, latest, keys, failures>>

-----------------------------------------------------------------------------
(* The identity provider, the clock and the operator *)

\* An administrator, or its own timeout, ends the session at the identity provider.
ProviderEnds(s) ==
    /\ latest[s] # 0
    /\ latest' = [latest EXCEPT ![s] = 0]
    /\ disturbed' = disturbed \cup {s}
    /\ UNCHANGED <<now, oauth, spent, session, opened, keys, failures, req>>

Tick ==
    /\ now < MaxTime
    /\ now' = now + 1
    /\ UNCHANGED <<oauth, spent, session, opened, latest, keys, failures, disturbed, req>>

\* token_crypto.py: a new primary key, with the one before it still accepted.
RotateKey ==
    /\ keys.primary < MaxRotations
    /\ keys' = [primary |-> keys.primary + 1, previous |-> TRUE]
    /\ UNCHANGED <<now, oauth, spent, session, opened, latest, failures, disturbed, req>>

RetireKey ==
    /\ keys.previous
    /\ keys' = [keys EXCEPT !.previous = FALSE]
    /\ UNCHANGED <<now, oauth, spent, session, opened, latest, failures, disturbed, req>>

Next ==
    \/ \E r \in Requests :
          \/ Reap(r) \/ InsertState(r)
          \/ \E st \in States : ReadState(r, st)
          \/ Consume(r) \/ Exchange(r) \/ OpenSession(r)
          \/ \E s \in Sids : ReadSession(r, s) \/ Logout(r, s)
          \/ Refresh(r) \/ RefreshRaises(r) \/ WriteTokens(r) \/ Serve(r) \/ Drop(r) \/ Answered(r)
    \/ \E s \in Sids : ProviderEnds(s)
    \/ Tick \/ RotateKey \/ RetireKey

Spec == Init /\ [][Next]_vars

-----------------------------------------------------------------------------
SessionsTypeOK ==
    /\ now \in Nat
    /\ oauth \in [States -> Nat \cup {None}]
    /\ spent \in SUBSET States
    /\ session \in [Sids -> SessionRows \cup {None}]
    /\ opened \in [Sids -> Nat \cup {None}]
    /\ latest \in [Sids -> Nat]
    /\ keys \in [primary : Nat, previous : BOOLEAN]
    /\ failures \in Nat
    /\ disturbed \in SUBSET Sids
    /\ req \in [Requests -> Handlers \cup {None}]

\* models.py on UserSession, "individually revocable (delete the row)": once a
\* session's row is gone, by logout, refusal, lifetime or sweep, no request that
\* was under way at the time brings it back.
EndedIsFinal ==
    [][\A s \in Sids : opened[s] # None /\ session[s] = None => session'[s] = None]_vars

\* Issue #108: whatever is renewed and however often, no request that begins
\* SESSION_LIFETIME or more after the login is served.
AbsoluteLifetime ==
    \A r \in Requests :
        At(r, "served") => req[r].began < opened[req[r].id] + SESSION_LIFETIME

\* models.py on OAuthState, "Deleted once consumed": a state that a callback has
\* seen to the end, or that the sweep took, can never be redeemed by a later one.
SpentStaysSpent ==
    /\ \A st \in spent : oauth[st] = None
    /\ \A r \in Requests : At(r, "exchange") \/ At(r, "open") => req[r].id \in spent

\* Before its lifetime is over a session ends only by logout, by the identity
\* provider, after a token call that failed, or because two requests renewed it
\* at once: requests one after another never use up a rotated token.
KeptUnlessDisturbed ==
    \A s \in Sids :
        opened[s] # None /\ session[s] = None
            => s \in disturbed \/ opened[s] + SESSION_LIFETIME <= now

=============================================================================
