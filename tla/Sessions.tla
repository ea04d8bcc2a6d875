------------------------------ MODULE Sessions ------------------------------
(***************************************************************************)
(* Accounts, sessions and the authentication of requests: the auth         *)
(* service, auth.go of the store and the Authenticate middleware.  A       *)
(* handler belongs to a process that is up (one that shuts down finishes   *)
(* the requests it has accepted) and dies with it; sessions are rows and   *)
(* survive it.                                                             *)
(***************************************************************************)
EXTENDS Startup

CONSTANTS
    Accounts,  \* email addresses
    Tokens,    \* bearer tokens; 32 random bytes, never drawn twice
    Handlers   \* requests in flight at once

VARIABLES
    users,     \* the registered accounts
    sessions,  \* token -> row
    handler,   \* what each request in flight is doing, and for whom
    logouts    \* history: token -> successful logouts with it

sessionVars == << users, sessions, handler, logouts >>
serverVars == << startupVars, sessionVars >>

SessionRow == [user : Accounts, expired : BOOLEAN, revoked : BOOLEAN]
Idle == [job |-> "idle"]
Busy == [job : {"login"}, proc : Procs, user : Accounts] \cup
        [job : {"command", "logout"}, proc : Procs, token : Tokens]

-----------------------------------------------------------------------------
SessionsInit ==
    /\ users = {}
    /\ sessions = EmptyTable
    /\ handler = [h \in Handlers |-> Idle]
    /\ logouts = [t \in Tokens |-> 0]

(* Register: one INSERT, refused by UNIQUE(email) if the account exists.   *)
CreateUser(p, u) ==
    /\ phase[p] \in Up
    /\ u \notin users
    /\ users' = users \cup {u}
    /\ UNCHANGED << sessions, handler, logouts >>

(* Login looks the account up and compares the password...                 *)
UserByEmail(h, p, u) ==
    /\ phase[p] \in Up
    /\ handler[h] = Idle
    /\ u \in users
    /\ handler' = [handler EXCEPT ![h] = [job |-> "login", proc |-> p, user |-> u]]
    /\ UNCHANGED << users, sessions, logouts >>

Done(h) == handler' = [handler EXCEPT ![h] = Idle]

(* ...draws a token and stores the session.                                *)
CreateSession(h, t) ==
    /\ handler[h].job = "login"
    /\ t \notin DOMAIN sessions
    /\ sessions' = Insert(sessions, t,
           [user |-> handler[h].user, expired |-> FALSE, revoked |-> FALSE])
    /\ Done(h)
    /\ UNCHANGED << users, logouts >>

(* Faulty: revoked_at is not looked at.                                    *)
ResolveUnexpired(h, p, t, job) ==
    /\ phase[p] \in Up
    /\ handler[h] = Idle
    /\ t \in DOMAIN sessions
    /\ ~ sessions[t].expired
    /\ handler' = [handler EXCEPT ![h] = [job |-> job, proc |-> p, token |-> t]]
    /\ UNCHANGED << users, sessions, logouts >>

(* Authenticate resolves the session, then the handler runs with the user  *)
(* found, whatever becomes of the session meanwhile.                       *)
ResolveSession(h, p, t, job) ==
    /\ phase[p] \in Up
    /\ handler[h] = Idle
    /\ t \in DOMAIN sessions
    /\ ~ sessions[t].expired /\ ~ sessions[t].revoked
    /\ handler' = [handler EXCEPT ![h] = [job |-> job, proc |-> p, token |-> t]]
    /\ UNCHANGED << users, sessions, logouts >>

(* Any other command than logout runs to its end, or a login fails.        *)
Finish(h) ==
    /\ handler[h].job \in {"command", "login"}
    /\ Done(h)
    /\ UNCHANGED << users, sessions, logouts >>

(* Faulty: revoked_at IS NULL is left out of the WHERE.                    *)
RevokeAgain(h) ==
    /\ handler[h].job = "logout"
    /\ LET t == handler[h].token
       IN  /\ sessions' = [sessions EXCEPT ![t].revoked = TRUE]
           /\ logouts' = [logouts EXCEPT ![t] = @ + 1]
    /\ Done(h)
    /\ UNCHANGED users

(* Logout: the UPDATE matches an unrevoked row, or answers "not found".    *)
RevokeSession(h) ==
    /\ handler[h].job = "logout"
    /\ LET t == handler[h].token
       IN  IF sessions[t].revoked THEN UNCHANGED << sessions, logouts >>
           ELSE /\ sessions' = [sessions EXCEPT ![t].revoked = TRUE]
                /\ logouts' = [logouts EXCEPT ![t] = @ + 1]
    /\ Done(h)
    /\ UNCHANGED users

(* The clock passes expires_at.                                            *)
SessionExpires(t) ==
    /\ t \in DOMAIN sessions /\ ~ sessions[t].expired
    /\ sessions' = [sessions EXCEPT ![t].expired = TRUE]
    /\ UNCHANGED << users, handler, logouts >>

SessionsNext ==
    \/ \E p \in Procs, u \in Accounts : CreateUser(p, u)
    \/ \E h \in Handlers :
          \/ \E p \in Procs, u \in Accounts : UserByEmail(h, p, u)
          \/ \E t \in Tokens : CreateSession(h, t)
          \/ \E p \in Procs, t \in Tokens, job \in {"command", "logout"} :
                ResolveSession(h, p, t, job)
          \/ Finish(h)
          \/ RevokeSession(h)
    \/ \E t \in Tokens : SessionExpires(t)

(* Faulty: a new process goes on with the handlers of the old one.         *)
KeepHandlers == UNCHANGED sessionVars

(* The handlers of a process that ends are lost with it; Drained waits for *)
(* them or, at the deadline, does not.                                     *)
LoseHandlers ==
    /\ handler' = [h \in Handlers |->
           IF handler[h] # Idle /\ phase'[handler[h].proc] = "down"
           THEN Idle ELSE handler[h]]
    /\ UNCHANGED << users, sessions, logouts >>

ServerInit == StartupInit /\ SessionsInit

ServerNext ==
    \/ StartupNext /\ LoseHandlers
    \/ SessionsNext /\ UNCHANGED startupVars

(* main goes on until it serves, and Shutdown ends.                        *)
ServerFairness ==
    \A p \in Procs :
        /\ WF_serverVars(StartupStep(p) /\ LoseHandlers)
        /\ WF_serverVars(Drained(p) /\ LoseHandlers)

ServerSpec == ServerInit /\ [][ServerNext]_serverVars /\ ServerFairness

-----------------------------------------------------------------------------
(* Rows have the columns of the schema, and whoever has a session has an   *)
(* account.                                                                *)
SessionsTypeOK ==
    /\ StartupTypeOK
    /\ users \subseteq Accounts
    /\ DOMAIN sessions \subseteq Tokens
    /\ sessions \in [DOMAIN sessions -> SessionRow]
    /\ \A t \in DOMAIN sessions : sessions[t].user \in users
    /\ handler \in [Handlers -> Busy \cup {Idle}]
    /\ \A h \in Handlers : handler[h] # Idle => phase[handler[h].proc] \in Up
    /\ logouts \in [Tokens -> Nat]

Closed(t) ==
    t \in DOMAIN sessions /\ (sessions[t].expired \/ sessions[t].revoked)

InFlight(t) ==
    {h \in Handlers :
        handler[h].job \in {"command", "logout"} /\ handler[h].token = t}

(* Once a session is logged out or expired and the requests that had       *)
(* passed Authenticate before are done, nothing runs in its name again, in *)
(* no process and after no restart (Logout against ResolveSession).        *)
LogoutIsFinal ==
    [][\A t \in Tokens :
          (Closed(t) /\ InFlight(t) = {}) => (Closed(t) /\ InFlight(t) = {})'
      ]_serverVars

(* "Logout revokes one server-side session; other sessions remain valid":  *)
(* however many logouts of a session race, exactly one succeeds, and a     *)
(* session is revoked only by a logout of its own (RevokeSession).         *)
OneLogout ==
    \A t \in Tokens :
        logouts[t] = IF t \in DOMAIN sessions /\ sessions[t].revoked
                     THEN 1 ELSE 0

(* A start ends, in service or in an exit, and so does a shutdown: two     *)
(* processes that start together never wait for each other (Migrate, main).*)
StartsAndStops ==
    \A p \in Procs :
        phase[p] \in Starting \cup {"draining"} ~> phase[p] \in {"serving", "down"}
=============================================================================
