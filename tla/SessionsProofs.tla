--------------------------- MODULE SessionsProofs ---------------------------
(***************************************************************************)
(* Proofs about starting processes and about sessions, for any number of   *)
(* processes, migrations, tokens and requests in flight.                   *)
(***************************************************************************)
EXTENDS Sessions, TLAPS

(* What Migrate has seen so far is on file, whoever wrote it.              *)
AppliedUpTo(n) == \A i \in 1..n : i \in DOMAIN ledger /\ ledger[i] = "own"

(* Where each process is, and what it knows of the ledger there.           *)
ProcessKnows(p) ==
    /\ phase[p] \in {"looking", "applying", "writing"} =>
          AppliedUpTo(item[p] - 1)
    /\ phase[p] \in {"applying", "writing"} => item[p] \in 1..Latest
    /\ phase[p] = "writing" => item[p] \notin DOMAIN ledger
    /\ phase[p] \in {"counting"} \cup Up => AppliedUpTo(Latest)
    /\ phase[p] \in Up => DOMAIN ledger \subseteq 1..Latest

(* Migrations are applied in their order, each after all those before it.  *)
InOrder == \E n \in 0..(Latest + 1) : DOMAIN ledger = 1..n

StartupIInv ==
    /\ StartupTypeOK
    /\ schema = DOMAIN ledger
    /\ InOrder
    /\ \A p \in Procs : ProcessKnows(p)

LEMMA StartupInitInv == StartupInit => StartupIInv
<1> SUFFICES ASSUME StartupInit PROVE StartupIInv
    OBVIOUS
<1> USE StartupAssumption
<1>1. /\ DOMAIN ledger \subseteq 1..(Latest + 1)
      /\ ledger \in [DOMAIN ledger -> {"own", "other"}]
  <2>1. CASE ledger = [i \in {} |-> i]
    BY <2>1
  <2>2. CASE ledger = [i \in 1..(Latest + 1) |-> "own"]
    BY <2>2
  <2>3. CASE ledger = [i \in 1..Latest |-> "other"]
    BY <2>3
  <2> QED BY <2>1, <2>2, <2>3 DEF StartupInit, Databases, EmptyTable
<1>2. /\ \A p \in Procs : phase[p] = "down" /\ item[p] = 1
      /\ phase \in [Procs -> Phases] /\ item \in [Procs -> 1..(Latest + 1)]
      /\ faults \in 0..MaxFaults /\ schema = DOMAIN ledger
    BY DEF StartupInit, Phases
<1>3. InOrder
  <2>1. CASE ledger = EmptyTable
    <3>1. DOMAIN ledger = 1..0
      BY <2>1 DEF EmptyTable
    <3> QED BY <3>1 DEF InOrder
  <2>2. CASE DOMAIN ledger \in {1..Latest, 1..(Latest + 1)}
    BY <2>2 DEF InOrder
  <2> QED BY <2>1, <2>2 DEF StartupInit, Databases
<1> QED BY <1>1, <1>2, <1>3
     DEF StartupIInv, StartupTypeOK, ProcessKnows, Up

(* A process moves on while the ledger stays: it must know what it needs.  *)
LEMMA ProcessMoves ==
    ASSUME StartupIInv, NEW p \in Procs, NEW stage \in Phases, Goto(p, stage),
           UNCHANGED << ledger, schema >>, faults' \in 0..MaxFaults,
           item' \in [Procs -> 1..(Latest + 1)],
           \A q \in Procs \ {p} : item'[q] = item[q],
           stage = "writing" => \A q \in Procs : phase[q] # "writing",
           ProcessKnows(p)'
    PROVE  StartupIInv'
<1>1. /\ phase' \in [Procs -> Phases] /\ phase'[p] = stage
      /\ \A q \in Procs \ {p} : phase'[q] = phase[q]
    BY DEF Goto, StartupIInv, StartupTypeOK
<1>2. \A q, r \in Procs : (phase'[q] = "writing" /\ phase'[r] = "writing") => q = r
    BY <1>1 DEF StartupIInv, StartupTypeOK
<1>3. StartupTypeOK'
    BY <1>1, <1>2 DEF StartupIInv, StartupTypeOK
<1>4. ASSUME NEW q \in Procs \ {p} PROVE ProcessKnows(q)'
    BY <1>1 DEF StartupIInv, ProcessKnows, AppliedUpTo
<1> QED BY <1>3, <1>4 DEF StartupIInv, InOrder

(* Starting, exits and signals.                                            *)
LEMMA StartInv ==
    ASSUME StartupIInv, NEW p \in Procs,
           Start(p) \/ Exit(p) \/ Signal(p) \/ Drained(p)
    PROVE  StartupIInv'
<1> USE StartupAssumption
<1>0. /\ item \in [Procs -> 1..(Latest + 1)] /\ phase \in [Procs -> Phases]
      /\ faults \in 0..MaxFaults
    BY DEF StartupIInv, StartupTypeOK
<1>1. CASE Start(p)
  <2>1. /\ Goto(p, "looking") /\ UNCHANGED << ledger, schema, faults >>
        /\ item' \in [Procs -> 1..(Latest + 1)] /\ item'[p] = 1
        /\ \A q \in Procs \ {p} : item'[q] = item[q]
    BY <1>0, <1>1 DEF Start
  <2>2. ProcessKnows(p)'
    BY <1>0, <2>1 DEF Goto, ProcessKnows, AppliedUpTo, Up
  <2> QED BY <1>0, <2>1, <2>2, ProcessMoves DEF Phases, Starting
<1>2. CASE Exit(p) \/ Drained(p)
  <2>1. /\ Goto(p, "down") /\ UNCHANGED << ledger, schema, item >>
        /\ faults' \in 0..MaxFaults
    BY <1>0, <1>2 DEF Exit, Drained
  <2>2. ProcessKnows(p)'
    BY <1>0, <2>1 DEF Goto, ProcessKnows, Up
  <2> QED BY <1>0, <2>1, <2>2, ProcessMoves DEF Phases
<1>3. CASE Signal(p)
  <2>1. /\ Goto(p, "draining") /\ UNCHANGED << ledger, schema, item >>
        /\ faults' \in 0..MaxFaults /\ phase[p] = "serving"
    BY <1>0, <1>3 DEF Signal
  <2>2. AppliedUpTo(Latest) /\ DOMAIN ledger \subseteq 1..Latest
    BY <2>1 DEF StartupIInv, ProcessKnows, Up
  <2>3. ProcessKnows(p)'
    BY <1>0, <2>1, <2>2 DEF Goto, ProcessKnows, AppliedUpTo, Up
  <2> QED BY <1>0, <2>1, <2>3, ProcessMoves DEF Phases, Up
<1> QED BY <1>1, <1>2, <1>3

(* The head of Migrate's loop, and its end.                                *)
LEMMA LookUpInv ==
    ASSUME StartupIInv, NEW p \in Procs, LookUp(p)
    PROVE  StartupIInv'
<1> USE StartupAssumption
<1>0. /\ item \in [Procs -> 1..(Latest + 1)] /\ phase \in [Procs -> Phases]
      /\ faults \in 0..MaxFaults /\ phase[p] = "looking"
      /\ AppliedUpTo(item[p] - 1)
      /\ UNCHANGED << ledger, schema, faults >>
    BY DEF StartupIInv, StartupTypeOK, LookUp, ProcessKnows
<1>1. CASE item[p] > Latest
  <2>1. Goto(p, "counting") /\ UNCHANGED item
    BY <1>1 DEF LookUp
  <2>2. AppliedUpTo(Latest)
    BY <1>0, <1>1 DEF AppliedUpTo
  <2>3. ProcessKnows(p)'
    BY <1>0, <2>1, <2>2 DEF Goto, ProcessKnows, AppliedUpTo, Up
  <2> QED BY <1>0, <2>1, <2>3, ProcessMoves DEF Phases, Starting
<1>2. CASE item[p] <= Latest /\ item[p] \notin DOMAIN ledger
  <2>1. Goto(p, "applying") /\ UNCHANGED item
    BY <1>0, <1>2 DEF LookUp
  <2>2. item[p] \in 1..Latest
    BY <1>0, <1>2
  <2>3. ProcessKnows(p)'
    BY <1>0, <2>1, <2>2 DEF Goto, ProcessKnows, AppliedUpTo, Up
  <2> QED BY <1>0, <2>1, <2>3, ProcessMoves DEF Phases, Starting
<1>3. CASE item[p] <= Latest /\ item[p] \in DOMAIN ledger /\ ledger[item[p]] = "own"
  <2>1. item' = [item EXCEPT ![p] = @ + 1] /\ UNCHANGED phase
    BY <1>0, <1>3 DEF LookUp
  <2>2. /\ item' \in [Procs -> 1..(Latest + 1)] /\ item'[p] = item[p] + 1
        /\ \A q \in Procs \ {p} : item'[q] = item[q]
    BY <1>0, <1>3, <2>1
  <2>3. AppliedUpTo(item[p])
    BY <1>0, <1>3 DEF AppliedUpTo
  <2>4. ProcessKnows(p)'
    BY <1>0, <2>1, <2>2, <2>3 DEF ProcessKnows, AppliedUpTo, Up
  <2>5. Goto(p, "looking")
    BY <1>0, <2>1 DEF Goto
  <2> QED BY <1>0, <2>2, <2>4, <2>5, ProcessMoves DEF Phases, Starting
<1>4. CASE item[p] <= Latest /\ item[p] \in DOMAIN ledger /\ ledger[item[p]] # "own"
  <2>1. Goto(p, "down") /\ UNCHANGED item
    BY <1>0, <1>4 DEF LookUp
  <2>2. ProcessKnows(p)'
    BY <1>0, <2>1 DEF Goto, ProcessKnows, Up
  <2> QED BY <1>0, <2>1, <2>2, ProcessMoves DEF Phases
<1> QED BY <1>0, <1>1, <1>2, <1>3, <1>4

(* Whoever gets the lock finds the migration missing, or exits.            *)
LEMMA CreateTablesInv ==
    ASSUME StartupIInv, NEW p \in Procs, CreateTables(p)
    PROVE  StartupIInv'
<1> DEFINE stage == IF item[p] \in schema THEN "down" ELSE "writing"
<1>1. /\ Goto(p, stage) /\ UNCHANGED << ledger, schema, item, faults >>
      /\ \A q \in Procs : phase[q] # "writing"
      /\ stage \in Phases /\ phase \in [Procs -> Phases]
      /\ item \in [Procs -> 1..(Latest + 1)] /\ faults \in 0..MaxFaults
    BY DEF CreateTables, Phases, Starting, StartupIInv, StartupTypeOK
<1>2. /\ AppliedUpTo(item[p] - 1) /\ item[p] \in 1..Latest
      /\ stage = "writing" => item[p] \notin DOMAIN ledger
      /\ stage \in {"down", "writing"}
    BY DEF CreateTables, StartupIInv, ProcessKnows
<1> HIDE DEF stage
<1>3. ProcessKnows(p)'
    BY <1>1, <1>2 DEF Goto, ProcessKnows, AppliedUpTo, Up
<1> QED BY <1>1, <1>3, ProcessMoves

(* A committed migration takes nothing away from what others have seen,    *)
(* and nobody serves while one is missing.                                 *)
LEMMA CommitMigrationInv ==
    ASSUME StartupIInv, NEW p \in Procs, CommitMigration(p)
    PROVE  StartupIInv'
<1> USE StartupAssumption
<1> DEFINE new == item[p]
<1>1. /\ phase[p] = "writing" /\ new \in 1..Latest /\ new \notin DOMAIN ledger
      /\ AppliedUpTo(new - 1)
      /\ phase \in [Procs -> Phases] /\ item \in [Procs -> 1..(Latest + 1)]
    BY DEF CommitMigration, StartupIInv, StartupTypeOK, ProcessKnows
<1>2. /\ schema' = schema \cup {new} /\ UNCHANGED faults
      /\ ledger' = [i \in DOMAIN ledger \cup {new} |->
                       IF i = new THEN "own" ELSE ledger[i]]
      /\ phase' = [phase EXCEPT ![p] = "looking"]
      /\ item' = [item EXCEPT ![p] = new + 1]
    BY DEF CommitMigration, Insert, Goto
<1> HIDE DEF new
<1>3. /\ DOMAIN ledger' = DOMAIN ledger \cup {new} /\ ledger'[new] = "own"
      /\ \A i \in DOMAIN ledger : ledger'[i] = ledger[i]
      /\ ledger' \in [DOMAIN ledger' -> {"own", "other"}]
      /\ DOMAIN ledger' \subseteq 1..(Latest + 1)
    BY <1>1, <1>2 DEF StartupIInv, StartupTypeOK
<1>4. /\ phase' \in [Procs -> Phases] /\ phase'[p] = "looking"
      /\ item' \in [Procs -> 1..(Latest + 1)] /\ item'[p] = new + 1
      /\ \A q \in Procs \ {p} : phase'[q] = phase[q] /\ item'[q] = item[q]
    BY <1>1, <1>2 DEF Phases, Starting
<1>5. StartupTypeOK'
    BY <1>2, <1>3, <1>4 DEF StartupIInv, StartupTypeOK
<1>6. ASSUME NEW n \in Int, AppliedUpTo(n)
      PROVE  \A i \in 1..n : i \in DOMAIN ledger' /\ ledger'[i] = "own"
    BY <1>3, <1>6 DEF AppliedUpTo
<1>7. ProcessKnows(p)'
  <2>1. \A i \in 1..(new - 1) : i \in DOMAIN ledger' /\ ledger'[i] = "own"
    BY <1>1, <1>6
  <2>2. \A i \in 1..(new + 1 - 1) : i \in 1..(new - 1) \/ i = new
    BY <1>1
  <2>3. \A i \in 1..(new + 1 - 1) : i \in DOMAIN ledger' /\ ledger'[i] = "own"
    BY <1>3, <2>1, <2>2
  <2>4. AppliedUpTo(item[p] - 1)'
    BY <1>1, <1>4, <2>3 DEF AppliedUpTo
  <2> QED BY <1>4, <2>4 DEF ProcessKnows, Up
<1>8. ASSUME NEW q \in Procs \ {p} PROVE ProcessKnows(q)'
  <2>1. phase[q] # "writing"
    BY <1>1 DEF StartupIInv, StartupTypeOK
  <2>2. phase[q] \notin {"counting"} \cup Up
    <3>1. ~ AppliedUpTo(Latest)
      BY <1>1 DEF AppliedUpTo
    <3> QED BY <3>1 DEF StartupIInv, ProcessKnows
  <2>3. item[q] \in Int /\ ProcessKnows(q)
    BY <1>1 DEF StartupIInv
  <2>4. phase[q] \in {"looking", "applying"} =>
           \A i \in 1..(item[q] - 1) : i \in DOMAIN ledger' /\ ledger'[i] = "own"
    BY <1>6, <2>3 DEF ProcessKnows
  <2> QED BY <1>4, <2>1, <2>2, <2>3, <2>4 DEF ProcessKnows, AppliedUpTo, Up
<1>9. InOrder'
  <2>1. PICK n \in 0..(Latest + 1) : DOMAIN ledger = 1..n
    BY DEF StartupIInv, InOrder
  <2>2. new - 1 \in 1..n \/ new = 1
    <3>1. new # 1 => new - 1 \in 1..(new - 1)
      BY <1>1
    <3> QED BY <1>1, <2>1, <3>1 DEF AppliedUpTo
  <2>3. n = new - 1
    BY <1>1, <2>1, <2>2
  <2>4. DOMAIN ledger' = 1..new
    BY <1>1, <1>3, <2>1, <2>3
  <2> QED BY <1>1, <2>4 DEF InOrder
<1> QED BY <1>2, <1>3, <1>5, <1>7, <1>8, <1>9 DEF StartupIInv

LEMMA CheckFutureInv ==
    ASSUME StartupIInv, NEW p \in Procs, CheckFuture(p)
    PROVE  StartupIInv'
<1> USE StartupAssumption
<1> DEFINE stage == IF \E i \in DOMAIN ledger : i > Latest
                    THEN "down" ELSE "serving"
<1>1. /\ Goto(p, stage) /\ UNCHANGED << ledger, schema, item, faults >>
      /\ stage \in {"down", "serving"} /\ phase \in [Procs -> Phases]
      /\ item \in [Procs -> 1..(Latest + 1)] /\ faults \in 0..MaxFaults
      /\ DOMAIN ledger \subseteq 1..(Latest + 1)
    BY DEF CheckFuture, StartupIInv, StartupTypeOK
<1>2. /\ AppliedUpTo(Latest)
      /\ stage = "serving" => DOMAIN ledger \subseteq 1..Latest
    BY <1>1 DEF CheckFuture, StartupIInv, ProcessKnows
<1> HIDE DEF stage
<1>3. ProcessKnows(p)'
    BY <1>1, <1>2 DEF Goto, ProcessKnows, AppliedUpTo, Up
<1> QED BY <1>1, <1>3, ProcessMoves DEF Phases, Up

LEMMA StartupStepInv == StartupIInv /\ [StartupNext]_startupVars => StartupIInv'
<1> SUFFICES ASSUME StartupIInv, [StartupNext]_startupVars PROVE StartupIInv'
    OBVIOUS
<1>1. CASE UNCHANGED startupVars
    BY <1>1 DEF startupVars, StartupIInv, StartupTypeOK, ProcessKnows,
                AppliedUpTo, InOrder
<1> QED BY <1>1, StartInv, LookUpInv, CreateTablesInv, CommitMigrationInv,
           CheckFutureInv DEF StartupNext, StartupStep

LEMMA ServerIsStartup == ServerSpec => []StartupIInv
<1>1. ServerInit => StartupIInv
    BY StartupInitInv DEF ServerInit
<1>2. StartupIInv /\ [ServerNext]_serverVars => StartupIInv'
    BY StartupStepInv DEF ServerNext, serverVars
<1> QED BY <1>1, <1>2, PTL DEF ServerSpec

(* A process that serves has the tables of its own build and no others,    *)
(* and no table is ever without its ledger row (Store.Migrate).            *)
THEOREM ServersServeTheirSchema == ServerSpec => []ServesItsSchema
<1>1. StartupIInv => ServesItsSchema
  <2> SUFFICES ASSUME StartupIInv, NEW p \in Procs, phase[p] \in Up
               PROVE  ledger = [i \in 1..Latest |-> "own"]
      BY DEF ServesItsSchema, StartupIInv, InOrder
  <2>1. AppliedUpTo(Latest) /\ DOMAIN ledger \subseteq 1..Latest
      BY DEF StartupIInv, ProcessKnows
  <2>2. DOMAIN ledger = 1..Latest /\ \A i \in 1..Latest : ledger[i] = "own"
      BY <2>1 DEF AppliedUpTo
  <2>3. ledger = [i \in DOMAIN ledger |-> ledger[i]]
      BY DEF StartupIInv, StartupTypeOK
  <2> QED BY <2>2, <2>3
<1> QED BY <1>1, ServerIsStartup, PTL

-----------------------------------------------------------------------------
(* Requests in flight belong to processes that are up, and to accounts and *)
(* sessions that are on file.                                              *)
HandlersKnown ==
    \A h \in Handlers : handler[h] # Idle =>
        /\ phase[handler[h].proc] \in Up
        /\ handler[h].job = "login" => handler[h].user \in users
        /\ handler[h].job # "login" => handler[h].token \in DOMAIN sessions

SessionsIInv == SessionsTypeOK /\ HandlersKnown /\ OneLogout

LEMMA SessionsInitInv == ServerInit => SessionsIInv
<1> SUFFICES ASSUME ServerInit PROVE SessionsIInv
    OBVIOUS
<1>1. StartupTypeOK
    BY StartupInitInv DEF ServerInit, StartupIInv
<1>2. DOMAIN sessions = {} /\ sessions \in [DOMAIN sessions -> SessionRow]
    BY DEF ServerInit, SessionsInit, EmptyTable
<1> QED BY <1>1, <1>2
     DEF ServerInit, SessionsInit, SessionsIInv, SessionsTypeOK, HandlersKnown,
         OneLogout

(* A request is answered, or one is accepted by a process that is up.      *)
LEMMA HandlerSet ==
    ASSUME SessionsIInv, NEW h \in Handlers, NEW what \in Busy \cup {Idle},
           handler' = [handler EXCEPT ![h] = what],
           UNCHANGED << startupVars, users, logouts >>,
           UNCHANGED sessions,
           what # Idle =>
              /\ phase[what.proc] \in Up
              /\ what.job = "login" => what.user \in users
              /\ what.job # "login" => what.token \in DOMAIN sessions
    PROVE  SessionsIInv'
<1>1. /\ handler' \in [Handlers -> Busy \cup {Idle}] /\ handler'[h] = what
      /\ \A g \in Handlers \ {h} : handler'[g] = handler[g]
    BY DEF SessionsIInv, SessionsTypeOK
<1>2. StartupTypeOK'
    BY DEF SessionsIInv, SessionsTypeOK, StartupTypeOK, startupVars
<1>3. HandlersKnown'
    BY <1>1 DEF SessionsIInv, HandlersKnown, startupVars
<1>4. SessionsTypeOK'
    BY <1>1, <1>2, <1>3 DEF SessionsIInv, SessionsTypeOK, HandlersKnown
<1>5. OneLogout'
    BY DEF SessionsIInv, OneLogout
<1> QED BY <1>3, <1>4, <1>5 DEF SessionsIInv

LEMMA RequestInv ==
    ASSUME SessionsIInv, NEW h \in Handlers, UNCHANGED startupVars,
           \/ \E p \in Procs, u \in Accounts : UserByEmail(h, p, u)
           \/ \E p \in Procs, t \in Tokens, job \in {"command", "logout"} :
                 ResolveSession(h, p, t, job)
           \/ Finish(h)
    PROVE  SessionsIInv'
<1>1. ASSUME NEW p \in Procs, NEW u \in Accounts, UserByEmail(h, p, u)
      PROVE  SessionsIInv'
  <2> DEFINE what == [job |-> "login", proc |-> p, user |-> u]
  <2>1. /\ what \in Busy /\ what.job = "login" /\ what.proc = p
        /\ what.user = u
    BY DEF Busy
  <2>2. /\ handler' = [handler EXCEPT ![h] = what] /\ phase[p] \in Up
        /\ u \in users /\ UNCHANGED << users, sessions, logouts >>
    BY <1>1 DEF UserByEmail
  <2> HIDE DEF what
  <2> QED BY <2>1, <2>2, HandlerSet
<1>2. ASSUME NEW p \in Procs, NEW t \in Tokens, NEW job \in {"command", "logout"},
             ResolveSession(h, p, t, job)
      PROVE  SessionsIInv'
  <2> DEFINE what == [job |-> job, proc |-> p, token |-> t]
  <2>1. /\ what \in Busy /\ what.job # "login" /\ what.proc = p
        /\ what.token = t
    BY DEF Busy
  <2>2. /\ handler' = [handler EXCEPT ![h] = what] /\ phase[p] \in Up
        /\ t \in DOMAIN sessions /\ UNCHANGED << users, sessions, logouts >>
    BY <1>2 DEF ResolveSession
  <2> HIDE DEF what
  <2> QED BY <2>1, <2>2, HandlerSet
<1>3. CASE Finish(h)
    BY <1>3, HandlerSet DEF Finish, Done
<1> QED BY <1>1, <1>2, <1>3

LEMMA CreateUserInv ==
    ASSUME SessionsIInv, NEW p \in Procs, NEW u \in Accounts, CreateUser(p, u),
           UNCHANGED startupVars
    PROVE  SessionsIInv'
<1>1. StartupTypeOK'
    BY DEF SessionsIInv, SessionsTypeOK, StartupTypeOK, startupVars
<1>2. HandlersKnown'
    BY DEF SessionsIInv, HandlersKnown, CreateUser, startupVars
<1>3. SessionsTypeOK'
    BY <1>1, <1>2 DEF SessionsIInv, SessionsTypeOK, HandlersKnown, CreateUser
<1>4. OneLogout'
    BY DEF SessionsIInv, OneLogout, CreateUser
<1> QED BY <1>2, <1>3, <1>4 DEF SessionsIInv

(* The handler is done, and its session is one that was not there.         *)
LEMMA CreateSessionInv ==
    ASSUME SessionsIInv, NEW h \in Handlers, NEW t \in Tokens,
           CreateSession(h, t), UNCHANGED startupVars
    PROVE  SessionsIInv'
<1> DEFINE row == [user |-> handler[h].user, expired |-> FALSE, revoked |-> FALSE]
<1>1. /\ handler[h] # Idle /\ handler[h].job = "login"
      /\ handler[h].user \in users
    BY DEF CreateSession, Idle, SessionsIInv, HandlersKnown
<1>2. /\ row \in SessionRow /\ row.user \in users /\ row.revoked = FALSE
    BY <1>1 DEF SessionRow, SessionsIInv, SessionsTypeOK
<1>3. /\ t \notin DOMAIN sessions
      /\ sessions' = [i \in DOMAIN sessions \cup {t} |->
                         IF i = t THEN row ELSE sessions[i]]
      /\ handler' = [handler EXCEPT ![h] = Idle]
      /\ UNCHANGED << startupVars, users, logouts >>
    BY DEF CreateSession, Insert, Done
<1> HIDE DEF row
<1>4. /\ DOMAIN sessions' = DOMAIN sessions \cup {t} /\ sessions'[t] = row
      /\ \A i \in DOMAIN sessions : sessions'[i] = sessions[i]
      /\ sessions' \in [DOMAIN sessions' -> SessionRow]
    BY <1>2, <1>3 DEF SessionsIInv, SessionsTypeOK
<1>5. /\ handler' \in [Handlers -> Busy \cup {Idle}] /\ handler'[h] = Idle
      /\ \A g \in Handlers \ {h} : handler'[g] = handler[g]
    BY <1>3 DEF SessionsIInv, SessionsTypeOK
<1>6. StartupTypeOK'
    BY <1>3 DEF SessionsIInv, SessionsTypeOK, StartupTypeOK, startupVars
<1>7. HandlersKnown'
    BY <1>3, <1>4, <1>5 DEF SessionsIInv, HandlersKnown, startupVars
<1>8. SessionsTypeOK'
    BY <1>2, <1>3, <1>4, <1>5, <1>6, <1>7
    DEF SessionsIInv, SessionsTypeOK, HandlersKnown
<1>9. OneLogout'
    BY <1>2, <1>3, <1>4 DEF SessionsIInv, OneLogout
<1> QED BY <1>7, <1>8, <1>9 DEF SessionsIInv

(* The column of one session is set; nothing else in its row changes.      *)
LEMMA SessionUpdate ==
    ASSUME SessionsIInv, NEW t \in DOMAIN sessions,
           \/ sessions' = [sessions EXCEPT ![t].revoked = TRUE]
           \/ sessions' = [sessions EXCEPT ![t].expired = TRUE]
    PROVE  /\ DOMAIN sessions' = DOMAIN sessions
           /\ sessions' \in [DOMAIN sessions -> SessionRow]
           /\ \A i \in DOMAIN sessions : sessions'[i].user = sessions[i].user
           /\ \A i \in DOMAIN sessions \ {t} : sessions'[i] = sessions[i]
           /\ sessions'[t].revoked =
                 IF sessions' = [sessions EXCEPT ![t].revoked = TRUE]
                 THEN TRUE ELSE sessions[t].revoked
<1>1. sessions \in [DOMAIN sessions -> SessionRow]
    BY DEF SessionsIInv, SessionsTypeOK
<1>2. CASE sessions' = [sessions EXCEPT ![t].revoked = TRUE]
    BY <1>1, <1>2 DEF SessionRow
<1>3. CASE /\ sessions' = [sessions EXCEPT ![t].expired = TRUE]
           /\ sessions' # [sessions EXCEPT ![t].revoked = TRUE]
    BY <1>1, <1>3 DEF SessionRow
<1> QED BY <1>2, <1>3

(* Of the logouts of one session the first one succeeds.                   *)
LEMMA RevokeInv ==
    ASSUME SessionsIInv, NEW h \in Handlers, RevokeSession(h),
           UNCHANGED startupVars
    PROVE  SessionsIInv'
<1> DEFINE t == handler[h].token
<1>1. /\ handler[h] # Idle /\ t \in DOMAIN sessions /\ t \in Tokens
    BY DEF RevokeSession, Idle, SessionsIInv, SessionsTypeOK, HandlersKnown
<1>2. handler' = [handler EXCEPT ![h] = Idle] /\ UNCHANGED users
    BY DEF RevokeSession, Done
<1>3. CASE sessions[t].revoked
  <2>1. UNCHANGED << sessions, logouts >>
    BY <1>3 DEF RevokeSession
  <2> QED BY <1>2, <2>1, HandlerSet
<1>4. CASE ~ sessions[t].revoked
  <2>1. /\ sessions' = [sessions EXCEPT ![t].revoked = TRUE]
        /\ logouts' = [logouts EXCEPT ![t] = @ + 1]
    BY <1>4 DEF RevokeSession
  <2> HIDE DEF t
  <2>2. /\ DOMAIN sessions' = DOMAIN sessions
        /\ sessions' \in [DOMAIN sessions' -> SessionRow]
        /\ \A i \in DOMAIN sessions : sessions'[i].user = sessions[i].user
        /\ \A i \in DOMAIN sessions \ {t} : sessions'[i] = sessions[i]
        /\ sessions'[t].revoked
    BY <1>1, <2>1, SessionUpdate
  <2>3. /\ logouts \in [Tokens -> Nat] /\ logouts[t] = 0
    BY <1>1, <1>4 DEF SessionsIInv, SessionsTypeOK, OneLogout
  <2>4. /\ logouts' \in [Tokens -> Nat] /\ logouts'[t] = 1
        /\ \A i \in Tokens \ {t} : logouts'[i] = logouts[i]
    BY <1>1, <2>1, <2>3
  <2>5. /\ handler' \in [Handlers -> Busy \cup {Idle}] /\ handler'[h] = Idle
        /\ \A g \in Handlers \ {h} : handler'[g] = handler[g]
    BY <1>2 DEF SessionsIInv, SessionsTypeOK
  <2>6. StartupTypeOK'
    BY DEF SessionsIInv, SessionsTypeOK, StartupTypeOK, startupVars
  <2>7. HandlersKnown'
    BY <1>2, <2>2, <2>5 DEF SessionsIInv, HandlersKnown, startupVars
  <2>8. SessionsTypeOK'
    BY <1>2, <2>2, <2>4, <2>5, <2>6, <2>7
    DEF SessionsIInv, SessionsTypeOK, HandlersKnown
  <2>9. OneLogout'
    BY <1>1, <2>2, <2>4 DEF SessionsIInv, OneLogout
  <2> QED BY <2>7, <2>8, <2>9 DEF SessionsIInv
<1> QED BY <1>3, <1>4

LEMMA ExpireInv ==
    ASSUME SessionsIInv, NEW t \in Tokens, SessionExpires(t),
           UNCHANGED startupVars
    PROVE  SessionsIInv'
<1>1. /\ t \in DOMAIN sessions
      /\ sessions' = [sessions EXCEPT ![t].expired = TRUE]
      /\ UNCHANGED << users, handler, logouts >>
    BY DEF SessionExpires
<1>2. sessions[t] \in SessionRow
    BY <1>1 DEF SessionsIInv, SessionsTypeOK
<1>3. /\ DOMAIN sessions' = DOMAIN sessions
      /\ sessions' \in [DOMAIN sessions' -> SessionRow]
      /\ \A i \in DOMAIN sessions :
            /\ sessions'[i].user = sessions[i].user
            /\ sessions'[i].revoked = sessions[i].revoked
  <2>1. sessions'[t].revoked = sessions[t].revoked
    BY <1>1, <1>2 DEF SessionRow
  <2> QED BY <1>1, <2>1, SessionUpdate
<1>4. StartupTypeOK'
    BY DEF SessionsIInv, SessionsTypeOK, StartupTypeOK, startupVars
<1>5. HandlersKnown'
    BY <1>1, <1>3 DEF SessionsIInv, HandlersKnown, startupVars
<1>6. SessionsTypeOK'
    BY <1>1, <1>3, <1>4, <1>5 DEF SessionsIInv, SessionsTypeOK, HandlersKnown
<1>7. OneLogout'
    BY <1>1, <1>3 DEF SessionsIInv, OneLogout
<1> QED BY <1>5, <1>6, <1>7 DEF SessionsIInv

(* A process that was up still is, or has ended.                           *)
LEMMA UpOrDown ==
    ASSUME StartupTypeOK, StartupNext, NEW p \in Procs, phase[p] \in Up
    PROVE  phase'[p] \in Up \/ phase'[p] = "down"
<1>1. PICK q \in Procs :
         Start(q) \/ StartupStep(q) \/ Exit(q) \/ Signal(q) \/ Drained(q)
    BY DEF StartupNext
<1>2. phase \in [Procs -> Phases]
    BY DEF StartupTypeOK
<1>3. CASE p # q
    BY <1>1, <1>2, <1>3
    DEF Start, StartupStep, LookUp, CreateTables, CommitMigration, CheckFuture,
        Exit, Signal, Drained, Goto
<1>4. CASE p = q
    BY <1>1, <1>2, <1>4
    DEF Start, StartupStep, LookUp, CreateTables, CommitMigration, CheckFuture,
        Exit, Signal, Drained, Goto, Up
<1> QED BY <1>3, <1>4

(* The handlers of a process end with it.                                  *)
LEMMA LoseInv ==
    ASSUME SessionsIInv, StartupNext, LoseHandlers, StartupTypeOK'
    PROVE  SessionsIInv'
<1>1. /\ UNCHANGED << users, sessions, logouts >>
      /\ \A h \in Handlers : handler'[h] =
            IF handler[h] # Idle /\ phase'[handler[h].proc] = "down"
            THEN Idle ELSE handler[h]
      /\ handler' \in [Handlers -> Busy \cup {Idle}]
    BY DEF LoseHandlers, SessionsIInv, SessionsTypeOK
<1>2. ASSUME NEW h \in Handlers, handler'[h] # Idle
      PROVE  /\ handler'[h] = handler[h] /\ handler[h] # Idle
             /\ phase'[handler[h].proc] \in Up
  <2>1. /\ handler'[h] = handler[h] /\ handler[h] # Idle
        /\ phase'[handler[h].proc] # "down"
    BY <1>1, <1>2
  <2>2. handler[h] \in Busy /\ phase[handler[h].proc] \in Up
    BY <2>1 DEF SessionsIInv, SessionsTypeOK
  <2>3. handler[h].proc \in Procs
    BY <2>2 DEF Busy
  <2> QED BY <2>1, <2>2, <2>3, UpOrDown DEF SessionsIInv, SessionsTypeOK
<1>3. HandlersKnown'
    BY <1>1, <1>2 DEF SessionsIInv, HandlersKnown
<1>4. SessionsTypeOK'
    BY <1>1, <1>3 DEF SessionsIInv, SessionsTypeOK, HandlersKnown
<1>5. OneLogout'
    BY <1>1 DEF SessionsIInv, OneLogout
<1> QED BY <1>3, <1>4, <1>5 DEF SessionsIInv

LEMMA SessionsStepInv ==
    StartupIInv /\ SessionsIInv /\ [ServerNext]_serverVars => SessionsIInv'
<1> SUFFICES ASSUME StartupIInv, SessionsIInv, [ServerNext]_serverVars
             PROVE  SessionsIInv'
    OBVIOUS
<1>1. CASE StartupNext /\ LoseHandlers
  <2>1. StartupTypeOK'
    BY <1>1, StartupStepInv DEF StartupIInv
  <2> QED BY <1>1, <2>1, LoseInv
<1>2. CASE SessionsNext /\ UNCHANGED startupVars
    BY <1>2, CreateUserInv, RequestInv, CreateSessionInv, RevokeInv, ExpireInv
    DEF SessionsNext
<1>3. CASE UNCHANGED serverVars
    BY <1>3 DEF serverVars, sessionVars, startupVars, SessionsIInv,
                SessionsTypeOK, StartupTypeOK, HandlersKnown, OneLogout
<1> QED BY <1>1, <1>2, <1>3 DEF ServerNext

(* The invariant of sessions and requests holds in every reachable state.  *)
THEOREM SessionsInductive == ServerSpec => []SessionsIInv
BY SessionsInitInv, SessionsStepInv, ServerIsStartup, PTL DEF ServerSpec

(* Rows, requests and processes keep their types, and whoever has a        *)
(* session has an account.                                                 *)
THEOREM SessionsTypes == ServerSpec => []SessionsTypeOK
<1>1. SessionsIInv => SessionsTypeOK
    BY DEF SessionsIInv
<1> QED BY <1>1, SessionsInductive, PTL

(* Of any number of racing logouts of a session exactly one succeeds, and  *)
(* no other session is revoked by it (RevokeSession's WHERE).              *)
THEOREM LogoutsOnce == ServerSpec => []OneLogout
<1>1. SessionsIInv => OneLogout
    BY DEF SessionsIInv
<1> QED BY <1>1, SessionsInductive, PTL

(* A session that is closed and has no request left in flight.             *)
Over(t) == Closed(t) /\ InFlight(t) = {}

LEMMA OverStays ==
    ASSUME SessionsIInv, [ServerNext]_serverVars, NEW t \in Tokens, Over(t)
    PROVE  Over(t)'
<1>0. /\ t \in DOMAIN sessions /\ sessions[t] \in SessionRow
      /\ sessions[t].expired \/ sessions[t].revoked
      /\ handler \in [Handlers -> Busy \cup {Idle}]
    BY DEF Over, Closed, SessionsIInv, SessionsTypeOK
<1>1. ASSUME \/ sessions' = sessions
             \/ t \in DOMAIN sessions' /\ sessions'[t] = sessions[t]
             \/ \E i \in DOMAIN sessions :
                   \/ sessions' = [sessions EXCEPT ![i].revoked = TRUE]
                   \/ sessions' = [sessions EXCEPT ![i].expired = TRUE]
      PROVE  Closed(t)'
  <2>1. CASE \/ sessions' = sessions
             \/ t \in DOMAIN sessions' /\ sessions'[t] = sessions[t]
    BY <1>0, <2>1 DEF Closed
  <2>2. ASSUME NEW i \in DOMAIN sessions,
               \/ sessions' = [sessions EXCEPT ![i].revoked = TRUE]
               \/ sessions' = [sessions EXCEPT ![i].expired = TRUE]
        PROVE  Closed(t)'
    <3>1. CASE i = t
      BY <1>0, <2>2, <3>1 DEF Closed, SessionRow
    <3>2. CASE i # t
      BY <1>0, <2>2, <3>2 DEF Closed
    <3> QED BY <3>1, <3>2
  <2> QED BY <1>1, <2>1, <2>2
<1>2. ASSUME \A h \in Handlers :
                \/ handler'[h] = handler[h]
                \/ handler'[h].job \notin {"command", "logout"}
                \/ handler'[h].token # t
      PROVE  InFlight(t)' = {}
    BY <1>2 DEF Over, InFlight
<1>3. CASE StartupNext /\ LoseHandlers
    BY <1>1, <1>2, <1>3 DEF LoseHandlers, Idle, Over
<1>4. CASE SessionsNext
  <2>1. ASSUME NEW p \in Procs, NEW u \in Accounts, CreateUser(p, u)
        PROVE  Over(t)'
    BY <1>1, <1>2, <2>1 DEF CreateUser, Over
  <2>2. ASSUME NEW h \in Handlers, NEW p \in Procs, NEW u \in Accounts,
               UserByEmail(h, p, u)
        PROVE  Over(t)'
    BY <1>0, <1>1, <1>2, <2>2 DEF UserByEmail, Over
  <2>3. ASSUME NEW h \in Handlers, NEW i \in Tokens, CreateSession(h, i)
        PROVE  Over(t)'
    <3>1. i # t /\ sessions'[t] = sessions[t] /\ t \in DOMAIN sessions'
      BY <1>0, <2>3 DEF CreateSession, Insert
    <3>2. \A g \in Handlers : handler'[g] = handler[g] \/ handler'[g].job = "idle"
      BY <1>0, <2>3 DEF CreateSession, Done, Idle
    <3> QED BY <1>1, <1>2, <3>1, <3>2 DEF Over
  <2>4. ASSUME NEW h \in Handlers, NEW p \in Procs, NEW i \in Tokens,
               NEW job \in {"command", "logout"}, ResolveSession(h, p, i, job)
        PROVE  Over(t)'
    <3>1. i # t /\ UNCHANGED sessions
      BY <1>0, <2>4 DEF ResolveSession
    <3>2. \A g \in Handlers : handler'[g] = handler[g] \/ handler'[g].token = i
      BY <1>0, <2>4 DEF ResolveSession
    <3> QED BY <1>1, <1>2, <3>1, <3>2 DEF Over
  <2>5. ASSUME NEW h \in Handlers, Finish(h) \/ RevokeSession(h)
        PROVE  Over(t)'
    <3>1. \A g \in Handlers : handler'[g] = handler[g] \/ handler'[g].job = "idle"
      BY <1>0, <2>5 DEF Finish, RevokeSession, Done, Idle
    <3>2. \/ sessions' = sessions
          \/ \E i \in DOMAIN sessions :
                sessions' = [sessions EXCEPT ![i].revoked = TRUE]
      <4>1. CASE Finish(h)
        BY <4>1 DEF Finish
      <4>2. CASE RevokeSession(h)
        BY <4>2 DEF RevokeSession, Idle, SessionsIInv, HandlersKnown
      <4> QED BY <2>5, <4>1, <4>2
    <3> QED BY <1>1, <1>2, <3>1, <3>2 DEF Over
  <2>6. ASSUME NEW i \in Tokens, SessionExpires(i)
        PROVE  Over(t)'
    BY <1>1, <1>2, <2>6 DEF SessionExpires, Over
  <2> QED BY <1>4, <2>1, <2>2, <2>3, <2>4, <2>5, <2>6 DEF SessionsNext
<1>5. CASE UNCHANGED serverVars
    BY <1>1, <1>2, <1>5 DEF serverVars, sessionVars, Over
<1> QED BY <1>3, <1>4, <1>5 DEF ServerNext

(* Once a session is closed and its requests are done, nothing runs in its *)
(* name again, in no process and after no restart.                         *)
THEOREM LogoutsFinal == ServerSpec => LogoutIsFinal
<1>1. SessionsIInv /\ [ServerNext]_serverVars =>
         [\A t \in Tokens :
             (Closed(t) /\ InFlight(t) = {}) =>
                (Closed(t) /\ InFlight(t) = {})']_serverVars
    BY OverStays DEF Over
<1> QED BY <1>1, SessionsInductive, PTL DEF ServerSpec, LogoutIsFinal
=============================================================================
