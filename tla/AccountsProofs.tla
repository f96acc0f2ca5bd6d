---------------------------- MODULE AccountsProofs ----------------------------
(***************************************************************************)
(* Theorems about Accounts, for every number of users, passwords and       *)
(* requests and every session lifetime.                                    *)
(***************************************************************************)
EXTENDS Accounts, TLAPS

-----------------------------------------------------------------------------
(* What the operators return *)

LEMMA TrimType == ASSUME NEW t \in Typed PROVE TrimSpace(t) \in Typed
BY DEF TrimSpace, Typed

LEMMA NoAccountIsNoPassword == NoAccount \notin Typed
BY AccountsAssumption DEF Typed

LEMMA PatchedType ==
  ASSUME NEW s \in [Fields -> BOOLEAN], NEW p \in Patches
  PROVE  Patched(s, p) \in [Fields -> BOOLEAN]
<1>1. \A f \in DOMAIN p : p[f] \in BOOLEAN
  BY DEF Patches
<1> QED
  BY <1>1 DEF Patched

LEMMA BlankType ==
  ASSUME NEW pc \in {"idle", "read", "write", "session", "clear", "done"}
  PROVE  Blank(pc) \in Req /\ Blank(pc).pc = pc /\ Blank(pc).op = "login"
<1>1. (CHOOSE u \in Users : TRUE) \in Users
  BY AccountsAssumption
<1>2. (CHOOSE t \in Typed : TRUE) \in Typed
  <2>1. PICK w \in Words : TRUE
    BY AccountsAssumption
  <2>2. <<w, TRUE>> \in Typed
    BY <2>1 DEF Typed
  <2> QED
    BY <2>2
<1>3. [f \in {} |-> FALSE] \in Patches
  <2>1. {} \in SUBSET Fields /\ [f \in {} |-> FALSE] \in [{} -> BOOLEAN]
    OBVIOUS
  <2> QED
    BY <2>1 DEF Patches
<1>4. Defaults \in [Fields -> BOOLEAN]
  BY DEF Defaults
<1> QED
  BY <1>1, <1>2, <1>3, <1>4 DEF Blank, Req, Ops

\* The record of one request changes.
Touches(r) == req' \in [Requests -> Req] /\ \A o \in Requests : o # r => req'[o] = req[o]

LEMMA Becomes ==
  ASSUME req \in [Requests -> Req], NEW r \in Requests, NEW x \in Req, req' = [req EXCEPT ![r] = x]
  PROVE  Touches(r) /\ req'[r] = x
BY DEF Touches

LEMMA DoneStep ==
  ASSUME req \in [Requests -> Req], NEW r \in Requests, Done(r)
  PROVE  Touches(r) /\ req'[r].op = "login" /\ req'[r].pc = "done"
BY BlankType, Becomes DEF Done

LEMMA RegisterStartStep ==
  ASSUME req \in [Requests -> Req], NEW r \in Requests, NEW u \in Users, NEW t \in Typed,
         RegisterStart(r, u, t)
  PROVE  Touches(r) /\ req'[r].op = "register" /\ req'[r].pc = "write"
<1> DEFINE x == [req[r] EXCEPT !.op = "register", !.pc = "write", !.user = u, !.typed = TrimSpace(t)]
<1>1. x \in Req /\ x.op = "register" /\ x.pc = "write"
  BY TrimType DEF Req, Ops
<1>2. req' = [req EXCEPT ![r] = x]
  BY DEF RegisterStart
<1> HIDE DEF x
<1> QED
  BY <1>1, <1>2, Becomes

LEMMA RegisterStep ==
  ASSUME req \in [Requests -> Req], NEW r \in Requests, Register(r)
  PROVE  Touches(r) /\ req'[r].op \in {"register", "login"} /\ req'[r].pc \in {"done", "session"}
<1>1. CASE Done(r)
  BY <1>1, DoneStep
<1>2. CASE Goto(r, "session")
  <2> DEFINE x == [req[r] EXCEPT !.pc = "session"]
  <2>1. x \in Req /\ x.op = "register" /\ x.pc = "session"
    BY DEF Req, Register, At
  <2>2. req' = [req EXCEPT ![r] = x]
    BY <1>2 DEF Goto
  <2> HIDE DEF x
  <2> QED
    BY <2>1, <2>2, Becomes
<1> QED
  BY <1>1, <1>2 DEF Register

LEMMA LoginStep ==
  ASSUME req \in [Requests -> Req], NEW r \in Requests, NEW u \in Users, NEW t \in Typed,
         Login(r, u, t)
  PROVE  Touches(r) /\ req'[r].op = "login" /\ req'[r].pc \in {"done", "session"}
<1> DEFINE x == [req[r] EXCEPT !.op = "login", !.pc = "session", !.user = u, !.typed = t]
<1>1. x \in Req /\ x.op = "login" /\ x.pc = "session"
  BY DEF Req, Ops
<1>2. req' = [req EXCEPT ![r] = x] \/ Done(r)
  BY DEF Login
<1> HIDE DEF x
<1> QED
  BY <1>1, <1>2, Becomes, DoneStep

LEMMA OptionalAuthStep ==
  ASSUME req \in [Requests -> Req], NEW r \in Requests, NEW t \in Requests, NEW p \in Patches,
         OptionalAuth(r, t, p), \A i \in DOMAIN sessions : sessions[i] \in Row
  PROVE  Touches(r) /\ req'[r].op \in {"settings", "login"} /\ req'[r].pc \in {"done", "read"}
<1>1. CASE Done(r)
  BY <1>1, DoneStep
<1>2. CASE /\ Valid(t)
           /\ req' = [req EXCEPT ![r] = [@ EXCEPT !.op = "settings", !.pc = "read",
                                                  !.user = sessions[t].user, !.patch = p]]
  <2> DEFINE x == [req[r] EXCEPT !.op = "settings", !.pc = "read", !.user = sessions[t].user, !.patch = p]
  <2>1. sessions[t].user \in Users
    BY <1>2 DEF Valid, Row
  <2>2. x \in Req /\ x.op = "settings" /\ x.pc = "read"
    BY <2>1 DEF Req, Ops
  <2>3. req' = [req EXCEPT ![r] = x]
    BY <1>2
  <2> HIDE DEF x
  <2> QED
    BY <2>2, <2>3, Becomes
<1> QED
  BY <1>1, <1>2 DEF OptionalAuth

LEMMA HandleStep ==
  ASSUME req \in [Requests -> Req], settings \in [Users -> [Fields -> BOOLEAN]],
         NEW r \in Requests, HandleUpdateSettings(r)
  PROVE  /\ Touches(r) /\ req'[r].op = "settings" /\ req'[r].pc = "write"
         /\ req'[r].user = req[r].user /\ req'[r].base = settings[req[r].user]
<1> DEFINE x == [req[r] EXCEPT !.pc = "write", !.base = settings[req[r].user]]
<1>1. /\ x \in Req /\ x.op = "settings" /\ x.pc = "write"
      /\ x.user = req[r].user /\ x.base = settings[req[r].user]
  BY DEF Req, HandleUpdateSettings, At
<1>2. req' = [req EXCEPT ![r] = x]
  BY DEF HandleUpdateSettings, GetSettings
<1> HIDE DEF x
<1> QED
  BY <1>1, <1>2, Becomes

LEMMA AdminSetPasswordStep ==
  ASSUME req \in [Requests -> Req], NEW r \in Requests, NEW u \in Users, NEW t \in Typed,
         AdminSetPassword(r, u, t)
  PROVE  Touches(r) /\ req'[r].op = "reset" /\ req'[r].pc = "clear" /\ req'[r].user = u
<1> DEFINE x == [req[r] EXCEPT !.op = "reset", !.pc = "clear", !.user = u]
<1>1. x \in Req /\ x.op = "reset" /\ x.pc = "clear" /\ x.user = u
  BY DEF Req, Ops
<1>2. req' = [req EXCEPT ![r] = x]
  BY DEF AdminSetPassword
<1> HIDE DEF x
<1> QED
  BY <1>1, <1>2, Becomes

\* The steps that only end a request.
Ends(r) ==
  \/ SignInFails(r) \/ (\E t \in Requests : Logout(r, t)) \/ SettingsFail(r)

-----------------------------------------------------------------------------
(* Type correctness *)

SessionsOK == DOMAIN sessions \subseteq Requests /\ \A t \in DOMAIN sessions : sessions[t] \in Row

LEMMA FewerSessions ==
  ASSUME SessionsOK, NEW T, sessions' = Without(T)
  PROVE  /\ SessionsOK'
         /\ \A t \in DOMAIN sessions' : t \in DOMAIN sessions /\ t \notin T /\ sessions'[t] = sessions[t]
BY DEF SessionsOK, Without

LEMMA InitType == Init => TypeOK
<1> SUFFICES ASSUME Init PROVE TypeOK
  OBVIOUS
<1>1. Blank("idle") \in Req
  BY BlankType
<1>2. Defaults \in [Fields -> BOOLEAN]
  BY DEF Defaults
<1>3. DOMAIN sessions = {}
  BY DEF Init
<1>4. clock \in 0..MaxClock /\ faults \in 0..MaxFaults
  BY AccountsAssumption DEF Init
<1> QED
  BY <1>1, <1>2, <1>3, <1>4 DEF Init, TypeOK

LEMMA FaultType == ASSUME faults \in 0..MaxFaults, NoFault \/ Fault PROVE faults' \in 0..MaxFaults
BY AccountsAssumption DEF NoFault, Fault

LEMMA StepType == TypeOK /\ [Next]_vars => TypeOK'
<1> SUFFICES ASSUME TypeOK, [Next]_vars PROVE TypeOK'
  OBVIOUS
<1> USE DEF TypeOK
<1>0. SessionsOK
  BY DEF SessionsOK
<1>1. ASSUME NEW r \in Requests, NEW u \in Users, NEW t \in Typed, RegisterStart(r, u, t) PROVE TypeOK'
  BY <1>1, RegisterStartStep DEF RegisterStart, Touches, Histories
<1>2. ASSUME NEW r \in Requests, NEW u \in Users, NEW t \in Typed, Login(r, u, t) PROVE TypeOK'
  BY <1>2, LoginStep DEF Login, Touches, Histories
<1>3. ASSUME NEW r \in Requests, Register(r) PROVE TypeOK'
  <2>1. req[r].user \in Users /\ req[r].typed \in Typed
    BY DEF Req
  <2>2. password' \in [Users -> Typed \cup {NoAccount}]
    BY <1>3, <2>1 DEF Register
  <2> QED
    BY <1>3, <2>2, RegisterStep DEF Register, Touches, Histories, NoFault
<1>4. ASSUME NEW r \in Requests, CreateSession(r) PROVE TypeOK'
  <2> DEFINE s == [user |-> req[r].user, expires |-> ExpiresAt, typed |-> req[r].typed,
                   late |-> password[req[r].user] # req[r].typed]
  <2>1. s \in Row
    <3>1. req[r].user \in Users /\ req[r].typed \in Typed
      BY DEF Req
    <3>2. ExpiresAt \in TTL..(MaxClock + TTL)
      BY AccountsAssumption DEF ExpiresAt
    <3> QED
      BY <3>1, <3>2 DEF Row
  <2>2. sessions' = [t \in DOMAIN sessions \cup {r} |-> IF t = r THEN s ELSE sessions[t]]
    BY <1>4 DEF CreateSession
  <2> HIDE DEF s
  <2>3. SessionsOK'
    BY <1>0, <2>1, <2>2 DEF SessionsOK
  <2> QED
    BY <1>4, <2>3, DoneStep DEF CreateSession, Touches, Histories, NoFault, SessionsOK
<1>5. ASSUME NEW r \in Requests, Ends(r) PROVE TypeOK'
  <2>1. Done(r) /\ (NoFault \/ Fault) /\ (UNCHANGED sessions \/ \E t \in Requests : sessions' = Without({t}))
        /\ UNCHANGED <<password, settings, clock, Histories>>
    BY <1>5 DEF Ends, SignInFails, Logout, SettingsFail
  <2>2. SessionsOK'
    BY <1>0, <2>1, FewerSessions DEF SessionsOK
  <2>3. Touches(r) /\ faults' \in 0..MaxFaults
    BY <2>1, DoneStep, FaultType
  <2> QED
    BY <2>1, <2>2, <2>3 DEF SessionsOK, Touches, Histories
<1>6. ASSUME NEW r \in Requests, NEW t \in Requests, NEW p \in Patches, OptionalAuth(r, t, p) PROVE TypeOK'
  <2>1. Touches(r)
    BY <1>6, OptionalAuthStep
  <2>2. faults' \in 0..MaxFaults
    BY <1>6, FaultType DEF OptionalAuth
  <2> QED
    BY <1>6, <2>1, <2>2 DEF OptionalAuth, Touches, Histories
<1>7. ASSUME NEW r \in Requests, HandleUpdateSettings(r) PROVE TypeOK'
  BY <1>7, HandleStep DEF HandleUpdateSettings, Touches, Histories, NoFault
<1>8. ASSUME NEW r \in Requests, UpdateSettings(r) PROVE TypeOK'
  <2>1. req[r].user \in Users /\ req[r].base \in [Fields -> BOOLEAN] /\ req[r].patch \in Patches
    BY DEF Req
  <2>2. /\ Patched(req[r].base, req[r].patch) \in [Fields -> BOOLEAN]
        /\ Patched(wanted[req[r].user], req[r].patch) \in [Fields -> BOOLEAN]
    BY <2>1, PatchedType
  <2>3. settings' \in [Users -> [Fields -> BOOLEAN]] /\ wanted' \in [Users -> [Fields -> BOOLEAN]]
    BY <1>8, <2>1, <2>2 DEF UpdateSettings
  <2>4. raced' \subseteq Users
    BY <1>8, <2>1 DEF UpdateSettings
  <2>5. Touches(r)
    BY <1>8, DoneStep DEF UpdateSettings
  <2> QED
    BY <1>8, <2>3, <2>4, <2>5 DEF UpdateSettings, Touches, NoFault
<1>9. ASSUME NEW r \in Requests, NEW u \in Users, NEW t \in Typed, AdminSetPassword(r, u, t) PROVE TypeOK'
  BY <1>9, AdminSetPasswordStep DEF AdminSetPassword, Touches, Histories
<1>10. ASSUME NEW r \in Requests, DeleteAllSessionsForUser(r) PROVE TypeOK'
  <2>1. SessionsOK' /\ Touches(r)
    BY <1>0, <1>10, FewerSessions, DoneStep DEF DeleteAllSessionsForUser
  <2> QED
    BY <1>10, <2>1 DEF DeleteAllSessionsForUser, SessionsOK, Touches, NoFault
<1>11. ASSUME NEW r \in Requests, DeleteAllFails(r) PROVE TypeOK'
  <2>1. Touches(r) /\ faults' \in 0..MaxFaults
    BY <1>11, DoneStep, FaultType DEF DeleteAllFails
  <2>2. req[r].user \in Users
    BY DEF Req
  <2> QED
    BY <1>11, <2>1, <2>2 DEF DeleteAllFails, Touches
<1>12. CASE DeleteExpiredSessions
  <2>1. SessionsOK'
    BY <1>0, <1>12, FewerSessions DEF DeleteExpiredSessions
  <2> QED
    BY <1>12, <2>1 DEF DeleteExpiredSessions, SessionsOK, Histories
<1>13. CASE Tick
  BY <1>13, AccountsAssumption DEF Tick, Histories
<1>14. CASE UNCHANGED vars
  BY <1>14 DEF vars
<1> QED
  BY <1>1, <1>2, <1>3, <1>4, <1>5, <1>6, <1>7, <1>8, <1>9, <1>10, <1>11, <1>12, <1>13, <1>14
     DEF Next, Request, Ends

\* The rows, the locals of requests and the histories have their types, for every set of
\* users, passwords and requests.
THEOREM AccountsTyped == Spec => []TypeOK
BY InitType, StepType, PTL DEF Spec

-----------------------------------------------------------------------------
(* Passwords *)

\* The steps that change a password are the registration of a free address and an
\* administrator's reset: of an address that has an account only the reset remains
\* (auth.go:84 leaves the race of two registrations to the unique key).
THEOREM AccountsKeepTheirPassword == Spec => PasswordOnlyByReset
<1> DEFINE Step == \A u \in Users : password[u] # NoAccount /\ password'[u] # password[u] =>
                     \E r \in Requests : /\ req[r].pc = "idle"
                                         /\ At(r, "reset", "clear")' /\ req'[r].user = u
<1>1. TypeOK /\ [Next]_vars => Step
  <2> SUFFICES ASSUME TypeOK, [Next]_vars, NEW u \in Users,
                      password[u] # NoAccount, password'[u] # password[u]
               PROVE  \E r \in Requests : /\ req[r].pc = "idle"
                                          /\ At(r, "reset", "clear")' /\ req'[r].user = u
    OBVIOUS
  <2>1. ASSUME NEW r \in Requests, Register(r) PROVE FALSE
    <3>1. password' = password \/ (password[req[r].user] = NoAccount
                                   /\ password' = [password EXCEPT ![req[r].user] = req[r].typed])
      BY <2>1 DEF Register, Taken
    <3> QED
      BY <3>1 DEF TypeOK
  <2>2. ASSUME NEW r \in Requests, NEW v \in Users, NEW t \in Typed, AdminSetPassword(r, v, t)
        PROVE  req[r].pc = "idle" /\ At(r, "reset", "clear")' /\ req'[r].user = u
    <3>1. u = v
      BY <2>2 DEF AdminSetPassword, TypeOK
    <3>2. req[r].pc = "idle"
      BY <2>2 DEF AdminSetPassword
    <3> QED
      BY <2>2, <3>1, <3>2, AdminSetPasswordStep DEF TypeOK, At
  <2>3. password' = password \/ (\E r \in Requests : Register(r))
        \/ (\E r \in Requests, v \in Users, t \in Typed : AdminSetPassword(r, v, t))
    BY DEF Next, Request, RegisterStart, Login, CreateSession, SignInFails, Logout, OptionalAuth,
           HandleUpdateSettings, UpdateSettings, SettingsFail, DeleteAllSessionsForUser,
           DeleteAllFails, DeleteExpiredSessions, Tick, vars
  <2> QED
    BY <2>1, <2>2, <2>3
<1>2. TypeOK /\ [Next]_vars => [Step]_vars
  BY <1>1
<1> QED
  BY AccountsTyped, <1>2, PTL DEF Spec, PasswordOnlyByReset

-----------------------------------------------------------------------------
(* Sessions after a reset *)

\* A request that is not a reset about to delete keeps the reason a session may be stale
\* for, when no session is new and no password of an account changes.
LEMMA StaleKept ==
  ASSUME TypeOK, StaleSessionIsLate, NEW r \in Requests, Touches(r), ~At(r, "reset", "clear"),
         \A t \in DOMAIN sessions' : t \in DOMAIN sessions /\ sessions'[t] = sessions[t],
         \A u \in Users : password'[u] = password[u] \/ password[u] = NoAccount,
         uncleared' = uncleared
  PROVE  StaleSessionIsLate'
<1> SUFFICES ASSUME NEW t \in DOMAIN sessions', sessions'[t].typed # password'[sessions'[t].user],
                    ~sessions'[t].late, sessions'[t].user \notin uncleared'
             PROVE  \E o \in Requests : At(o, "reset", "clear")' /\ req'[o].user = sessions'[t].user
  BY DEF StaleSessionIsLate
<1>1. t \in DOMAIN sessions /\ sessions'[t] = sessions[t]
  OBVIOUS
<1>2. sessions[t].user \in Users /\ sessions[t].typed # NoAccount
  BY <1>1, NoAccountIsNoPassword DEF TypeOK, Row
<1>3. sessions[t].typed # password[sessions[t].user]
  BY <1>1, <1>2
<1>4. PICK o \in Requests : At(o, "reset", "clear") /\ req[o].user = sessions[t].user
  BY <1>1, <1>3 DEF StaleSessionIsLate
<1>5. req'[o] = req[o]
  BY <1>4 DEF Touches
<1> QED
  BY <1>1, <1>4, <1>5 DEF At

LEMMA StaleStep == TypeOK /\ StaleSessionIsLate /\ [Next]_vars => StaleSessionIsLate'
<1> SUFFICES ASSUME TypeOK, StaleSessionIsLate, [Next]_vars PROVE StaleSessionIsLate'
  OBVIOUS
<1>0. req \in [Requests -> Req] /\ SessionsOK
  BY DEF TypeOK, SessionsOK
<1>1. ASSUME NEW r \in Requests, NEW u \in Users, NEW t \in Typed, RegisterStart(r, u, t)
      PROVE  StaleSessionIsLate'
  BY <1>0, <1>1, StaleKept, RegisterStartStep DEF RegisterStart, At, Histories
<1>2. ASSUME NEW r \in Requests, NEW u \in Users, NEW t \in Typed, Login(r, u, t)
      PROVE  StaleSessionIsLate'
  BY <1>0, <1>2, StaleKept, LoginStep DEF Login, At, Histories
<1>3. ASSUME NEW r \in Requests, Register(r) PROVE StaleSessionIsLate'
  <2>1. \A u \in Users : password'[u] = password[u] \/ password[u] = NoAccount
    BY <1>3 DEF Register, Taken, TypeOK
  <2> QED
    BY <1>0, <1>3, <2>1, StaleKept, RegisterStep DEF Register, At, Histories
<1>4. ASSUME NEW r \in Requests, CreateSession(r) PROVE StaleSessionIsLate'
  <2> SUFFICES ASSUME NEW t \in DOMAIN sessions', sessions'[t].typed # password'[sessions'[t].user],
                      ~sessions'[t].late, sessions'[t].user \notin uncleared'
               PROVE  \E o \in Requests : At(o, "reset", "clear")' /\ req'[o].user = sessions'[t].user
    BY DEF StaleSessionIsLate
  <2>1. password' = password /\ uncleared' = uncleared /\ Touches(r) /\ req[r].pc = "session"
    BY <1>0, <1>4, DoneStep DEF CreateSession, Histories
  <2>2. t # r
    <3>1. ASSUME t = r PROVE FALSE
      <4>1. sessions'[r] = [user |-> req[r].user, expires |-> ExpiresAt, typed |-> req[r].typed,
                            late |-> password[req[r].user] # req[r].typed]
        BY <1>4 DEF CreateSession
      <4>2. sessions'[r].late = (password[sessions'[r].user] # sessions'[r].typed)
        BY <4>1
      <4> QED
        BY <2>1, <3>1, <4>2
    <3> QED
      BY <3>1
  <2>3. t \in DOMAIN sessions /\ sessions'[t] = sessions[t]
    BY <1>4, <2>2 DEF CreateSession
  <2>4. PICK o \in Requests : At(o, "reset", "clear") /\ req[o].user = sessions[t].user
    BY <2>1, <2>3 DEF StaleSessionIsLate
  <2>5. req'[o] = req[o]
    BY <2>1, <2>4 DEF Touches, At
  <2> QED
    BY <2>3, <2>4, <2>5 DEF At
<1>5. ASSUME NEW r \in Requests, Ends(r) PROVE StaleSessionIsLate'
  <2>1. /\ Done(r) /\ (UNCHANGED sessions \/ \E t \in Requests : sessions' = Without({t}))
        /\ UNCHANGED <<password, Histories>> /\ ~At(r, "reset", "clear")
    BY <1>5 DEF Ends, SignInFails, Logout, SettingsFail, At
  <2>2. \A t \in DOMAIN sessions' : t \in DOMAIN sessions /\ sessions'[t] = sessions[t]
    BY <1>0, <2>1, FewerSessions
  <2> QED
    BY <1>0, <2>1, <2>2, StaleKept, DoneStep DEF Histories
<1>6. ASSUME NEW r \in Requests, NEW t \in Requests, NEW p \in Patches, OptionalAuth(r, t, p)
      PROVE  StaleSessionIsLate'
  <2>1. Touches(r)
    BY <1>6, OptionalAuthStep DEF TypeOK
  <2> QED
    BY <1>6, <2>1, StaleKept DEF OptionalAuth, At, Histories
<1>7. ASSUME NEW r \in Requests, HandleUpdateSettings(r) PROVE StaleSessionIsLate'
  <2>1. Touches(r)
    BY <1>7, HandleStep DEF TypeOK
  <2> QED
    BY <1>7, <2>1, StaleKept DEF HandleUpdateSettings, At, Histories
<1>8. ASSUME NEW r \in Requests, UpdateSettings(r) PROVE StaleSessionIsLate'
  <2>1. Touches(r)
    BY <1>0, <1>8, DoneStep DEF UpdateSettings
  <2> QED
    BY <1>8, <2>1, StaleKept DEF UpdateSettings, At
<1>9. ASSUME NEW r \in Requests, NEW u \in Users, NEW t \in Typed, AdminSetPassword(r, u, t)
      PROVE  StaleSessionIsLate'
  <2> SUFFICES ASSUME NEW i \in DOMAIN sessions', sessions'[i].typed # password'[sessions'[i].user],
                      ~sessions'[i].late, sessions'[i].user \notin uncleared'
               PROVE  \E o \in Requests : At(o, "reset", "clear")' /\ req'[o].user = sessions'[i].user
    BY DEF StaleSessionIsLate
  <2>1. /\ Touches(r) /\ At(r, "reset", "clear")' /\ req'[r].user = u
        /\ sessions' = sessions /\ uncleared' = uncleared /\ req[r].pc = "idle"
    BY <1>0, <1>9, AdminSetPasswordStep DEF AdminSetPassword, Histories, At
  <2>2. CASE sessions[i].user = u
    BY <2>1, <2>2
  <2>3. CASE sessions[i].user # u
    <3>1. sessions[i].user \in Users
      BY <1>0, <2>1 DEF SessionsOK, Row
    <3>2. password'[sessions[i].user] = password[sessions[i].user]
      BY <1>9, <2>3, <3>1 DEF AdminSetPassword, TypeOK
    <3>3. PICK o \in Requests : At(o, "reset", "clear") /\ req[o].user = sessions[i].user
      BY <2>1, <3>2 DEF StaleSessionIsLate
    <3>4. req'[o] = req[o]
      BY <2>1, <3>3 DEF Touches, At
    <3> QED
      BY <2>1, <3>3, <3>4 DEF At
  <2> QED
    BY <2>2, <2>3
<1>10. ASSUME NEW r \in Requests, DeleteAllSessionsForUser(r) \/ DeleteAllFails(r)
       PROVE  StaleSessionIsLate'
  <2> SUFFICES ASSUME NEW i \in DOMAIN sessions', sessions'[i].typed # password'[sessions'[i].user],
                      ~sessions'[i].late, sessions'[i].user \notin uncleared'
               PROVE  \E o \in Requests : At(o, "reset", "clear")' /\ req'[o].user = sessions'[i].user
    BY DEF StaleSessionIsLate
  <2>1. Touches(r) /\ password' = password
    BY <1>0, <1>10, DoneStep DEF DeleteAllSessionsForUser, DeleteAllFails
  <2>2. i \in DOMAIN sessions /\ sessions'[i] = sessions[i] /\ sessions[i].user # req[r].user
        /\ sessions[i].user \notin uncleared
    <3>1. CASE DeleteAllSessionsForUser(r)
      <4>1. i \in DOMAIN sessions /\ i \notin SessionsOf(req[r].user) /\ sessions'[i] = sessions[i]
        BY <1>0, <3>1, FewerSessions DEF DeleteAllSessionsForUser
      <4>2. sessions[i].user # req[r].user
        BY <4>1 DEF SessionsOf
      <4> QED
        BY <3>1, <4>1, <4>2 DEF DeleteAllSessionsForUser
    <3>2. CASE DeleteAllFails(r)
      BY <3>2 DEF DeleteAllFails
    <3> QED
      BY <1>10, <3>1, <3>2
  <2>3. PICK o \in Requests : At(o, "reset", "clear") /\ req[o].user = sessions[i].user
    BY <2>1, <2>2 DEF StaleSessionIsLate
  <2>4. req'[o] = req[o]
    BY <2>1, <2>2, <2>3 DEF Touches
  <2> QED
    BY <2>2, <2>3, <2>4 DEF At
<1>11. CASE DeleteExpiredSessions
  <2>1. \A t \in DOMAIN sessions' : t \in DOMAIN sessions /\ sessions'[t] = sessions[t]
    BY <1>0, <1>11, FewerSessions DEF DeleteExpiredSessions
  <2>2. password' = password /\ req' = req /\ uncleared' = uncleared
    BY <1>11 DEF DeleteExpiredSessions, Histories
  <2> QED
    BY <2>1, <2>2 DEF StaleSessionIsLate, At
<1>12. CASE Tick \/ UNCHANGED vars
  BY <1>12 DEF Tick, vars, Histories, StaleSessionIsLate, At
<1> QED
  BY <1>1, <1>2, <1>3, <1>4, <1>5, <1>6, <1>7, <1>8, <1>9, <1>10, <1>11, <1>12
     DEF Next, Request, Ends

\* After a reset, a session obtained with an earlier password is one that a login created
\* late, or that a failed DELETE has left, or is about to be deleted (auth/admin.go:50).
THEOREM ResetEndsSessions == Spec => []StaleSessionIsLate
<1>1. Init => StaleSessionIsLate
  BY DEF Init, StaleSessionIsLate
<1> QED
  BY <1>1, AccountsTyped, StaleStep, PTL DEF Spec

-----------------------------------------------------------------------------
(* Settings.  The value that an update has read is the present one, unless  *)
(* another update has been written since: then the user is in raced.        *)

BaseIsCurrent ==
  \A o \in Requests : At(o, "settings", "write") /\ req[o].user \notin raced =>
                        req[o].base = settings[req[o].user]

SettingsInv == SettingsKept /\ BaseIsCurrent

LEMMA SettingsIdle ==
  ASSUME SettingsInv, NEW r \in Requests, Touches(r), ~At(r, "settings", "write")',
         UNCHANGED <<settings, wanted, raced>>
  PROVE  SettingsInv'
<1>1. \A o \in Requests : At(o, "settings", "write")' => o # r /\ req'[o] = req[o]
  BY DEF Touches
<1> QED
  BY <1>1 DEF SettingsInv, SettingsKept, BaseIsCurrent, At

LEMMA SettingsStep == TypeOK /\ SettingsInv /\ [Next]_vars => SettingsInv'
<1> SUFFICES ASSUME TypeOK, SettingsInv, [Next]_vars PROVE SettingsInv'
  OBVIOUS
<1>0. req \in [Requests -> Req] /\ settings \in [Users -> [Fields -> BOOLEAN]]
  BY DEF TypeOK
<1>1. ASSUME NEW r \in Requests, NEW u \in Users, NEW t \in Typed,
             RegisterStart(r, u, t) \/ Login(r, u, t) \/ AdminSetPassword(r, u, t)
      PROVE  SettingsInv'
  <2>1. Touches(r) /\ req'[r].op \in {"register", "login", "reset"}
    BY <1>0, <1>1, RegisterStartStep, LoginStep, AdminSetPasswordStep
  <2>2. UNCHANGED <<settings, wanted, raced>>
    BY <1>1 DEF RegisterStart, Login, AdminSetPassword, Histories
  <2> QED
    BY <2>1, <2>2, SettingsIdle DEF At
<1>2. ASSUME NEW r \in Requests, Register(r) PROVE SettingsInv'
  BY <1>0, <1>2, RegisterStep, SettingsIdle DEF Register, At, Histories
<1>3. ASSUME NEW r \in Requests,
             CreateSession(r) \/ Ends(r) \/ DeleteAllSessionsForUser(r) \/ DeleteAllFails(r)
      PROVE  SettingsInv'
  <2>1. Done(r) /\ UNCHANGED <<settings, wanted, raced>>
    BY <1>3 DEF CreateSession, Ends, SignInFails, Logout, SettingsFail, DeleteAllSessionsForUser,
                DeleteAllFails, Histories
  <2>2. Touches(r) /\ req'[r].op = "login"
    BY <1>0, <2>1, DoneStep
  <2> QED
    BY <2>1, <2>2, SettingsIdle DEF At
<1>4. ASSUME NEW r \in Requests, NEW t \in Requests, NEW p \in Patches, OptionalAuth(r, t, p)
      PROVE  SettingsInv'
  <2>1. Touches(r) /\ req'[r].pc \in {"done", "read"}
    BY <1>4, OptionalAuthStep DEF TypeOK
  <2> QED
    BY <1>4, <2>1, SettingsIdle DEF OptionalAuth, At, Histories
<1>5. ASSUME NEW r \in Requests, HandleUpdateSettings(r) PROVE SettingsInv'
  <2>1. /\ Touches(r) /\ req'[r].user = req[r].user /\ req'[r].base = settings[req[r].user]
        /\ UNCHANGED <<settings, wanted, raced>>
    BY <1>0, <1>5, HandleStep DEF HandleUpdateSettings, Histories
  <2>2. SettingsKept'
    BY <2>1 DEF SettingsInv, SettingsKept
  <2>3. ASSUME NEW o \in Requests, At(o, "settings", "write")', req'[o].user \notin raced'
        PROVE  req'[o].base = settings'[req'[o].user]
    <3>1. CASE o = r
      BY <2>1, <3>1
    <3>2. CASE o # r
      BY <2>1, <2>3, <3>2 DEF Touches, At, SettingsInv, BaseIsCurrent
    <3> QED
      BY <3>1, <3>2
  <2> QED
    BY <2>2, <2>3 DEF SettingsInv, BaseIsCurrent
<1>6. ASSUME NEW r \in Requests, UpdateSettings(r) PROVE SettingsInv'
  <2> DEFINE u == req[r].user
  <2>1. /\ u \in Users /\ At(r, "settings", "write")
        /\ settings' = [settings EXCEPT ![u] = Patched(req[r].base, req[r].patch)]
        /\ wanted' = [wanted EXCEPT ![u] = Patched(wanted[u], req[r].patch)]
        /\ raced \subseteq raced'
        /\ (\E o \in Requests \ {r} : At(o, "settings", "write") /\ req[o].user = u) => u \in raced'
    BY <1>0, <1>6 DEF UpdateSettings, Req
  <2>2. Touches(r) /\ req'[r].op = "login"
    BY <1>0, <1>6, DoneStep DEF UpdateSettings
  <2> HIDE DEF u
  <2>3. ASSUME NEW v \in Users \ raced' PROVE settings'[v] = wanted'[v]
    <3>1. CASE v = u
      <4>1. settings[u] = wanted[u] /\ req[r].base = settings[u]
        BY <2>1, <2>3, <3>1 DEF SettingsInv, SettingsKept, BaseIsCurrent, u
      <4>2. /\ settings'[u] = Patched(req[r].base, req[r].patch)
            /\ wanted'[u] = Patched(wanted[u], req[r].patch)
        BY <2>1 DEF TypeOK
      <4> QED
        BY <3>1, <4>1, <4>2
    <3>2. CASE v # u
      BY <2>1, <2>3, <3>2 DEF SettingsInv, SettingsKept, TypeOK
    <3> QED
      BY <3>1, <3>2
  <2>4. ASSUME NEW o \in Requests, At(o, "settings", "write")', req'[o].user \notin raced'
        PROVE  req'[o].base = settings'[req'[o].user]
    <3>1. o # r /\ req'[o] = req[o] /\ At(o, "settings", "write")
      BY <2>2, <2>4 DEF At, Touches
    <3>2. req[o].user # u /\ req[o].user \in Users
      BY <1>0, <2>1, <2>4, <3>1 DEF Req
    <3>3. req[o].base = settings[req[o].user]
      BY <2>1, <2>4, <3>1 DEF SettingsInv, BaseIsCurrent
    <3>4. settings'[req[o].user] = settings[req[o].user]
      BY <2>1, <3>2 DEF TypeOK
    <3> QED
      BY <3>1, <3>3, <3>4
  <2> QED
    BY <2>3, <2>4 DEF SettingsInv, SettingsKept, BaseIsCurrent
<1>7. CASE UNCHANGED <<req, settings, wanted, raced>>
  BY <1>7 DEF SettingsInv, SettingsKept, BaseIsCurrent, At
<1>8. CASE DeleteExpiredSessions \/ Tick \/ UNCHANGED vars
  BY <1>7, <1>8 DEF DeleteExpiredSessions, Tick, vars, Histories
<1> QED
  BY <1>1, <1>2, <1>3, <1>4, <1>5, <1>6, <1>8 DEF Next, Request, Ends

\* Until two updates of a user overlap, each setting has the value last written for it
\* (authhandlers.go:205 reads both, patches, and writes both).
THEOREM SettingsAreKept == Spec => []SettingsKept
<1>1. Init => SettingsInv
  <2>1. ASSUME Init PROVE \A o \in Requests : ~At(o, "settings", "write")
    BY <2>1, BlankType DEF Init, At
  <2> QED
    BY <2>1 DEF Init, SettingsInv, SettingsKept, BaseIsCurrent
<1>2. SettingsInv => SettingsKept
  BY DEF SettingsInv
<1> QED
  BY <1>1, <1>2, AccountsTyped, SettingsStep, PTL DEF Spec

=============================================================================
