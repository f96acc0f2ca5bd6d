------------------------------- MODULE Accounts -------------------------------
(***************************************************************************)
(* User accounts, server-side sessions and user settings (internal/auth    *)
(* and internal/api/authhandlers.go).  A handler is a sequence of separate *)
(* SQL statements without a transaction: requests of any number of         *)
(* browsers, an administrator's password reset and the sweeper of expired  *)
(* sessions interleave between them.                                       *)
(*                                                                         *)
(* A session is named by the request that created it: its token is 32      *)
(* random bytes, so no two requests create the same one.  A user without a *)
(* user_settings row has the settings of a row of zeros, and is modelled   *)
(* by it.  What a sign-in does last, claiming the browser's anonymous      *)
(* jobs, is in JobLifecycle.                                               *)
(***************************************************************************)
EXTENDS Integers, FiniteSets

CONSTANTS
  Users,      \* e-mail addresses; the row of an address is never deleted
  Words,      \* passwords, without the blanks around them
  Requests,   \* each is made at most once
  NoAccount,
  TTL,        \* session lifetime, in ticks
  MaxClock,   \* bound on the clock
  MaxFaults   \* bound on failing statements

ASSUME AccountsAssumption ==
  /\ Users # {} /\ Words # {}
  /\ NoAccount \notin Words \X BOOLEAN
  /\ TTL \in Nat \ {0} /\ MaxClock \in Nat /\ MaxFaults \in Nat

VARIABLES
  password,   \* users.password_hash: the password it was derived from
  sessions,   \* user_sessions, by token
  settings,   \* user_settings
  req,        \* progress and locals of each request
  clock, faults,
  wanted,     \* history: the last value written for each setting by a request that named it
  raced,      \* history: users with an update of settings between another's read and write
  uncleared   \* history: users whose sessions outlived a reset, its DELETE having failed

vars == <<password, sessions, settings, req, clock, faults, wanted, raced, uncleared>>

\* What is typed into a form: a password and whether there are blanks around it.
Typed == Words \X BOOLEAN
TrimSpace(t) == <<t[1], FALSE>>

Fields == {"community_auto_public", "prompt_public"}
Defaults == [f \in Fields |-> FALSE]
\* The fields a request names (pointers that are not nil), with their values.
Patches == UNION {[F -> BOOLEAN] : F \in SUBSET Fields}
Patched(s, p) == [f \in Fields |-> IF f \in DOMAIN p THEN p[f] ELSE s[f]]

Row == [user : Users, expires : TTL..(MaxClock + TTL),
        typed : Typed,      \* history: the password the session was obtained with
        late : BOOLEAN]     \* history: it was no longer the password at the INSERT

Ops == {"register", "login", "settings", "reset"}
Req == [op : Ops, pc : {"idle", "read", "write", "session", "clear", "done"},
        user : Users, typed : Typed,
        patch : Patches, base : [Fields -> BOOLEAN]]

\* A request that has not begun, or whose locals are gone.
Blank(pc) == [op |-> "login", pc |-> pc,
              user |-> CHOOSE u \in Users : TRUE, typed |-> CHOOSE t \in Typed : TRUE,
              patch |-> [f \in {} |-> FALSE], base |-> Defaults]

TypeOK ==
  /\ password \in [Users -> Typed \cup {NoAccount}]
  /\ DOMAIN sessions \subseteq Requests
  /\ \A t \in DOMAIN sessions : sessions[t] \in Row
  /\ settings \in [Users -> [Fields -> BOOLEAN]]
  /\ req \in [Requests -> Req]
  /\ clock \in 0..MaxClock /\ faults \in 0..MaxFaults
  /\ wanted \in [Users -> [Fields -> BOOLEAN]]
  /\ raced \subseteq Users /\ uncleared \subseteq Users

Init ==
  /\ password = [u \in Users |-> NoAccount]
  /\ sessions = [t \in {} |-> 0]
  /\ settings = [u \in Users |-> Defaults]
  /\ req = [r \in Requests |-> Blank("idle")]
  /\ clock = 0 /\ faults = 0
  /\ wanted = [u \in Users |-> Defaults]
  /\ raced = {} /\ uncleared = {}

-----------------------------------------------------------------------------
(* Helpers *)

At(r, op, pc) == req[r].op = op /\ req[r].pc = pc
Goto(r, pc) == req' = [req EXCEPT ![r].pc = pc]
Done(r) == req' = [req EXCEPT ![r] = Blank("done")]
NoFault == UNCHANGED faults
Fault == faults < MaxFaults /\ faults' = faults + 1
Histories == <<wanted, raced, uncleared>>

\* ValidateSession: the row is there and expires_at > NOW().
Valid(t) == t \in DOMAIN sessions /\ sessions[t].expires > clock
Without(T) == [t \in DOMAIN sessions \ T |-> sessions[t]]
SessionsOf(u) == {t \in DOMAIN sessions : sessions[t].user = u}

-----------------------------------------------------------------------------
(* POST /api/auth/register and /api/auth/login *)

RegisterStart(r, u, t) ==
  /\ req[r].pc = "idle"
  /\ req' = [req EXCEPT ![r] = [@ EXCEPT !.op = "register", !.pc = "write", !.user = u,
                                         !.typed = TrimSpace(t)]]
  /\ UNCHANGED <<password, sessions, settings, clock, faults, Histories>>

\* INSERT INTO users: the unique key on the address refuses the second one (email_taken).
\* Mutant: users has no unique key on the address.
Taken_NotUnique(u) == FALSE
Taken(u) == password[u] # NoAccount
Register(r) ==
  /\ At(r, "register", "write")
  /\ IF Taken(req[r].user)
       THEN Done(r) /\ UNCHANGED password
       ELSE /\ Goto(r, "session")
            /\ password' = [password EXCEPT ![req[r].user] = req[r].typed]
  /\ NoFault
  /\ UNCHANGED <<sessions, settings, clock, Histories>>

\* A login reads the row and compares the password typed, blanks included, with it.
Login(r, u, t) ==
  /\ req[r].pc = "idle"
  /\ IF password[u] = t
       THEN req' = [req EXCEPT ![r] = [@ EXCEPT !.op = "login", !.pc = "session", !.user = u,
                                                !.typed = t]]
       ELSE Done(r)
  /\ UNCHANGED <<password, sessions, settings, clock, faults, Histories>>

\* Mutant: the lifetime is not added.
ExpiresAt_NoTTL == clock
ExpiresAt == clock + TTL

CreateSession(r) ==
  /\ req[r].pc = "session"
  /\ sessions' = [t \in DOMAIN sessions \cup {r} |->
                    IF t = r THEN [user |-> req[r].user, expires |-> ExpiresAt,
                                   typed |-> req[r].typed,
                                   late |-> password[req[r].user] # req[r].typed]
                             ELSE sessions[t]]
  /\ Done(r)
  /\ NoFault
  /\ UNCHANGED <<password, settings, clock, Histories>>

\* The account stays when its first session cannot be created.
SignInFails(r) ==
  /\ \/ At(r, "register", "write")
     \/ req[r].pc = "session"
  /\ Done(r)
  /\ Fault
  /\ UNCHANGED <<password, sessions, settings, clock, Histories>>

-----------------------------------------------------------------------------
(* POST /api/auth/logout: a failed DELETE is ignored *)

Logout(r, t) ==
  /\ req[r].pc = "idle"
  /\ Done(r)
  /\ \/ sessions' = Without({t}) /\ NoFault
     \/ UNCHANGED sessions /\ Fault
  /\ UNCHANGED <<password, settings, clock, Histories>>

-----------------------------------------------------------------------------
(* PUT /api/user/settings: the session is resolved once, by OptionalAuth *)

OptionalAuth(r, t, p) ==
  /\ req[r].pc = "idle"
  /\ \/ /\ Valid(t)
        /\ req' = [req EXCEPT ![r] = [@ EXCEPT !.op = "settings", !.pc = "read",
                                               !.user = sessions[t].user, !.patch = p]]
        /\ NoFault
     \/ /\ Done(r)
        /\ IF Valid(t) THEN Fault ELSE NoFault
  /\ UNCHANGED <<password, sessions, settings, clock, Histories>>

\* Mutant: the current settings are not fetched.
GetSettings_Defaults(u) == Defaults
GetSettings(u) == settings[u]

HandleUpdateSettings(r) ==
  /\ At(r, "settings", "read")
  /\ req' = [req EXCEPT ![r] = [@ EXCEPT !.pc = "write", !.base = GetSettings(req[r].user)]]
  /\ NoFault
  /\ UNCHANGED <<password, sessions, settings, clock, Histories>>

\* INSERT ... ON DUPLICATE KEY UPDATE of both columns.
UpdateSettings(r) ==
  LET u == req[r].user IN
  /\ At(r, "settings", "write")
  /\ settings' = [settings EXCEPT ![u] = Patched(req[r].base, req[r].patch)]
  /\ wanted' = [wanted EXCEPT ![u] = Patched(@, req[r].patch)]
  /\ raced' = IF \E o \in Requests \ {r} : At(o, "settings", "write") /\ req[o].user = u
                THEN raced \cup {u} ELSE raced
  /\ Done(r)
  /\ NoFault
  /\ UNCHANGED <<password, sessions, clock, uncleared>>

SettingsFail(r) ==
  /\ req[r].op = "settings" /\ req[r].pc \in {"read", "write"}
  /\ Done(r)
  /\ Fault
  /\ UNCHANGED <<password, sessions, settings, clock, Histories>>

-----------------------------------------------------------------------------
(* An administrator sets the password of a user who has an account *)

AdminSetPassword(r, u, t) ==
  /\ req[r].pc = "idle" /\ Taken(u)
  /\ password' = [password EXCEPT ![u] = t]
  /\ req' = [req EXCEPT ![r] = [@ EXCEPT !.op = "reset", !.pc = "clear", !.user = u]]
  /\ UNCHANGED <<sessions, settings, clock, faults, Histories>>

\* Mutant: the sessions are left.
DeleteAllSessionsForUser_None(r) ==
  /\ At(r, "reset", "clear")
  /\ Done(r)
  /\ NoFault
  /\ UNCHANGED <<password, sessions, settings, clock, Histories>>

DeleteAllSessionsForUser(r) ==
  /\ At(r, "reset", "clear")
  /\ sessions' = Without(SessionsOf(req[r].user))
  /\ uncleared' = uncleared \ {req[r].user}
  /\ Done(r)
  /\ NoFault
  /\ UNCHANGED <<password, settings, clock, wanted, raced>>

\* The error is ignored: the administrator is told that the reset succeeded.
DeleteAllFails(r) ==
  /\ At(r, "reset", "clear")
  /\ uncleared' = uncleared \cup {req[r].user}
  /\ Done(r)
  /\ Fault
  /\ UNCHANGED <<password, sessions, settings, clock, wanted, raced>>

-----------------------------------------------------------------------------
(* The sweeper (a ticker of main) and time *)

\* Mutant: only sessions that expired before the last tick are deleted.
Expired_Late == {t \in DOMAIN sessions : sessions[t].expires < clock}

Expired == {t \in DOMAIN sessions : ~Valid(t)}

DeleteExpiredSessions ==
  /\ Expired # {}
  /\ sessions' = Without(Expired)
  /\ UNCHANGED <<password, settings, req, clock, faults, Histories>>

Tick ==
  /\ clock < MaxClock
  /\ clock' = clock + 1
  /\ UNCHANGED <<password, sessions, settings, req, faults, Histories>>

-----------------------------------------------------------------------------
Request(r) ==
  \/ \E u \in Users, t \in Typed : RegisterStart(r, u, t) \/ Login(r, u, t)
  \/ Register(r)
  \/ CreateSession(r)
  \/ SignInFails(r)
  \/ \E t \in Requests : Logout(r, t)
  \/ \E t \in Requests, p \in Patches : OptionalAuth(r, t, p)
  \/ HandleUpdateSettings(r)
  \/ UpdateSettings(r)
  \/ SettingsFail(r)
  \/ \E u \in Users, t \in Typed : AdminSetPassword(r, u, t)
  \/ DeleteAllSessionsForUser(r)
  \/ DeleteAllFails(r)

Next == (\E r \in Requests : Request(r)) \/ DeleteExpiredSessions \/ Tick

Spec == Init /\ [][Next]_vars

(* The ticker never stops while the server runs and every statement it issues is a new    *)
(* try: an outage only delays it.                                                        *)
FairSpec == Spec /\ WF_vars(DeleteExpiredSessions)
-----------------------------------------------------------------------------
(* Properties *)

\* Nobody takes over an account: the password of an address that has an account changes only
\* in an administrator's reset, however many registrations of that address run at once.
PasswordOnlyByReset ==
  [][\A u \in Users : password[u] # NoAccount /\ password'[u] # password[u] =>
       \E r \in Requests : /\ req[r].pc = "idle"
                           /\ At(r, "reset", "clear")' /\ req'[r].user = u]_vars

\* After a reset, a session that was obtained with another password than the present one
\* exists only if its login overlapped the reset (it had compared the old password, and the
\* INSERT of the session came later), while the reset has not reached its DELETE, or if that
\* DELETE failed.
StaleSessionIsLate ==
  \A t \in DOMAIN sessions :
    LET s == sessions[t] IN
    s.typed # password[s.user] =>
      \/ s.late
      \/ s.user \in uncleared
      \/ \E r \in Requests : At(r, "reset", "clear") /\ req[r].user = s.user

\* Every setting has the value that the last request naming it wrote, until two updates of
\* one user overlap and the later write restores what the earlier had changed.
SettingsKept == \A u \in Users \ raced : settings[u] = wanted[u]

\* The row of an expired session is deleted in the end, also when nobody uses it again.
ExpiredSwept ==
  \A t \in Requests : t \in DOMAIN sessions /\ ~Valid(t) ~> t \notin DOMAIN sessions
=============================================================================
