-------------------------------- MODULE Access --------------------------------
(***************************************************************************)
(* Who may use the server: the owner account, devices, sessions and        *)
(* pairing codes (the authentication routes of app.ts and their tables).   *)
(*                                                                         *)
(* Setup and login await bcrypt between their check and their writes; the  *)
(* other handlers are one step.  The writes of a handler are separate      *)
(* statements: if the server stops between two, the first ones stay.       *)
(* Passwords, tokens and codes are identifiers that are never guessed.     *)
(***************************************************************************)
EXTENDS Integers

CONSTANTS
  Users, Devices, Tokens, Codes,  \* identifiers of rows; a token has one session
  Emails,    \* email addresses
  Attempts,  \* setup and login requests that may await bcrypt at a time
  Null,
  Lifetime,  \* of a pairing code
  MaxTime    \* bound: the last reading of the clock

ASSUME AccessAssumption ==
  /\ Lifetime \in Nat
  /\ MaxTime \in Nat
  /\ Null \notin Users \cup Devices \cup Codes \cup Emails

VARIABLES
  user,      \* users: every one is an active owner; user[u] is its email
  device,    \* devices
  session,   \* sessions; none has an expiry
  code,      \* pairing_codes
  attempt,   \* requests that await bcrypt
  clock,
  pairedBy   \* history variable: the pairing code a device was created with

vars == <<user, device, session, code, attempt, clock, pairedBy>>

DeviceRow == [state: {"none", "trusted", "revoked"}, user: Users \cup {Null}]
SessionRow == [state: {"none", "live", "revoked"}, device: Devices \cup {Null}]
CodeRow == [state: {"none", "open", "consumed"}, user: Users \cup {Null}, expires_at: Int]
AttemptRow == [kind: {"none", "setup", "login"}, email: Emails \cup {Null},
               user: Users \cup {Null}]

NoAttempt == [kind |-> "none", email |-> Null, user |-> Null]

Init ==
  /\ user = [u \in Users |-> Null]
  /\ device = [d \in Devices |-> [state |-> "none", user |-> Null]]
  /\ session = [t \in Tokens |-> [state |-> "none", device |-> Null]]
  /\ code = [c \in Codes |-> [state |-> "none", user |-> Null, expires_at |-> 0]]
  /\ attempt = [a \in Attempts |-> NoAttempt]
  /\ clock = 0
  /\ pairedBy = [d \in Devices |-> Null]
-----------------------------------------------------------------------------
OwnerExists == \E u \in Users : user[u] # Null

\* getSessionByTokenHash: what the preHandler hook asks of every request.
Authenticated(t) ==
  /\ session[t].state = "live"
  /\ device[session[t].device].state = "trusted"

\* How far a handler gets with createDevice and createSession.
Progress == {"nothing", "device", "session"}

\* A trusted device of user u and a session for it.
Enter(u, d, t, written) ==
  /\ device[d].state = "none"
  /\ session[t].state = "none"
  /\ device' = IF written = "nothing" THEN device
               ELSE [device EXCEPT ![d] = [state |-> "trusted", user |-> u]]
  /\ session' = IF written # "session" THEN session
                ELSE [session EXCEPT ![t] = [state |-> "live", device |-> d]]

\* A handler that does not get to its end takes the server, and all attempts,
\* with it.
Finish(a, written) ==
  attempt' = IF written = "session" THEN [attempt EXCEPT ![a] = NoAttempt]
             ELSE [b \in Attempts |-> NoAttempt]
-----------------------------------------------------------------------------
Await(a, row) ==
  /\ attempt[a].kind = "none"
  /\ attempt' = [attempt EXCEPT ![a] = row]
  /\ UNCHANGED <<user, device, session, code, clock, pairedBy>>

\* POST /api/setup/owner up to the await.
StartSetup(a, email) ==
  /\ ~OwnerExists
  /\ Await(a, [kind |-> "setup", email |-> email, user |-> Null])

\* Mutant of FinishSetup: the device is created before its user.
SetupDeviceFirst(a, u, d, t, written) ==
  /\ attempt[a].kind = "setup"
  /\ \A v \in Users : user[v] # attempt[a].email
  /\ user[u] = Null
  /\ user' = IF written = "session" THEN [user EXCEPT ![u] = attempt[a].email] ELSE user
  /\ Enter(u, d, t, written)
  /\ Finish(a, written)
  /\ UNCHANGED <<code, clock, pairedBy>>

\* The rest: the owner is created without another look at the table.
FinishSetup(a, u, d, t, written) ==
  /\ attempt[a].kind = "setup"
  /\ \A v \in Users : user[v] # attempt[a].email
  /\ user[u] = Null
  /\ user' = [user EXCEPT ![u] = attempt[a].email]
  /\ Enter(u, d, t, written)
  /\ Finish(a, written)
  /\ UNCHANGED <<code, clock, pairedBy>>

\* The email column is unique: the insert fails.
FailSetup(a) ==
  /\ attempt[a].kind = "setup"
  /\ \E v \in Users : user[v] = attempt[a].email
  /\ Finish(a, "session")
  /\ UNCHANGED <<user, device, session, code, clock, pairedBy>>

\* POST /api/auth/login up to the await.
StartLogin(a, u) ==
  /\ user[u] # Null
  /\ Await(a, [kind |-> "login", email |-> Null, user |-> u])

FinishLogin(a, d, t, written) ==
  /\ attempt[a].kind = "login"
  /\ Enter(attempt[a].user, d, t, written)
  /\ Finish(a, written)
  /\ UNCHANGED <<user, code, clock, pairedBy>>

RefuseLogin(a) ==
  /\ attempt[a].kind = "login"
  /\ Finish(a, "session")
  /\ UNCHANGED <<user, device, session, code, clock, pairedBy>>

Logout(t) ==
  /\ Authenticated(t)
  /\ session' = [session EXCEPT ![t].state = "revoked"]
  /\ UNCHANGED <<user, device, code, attempt, clock, pairedBy>>

\* POST /api/devices/pairing/start, for the user of the session.
StartPairing(t, c) ==
  /\ Authenticated(t)
  /\ code[c].state = "none"
  /\ code' = [code EXCEPT ![c] =
       [state |-> "open", user |-> device[session[t].device].user,
        expires_at |-> clock + Lifetime]]
  /\ UNCHANGED <<user, device, session, attempt, clock, pairedBy>>

\* consumePairingCode is one transaction.
Consume(c) ==
  /\ code[c].state = "open"
  /\ code[c].expires_at > clock
  /\ code' = [code EXCEPT ![c].state = "consumed"]

Paired(c, d, written) ==
  pairedBy' = IF written = "nothing" THEN pairedBy ELSE [pairedBy EXCEPT ![d] = c]

\* Mutants of CompletePairing: the code is not consumed; a device that was
\* paired before is trusted again.
PairWithoutConsuming(c, d, t, written) ==
  /\ code[c].state = "open"
  /\ code[c].expires_at > clock
  /\ Enter(code[c].user, d, t, written)
  /\ Paired(c, d, written)
  /\ attempt' = IF written = "session" THEN attempt ELSE [b \in Attempts |-> NoAttempt]
  /\ UNCHANGED <<user, code, clock>>

PairAgain(c, d, t, written) ==
  /\ Consume(c)
  /\ device[d].user = code[c].user
  /\ session[t].state = "none"
  /\ device' = [device EXCEPT ![d].state = "trusted"]
  /\ session' = [session EXCEPT ![t] = [state |-> "live", device |-> d]]
  /\ UNCHANGED <<user, attempt, clock, pairedBy>>

\* POST /api/devices/pairing/complete.
CompletePairing(c, d, t, written) ==
  /\ Consume(c)
  /\ Enter(code[c].user, d, t, written)
  /\ Paired(c, d, written)
  /\ attempt' = IF written = "session" THEN attempt ELSE [b \in Attempts |-> NoAttempt]
  /\ UNCHANGED <<user, clock>>

\* revokeDevice updates the device and then its sessions.
RevokeDevice(t, d, complete) ==
  /\ Authenticated(t)
  /\ device[d].state # "none"
  /\ device' = [device EXCEPT ![d].state = "revoked"]
  /\ session' = [s \in Tokens |->
                   IF complete /\ session[s].device = d
                   THEN [session[s] EXCEPT !.state = "revoked"]
                   ELSE session[s]]
  /\ attempt' = IF complete THEN attempt ELSE [b \in Attempts |-> NoAttempt]
  /\ UNCHANGED <<user, code, clock, pairedBy>>

\* The server stops between two handlers, and starts again.
Restart ==
  /\ attempt' = [b \in Attempts |-> NoAttempt]
  /\ UNCHANGED <<user, device, session, code, clock, pairedBy>>

Tick ==
  /\ clock < MaxTime
  /\ clock' = clock + 1
  /\ UNCHANGED <<user, device, session, code, attempt, pairedBy>>

Next ==
  \/ \E a \in Attempts :
       \/ \E email \in Emails : StartSetup(a, email)
       \/ \E u \in Users, d \in Devices, t \in Tokens, w \in Progress :
            FinishSetup(a, u, d, t, w)
       \/ FailSetup(a)
       \/ \E u \in Users : StartLogin(a, u)
       \/ \E d \in Devices, t \in Tokens, w \in Progress : FinishLogin(a, d, t, w)
       \/ RefuseLogin(a)
  \/ \E t \in Tokens :
       \/ Logout(t)
       \/ \E c \in Codes : StartPairing(t, c)
       \/ \E d \in Devices, complete \in BOOLEAN : RevokeDevice(t, d, complete)
  \/ \E c \in Codes, d \in Devices, t \in Tokens, w \in Progress :
       CompletePairing(c, d, t, w)
  \/ Restart
  \/ Tick

Spec == Init /\ [][Next]_vars
-----------------------------------------------------------------------------
\* The columns have their types; a session that exists belongs to a device that
\* exists, a device to a user and a code to a user.
TypeOK ==
  /\ user \in [Users -> Emails \cup {Null}]
  /\ device \in [Devices -> DeviceRow]
  /\ session \in [Tokens -> SessionRow]
  /\ code \in [Codes -> CodeRow]
  /\ attempt \in [Attempts -> AttemptRow]
  /\ clock \in Nat
  /\ pairedBy \in [Devices -> Codes \cup {Null}]
  /\ \A d \in Devices : device[d].state # "none" =>
       device[d].user \in Users /\ user[device[d].user] # Null
  /\ \A t \in Tokens : session[t].state # "none" =>
       session[t].device \in Devices /\ device[session[t].device].state # "none"
  /\ \A c \in Codes : code[c].state # "none" => code[c].user \in Users

\* A pairing code pairs one device, of the user who asked for it, however many
\* requests present it and wherever the server stops: "Bind mobile pairing to an
\* authenticated user" (SPEC.md:757, consumePairingCode).
CodePairsOnce ==
  \A d, e \in Devices : pairedBy[d] # Null =>
    /\ device[d].user = code[pairedBy[d]].user
    /\ pairedBy[d] = pairedBy[e] => d = e

\* A token that stopped working, by logout, revocation or a revocation cut
\* short, never works again: only a token just issued begins to work (revokeDevice,
\* getSessionByTokenHash).
TokensNotRevived ==
  [][\A t \in Tokens : Authenticated(t)' => Authenticated(t) \/ session[t].state = "none"]_vars

\* There is one owner account: setup answers "owner account already exists"
\* (apps/server/src/app.ts:210) to anyone who comes second.
OneOwner == \A u, v \in Users : user[u] # Null /\ user[v] # Null => u = v
=============================================================================
