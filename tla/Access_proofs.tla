----------------------------- MODULE Access_proofs -----------------------------
(***************************************************************************)
(* Theorems about Access, for any users, devices, tokens, codes and        *)
(* requests that await bcrypt.                                             *)
(***************************************************************************)
EXTENDS Access, TLAPS

\* What a request or a code goes by is there when it is used: users are never
\* deleted, so what a handler read before its await still holds after it.
KnownInv ==
  /\ \A a \in Attempts : attempt[a].kind = "setup" => attempt[a].email \in Emails
  /\ \A a \in Attempts : attempt[a].kind = "login" =>
       attempt[a].user \in Users /\ user[attempt[a].user] # Null
  /\ \A c \in Codes : code[c].state # "none" => user[code[c].user] # Null

\* A device that was paired exists, and the code it was paired with is used up.
PairedInv ==
  \A d \in Devices : pairedBy[d] # Null =>
    /\ device[d].state # "none"
    /\ code[pairedBy[d]].state = "consumed"

AccessInv ==
  /\ TypeOK
  /\ KnownInv
  /\ PairedInv
  /\ CodePairsOnce

NotRevived ==
  \A t \in Tokens : Authenticated(t)' => Authenticated(t) \/ session[t].state = "none"
-----------------------------------------------------------------------------
LEMMA AccessInitial == Init => AccessInv
<1> SUFFICES ASSUME Init PROVE AccessInv
  OBVIOUS
<1>1. TypeOK
  BY AccessAssumption
    DEF Init, TypeOK, DeviceRow, SessionRow, CodeRow, AttemptRow, NoAttempt
<1>2. KnownInv
  BY DEF Init, KnownInv, NoAttempt
<1>3. PairedInv /\ CodePairsOnce
  BY DEF Init, PairedInv, CodePairsOnce
<1> QED
  BY <1>1, <1>2, <1>3 DEF AccessInv

\* What Enter does: a device that did not exist may get a row of user u, and a
\* token that had no session one of that device.  No other token is affected:
\* the device of a session exists.
LEMMA EnterStep ==
  ASSUME AccessInv,
         NEW u \in Users, NEW d \in Devices, NEW t \in Tokens, NEW w \in Progress,
         user' \in [Users -> Emails \cup {Null}],
         \A v \in Users : user[v] # Null => user'[v] # Null,
         user'[u] # Null,
         Enter(u, d, t, w)
  PROVE  /\ device' \in [Devices -> DeviceRow]
         /\ session' \in [Tokens -> SessionRow]
         /\ \A e \in Devices : device'[e].state # "none" =>
              device'[e].user \in Users /\ user'[device'[e].user] # Null
         /\ \A s \in Tokens : session'[s].state # "none" =>
              session'[s].device \in Devices /\ device'[session'[s].device].state # "none"
         /\ \A e \in Devices : device[e].state # "none" => device'[e] = device[e]
         /\ w # "nothing" => device'[d] = [state |-> "trusted", user |-> u]
         /\ w = "nothing" => device' = device
         /\ NotRevived
<1> DEFINE row == [state |-> "trusted", user |-> u]
           new == [state |-> "live", device |-> d]
<1>0. row \in DeviceRow /\ new \in SessionRow
  BY DEF DeviceRow, SessionRow
<1>1. /\ device \in [Devices -> DeviceRow]
      /\ session \in [Tokens -> SessionRow]
      /\ \A e \in Devices : device[e].state # "none" =>
           device[e].user \in Users /\ user[device[e].user] # Null
      /\ \A s \in Tokens : session[s].state # "none" =>
           session[s].device \in Devices /\ device[session[s].device].state # "none"
  BY DEF AccessInv, TypeOK
<1>2. /\ device[d].state = "none"
      /\ session[t].state = "none"
      /\ device' = IF w = "nothing" THEN device ELSE [device EXCEPT ![d] = row]
      /\ session' = IF w # "session" THEN session ELSE [session EXCEPT ![t] = new]
  BY DEF Enter
<1>3. /\ \A e \in Devices : device'[e] = device[e] \/ (e = d /\ device'[e] = row)
      /\ w # "nothing" => device'[d] = row
      /\ w = "nothing" => device' = device
  BY <1>1, <1>2
<1>4. \A s \in Tokens : session'[s] = session[s]
                          \/ (s = t /\ session'[s] = new /\ device'[d] = row)
  BY <1>1, <1>2
<1>5. device' \in [Devices -> DeviceRow] /\ session' \in [Tokens -> SessionRow]
  BY <1>0, <1>1, <1>2
<1>6. row.state = "trusted" /\ row.user = u /\ new.state = "live" /\ new.device = d
  OBVIOUS
<1> HIDE DEF row, new
<1>7. \A e \in Devices : device[e].state # "none" => device'[e] = device[e]
  BY <1>2, <1>3
<1>8. ASSUME NEW e \in Devices, device'[e].state # "none"
      PROVE  device'[e].user \in Users /\ user'[device'[e].user] # Null
  BY <1>1, <1>3, <1>6, <1>8
<1>9. ASSUME NEW s \in Tokens, session'[s].state # "none"
      PROVE  session'[s].device \in Devices /\ device'[session'[s].device].state # "none"
  BY <1>1, <1>4, <1>6, <1>7, <1>9
<1>10. ASSUME NEW s \in Tokens, Authenticated(s)'
       PROVE  Authenticated(s) \/ session[s].state = "none"
  <2>1. CASE session'[s] = session[s]
    <3>1. session[s].state = "live" /\ device'[session[s].device].state = "trusted"
      BY <1>10, <2>1 DEF Authenticated
    <3>2. session[s].device \in Devices /\ device[session[s].device].state # "none"
      BY <1>1, <3>1
    <3> QED
      BY <1>7, <3>1, <3>2 DEF Authenticated
  <2>2. CASE s = t
    BY <1>2, <2>2
  <2> QED
    BY <1>4, <2>1, <2>2
<1> QED
  BY <1>3, <1>5, <1>7, <1>8, <1>9, <1>10 DEF NotRevived, row
-----------------------------------------------------------------------------
(***************************************************************************)
(* The handlers                                                            *)
(***************************************************************************)

\* Attempts as they are after a handler: each is what it was, or gone.
LEMMA FinishAttempts ==
  ASSUME AccessInv, NEW a \in Attempts, NEW w, Finish(a, w)
  PROVE  /\ attempt' \in [Attempts -> AttemptRow]
         /\ \A b \in Attempts : attempt'[b] \in {attempt[b], NoAttempt}
BY DEF AccessInv, TypeOK, Finish, AttemptRow, NoAttempt

\* Attempts that stay or go are known as long as users stay.
LEMMA KnownStep ==
  ASSUME AccessInv,
         \A v \in Users : user[v] # Null => user'[v] # Null,
         \A b \in Attempts : attempt'[b] \in {attempt[b], NoAttempt},
         \A c \in Codes : code'[c].state # "none" =>
           code[c].state # "none" /\ code'[c].user = code[c].user
  PROVE  KnownInv'
<1>1. \A c \in Codes : code[c].state # "none" => code[c].user \in Users
  BY DEF AccessInv, TypeOK
<1>2. NoAttempt.kind = "none"
  BY DEF NoAttempt
<1>3. KnownInv
  BY DEF AccessInv
<1>4. ASSUME NEW a \in Attempts, attempt'[a].kind = "setup" PROVE attempt'[a].email \in Emails
  BY <1>2, <1>3, <1>4 DEF KnownInv
<1>5. ASSUME NEW a \in Attempts, attempt'[a].kind = "login"
      PROVE  attempt'[a].user \in Users /\ user'[attempt'[a].user] # Null
  BY <1>2, <1>3, <1>5 DEF KnownInv
<1>6. ASSUME NEW c \in Codes, code'[c].state # "none" PROVE user'[code'[c].user] # Null
  BY <1>1, <1>3, <1>6 DEF KnownInv
<1> QED
  BY <1>4, <1>5, <1>6 DEF KnownInv

\* What was paired stays paired when devices that exist keep their user and
\* codes that are used up stay as they are.
LEMMA PairedStep ==
  ASSUME AccessInv,
         pairedBy' = pairedBy,
         \A e \in Devices : device[e].state # "none" =>
           device'[e].state # "none" /\ device'[e].user = device[e].user,
         \A c \in Codes : code[c].state = "consumed" => code'[c] = code[c]
  PROVE  PairedInv' /\ CodePairsOnce'
<1>1. pairedBy \in [Devices -> Codes \cup {Null}]
  BY DEF AccessInv, TypeOK
<1>2. PairedInv /\ CodePairsOnce
  BY DEF AccessInv
<1>3. ASSUME NEW d \in Devices, pairedBy[d] # Null
      PROVE  /\ device'[d].state # "none"
             /\ device'[d].user = device[d].user
             /\ code'[pairedBy[d]] = code[pairedBy[d]]
             /\ code[pairedBy[d]].state = "consumed"
  BY <1>1, <1>2, <1>3 DEF PairedInv
<1>4. PairedInv'
  BY <1>3 DEF PairedInv
<1>5. CodePairsOnce'
  BY <1>2, <1>3 DEF CodePairsOnce
<1> QED
  BY <1>4, <1>5

LEMMA AwaitStep ==
  ASSUME AccessInv, NEW a \in Attempts, NEW row \in AttemptRow, Await(a, row),
         row.kind = "setup" => row.email \in Emails,
         row.kind = "login" => row.user \in Users /\ user[row.user] # Null
  PROVE  AccessInv' /\ NotRevived
<1>1. /\ attempt' = [attempt EXCEPT ![a] = row]
      /\ UNCHANGED <<user, device, session, code, clock, pairedBy>>
  BY DEF Await
<1>2. TypeOK'
  BY <1>1 DEF AccessInv, TypeOK
<1>3. \A b \in Attempts : attempt'[b] = attempt[b] \/ attempt'[b] = row
  BY <1>1 DEF AccessInv, TypeOK
<1>4. KnownInv'
  BY <1>1, <1>3 DEF AccessInv, KnownInv
<1>5. PairedInv' /\ CodePairsOnce'
  BY <1>1 DEF AccessInv, PairedInv, CodePairsOnce
<1>6. NotRevived
  BY <1>1 DEF NotRevived, Authenticated
<1> QED
  BY <1>2, <1>4, <1>5, <1>6 DEF AccessInv

LEMMA StartSetupStep ==
  ASSUME AccessInv, NEW a \in Attempts, NEW email \in Emails, StartSetup(a, email)
  PROVE  AccessInv' /\ NotRevived
<1> DEFINE row == [kind |-> "setup", email |-> email, user |-> Null]
<1>1. row \in AttemptRow /\ row.kind = "setup" /\ row.email \in Emails
  BY DEF AttemptRow
<1>2. Await(a, row)
  BY DEF StartSetup
<1> HIDE DEF row
<1> QED
  BY <1>1, <1>2, AwaitStep

LEMMA StartLoginStep ==
  ASSUME AccessInv, NEW a \in Attempts, NEW u \in Users, StartLogin(a, u)
  PROVE  AccessInv' /\ NotRevived
<1> DEFINE row == [kind |-> "login", email |-> Null, user |-> u]
<1>1. row \in AttemptRow /\ row.kind = "login" /\ row.user = u
  BY DEF AttemptRow
<1>2. Await(a, row) /\ user[u] # Null
  BY DEF StartLogin
<1> HIDE DEF row
<1> QED
  BY <1>1, <1>2, AwaitStep

LEMMA FinishSetupStep ==
  ASSUME AccessInv, NEW a \in Attempts, NEW u \in Users, NEW d \in Devices,
         NEW t \in Tokens, NEW w \in Progress, FinishSetup(a, u, d, t, w)
  PROVE  AccessInv' /\ NotRevived
<1>1. /\ attempt[a].kind = "setup"
      /\ user' = [user EXCEPT ![u] = attempt[a].email]
      /\ Enter(u, d, t, w)
      /\ Finish(a, w)
      /\ UNCHANGED <<code, clock, pairedBy>>
  BY DEF FinishSetup
<1>2. attempt[a].email \in Emails /\ attempt[a].email # Null
  BY <1>1, AccessAssumption DEF AccessInv, KnownInv
<1>3. /\ user' \in [Users -> Emails \cup {Null}]
      /\ \A v \in Users : user[v] # Null => user'[v] # Null
      /\ user'[u] # Null
  BY <1>1, <1>2 DEF AccessInv, TypeOK
<1>4. /\ device' \in [Devices -> DeviceRow]
      /\ session' \in [Tokens -> SessionRow]
      /\ \A e \in Devices : device'[e].state # "none" =>
           device'[e].user \in Users /\ user'[device'[e].user] # Null
      /\ \A s \in Tokens : session'[s].state # "none" =>
           session'[s].device \in Devices /\ device'[session'[s].device].state # "none"
      /\ \A e \in Devices : device[e].state # "none" => device'[e] = device[e]
      /\ NotRevived
  BY <1>1, <1>3, EnterStep
<1>5. /\ attempt' \in [Attempts -> AttemptRow]
      /\ \A b \in Attempts : attempt'[b] \in {attempt[b], NoAttempt}
  BY <1>1, FinishAttempts
<1>6. TypeOK'
  BY <1>1, <1>3, <1>4, <1>5 DEF AccessInv, TypeOK
<1>7. KnownInv'
  BY <1>1, <1>3, <1>5, KnownStep
<1>8. PairedInv' /\ CodePairsOnce'
  BY <1>1, <1>4, PairedStep
<1> QED
  BY <1>4, <1>6, <1>7, <1>8 DEF AccessInv

LEMMA FinishLoginStep ==
  ASSUME AccessInv, NEW a \in Attempts, NEW d \in Devices,
         NEW t \in Tokens, NEW w \in Progress, FinishLogin(a, d, t, w)
  PROVE  AccessInv' /\ NotRevived
<1>1. /\ attempt[a].kind = "login"
      /\ Enter(attempt[a].user, d, t, w)
      /\ Finish(a, w)
      /\ UNCHANGED <<user, code, clock, pairedBy>>
  BY DEF FinishLogin
<1>2. attempt[a].user \in Users /\ user'[attempt[a].user] # Null
  BY <1>1 DEF AccessInv, KnownInv
<1>3. /\ user' \in [Users -> Emails \cup {Null}]
      /\ \A v \in Users : user[v] # Null => user'[v] # Null
  BY <1>1 DEF AccessInv, TypeOK
<1>4. /\ device' \in [Devices -> DeviceRow]
      /\ session' \in [Tokens -> SessionRow]
      /\ \A e \in Devices : device'[e].state # "none" =>
           device'[e].user \in Users /\ user'[device'[e].user] # Null
      /\ \A s \in Tokens : session'[s].state # "none" =>
           session'[s].device \in Devices /\ device'[session'[s].device].state # "none"
      /\ \A e \in Devices : device[e].state # "none" => device'[e] = device[e]
      /\ NotRevived
  BY <1>1, <1>2, <1>3, EnterStep
<1>5. /\ attempt' \in [Attempts -> AttemptRow]
      /\ \A b \in Attempts : attempt'[b] \in {attempt[b], NoAttempt}
  BY <1>1, FinishAttempts
<1>6. TypeOK'
  BY <1>1, <1>3, <1>4, <1>5 DEF AccessInv, TypeOK
<1>7. KnownInv'
  BY <1>1, <1>3, <1>5, KnownStep
<1>8. PairedInv' /\ CodePairsOnce'
  BY <1>1, <1>4, PairedStep
<1> QED
  BY <1>4, <1>6, <1>7, <1>8 DEF AccessInv

\* A step that only ends attempts.
LEMMA AttemptsEndStep ==
  ASSUME AccessInv,
         attempt' \in [Attempts -> AttemptRow],
         \A b \in Attempts : attempt'[b] \in {attempt[b], NoAttempt},
         clock' \in Nat,
         UNCHANGED <<user, device, session, code, pairedBy>>
  PROVE  AccessInv' /\ NotRevived
<1>1. TypeOK'
  BY DEF AccessInv, TypeOK
<1>2. KnownInv'
  BY KnownStep
<1>3. PairedInv' /\ CodePairsOnce'
  BY PairedStep
<1>4. NotRevived
  BY DEF NotRevived, Authenticated
<1> QED
  BY <1>1, <1>2, <1>3, <1>4 DEF AccessInv

LEMMA RefusedStep ==
  ASSUME AccessInv,
         (\E a \in Attempts : FailSetup(a) \/ RefuseLogin(a)) \/ Restart \/ Tick
           \/ UNCHANGED vars
  PROVE  AccessInv' /\ NotRevived
<1>0. attempt \in [Attempts -> AttemptRow] /\ clock \in Nat
  BY DEF AccessInv, TypeOK
<1>1. CASE \E a \in Attempts : FailSetup(a) \/ RefuseLogin(a)
  <2>1. PICK a \in Attempts : FailSetup(a) \/ RefuseLogin(a)
    BY <1>1
  <2>2. Finish(a, "session") /\ UNCHANGED <<user, device, session, code, clock, pairedBy>>
    BY <2>1 DEF FailSetup, RefuseLogin
  <2>3. /\ attempt' \in [Attempts -> AttemptRow]
        /\ \A b \in Attempts : attempt'[b] \in {attempt[b], NoAttempt}
    BY <2>2, FinishAttempts
  <2> QED
    BY <1>0, <2>2, <2>3, AttemptsEndStep
<1>2. CASE Restart
  <2>1. /\ attempt' \in [Attempts -> AttemptRow]
        /\ \A b \in Attempts : attempt'[b] \in {attempt[b], NoAttempt}
        /\ UNCHANGED <<user, device, session, code, clock, pairedBy>>
    BY <1>2 DEF Restart, AttemptRow, NoAttempt
  <2> QED
    BY <1>0, <2>1, AttemptsEndStep
<1>3. CASE Tick
  <2>1. clock' \in Nat /\ UNCHANGED <<user, device, session, code, attempt, pairedBy>>
    BY <1>0, <1>3 DEF Tick
  <2> QED
    BY <1>0, <2>1, AttemptsEndStep
<1>4. CASE UNCHANGED vars
  <2>1. UNCHANGED <<user, device, session, code, attempt, clock, pairedBy>>
    BY <1>4 DEF vars
  <2> QED
    BY <1>0, <2>1, AttemptsEndStep
<1> QED
  BY <1>1, <1>2, <1>3, <1>4

LEMMA LogoutStep ==
  ASSUME AccessInv, NEW t \in Tokens, Logout(t)
  PROVE  AccessInv' /\ NotRevived
<1>1. /\ session' = [session EXCEPT ![t].state = "revoked"]
      /\ UNCHANGED <<user, device, code, attempt, clock, pairedBy>>
      /\ session[t].state = "live"
  BY DEF Logout, Authenticated
<1>2. session \in [Tokens -> SessionRow]
  BY DEF AccessInv, TypeOK
<1>3. /\ session' \in [Tokens -> SessionRow]
      /\ \A s \in Tokens : session'[s] = session[s]
                             \/ /\ session'[s].state = "revoked"
                                /\ session'[s].device = session[s].device
                                /\ session[s].state = "live"
  BY <1>1, <1>2 DEF SessionRow
<1>4. \A s \in Tokens : session'[s].state # "none" =>
        session'[s].device \in Devices /\ device[session'[s].device].state # "none"
  BY <1>3 DEF AccessInv, TypeOK
<1>5. TypeOK'
  BY <1>1, <1>3, <1>4 DEF AccessInv, TypeOK
<1>6. KnownInv' /\ PairedInv' /\ CodePairsOnce'
  BY <1>1 DEF AccessInv, KnownInv, PairedInv, CodePairsOnce
<1>7. NotRevived
  BY <1>1, <1>3 DEF NotRevived, Authenticated
<1> QED
  BY <1>5, <1>6, <1>7 DEF AccessInv

LEMMA StartPairingStep ==
  ASSUME AccessInv, NEW t \in Tokens, NEW c \in Codes, StartPairing(t, c)
  PROVE  AccessInv' /\ NotRevived
<1> DEFINE row == [state |-> "open", user |-> device[session[t].device].user,
                   expires_at |-> clock + Lifetime]
<1>1. /\ session[t].state = "live"
      /\ device[session[t].device].state = "trusted"
      /\ code[c].state = "none"
      /\ code' = [code EXCEPT ![c] = row]
      /\ UNCHANGED <<user, device, session, attempt, clock, pairedBy>>
  BY DEF StartPairing, Authenticated
<1>2. TypeOK
  BY DEF AccessInv
<1>3. session[t].device \in Devices
  BY <1>1, <1>2 DEF TypeOK
<1>4. row.user \in Users /\ user[row.user] # Null
  BY <1>1, <1>2, <1>3 DEF TypeOK
<1>5. row \in CodeRow
  BY <1>2, <1>4, AccessAssumption DEF TypeOK, CodeRow
<1> HIDE DEF row
<1>6. code \in [Codes -> CodeRow] /\ code' \in [Codes -> CodeRow]
  BY <1>1, <1>2, <1>5 DEF TypeOK
<1>7. \A k \in Codes : k # c => code'[k] = code[k]
  BY <1>1, <1>6
<1>8. code'[c] = row
  BY <1>1, <1>6
<1>9. TypeOK'
  <2>1. \A k \in Codes : code'[k].state # "none" => code'[k].user \in Users
    BY <1>2, <1>4, <1>7, <1>8 DEF TypeOK
  <2> QED
    BY <1>1, <1>2, <1>6, <2>1 DEF TypeOK
<1>10. KnownInv'
  <2>1. \A k \in Codes : code'[k].state # "none" => user[code'[k].user] # Null
    BY <1>4, <1>7, <1>8 DEF AccessInv, KnownInv
  <2> QED
    BY <1>1, <2>1 DEF AccessInv, KnownInv
<1>11. PairedInv' /\ CodePairsOnce'
  <2>1. \A k \in Codes : code[k].state = "consumed" => code'[k] = code[k]
    BY <1>1, <1>7
  <2> QED
    BY <1>1, <2>1, PairedStep
<1>12. NotRevived
  BY <1>1 DEF NotRevived, Authenticated
<1> QED
  BY <1>9, <1>10, <1>11, <1>12 DEF AccessInv

\* A code that is open has paired nothing, and a device that does not exist was
\* not paired: the new pair is the only one of either.
LEMMA CompletePairingStep ==
  ASSUME AccessInv, NEW c \in Codes, NEW d \in Devices, NEW t \in Tokens,
         NEW w \in Progress, CompletePairing(c, d, t, w)
  PROVE  AccessInv' /\ NotRevived
<1>1. /\ code[c].state = "open"
      /\ code' = [code EXCEPT ![c].state = "consumed"]
      /\ Enter(code[c].user, d, t, w)
      /\ Paired(c, d, w)
      /\ attempt' = IF w = "session" THEN attempt ELSE [b \in Attempts |-> NoAttempt]
      /\ UNCHANGED <<user, clock>>
  BY DEF CompletePairing, Consume
<1>2. TypeOK
  BY DEF AccessInv
<1>3. code[c].user \in Users /\ user'[code[c].user] # Null
  BY <1>1, <1>2 DEF AccessInv, TypeOK, KnownInv
<1>4. /\ user' \in [Users -> Emails \cup {Null}]
      /\ \A v \in Users : user[v] # Null => user'[v] # Null
  BY <1>1, <1>2 DEF TypeOK
<1>5. /\ device' \in [Devices -> DeviceRow]
      /\ session' \in [Tokens -> SessionRow]
      /\ \A e \in Devices : device'[e].state # "none" =>
           device'[e].user \in Users /\ user'[device'[e].user] # Null
      /\ \A s \in Tokens : session'[s].state # "none" =>
           session'[s].device \in Devices /\ device'[session'[s].device].state # "none"
      /\ \A e \in Devices : device[e].state # "none" => device'[e] = device[e]
      /\ w # "nothing" => device'[d] = [state |-> "trusted", user |-> code[c].user]
      /\ w = "nothing" => device' = device
      /\ NotRevived
  BY <1>1, <1>3, <1>4, EnterStep
<1>6. code \in [Codes -> CodeRow] /\ code' \in [Codes -> CodeRow]
  BY <1>1, <1>2 DEF TypeOK, CodeRow
<1>7. /\ \A k \in Codes : k # c => code'[k] = code[k]
      /\ code'[c].state = "consumed" /\ code'[c].user = code[c].user
  BY <1>1, <1>6 DEF CodeRow
<1>8. /\ attempt' \in [Attempts -> AttemptRow]
      /\ \A b \in Attempts : attempt'[b] \in {attempt[b], NoAttempt}
  BY <1>1, <1>2 DEF TypeOK, AttemptRow, NoAttempt
<1>9. /\ pairedBy \in [Devices -> Codes \cup {Null}]
      /\ pairedBy' \in [Devices -> Codes \cup {Null}]
      /\ \A e \in Devices : pairedBy'[e] = pairedBy[e]
                              \/ (e = d /\ w # "nothing" /\ pairedBy'[e] = c)
  BY <1>1, <1>2 DEF TypeOK, Paired
<1>10. TypeOK'
  <2>1. \A k \in Codes : code'[k].state # "none" => code'[k].user \in Users
    BY <1>2, <1>3, <1>7 DEF TypeOK
  <2> QED
    BY <1>1, <1>2, <1>4, <1>5, <1>6, <1>8, <1>9, <2>1 DEF TypeOK
<1>11. KnownInv'
  <2>1. \A k \in Codes : code'[k].state # "none" =>
          code[k].state # "none" /\ code'[k].user = code[k].user
    BY <1>1, <1>7
  <2> QED
    BY <1>4, <1>8, <2>1, KnownStep
<1>12. \A e \in Devices : pairedBy[e] # Null =>
         /\ pairedBy[e] \in Codes /\ pairedBy[e] # c
         /\ device'[e] = device[e] /\ device[e].state # "none"
         /\ code'[pairedBy[e]] = code[pairedBy[e]]
         /\ code[pairedBy[e]].state = "consumed"
         /\ device[e].user = code[pairedBy[e]].user
  BY <1>1, <1>5, <1>7, <1>9 DEF AccessInv, PairedInv, CodePairsOnce
<1>13. w # "nothing" => device'[d].state = "trusted" /\ device'[d].user = code[c].user
  BY <1>5
<1>14. PairedInv'
  BY <1>7, <1>9, <1>12, <1>13 DEF PairedInv
<1>15. ASSUME NEW e \in Devices, pairedBy'[e] # Null
       PROVE  device'[e].user = code'[pairedBy'[e]].user
  BY <1>7, <1>9, <1>12, <1>13, <1>15
<1>16. ASSUME NEW e \in Devices, NEW f \in Devices, pairedBy'[e] # Null,
              pairedBy'[e] = pairedBy'[f]
       PROVE  e = f
  BY <1>9, <1>12, <1>16 DEF AccessInv, CodePairsOnce
<1>17. CodePairsOnce'
  BY <1>15, <1>16 DEF CodePairsOnce
<1> QED
  BY <1>5, <1>10, <1>11, <1>14, <1>17 DEF AccessInv

LEMMA RevokeStep ==
  ASSUME AccessInv, NEW t \in Tokens, NEW d \in Devices, NEW complete \in BOOLEAN,
         RevokeDevice(t, d, complete)
  PROVE  AccessInv' /\ NotRevived
<1>1. /\ device[d].state # "none"
      /\ device' = [device EXCEPT ![d].state = "revoked"]
      /\ session' = [s \in Tokens |->
                       IF complete /\ session[s].device = d
                       THEN [session[s] EXCEPT !.state = "revoked"]
                       ELSE session[s]]
      /\ attempt' = IF complete THEN attempt ELSE [b \in Attempts |-> NoAttempt]
      /\ UNCHANGED <<user, code, clock, pairedBy>>
  BY DEF RevokeDevice
<1>2. TypeOK
  BY DEF AccessInv
<1>3. device \in [Devices -> DeviceRow] /\ session \in [Tokens -> SessionRow]
  BY <1>2 DEF TypeOK
<1>4. /\ device' \in [Devices -> DeviceRow]
      /\ \A e \in Devices : device'[e] = device[e]
                              \/ /\ e = d
                                 /\ device'[e].state = "revoked"
                                 /\ device'[e].user = device[e].user
  BY <1>1, <1>3 DEF DeviceRow
<1>5. /\ session' \in [Tokens -> SessionRow]
      /\ \A s \in Tokens : session'[s] = session[s]
                             \/ /\ session'[s].state = "revoked"
                                /\ session'[s].device = session[s].device
                                /\ session[s].device = d
  BY <1>1, <1>3 DEF SessionRow
<1>6. /\ attempt' \in [Attempts -> AttemptRow]
      /\ \A b \in Attempts : attempt'[b] \in {attempt[b], NoAttempt}
  BY <1>1, <1>2 DEF TypeOK, AttemptRow, NoAttempt
<1>7. TypeOK'
  <2>1. \A e \in Devices : device'[e].state # "none" =>
          device'[e].user \in Users /\ user[device'[e].user] # Null
    BY <1>1, <1>2, <1>4 DEF TypeOK
  <2>2. \A s \in Tokens : session'[s].state # "none" =>
          session'[s].device \in Devices /\ device'[session'[s].device].state # "none"
    BY <1>1, <1>2, <1>4, <1>5 DEF TypeOK
  <2> QED
    BY <1>1, <1>2, <1>4, <1>5, <1>6, <2>1, <2>2 DEF TypeOK
<1>8. KnownInv'
  BY <1>1, <1>6, KnownStep
<1>9. PairedInv' /\ CodePairsOnce'
  <2>1. \A e \in Devices : device[e].state # "none" =>
          device'[e].state # "none" /\ device'[e].user = device[e].user
    BY <1>4
  <2> QED
    BY <1>1, <2>1, PairedStep
<1>10. NotRevived
  <2> SUFFICES ASSUME NEW s \in Tokens, Authenticated(s)'
               PROVE  Authenticated(s) \/ session[s].state = "none"
    BY DEF NotRevived
  <2>1. /\ session'[s].state = "live"
        /\ device'[session'[s].device].state = "trusted"
    BY DEF Authenticated
  <2>2. session'[s] = session[s]
    BY <1>5, <2>1
  <2>3. session[s].state = "live" /\ session[s].device \in Devices
    BY <1>2, <2>1, <2>2 DEF TypeOK
  <2>4. device'[session[s].device] = device[session[s].device]
    BY <1>4, <2>1, <2>2, <2>3
  <2> QED
    BY <2>1, <2>2, <2>3, <2>4 DEF Authenticated
<1> QED
  BY <1>7, <1>8, <1>9, <1>10 DEF AccessInv
-----------------------------------------------------------------------------
LEMMA AccessStep == AccessInv /\ [Next]_vars => AccessInv' /\ NotRevived
<1> SUFFICES ASSUME AccessInv, [Next]_vars PROVE AccessInv' /\ NotRevived
  OBVIOUS
<1>1. ASSUME NEW a \in Attempts, NEW email \in Emails, StartSetup(a, email)
      PROVE  AccessInv' /\ NotRevived
  BY <1>1, StartSetupStep
<1>2. ASSUME NEW a \in Attempts, NEW u \in Users, NEW d \in Devices, NEW t \in Tokens,
             NEW w \in Progress, FinishSetup(a, u, d, t, w)
      PROVE  AccessInv' /\ NotRevived
  BY <1>2, FinishSetupStep
<1>3. ASSUME NEW a \in Attempts, NEW u \in Users, StartLogin(a, u)
      PROVE  AccessInv' /\ NotRevived
  BY <1>3, StartLoginStep
<1>4. ASSUME NEW a \in Attempts, NEW d \in Devices, NEW t \in Tokens, NEW w \in Progress,
             FinishLogin(a, d, t, w)
      PROVE  AccessInv' /\ NotRevived
  BY <1>4, FinishLoginStep
<1>5. ASSUME NEW t \in Tokens, Logout(t)
      PROVE  AccessInv' /\ NotRevived
  BY <1>5, LogoutStep
<1>6. ASSUME NEW t \in Tokens, NEW c \in Codes, StartPairing(t, c)
      PROVE  AccessInv' /\ NotRevived
  BY <1>6, StartPairingStep
<1>7. ASSUME NEW t \in Tokens, NEW d \in Devices, NEW complete \in BOOLEAN,
             RevokeDevice(t, d, complete)
      PROVE  AccessInv' /\ NotRevived
  BY <1>7, RevokeStep
<1>8. ASSUME NEW c \in Codes, NEW d \in Devices, NEW t \in Tokens, NEW w \in Progress,
             CompletePairing(c, d, t, w)
      PROVE  AccessInv' /\ NotRevived
  BY <1>8, CompletePairingStep
<1>9. CASE (\E a \in Attempts : FailSetup(a) \/ RefuseLogin(a)) \/ Restart \/ Tick
             \/ UNCHANGED vars
  BY <1>9, RefusedStep
<1> QED
  BY <1>1, <1>2, <1>3, <1>4, <1>5, <1>6, <1>7, <1>8, <1>9 DEF Next

LEMMA AccessInvariant == Spec => []AccessInv
<1>1. AccessInv /\ [Next]_vars => AccessInv'
  BY AccessStep
<1> QED
  BY <1>1, AccessInitial, PTL DEF Spec

\* The rows of users, devices, sessions and codes have their types and refer to
\* rows that exist, wherever a handler of app.ts is cut short: each writes what
\* others refer to first.
THEOREM AccessTypes == Spec => []TypeOK
<1>1. AccessInv => TypeOK
  BY DEF AccessInv
<1> QED
  BY <1>1, AccessInvariant, PTL

\* A pairing code pairs one device, of the user who asked for it, however many
\* devices and requests there are (consumePairingCode).
THEOREM CodesPairOnce == Spec => []CodePairsOnce
<1>1. AccessInv => CodePairsOnce
  BY DEF AccessInv
<1> QED
  BY <1>1, AccessInvariant, PTL

\* A token that stopped working never works again: no handler trusts a device
\* that exists, nor gives a second session to a token (revokeDevice,
\* getSessionByTokenHash).
THEOREM TokensStayRevoked == Spec => TokensNotRevived
<1>1. AccessInv /\ [Next]_vars =>
        [\A t \in Tokens : Authenticated(t)' => Authenticated(t) \/ session[t].state = "none"]_vars
  BY AccessStep DEF NotRevived
<1> QED
  BY <1>1, AccessInvariant, PTL DEF Spec, TokensNotRevived
=============================================================================
