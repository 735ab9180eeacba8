------------------------------ MODULE Passkeys ------------------------------
(***************************************************************************)
(* How an account registers passkeys, chooses its login mode and logs in   *)
(* (auth/src/passkey.rs, auth/src/routes.rs login, logout).  A login or a  *)
(* registration takes two requests, tied together by a challenge row, and  *)
(* a two-step login by a pending token as well.  Every handler reads its   *)
(* rows, checks them and deletes them in separate statements, and a client *)
(* may send a request twice.                                               *)
(*                                                                         *)
(* WebAuthn is a library: a registration yields the credential made for    *)
(* its challenge, an authentication succeeds for one of the credentials    *)
(* that were listed when it began.  Signature counters are left out.       *)
(***************************************************************************)
EXTENDS Auth, Naturals, FiniteSets

CONSTANTS Requests,
          Challenges,   \* ids for challenges; also names the credential made for one
          Tokens,       \* ids for pending tokens
          MaxSessions   \* bound: sessions open at once

ASSUME MaxSessionsAssumption == MaxSessions \in Nat

VARIABLES mode,         \* mode[a]: the account's auth_mode
          passkeys,     \* rows of passkeys
          challenges,   \* challenges[c]: the row; gone = TRUE once deleted or past expires_at
          tokens,       \* tokens[t]: likewise for pending_auth_tokens
          sessions,     \* the account of a session, and the credential that was used
          req           \* req[r]: the handler that r runs, between two statements

vars == <<mode, passkeys, challenges, tokens, sessions, req>>

Modes == {"password", "passkey", "password_passkey"}
Passkey == [credential : Challenges, account : Accounts]
Challenge == [account : Accounts, kind : {"registration", "login"},
              allowed : SUBSET Challenges, gone : BOOLEAN]
Token == [account : Accounts, gone : BOOLEAN]
Session == [account : Accounts, credential : Challenges \cup {None}]

\* A handler: its account, what it was sent and what it has read.
Handler == [op : {"begin", "register", "registering", "finish", "finishing", "mode",
                  "login", "token", "verify", "verifying", "verified"},
            account : Accounts, challenge : Challenges \cup {None},
            token : Tokens \cup {None}, allowed : SUBSET Challenges,
            mode : Modes]

\* No id and no row are none that there could be.
ASSUME NoneAssumption ==
    None \notin Accounts \cup Challenges \cup Tokens \cup Challenge \cup Token \cup Handler

\* Mutant: the passkeys of every account are listed.
ListedAll(a) == {p.credential : p \in passkeys}

Listed(a) == {p.credential : p \in {q \in passkeys : q.account = a}}
Handling(r, op) == req[r] # None /\ req[r].op = op
Fresh(r) == [account |-> req[r].account, credential |-> None]

\* The rows that get_passkey_challenge and get_pending_auth_token find, in time.
Found(c, kind) == challenges[c] # None /\ ~challenges[c].gone /\ challenges[c].kind = kind
Held(t) == tokens[t] # None /\ ~tokens[t].gone

-----------------------------------------------------------------------------
Init ==
    /\ mode = [a \in Accounts |-> "password"]
    /\ passkeys = {} /\ sessions = {}
    /\ challenges = [c \in Challenges |-> None]
    /\ tokens = [t \in Tokens |-> None]
    /\ req = [r \in Requests |-> None]

Accept(r, op, a, c, t, allowed) ==
    /\ req[r] = None
    /\ req' = [req EXCEPT ![r] = [op |-> op, account |-> a, challenge |-> c, token |-> t,
                                  allowed |-> allowed,
                                  mode |-> IF op = "login" THEN mode[a] ELSE "password"]]
Continue(r, op) == req' = [req EXCEPT ![r].op = op]
Answer(r) == req' = [req EXCEPT ![r] = None]

\* CHALLENGE_TTL_SECS or PENDING_AUTH_TTL_SECS pass: from here on every handler
\* that finds the row deletes it and refuses, as if it were gone.
Expire ==
    /\ \/ \E c \in Challenges :
            /\ challenges[c] # None /\ ~challenges[c].gone
            /\ challenges' = [challenges EXCEPT ![c].gone = TRUE]
            /\ UNCHANGED tokens
       \/ \E t \in Tokens :
            /\ tokens[t] # None /\ ~tokens[t].gone
            /\ tokens' = [tokens EXCEPT ![t].gone = TRUE]
            /\ UNCHANGED challenges
    /\ UNCHANGED <<mode, passkeys, sessions, req>>

Issue(c, a, kind, allowed) ==
    /\ challenges[c] = None
    /\ challenges' = [challenges EXCEPT ![c] = [account |-> a, kind |-> kind,
                                                allowed |-> allowed, gone |-> FALSE]]

\* passkey_register_start.
RegisterStart == \E a \in Accounts, c \in Challenges :
    /\ Issue(c, a, "registration", {})
    /\ UNCHANGED <<mode, passkeys, tokens, sessions, req>>

\* passkey_login_start reads the account and its passkeys ...
LoginStart(r) == \E a \in Accounts :
    /\ mode[a] # "password" /\ Listed(a) # {}
    /\ Accept(r, "begin", a, None, None, Listed(a))
    /\ UNCHANGED <<mode, passkeys, challenges, tokens, sessions>>

\* ... and so does passkey_2fa_start for the account of a pending token ...
TwoStepStart(r) == \E t \in Tokens :
    /\ Held(t) /\ Listed(tokens[t].account) # {}
    /\ Accept(r, "begin", tokens[t].account, None, None, Listed(tokens[t].account))
    /\ UNCHANGED <<mode, passkeys, challenges, tokens, sessions>>

\* ... then both insert the challenge, which keeps the list.
Begun(r) == \E c \in Challenges :
    /\ Handling(r, "begin")
    /\ Issue(c, req[r].account, "login", req[r].allowed)
    /\ Answer(r)
    /\ UNCHANGED <<mode, passkeys, tokens, sessions>>

-----------------------------------------------------------------------------
\* passkey_register_finish: the challenge is read, must not have expired and
\* must be the account's ...
RegisterFinish(r) == \E a \in Accounts, c \in Challenges :
    /\ Found(c, "registration") /\ challenges[c].account = a
    /\ Accept(r, "register", a, c, None, {})
    /\ UNCHANGED <<mode, passkeys, challenges, tokens, sessions>>

\* ... it is deleted, whether or not it is still there, in each of the handlers
\* that use it up ...
Spend(r, from, to) ==
    /\ Handling(r, from) /\ Continue(r, to)
    /\ challenges' = [challenges EXCEPT ![req[r].challenge].gone = TRUE]
    /\ UNCHANGED <<mode, passkeys, tokens, sessions>>

SpendChallenge(r) ==
    \/ Spend(r, "register", "registering")
    \/ Spend(r, "finish", "finishing")
    \/ Spend(r, "verify", "verifying")

\* ... and the passkey is inserted; credential_id is UNIQUE, so that the second of
\* two requests with one challenge is refused.
CreatePasskey(r) ==
    /\ Handling(r, "registering") /\ Answer(r)
    /\ passkeys' = passkeys \cup {[credential |-> req[r].challenge, account |-> req[r].account]}
    /\ UNCHANGED <<mode, challenges, tokens, sessions>>

\* Verification in one of the handlers fails.
Rejected(r) ==
    /\ Handling(r, "registering") \/ Handling(r, "finishing") \/ Handling(r, "verified")
    /\ Answer(r)
    /\ UNCHANGED <<mode, passkeys, challenges, tokens, sessions>>

\* delete_passkey: one statement, for a passkey of the account.
DeletePasskey == \E p \in passkeys :
    /\ passkeys' = passkeys \ {p}
    /\ UNCHANGED <<mode, challenges, tokens, sessions, req>>

\* update_auth_mode: a mode with passkeys needs one when it is checked ...
CheckMode(r) == \E a \in Accounts, m \in Modes :
    /\ m # "password" => Listed(a) # {}
    /\ req[r] = None
    /\ req' = [req EXCEPT ![r] = [op |-> "mode", account |-> a, challenge |-> None,
                                  token |-> None, allowed |-> {}, mode |-> m]]
    /\ UNCHANGED <<mode, passkeys, challenges, tokens, sessions>>

\* Mutant: the mode is written as it was sent, without a check.
SetModeTypo(r) ==
    /\ Handling(r, "mode") /\ Answer(r)
    /\ mode' = [mode EXCEPT ![req[r].account] = "passkeys"]
    /\ UNCHANGED <<passkeys, challenges, tokens, sessions>>

\* ... and is written then.
SetMode(r) ==
    /\ Handling(r, "mode") /\ Answer(r)
    /\ mode' = [mode EXCEPT ![req[r].account] = req[r].mode]
    /\ UNCHANGED <<passkeys, challenges, tokens, sessions>>

-----------------------------------------------------------------------------
Open(session) ==
    /\ sessions' = sessions \cup {session}
    /\ Cardinality(sessions') =< MaxSessions

\* login: the account is read, with the right password and a mode that has one ...
Login(r) == \E a \in Accounts :
    /\ mode[a] # "passkey"
    /\ Accept(r, "login", a, None, None, {})
    /\ UNCHANGED <<mode, passkeys, challenges, tokens, sessions>>

\* ... and by the mode read it gives a session or a pending token.
LoggedIn(r) ==
    /\ Handling(r, "login") /\ Answer(r)
    /\ LET a == req[r].account
       IN  \/ /\ req[r].mode = "password"
              /\ Open(Fresh(r)) /\ UNCHANGED tokens
           \/ /\ req[r].mode = "password_passkey"
              /\ \E t \in Tokens :
                   /\ tokens[t] = None
                   /\ tokens' = [tokens EXCEPT ![t] = [account |-> a, gone |-> FALSE]]
              /\ UNCHANGED sessions
    /\ UNCHANGED <<mode, passkeys, challenges>>

\* passkey_login_finish: the challenge is read, then deleted (SpendChallenge),
\* then the credential is checked against the list in the challenge.
LoginFinish(r) == \E c \in Challenges :
    /\ Found(c, "login")
    /\ Accept(r, "finish", challenges[c].account, c, None, challenges[c].allowed)
    /\ UNCHANGED <<mode, passkeys, challenges, tokens, sessions>>

\* passkey_verify reads the token ...
VerifyToken(r) == \E t \in Tokens :
    /\ Held(t)
    /\ Accept(r, "token", tokens[t].account, None, t, {})
    /\ UNCHANGED <<mode, passkeys, challenges, tokens, sessions>>

\* Mutant: the account of the challenge is not compared with the token's.
VerifyAnyChallenge(r) == \E c \in Challenges :
    /\ Handling(r, "token") /\ Found(c, "login")
    /\ req' = [req EXCEPT ![r].op = "verify", ![r].challenge = c,
                          ![r].allowed = challenges[c].allowed]
    /\ UNCHANGED <<mode, passkeys, challenges, tokens, sessions>>

\* ... then the challenge it was sent with, which must be the same account's ...
VerifyChallenge(r) == \E c \in Challenges :
    /\ Handling(r, "token") /\ Found(c, "login")
    /\ challenges[c].account = req[r].account
    /\ req' = [req EXCEPT ![r].op = "verify", ![r].challenge = c,
                          ![r].allowed = challenges[c].allowed]
    /\ UNCHANGED <<mode, passkeys, challenges, tokens, sessions>>

\* ... or gives up ...
VerifyGivesUp(r) ==
    /\ Handling(r, "token") /\ Answer(r)
    /\ UNCHANGED <<mode, passkeys, challenges, tokens, sessions>>

\* ... deletes both ...
SpendToken(r) ==
    /\ Handling(r, "verifying") /\ Continue(r, "verified")
    /\ tokens' = [tokens EXCEPT ![req[r].token].gone = TRUE]
    /\ UNCHANGED <<mode, passkeys, challenges, sessions>>

\* ... and opens the session, as passkey_login_finish does.
CreateSession(r) == \E k \in Challenges :
    /\ Handling(r, "finishing") \/ Handling(r, "verified")
    /\ k \in req[r].allowed
    /\ Open([account |-> req[r].account, credential |-> k])
    /\ Answer(r)
    /\ UNCHANGED <<mode, passkeys, challenges, tokens>>

Logout == \E s \in sessions :
    /\ sessions' = sessions \ {s}
    /\ UNCHANGED <<mode, passkeys, challenges, tokens, req>>

\* The connection closes: the handler is dropped where it is.
Dropped(r) ==
    /\ req[r] # None /\ Answer(r)
    /\ UNCHANGED <<mode, passkeys, challenges, tokens, sessions>>

Next ==
    \/ Expire \/ RegisterStart \/ DeletePasskey \/ Logout
    \/ \E r \in Requests :
         \/ LoginStart(r) \/ TwoStepStart(r) \/ Begun(r)
         \/ RegisterFinish(r) \/ SpendChallenge(r) \/ CreatePasskey(r) \/ Rejected(r)
         \/ CheckMode(r) \/ SetMode(r) \/ Login(r) \/ LoggedIn(r) \/ LoginFinish(r)
         \/ VerifyToken(r) \/ VerifyChallenge(r) \/ VerifyGivesUp(r) \/ SpendToken(r)
         \/ CreateSession(r) \/ Dropped(r)

Spec == Init /\ [][Next]_vars

-----------------------------------------------------------------------------
TypeOK ==
    /\ mode \in [Accounts -> Modes] /\ passkeys \subseteq Passkey
    /\ challenges \in [Challenges -> Challenge \cup {None}]
    /\ tokens \in [Tokens -> Token \cup {None}]
    /\ sessions \subseteq Session
    /\ req \in [Requests -> Handler \cup {None}]

\* A session that was opened with a credential is for the account that
\* registered it, whichever challenges and tokens are sent in which requests
\* and however often (passkey.rs:123, 379, 450, 478).
SessionOfKeyOwner == \A s \in sessions :
    s.credential # None => challenges[s.credential].account = s.account

\* A credential that a challenge lists was registered before the challenge: no
\* login can be completed with a credential whose registration never was.
ListedWasRegistered == \A c \in Challenges : challenges[c] # None =>
    \A k \in challenges[c].allowed :
        /\ challenges[k].kind = "registration" /\ challenges[k].gone
        /\ challenges[k].account = challenges[c].account
=============================================================================
