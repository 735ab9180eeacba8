----------------------------- MODULE Auth_proofs -----------------------------
(***************************************************************************)
(* Theorems about the two parts of authentication, Passkeys and CliLogin,  *)
(* for any sets of accounts, requests, challenges, tokens, codes and pages *)
(* and any number of sessions and of polls that break.  The two share no   *)
(* variable; what belongs to CliLogin has Login in its name.               *)
(***************************************************************************)
EXTENDS Passkeys, CliLogin, FiniteSetTheorems, TLAPS

-----------------------------------------------------------------------------
(***************************************************************************)
(* The inductive invariant. A credential travels from a registration to a  *)
(* passkey, from there to the list of a login's challenge and to the list  *)
(* a handler keeps in memory, and last to a session. Each stop says whose  *)
(* credential it is, and all must name the account that registered it.     *)
(* They stay right because a challenge row, once written, changes only by  *)
(* being deleted.                                                          *)
(***************************************************************************)
Registered(k, a) ==
    /\ challenges[k] \in Challenge
    /\ challenges[k].kind = "registration" /\ challenges[k].gone
    /\ challenges[k].account = a

PasskeysRegistered == \A p \in passkeys : Registered(p.credential, p.account)

ListsRegistered ==
    \A c \in Challenges : challenges[c] # None =>
        \A k \in challenges[c].allowed : Registered(k, challenges[c].account)

SessionsRegistered ==
    \A s \in sessions : s.credential # None => Registered(s.credential, s.account)

Challenged == {"register", "registering", "finish", "finishing",
               "verify", "verifying", "verified"}
Tokened == {"token", "verify", "verifying", "verified"}

\* What a handler knows from the rows it has read.
Knows(r) ==
    /\ \A k \in req[r].allowed : Registered(k, req[r].account)
    /\ req[r].op \in Challenged => /\ req[r].challenge \in Challenges
                                   /\ challenges[req[r].challenge] \in Challenge
                                   /\ challenges[req[r].challenge].account = req[r].account
    /\ req[r].op \in {"register", "registering"} =>
          challenges[req[r].challenge].kind = "registration"
    /\ req[r].op = "registering" => challenges[req[r].challenge].gone
    /\ req[r].op \in Tokened => req[r].token \in Tokens /\ tokens[req[r].token] \in Token

HandlersKnow == \A r \in Requests : req[r] # None => Knows(r)

CredentialsSound == PasskeysRegistered /\ ListsRegistered /\ SessionsRegistered

IInv == TypeOK /\ CredentialsSound /\ HandlersKnow

\* The invariant holds before anyone has registered.
LEMMA InitInv == Init => IInv
<1> SUFFICES ASSUME Init PROVE IInv
  OBVIOUS
<1>1. TypeOK
  BY DEF Init, TypeOK, Modes
<1>2. CredentialsSound /\ HandlersKnow
  BY DEF Init, CredentialsSound, PasskeysRegistered, ListsRegistered, SessionsRegistered,
         HandlersKnow
<1> QED
  BY <1>1, <1>2 DEF IInv

\* What a request does, from its first statement to its last.
Acts(r) ==
    \/ LoginStart(r) \/ TwoStepStart(r) \/ Begun(r)
    \/ RegisterFinish(r) \/ SpendChallenge(r) \/ CreatePasskey(r) \/ Rejected(r)
    \/ CheckMode(r) \/ SetMode(r) \/ Login(r) \/ LoggedIn(r) \/ LoginFinish(r)
    \/ VerifyToken(r) \/ VerifyChallenge(r) \/ VerifyGivesUp(r) \/ SpendToken(r)
    \/ CreateSession(r) \/ Dropped(r)

\* A request's step changes no other request.
LEMMA OthersKept ==
  ASSUME TypeOK, NEW r \in Requests, Acts(r), NEW q \in Requests, q # r
  PROVE  req'[q] = req[q]
<1>1. req \in [Requests -> Handler \cup {None}]
  BY DEF TypeOK
<1> QED
  BY <1>1 DEF Acts, LoginStart, TwoStepStart, Begun, RegisterFinish, SpendChallenge, Spend,
     CreatePasskey, Rejected, CheckMode, SetMode, Login, LoggedIn, LoginFinish,
     VerifyToken, VerifyChallenge, VerifyGivesUp, SpendToken, CreateSession, Dropped,
     Accept, Continue, Answer

\* The record that a handler begins with.
LEMMA Accepted ==
  ASSUME TypeOK, NEW r \in Requests, NEW op \in {"begin", "register", "finish", "login", "token"},
         NEW a \in Accounts, NEW c \in Challenges \cup {None}, NEW t \in Tokens \cup {None},
         NEW l \in SUBSET Challenges, Accept(r, op, a, c, t, l)
  PROVE  /\ req' \in [Requests -> Handler \cup {None}] /\ req'[r] \in Handler
         /\ req'[r].op = op /\ req'[r].account = a /\ req'[r].challenge = c
         /\ req'[r].token = t /\ req'[r].allowed = l
<1> DEFINE new == [op |-> op, account |-> a, challenge |-> c, token |-> t,
                   allowed |-> l, mode |-> IF op = "login" THEN mode[a] ELSE "password"]
<1>1. req \in [Requests -> Handler \cup {None}] /\ mode[a] \in Modes
  BY DEF TypeOK
<1>2. new \in Handler
  BY <1>1 DEF Handler, Modes
<1>3. req' = [req EXCEPT ![r] = new]
  BY DEF Accept
<1>4. req'[r] = new
  BY <1>1, <1>3
<1> QED
  BY <1>1, <1>2, <1>3, <1>4

\* The record of a handler that goes on to its next statement.
LEMMA Continued ==
  ASSUME TypeOK, NEW r \in Requests, req[r] # None,
         NEW op \in {"registering", "finishing", "verifying", "verified"}, Continue(r, op)
  PROVE  /\ req' \in [Requests -> Handler \cup {None}] /\ req'[r] \in Handler
         /\ req'[r].op = op /\ req'[r].account = req[r].account
         /\ req'[r].challenge = req[r].challenge
         /\ req'[r].token = req[r].token /\ req'[r].allowed = req[r].allowed
<1>1. req \in [Requests -> Handler \cup {None}] /\ req[r] \in Handler
  BY DEF TypeOK
<1> QED
  BY <1>1 DEF Continue, Handler

\* A challenge row is written once; from then on it can only be deleted.
LEMMA ChallengesKept ==
  ASSUME IInv, [Next]_vars
  PROVE  /\ challenges' \in [Challenges -> Challenge \cup {None}]
         /\ \A c \in Challenges : challenges[c] \in Challenge =>
              /\ challenges'[c] \in Challenge
              /\ challenges'[c].account = challenges[c].account
              /\ challenges'[c].kind = challenges[c].kind
              /\ challenges'[c].allowed = challenges[c].allowed
              /\ challenges[c].gone => challenges'[c].gone
<1> DEFINE Kept == /\ challenges' \in [Challenges -> Challenge \cup {None}]
                   /\ \A c \in Challenges : challenges[c] \in Challenge =>
                        /\ challenges'[c] \in Challenge
                        /\ challenges'[c].account = challenges[c].account
                        /\ challenges'[c].kind = challenges[c].kind
                        /\ challenges'[c].allowed = challenges[c].allowed
                        /\ challenges[c].gone => challenges'[c].gone
<1>0. TypeOK /\ HandlersKnow /\ challenges \in [Challenges -> Challenge \cup {None}]
  BY DEF IInv, TypeOK
<1>1. CASE UNCHANGED challenges
  BY <1>0, <1>1
<1>2. ASSUME NEW c \in Challenges, challenges[c] \in Challenge,
             challenges' = [challenges EXCEPT ![c].gone = TRUE]
      PROVE  Kept
  <2>1. [challenges[c] EXCEPT !.gone = TRUE] \in Challenge
    BY <1>2 DEF Challenge
  <2>2. /\ challenges'[c] = [challenges[c] EXCEPT !.gone = TRUE]
        /\ \A d \in Challenges \ {c} : challenges'[d] = challenges[d]
    BY <1>0, <1>2
  <2>3. /\ challenges'[c].account = challenges[c].account
        /\ challenges'[c].kind = challenges[c].kind
        /\ challenges'[c].allowed = challenges[c].allowed /\ challenges'[c].gone
    BY <1>2, <2>2 DEF Challenge
  <2> QED
    BY <1>0, <1>2, <2>1, <2>2, <2>3
<1>3. ASSUME NEW c \in Challenges, NEW a \in Accounts, NEW kind \in {"registration", "login"},
             NEW l \in SUBSET Challenges, Issue(c, a, kind, l)
      PROVE  Kept
  <2>1. [account |-> a, kind |-> kind, allowed |-> l, gone |-> FALSE] \in Challenge
    BY DEF Challenge
  <2>2. challenges[c] = None /\ challenges' = [challenges EXCEPT ![c] =
          [account |-> a, kind |-> kind, allowed |-> l, gone |-> FALSE]]
    BY <1>3 DEF Issue
  <2>3. None \notin Challenge
    BY NoneAssumption
  <2> QED
    BY <1>0, <2>1, <2>2, <2>3
<1>4. CASE Expire
  <2>1. CASE UNCHANGED challenges
    BY <1>1, <2>1
  <2>2. CASE \E c \in Challenges : /\ challenges[c] # None
                                   /\ challenges' = [challenges EXCEPT ![c].gone = TRUE]
    BY <1>0, <1>2, <2>2
  <2> QED
    BY <1>4, <2>1, <2>2 DEF Expire
<1>5. CASE RegisterStart
  BY <1>3, <1>5 DEF RegisterStart
<1>6. ASSUME NEW r \in Requests, Begun(r) PROVE Kept
  <2>1. req[r].account \in Accounts /\ req[r].allowed \in SUBSET Challenges
    BY <1>0, <1>6 DEF Begun, Handling, TypeOK, Handler
  <2> QED
    BY <1>3, <1>6, <2>1 DEF Begun
<1>7. ASSUME NEW r \in Requests, SpendChallenge(r) PROVE Kept
  <2>1. /\ challenges' = [challenges EXCEPT ![req[r].challenge].gone = TRUE]
        /\ req[r] # None /\ req[r].op \in Challenged
    BY <1>7 DEF SpendChallenge, Spend, Handling, Challenged
  <2>2. req[r].challenge \in Challenges /\ challenges[req[r].challenge] \in Challenge
    BY <1>0, <2>1 DEF HandlersKnow, Knows
  <2> QED
    BY <1>2, <2>1, <2>2
<1>8. ASSUME NEW r \in Requests, Acts(r), ~Begun(r), ~SpendChallenge(r)
      PROVE  UNCHANGED challenges
  BY <1>8 DEF Acts, LoginStart, TwoStepStart, RegisterFinish,
     CreatePasskey, Rejected, CheckMode, SetMode, Login, LoggedIn, LoginFinish,
     VerifyToken, VerifyChallenge, VerifyGivesUp, SpendToken, CreateSession, Dropped
<1>9. CASE DeletePasskey \/ Logout \/ UNCHANGED vars
  BY <1>1, <1>9 DEF DeletePasskey, Logout, vars
<1> QED
  BY <1>1, <1>4, <1>5, <1>6, <1>7, <1>8, <1>9 DEF Next, Acts

\* Registered, of the state after a step.
RegisteredNext(k, a) ==
    /\ challenges'[k] \in Challenge
    /\ challenges'[k].kind = "registration" /\ challenges'[k].gone
    /\ challenges'[k].account = a

\* Who registered a credential never changes.
LEMMA RegisteredKept ==
  ASSUME IInv, [Next]_vars
  PROVE  \A k \in Challenges : \A a : Registered(k, a) => RegisteredNext(k, a)
BY ChallengesKept DEF Registered, RegisteredNext

\* The passkeys that are listed for an account are the account's.
LEMMA ListedRegistered ==
  ASSUME IInv, NEW a \in Accounts
  PROVE  Listed(a) \subseteq Challenges /\ \A k \in Listed(a) : Registered(k, a)
BY DEF IInv, TypeOK, CredentialsSound, PasskeysRegistered, Listed, Passkey

\* What a step makes of its own request: the handler ends, or has the type of one
\* and knows what the rows say that it has read.
LEMMA OwnStep ==
  ASSUME IInv, NEW r \in Requests, Acts(r), [Next]_vars
  PROVE  /\ req' \in [Requests -> Handler \cup {None}]
         /\ req'[r] # None => Knows(r)'
<1>0. TypeOK /\ HandlersKnow /\ req \in [Requests -> Handler \cup {None}]
  BY DEF IInv, TypeOK
<1>1. \A k \in Challenges : \A a : Registered(k, a) => RegisteredNext(k, a)
  BY RegisteredKept
<1>2. CASE Answer(r)
  BY <1>0, <1>2 DEF Answer
<1>3. CASE LoginStart(r)
  <2>1. PICK a \in Accounts : Accept(r, "begin", a, None, None, Listed(a))
    BY <1>3 DEF LoginStart
  <2>2. Listed(a) \subseteq Challenges /\ \A k \in Listed(a) : Registered(k, a)
    BY ListedRegistered
  <2>3. /\ req' \in [Requests -> Handler \cup {None}]
        /\ req'[r].op = "begin" /\ req'[r].account = a /\ req'[r].allowed = Listed(a)
    BY <1>0, <2>1, <2>2, Accepted
  <2> QED
    BY <1>1, <2>2, <2>3
    DEF Knows, Challenged, Tokened, Registered, RegisteredNext
<1>4. CASE TwoStepStart(r)
  <2>1. PICK t \in Tokens :
          /\ Held(t)
          /\ Accept(r, "begin", tokens[t].account, None, None, Listed(tokens[t].account))
    BY <1>4 DEF TwoStepStart
  <2> DEFINE a == tokens[t].account
  <2>2. a \in Accounts
    BY <1>0, <2>1 DEF TypeOK, Held, Token
  <2>3. Listed(a) \subseteq Challenges /\ \A k \in Listed(a) : Registered(k, a)
    BY <2>2, ListedRegistered
  <2>4. Accept(r, "begin", a, None, None, Listed(a))
    BY <2>1
  <2> HIDE DEF a
  <2>5. /\ req' \in [Requests -> Handler \cup {None}]
        /\ req'[r].op = "begin" /\ req'[r].account = a /\ req'[r].allowed = Listed(a)
    BY <1>0, <2>2, <2>3, <2>4, Accepted
  <2> QED
    BY <1>1, <2>3, <2>5
    DEF Knows, Challenged, Tokened, Registered, RegisteredNext
<1>5. CASE RegisterFinish(r)
  <2>1. PICK a \in Accounts, c \in Challenges :
          /\ Found(c, "registration") /\ challenges[c].account = a
          /\ Accept(r, "register", a, c, None, {})
    BY <1>5 DEF RegisterFinish
  <2>2. challenges[c] \in Challenge /\ challenges[c].kind = "registration"
    BY <1>0, <2>1 DEF TypeOK, Found
  <2>3. /\ req' \in [Requests -> Handler \cup {None}] /\ req'[r].op = "register"
        /\ req'[r].account = a /\ req'[r].challenge = c /\ req'[r].allowed = {}
    BY <1>0, <2>1, Accepted
  <2>4. /\ challenges'[c] \in Challenge /\ challenges'[c].account = a
        /\ challenges'[c].kind = "registration"
    BY <2>1, <2>2, ChallengesKept
  <2> QED
    BY <2>3, <2>4 DEF Knows, Tokened
<1>6. CASE LoginFinish(r)
  <2>1. PICK c \in Challenges :
          /\ Found(c, "login")
          /\ Accept(r, "finish", challenges[c].account, c, None, challenges[c].allowed)
    BY <1>6 DEF LoginFinish
  <2>2. /\ challenges[c] \in Challenge /\ challenges[c] # None
        /\ challenges[c].account \in Accounts /\ challenges[c].allowed \in SUBSET Challenges
    BY <1>0, <2>1 DEF TypeOK, Found, Challenge
  <2>3. /\ req' \in [Requests -> Handler \cup {None}] /\ req'[r].op = "finish"
        /\ req'[r].account = challenges[c].account /\ req'[r].challenge = c
        /\ req'[r].allowed = challenges[c].allowed
    BY <1>0, <2>1, <2>2, Accepted
  <2>4. challenges'[c] \in Challenge /\ challenges'[c].account = challenges[c].account
    BY <2>2, ChallengesKept
  <2>5. \A k \in challenges[c].allowed : RegisteredNext(k, challenges[c].account)
    BY <1>1, <2>2 DEF IInv, CredentialsSound, ListsRegistered
  <2> QED
    BY <2>3, <2>4, <2>5 DEF Knows, Tokened, Registered, RegisteredNext
<1>7. CASE Login(r)
  <2>1. PICK a \in Accounts : Accept(r, "login", a, None, None, {})
    BY <1>7 DEF Login
  <2>2. /\ req' \in [Requests -> Handler \cup {None}]
        /\ req'[r].op = "login" /\ req'[r].allowed = {}
    BY <1>0, <2>1, Accepted
  <2> QED
    BY <2>2 DEF Knows, Challenged, Tokened
<1>8. CASE VerifyToken(r)
  <2>1. PICK t \in Tokens :
          /\ Held(t) /\ Accept(r, "token", tokens[t].account, None, t, {})
          /\ UNCHANGED tokens
    BY <1>8 DEF VerifyToken
  <2>2. tokens[t] \in Token /\ tokens[t].account \in Accounts
    BY <1>0, <2>1 DEF TypeOK, Held, Token
  <2>3. /\ req' \in [Requests -> Handler \cup {None}] /\ req'[r].op = "token"
        /\ req'[r].token = t /\ req'[r].allowed = {}
    BY <1>0, <2>1, <2>2, Accepted, SMTT(30)
  <2> QED
    BY <2>1, <2>2, <2>3 DEF Knows, Challenged
<1>9. CASE CheckMode(r)
  <2>1. PICK a \in Accounts, m \in Modes :
          req' = [req EXCEPT ![r] = [op |-> "mode", account |-> a, challenge |-> None,
                                     token |-> None, allowed |-> {}, mode |-> m]]
    BY <1>9 DEF CheckMode
  <2>2. [op |-> "mode", account |-> a, challenge |-> None, token |-> None,
         allowed |-> {}, mode |-> m] \in Handler
    BY DEF Handler
  <2>3. /\ req' \in [Requests -> Handler \cup {None}]
        /\ req'[r].op = "mode" /\ req'[r].allowed = {}
    BY <1>0, <2>1, <2>2
  <2> QED
    BY <2>3 DEF Knows, Challenged, Tokened
<1>10. CASE VerifyChallenge(r)
  <2>1. PICK c \in Challenges :
          /\ Found(c, "login") /\ challenges[c].account = req[r].account
          /\ req' = [req EXCEPT ![r].op = "verify", ![r].challenge = c,
                                ![r].allowed = challenges[c].allowed]
    BY <1>10 DEF VerifyChallenge
  <2>2. /\ challenges[c] \in Challenge /\ challenges[c] # None
        /\ challenges[c].allowed \in SUBSET Challenges
    BY <1>0, <2>1 DEF TypeOK, Found, Challenge
  <2>3. /\ req[r] # None /\ req[r] \in Handler /\ req[r].op = "token"
        /\ req[r].token \in Tokens /\ tokens[req[r].token] \in Token /\ tokens' = tokens
    BY <1>0, <1>10 DEF VerifyChallenge, Handling, HandlersKnow, Knows, Tokened
  <2>4. /\ req' \in [Requests -> Handler \cup {None}] /\ req'[r].op = "verify"
        /\ req'[r].account = req[r].account /\ req'[r].challenge = c
        /\ req'[r].token = req[r].token /\ req'[r].allowed = challenges[c].allowed
    BY <1>0, <2>1, <2>2, <2>3 DEF Handler
  <2>5. challenges'[c] \in Challenge /\ challenges'[c].account = challenges[c].account
    BY <2>2, ChallengesKept
  <2>6. \A k \in challenges[c].allowed : RegisteredNext(k, challenges[c].account)
    BY <1>1, <2>2 DEF IInv, CredentialsSound, ListsRegistered
  <2> QED
    BY <2>1, <2>3, <2>4, <2>5, <2>6 DEF Knows, Registered, RegisteredNext
<1>11. CASE SpendChallenge(r)
  <2> DEFINE c == req[r].challenge
  <2>1. PICK from \in {"register", "finish", "verify"},
             to \in {"registering", "finishing", "verifying"} :
          /\ Spend(r, from, to)
          /\ from = "register" <=> to = "registering"
          /\ from = "verify" <=> to = "verifying"
    BY <1>11 DEF SpendChallenge
  <2>2. /\ req[r] # None /\ req[r].op = from /\ Knows(r)
        /\ challenges' = [challenges EXCEPT ![c].gone = TRUE] /\ tokens' = tokens
    BY <1>0, <2>1 DEF Spend, Handling, HandlersKnow
  <2>3. c \in Challenges /\ challenges[c] \in Challenge /\ challenges[c].account = req[r].account
    BY <2>1, <2>2 DEF Knows, Challenged
  <2>4. challenges'[c].gone
    BY <1>0, <2>2, <2>3 DEF TypeOK, Challenge
  <2>5. /\ req' \in [Requests -> Handler \cup {None}] /\ req'[r] \in Handler
        /\ req'[r].op = to /\ req'[r].account = req[r].account
        /\ req'[r].challenge = c /\ req'[r].token = req[r].token
        /\ req'[r].allowed = req[r].allowed
    BY <1>0, <2>1, <2>2, Continued DEF Spend
  <2>6. /\ challenges'[c] \in Challenge /\ challenges'[c].account = challenges[c].account
        /\ challenges'[c].kind = challenges[c].kind
    BY <2>3, ChallengesKept
  <2>7. \A k \in req[r].allowed : k \in Challenges /\ RegisteredNext(k, req[r].account)
    <3>1. req[r].allowed \in SUBSET Challenges
      BY <1>0, <2>2 DEF Handler
    <3> QED
      BY <1>1, <2>2, <3>1 DEF Knows
  <2>8. to = "registering" => challenges'[c].kind = "registration"
    BY <2>1, <2>2, <2>6 DEF Knows
  <2>9. to \in Tokened => req[r].token \in Tokens /\ tokens'[req[r].token] \in Token
    BY <2>1, <2>2 DEF Knows, Tokened
  <2> HIDE DEF c
  <2>10. \A k \in req'[r].allowed : Registered(k, req[r].account)'
    BY <2>5, <2>7 DEF Registered, RegisteredNext
  <2> QED
    BY <2>1, <2>3, <2>4, <2>5, <2>6, <2>8, <2>9, <2>10 DEF Knows
<1>12. CASE SpendToken(r)
  <2>1. /\ req[r] # None /\ req[r].op = "verifying" /\ Knows(r) /\ Continue(r, "verified")
        /\ tokens' = [tokens EXCEPT ![req[r].token].gone = TRUE] /\ challenges' = challenges
    BY <1>0, <1>12 DEF SpendToken, Handling, HandlersKnow
  <2>2. /\ req' \in [Requests -> Handler \cup {None}] /\ req'[r] \in Handler
        /\ req'[r].op = "verified" /\ req'[r].account = req[r].account
        /\ req'[r].challenge = req[r].challenge /\ req'[r].token = req[r].token
        /\ req'[r].allowed = req[r].allowed
    BY <1>0, <2>1, Continued
  <2>3. req[r].token \in Tokens /\ tokens'[req[r].token] \in Token
    BY <1>0, <2>1 DEF Knows, Tokened, TypeOK, Token
  <2> QED
    BY <2>1, <2>2, <2>3 DEF Knows, Challenged, Registered
<1>13. CASE Begun(r) \/ CreatePasskey(r) \/ Rejected(r) \/ SetMode(r) \/ LoggedIn(r)
            \/ VerifyGivesUp(r) \/ CreateSession(r) \/ Dropped(r)
  BY <1>2, <1>13 DEF Begun, CreatePasskey, Rejected, SetMode, LoggedIn, VerifyGivesUp,
                     CreateSession, Dropped
<1> QED
  BY <1>3, <1>4, <1>5, <1>6, <1>7, <1>8, <1>9, <1>10, <1>11, <1>12, <1>13 DEF Acts

\* Steps that issue, delete or list nothing keep what handlers know.
LEMMA TokensKept ==
  ASSUME IInv, [Next]_vars
  PROVE  /\ tokens' \in [Tokens -> Token \cup {None}]
         /\ \A t \in Tokens : tokens[t] \in Token => tokens'[t] \in Token
<1> DEFINE Kept == /\ tokens' \in [Tokens -> Token \cup {None}]
                   /\ \A t \in Tokens : tokens[t] \in Token => tokens'[t] \in Token
<1>0. TypeOK /\ HandlersKnow /\ tokens \in [Tokens -> Token \cup {None}]
  BY DEF IInv, TypeOK
<1>1. CASE UNCHANGED tokens
  BY <1>0, <1>1
<1>2. ASSUME NEW t \in Tokens, tokens[t] \in Token,
             tokens' = [tokens EXCEPT ![t].gone = TRUE]
      PROVE  Kept
  BY <1>0, <1>2 DEF Token
<1>3. CASE Expire
  BY <1>0, <1>1, <1>2, <1>3 DEF Expire
<1>4. ASSUME NEW r \in Requests, SpendToken(r) PROVE Kept
  <2>1. req[r].token \in Tokens /\ tokens[req[r].token] \in Token
    BY <1>0, <1>4 DEF SpendToken, Handling, HandlersKnow, Knows, Tokened
  <2> QED
    BY <1>2, <1>4, <2>1 DEF SpendToken
<1>5. ASSUME NEW r \in Requests, LoggedIn(r) PROVE Kept
  <2>1. CASE UNCHANGED tokens
    BY <1>1, <2>1
  <2>2. ASSUME NEW t \in Tokens,
               tokens' = [tokens EXCEPT ![t] = [account |-> req[r].account, gone |-> FALSE]]
        PROVE  Kept
    <3>1. [account |-> req[r].account, gone |-> FALSE] \in Token
      BY <1>0, <1>5 DEF LoggedIn, Handling, TypeOK, Handler, Token
    <3> QED
      BY <1>0, <2>2, <3>1
  <2> QED
    BY <1>5, <2>1, <2>2 DEF LoggedIn
<1>6. ASSUME NEW r \in Requests, Acts(r), ~SpendToken(r), ~LoggedIn(r)
      PROVE  UNCHANGED tokens
  BY <1>6 DEF Acts, LoginStart, TwoStepStart, Begun, RegisterFinish, SpendChallenge, Spend,
     CreatePasskey, Rejected, CheckMode, SetMode, Login, LoginFinish,
     VerifyToken, VerifyChallenge, VerifyGivesUp, CreateSession, Dropped
<1>7. CASE RegisterStart \/ DeletePasskey \/ Logout \/ UNCHANGED vars
  BY <1>1, <1>7 DEF RegisterStart, DeletePasskey, Logout, vars
<1> QED
  BY <1>1, <1>3, <1>4, <1>5, <1>6, <1>7 DEF Next, Acts

\* What a handler has read stays true while it waits.
LEMMA KnowsStep == IInv /\ [Next]_vars => HandlersKnow'
<1> SUFFICES ASSUME IInv, [Next]_vars, NEW q \in Requests, req'[q] # None
             PROVE  Knows(q)'
  BY DEF HandlersKnow
<1>0. TypeOK /\ HandlersKnow
  BY DEF IInv
<1>1. CASE req'[q] = req[q]
  <2>1. Knows(q) /\ req[q] \in Handler
    BY <1>0, <1>1 DEF HandlersKnow, TypeOK
  <2>2. \A k \in req[q].allowed : RegisteredNext(k, req[q].account)
    <3>1. req[q].allowed \in SUBSET Challenges
      BY <2>1 DEF Handler
    <3> QED
      BY <2>1, <3>1, RegisteredKept DEF Knows
  <2>3. req[q].op \in Challenged =>
          /\ challenges'[req[q].challenge] \in Challenge
          /\ challenges'[req[q].challenge].account = challenges[req[q].challenge].account
          /\ challenges'[req[q].challenge].kind = challenges[req[q].challenge].kind
          /\ challenges[req[q].challenge].gone => challenges'[req[q].challenge].gone
    BY <2>1, ChallengesKept DEF Knows
  <2>4. req[q].op \in Tokened => tokens'[req[q].token] \in Token
    BY <2>1, TokensKept DEF Knows
  <2>5. req[q].op \in {"register", "registering"} => req[q].op \in Challenged
    BY DEF Challenged
  <2> QED
    BY <1>1, <2>1, <2>2, <2>3, <2>4, <2>5 DEF Knows, Registered, RegisteredNext
<1>2. ASSUME NEW r \in Requests, Acts(r) PROVE Knows(q)'
  <2>1. CASE q = r
    BY <1>2, <2>1, OwnStep
  <2>2. CASE q # r
    BY <1>0, <1>1, <1>2, <2>2, OthersKept
  <2> QED
    BY <2>1, <2>2
<1>3. CASE Expire \/ RegisterStart \/ DeletePasskey \/ Logout \/ UNCHANGED vars
  BY <1>1, <1>3 DEF Expire, RegisterStart, DeletePasskey, Logout, vars
<1> QED
  BY <1>2, <1>3 DEF Next, Acts

\* Every step keeps the types.
LEMMA TypeStep == IInv /\ [Next]_vars => TypeOK'
<1> SUFFICES ASSUME IInv, [Next]_vars PROVE TypeOK'
  OBVIOUS
<1>0. TypeOK /\ HandlersKnow
  BY DEF IInv
<1>1. /\ challenges' \in [Challenges -> Challenge \cup {None}]
      /\ tokens' \in [Tokens -> Token \cup {None}]
  BY ChallengesKept, TokensKept
<1>2. req' \in [Requests -> Handler \cup {None}]
  <2>1. ASSUME NEW r \in Requests, Acts(r) PROVE req' \in [Requests -> Handler \cup {None}]
    BY <2>1, OwnStep
  <2>2. CASE Expire \/ RegisterStart \/ DeletePasskey \/ Logout \/ UNCHANGED vars
    BY <1>0, <2>2 DEF TypeOK, Expire, RegisterStart, DeletePasskey, Logout, vars
  <2> QED
    BY <2>1, <2>2 DEF Next, Acts
<1>3. CASE Expire \/ RegisterStart \/ DeletePasskey \/ Logout \/ UNCHANGED vars
  BY <1>0, <1>1, <1>2, <1>3 DEF TypeOK, Expire, RegisterStart, DeletePasskey, Logout, vars
<1>4. ASSUME NEW r \in Requests, CreatePasskey(r) PROVE TypeOK'
  <2>1. req[r].challenge \in Challenges /\ req[r].account \in Accounts
    BY <1>0, <1>4 DEF CreatePasskey, Handling, HandlersKnow, Knows, Challenged, TypeOK, Handler
  <2> QED
    BY <1>0, <1>1, <1>2, <1>4, <2>1 DEF TypeOK, CreatePasskey, Passkey
<1>5. ASSUME NEW r \in Requests, SetMode(r) PROVE TypeOK'
  <2>1. req[r].account \in Accounts /\ req[r].mode \in Modes
    BY <1>0, <1>5 DEF SetMode, Handling, TypeOK, Handler
  <2> QED
    BY <1>0, <1>1, <1>2, <1>5, <2>1 DEF TypeOK, SetMode
<1>6. ASSUME NEW r \in Requests, LoggedIn(r) PROVE TypeOK'
  <2>1. Fresh(r) \in Session
    BY <1>0, <1>6 DEF LoggedIn, Handling, TypeOK, Handler, Fresh, Session
  <2> QED
    BY <1>0, <1>1, <1>2, <1>6, <2>1 DEF TypeOK, LoggedIn, Open
<1>7. ASSUME NEW r \in Requests, CreateSession(r) PROVE TypeOK'
  <2>1. req[r].account \in Accounts /\ req[r].allowed \in SUBSET Challenges
    BY <1>0, <1>7 DEF CreateSession, Handling, TypeOK, Handler
  <2>2. \A k \in req[r].allowed : [account |-> req[r].account, credential |-> k] \in Session
    BY <2>1 DEF Session
  <2> QED
    BY <1>0, <1>1, <1>2, <1>7, <2>2 DEF TypeOK, CreateSession, Open
<1>8. ASSUME NEW r \in Requests, Acts(r), ~CreatePasskey(r), ~SetMode(r), ~LoggedIn(r),
             ~CreateSession(r)
      PROVE  TypeOK'
  <2>1. UNCHANGED <<mode, passkeys, sessions>>
    BY <1>8 DEF Acts, LoginStart, TwoStepStart, Begun, RegisterFinish, SpendChallenge, Spend,
       Rejected, CheckMode, Login, LoginFinish,
       VerifyToken, VerifyChallenge, VerifyGivesUp, SpendToken, Dropped
  <2> QED
    BY <1>0, <1>1, <1>2, <2>1 DEF TypeOK
<1> QED
  BY <1>3, <1>4, <1>5, <1>6, <1>7, <1>8 DEF Next, Acts

\* A credential that reaches a passkey, a list or a session was registered by the
\* account it is kept for.
LEMMA CredentialsStep == IInv /\ [Next]_vars => CredentialsSound'
<1> SUFFICES ASSUME IInv, [Next]_vars PROVE CredentialsSound'
  OBVIOUS
<1>0. /\ TypeOK /\ HandlersKnow /\ PasskeysRegistered /\ ListsRegistered
      /\ SessionsRegistered
  BY DEF IInv, CredentialsSound
<1>1. \A k \in Challenges : \A a : Registered(k, a) => RegisteredNext(k, a)
  BY RegisteredKept
<1>2. PasskeysRegistered'
  <2>1. \A p \in passkeys : RegisteredNext(p.credential, p.account)
    BY <1>0, <1>1 DEF PasskeysRegistered, TypeOK, Passkey
  <2>2. CASE passkeys' \subseteq passkeys
    BY <2>1, <2>2 DEF PasskeysRegistered, Registered, RegisteredNext
  <2>3. ASSUME NEW r \in Requests, CreatePasskey(r) PROVE PasskeysRegistered'
    <3>1. /\ req[r].challenge \in Challenges
          /\ Registered(req[r].challenge, req[r].account)
      BY <1>0, <2>3 DEF CreatePasskey, Handling, HandlersKnow, Knows, Challenged, Registered
    <3>2. RegisteredNext(req[r].challenge, req[r].account)
      BY <1>1, <3>1
    <3> QED
      BY <2>1, <2>3, <3>2 DEF CreatePasskey, PasskeysRegistered, Registered, RegisteredNext
  <2>4. ASSUME NEW r \in Requests, Acts(r), ~CreatePasskey(r) PROVE passkeys' = passkeys
    BY <2>4 DEF Acts, LoginStart, TwoStepStart, Begun, RegisterFinish, SpendChallenge, Spend,
       Rejected, CheckMode, SetMode, Login, LoggedIn, LoginFinish,
       VerifyToken, VerifyChallenge, VerifyGivesUp, SpendToken, CreateSession, Dropped
  <2>5. CASE Expire \/ RegisterStart \/ DeletePasskey \/ Logout \/ UNCHANGED vars
    BY <2>2, <2>5 DEF Expire, RegisterStart, DeletePasskey, Logout, vars
  <2> QED
    BY <2>2, <2>3, <2>4, <2>5 DEF Next, Acts
<1>3. ListsRegistered'
  <2>1. ASSUME NEW c \in Challenges, challenges[c] \in Challenge
        PROVE  \A k \in challenges'[c].allowed : RegisteredNext(k, challenges'[c].account)
    <3>1. challenges[c] # None /\ challenges[c].allowed \in SUBSET Challenges
      BY <2>1, NoneAssumption DEF Challenge
    <3>2. \A k \in challenges[c].allowed : RegisteredNext(k, challenges[c].account)
      BY <1>0, <1>1, <3>1 DEF ListsRegistered
    <3> QED
      BY <2>1, <3>2, ChallengesKept
  <2>2. ASSUME NEW c \in Challenges, NEW a \in Accounts, NEW kind \in {"registration", "login"},
               NEW l \in SUBSET Challenges, \A k \in l : Registered(k, a),
               Issue(c, a, kind, l)
        PROVE  ListsRegistered'
    <3>1. /\ challenges'[c].allowed = l /\ challenges'[c].account = a
          /\ \A d \in Challenges \ {c} : challenges'[d] = challenges[d]
      BY <1>0, <2>2 DEF Issue, TypeOK
    <3>2. \A k \in l : RegisteredNext(k, a)
      BY <1>1, <2>2
    <3>3. ASSUME NEW d \in Challenges, challenges'[d] # None
          PROVE  \A k \in challenges'[d].allowed : RegisteredNext(k, challenges'[d].account)
      <4>1. CASE d = c
        BY <3>1, <3>2, <4>1
      <4>2. CASE d # c
        BY <1>0, <2>1, <3>1, <3>3, <4>2 DEF TypeOK
      <4> QED
        BY <4>1, <4>2
    <3> QED
      BY <3>3 DEF ListsRegistered, Registered, RegisteredNext
  <2>3. CASE \A c \in Challenges : challenges'[c] # None => challenges[c] # None
    <3>1. \A c \in Challenges : challenges'[c] # None => challenges[c] \in Challenge
      BY <1>0, <2>3 DEF TypeOK
    <3> QED
      BY <2>1, <3>1 DEF ListsRegistered, Registered, RegisteredNext
  <2>4. CASE RegisterStart
    BY <2>2, <2>4 DEF RegisterStart
  <2>5. ASSUME NEW r \in Requests, Begun(r) PROVE ListsRegistered'
    <3>1. /\ req[r].account \in Accounts /\ req[r].allowed \in SUBSET Challenges
          /\ \A k \in req[r].allowed : Registered(k, req[r].account)
      BY <1>0, <2>5 DEF Begun, Handling, TypeOK, Handler, HandlersKnow, Knows
    <3> QED
      BY <2>2, <2>5, <3>1 DEF Begun
  <2>6. ASSUME NEW r \in Requests, SpendChallenge(r)
        PROVE  \A c \in Challenges : challenges'[c] # None => challenges[c] # None
    <3>1. /\ challenges' = [challenges EXCEPT ![req[r].challenge].gone = TRUE]
          /\ req[r] # None /\ req[r].op \in Challenged
      BY <2>6 DEF SpendChallenge, Spend, Handling, Challenged
    <3>2. challenges[req[r].challenge] \in Challenge
      BY <1>0, <3>1 DEF HandlersKnow, Knows
    <3> QED
      BY <1>0, <3>1, <3>2, NoneAssumption DEF TypeOK
  <2>7. ASSUME NEW r \in Requests, Acts(r), ~Begun(r), ~SpendChallenge(r)
        PROVE  challenges' = challenges
    BY <2>7 DEF Acts, LoginStart, TwoStepStart, RegisterFinish, CreatePasskey,
       Rejected, CheckMode, SetMode, Login, LoggedIn, LoginFinish,
       VerifyToken, VerifyChallenge, VerifyGivesUp, SpendToken, CreateSession, Dropped
  <2>8. CASE Expire
    BY <1>0, <2>3, <2>8 DEF Expire, TypeOK
  <2>9. CASE DeletePasskey \/ Logout \/ UNCHANGED vars
    BY <2>3, <2>9 DEF DeletePasskey, Logout, vars
  <2> QED
    BY <2>3, <2>4, <2>5, <2>6, <2>7, <2>8, <2>9 DEF Next, Acts
<1>4. SessionsRegistered'
  <2>1. \A s \in sessions : s.credential # None => RegisteredNext(s.credential, s.account)
    BY <1>0, <1>1 DEF SessionsRegistered, TypeOK, Session
  <2>2. CASE sessions' \subseteq sessions
    BY <2>1, <2>2 DEF SessionsRegistered, Registered, RegisteredNext
  <2>3. ASSUME NEW r \in Requests, CreateSession(r) PROVE SessionsRegistered'
    <3>1. PICK k \in req[r].allowed :
            sessions' = sessions \cup {[account |-> req[r].account, credential |-> k]}
      BY <2>3 DEF CreateSession, Open
    <3>2. k \in Challenges /\ Registered(k, req[r].account)
      BY <1>0, <2>3 DEF CreateSession, Handling, HandlersKnow, Knows, TypeOK, Handler
    <3>3. RegisteredNext(k, req[r].account)
      BY <1>1, <3>2
    <3> QED
      BY <2>1, <3>1, <3>3 DEF SessionsRegistered, Registered, RegisteredNext
  <2>4. ASSUME NEW r \in Requests, LoggedIn(r) PROVE SessionsRegistered'
    <3>1. sessions' \subseteq sessions \cup {Fresh(r)} /\ Fresh(r).credential = None
      BY <2>4 DEF LoggedIn, Open, Fresh
    <3> QED
      BY <2>1, <3>1 DEF SessionsRegistered, Registered, RegisteredNext
  <2>5. ASSUME NEW r \in Requests, Acts(r), ~CreateSession(r), ~LoggedIn(r)
        PROVE  sessions' = sessions
    BY <2>5 DEF Acts, LoginStart, TwoStepStart, Begun, RegisterFinish, SpendChallenge, Spend,
       CreatePasskey, Rejected, CheckMode, SetMode, Login, LoginFinish,
       VerifyToken, VerifyChallenge, VerifyGivesUp, SpendToken, Dropped
  <2>6. CASE Expire \/ RegisterStart \/ DeletePasskey \/ Logout \/ UNCHANGED vars
    BY <2>2, <2>6 DEF Expire, RegisterStart, DeletePasskey, Logout, vars
  <2> QED
    BY <2>2, <2>3, <2>4, <2>5, <2>6 DEF Next, Acts
<1> QED
  BY <1>2, <1>3, <1>4 DEF CredentialsSound

\* The invariant holds in every state the program reaches.
LEMMA Invariant == Spec => []IInv
<1>1. IInv /\ [Next]_vars => IInv'
  BY TypeStep, CredentialsStep, KnowsStep DEF IInv
<1> QED
  BY <1>1, InitInv, PTL DEF Spec

\* The variables keep their types: in particular the mode written is one of the three.
THEOREM TypeCorrect == Spec => []TypeOK
<1>1. IInv => TypeOK
  BY DEF IInv
<1> QED
  BY <1>1, Invariant, PTL

\* A session opened with a credential is for the account that registered it,
\* whichever challenges and tokens are sent together, how often, and by how many
\* requests at once (passkey.rs passkey_login_finish, passkey_verify).
THEOREM SessionsOwned == Spec => []SessionOfKeyOwner
<1>1. IInv => SessionOfKeyOwner
  BY DEF IInv, CredentialsSound, SessionsRegistered, Registered, SessionOfKeyOwner
<1> QED
  BY <1>1, Invariant, PTL

\* No login can be completed with a credential whose registration was not
\* completed by the account of the login (passkey.rs passkey_register_finish).
THEOREM ListsComplete == Spec => []ListedWasRegistered
<1>1. IInv => ListedWasRegistered
  BY DEF IInv, CredentialsSound, ListsRegistered, Registered, ListedWasRegistered
<1> QED
  BY <1>1, Invariant, PTL

-----------------------------------------------------------------------------
(***************************************************************************)
(* The inductive invariant. cli_poll makes a token for the account it read *)
(* some time ago, so what the read saw is followed: an authorized code has *)
(* a grant, and grants are never taken back. Tokens are counted against    *)
(* the polls that broke, which needs a CLI to have one poll at a time and  *)
(* none once it has its credential.                                        *)
(***************************************************************************)
Granted(a, c) == a \in Accounts /\ <<a, c>> \in granted

AuthorizedByGrant ==
    \A c \in Codes : Is(c, "authorized") => Granted(code[c].account, c)

CodesMadeFirst == \A c \in Codes : code[c] = None => cli[c] = "none"

\* What a poll under way has read and made.
Carries(c) ==
    /\ cli[c] = "waiting"
    /\ poll[c].status = "authorized" => Granted(poll[c].account, c)
    /\ poll[c].status # "authorized" => poll[c].row = None
    /\ poll[c].row # None => /\ poll[c].row \in RowsOf(c)
                             /\ Granted(poll[c].row.account, c)

PollsCarry == \A c \in Codes : poll[c] # None => Carries(c)

\* The token of c that a CLI holds, that is on its way to it, or that it got and
\* could not save.
Delivered(c) ==
    \/ credential[c] # None
    \/ cli[c] = "unsaved"
    \/ poll[c] # None /\ poll[c].row # None

RowsCounted ==
    /\ IsFiniteSet(rows)
    /\ \A c \in Codes :
          Cardinality(RowsOf(c)) =< lost[c] + (IF Delivered(c) THEN 1 ELSE 0)

LoginSound == /\ AuthorizedByGrant /\ CodesMadeFirst
              /\ PollsCarry /\ LoggedInAsGranted

LoginIInv == LoginTypeOK /\ LoginSound /\ RowsCounted

\* The invariant holds before any CLI has asked for a code.
LEMMA LoginInitInv == LoginInit => LoginIInv
<1> SUFFICES ASSUME LoginInit PROVE LoginIInv
  OBVIOUS
<1>1. LoginTypeOK
  BY MaxLostAssumption DEF LoginInit, LoginTypeOK
<1>2. LoginSound
  BY DEF LoginInit, LoginSound, AuthorizedByGrant, CodesMadeFirst, PollsCarry,
         LoggedInAsGranted, Is
<1>3. RowsCounted
  <2>1. rows = {} /\ \A c \in Codes : RowsOf(c) = {} /\ lost[c] = 0
    BY DEF LoginInit, RowsOf
  <2> QED
    BY <2>1, FS_EmptySet DEF RowsCounted
<1> QED
  BY <1>1, <1>2, <1>3 DEF LoginIInv

\* The number of lost polls, on its own.
LEMMA LostTyped == ASSUME LoginTypeOK PROVE \A c \in Codes : lost[c] \in Nat /\ lost[c] =< MaxLost
<1>1. lost \in [Codes -> 0 .. MaxLost]
  BY DEF LoginTypeOK
<1> QED
  BY <1>1, MaxLostAssumption

\* The tokens of a code are finitely many.
LEMMA RowsFinite ==
  ASSUME IsFiniteSet(rows)
  PROVE  \A c \in Codes : IsFiniteSet(RowsOf(c)) /\ Cardinality(RowsOf(c)) \in Nat
<1>1. \A c \in Codes : RowsOf(c) \subseteq rows
  BY DEF RowsOf
<1> QED
  BY <1>1, FS_Subset, FS_CardinalityType

\* Every step keeps the types.
LEMMA LoginTypeStep == LoginIInv /\ [LoginNext]_loginVars => LoginTypeOK'
<1> SUFFICES ASSUME LoginIInv, [LoginNext]_loginVars PROVE LoginTypeOK'
  OBVIOUS
<1>0. LoginTypeOK /\ CodesMadeFirst /\ PollsCarry
  BY DEF LoginIInv, LoginSound
<1>1. ASSUME NEW c \in Codes, CliInit(c) \/ Deny(c) PROVE LoginTypeOK'
  <2>1. code' \in [Codes -> Code \cup {None}]
    <3>1. code \in [Codes -> Code \cup {None}]
      BY <1>0 DEF LoginTypeOK
    <3> QED
      BY <1>1, <3>1 DEF CliInit, Deny, Code, Statuses
  <2> QED
    BY <1>0, <1>1, <2>1 DEF LoginTypeOK, CliInit, Deny
<1>2. ASSUME NEW c \in Codes, Tick(c) PROVE LoginTypeOK'
  <2>1. clock' \in [Codes -> 0 .. 2]
    <3>1. clock \in [Codes -> 0 .. 2]
      BY <1>0 DEF LoginTypeOK
    <3> QED
      BY <1>2, <3>1 DEF Tick
  <2> QED
    BY <1>0, <1>2, <2>1 DEF LoginTypeOK, Tick
<1>8. ASSUME NEW c \in Codes, PollLost(c) PROVE LoginTypeOK'
  <2>1. lost' \in [Codes -> 0 .. MaxLost]
    <3>1. lost \in [Codes -> 0 .. MaxLost]
      BY <1>0 DEF LoginTypeOK
    <3> QED
      BY <1>8, <3>1, MaxLostAssumption DEF PollLost
  <2> QED
    BY <1>0, <1>8, <2>1 DEF LoginTypeOK, PollLost
<1>9. ASSUME NEW c \in Codes, TimedOut(c) PROVE LoginTypeOK'
  BY <1>0, <1>9 DEF LoginTypeOK, TimedOut
<1>3. ASSUME NEW c \in Codes, PollRead(c) PROVE LoginTypeOK'
  <2>1. code[c] \in Code
    BY <1>0, <1>3 DEF LoginTypeOK, PollRead, CodesMadeFirst
  <2> QED
    BY <1>0, <1>3, <2>1 DEF LoginTypeOK, PollRead, Code, Poll
<1>4. ASSUME NEW c \in Codes, CreateToken(c) PROVE LoginTypeOK'
  <2> DEFINE new == [code |-> c, nth |-> Cardinality(RowsOf(c)) + 1,
                     account |-> poll[c].account]
  <2>1. /\ new \in Row /\ rows' = rows \cup {new}
        /\ poll' = [poll EXCEPT ![c].row = new]
        /\ UNCHANGED <<code, clock, cli, credential, lost, page, granted>>
    BY <1>4 DEF CreateToken
  <2>2. poll[c] \in Poll
    BY <1>0, <1>4 DEF LoginTypeOK, CreateToken
  <2> HIDE DEF new
  <2>3. [poll[c] EXCEPT !.row = new] \in Poll
    BY <2>1, <2>2 DEF Poll
  <2> QED
    BY <1>0, <2>1, <2>3 DEF LoginTypeOK
<1>5. ASSUME NEW c \in Codes, Answered(c) PROVE LoginTypeOK'
  BY <1>0, <1>5 DEF LoginTypeOK, Answered, Poll, Statuses
<1>11. ASSUME NEW c \in Codes, NotSaved(c) PROVE LoginTypeOK'
  BY <1>0, <1>11 DEF LoginTypeOK, NotSaved
<1>6. ASSUME NEW r \in Pages, AuthorizeRead(r) \/ PageClosed(r)
      PROVE LoginTypeOK'
  <2>1. page' \in [Pages -> [code : Codes, account : Accounts] \cup {None}]
    <3>1. page \in [Pages -> [code : Codes, account : Accounts] \cup {None}]
      BY <1>0 DEF LoginTypeOK
    <3> QED
      BY <1>6, <3>1 DEF AuthorizeRead, PageClosed
  <2> QED
    BY <1>0, <1>6, <2>1 DEF LoginTypeOK, AuthorizeRead, PageClosed
<1>10. ASSUME NEW r \in Pages, AuthorizeWrite(r) PROVE LoginTypeOK'
  <2>1. page[r] \in [code : Codes, account : Accounts]
    BY <1>0, <1>10 DEF LoginTypeOK, AuthorizeWrite
  <2>2. [status |-> "authorized", account |-> page[r].account] \in Code
    BY <2>1 DEF Code, Statuses
  <2>3. code' \in [Codes -> Code \cup {None}]
    BY <1>0, <1>10, <2>1, <2>2 DEF LoginTypeOK, AuthorizeWrite
  <2>4. granted' \subseteq Accounts \X Codes
    <3>1. granted' = granted \cup {<<page[r].account, page[r].code>>}
      BY <1>10 DEF AuthorizeWrite
    <3>2. granted \subseteq Accounts \X Codes
      BY <1>0 DEF LoginTypeOK
    <3> QED
      BY <2>1, <3>1, <3>2
  <2>5. page' \in [Pages -> [code : Codes, account : Accounts] \cup {None}]
    BY <1>0, <1>10 DEF LoginTypeOK, AuthorizeWrite
  <2> QED
    BY <1>0, <1>10, <2>3, <2>4, <2>5 DEF LoginTypeOK, AuthorizeWrite
<1>7. CASE UNCHANGED loginVars
  BY <1>0, <1>7 DEF LoginTypeOK, loginVars
<1> QED
  BY <1>1, <1>2, <1>3, <1>4, <1>5, <1>6, <1>7, <1>8, <1>9, <1>10, <1>11
  DEF LoginNext, CliStep

\* Every step keeps what polls, codes and credentials owe to a grant.
LEMMA SoundStep == LoginIInv /\ [LoginNext]_loginVars => LoginSound'
<1> SUFFICES ASSUME LoginIInv, [LoginNext]_loginVars PROVE LoginSound'
  OBVIOUS
<1> USE DEF Granted
<1>0. LoginTypeOK /\ LoginSound
  BY DEF LoginIInv
<1>1. ASSUME NEW c \in Codes, CliInit(c) PROVE LoginSound'
  <2>1. /\ code[c] = None /\ cli[c] = "none" /\ poll[c] = None /\ credential[c] = None
        /\ code'[c] = [status |-> "pending", account |-> None] /\ cli'[c] = "waiting"
        /\ UNCHANGED <<rows, credential, poll, granted>>
    BY <1>0, <1>1 DEF LoginTypeOK, LoginSound, CodesMadeFirst, PollsCarry, Carries, CliInit,
                      LoggedInAsGranted
  <2>2. \A d \in Codes \ {c} : code'[d] = code[d] /\ cli'[d] = cli[d]
    BY <1>0, <1>1 DEF LoginTypeOK, CliInit
  <2>3. code'[c] # None
    <3>1. code'[c] \in Code
      BY <2>1 DEF Code, Statuses
    <3> QED
      BY <3>1, CodeAssumption
  <2>4. AuthorizedByGrant' /\ CodesMadeFirst'
    BY <1>0, <2>1, <2>2, <2>3 DEF LoginSound, AuthorizedByGrant, CodesMadeFirst, Is
  <2>5. PollsCarry' /\ LoggedInAsGranted'
    BY <1>0, <2>1, <2>2 DEF LoginSound, PollsCarry, Carries, LoggedInAsGranted, RowsOf
  <2> QED
    BY <2>4, <2>5 DEF LoginSound
<1>9. ASSUME NEW c \in Codes, Deny(c) PROVE LoginSound'
  <2>1. /\ code[c] # None /\ code'[c] = [code[c] EXCEPT !.status = "denied"]
        /\ UNCHANGED <<rows, cli, credential, poll, granted>>
    BY <1>0, <1>9 DEF LoginTypeOK, Deny
  <2>2. \A d \in Codes \ {c} : code'[d] = code[d]
    BY <1>0, <1>9 DEF LoginTypeOK, Deny
  <2>3. code'[c].status = "denied" /\ code'[c] # None
    <3>1. code[c] \in Code
      BY <1>0, <2>1 DEF LoginTypeOK
    <3>2. code'[c].status = "denied" /\ code'[c] \in Code
      BY <2>1, <3>1 DEF Code, Statuses
    <3> QED
      BY <3>2, CodeAssumption
  <2>4. AuthorizedByGrant' /\ CodesMadeFirst'
    BY <1>0, <2>1, <2>2, <2>3 DEF LoginSound, AuthorizedByGrant, CodesMadeFirst, Is
  <2>5. PollsCarry' /\ LoggedInAsGranted'
    BY <1>0, <2>1 DEF LoginSound, PollsCarry, Carries, LoggedInAsGranted, RowsOf
  <2> QED
    BY <2>4, <2>5 DEF LoginSound
<1>2. ASSUME NEW c \in Codes, Tick(c) \/ TimedOut(c) \/ PollLost(c) \/ NotSaved(c)
      PROVE LoginSound'
  <2>1. /\ UNCHANGED <<code, rows, credential, granted>>
        /\ \A d \in Codes : /\ poll'[d] = poll[d] \/ poll'[d] = None
                            /\ cli'[d] = cli[d] \/ (/\ cli[d] = "waiting" /\ poll'[d] = None
                                                    /\ cli'[d] \in {"timed out", "unsaved"})
    <3>1. ASSUME NEW d \in Codes, poll[d] # None PROVE cli[d] = "waiting"
      BY <1>0, <3>1 DEF LoginSound, PollsCarry, Carries
    <3> QED
      BY <1>0, <1>2, <3>1 DEF LoginTypeOK, Tick, TimedOut, PollLost, NotSaved
  <2>2. AuthorizedByGrant' /\ CodesMadeFirst'
    BY <1>0, <2>1 DEF LoginSound, AuthorizedByGrant, CodesMadeFirst, Is
  <2>3. ASSUME NEW d \in Codes, poll'[d] # None PROVE Carries(d)'
    <3>1. poll'[d] = poll[d] /\ cli'[d] = cli[d] /\ Carries(d)
      BY <1>0, <2>1, <2>3 DEF LoginSound, PollsCarry
    <3> QED
      BY <2>1, <3>1 DEF Carries, RowsOf
  <2>4. LoggedInAsGranted'
    BY <1>0, <2>1 DEF LoginSound, LoggedInAsGranted, RowsOf
  <2> QED
    BY <2>2, <2>3, <2>4 DEF LoginSound, PollsCarry
<1>3. ASSUME NEW c \in Codes, PollRead(c) PROVE LoginSound'
  <2>1. /\ code[c] # None /\ cli[c] = "waiting"
        /\ poll'[c] = [status |-> IF clock[c] > 0 THEN "expired" ELSE code[c].status,
                       account |-> code[c].account, row |-> None]
        /\ UNCHANGED <<code, rows, cli, credential, granted>>
    BY <1>0, <1>3 DEF LoginTypeOK, PollRead, LoginSound, CodesMadeFirst
  <2>2. \A d \in Codes \ {c} : poll'[d] = poll[d]
    BY <1>0, <1>3 DEF LoginTypeOK, PollRead
  <2>3. poll'[c].status = "authorized" => Is(c, "authorized")
    BY <2>1 DEF Is
  <2>4. Carries(c)'
    BY <1>0, <2>1, <2>3 DEF LoginSound, AuthorizedByGrant, Carries
  <2>5. PollsCarry'
    BY <1>0, <2>1, <2>2, <2>4 DEF LoginSound, PollsCarry, Carries, RowsOf
  <2> QED
    BY <1>0, <2>1, <2>5 DEF LoginSound, AuthorizedByGrant, CodesMadeFirst,
                            LoggedInAsGranted, Is, RowsOf
<1>4. ASSUME NEW c \in Codes, CreateToken(c) PROVE LoginSound'
  <2> DEFINE new == [code |-> c, nth |-> Cardinality(RowsOf(c)) + 1,
                     account |-> poll[c].account]
  <2>1. /\ new \in Row /\ rows' = rows \cup {new}
        /\ poll' = [poll EXCEPT ![c].row = new]
        /\ UNCHANGED <<code, clock, cli, credential, lost, page, granted>>
        /\ new.code = c /\ new.account = poll[c].account
    BY <1>4 DEF CreateToken
  <2>2. poll[c] \in Poll /\ poll[c] # None /\ poll[c].status = "authorized"
    BY <1>0, <1>4 DEF LoginTypeOK, CreateToken
  <2> HIDE DEF new
  <2>3. /\ poll'[c].status = "authorized" /\ poll'[c].account = poll[c].account
        /\ poll'[c].row = new
    BY <1>0, <2>1, <2>2 DEF LoginTypeOK, Poll
  <2>4. \A d \in Codes \ {c} : poll'[d] = poll[d]
    BY <1>0, <2>1 DEF LoginTypeOK
  <2>5. Carries(c)'
    <3>1. cli[c] = "waiting" /\ Granted(poll[c].account, c)
      BY <1>0, <2>2 DEF LoginSound, PollsCarry, Carries
    <3>2. new \in RowsOf(c)'
      BY <2>1 DEF RowsOf
    <3> QED
      BY <2>1, <2>3, <3>1, <3>2 DEF Carries
  <2>6. PollsCarry'
    BY <1>0, <2>1, <2>4, <2>5 DEF LoginSound, PollsCarry, Carries, RowsOf
  <2> QED
    BY <1>0, <2>1, <2>6 DEF LoginSound, AuthorizedByGrant, CodesMadeFirst,
                            LoggedInAsGranted, Is, RowsOf
<1>5. ASSUME NEW c \in Codes, Answered(c) PROVE LoginSound'
  <2>1. /\ poll[c] \in Poll /\ poll[c] # None /\ Carries(c)
        /\ poll[c].status = "authorized" => poll[c].row # None
        /\ cli[c] = "waiting" /\ credential[c] = None /\ poll'[c] = None
        /\ cli'[c] = IF poll[c].status = "pending" THEN cli[c] ELSE poll[c].status
        /\ credential'[c] = poll[c].row
        /\ UNCHANGED <<code, rows, granted>>
    BY <1>0, <1>5 DEF LoginTypeOK, LoginSound, PollsCarry, LoggedInAsGranted, Carries, Answered
  <2>2. \A d \in Codes \ {c} : UNCHANGED <<poll[d], cli[d], credential[d]>>
    BY <1>0, <1>5 DEF LoginTypeOK, Answered
  <2>3. AuthorizedByGrant' /\ CodesMadeFirst' /\ PollsCarry'
    BY <1>0, <2>1, <2>2 DEF LoginSound, AuthorizedByGrant, CodesMadeFirst,
                            PollsCarry, Carries, Is, RowsOf
  <2>4. ASSUME NEW d \in Codes
        PROVE  /\ cli'[d] = "authorized" <=> credential'[d] # None
               /\ credential'[d] # None => /\ credential'[d] \in RowsOf(d)'
                                           /\ <<credential'[d].account, d>> \in granted'
    <3>1. CASE d = c
      BY <2>1, <3>1 DEF Carries, RowsOf
    <3>2. CASE d # c
      BY <1>0, <2>1, <2>2, <3>2 DEF LoginSound, LoggedInAsGranted, RowsOf
    <3> QED
      BY <3>1, <3>2
  <2> QED
    BY <2>3, <2>4 DEF LoginSound, LoggedInAsGranted
<1>6. ASSUME NEW r \in Pages, AuthorizeRead(r) \/ PageClosed(r)
      PROVE LoginSound'
  <2>1. UNCHANGED <<code, rows, cli, credential, poll, granted>>
    BY <1>6 DEF AuthorizeRead, PageClosed
  <2> QED
    BY <1>0, <2>1 DEF LoginSound, AuthorizedByGrant, CodesMadeFirst, PollsCarry,
                      Carries, LoggedInAsGranted, Is, RowsOf
<1>8. ASSUME NEW r \in Pages, AuthorizeWrite(r) PROVE LoginSound'
  <2> DEFINE c == page[r].code
             a == page[r].account
  <2>1. /\ c \in Codes /\ a \in Accounts
        /\ code' = [code EXCEPT ![c] = [status |-> "authorized", account |-> a]]
        /\ granted' = granted \cup {<<a, c>>}
        /\ UNCHANGED <<rows, cli, credential, poll>>
    BY <1>0, <1>8 DEF LoginTypeOK, AuthorizeWrite
  <2> HIDE DEF c, a
  <2>2. code'[c] = [status |-> "authorized", account |-> a] /\ code'[c] \in Code
    BY <1>0, <2>1 DEF LoginTypeOK, Code, Statuses
  <2>3. \A d \in Codes \ {c} : code'[d] = code[d]
    BY <1>0, <2>1 DEF LoginTypeOK
  <2>4. AuthorizedByGrant'
    BY <1>0, <2>1, <2>2, <2>3 DEF LoginSound, AuthorizedByGrant, Is
  <2>5. CodesMadeFirst'
    BY <1>0, <2>1, <2>2, <2>3, CodeAssumption DEF LoginSound, CodesMadeFirst
  <2>6. PollsCarry' /\ LoggedInAsGranted'
    BY <1>0, <2>1 DEF LoginSound, PollsCarry, Carries, LoggedInAsGranted, RowsOf
  <2> QED
    BY <2>4, <2>5, <2>6 DEF LoginSound
<1>7. CASE UNCHANGED loginVars
  BY <1>0, <1>7 DEF LoginSound, AuthorizedByGrant, CodesMadeFirst, PollsCarry,
        Carries, LoggedInAsGranted, loginVars, Is, RowsOf
<1> QED
  BY <1>1, <1>2, <1>3, <1>4, <1>5, <1>6, <1>7, <1>8, <1>9 DEF LoginNext, CliStep

\* A CLI has no more tokens than polls, and a token made now is within the
\* bound: CreateToken's guard on the number of a token excludes nothing.
LEMMA NumberWithinBound ==
  ASSUME LoginIInv, NEW c \in Codes, poll[c] # None,
         poll[c].status = "authorized", poll[c].row = None
  PROVE  /\ ~Delivered(c) /\ Cardinality(RowsOf(c)) =< lost[c]
         /\ [code |-> c, nth |-> Cardinality(RowsOf(c)) + 1,
             account |-> poll[c].account] \in Row
<1>1. credential[c] = None /\ cli[c] = "waiting" /\ poll[c].account \in Accounts
  BY DEF LoginIInv, LoginSound, PollsCarry, Carries, Granted, LoggedInAsGranted
<1>2. ~Delivered(c)
  BY <1>1 DEF Delivered
<1>3. Cardinality(RowsOf(c)) \in Nat
  BY RowsFinite DEF LoginIInv, RowsCounted
<1>4. lost[c] \in Nat /\ lost[c] =< MaxLost
  BY LostTyped DEF LoginIInv
<1>5. Cardinality(RowsOf(c)) =< lost[c]
  BY <1>2, <1>4 DEF LoginIInv, RowsCounted
<1>6. Cardinality(RowsOf(c)) + 1 \in 1 .. MaxLost + 1
  BY <1>3, <1>4, <1>5, MaxLostAssumption
<1> QED
  BY <1>1, <1>2, <1>5, <1>6 DEF Row

\* A poll makes a token at most, and when it breaks it has been counted.
LEMMA CountStep == LoginIInv /\ [LoginNext]_loginVars => RowsCounted'
<1> SUFFICES ASSUME LoginIInv, [LoginNext]_loginVars PROVE RowsCounted'
  OBVIOUS
<1>0. LoginTypeOK /\ LoginSound /\ RowsCounted
  BY DEF LoginIInv
<1>1. ASSUME rows' = rows,
             \A c \in Codes : /\ lost'[c] \in Nat /\ lost[c] =< lost'[c]
                              /\ Delivered(c) => Delivered(c)' \/ lost[c] < lost'[c]
      PROVE  RowsCounted'
  <2> SUFFICES ASSUME NEW c \in Codes
               PROVE  Cardinality(RowsOf(c)') =< lost'[c] + (IF Delivered(c)' THEN 1 ELSE 0)
    BY <1>0, <1>1 DEF RowsCounted
  <2>1. RowsOf(c)' = RowsOf(c)
    BY <1>1 DEF RowsOf
  <2>2. Cardinality(RowsOf(c)) \in Nat /\ lost[c] \in Nat
    BY <1>0, RowsFinite, LostTyped DEF RowsCounted
  <2>3. Cardinality(RowsOf(c)) =< lost[c] + (IF Delivered(c) THEN 1 ELSE 0)
    BY <1>0 DEF RowsCounted
  <2>4. /\ lost'[c] \in Nat /\ lost[c] =< lost'[c]
        /\ Delivered(c) => Delivered(c)' \/ lost[c] < lost'[c]
    BY <1>1
  <2>5. CASE Delivered(c)'
    BY <2>1, <2>2, <2>3, <2>4, <2>5
  <2>6. CASE ~Delivered(c)'
    BY <2>1, <2>2, <2>3, <2>4, <2>6
  <2> QED
    BY <2>5, <2>6
<1>2. ASSUME NEW c \in Codes, CliInit(c) \/ Deny(c) \/ Tick(c) \/ TimedOut(c)
      PROVE RowsCounted'
  <2>1. /\ UNCHANGED <<rows, credential, poll, lost>>
        /\ \A d \in Codes : cli[d] = "unsaved" => cli'[d] = "unsaved"
    BY <1>0, <1>2 DEF CliInit, Deny, Tick, TimedOut, LoginTypeOK, LoginSound, CodesMadeFirst
  <2> QED
    BY <1>0, <1>1, <2>1, LostTyped DEF Delivered
<1>3. ASSUME NEW c \in Codes, PollRead(c) PROVE RowsCounted'
  <2>1. \A d \in Codes : Delivered(d) => Delivered(d)'
    BY <1>0, <1>3 DEF Delivered, LoginTypeOK, PollRead
  <2>2. rows' = rows /\ lost' = lost
    BY <1>3 DEF PollRead
  <2> QED
    BY <1>0, <1>1, <2>1, <2>2, LostTyped
<1>4. ASSUME NEW c \in Codes, CreateToken(c) PROVE RowsCounted'
  <2> DEFINE new == [code |-> c, nth |-> Cardinality(RowsOf(c)) + 1,
                     account |-> poll[c].account]
  <2>1. /\ rows' = rows \cup {new} /\ new.code = c /\ new \in Row
        /\ poll' = [poll EXCEPT ![c].row = new]
        /\ UNCHANGED <<credential, cli, lost>>
        /\ ~Delivered(c) /\ Cardinality(RowsOf(c)) =< lost[c]
    BY <1>4, NumberWithinBound DEF CreateToken
  <2>2. poll[c] \in Poll
    BY <1>0, <1>4 DEF LoginTypeOK, CreateToken
  <2> HIDE DEF new
  <2>3. IsFiniteSet(rows)
    BY <1>0 DEF RowsCounted
  <2>4. IsFiniteSet(rows')
    BY <2>1, <2>3, FS_AddElement
  <2>5. RowsOf(c)' = RowsOf(c) \cup {new}
    BY <2>1 DEF RowsOf
  <2>6. IsFiniteSet(RowsOf(c)) /\ Cardinality(RowsOf(c)) \in Nat
    BY <2>3, RowsFinite
  <2>7. Cardinality(RowsOf(c)') =< Cardinality(RowsOf(c)) + 1
    <3>1. Cardinality(RowsOf(c) \cup {new}) =
            IF new \in RowsOf(c) THEN Cardinality(RowsOf(c)) ELSE Cardinality(RowsOf(c)) + 1
      BY <2>6, FS_AddElement
    <3> QED
      BY <2>5, <2>6, <3>1
  <2>10. lost'[c] = lost[c] /\ lost[c] \in Nat
    BY <1>0, <2>1, LostTyped
  <2>11. Cardinality(RowsOf(c)') =< lost'[c] + 1
    <3>1. Cardinality(RowsOf(c)') \in Nat
      <4>1. IsFiniteSet(RowsOf(c) \cup {new})
        BY <2>6, FS_AddElement
      <4> QED
        BY <2>5, <4>1, FS_CardinalityType
    <3> QED
      BY <2>1, <2>6, <2>7, <2>10, <3>1
  <2>8. Delivered(c)'
    <3>1. poll'[c] = [poll[c] EXCEPT !.row = new]
      BY <1>0, <2>1 DEF LoginTypeOK
    <3>2. poll'[c] \in Poll /\ poll'[c].row = new
      BY <2>1, <2>2, <3>1 DEF Poll
    <3> QED
      BY <2>1, <3>2, CodeAssumption DEF Delivered
  <2>9. ASSUME NEW d \in Codes, d # c
        PROVE  Cardinality(RowsOf(d)') =< lost'[d] + (IF Delivered(d)' THEN 1 ELSE 0)
    <3>1. RowsOf(d)' = RowsOf(d)
      BY <2>1, <2>9 DEF RowsOf
    <3>2. Delivered(d)' <=> Delivered(d)
      BY <1>0, <2>1, <2>9 DEF Delivered, LoginTypeOK
    <3> QED
      BY <1>0, <2>1, <3>1, <3>2 DEF RowsCounted
  <2> QED
    BY <2>4, <2>8, <2>9, <2>11 DEF RowsCounted
<1>5. ASSUME NEW c \in Codes, Answered(c) PROVE RowsCounted'
  <2>1. /\ rows' = rows /\ lost' = lost /\ credential[c] = None /\ cli[c] = "waiting"
        /\ credential' = [credential EXCEPT ![c] = poll[c].row]
        /\ poll' = [poll EXCEPT ![c] = None]
        /\ cli' = [cli EXCEPT ![c] = IF poll[c].status = "pending" THEN @ ELSE poll[c].status]
    BY <1>0, <1>5 DEF Answered, LoginSound, PollsCarry, Carries, LoggedInAsGranted
  <2>2. \A d \in Codes : Delivered(d) => Delivered(d)'
    BY <1>0, <2>1 DEF Delivered, LoginTypeOK
  <2> QED
    BY <1>0, <1>1, <2>1, <2>2, LostTyped
<1>8. ASSUME NEW c \in Codes, NotSaved(c) PROVE RowsCounted'
  <2>1. /\ rows' = rows /\ lost' = lost /\ credential' = credential
        /\ cli' = [cli EXCEPT ![c] = "unsaved"]
        /\ poll' = [poll EXCEPT ![c] = None]
    BY <1>8 DEF NotSaved
  <2>2. \A d \in Codes : Delivered(d) => Delivered(d)'
    BY <1>0, <2>1 DEF Delivered, LoginTypeOK
  <2> QED
    BY <1>0, <1>1, <2>1, <2>2, LostTyped
<1>6. ASSUME NEW c \in Codes, PollLost(c) PROVE RowsCounted'
  <2>1. /\ rows' = rows /\ credential' = credential /\ cli' = cli
        /\ lost' = [lost EXCEPT ![c] = @ + 1]
        /\ poll' = [poll EXCEPT ![c] = None]
    BY <1>6 DEF PollLost
  <2>2. \A d \in Codes : /\ lost'[d] = IF d = c THEN lost[d] + 1 ELSE lost[d]
                         /\ d # c => poll'[d] = poll[d]
    BY <1>0, <2>1 DEF LoginTypeOK
  <2>3. \A d \in Codes : lost[d] \in Nat
    BY <1>0, LostTyped
  <2>4. \A d \in Codes \ {c} : Delivered(d) => Delivered(d)'
    BY <2>1, <2>2 DEF Delivered
  <2> QED
    BY <1>1, <2>1, <2>2, <2>3, <2>4
<1>7. CASE (\E r \in Pages : AuthorizeRead(r) \/ AuthorizeWrite(r) \/ PageClosed(r))
           \/ UNCHANGED loginVars
  <2>1. UNCHANGED <<rows, credential, cli, poll, lost>>
    BY <1>7 DEF AuthorizeRead, AuthorizeWrite, PageClosed, loginVars
  <2> QED
    BY <1>0, <1>1, <2>1, LostTyped DEF Delivered
<1> QED
  BY <1>2, <1>3, <1>4, <1>5, <1>6, <1>7, <1>8 DEF LoginNext, CliStep

\* The invariant holds in every state the program reaches.
LEMMA LoginInvariant == LoginSpec => []LoginIInv
<1>1. LoginIInv /\ [LoginNext]_loginVars => LoginIInv'
  BY LoginTypeStep, SoundStep, CountStep DEF LoginIInv
<1> QED
  BY <1>1, LoginInitInv, PTL DEF LoginSpec

\* The variables keep their types.
THEOREM LoginTypeCorrect == LoginSpec => []LoginTypeOK
<1>1. LoginIInv => LoginTypeOK
  BY DEF LoginIInv
<1> QED
  BY <1>1, LoginInvariant, PTL

\* A CLI that says it is logged in holds a token that exists, for an account
\* whose user authorized that CLI's code, whatever happens to the code between
\* a poll's read of it and its token (routes.rs cli_poll, cli_authorize).
THEOREM LoginsGranted == LoginSpec => []LoggedInAsGranted
<1>1. LoginIInv => LoggedInAsGranted
  BY DEF LoginIInv, LoginSound
<1> QED
  BY <1>1, LoginInvariant, PTL

\* However many polls break, a CLI leaves no more tokens without a holder than
\* it lost polls, and one that it could not save (routes.rs cli_poll makes a token
\* at each poll; auth.go's loop).
THEOREM TokensBounded == LoginSpec => []TokensAccounted
<1>1. LoginIInv => TokensAccounted
  <2> SUFFICES ASSUME LoginIInv, NEW c \in Codes
               PROVE  Cardinality(RowsOf(c)) =<
                         lost[c] + (IF credential[c] # None \/ poll[c] # None
                                       \/ cli[c] = "unsaved" THEN 1 ELSE 0)
    BY DEF TokensAccounted
  <2>1. lost[c] \in Nat /\ Cardinality(RowsOf(c)) \in Nat
    BY RowsFinite, LostTyped DEF LoginIInv, RowsCounted
  <2> QED
    BY <2>1 DEF LoginIInv, RowsCounted, Delivered
<1> QED
  BY <1>1, LoginInvariant, PTL
=============================================================================
