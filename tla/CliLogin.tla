------------------------------ MODULE CliLogin ------------------------------
(***************************************************************************)
(* `spwn login` (services/cmd/spwn/auth.go) and the handlers behind it     *)
(* (auth/src/routes.rs cli_init, cli_poll, cli_authorize, cli_deny).  The  *)
(* CLI gets a code and polls for it while the user decides in a browser.   *)
(* A poll of an authorized code makes an API token; its answer may be lost *)
(* and the CLI then polls again.                                           *)
(***************************************************************************)
EXTENDS Auth, Naturals, FiniteSets

CONSTANTS Codes,
          Pages,     \* browser requests to authorize a code, at once
          MaxLost    \* bound: polls of a code that break

ASSUME MaxLostAssumption == MaxLost \in Nat

VARIABLES code,      \* rows of cli_auth_codes
          clock,     \* clock[c]: 0, 1 when the code has expired, 2 at the CLI's deadline
          rows,      \* rows of api_tokens, each named for its code
          cli,       \* cli[c]: the CLI that asked for c
          credential, \* credential[c]: the token it saved
          poll,      \* poll[c]: its poll, from the read of the row to the answer
          lost,      \* lost[c]: how many of its polls broke
          page,      \* page[r]: a cli_authorize between its check and its write
          granted    \* <<a, c>>: a authorized c (a history)

loginVars == <<code, clock, rows, cli, credential, poll, lost, page, granted>>

Statuses == {"pending", "authorized", "denied"}
Code == [status : Statuses, account : Accounts \cup {None}]
Row == [code : Codes, nth : 1 .. MaxLost + 1, account : Accounts]
Poll == [status : Statuses \cup {"expired"}, account : Accounts \cup {None},
         row : Row \cup {None}]

\* A missing row, token, answer or page is none that there could be.
ASSUME CodeAssumption == None \notin Accounts \cup Code \cup Row \cup Poll

Is(c, status) == code[c] # None /\ code[c].status = status
RowsOf(c) == {x \in rows : x.code = c}

-----------------------------------------------------------------------------
LoginInit ==
    /\ code = [c \in Codes |-> None] /\ clock = [c \in Codes |-> 0]
    /\ rows = {} /\ granted = {}
    /\ cli = [c \in Codes |-> "none"] /\ credential = [c \in Codes |-> None]
    /\ poll = [c \in Codes |-> None] /\ lost = [c \in Codes |-> 0]
    /\ page = [r \in Pages |-> None]

\* cli_init.
CliInit(c) ==
    /\ code[c] = None
    /\ code' = [code EXCEPT ![c] = [status |-> "pending", account |-> None]]
    /\ cli' = [cli EXCEPT ![c] = "waiting"]
    /\ UNCHANGED <<clock, rows, credential, poll, lost, page, granted>>

\* CLI_CODE_TTL_SECS pass, counted by the server and then by the CLI.
Tick(c) ==
    /\ code[c] # None /\ clock[c] < 2
    /\ clock' = [clock EXCEPT ![c] = @ + 1]
    /\ UNCHANGED <<code, rows, cli, credential, poll, lost, page, granted>>

\* Mutant: a poll that breaks is not repeated.
PollReadOnce(c) ==
    /\ cli[c] = "waiting" /\ poll[c] = None /\ clock[c] < 2 /\ lost[c] = 0
    /\ poll' = [poll EXCEPT ![c] =
           [status |-> IF clock[c] > 0 THEN "expired" ELSE code[c].status,
            account |-> code[c].account, row |-> None]]
    /\ UNCHANGED <<code, clock, rows, cli, credential, lost, page, granted>>

\* cli_poll reads the row.
PollRead(c) ==
    /\ cli[c] = "waiting" /\ poll[c] = None /\ clock[c] < 2
    /\ poll' = [poll EXCEPT ![c] =
           [status |-> IF clock[c] > 0 THEN "expired" ELSE code[c].status,
            account |-> code[c].account, row |-> None]]
    /\ UNCHANGED <<code, clock, rows, cli, credential, lost, page, granted>>

\* Of an authorized code it makes a token, whether or not there is one already.
CreateToken(c) ==
    /\ poll[c] # None /\ poll[c].status = "authorized" /\ poll[c].row = None
    /\ LET new == [code |-> c, nth |-> Cardinality(RowsOf(c)) + 1, account |-> poll[c].account]
       IN  /\ new \in Row
           /\ rows' = rows \cup {new}
           /\ poll' = [poll EXCEPT ![c].row = new]
    /\ UNCHANGED <<code, clock, cli, credential, lost, page, granted>>

\* Mutant: the CLI goes on polling after an authorized answer.
AnsweredAgain(c) ==
    /\ poll[c] # None
    /\ poll[c].status = "authorized" => poll[c].row # None
    /\ poll' = [poll EXCEPT ![c] = None]
    /\ UNCHANGED <<code, clock, rows, cli, credential, lost, page, granted>>

\* The CLI has the answer: it goes on waiting only while the code is pending.
Answered(c) ==
    /\ poll[c] # None
    /\ poll[c].status = "authorized" => poll[c].row # None
    /\ poll' = [poll EXCEPT ![c] = None]
    /\ cli' = [cli EXCEPT ![c] = IF poll[c].status = "pending" THEN @ ELSE poll[c].status]
    /\ credential' = [credential EXCEPT ![c] = poll[c].row]
    /\ UNCHANGED <<code, clock, rows, lost, page, granted>>

\* The CLI has a token and cannot save it: it returns an error, and the row of
\* the token stays.
NotSaved(c) ==
    /\ poll[c] # None /\ poll[c].row # None
    /\ poll' = [poll EXCEPT ![c] = None]
    /\ cli' = [cli EXCEPT ![c] = "unsaved"]
    /\ UNCHANGED <<code, clock, rows, credential, lost, page, granted>>

\* The poll breaks, in the handler or on the way back.
PollLost(c) ==
    /\ poll[c] # None /\ lost[c] < MaxLost
    /\ lost' = [lost EXCEPT ![c] = @ + 1]
    /\ poll' = [poll EXCEPT ![c] = None]
    /\ UNCHANGED <<code, clock, rows, cli, credential, page, granted>>

TimedOut(c) ==
    /\ cli[c] = "waiting" /\ poll[c] = None /\ clock[c] = 2
    /\ cli' = [cli EXCEPT ![c] = "timed out"]
    /\ UNCHANGED <<code, clock, rows, credential, poll, lost, page, granted>>

-----------------------------------------------------------------------------
\* Mutant: opening the page authorizes the code.
AuthorizeAtOnce(r) == \E a \in Accounts, c \in Codes :
    /\ page[r] = None
    /\ Is(c, "pending") /\ clock[c] = 0
    /\ page' = [page EXCEPT ![r] = [code |-> c, account |-> a]]
    /\ code' = [code EXCEPT ![c] = [status |-> "authorized", account |-> a]]
    /\ UNCHANGED <<clock, rows, cli, credential, poll, lost, granted>>

\* cli_authorize: a code that is pending and has not expired ...
AuthorizeRead(r) == \E a \in Accounts, c \in Codes :
    /\ page[r] = None
    /\ Is(c, "pending") /\ clock[c] = 0
    /\ page' = [page EXCEPT ![r] = [code |-> c, account |-> a]]
    /\ UNCHANGED <<code, clock, rows, cli, credential, poll, lost, granted>>

\* ... is then authorized, whatever it is by then.
AuthorizeWrite(r) ==
    /\ page[r] # None
    /\ LET c == page[r].code  a == page[r].account
       IN  /\ code' = [code EXCEPT ![c] = [status |-> "authorized", account |-> a]]
           /\ granted' = granted \cup {<<a, c>>}
    /\ page' = [page EXCEPT ![r] = None]
    /\ UNCHANGED <<clock, rows, cli, credential, poll, lost>>

\* Mutant: the code's status is cleared.
DenyClears(c) ==
    /\ code[c] # None
    /\ code' = [code EXCEPT ![c].status = None]
    /\ UNCHANGED <<clock, rows, cli, credential, poll, lost, page, granted>>

\* cli_deny looks at nothing.
Deny(c) ==
    /\ code[c] # None
    /\ code' = [code EXCEPT ![c].status = "denied"]
    /\ UNCHANGED <<clock, rows, cli, credential, poll, lost, page, granted>>

PageClosed(r) ==
    /\ page[r] # None
    /\ page' = [page EXCEPT ![r] = None]
    /\ UNCHANGED <<code, clock, rows, cli, credential, poll, lost, granted>>

CliStep(c) == PollRead(c) \/ CreateToken(c) \/ Answered(c) \/ NotSaved(c) \/ TimedOut(c)

LoginNext ==
    \/ \E c \in Codes : CliInit(c) \/ Tick(c) \/ CliStep(c) \/ PollLost(c) \/ Deny(c)
    \/ \E r \in Pages : AuthorizeRead(r) \/ AuthorizeWrite(r) \/ PageClosed(r)

\* The CLI's loop runs until it returns.  Nothing makes a user decide.
Fairness == \A c \in Codes : WF_loginVars(CliStep(c))
LoginSpec == LoginInit /\ [][LoginNext]_loginVars /\ Fairness

-----------------------------------------------------------------------------
LoginTypeOK ==
    /\ code \in [Codes -> Code \cup {None}] /\ clock \in [Codes -> 0 .. 2]
    /\ rows \subseteq Row /\ granted \subseteq Accounts \X Codes
    /\ cli \in [Codes -> {"none", "waiting", "authorized", "denied", "expired", "timed out", "unsaved"}]
    /\ credential \in [Codes -> Row \cup {None}] /\ poll \in [Codes -> Poll \cup {None}]
    /\ lost \in [Codes -> 0 .. MaxLost]
    /\ page \in [Pages -> [code : Codes, account : Accounts] \cup {None}]

\* A CLI that says it is logged in holds a token that exists, for an account
\* whose user authorized this CLI's code, although the row may be authorized
\* again or denied between a poll's read and its token (routes.rs:266-365).
LoggedInAsGranted == \A c \in Codes :
    /\ cli[c] = "authorized" <=> credential[c] # None
    /\ credential[c] # None =>
         /\ credential[c] \in RowsOf(c)
         /\ <<credential[c].account, c>> \in granted

\* A token that no CLI holds comes from a poll that broke or is under way, or from
\* the one answer that the CLI could not save: each poll makes at most one, and
\* nothing polls again after an answer with a token (routes.rs:306-329; auth.go's
\* loop polls again on an error, and ends when the save fails).
TokensAccounted == \A c \in Codes :
    Cardinality(RowsOf(c)) =< lost[c] +
        (IF credential[c] # None \/ poll[c] # None \/ cli[c] = "unsaved" THEN 1 ELSE 0)

\* A CLI that waits at its deadline stops waiting, and one whose code has been
\* authorized gets its token (and then fails only if it cannot save it), unless it
\* is too late by then or the code was denied.
StopsWaiting == \A c \in Codes :
    /\ clock[c] = 2 ~> cli[c] # "waiting"
    /\ Is(c, "authorized") ~>
         (cli[c] \in {"authorized", "unsaved", "denied"} \/ clock[c] > 0 \/ Is(c, "denied"))
=============================================================================
