------------------------------- MODULE Sessions -------------------------------
(***************************************************************************)
(* Login sessions and their rotating refresh tokens: the handlers of       *)
(* app/routers/auth.py, the administrator's and the device handlers that   *)
(* revoke sessions, and the tabs of one browser (api/client.ts,            *)
(* store/authStore.ts), which share its localStorage.                      *)
(*                                                                         *)
(* A handler is one database transaction, committed by get_db when the     *)
(* handler has returned and before the answer is sent.  A handler that     *)
(* only writes is one step; one that reads and then writes what it         *)
(* concluded is two, and other transactions may commit between them (the   *)
(* database runs at READ COMMITTED).                                       *)
(***************************************************************************)
EXTENDS FiniteSets

CONSTANTS
    Tab,        \* browser tabs, each with an api client of its own
    Call,       \* slots for the requests under way
    Caller,     \* Caller[k]: the tab whose requests use slot k
    User,       \* registered local users
    Session,    \* bound: rows the sessions table may ever get
    Token,      \* bound: refresh tokens that may ever be generated
    None        \* no token, no session, no user

ASSUME SessionsAssumption ==
    /\ Caller \in [Call -> Tab]
    /\ None \notin Token \cup Session \cup User

VARIABLES
    status,      \* a row of the sessions table: "unused", "live", "deleted"
    hash,        \* the token whose hash the row holds
    owner,       \* the user of the row
    expired,     \* rows whose expires_at has passed
    banned,      \* users with is_banned
    suspension,  \* per user: is_suspended, and whether suspended_until passed
    memory,      \* refreshToken of each tab's api client
    stored,      \* localStorage's refresh_token
    call,        \* per slot: the stage of the request and what it works with
    abandoned,   \* slots whose tab no longer waits for the answer
    signouts,    \* tokens of POST /auth/logout requests under way
    fate,        \* history: what became of each token
    raced        \* history: rows a login committed for a user banned meanwhile

table   == <<status, hash, owner, expired>>
account == <<banned, suspension>>
browser == <<memory, stored, signouts>>
vars == <<table, account, browser, call, abandoned, fate, raced>>

Stage == {"idle", "refresh", "rotating", "rotated", "refused", "retrying",
          "opening", "opened"}

\* Stages of tryRefresh and of the request it serves.
Refreshing == {"refresh", "rotating", "rotated", "refused"}

Request == [stage : Stage,
            token : Token \cup {None},     \* the token presented
            session : Session \cup {None}, \* the row selected
            user : User \cup {None},       \* the user logging in
            lift : BOOLEAN,                \* the login ends a suspension
            fresh : Token \cup {None}]     \* the token generated

Idle == [stage |-> "idle", token |-> None, session |-> None, user |-> None,
         lift |-> FALSE, fresh |-> None]

Fate == {"unused", "issued", "redeemed", "overwritten", "revoked"}

TypeOK ==
    /\ status \in [Session -> {"unused", "live", "deleted"}]
    /\ hash \in [Session -> Token \cup {None}]
    /\ owner \in [Session -> User \cup {None}]
    /\ expired \in SUBSET Session
    /\ banned \in SUBSET User
    /\ suspension \in [User -> {"none", "running", "elapsed"}]
    /\ memory \in [Tab -> Token \cup {None}]
    /\ stored \in Token \cup {None}
    /\ call \in [Call -> Request]
    /\ abandoned \in SUBSET Call
    /\ signouts \in SUBSET Token
    /\ fate \in [Token -> Fate]
    /\ raced \in SUBSET Session

Live == {s \in Session : status[s] = "live"}

Init ==
    /\ status = [s \in Session |-> "unused"]
    /\ hash = [s \in Session |-> None]
    /\ owner = [s \in Session |-> None]
    /\ expired = {}
    /\ banned = {}
    /\ suspension = [u \in User |-> "none"]
    /\ memory = [t \in Tab |-> None]
    /\ stored = None
    /\ call = [k \in Call |-> Idle]
    /\ abandoned = {}
    /\ signouts = {}
    /\ fate = [x \in Token |-> "unused"]
    /\ raced = {}

-----------------------------------------------------------------------------
(***************************************************************************)
(* Shared effects.                                                         *)
(***************************************************************************)

\* DELETE FROM sessions for the live rows among the given ones.
Delete(rows) ==
    /\ status' = [s \in Session |-> IF s \in rows \cap Live THEN "deleted"
                                                            ELSE status[s]]
    /\ fate' = [x \in Token |->
                   IF x \in {hash[s] : s \in rows \cap Live} THEN "revoked"
                                                            ELSE fate[x]]

\* create_refresh_token: a token nobody has seen.
Generate(x) ==
    /\ fate[x] = "unused"
    /\ fate' = [fate EXCEPT ![x] = "issued"]

\* authStore.logout: the server is told the token in localStorage, and the
\* tokens of the tab and of localStorage are forgotten.
SignOut(t) ==
    /\ signouts' = signouts \cup ({stored} \ {None})
    /\ memory' = [memory EXCEPT ![t] = None]
    /\ stored' = None

Step(k, stage) == call' = [call EXCEPT ![k].stage = stage]

Finish(k) ==
    /\ call' = [call EXCEPT ![k] = Idle]
    /\ abandoned' = abandoned \ {k}

-----------------------------------------------------------------------------
(***************************************************************************)
(* POST /auth/login.                                                       *)
(***************************************************************************)

\* The user is selected and neither banned nor suspended; a suspension that
\* has elapsed will be lifted.  The token is generated before the commit.
LoginRead(k, u, x) ==
    /\ call[k].stage = "idle"
    /\ u \notin banned
    /\ suspension[u] # "running"
    /\ Generate(x)
    /\ call' = [call EXCEPT ![k] =
                   [Idle EXCEPT !.stage = "opening", !.user = u, !.fresh = x,
                                !.lift = (suspension[u] = "elapsed")]]
    /\ UNCHANGED <<table, account, browser, abandoned, raced>>

\* Commit: the session row is inserted.  The row of the user is written only to
\* lift a suspension, and is not read again.
LoginCommit(k, s) ==
    LET u == call[k].user
    IN /\ call[k].stage = "opening"
       /\ status[s] = "unused"
       /\ status' = [status EXCEPT ![s] = "live"]
       /\ hash' = [hash EXCEPT ![s] = call[k].fresh]
       /\ owner' = [owner EXCEPT ![s] = u]
       /\ suspension' = IF call[k].lift THEN [suspension EXCEPT ![u] = "none"]
                                        ELSE suspension
       /\ raced' = IF u \in banned THEN raced \cup {s} ELSE raced
       /\ Step(k, "opened")
       /\ UNCHANGED <<expired, banned, browser, abandoned, fate>>

\* The tab gets its tokens and keeps them in localStorage too.
LoginDone(k) ==
    /\ call[k].stage = "opened"
    /\ k \notin abandoned
    /\ memory' = [memory EXCEPT ![Caller[k]] = call[k].fresh]
    /\ stored' = call[k].fresh
    /\ Finish(k)
    /\ UNCHANGED <<table, account, signouts, fate, raced>>

-----------------------------------------------------------------------------
(***************************************************************************)
(* POST /auth/refresh, which the client sends when a request gets 401.     *)
(* Requests of one tab run in parallel and each refreshes for itself.      *)
(***************************************************************************)

\* A request of the tab is answered 401: tryRefresh sends the tab's token.
RequestDenied(k) ==
    /\ call[k].stage = "idle"
    /\ memory[Caller[k]] # None
    /\ call' = [call EXCEPT ![k] = [Idle EXCEPT !.stage = "refresh",
                                                !.token = memory[Caller[k]]]]
    /\ UNCHANGED <<table, account, browser, abandoned, fate, raced>>

Redeemable(x) == {s \in Live : hash[s] = x /\ s \notin expired}

\* The handler selects the session by hash and expiry.
RefreshRead(k, x) ==
    /\ call[k].stage = "refresh"
    /\ \E s \in Redeemable(call[k].token) :
          call' = [call EXCEPT ![k] = [@ EXCEPT !.stage = "rotating",
                                                !.session = s, !.fresh = x]]
    /\ Generate(x)
    /\ UNCHANGED <<table, account, browser, abandoned, raced>>

RefreshInvalid(k) ==
    /\ call[k].stage = "refresh"
    /\ Redeemable(call[k].token) = {}
    /\ Step(k, "refused")
    /\ UNCHANGED <<table, account, browser, abandoned, fate, raced>>

\* What the tokens become when call k replaces the hash of row s.
Redeemed(k, s) ==
    [x \in Token |-> CASE x = call[k].token -> "redeemed"
                       [] x = hash[s] /\ x # call[k].token -> "overwritten"
                       [] OTHER -> fate[x]]

\* Mutant: the presented token stays in the row.
RefreshCommitUnrotated(k) ==
    LET s == call[k].session
    IN /\ call[k].stage = "rotating"
       /\ s \in Live
       /\ expired' = expired \ {s}
       /\ fate' = Redeemed(k, s)
       /\ Step(k, "rotated")
       /\ UNCHANGED <<status, hash, owner, account, browser, abandoned, raced>>

\* Mutant: a row deleted since it was read is written back.
RefreshCommitUpsert(k) ==
    LET s == call[k].session
    IN /\ call[k].stage = "rotating"
       /\ status' = [status EXCEPT ![s] = "live"]
       /\ hash' = [hash EXCEPT ![s] = call[k].fresh]
       /\ expired' = expired \ {s}
       /\ fate' = Redeemed(k, s)
       /\ Step(k, "rotated")
       /\ UNCHANGED <<owner, account, browser, abandoned, raced>>

\* Commit: the row, found by its primary key, gets the new hash and expiry.
RefreshCommit(k) ==
    LET s == call[k].session
    IN /\ call[k].stage = "rotating"
       /\ s \in Live
       /\ hash' = [hash EXCEPT ![s] = call[k].fresh]
       /\ expired' = expired \ {s}
       /\ fate' = Redeemed(k, s)
       /\ Step(k, "rotated")
       /\ UNCHANGED <<status, owner, account, browser, abandoned, raced>>

\* The row was deleted since it was read: the UPDATE matches no row, 500.
RefreshStale(k) ==
    /\ call[k].stage = "rotating"
    /\ call[k].session \notin Live
    /\ Step(k, "refused")
    /\ UNCHANGED <<table, account, browser, abandoned, fate, raced>>

\* tryRefresh takes the new token into memory only; the request is retried.
RefreshDone(k) ==
    /\ call[k].stage = "rotated"
    /\ k \notin abandoned
    /\ memory' = [memory EXCEPT ![Caller[k]] = call[k].fresh]
    /\ Step(k, "retrying")
    /\ UNCHANGED <<table, account, stored, signouts, abandoned, fate,
                   raced>>

\* tryRefresh is refused: onUnauthorized, which is logout.
RefreshDenied(k) ==
    /\ call[k].stage = "refused"
    /\ k \notin abandoned
    /\ SignOut(Caller[k])
    /\ Finish(k)
    /\ UNCHANGED <<table, account, fate, raced>>

\* The retried request succeeds, or fails for any reason at all: logout.
Retried(k) ==
    /\ call[k].stage = "retrying"
    /\ UNCHANGED browser \/ (k \notin abandoned /\ SignOut(Caller[k]))
    /\ Finish(k)
    /\ UNCHANGED <<table, account, fate, raced>>

-----------------------------------------------------------------------------
(***************************************************************************)
(* The network and the browser.                                            *)
(***************************************************************************)

\* The connection fails and the tab stops waiting, while the server, if the
\* request reached it, goes on.  A failed refresh logs out.
ConnectionFails(k) ==
    /\ k \notin abandoned
    /\ \/ /\ call[k].stage \in Refreshing
          /\ SignOut(Caller[k])
       \/ /\ call[k].stage \in {"opening", "opened"}
          /\ UNCHANGED browser
    /\ abandoned' = abandoned \cup {k}
    /\ UNCHANGED <<table, account, call, fate, raced>>

\* The server is done with a request whose tab waits no more.
AnswerDropped(k) ==
    /\ k \in abandoned
    /\ call[k].stage \in {"rotated", "refused", "opened"}
    /\ Finish(k)
    /\ UNCHANGED <<table, account, browser, fate, raced>>

\* The page is reloaded: restoreSession takes what localStorage holds.
Reload(t) ==
    /\ memory' = [memory EXCEPT ![t] = stored]
    /\ abandoned' = abandoned \cup {k \in Call : Caller[k] = t
                                               /\ call[k].stage # "idle"}
    /\ UNCHANGED <<table, account, stored, signouts, call, fate, raced>>

\* The user logs out.
Logout(t) ==
    /\ memory[t] # None
    /\ SignOut(t)
    /\ UNCHANGED <<table, account, call, abandoned, fate, raced>>

\* POST /auth/logout deletes the session whose hash matches, if any.
SignOutArrives(x) ==
    /\ x \in signouts
    /\ signouts' = signouts \ {x}
    /\ Delete({s \in Session : hash[s] = x})
    /\ UNCHANGED <<hash, owner, expired, account, memory, stored, call,
                   abandoned, raced>>

-----------------------------------------------------------------------------
(***************************************************************************)
(* Revocation and the clock.                                               *)
(***************************************************************************)

\* POST /auth/logout-all.
LogoutAll(u) ==
    /\ Delete({s \in Session : owner[s] = u})
    /\ UNCHANGED <<hash, owner, expired, account, browser, call, abandoned,
                   raced>>

\* DELETE /devices/{id}: the sessions of the device go with it; each login made
\* a device of its own.
RevokeDevice(s) ==
    /\ s \in Live
    /\ Delete({s})
    /\ UNCHANGED <<hash, owner, expired, account, browser, call, abandoned,
                   raced>>

\* Mutant: the sessions are left to expire.
BanKeepingSessions(u) ==
    /\ banned' = banned \cup {u}
    /\ UNCHANGED <<table, suspension, browser, call, abandoned, fate, raced>>

Ban(u) ==
    /\ banned' = banned \cup {u}
    /\ Delete({s \in Session : owner[s] = u})
    /\ UNCHANGED <<hash, owner, expired, suspension, browser, call, abandoned,
                   raced>>

Unban(u) ==
    /\ banned' = banned \ {u}
    /\ UNCHANGED <<table, suspension, browser, call, abandoned, fate, raced>>

Suspend(u) ==
    /\ suspension' = [suspension EXCEPT ![u] = "running"]
    /\ UNCHANGED <<table, banned, browser, call, abandoned, fate, raced>>

Unsuspend(u) ==
    /\ suspension' = [suspension EXCEPT ![u] = "none"]
    /\ UNCHANGED <<table, banned, browser, call, abandoned, fate, raced>>

SuspensionElapses(u) ==
    /\ suspension[u] = "running"
    /\ suspension' = [suspension EXCEPT ![u] = "elapsed"]
    /\ UNCHANGED <<table, banned, browser, call, abandoned, fate, raced>>

SessionExpires(s) ==
    /\ s \in Live \ expired
    /\ expired' = expired \cup {s}
    /\ UNCHANGED <<status, hash, owner, account, browser, call, abandoned, fate,
                   raced>>

Serve(k) ==
    \/ \E u \in User, x \in Token : LoginRead(k, u, x)
    \/ \E s \in Session : LoginCommit(k, s)
    \/ LoginDone(k)
    \/ RequestDenied(k)
    \/ \E x \in Token : RefreshRead(k, x)
    \/ RefreshInvalid(k)
    \/ RefreshCommit(k)
    \/ RefreshStale(k)
    \/ RefreshDone(k)
    \/ RefreshDenied(k)
    \/ Retried(k)
    \/ ConnectionFails(k)
    \/ AnswerDropped(k)

Manage(u) ==
    \/ LogoutAll(u)
    \/ Ban(u)
    \/ Unban(u)
    \/ Suspend(u)
    \/ Unsuspend(u)
    \/ SuspensionElapses(u)

Next ==
    \/ \E k \in Call : Serve(k)
    \/ \E u \in User : Manage(u)
    \/ \E t \in Tab : Reload(t) \/ Logout(t)
    \/ \E x \in Token : SignOutArrives(x)
    \/ \E s \in Session : RevokeDevice(s) \/ SessionExpires(s)

Spec == Init /\ [][Next]_vars

-----------------------------------------------------------------------------
(***************************************************************************)
(* Properties.                                                             *)
(***************************************************************************)

\* A revoked session stays revoked: a refresh that selected the row before a
\* logout, a ban or the removal of its device deleted it does not bring it back.
RevokedStaysRevoked ==
    [][\A s \in Session : status[s] = "deleted" => status'[s] = "deleted"]_vars

\* The select by hash that refresh makes finds at most one session
\* (scalar_one_or_none raises on two).
TokenNamesOneSession ==
    \A r, s \in Live : hash[r] = hash[s] => r = s

\* Once a refresh has redeemed a token, no session can be refreshed with it ever
\* again, however refreshes of the same session overlap.
RedeemedStaysDead ==
    \A s \in Live : fate[hash[s]] # "redeemed"

\* A banned user has no session, except one whose login had passed the check
\* for a ban before the ban was committed.
BannedSessionHasCause ==
    \A s \in Live : owner[s] \in banned => s \in raced

\* A token a tab holds is the current one of a live session until it is
\* redeemed, its session is revoked, or an overlapping refresh of the same
\* session replaces it: the server never issues a dead token nor drops a good one.
DeadTokenHasCause ==
    \A t \in Tab :
        memory[t] # None /\ fate[memory[t]] = "issued" =>
            \E s \in Live : hash[s] = memory[t]

\* "Revoke a specific session": a tab that logs out has the session whose
\* token it holds revoked.
LogoutRevokes ==
    [][\A t \in Tab :
          Logout(t) => \A s \in Live : hash[s] = memory[t] =>
                                           hash[s] \in signouts']_vars
=============================================================================
