----------------------------- MODULE Administration -----------------------------
(***************************************************************************)
(* Roles of users, deletion of users, the registration mode among the      *)
(* server's settings, and the audit log of all of these: the handlers of   *)
(* app/routers/admin.py that a superadmin calls, POST /auth/register, the  *)
(* start of the server (app/main.py) and the public configuration, which   *)
(* is cached in Redis and loaded by every page (store/brandingStore.ts).   *)
(*                                                                         *)
(* A handler selects its actor, then its subject, and writes everything    *)
(* when it commits; others commit in between (READ COMMITTED).  The ORM    *)
(* writes a column only if it was given another value than was read, and   *)
(* refuses an UPDATE that finds no row; a DELETE may find none.            *)
(***************************************************************************)
EXTENDS Naturals, FiniteSets

CONSTANTS
    Row,          \* rows the users table may ever get
    Name,         \* usernames
    NameOf,       \* NameOf[u]: the username of row u
    Admin,        \* the username "admin" of the default superadmin
    Slot,         \* requests that may be under way at once
    Setting,      \* the key registration_mode: the subject of its updates
    None,         \* no row, no mode
    MaxRequests,  \* bound: requests of superadmins
    MaxStarts     \* bound: starts of the server

ASSUME AdministrationAssumption ==
    /\ NameOf \in [Row -> Name]
    /\ Admin \in Name
    /\ Setting \notin Row
    /\ MaxRequests \in Nat
    /\ MaxStarts \in Nat

VARIABLES
    role,      \* a row of users: its role, or "unused", or "deleted"
    mode,      \* the value of the setting registration_mode
    log,       \* rows of audit_logs
    up,        \* the server has started
    request,   \* per slot: the request under way
    cache,     \* the registration mode in Redis' public_config
    page,      \* a browser page: its load of the configuration, what it shows
    begun,     \* requests of superadmins so far; a transaction's time of start
    starts,    \* starts of the server so far
    crossed,   \* history: requests whose subject another commit has written
    overlapped, \* history: subjects written by a crossed request
    excused    \* history: the cached mode may be an older one, for a cause

vars == <<role, mode, log, up, request, cache, page, begun, starts,
          crossed, overlapped, excused>>

Role == {"user", "admin", "superadmin"}
Mode == {"open", "closed"}
Subject == Row \cup {Setting}

Living == {u \in Row : role[u] \in Role}
Superadmin == {u \in Row : role[u] = "superadmin"}

Value == Role \cup Mode \cup {"deleted"}

Stage == {"idle", "authorized", "ready", "invalidated"}
Op    == {"promote", "delete", "update", "register"}

Asked(stage, op, a, s, v, at) ==
    [stage |-> stage, op |-> op, actor |-> a, subject |-> s, value |-> v,
     was |-> "user", at |-> at]

Idle == Asked("idle", "register", None, None, "user", 0)

Request == [stage : Stage, op : Op, actor : Row \cup {None},
            subject : Subject \cup {None}, value : Value, was : Value, at : Nat]

Entry == [by : Row, subject : Subject, was : Value, value : Value, at : Nat]

Page == [stage : {"idle"}, read : {None}, shown : Mode]
            \cup [stage : {"read"}, read : Mode, shown : Mode]

TypeOK ==
    /\ role \in [Row -> Role \cup {"unused", "deleted"}]
    /\ mode \in Mode
    /\ log \subseteq Entry
    /\ up \in BOOLEAN
    /\ request \in [Slot -> Request]
    /\ cache \in Mode \cup {None}
    /\ page \in Page
    /\ begun \in 0..MaxRequests
    /\ starts \in 0..MaxStarts
    /\ crossed \subseteq Slot
    /\ overlapped \subseteq Subject
    /\ excused \in BOOLEAN

\* Before the first start.  Its migrations seed the settings.  A page shows
\* "open" until told otherwise.
Init ==
    /\ role = [u \in Row |-> "unused"]
    /\ mode = "open"
    /\ log = {}
    /\ up = FALSE
    /\ request = [k \in Slot |-> Idle]
    /\ cache = None
    /\ page = [stage |-> "idle", read |-> None, shown |-> "open"]
    /\ begun = 0
    /\ starts = 0
    /\ crossed = {}
    /\ overlapped = {}
    /\ excused = FALSE

config  == <<cache, page, excused>>
tables  == <<role, mode, log>>
history == <<crossed, overlapped>>

-----------------------------------------------------------------------------
(***************************************************************************)
(* Requests of a superadmin.                                               *)
(***************************************************************************)

\* get_superadmin_user: the actor is selected and is a superadmin.
Begin(k, op, a, s, v) ==
    /\ up
    /\ begun < MaxRequests
    /\ request[k].stage = "idle"
    /\ role[a] = "superadmin"
    /\ request' = [request EXCEPT ![k] =
          Asked("authorized", op, a, s, v, begun + 1)]
    /\ begun' = begun + 1
    /\ UNCHANGED <<tables, up, config, starts, history>>

\* Mutant: nobody refuses the actor's own account.
NameableSelf(a, u) == role[u] # "unused"

\* promote_user and delete_user name a row, by the id in a list that was shown,
\* and refuse the actor's own.
Nameable(a, u) == u # a /\ role[u] # "unused"

BeginPromote(k, a, u, v) == Nameable(a, u) /\ Begin(k, "promote", a, u, v)
BeginDelete(k, a, u) == Nameable(a, u) /\ Begin(k, "delete", a, u, "deleted")
BeginUpdate(k, a, v) == Begin(k, "update", a, Setting, v)

\* The slot is free again.
Finish(k) ==
    /\ request' = [request EXCEPT ![k] = Idle]
    /\ crossed' = crossed \ {k}

\* Any exception rolls the transaction back: the subject is gone (404), is a
\* superadmin who is to be deleted (403), a constraint is violated, the
\* connection is lost.
Fails(k) ==
    /\ up
    /\ request[k].stage # "idle"
    /\ Finish(k)
    /\ UNCHANGED <<tables, up, config, begun, starts, overlapped>>

ReadUser(k) ==
    LET u == request[k].subject
    IN /\ request[k].stage = "authorized"
       /\ request[k].op \in {"promote", "delete"}
       /\ u \in Living
       /\ request[k].op = "delete" => role[u] # "superadmin"
       /\ request' = [request EXCEPT ![k] =
             [@ EXCEPT !.stage = "ready", !.was = role[u]]]
       /\ UNCHANGED <<tables, up, config, begun, starts, history>>

ReadSetting(k) ==
    /\ request[k].stage = "authorized"
    /\ request[k].op = "update"
    /\ request' = [request EXCEPT ![k] =
          [@ EXCEPT !.stage = "ready", !.was = mode]]
    /\ UNCHANGED <<tables, up, config, begun, starts, history>>

\* Mutant: the cached configuration is left alone.
InvalidateNot(k) ==
    /\ request[k].stage = "ready"
    /\ request[k].op = "update"
    /\ request' = [request EXCEPT ![k].stage = "invalidated"]
    /\ UNCHANGED <<tables, up, config, begun, starts, history>>

\* update_setting deletes the cached configuration, before the commit of its
\* transaction; Redis failing is ignored.
Invalidate(k) ==
    /\ request[k].stage = "ready"
    /\ request[k].op = "update"
    /\ request' = [request EXCEPT ![k].stage = "invalidated"]
    /\ \/ /\ cache' = None
          /\ excused' = FALSE
       \/ /\ excused' = TRUE
          /\ UNCHANGED cache
    /\ UNCHANGED <<tables, up, page, begun, starts, history>>

\* Mutant: the old and the new value are swapped.
LoggedSwapped(k) ==
    LET r == request[k]
    IN /\ r.actor \in Living
       /\ log' = log \cup {[by |-> r.actor, subject |-> r.subject,
                            was |-> r.value, value |-> r.was, at |-> r.at]}

\* log_action: the entry refers to the actor's row, which must exist.
Logged(k) ==
    LET r == request[k]
    IN /\ r.actor \in Living
       /\ log' = log \cup {[by |-> r.actor, subject |-> r.subject,
                            was |-> r.was, value |-> r.value, at |-> r.at]}

\* History: a commit crosses the other requests about the same subject, and
\* registrations under way when it writes the mode.
Crosses(k) ==
    LET r == request[k]
    IN /\ crossed' = (crossed \ {k}) \cup
             {j \in Slot \ {k} :
                 /\ request[j].stage # "idle"
                 /\ \/ request[j].subject = r.subject
                    \/ r.op = "update" /\ request[j].op = "register"}
       /\ overlapped' = IF k \in crossed THEN overlapped \cup {r.subject}
                                         ELSE overlapped

\* The role is written if it is not the one that was read; the row of a user
\* deleted meanwhile is then not found, and the request fails.
CommitPromote(k) ==
    LET r == request[k]
    IN /\ r.stage = "ready"
       /\ r.op = "promote"
       /\ r.value # r.was => r.subject \in Living
       /\ role' = IF r.value = r.was THEN role
                                     ELSE [role EXCEPT ![r.subject] = r.value]
       /\ Logged(k)
       /\ Crosses(k)
       /\ request' = [request EXCEPT ![k] = Idle]
       /\ UNCHANGED <<mode, up, config, begun, starts>>

\* A user whom entries of the log (or a setting he updated) refer to cannot be
\* deleted.  One who is gone by now is logged as deleted once more.
CommitDelete(k) ==
    LET r == request[k]
    IN /\ r.stage = "ready"
       /\ r.op = "delete"
       /\ \A e \in log : e.by # r.subject
       /\ role' = [role EXCEPT ![r.subject] = "deleted"]
       /\ Logged(k)
       /\ Crosses(k)
       /\ request' = [request EXCEPT ![k] = Idle]
       /\ UNCHANGED <<mode, up, config, begun, starts>>

CommitUpdate(k) ==
    LET r == request[k]
    IN /\ r.stage = "invalidated"
       /\ mode' = IF r.value = r.was THEN mode ELSE r.value
       /\ Logged(k)
       /\ Crosses(k)
       /\ request' = [request EXCEPT ![k] = Idle]
       /\ UNCHANGED <<role, up, config, begun, starts>>

-----------------------------------------------------------------------------
(***************************************************************************)
(* Registration, and the start of the server.                              *)
(***************************************************************************)

Taken(n) == \E u \in Living : NameOf[u] = n

\* The mode is selected from the database and lets the registration in; the
\* username is not taken.
BeginRegister(k, u) ==
    /\ up
    /\ request[k].stage = "idle"
    /\ role[u] = "unused"
    /\ mode = "open"
    /\ ~Taken(NameOf[u])
    /\ request' = [request EXCEPT ![k] =
          Asked("ready", "register", None, u, "user", 0)]
    /\ UNCHANGED <<tables, up, config, begun, starts, history>>

\* The username is still free (uq_user_domain) when the row is inserted.
CommitRegister(k) ==
    LET u == request[k].subject
    IN /\ request[k].stage = "ready"
       /\ request[k].op = "register"
       /\ role[u] = "unused"
       /\ ~Taken(NameOf[u])
       /\ role' = [role EXCEPT ![u] = "user"]
       /\ Finish(k)
       /\ UNCHANGED <<mode, log, up, config, begun, starts, overlapped>>

\* The process, if there is one, dies with its requests, and starts.  Without
\* a superadmin ensure_default_admin inserts one named "admin"; if somebody has
\* the name, that violates uq_user_domain and the server does not come up.
Start ==
    /\ starts < MaxStarts
    /\ starts' = starts + 1
    /\ request' = [k \in Slot |-> Idle]
    /\ crossed' = {}
    /\ \/ /\ Superadmin # {}
          /\ up' = TRUE
          /\ UNCHANGED role
       \/ /\ Superadmin = {}
          /\ Taken(Admin)
          /\ up' = FALSE
          /\ UNCHANGED role
       \/ /\ Superadmin = {}
          /\ ~Taken(Admin)
          /\ \E u \in Row : /\ role[u] = "unused"
                            /\ NameOf[u] = Admin
                            /\ role' = [role EXCEPT ![u] = "superadmin"]
          /\ up' = TRUE
    /\ page' = [page EXCEPT !.stage = "idle", !.read = None]
    /\ UNCHANGED <<mode, log, cache, begun, overlapped, excused>>

-----------------------------------------------------------------------------
(***************************************************************************)
(* GET /api/v1/config, loaded by a page when it opens.                     *)
(***************************************************************************)

Shows(m) == [stage |-> "idle", read |-> None, shown |-> m]

\* The configuration is served from the cache.
ConfigHit ==
    /\ up
    /\ page.stage = "idle"
    /\ cache # None
    /\ page' = Shows(cache)
    /\ UNCHANGED <<tables, up, request, cache, begun, starts, history, excused>>

\* It is not cached (no other page fills it): the settings are selected.
ConfigRead ==
    /\ up
    /\ page.stage = "idle"
    /\ cache = None
    /\ page' = [page EXCEPT !.stage = "read", !.read = mode]
    /\ UNCHANGED <<tables, up, request, cache, begun, starts, history, excused>>

\* History: what is filled in may be older than what a commit has written, or
\* will be when an update that has already deleted the cache commits.
Outdated == \/ page.read # mode
            \/ \E k \in Slot : request[k].stage = "invalidated"

\* They are cached for 60 s, if Redis takes them, and shown.
ConfigFill ==
    /\ page.stage = "read"
    /\ page' = Shows(page.read)
    /\ \/ /\ cache' = page.read
          /\ excused' = Outdated
       \/ UNCHANGED <<cache, excused>>
    /\ UNCHANGED <<tables, up, request, begun, starts, history>>

\* Mutant: the cache is set without a time to live.
ExpireNever ==
    /\ cache = None
    /\ UNCHANGED vars

\* The 60 s have passed.
Expire ==
    /\ cache # None
    /\ cache' = None
    /\ excused' = FALSE
    /\ UNCHANGED <<tables, up, request, page, begun, starts, history>>

-----------------------------------------------------------------------------
Handled(k) ==
    \/ ReadUser(k)
    \/ ReadSetting(k)
    \/ Invalidate(k)
    \/ CommitPromote(k)
    \/ CommitDelete(k)
    \/ CommitUpdate(k)
    \/ CommitRegister(k)
    \/ Fails(k)

Load == ConfigHit \/ ConfigRead \/ ConfigFill

Next ==
    \/ \E k \in Slot, a \in Row :
          \/ \E u \in Row : \/ \E v \in Role : BeginPromote(k, a, u, v)
                            \/ BeginDelete(k, a, u)
          \/ \E v \in Mode : BeginUpdate(k, a, v)
    \/ \E k \in Slot, u \in Row : BeginRegister(k, u)
    \/ \E k \in Slot : Handled(k)
    \/ Start
    \/ Load
    \/ Expire

Spec == Init /\ [][Next]_vars

\* Redis expires what setex wrote, and pages are loaded again and again.
FairSpec == Spec /\ WF_vars(Expire) /\ WF_vars(Load)

-----------------------------------------------------------------------------
(***************************************************************************)
(* Properties.                                                             *)
(***************************************************************************)

\* The server is never left without a superadmin by those who still are: the
\* last one goes only when a request commits whose actor has meanwhile lost
\* the role (two who demote each other), although every handler refuses to
\* touch its actor and to delete a superadmin.
SuperadminRemains ==
    [][Superadmin # {} /\ Superadmin' = {} =>
          \E k \in Slot : /\ request[k].stage = "ready"
                          /\ request[k].op \in {"promote", "delete"}
                          /\ request[k].actor \notin Superadmin]_vars

EntriesOf(s) == {e \in log : e.subject = s}

Present(s) == IF s = Setting THEN mode ELSE role[s]

\* The log, listed by created_at (the start of the transaction), tells what
\* became of a user's role or of the setting: each entry's new value is the
\* next one's old value, and the last one's is the present value, unless a
\* request about the same subject was crossed by another's commit.
AuditTellsHistory ==
    \A s \in Subject \ overlapped : \A e \in EntriesOf(s) :
       LET later == {f \in EntriesOf(s) : f.at > e.at}
       IN IF later = {}
          THEN e.value = Present(s)
          ELSE \A f \in later : (\A g \in later : f.at <= g.at) => f.was = e.value

\* A cached configuration that is not the database's is there for a cause: it
\* was filled in between an update's deletion of the cache and its commit, or
\* from settings read before a commit, or Redis failed to delete it.
ConfigStaleHasCause == cache \in {None, mode} \/ excused

\* Nobody is registered while registration is closed, whatever is cached,
\* but by a request that was under way when it was closed.
RegisteredWhileOpen ==
    [][\A u \in Row : role[u] = "unused" /\ role'[u] = "user" =>
          \/ mode = "open"
          \/ \E k \in crossed : request[k].op = "register"]_vars

\* A mode that stays is what the pages show from some time on, however stale
\* the cache was when it was set.
SettingTakesEffect ==
    \A m \in Mode : <>[](up /\ mode = m) => <>[](page.shown = m)
=============================================================================
