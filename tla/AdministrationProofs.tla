-------------------------- MODULE AdministrationProofs --------------------------
(***************************************************************************)
(* What Administration's requests may do to roles, to the registration     *)
(* mode and to its cached copy, for any rows, names, slots and bounds.     *)
(* One invariant carries all of it: what a request under way works with,   *)
(* and what holds of the cache while an update is between its deletion of  *)
(* the cache and its commit.                                               *)
(***************************************************************************)
EXTENDS Administration, TLAPS

\* A request about a user is about another one than its actor.
RequestKnown ==
    \A k \in Slot :
       LET r == request[k]
       IN r.stage # "idle" =>
          /\ r.op # "register" => r.actor \in Row
          /\ r.op \in {"promote", "delete"} =>
                r.subject \in Row /\ r.subject # r.actor
          /\ r.op = "promote" => r.value \in Role
          /\ r.op = "update" => r.subject = Setting /\ r.value \in Mode
          /\ r.op = "register" => r.subject \in Row
          /\ r.stage = "invalidated" => r.op = "update"

\* A registration under way was let in by a mode that is still there, or has
\* been changed since.
LetIn ==
    \A k \in Slot :
       request[k].stage = "ready" /\ request[k].op = "register" =>
          mode = "open" \/ k \in crossed

\* Between the deletion of the cache and the commit, nothing is cached, or what
\* was filled in is known to be older than what will be written.
WindowKnown ==
    (\E k \in Slot : request[k].stage = "invalidated") => cache = None \/ excused

AdminInv == TypeOK /\ RequestKnown /\ LetIn /\ WindowKnown /\ ConfigStaleHasCause

-----------------------------------------------------------------------------

LEMMA AdminInit == Init => AdminInv
<1> SUFFICES ASSUME Init PROVE AdminInv
  OBVIOUS
<1>1. Idle \in Request /\ Idle.stage = "idle"
  BY DEF Idle, Asked, Request, Stage, Op, Value, Role
<1>2. page \in Page
  BY DEF Init, Page, Mode
<1>3. role \in [Row -> Role \cup {"unused", "deleted"}] /\ mode \in Mode
  BY DEF Init, Role, Mode
<1>5. 0 \in 0..MaxRequests /\ 0 \in 0..MaxStarts
  BY AdministrationAssumption
<1>6. TypeOK
  BY <1>1, <1>2, <1>3, <1>5 DEF Init, TypeOK
<1>4. RequestKnown /\ LetIn /\ WindowKnown /\ ConfigStaleHasCause
  BY <1>1 DEF Init, RequestKnown, LetIn, WindowKnown, ConfigStaleHasCause
<1> QED
  BY <1>4, <1>6 DEF AdminInv

USE AdministrationAssumption

\* A superadmin's request begins, with a subject and a value of its kind.
LEMMA BeginKeeps ==
    ASSUME AdminInv, NEW k \in Slot, NEW a \in Row, NEW op \in Op \ {"register"},
           NEW s \in Subject, NEW v \in Value,
           op # "update" => s \in Row /\ s # a,
           op = "promote" => v \in Role,
           op = "update" => s = Setting /\ v \in Mode,
           Begin(k, op, a, s, v)
    PROVE  AdminInv'
<1> DEFINE r == [stage |-> "authorized", op |-> op, actor |-> a, subject |-> s,
                 value |-> v, was |-> "user", at |-> begun + 1]
<1>1. request' = [request EXCEPT ![k] = r]
  BY DEF Begin, Asked
<1>2. r \in Request
  BY DEF Request, Stage, AdminInv, TypeOK, Value, Role
<1> HIDE DEF r
<1>3. TypeOK'
  BY <1>1, <1>2 DEF AdminInv, TypeOK, Begin, tables, config, history
<1>4. \A j \in Slot : j # k => request'[j] = request[j]
  BY <1>1 DEF AdminInv, TypeOK
<1>5. request'[k] = r
  BY <1>1 DEF AdminInv, TypeOK
<1>6. RequestKnown'
  BY <1>4, <1>5 DEF r, AdminInv, RequestKnown, Op
<1>7. LetIn' /\ WindowKnown' /\ ConfigStaleHasCause'
  BY <1>4, <1>5 DEF r, AdminInv, LetIn, WindowKnown, ConfigStaleHasCause, Begin,
                    tables, config, history
<1> QED
  BY <1>3, <1>6, <1>7 DEF AdminInv

LEMMA AdminBegin ==
    ASSUME AdminInv, NEW k \in Slot, NEW a \in Row, NEW u \in Row,
           \/ \E v \in Role : BeginPromote(k, a, u, v)
           \/ BeginDelete(k, a, u)
           \/ \E v \in Mode : BeginUpdate(k, a, v)
    PROVE  AdminInv'
<1>1. CASE \E v \in Role : BeginPromote(k, a, u, v)
  <2>1. PICK v \in Role : BeginPromote(k, a, u, v)
    BY <1>1
  <2>2. u # a /\ Begin(k, "promote", a, u, v)
    BY <2>1 DEF BeginPromote, Nameable
  <2> QED
    BY <2>2, BeginKeeps DEF Op, Subject, Value
<1>2. CASE BeginDelete(k, a, u)
  <2>1. u # a /\ Begin(k, "delete", a, u, "deleted")
    BY <1>2 DEF BeginDelete, Nameable
  <2> QED
    BY <2>1, BeginKeeps DEF Op, Subject, Value
<1>3. CASE \E v \in Mode : BeginUpdate(k, a, v)
  <2>1. PICK v \in Mode : Begin(k, "update", a, Setting, v)
    BY <1>3 DEF BeginUpdate
  <2> QED
    BY <2>1, BeginKeeps DEF Op, Subject, Value
<1> QED
  BY <1>1, <1>2, <1>3

\* A request that goes on keeps its kind, actor, subject and value.
LEMMA StageKeeps ==
    ASSUME AdminInv, NEW k \in Slot, NEW r \in Request,
           request' = [request EXCEPT ![k] = r],
           request[k].stage # "idle",
           r.op = request[k].op, r.actor = request[k].actor,
           r.subject = request[k].subject, r.value = request[k].value,
           r.op # "register",
           r.stage = "invalidated" => r.op = "update",
           UNCHANGED <<mode, crossed>>
    PROVE  RequestKnown' /\ LetIn'
<1>1. \A j \in Slot : j # k => request'[j] = request[j]
  BY DEF AdminInv, TypeOK
<1>2. request'[k] = r
  BY DEF AdminInv, TypeOK
<1> QED
  BY <1>1, <1>2 DEF AdminInv, RequestKnown, LetIn

LEMMA AdminReads ==
    ASSUME AdminInv, NEW k \in Slot, ReadUser(k) \/ ReadSetting(k) \/ Invalidate(k)
    PROVE  AdminInv'
<1>0. request[k] \in Request
  BY DEF AdminInv, TypeOK
<1>1. CASE ReadUser(k)
  <2> DEFINE r == [request[k] EXCEPT !.stage = "ready", !.was = role[request[k].subject]]
  <2>1. request[k].op \in {"promote", "delete"} /\ request[k].stage # "idle"
    BY <1>1 DEF ReadUser
  <2>2. request' = [request EXCEPT ![k] = r]
    BY <1>1 DEF ReadUser
  <2>3. r \in Request
    BY <1>0, <1>1 DEF ReadUser, Living, Request, Stage, Value, Role
  <2>4. RequestKnown' /\ LetIn'
    BY <1>0, <1>1, <2>1, <2>2, <2>3, StageKeeps DEF ReadUser, tables, history, Request
  <2>5. TypeOK'
    BY <1>1, <2>2, <2>3 DEF AdminInv, TypeOK, ReadUser, tables, config, history
  <2>6. WindowKnown' /\ ConfigStaleHasCause'
    BY <1>0, <1>1 DEF AdminInv, TypeOK, WindowKnown, ConfigStaleHasCause, ReadUser,
                      tables, config, Request
  <2> QED
    BY <2>4, <2>5, <2>6 DEF AdminInv
<1>2. CASE ReadSetting(k)
  <2> DEFINE r == [request[k] EXCEPT !.stage = "ready", !.was = mode]
  <2>1. request[k].op = "update" /\ request[k].stage # "idle"
    BY <1>2 DEF ReadSetting
  <2>2. request' = [request EXCEPT ![k] = r]
    BY <1>2 DEF ReadSetting
  <2>3. r \in Request
    BY <1>0 DEF AdminInv, TypeOK, Request, Stage, Value
  <2>4. RequestKnown' /\ LetIn'
    BY <1>0, <1>2, <2>1, <2>2, <2>3, StageKeeps DEF ReadSetting, tables, history, Request
  <2>5. TypeOK'
    BY <1>2, <2>2, <2>3 DEF AdminInv, TypeOK, ReadSetting, tables, config, history
  <2>6. WindowKnown' /\ ConfigStaleHasCause'
    BY <1>0, <1>2 DEF AdminInv, TypeOK, WindowKnown, ConfigStaleHasCause, ReadSetting,
                      tables, config, Request
  <2> QED
    BY <2>4, <2>5, <2>6 DEF AdminInv
<1>3. CASE Invalidate(k)
  <2> DEFINE r == [request[k] EXCEPT !.stage = "invalidated"]
  <2>1. request[k].op = "update" /\ request[k].stage # "idle"
    BY <1>3 DEF Invalidate
  <2>2. request' = [request EXCEPT ![k] = r]
    BY <1>3 DEF Invalidate
  <2>3. r \in Request
    BY <1>0 DEF Request, Stage
  <2>4. RequestKnown' /\ LetIn'
    BY <1>0, <1>3, <2>1, <2>2, <2>3, StageKeeps DEF Invalidate, tables, history, Request
  <2>5. TypeOK'
    BY <1>3, <2>2, <2>3 DEF AdminInv, TypeOK, Invalidate, tables, history
  <2>6. WindowKnown' /\ ConfigStaleHasCause'
    BY <1>3 DEF AdminInv, WindowKnown, ConfigStaleHasCause, Invalidate
  <2> QED
    BY <2>4, <2>5, <2>6 DEF AdminInv
<1> QED
  BY <1>1, <1>2, <1>3

\* A slot that is free again knows nothing; the others are as they were.
LEMMA IdleKeeps ==
    ASSUME AdminInv, NEW k \in Slot, request' = [request EXCEPT ![k] = Idle]
    PROVE  /\ request' \in [Slot -> Request]
           /\ RequestKnown'
           /\ \A j \in Slot : j # k => request'[j] = request[j]
           /\ request'[k].stage = "idle"
<1>1. Idle \in Request /\ Idle.stage = "idle"
  BY DEF Idle, Asked, Request, Stage, Op, Value, Role
<1>2. \A j \in Slot : j # k => request'[j] = request[j]
  BY DEF AdminInv, TypeOK
<1>3. request'[k] = Idle
  BY DEF AdminInv, TypeOK
<1>4. request' \in [Slot -> Request]
  BY <1>1 DEF AdminInv, TypeOK
<1>5. RequestKnown'
  BY <1>1, <1>2, <1>3 DEF AdminInv, RequestKnown
<1> QED
  BY <1>1, <1>2, <1>3, <1>4, <1>5

LEMMA AdminFails == ASSUME AdminInv, NEW k \in Slot, Fails(k) PROVE AdminInv'
<1>1. request' = [request EXCEPT ![k] = Idle]
  BY DEF Fails, Finish
<1>2. TypeOK'
  BY <1>1, IdleKeeps DEF AdminInv, TypeOK, Fails, Finish, tables, config
<1>3. LetIn' /\ WindowKnown' /\ ConfigStaleHasCause'
  BY <1>1, IdleKeeps DEF AdminInv, LetIn, WindowKnown, ConfigStaleHasCause, Fails, Finish,
                         tables, config
<1> QED
  BY <1>1, <1>2, <1>3, IdleKeeps DEF AdminInv

\* What a commit adds to the log and to the histories is typed.
LEMMA LoggedTyped ==
    ASSUME AdminInv, NEW k \in Slot, Logged(k), Crosses(k),
           request[k].stage # "idle", request[k].op # "register"
    PROVE  /\ log' \subseteq Entry
           /\ crossed' \subseteq Slot
           /\ overlapped' \subseteq Subject
<1>1. request[k] \in Request /\ request[k].actor \in Row /\ request[k].subject \in Subject
  BY DEF AdminInv, TypeOK, RequestKnown, Request, Op, Subject
<1>2. [by |-> request[k].actor, subject |-> request[k].subject,
       was |-> request[k].was, value |-> request[k].value, at |-> request[k].at] \in Entry
  BY <1>1 DEF Request, Entry
<1>3. log' \subseteq Entry
  BY <1>2 DEF AdminInv, TypeOK, Logged
<1>4. crossed' \subseteq Slot /\ overlapped' \subseteq Subject
  BY <1>1 DEF AdminInv, TypeOK, Crosses
<1> QED
  BY <1>3, <1>4

LEMMA AdminCommits ==
    ASSUME AdminInv, NEW k \in Slot,
           CommitPromote(k) \/ CommitDelete(k) \/ CommitUpdate(k) \/ CommitRegister(k)
    PROVE  AdminInv'
<1>0. request[k] \in Request /\ request' = [request EXCEPT ![k] = Idle]
  BY DEF AdminInv, TypeOK, CommitPromote, CommitDelete, CommitUpdate, CommitRegister, Finish
<1>1. CASE CommitPromote(k)
  <2>1. log' \subseteq Entry /\ crossed' \subseteq Slot /\ overlapped' \subseteq Subject
    BY <1>1, LoggedTyped DEF CommitPromote
  <2>2. \A j \in Slot : j # k => (j \in crossed => j \in crossed')
    BY <1>1 DEF CommitPromote, Crosses
  <2>3. role' \in [Row -> Role \cup {"unused", "deleted"}]
    BY <1>1 DEF AdminInv, TypeOK, RequestKnown, CommitPromote
  <2>4. TypeOK'
    BY <1>0, <1>1, <2>1, <2>3, IdleKeeps DEF AdminInv, TypeOK, CommitPromote, config
  <2>5. LetIn' /\ WindowKnown' /\ ConfigStaleHasCause'
    BY <1>0, <1>1, <2>2, IdleKeeps
       DEF AdminInv, LetIn, WindowKnown, ConfigStaleHasCause, CommitPromote, config
  <2> QED
    BY <1>0, <2>4, <2>5, IdleKeeps DEF AdminInv
<1>2. CASE CommitDelete(k)
  <2>1. log' \subseteq Entry /\ crossed' \subseteq Slot /\ overlapped' \subseteq Subject
    BY <1>2, LoggedTyped DEF CommitDelete
  <2>2. \A j \in Slot : j # k => (j \in crossed => j \in crossed')
    BY <1>2 DEF CommitDelete, Crosses
  <2>3. role' \in [Row -> Role \cup {"unused", "deleted"}]
    BY <1>2 DEF AdminInv, TypeOK, RequestKnown, CommitDelete
  <2>4. TypeOK'
    BY <1>0, <1>2, <2>1, <2>3, IdleKeeps DEF AdminInv, TypeOK, CommitDelete, config
  <2>5. LetIn' /\ WindowKnown' /\ ConfigStaleHasCause'
    BY <1>0, <1>2, <2>2, IdleKeeps
       DEF AdminInv, LetIn, WindowKnown, ConfigStaleHasCause, CommitDelete, config
  <2> QED
    BY <1>0, <2>4, <2>5, IdleKeeps DEF AdminInv
<1>3. CASE CommitUpdate(k)
  <2>1. request[k].op = "update" /\ request[k].value \in Mode /\ (cache = None \/ excused)
    BY <1>3 DEF AdminInv, RequestKnown, WindowKnown, CommitUpdate
  <2>2. log' \subseteq Entry /\ crossed' \subseteq Slot /\ overlapped' \subseteq Subject
    BY <1>3, <2>1, LoggedTyped DEF CommitUpdate
  <2>3. \A j \in Slot : j # k /\ request[j].stage = "ready" /\ request[j].op = "register"
                        => j \in crossed'
    BY <1>3, <2>1 DEF CommitUpdate, Crosses
  <2>4. TypeOK'
    BY <1>0, <1>3, <2>1, <2>2, IdleKeeps DEF AdminInv, TypeOK, CommitUpdate, config
  <2>5. LetIn'
    BY <1>0, <2>3, IdleKeeps DEF LetIn
  <2>6. WindowKnown' /\ ConfigStaleHasCause'
    BY <1>3, <2>1 DEF WindowKnown, ConfigStaleHasCause, CommitUpdate, config
  <2> QED
    BY <1>0, <2>4, <2>5, <2>6, IdleKeeps DEF AdminInv
<1>4. CASE CommitRegister(k)
  <2>1. role' \in [Row -> Role \cup {"unused", "deleted"}]
    BY <1>4 DEF AdminInv, TypeOK, CommitRegister, Role
  <2>2. TypeOK'
    BY <1>0, <1>4, <2>1, IdleKeeps DEF AdminInv, TypeOK, CommitRegister, Finish, config
  <2>3. LetIn' /\ WindowKnown' /\ ConfigStaleHasCause'
    BY <1>0, <1>4, IdleKeeps
       DEF AdminInv, LetIn, WindowKnown, ConfigStaleHasCause, CommitRegister, Finish, config
  <2> QED
    BY <1>0, <2>2, <2>3, IdleKeeps DEF AdminInv
<1> QED
  BY <1>1, <1>2, <1>3, <1>4

LEMMA AdminRegister ==
    ASSUME AdminInv, NEW k \in Slot, NEW u \in Row, BeginRegister(k, u)
    PROVE  AdminInv'
<1> DEFINE r == [stage |-> "ready", op |-> "register", actor |-> None, subject |-> u,
                 value |-> "user", was |-> "user", at |-> 0]
<1>1. request' = [request EXCEPT ![k] = r]
  BY DEF BeginRegister, Asked
<1>2. r \in Request
  BY DEF Request, Stage, Op, Subject, Value, Role
<1> HIDE DEF r
<1>3. TypeOK'
  BY <1>1, <1>2 DEF AdminInv, TypeOK, BeginRegister, tables, config, history
<1>4. \A j \in Slot : j # k => request'[j] = request[j]
  BY <1>1 DEF AdminInv, TypeOK
<1>5. request'[k] = r
  BY <1>1 DEF AdminInv, TypeOK
<1>6. RequestKnown'
  BY <1>4, <1>5 DEF r, AdminInv, RequestKnown
<1>7. LetIn' /\ WindowKnown' /\ ConfigStaleHasCause'
  BY <1>4, <1>5 DEF r, AdminInv, LetIn, WindowKnown, ConfigStaleHasCause, BeginRegister,
                    tables, config, history
<1> QED
  BY <1>3, <1>6, <1>7 DEF AdminInv

LEMMA AdminStart == ASSUME AdminInv, Start PROVE AdminInv'
<1>1. role' \in [Row -> Role \cup {"unused", "deleted"}]
  BY DEF AdminInv, TypeOK, Start, Role
<1>2. Idle \in Request /\ Idle.stage = "idle"
  BY DEF Idle, Asked, Request, Stage, Op, Value, Role
<1>3. request' \in [Slot -> Request] /\ \A k \in Slot : request'[k].stage = "idle"
  BY <1>2 DEF Start
<1>4. page' \in Page
  BY DEF AdminInv, TypeOK, Start, Page
<1>5. TypeOK'
  <2>0. starts' \in 0..MaxStarts
    BY DEF AdminInv, TypeOK, Start
  <2>1. up' \in BOOLEAN /\ crossed' = {}
    BY DEF Start
  <2>2. UNCHANGED <<mode, log, cache, begun, overlapped, excused>>
    BY DEF Start
  <2> QED
    BY <1>1, <1>3, <1>4, <2>0, <2>1, <2>2 DEF AdminInv, TypeOK
<1>6. RequestKnown' /\ LetIn' /\ WindowKnown' /\ ConfigStaleHasCause'
  BY <1>3 DEF AdminInv, RequestKnown, LetIn, WindowKnown, ConfigStaleHasCause, Start
<1> QED
  BY <1>5, <1>6 DEF AdminInv

\* What is filled in while an update has yet to commit is taken note of.
LEMMA AdminConfig == ASSUME AdminInv, Load \/ Expire PROVE AdminInv'
<1>1. UNCHANGED <<tables, up, request, begun, starts, history>>
  BY DEF Load, ConfigHit, ConfigRead, ConfigFill, Expire
<1>2. RequestKnown' /\ LetIn'
  BY <1>1 DEF AdminInv, RequestKnown, LetIn, tables, history
<1>3. /\ page' \in Page
      /\ cache' \in Mode \cup {None}
      /\ excused' \in BOOLEAN
  <2>1. CASE ConfigHit
    BY <2>1 DEF AdminInv, TypeOK, ConfigHit, Shows, Page
  <2>2. CASE ConfigRead
    BY <2>2 DEF AdminInv, TypeOK, ConfigRead, Page
  <2>3. CASE ConfigFill
    <3>1. page.read \in Mode
      BY <2>3 DEF ConfigFill, AdminInv, TypeOK, Page
    <3> QED
      BY <2>3, <3>1 DEF AdminInv, TypeOK, ConfigFill, Shows, Outdated, Page
  <2>4. CASE Expire
    BY <2>4 DEF AdminInv, TypeOK, Expire
  <2> QED
    BY <2>1, <2>2, <2>3, <2>4 DEF Load
<1>4. TypeOK'
  BY <1>1, <1>3 DEF AdminInv, TypeOK, tables, history
<1>5. WindowKnown' /\ ConfigStaleHasCause'
  BY <1>1 DEF AdminInv, WindowKnown, ConfigStaleHasCause, tables, Load, ConfigHit,
              ConfigRead, ConfigFill, Outdated, Expire
<1> QED
  BY <1>2, <1>4, <1>5 DEF AdminInv

LEMMA AdminStep == AdminInv /\ [Next]_vars => AdminInv'
<1> SUFFICES ASSUME AdminInv, [Next]_vars PROVE AdminInv'
  OBVIOUS
<1>1. CASE UNCHANGED vars
  BY <1>1 DEF vars, AdminInv, TypeOK, RequestKnown, LetIn, WindowKnown,
              ConfigStaleHasCause
<1>2. CASE Next
  BY <1>2, AdminBegin, AdminReads, AdminFails, AdminCommits, AdminRegister, AdminStart,
     AdminConfig
     DEF Next, Handled
<1> QED
  BY <1>1, <1>2

\* Every variable keeps its type, and a request its kind of subject and value,
\* whatever commits in between.
THEOREM TypeInvariant == Spec => []TypeOK
<1>1. AdminInv => TypeOK
  BY DEF AdminInv
<1> QED
  BY <1>1, AdminInit, AdminStep, PTL DEF Spec

\* A cached configuration is the database's, or is older for a named cause: an
\* update deletes the cache before it commits, and what is filled in meanwhile
\* is known to be outdated.
THEOREM ConfigStaleAlwaysHasCause == Spec => []ConfigStaleHasCause
<1>1. AdminInv => ConfigStaleHasCause
  BY DEF AdminInv
<1> QED
  BY <1>1, AdminInit, AdminStep, PTL DEF Spec

-----------------------------------------------------------------------------

\* A role is written, or a row deleted, by a commit, about another row than the
\* actor's; or a row that was unused gets one.
LEMMA RoleWritten ==
    ASSUME AdminInv, NEW k \in Slot, CommitPromote(k) \/ CommitDelete(k)
    PROVE  /\ request[k].stage = "ready"
           /\ request[k].op \in {"promote", "delete"}
           /\ request[k].actor \in Row
           /\ role'[request[k].actor] = role[request[k].actor]
           /\ \A u \in Row : role[u] = "unused" => role'[u] # "user"
<1>1. /\ request[k].actor \in Row
      /\ request[k].subject \in Row
      /\ request[k].subject # request[k].actor
      /\ request[k].stage = "ready"
      /\ request[k].op \in {"promote", "delete"}
  BY DEF AdminInv, RequestKnown, CommitPromote, CommitDelete
<1>2. role'[request[k].actor] = role[request[k].actor]
  BY <1>1 DEF AdminInv, TypeOK, CommitPromote, CommitDelete
<1>3. \A u \in Row : role[u] = "unused" => role'[u] # "user"
  BY SMTT(30), <1>1 DEF AdminInv, TypeOK, CommitPromote, CommitDelete, Living, Role
<1> QED
  BY <1>1, <1>2, <1>3

\* Every other step leaves the superadmins what they are.
LEMMA SuperadminsKept ==
    ASSUME AdminInv, [Next]_vars,
           \A k \in Slot : ~CommitPromote(k) /\ ~CommitDelete(k)
    PROVE  Superadmin \subseteq Superadmin'
<1>1. CASE \E k \in Slot : CommitRegister(k)
  BY <1>1 DEF AdminInv, TypeOK, CommitRegister, Superadmin
<1>2. CASE Start
  BY <1>2 DEF AdminInv, TypeOK, Start, Superadmin
<1>3. CASE UNCHANGED role
  BY <1>3 DEF Superadmin
<1> QED
  BY ZenonT(60), <1>1, <1>2, <1>3
     DEF Next, Handled, Load, BeginPromote, BeginDelete, BeginUpdate, Begin, BeginRegister,
         ReadUser, ReadSetting, Invalidate, CommitUpdate, Fails, ConfigHit, ConfigRead,
         ConfigFill, Expire, tables, vars

\* Whoever takes the last superadmin's role has lost his own meanwhile, for
\* any number of users and of requests under way.
THEOREM SuperadminAlwaysRemains == Spec => SuperadminRemains
<1> DEFINE Loses == Superadmin # {} /\ Superadmin' = {} =>
                       \E k \in Slot : /\ request[k].stage = "ready"
                                       /\ request[k].op \in {"promote", "delete"}
                                       /\ request[k].actor \notin Superadmin
<1>1. ASSUME AdminInv, [Next]_vars PROVE Loses
  <2> SUFFICES ASSUME Superadmin # {}, Superadmin' = {}
               PROVE  \E k \in Slot : /\ request[k].stage = "ready"
                                      /\ request[k].op \in {"promote", "delete"}
                                      /\ request[k].actor \notin Superadmin
    OBVIOUS
  <2>1. PICK k \in Slot : CommitPromote(k) \/ CommitDelete(k)
    BY <1>1, SuperadminsKept
  <2>2. /\ request[k].stage = "ready"
        /\ request[k].op \in {"promote", "delete"}
        /\ request[k].actor \in Row
        /\ role'[request[k].actor] = role[request[k].actor]
    BY <1>1, <2>1, RoleWritten
  <2>3. request[k].actor \notin Superadmin
    BY <2>2 DEF Superadmin
  <2> QED
    BY <2>2, <2>3
<1>2. AdminInv /\ [Next]_vars => [Loses]_vars
  BY <1>1
<1> QED
  BY <1>2, AdminInit, AdminStep, PTL DEF Spec, SuperadminRemains

\* Whoever is registered was let in while the mode was open, and if it is closed
\* by now, that was committed while his request was under way.
THEOREM RegisteredAlwaysWhileOpen == Spec => RegisteredWhileOpen
<1> DEFINE Registers == \A u \in Row : role[u] = "unused" /\ role'[u] = "user" =>
                           \/ mode = "open"
                           \/ \E k \in crossed : request[k].op = "register"
<1>1. ASSUME AdminInv, [Next]_vars PROVE Registers
  <2>1. CASE \E k \in Slot : CommitRegister(k)
    BY <1>1, <2>1 DEF AdminInv, LetIn, CommitRegister
  <2>2. CASE \E k \in Slot : CommitPromote(k) \/ CommitDelete(k)
    BY <1>1, <2>2, RoleWritten
  <2>3. CASE Start
    BY <1>1, <2>3 DEF AdminInv, TypeOK, Start
  <2>4. CASE UNCHANGED role
    BY <2>4
  <2> QED
    BY <1>1, <2>1, <2>2, <2>3, <2>4
       DEF Next, Handled, Load, BeginPromote, BeginDelete, BeginUpdate, Begin,
           BeginRegister, ReadUser, ReadSetting, Invalidate, CommitUpdate, Fails,
           ConfigHit, ConfigRead, ConfigFill, Expire, tables, vars
<1>2. AdminInv /\ [Next]_vars => [Registers]_vars
  BY <1>1
<1> QED
  BY <1>2, AdminInit, AdminStep, PTL DEF Spec, RegisteredWhileOpen

-----------------------------------------------------------------------------
(***************************************************************************)
(* The audit log: a request that no commit has crossed began after every   *)
(* entry about its subject, and works with what the subject still is.      *)
(***************************************************************************)

\* What requests and entries refer to was there, and is not unused again.
Began ==
    /\ \A e \in log : /\ e.at <= begun
                      /\ e.subject \in Row => role[e.subject] # "unused"
    /\ \A k \in Slot :
          LET r == request[k]
          IN r.stage # "idle" /\ r.op # "register" =>
             /\ r.at <= begun
             /\ r.op \in {"promote", "delete"} => role[r.subject] # "unused"
             /\ r.op = "delete" => r.value = "deleted"

Uncrossed ==
    \A k \in Slot \ crossed :
       LET r == request[k]
       IN r.stage # "idle" /\ r.op # "register" =>
          /\ \A e \in EntriesOf(r.subject) : e.at < r.at
          /\ r.stage \in {"ready", "invalidated"} => r.was = Present(r.subject)

HistoryInv == Began /\ Uncrossed /\ AuditTellsHistory

LEMMA HistoryInit == Init => HistoryInv
<1> SUFFICES ASSUME Init PROVE HistoryInv
  OBVIOUS
<1>1. log = {} /\ \A k \in Slot : request[k].stage = "idle"
  BY DEF Init, Idle, Asked
<1> QED
  BY <1>1 DEF HistoryInv, Began, Uncrossed, AuditTellsHistory, EntriesOf

\* Slot k is free, or holds a request that is as it should be; the tables stay.
LEMMA RequestTells ==
    ASSUME AdminInv, HistoryInv, NEW k \in Slot, NEW r,
           UNCHANGED tables, overlapped' = overlapped, crossed \subseteq crossed' \cup {k},
           begun <= begun', begun' \in Nat,
           request' = [request EXCEPT ![k] = r],
           r.stage # "idle" /\ r.op # "register" =>
              /\ r.at <= begun'
              /\ r.op \in {"promote", "delete"} => role[r.subject] # "unused"
              /\ r.op = "delete" => r.value = "deleted"
              /\ k \notin crossed' =>
                    /\ \A e \in EntriesOf(r.subject) : e.at < r.at
                    /\ r.stage \in {"ready", "invalidated"} => r.was = Present(r.subject)
    PROVE  HistoryInv'
<1>1. /\ request'[k] = r /\ \A j \in Slot : j # k => request'[j] = request[j]
      /\ role' = role /\ mode' = mode /\ log' = log
  BY DEF AdminInv, TypeOK, tables
<1>2. \A s : EntriesOf(s)' = EntriesOf(s) /\ Present(s)' = Present(s)
  BY <1>1 DEF EntriesOf, Present
<1>3. begun \in Nat /\ (\A e \in log : e.at \in Nat) /\ (\A j \in Slot : request[j].at \in Nat)
  BY DEF AdminInv, TypeOK, Entry, Request
<1>4. \A e \in log : e.at <= begun' /\ (e.subject \in Row => role[e.subject] # "unused")
  BY <1>3 DEF HistoryInv, Began
<1>5. ASSUME NEW j \in Slot, request'[j].stage # "idle", request'[j].op # "register"
      PROVE  /\ request'[j].at <= begun'
             /\ request'[j].op \in {"promote", "delete"} => role[request'[j].subject] # "unused"
             /\ request'[j].op = "delete" => request'[j].value = "deleted"
  <2>1. CASE j = k
    BY <1>1, <1>5, <2>1
  <2>2. CASE j # k
    <3>1. request'[j].at <= begun
      BY <1>1, <1>5, <2>2 DEF HistoryInv, Began
    <3>2. request'[j].at <= begun'
      BY <1>1, <1>3, <2>2, <3>1
    <3> QED
      BY <1>1, <1>5, <2>2, <3>2 DEF HistoryInv, Began
  <2> QED
    BY <2>1, <2>2
<1>6. Began'
  BY <1>1, <1>4, <1>5 DEF Began
<1>7. Uncrossed'
  <2> SUFFICES ASSUME NEW j \in Slot, j \notin crossed',
                      request'[j].stage # "idle", request'[j].op # "register"
               PROVE  /\ \A e \in EntriesOf(request'[j].subject) : e.at < request'[j].at
                      /\ request'[j].stage \in {"ready", "invalidated"} =>
                            request'[j].was = Present(request'[j].subject)
    BY <1>1, <1>2 DEF Uncrossed, Present, EntriesOf
  <2>1. CASE j = k
    BY <1>1, <2>1
  <2>2. CASE j # k
    BY <1>1, <2>2 DEF HistoryInv, Uncrossed
  <2> QED
    BY <2>1, <2>2
<1>8. AuditTellsHistory'
  BY <1>2 DEF HistoryInv, AuditTellsHistory
<1> QED
  BY <1>6, <1>7, <1>8 DEF HistoryInv

LEMMA BeginTells ==
    ASSUME AdminInv, HistoryInv, NEW k \in Slot, NEW a, NEW op, NEW s, NEW v,
           op \in {"promote", "delete"} => role[s] # "unused",
           op = "delete" => v = "deleted",
           Begin(k, op, a, s, v)
    PROVE  HistoryInv'
<1> DEFINE r == Asked("authorized", op, a, s, v, begun + 1)
<1>1. /\ request' = [request EXCEPT ![k] = r] /\ begun' = begun + 1
      /\ UNCHANGED tables /\ UNCHANGED history
  BY DEF Begin
<1>2. /\ r.stage = "authorized" /\ r.op = op /\ r.subject = s /\ r.value = v
      /\ r.at = begun + 1
  BY DEF Asked
<1> HIDE DEF r
<1>3. begun \in Nat /\ (\A e \in log : e.at \in Nat /\ e.at <= begun)
  BY DEF AdminInv, TypeOK, Entry, HistoryInv, Began
<1>4. begun <= begun' /\ begun' \in Nat /\ \A e \in log : e.at < begun + 1
  BY <1>1, <1>3
<1>5. r.at <= begun' /\ \A e \in EntriesOf(r.subject) : e.at < r.at
  BY <1>1, <1>2, <1>3, <1>4 DEF EntriesOf
<1> QED
  BY <1>1, <1>2, <1>4, <1>5, RequestTells DEF history

\* A request about something commits: its entry is the last one about that.
LEMMA CommitTells ==
    ASSUME AdminInv, HistoryInv, NEW k \in Slot, NEW s0 \in Subject,
           request[k].stage \in {"ready", "invalidated"}, request[k].op # "register",
           request[k].subject = s0, request[k].at \in Nat,
           Logged(k), Crosses(k), request' = [request EXCEPT ![k] = Idle], begun' = begun,
           \A s \in Subject : s # s0 => Present(s)' = Present(s),
           k \notin crossed => Present(s0)' = request[k].value,
           \A u \in Row : role[u] # "unused" => role'[u] # "unused",
           s0 \in Row => role[s0] # "unused"
    PROVE  HistoryInv'
<1>0. PICK n : n = [by |-> request[k].actor, subject |-> s0, was |-> request[k].was,
                    value |-> request[k].value, at |-> request[k].at]
  OBVIOUS
<1>1. /\ request'[k].stage = "idle" /\ \A j \in Slot : j # k => request'[j] = request[j]
      /\ log' = log \cup {n}
  BY <1>0 DEF AdminInv, TypeOK, Idle, Asked, Logged
<1>2. /\ n.subject = s0 /\ n.was = request[k].was /\ n.value = request[k].value
      /\ n.at = request[k].at
  BY <1>0
<1>3. /\ EntriesOf(s0)' = EntriesOf(s0) \cup {n}
      /\ \A s : s # s0 => EntriesOf(s)' = EntriesOf(s)
  BY <1>1, <1>2 DEF EntriesOf
<1>4. /\ \A e \in log : e.at \in Nat /\ e.at <= begun
      /\ n.at \in Nat /\ n.at <= begun
  BY <1>2 DEF AdminInv, TypeOK, Entry, HistoryInv, Began
<1>5. k \notin crossed => /\ \A e \in EntriesOf(s0) : e.at < n.at
                          /\ n.was = Present(s0)
  BY <1>2 DEF HistoryInv, Uncrossed
<1>6. Began'
  <2>1. \A e \in log' : /\ e.at <= begun'
                        /\ e.subject \in Row => role'[e.subject] # "unused"
    BY <1>1, <1>2, <1>4 DEF HistoryInv, Began
  <2>2. ASSUME NEW j \in Slot, request'[j].stage # "idle", request'[j].op # "register"
        PROVE  /\ request'[j].at <= begun'
               /\ request'[j].op \in {"promote", "delete"} => role'[request'[j].subject] # "unused"
               /\ request'[j].op = "delete" => request'[j].value = "deleted"
    <3>1. j # k /\ request'[j] = request[j]
      BY <1>1, <2>2
    <3>2. request[j].op \in {"promote", "delete"} => request[j].subject \in Row
      BY <2>2, <3>1 DEF AdminInv, RequestKnown
    <3> QED
      BY <2>2, <3>1, <3>2 DEF HistoryInv, Began
  <2> QED
    BY <2>1, <2>2 DEF Began
<1>7. Uncrossed'
  <2> SUFFICES ASSUME NEW j \in Slot, j \notin crossed',
                      request'[j].stage # "idle", request'[j].op # "register",
                      NEW s, s = request'[j].subject
               PROVE  /\ \A e \in EntriesOf(s)' : e.at < request'[j].at
                      /\ request'[j].stage \in {"ready", "invalidated"} =>
                            request'[j].was = Present(s)'
    BY DEF Uncrossed, EntriesOf, Present
  <2>1. j # k /\ request'[j] = request[j]
    BY <1>1
  <2>2. j \notin crossed /\ s # s0
    BY <2>1 DEF Crosses
  <2>3. s \in Subject
    BY <2>1 DEF AdminInv, RequestKnown, TypeOK, Request, Op, Subject
  <2>4. EntriesOf(s)' = EntriesOf(s) /\ Present(s)' = Present(s)
    BY <1>3, <2>2, <2>3
  <2> QED
    BY <2>1, <2>2, <2>4 DEF HistoryInv, Uncrossed
<1>8. AuditTellsHistory'
  <2> DEFINE Later(e) == {f \in EntriesOf(e.subject) : f.at > e.at}
             Now(e) == {f \in EntriesOf(e.subject)' : f.at > e.at}
  <2> SUFFICES ASSUME NEW s \in Subject, s \notin overlapped', NEW e \in EntriesOf(s)'
               PROVE  /\ Now(e) = {} => e.value = Present(s)'
                      /\ \A f \in Now(e) : (\A g \in Now(e) : f.at <= g.at) => f.was = e.value
    BY DEF AuditTellsHistory, EntriesOf
  <2>0. s \notin overlapped /\ e.subject = s
    BY DEF Crosses, EntriesOf
  <2>1. CASE s # s0
    <3>1. e \in EntriesOf(s) /\ Now(e) = Later(e) /\ Present(s)' = Present(s)
      BY <1>3, <2>0, <2>1
    <3> QED
      BY <2>0, <3>1 DEF HistoryInv, AuditTellsHistory
  <2>2. CASE s = s0 /\ e = n
    <3>1. k \notin crossed
      BY <2>2 DEF Crosses
    <3>2. \A f \in EntriesOf(s0)' : ~(f.at > n.at)
      BY <1>3, <1>4, <1>5, <3>1 DEF EntriesOf
    <3>3. Now(e) = {}
      BY <2>0, <2>2, <3>2
    <3>4. Present(s)' = e.value
      BY <1>2, <2>2, <3>1
    <3> QED
      BY <3>3, <3>4
  <2>3. CASE s = s0 /\ e # n
    <3>1. k \notin crossed /\ e \in EntriesOf(s0)
      BY <1>3, <2>3 DEF Crosses
    <3>2. n.at > e.at
      BY <1>4, <1>5, <3>1 DEF EntriesOf
    <3>3. Now(e) = Later(e) \cup {n}
      BY <1>3, <2>0, <2>3, <3>2
    <3>4. CASE Later(e) = {}
      <4>1. e.value = Present(s0) /\ Now(e) = {n}
        BY <2>0, <2>3, <3>1, <3>3, <3>4 DEF HistoryInv, AuditTellsHistory
      <4> QED
        BY <1>5, <3>1, <4>1
    <3>5. CASE Later(e) # {}
      <4>1. \A f \in Later(e) : (\A g \in Later(e) : f.at <= g.at) => f.was = e.value
        BY <2>0, <2>3, <3>1, <3>5 DEF HistoryInv, AuditTellsHistory
      <4>2. PICK g \in Later(e) : g.at < n.at
        BY <1>5, <2>0, <2>3, <3>1, <3>5
      <4>3. ~(n.at <= g.at)
        BY <1>4, <4>2 DEF EntriesOf
      <4>4. ASSUME NEW f \in Now(e), \A h \in Now(e) : f.at <= h.at PROVE f \in Later(e)
        BY <3>3, <4>2, <4>3, <4>4
      <4> QED
        BY <3>3, <4>1, <4>4
    <3> QED
      BY <3>3, <3>4, <3>5
  <2> QED
    BY <2>1, <2>2, <2>3
<1> QED
  BY <1>6, <1>7, <1>8 DEF HistoryInv

\* Requests stay or are forgotten, and no row changes that anything refers to.
LEMMA RowsTell ==
    ASSUME AdminInv, HistoryInv,
           UNCHANGED <<mode, log, begun, overlapped>>,
           \A u \in Row : role[u] # "unused" => role'[u] = role[u],
           \A k \in Slot :
              \/ request'[k].stage = "idle"
              \/ request'[k] = request[k] /\ (k \in crossed => k \in crossed')
    PROVE  HistoryInv'
<1>1. /\ log' = log /\ mode' = mode /\ begun' = begun /\ overlapped' = overlapped
      /\ \A s : EntriesOf(s)' = EntriesOf(s)
  BY DEF EntriesOf
<1>2. \A s \in Subject : (s \in Row /\ role[s] = "unused") \/ Present(s)' = Present(s)
  BY DEF Present, Subject
<1>3. \A e \in log : e.subject \in Subject /\ (e.subject \in Row => role[e.subject] # "unused")
  BY DEF AdminInv, TypeOK, Entry, HistoryInv, Began
<1>4. ASSUME NEW k \in Slot, request'[k].stage # "idle", request'[k].op # "register",
             NEW s, s = request'[k].subject
      PROVE  Present(s)' = Present(s)
  <2>1. /\ request'[k] = request[k]
        /\ s \in Subject /\ (s \in Row => request[k].op \in {"promote", "delete"})
    BY <1>4 DEF AdminInv, RequestKnown, TypeOK, Request, Op, Subject
  <2>2. s \in Row => role[s] # "unused"
    BY <1>4, <2>1 DEF HistoryInv, Began
  <2> QED
    BY <1>2, <2>1, <2>2
<1>5. Began'
  <2>1. ASSUME NEW k \in Slot, request'[k].stage # "idle", request'[k].op # "register"
        PROVE  /\ request'[k].at <= begun'
               /\ request'[k].op \in {"promote", "delete"} => role'[request'[k].subject] # "unused"
               /\ request'[k].op = "delete" => request'[k].value = "deleted"
    <3>1. request'[k] = request[k]
      BY <2>1
    <3>2. request[k].op \in {"promote", "delete"} => request[k].subject \in Row
      BY <2>1, <3>1 DEF AdminInv, RequestKnown
    <3> QED
      BY <1>1, <2>1, <3>1, <3>2 DEF HistoryInv, Began
  <2> QED
    BY <1>1, <2>1 DEF HistoryInv, Began
<1>6. Uncrossed'
  <2> SUFFICES ASSUME NEW k \in Slot, k \notin crossed',
                      request'[k].stage # "idle", request'[k].op # "register",
                      NEW s, s = request'[k].subject
               PROVE  /\ \A e \in EntriesOf(s)' : e.at < request'[k].at
                      /\ request'[k].stage \in {"ready", "invalidated"} =>
                            request'[k].was = Present(s)'
    BY DEF Uncrossed, EntriesOf, Present
  <2>1. request'[k] = request[k] /\ k \notin crossed
    OBVIOUS
  <2> QED
    BY <1>1, <1>4, <2>1 DEF HistoryInv, Uncrossed
<1>7. AuditTellsHistory'
  <2> DEFINE Later(e) == {f \in EntriesOf(e.subject) : f.at > e.at}
             Now(e) == {f \in EntriesOf(e.subject)' : f.at > e.at}
  <2> SUFFICES ASSUME NEW s \in Subject, s \notin overlapped', NEW e \in EntriesOf(s)'
               PROVE  /\ Now(e) = {} => e.value = Present(s)'
                      /\ \A f \in Now(e) : (\A g \in Now(e) : f.at <= g.at) => f.was = e.value
    BY DEF AuditTellsHistory, EntriesOf
  <2>1. s \notin overlapped /\ e \in EntriesOf(s) /\ Now(e) = Later(e) /\ e.subject = s
    BY <1>1 DEF EntriesOf
  <2>2. Present(s)' = Present(s)
    BY <1>2, <1>3, <2>1 DEF EntriesOf
  <2> QED
    BY <2>1, <2>2 DEF HistoryInv, AuditTellsHistory
<1> QED
  BY <1>5, <1>6, <1>7 DEF HistoryInv

\* A request reads its subject; it is uncrossed from then on as long as the
\* subject stays what was read.
LEMMA ReadTells ==
    ASSUME AdminInv, HistoryInv, NEW k \in Slot,
           ReadUser(k) \/ ReadSetting(k) \/ Invalidate(k)
    PROVE  HistoryInv'
<1>0. /\ request[k] \in Request /\ request[k].stage # "idle" /\ request[k].op # "register"
      /\ UNCHANGED <<tables, begun, history>> /\ begun \in Nat
  BY DEF AdminInv, TypeOK, ReadUser, ReadSetting, Invalidate
<1>1. \E r : /\ request' = [request EXCEPT ![k] = r]
             /\ r.op = request[k].op /\ r.subject = request[k].subject
             /\ r.value = request[k].value /\ r.at = request[k].at
             /\ \/ r.was = Present(request[k].subject)
                \/ r.was = request[k].was /\ request[k].stage = "ready"
  <2>1. CASE ReadUser(k)
    <3> DEFINE r == [request[k] EXCEPT !.stage = "ready", !.was = role[request[k].subject]]
    <3>1. request' = [request EXCEPT ![k] = r] /\ request[k].subject \in Row
      BY <2>1 DEF ReadUser, Living
    <3>2. r.was = Present(request[k].subject)
      BY <1>0, <3>1 DEF Request, Present
    <3> QED
      BY <1>0, <3>1, <3>2 DEF Request
  <2>2. CASE ReadSetting(k)
    <3> DEFINE r == [request[k] EXCEPT !.stage = "ready", !.was = mode]
    <3>1. request' = [request EXCEPT ![k] = r] /\ request[k].subject = Setting
      BY <2>2 DEF ReadSetting, AdminInv, RequestKnown
    <3>2. r.was = Present(request[k].subject)
      BY <1>0, <3>1 DEF Request, Present
    <3> QED
      BY <1>0, <3>1, <3>2 DEF Request
  <2>3. CASE Invalidate(k)
    <3> DEFINE r == [request[k] EXCEPT !.stage = "invalidated"]
    <3>1. request' = [request EXCEPT ![k] = r] /\ request[k].stage = "ready"
      BY <2>3 DEF Invalidate
    <3>2. /\ r.op = request[k].op /\ r.subject = request[k].subject
          /\ r.value = request[k].value /\ r.at = request[k].at /\ r.was = request[k].was
      BY <1>0 DEF Request
    <3> QED
      BY <3>1, <3>2
  <2> QED
    BY <2>1, <2>2, <2>3
<1>2. PICK r : /\ request' = [request EXCEPT ![k] = r]
               /\ r.op = request[k].op /\ r.subject = request[k].subject
               /\ r.value = request[k].value /\ r.at = request[k].at
               /\ \/ r.was = Present(request[k].subject)
                  \/ r.was = request[k].was /\ request[k].stage = "ready"
  BY <1>1
<1>3. /\ r.at <= begun'
      /\ r.op \in {"promote", "delete"} => role[r.subject] # "unused"
      /\ r.op = "delete" => r.value = "deleted"
      /\ k \notin crossed' =>
            /\ \A e \in EntriesOf(r.subject) : e.at < r.at
            /\ r.was = Present(r.subject)
  BY <1>0, <1>2 DEF HistoryInv, Began, Uncrossed, history
<1>4. UNCHANGED tables /\ overlapped' = overlapped /\ crossed' = crossed /\ begun' = begun
  BY <1>0 DEF history
<1>5. begun <= begun' /\ begun' \in Nat
  BY <1>0
<1> QED
  BY <1>2, <1>3, <1>4, <1>5, RequestTells

LEMMA CommitsTell ==
    ASSUME AdminInv, HistoryInv, NEW k \in Slot,
           CommitPromote(k) \/ CommitDelete(k) \/ CommitUpdate(k)
    PROVE  HistoryInv'
<1> DEFINE r == request[k]
<1>1. /\ r \in Request /\ r.stage \in {"ready", "invalidated"} /\ r.op # "register"
      /\ Logged(k) /\ Crosses(k) /\ request' = [request EXCEPT ![k] = Idle] /\ begun' = begun
  BY DEF AdminInv, TypeOK, RequestKnown, CommitPromote, CommitDelete, CommitUpdate
<1>2. PICK s0 : s0 = request[k].subject
  OBVIOUS
<1>3. s0 \in Subject /\ r.at \in Nat
  BY <1>1, <1>2 DEF AdminInv, RequestKnown, Request, Op, Subject
<1>4. /\ s0 \in Row => role[s0] # "unused"
      /\ k \notin crossed => r.was = Present(s0)
  BY <1>1, <1>2 DEF HistoryInv, Began, Uncrossed, AdminInv, RequestKnown, Request, Op
<1>5. /\ \A s \in Subject : s # s0 => Present(s)' = Present(s)
      /\ k \notin crossed => Present(s0)' = r.value
      /\ \A u \in Row : role[u] # "unused" => role'[u] # "unused"
  <2>1. CASE CommitPromote(k)
    <3>1. /\ mode' = mode /\ s0 \in Row /\ r.value \in Role
          /\ role' = IF r.value = r.was THEN role ELSE [role EXCEPT ![s0] = r.value]
      BY <1>2, <2>1 DEF CommitPromote, AdminInv, RequestKnown
    <3> HIDE DEF r
    <3> QED
      BY <1>4, <3>1 DEF AdminInv, TypeOK, Present, Subject, Role
  <2>2. CASE CommitDelete(k)
    <3>1. /\ mode' = mode /\ s0 \in Row /\ r.value = "deleted"
          /\ role' = [role EXCEPT ![s0] = "deleted"]
      BY <1>2, <2>2 DEF CommitDelete, AdminInv, RequestKnown, HistoryInv, Began
    <3> HIDE DEF r
    <3> QED
      BY <1>4, <3>1 DEF AdminInv, TypeOK, Present, Subject
  <2>3. CASE CommitUpdate(k)
    <3>1. /\ role' = role /\ s0 = Setting
          /\ mode' = IF r.value = r.was THEN mode ELSE r.value
      BY <1>1, <1>2, <2>3 DEF CommitUpdate, AdminInv, RequestKnown
    <3> HIDE DEF r
    <3> QED
      BY <1>4, <3>1 DEF Present, Subject
  <2> QED
    BY <2>1, <2>2, <2>3
<1> QED
  BY <1>1, <1>2, <1>3, <1>4, <1>5, CommitTells

LEMMA HistoryStep == AdminInv /\ HistoryInv /\ [Next]_vars => HistoryInv'
<1> SUFFICES ASSUME AdminInv, HistoryInv, [Next]_vars PROVE HistoryInv'
  OBVIOUS
<1>1. ASSUME NEW k \in Slot, NEW a \in Row, NEW u \in Row,
             \/ \E v \in Role : BeginPromote(k, a, u, v)
             \/ BeginDelete(k, a, u)
             \/ \E v \in Mode : BeginUpdate(k, a, v)
      PROVE  HistoryInv'
  <2>1. \/ \E v \in Role : role[u] # "unused" /\ Begin(k, "promote", a, u, v)
        \/ role[u] # "unused" /\ Begin(k, "delete", a, u, "deleted")
        \/ \E v \in Mode : Begin(k, "update", a, Setting, v)
    BY <1>1 DEF BeginPromote, BeginDelete, BeginUpdate, Nameable
  <2>2. ASSUME NEW v \in Role, role[u] # "unused", Begin(k, "promote", a, u, v)
        PROVE  HistoryInv'
    BY <2>2, BeginTells
  <2>3. ASSUME role[u] # "unused", Begin(k, "delete", a, u, "deleted") PROVE HistoryInv'
    BY <2>3, BeginTells
  <2>4. ASSUME NEW v \in Mode, Begin(k, "update", a, Setting, v) PROVE HistoryInv'
    BY <2>4, BeginTells
  <2> QED
    BY <2>1, <2>2, <2>3, <2>4
<1>2. ASSUME NEW k \in Slot, NEW u \in Row, BeginRegister(k, u) PROVE HistoryInv'
  <2> DEFINE r == Asked("ready", "register", None, u, "user", 0)
  <2>1. /\ request' = [request EXCEPT ![k] = r] /\ UNCHANGED <<tables, begun, history>>
    BY <1>2 DEF BeginRegister
  <2>2. r.op = "register"
    BY DEF Asked
  <2> HIDE DEF r
  <2>3. begun' \in Nat /\ begun <= begun' /\ crossed' = crossed /\ overlapped' = overlapped
    BY <2>1 DEF AdminInv, TypeOK, history
  <2> QED
    BY <2>1, <2>2, <2>3, RequestTells
<1>3. ASSUME NEW k \in Slot, CommitRegister(k) \/ Fails(k) PROVE HistoryInv'
  <2>1. /\ request' = [request EXCEPT ![k] = Idle] /\ crossed' = crossed \ {k}
        /\ UNCHANGED <<mode, log, begun, overlapped>>
        /\ \A u \in Row : role[u] # "unused" => role'[u] = role[u]
    BY <1>3 DEF CommitRegister, Fails, Finish, tables, AdminInv, TypeOK
  <2>2. /\ request'[k].stage = "idle"
        /\ \A j \in Slot : j # k => request'[j] = request[j]
    BY <2>1, IdleKeeps
  <2> QED
    BY <2>1, <2>2, RowsTell
<1>4. CASE Start
  <2>1. /\ \A k \in Slot : request'[k].stage = "idle"
        /\ UNCHANGED <<mode, log, begun, overlapped>>
        /\ \A u \in Row : role[u] # "unused" => role'[u] = role[u]
    BY <1>4 DEF Start, Idle, Asked, AdminInv, TypeOK
  <2> QED
    BY <2>1, RowsTell
<1>5. CASE Load \/ Expire \/ UNCHANGED vars
  <2>1. UNCHANGED <<role, mode, log, begun, overlapped, crossed, request>>
    BY <1>5 DEF Load, ConfigHit, ConfigRead, ConfigFill, Expire, vars, tables, history
  <2> QED
    BY <2>1, RowsTell
<1>6. ASSUME NEW k \in Slot,
             \/ ReadUser(k) \/ ReadSetting(k) \/ Invalidate(k)
             \/ CommitPromote(k) \/ CommitDelete(k) \/ CommitUpdate(k)
      PROVE  HistoryInv'
  BY <1>6, ReadTells, CommitsTell
<1> QED
  BY <1>1, <1>2, <1>3, <1>4, <1>5, <1>6 DEF Next, Handled

\* Read by the time its transactions began, the log tells the truth about every
\* user and the setting, unless requests about the same subject overlapped
\* (log_action and the handlers of admin.py).
THEOREM AuditAlwaysTellsHistory == Spec => []AuditTellsHistory
<1>1. AdminInv /\ HistoryInv /\ [Next]_vars => AdminInv' /\ HistoryInv'
  BY AdminStep, HistoryStep
<1>2. HistoryInv => AuditTellsHistory
  BY DEF HistoryInv
<1> QED
  BY <1>1, <1>2, AdminInit, HistoryInit, PTL DEF Spec
=============================================================================
