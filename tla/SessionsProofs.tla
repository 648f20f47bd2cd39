---------------------------- MODULE SessionsProofs ----------------------------
(***************************************************************************)
(* Proofs about Sessions, for any number of tabs, requests, users, rows    *)
(* and tokens.                                                             *)
(***************************************************************************)
EXTENDS Sessions, TLAPS

\* The initial state has the types.
LEMMA InitType == Init => TypeOK
  BY DEF Init, TypeOK, Idle, Request, Stage, Fate

\* A DELETE keeps the types of what it writes.
LEMMA DeleteType ==
    ASSUME TypeOK, NEW rows \in SUBSET Session, Delete(rows)
    PROVE  /\ status' \in [Session -> {"unused", "live", "deleted"}]
           /\ fate' \in [Token -> Fate]
  BY DEF TypeOK, Delete, Live, Fate

\* Signing out keeps the types of what it writes.
LEMMA SignOutType ==
    ASSUME TypeOK, NEW t \in Tab, SignOut(t)
    PROVE  /\ signouts' \in SUBSET Token
           /\ memory' \in [Tab -> Token \cup {None}]
           /\ stored' \in Token \cup {None}
  BY DEF TypeOK, SignOut

\* So does the end of a request.
LEMMA FinishType ==
    ASSUME TypeOK, NEW k \in Call, Finish(k)
    PROVE  /\ call' \in [Call -> Request]
           /\ abandoned' \in SUBSET Call
  <1>1. Idle \in Request
    BY DEF Idle, Request, Stage
  <1> QED
    BY <1>1 DEF TypeOK, Finish

\* A request that goes on to another stage keeps the type of call.
LEMMA StepType ==
    ASSUME TypeOK, NEW k \in Call, NEW stage \in Stage, Step(k, stage)
    PROVE  call' \in [Call -> Request]
  BY DEF TypeOK, Step, Request

\* The steps of a request keep the types.
LEMMA ServeType ==
    ASSUME TypeOK, NEW k \in Call, Serve(k)
    PROVE  TypeOK'
  <1>0. Caller[k] \in Tab
    BY SessionsAssumption
  <1>1. ASSUME NEW u \in User, NEW x \in Token, LoginRead(k, u, x) PROVE TypeOK'
    <2>1. [Idle EXCEPT !.stage = "opening", !.user = u, !.fresh = x,
                       !.lift = (suspension[u] = "elapsed")] \in Request
      BY DEF Idle, Request, Stage
    <2> QED
      BY <1>1, <2>1 DEF TypeOK, LoginRead, Generate, table, account, browser, Fate
  <1>2. ASSUME NEW s \in Session, LoginCommit(k, s) PROVE TypeOK'
    <2>1. call' \in [Call -> Request]
      BY <1>2, StepType DEF LoginCommit, Stage
    <2>2. call[k].user \in User \cup {None} /\ call[k].fresh \in Token \cup {None}
      BY DEF TypeOK, Request
    <2> QED
      BY <1>2, <2>1, <2>2 DEF TypeOK, LoginCommit, browser
  <1>3. CASE LoginDone(k)
    <2>1. call[k].fresh \in Token \cup {None}
      BY DEF TypeOK, Request
    <2> QED
      BY <1>0, <1>3, <2>1, FinishType DEF TypeOK, LoginDone, table, account
  <1>4. CASE RequestDenied(k)
    <2>1. [Idle EXCEPT !.stage = "refresh", !.token = memory[Caller[k]]] \in Request
      BY <1>0 DEF Idle, Request, Stage, TypeOK
    <2> QED
      BY <1>4, <2>1 DEF TypeOK, RequestDenied, table, account, browser
  <1>5. ASSUME NEW x \in Token, RefreshRead(k, x) PROVE TypeOK'
    <2>1. PICK s \in Session :
             call' = [call EXCEPT ![k] = [@ EXCEPT !.stage = "rotating",
                                                   !.session = s, !.fresh = x]]
      BY <1>5 DEF RefreshRead, Redeemable, Live
    <2>a. [call[k] EXCEPT !.stage = "rotating", !.session = s, !.fresh = x] \in Request
      <3> DEFINE r == call[k]
      <3>1. r \in Request
        BY DEF TypeOK
      <3>2. "rotating" \in Stage
        BY DEF Stage
      <3> HIDE DEF r
      <3>3. [r EXCEPT !.stage = "rotating", !.session = s, !.fresh = x] \in Request
        BY <3>1, <3>2 DEF Request
      <3> QED
        BY <3>3 DEF r
    <2>2. call' \in [Call -> Request]
      BY <2>1, <2>a DEF TypeOK
    <2> QED
      BY <1>5, <2>2 DEF TypeOK, RefreshRead, Generate, table, account, browser, Fate
  <1>6. CASE RefreshInvalid(k)
    BY <1>6, StepType DEF TypeOK, RefreshInvalid, table, account, browser, Stage
  <1>7. CASE RefreshCommit(k)
    <2>1. call' \in [Call -> Request]
      BY <1>7, StepType DEF RefreshCommit, Stage
    <2>2. call[k].fresh \in Token \cup {None}
      BY DEF TypeOK, Request
    <2>3. fate' \in [Token -> Fate]
      BY <1>7 DEF TypeOK, RefreshCommit, Redeemed, Fate
    <2> QED
      BY <1>7, <2>1, <2>2, <2>3 DEF TypeOK, RefreshCommit, account, browser
  <1>8. CASE RefreshStale(k)
    BY <1>8, StepType DEF TypeOK, RefreshStale, table, account, browser, Stage
  <1>9. CASE RefreshDone(k)
    <2>1. call[k].fresh \in Token \cup {None}
      BY DEF TypeOK, Request
    <2> QED
      BY <1>0, <1>9, <2>1, StepType DEF TypeOK, RefreshDone, table, account, Stage
  <1>10. CASE RefreshDenied(k)
    BY <1>0, <1>10, SignOutType, FinishType DEF TypeOK, RefreshDenied, table, account
  <1>11. CASE Retried(k)
    BY <1>0, <1>11, SignOutType, FinishType
    DEF TypeOK, Retried, table, account, browser
  <1>12. CASE ConnectionFails(k)
    BY <1>0, <1>12, SignOutType DEF TypeOK, ConnectionFails, table, account, browser
  <1>13. CASE AnswerDropped(k)
    BY <1>13, FinishType DEF TypeOK, AnswerDropped, table, account, browser
  <1> QED
    BY <1>1, <1>2, <1>3, <1>4, <1>5, <1>6, <1>7, <1>8, <1>9, <1>10, <1>11, <1>12,
       <1>13 DEF Serve

\* Every step keeps the types.
LEMMA NextType == TypeOK /\ [Next]_vars => TypeOK'
  <1> SUFFICES ASSUME TypeOK, [Next]_vars PROVE TypeOK'
    OBVIOUS
  <1>1. ASSUME NEW k \in Call, Serve(k) PROVE TypeOK'
    BY <1>1, ServeType
  <1>2. ASSUME NEW u \in User, Manage(u) PROVE TypeOK'
    <2>1. CASE LogoutAll(u)
      BY <2>1, DeleteType DEF TypeOK, LogoutAll, account, browser
    <2>2. CASE Ban(u)
      BY <2>2, DeleteType DEF TypeOK, Ban, browser
    <2>3. CASE Unban(u)
      BY <2>3 DEF TypeOK, Unban, table, browser
    <2>4. CASE Suspend(u)
      BY <2>4 DEF TypeOK, Suspend, table, browser
    <2>5. CASE Unsuspend(u)
      BY <2>5 DEF TypeOK, Unsuspend, table, browser
    <2>6. CASE SuspensionElapses(u)
      BY <2>6 DEF TypeOK, SuspensionElapses, table, browser
    <2> QED
      BY <1>2, <2>1, <2>2, <2>3, <2>4, <2>5, <2>6 DEF Manage
  <1>3. ASSUME NEW t \in Tab, Reload(t) PROVE TypeOK'
    BY <1>3 DEF TypeOK, Reload, table, account
  <1>4. ASSUME NEW t \in Tab, Logout(t) PROVE TypeOK'
    BY <1>4, SignOutType DEF TypeOK, Logout, table, account
  <1>5. ASSUME NEW x \in Token, SignOutArrives(x) PROVE TypeOK'
    BY <1>5, DeleteType DEF TypeOK, SignOutArrives, account
  <1>6. ASSUME NEW s \in Session, RevokeDevice(s) PROVE TypeOK'
    BY <1>6, DeleteType DEF TypeOK, RevokeDevice, account, browser
  <1>7. ASSUME NEW s \in Session, SessionExpires(s) PROVE TypeOK'
    BY <1>7 DEF TypeOK, SessionExpires, account, browser
  <1>8. CASE UNCHANGED vars
    BY <1>8 DEF TypeOK, vars, table, account, browser
  <1> QED
    BY <1>1, <1>2, <1>3, <1>4, <1>5, <1>6, <1>7, <1>8 DEF Next

\* Every variable keeps its type in every behaviour.
THEOREM TypeInvariant == Spec => []TypeOK
  <1> QED
    BY InitType, NextType, PTL DEF Spec

-----------------------------------------------------------------------------
(***************************************************************************)
(* Where tokens are.  The invariant says that a token under way to the     *)
(* database is in no row and in no browser yet, that a refresh under way   *)
(* still knows what became of the token it presented, and that a token     *)
(* that reached a browser is the current one of a row unless its fate      *)
(* explains why not.                                                       *)
(***************************************************************************)

Pending == {"opening", "rotating"}
Answered == {"opened", "rotated"}

Held == {memory[t] : t \in Tab} \cup {stored}
           \cup {call[k].fresh : k \in {j \in Call : call[j].stage \in Answered}}

RowsHoldIssued ==
    \A s \in Live : hash[s] \in Token /\ fate[hash[s]] = "issued"

PendingIsNowhere ==
    \A k \in Call : call[k].stage \in Pending =>
        /\ call[k].fresh \in Token
        /\ fate[call[k].fresh] = "issued"
        /\ \A s \in Live : hash[s] # call[k].fresh

PendingIsDistinct ==
    \A j, k \in Call :
        call[j].stage \in Pending /\ call[k].stage \in Pending /\ j # k =>
            call[j].fresh # call[k].fresh

PresentedIsKnown ==
    \A k \in Call : call[k].stage = "rotating" =>
        /\ call[k].session \in Session
        /\ status[call[k].session] # "unused"
        /\ call[k].token \in Token
        /\ fate[call[k].token] # "unused"
        /\ fate[call[k].token] = "issued" =>
              call[k].session \in Live /\ hash[call[k].session] = call[k].token

HeldIsExplained ==
    \A x \in Held \ {None} :
        /\ x \in Token
        /\ fate[x] # "unused"
        /\ fate[x] = "issued" => \E s \in Live : hash[s] = x

TokenInv ==
    /\ RowsHoldIssued
    /\ TokenNamesOneSession
    /\ PendingIsNowhere
    /\ PendingIsDistinct
    /\ PresentedIsKnown
    /\ HeldIsExplained

\* Nothing has happened yet.
LEMMA TokenInit == Init => TokenInv
  <1> SUFFICES ASSUME Init PROVE TokenInv
    OBVIOUS
  <1>1. Live = {} /\ \A k \in Call : call[k].stage = "idle"
    BY DEF Init, Live, Idle
  <1>2. Held \ {None} = {}
    BY <1>1 DEF Init, Held, Answered
  <1> QED
    BY <1>1, <1>2 DEF TokenInv, RowsHoldIssued, TokenNamesOneSession,
       PendingIsNowhere, PendingIsDistinct, PresentedIsKnown, HeldIsExplained, Pending

\* A step that writes no row, generates no token, and gives a browser only
\* tokens that were under way to it.
Quiet ==
    /\ UNCHANGED <<status, hash, fate>>
    /\ \A k \in Call :
          call'[k].stage \in Pending \cup Answered => call'[k] = call[k]
    /\ Held' \subseteq Held \cup {None}

LEMMA QuietStep == TypeOK /\ TokenInv /\ Quiet => TokenInv'
  <1> SUFFICES ASSUME TypeOK, TokenInv, Quiet PROVE TokenInv'
    OBVIOUS
  <1>1. Live' = Live
    BY DEF Quiet, Live
  <1>2. RowsHoldIssued' /\ TokenNamesOneSession'
    BY <1>1 DEF Quiet, TokenInv, RowsHoldIssued, TokenNamesOneSession
  <1>3. PendingIsNowhere'
    BY <1>1 DEF Quiet, TokenInv, PendingIsNowhere
  <1>4. PendingIsDistinct'
    BY DEF Quiet, TokenInv, PendingIsDistinct
  <1>5. PresentedIsKnown'
    BY <1>1 DEF Quiet, TokenInv, PresentedIsKnown, Pending
  <1>6. HeldIsExplained'
    BY <1>1 DEF Quiet, TokenInv, HeldIsExplained
  <1> QED
    BY <1>2, <1>3, <1>4, <1>5, <1>6 DEF TokenInv

\* Signing out gives no browser a token.
LEMMA SignOutHeld ==
    ASSUME TypeOK, NEW t \in Tab, SignOut(t),
           \A k \in Call : call'[k].stage \in Pending \cup Answered => call'[k] = call[k]
    PROVE  Held' \subseteq Held \cup {None}
  BY DEF TypeOK, SignOut, Held, Answered

\* Ending a request or moving it past its answer leaves the others alone.
LEMMA FinishCalls ==
    ASSUME TypeOK, NEW k \in Call, Finish(k)
    PROVE  \A j \in Call : call'[j].stage \in Pending \cup Answered => call'[j] = call[j]
  BY DEF TypeOK, Finish, Idle, Pending, Answered

LEMMA StepCalls ==
    ASSUME TypeOK, NEW k \in Call, NEW stage \in {"refused", "retrying"}, Step(k, stage)
    PROVE  \A j \in Call : call'[j].stage \in Pending \cup Answered => call'[j] = call[j]
  BY DEF TypeOK, Step, Request, Pending, Answered

\* DELETE revokes the tokens of the rows it deletes and of no other.
LEMMA DeleteStep ==
    ASSUME TypeOK, TokenInv, NEW rows \in SUBSET Session, Delete(rows),
           UNCHANGED <<hash, call, memory, stored>>
    PROVE  TokenInv'
  <1>1. Live' = Live \ rows
    BY DEF TypeOK, Delete, Live
  <1>2. \A s \in Live \cap rows : fate'[hash[s]] = "revoked"
    BY DEF TypeOK, Delete, TokenInv, RowsHoldIssued
  <1>3. \A x \in Token :
           \/ fate'[x] = fate[x]
           \/ fate'[x] = "revoked" /\ \E s \in Live \cap rows : hash[s] = x
    <2> DEFINE gone == {hash[s] : s \in rows \cap Live}
    <2>1. \A x \in Token : fate'[x] = IF x \in gone THEN "revoked" ELSE fate[x]
      <3>1. fate' = [x \in Token |-> IF x \in gone THEN "revoked" ELSE fate[x]]
        BY DEF Delete
      <3> QED
        BY <3>1
    <2>2. \A x \in gone : \E s \in Live \cap rows : hash[s] = x
      OBVIOUS
    <2> QED
      BY <2>1, <2>2
  <1>4. \A s \in Session : status[s] # "unused" => status'[s] # "unused"
    BY DEF TypeOK, Delete, Live
  <1>5. Held' = Held
    BY DEF Held
  <1>6. RowsHoldIssued'
    BY <1>1, <1>3 DEF TokenInv, RowsHoldIssued, TokenNamesOneSession
  <1>7. TokenNamesOneSession'
    BY <1>1 DEF TokenInv, TokenNamesOneSession
  <1>8. PendingIsNowhere'
    BY <1>1, <1>3 DEF TokenInv, PendingIsNowhere
  <1>9. PendingIsDistinct'
    BY DEF TokenInv, PendingIsDistinct
  <1>10. PresentedIsKnown'
    BY <1>1, <1>2, <1>3, <1>4 DEF TokenInv, PresentedIsKnown
  <1>11. HeldIsExplained'
    BY <1>1, <1>2, <1>3, <1>5 DEF TokenInv, HeldIsExplained
  <1> QED
    BY <1>6, <1>7, <1>8, <1>9, <1>10, <1>11 DEF TokenInv

\* A token just generated is nowhere.
LEMMA GenerateFacts ==
    ASSUME TypeOK, TokenInv, NEW x \in Token, Generate(x)
    PROVE  /\ \A s \in Live : hash[s] # x
           /\ \A k \in Call : call[k].stage \in Pending => call[k].fresh # x
           /\ \A k \in Call : call[k].stage = "rotating" => call[k].token # x
           /\ x \notin Held \/ x = None
           /\ \A y \in Token \ {x} : fate'[y] = fate[y]
           /\ fate'[x] = "issued"
  <1>0. fate[x] = "unused" /\ fate' = [fate EXCEPT ![x] = "issued"]
    BY DEF Generate
  <1>1. \A s \in Live : hash[s] # x
    BY <1>0 DEF TokenInv, RowsHoldIssued
  <1>2. \A k \in Call : call[k].stage \in Pending => call[k].fresh # x
    BY <1>0 DEF TokenInv, PendingIsNowhere
  <1>3. \A k \in Call : call[k].stage = "rotating" => call[k].token # x
    BY <1>0 DEF TokenInv, PresentedIsKnown
  <1>4. x \notin Held \/ x = None
    BY <1>0 DEF TokenInv, HeldIsExplained
  <1>5. (\A y \in Token \ {x} : fate'[y] = fate[y]) /\ fate'[x] = "issued"
    BY <1>0 DEF TypeOK
  <1> QED
    BY <1>1, <1>2, <1>3, <1>4, <1>5

\* A handler that reads and generates a token adds one pending call.
LEMMA ReadStep ==
    ASSUME TypeOK, TokenInv, NEW x \in Token, Generate(x), NEW k \in Call,
           call[k].stage \in {"idle", "refresh"},
           NEW r \in Request, call' = [call EXCEPT ![k] = r],
           r.stage \in Pending, r.fresh = x,
           r.stage = "rotating" =>
               r.session \in Live /\ r.token = hash[r.session],
           UNCHANGED <<status, hash, memory, stored>>
    PROVE  TokenInv'
  <1>1. Live' = Live
    BY DEF Live
  <1>2. /\ \A s \in Live : hash[s] # x
        /\ \A j \in Call : call[j].stage \in Pending => call[j].fresh # x
        /\ \A j \in Call : call[j].stage = "rotating" => call[j].token # x
        /\ x \notin Held \/ x = None
        /\ \A y \in Token \ {x} : fate'[y] = fate[y]
        /\ fate'[x] = "issued"
    BY GenerateFacts
  <1>3. call'[k] = r /\ \A j \in Call \ {k} : call'[j] = call[j]
    BY DEF TypeOK
  <1>4. Held' = Held
    BY <1>3 DEF Held, Answered, Pending
  <1>5. RowsHoldIssued' /\ TokenNamesOneSession'
    BY <1>1, <1>2 DEF TokenInv, RowsHoldIssued, TokenNamesOneSession
  <1>6. PendingIsNowhere'
    BY <1>1, <1>2, <1>3 DEF TokenInv, PendingIsNowhere
  <1>7. PendingIsDistinct'
    BY <1>2, <1>3 DEF TokenInv, PendingIsDistinct
  <1>8. PresentedIsKnown'
    BY <1>1, <1>2, <1>3 DEF TokenInv, PresentedIsKnown, RowsHoldIssued, Live
  <1>9. HeldIsExplained'
    BY <1>1, <1>2, <1>4 DEF TokenInv, HeldIsExplained
  <1> QED
    BY <1>5, <1>6, <1>7, <1>8, <1>9 DEF TokenInv

\* A row inserted holds a token that was pending.
LEMMA LoginCommitStep ==
    ASSUME TypeOK, TokenInv, NEW k \in Call, NEW s \in Session, LoginCommit(k, s)
    PROVE  TokenInv'
  <1> DEFINE x == call[k].fresh
  <1>1. /\ x \in Token
        /\ fate[x] = "issued"
        /\ \A r \in Live : hash[r] # x
        /\ \A j \in Call \ {k} : call[j].stage \in Pending => call[j].fresh # x
    BY DEF LoginCommit, TokenInv, PendingIsNowhere, PendingIsDistinct, Pending
  <1>2. Live' = Live \cup {s} /\ s \notin Live
    BY DEF TypeOK, LoginCommit, Live
  <1>3. hash'[s] = x /\ \A r \in Session \ {s} : hash'[r] = hash[r]
    BY DEF TypeOK, LoginCommit
  <1>4. /\ call'[k].stage = "opened" /\ call'[k].fresh = x
        /\ \A j \in Call \ {k} : call'[j] = call[j]
    BY DEF TypeOK, LoginCommit, Step, Request
  <1>5. fate' = fate /\ memory' = memory /\ stored' = stored
    BY DEF LoginCommit, browser
  <1>6. Held' \subseteq Held \cup {x}
    BY <1>4, <1>5 DEF Held
  <1> HIDE DEF x
  <1>7. RowsHoldIssued'
    BY <1>1, <1>2, <1>3, <1>5 DEF TokenInv, RowsHoldIssued, Live
  <1>8. TokenNamesOneSession'
    BY <1>1, <1>2, <1>3 DEF TokenInv, TokenNamesOneSession, Live
  <1>9. PendingIsNowhere'
    BY <1>1, <1>2, <1>3, <1>4, <1>5
    DEF TokenInv, PendingIsNowhere, Pending, Live
  <1>10. PendingIsDistinct'
    BY <1>4 DEF TokenInv, PendingIsDistinct, Pending
  <1>11. \A j \in Call : call[j].stage = "rotating" => call[j].session # s
    BY DEF LoginCommit, TokenInv, PresentedIsKnown
  <1>12. \A r \in Session \ {s} : status'[r] = status[r]
    BY DEF TypeOK, LoginCommit
  <1>13. PresentedIsKnown'
    BY <1>2, <1>3, <1>4, <1>5, <1>11, <1>12 DEF TokenInv, PresentedIsKnown
  <1>14. \A y \in Token : (\E r \in Live : hash[r] = y) => \E r \in Live' : hash'[r] = y
    BY <1>2, <1>3 DEF Live
  <1>15. HeldIsExplained'
    BY <1>1, <1>2, <1>3, <1>5, <1>6, <1>14 DEF TokenInv, HeldIsExplained
  <1> QED
    BY <1>7, <1>8, <1>9, <1>10, <1>13, <1>15 DEF TokenInv

\* A row updated holds a token that was pending; the token it held and the one
\* presented are dead.
LEMMA RefreshCommitStep ==
    ASSUME TypeOK, TokenInv, NEW k \in Call, RefreshCommit(k)
    PROVE  TokenInv'
  <1> DEFINE x == call[k].fresh
             p == call[k].token
             s == call[k].session
  <1>1. /\ x \in Token
        /\ fate[x] = "issued"
        /\ \A r \in Live : hash[r] # x
        /\ \A j \in Call \ {k} : call[j].stage \in Pending => call[j].fresh # x
    BY DEF RefreshCommit, TokenInv, PendingIsNowhere, PendingIsDistinct, Pending
  <1>2. /\ s \in Live /\ p \in Token /\ Live \subseteq Session
        /\ fate[p] # "unused"
        /\ fate[p] = "issued" => hash[s] = p
    BY DEF RefreshCommit, TokenInv, PresentedIsKnown, Live
  <1>3. Live' = Live /\ status' = status
    BY DEF RefreshCommit, Live
  <1>4. hash'[s] = x /\ \A r \in Session \ {s} : hash'[r] = hash[r]
    BY <1>2 DEF TypeOK, RefreshCommit
  <1>5. /\ call'[k].stage = "rotated" /\ call'[k].fresh = x
        /\ \A j \in Call \ {k} : call'[j] = call[j]
    BY DEF TypeOK, RefreshCommit, Step, Request
  <1>6. memory' = memory /\ stored' = stored
    BY DEF RefreshCommit, browser
  <1>7. /\ fate'[p] = "redeemed"
        /\ hash[s] # p => fate'[hash[s]] = "overwritten"
        /\ \A y \in Token : y # p /\ y # hash[s] => fate'[y] = fate[y]
    BY <1>2 DEF TypeOK, RefreshCommit, Redeemed, TokenInv, RowsHoldIssued
  <1>8. Held' \subseteq Held \cup {x}
    BY <1>5, <1>6 DEF Held
  <1>9. x # p /\ x # hash[s] /\ hash[s] \in Token
    BY <1>1, <1>2 DEF TokenInv, RowsHoldIssued
  <1>10. \A r \in Live \ {s} : hash[r] \in Token /\ hash[r] # hash[s] /\ hash[r] # p
    BY <1>2 DEF TokenInv, TokenNamesOneSession, RowsHoldIssued
  <1> HIDE DEF x, p, s
  <1>11. RowsHoldIssued'
    BY <1>1, <1>2, <1>3, <1>4, <1>7, <1>9, <1>10 DEF TokenInv, RowsHoldIssued
  <1>12. TokenNamesOneSession'
    BY <1>1, <1>2, <1>3, <1>4 DEF TokenInv, TokenNamesOneSession
  <1>13. \A j \in Call \ {k} : call[j].stage \in Pending =>
            /\ call[j].fresh \in Token
            /\ call[j].fresh # hash[s] /\ call[j].fresh # p
    BY <1>2 DEF TokenInv, PendingIsNowhere
  <1>14. PendingIsNowhere'
    BY <1>1, <1>2, <1>3, <1>4, <1>5, <1>7, <1>13
    DEF TokenInv, PendingIsNowhere, Pending
  <1>15. PendingIsDistinct'
    BY <1>5 DEF TokenInv, PendingIsDistinct, Pending
  <1>16. PresentedIsKnown'
    BY <1>2, <1>3, <1>4, <1>5, <1>7, <1>9 DEF TokenInv, PresentedIsKnown
  <1>17. HeldIsExplained'
    BY <1>1, <1>2, <1>3, <1>4, <1>7, <1>8, <1>9 DEF TokenInv, HeldIsExplained
  <1> QED
    BY <1>11, <1>12, <1>14, <1>15, <1>16, <1>17 DEF TokenInv

-----------------------------------------------------------------------------
\* The steps of a request keep the invariant.
LEMMA ServeTokens ==
    ASSUME TypeOK, TokenInv, NEW k \in Call, Serve(k)
    PROVE  TokenInv'
  <1>0. Caller[k] \in Tab
    BY SessionsAssumption
  <1>1. ASSUME NEW u \in User, NEW x \in Token, LoginRead(k, u, x) PROVE TokenInv'
    <2> DEFINE r == [Idle EXCEPT !.stage = "opening", !.user = u, !.fresh = x,
                                 !.lift = (suspension[u] = "elapsed")]
    <2>1. r \in Request /\ r.stage = "opening" /\ r.fresh = x
      BY DEF Idle, Request, Stage
    <2>2. /\ Generate(x)
          /\ call[k].stage \in {"idle", "refresh"}
          /\ call' = [call EXCEPT ![k] = r]
          /\ UNCHANGED <<status, hash, memory, stored>>
      BY <1>1 DEF LoginRead, table, browser
    <2> HIDE DEF r
    <2> QED
      BY <2>1, <2>2, ReadStep DEF Pending
  <1>2. ASSUME NEW s \in Session, LoginCommit(k, s) PROVE TokenInv'
    BY <1>2, LoginCommitStep
  <1>3. CASE LoginDone(k)
    <2>1. Held' \subseteq Held \cup {None}
      BY <1>0, <1>3, FinishCalls
      DEF TypeOK, LoginDone, Held, Answered
    <2> QED
      BY <1>3, <2>1, FinishCalls, QuietStep DEF LoginDone, Quiet, table
  <1>4. CASE RequestDenied(k)
    <2>1. call'[k].stage = "refresh" /\ \A j \in Call \ {k} : call'[j] = call[j]
      BY <1>4 DEF TypeOK, RequestDenied, Idle
    <2>2. Held' \subseteq Held \cup {None}
      BY <1>4, <2>1 DEF RequestDenied, browser, Held, Answered
    <2> QED
      BY <1>4, <2>1, <2>2, QuietStep DEF RequestDenied, Quiet, table, Pending, Answered
  <1>5. ASSUME NEW x \in Token, RefreshRead(k, x) PROVE TokenInv'
    <2>1. PICK s \in Redeemable(call[k].token) :
             call' = [call EXCEPT ![k] = [@ EXCEPT !.stage = "rotating",
                                                   !.session = s, !.fresh = x]]
      BY <1>5 DEF RefreshRead
    <2>2. s \in Session /\ s \in Live /\ hash[s] = call[k].token
      BY DEF Redeemable, Live
    <2> DEFINE c == call[k]
               r == [c EXCEPT !.stage = "rotating", !.session = s, !.fresh = x]
    <2>3. c \in Request
      BY DEF TypeOK
    <2>4. /\ r \in Request /\ r.stage = "rotating" /\ r.fresh = x
          /\ r.session = s /\ r.token = c.token
      <3> HIDE DEF c
      <3> QED
        BY <2>2, <2>3 DEF Request, Stage
    <2>5. /\ Generate(x)
          /\ call[k].stage \in {"idle", "refresh"}
          /\ call' = [call EXCEPT ![k] = r]
          /\ UNCHANGED <<status, hash, memory, stored>>
      BY <1>5, <2>1 DEF RefreshRead, table, browser
    <2>6. r.session \in Live /\ r.token = hash[r.session]
      BY <2>2, <2>4
    <2> HIDE DEF r
    <2> QED
      BY <2>4, <2>5, <2>6, ReadStep DEF Pending
  <1>6. CASE RefreshInvalid(k)
    <2>1. Held' \subseteq Held \cup {None}
      BY <1>6, StepCalls DEF RefreshInvalid, browser, Held, Answered
    <2> QED
      BY <1>6, <2>1, StepCalls, QuietStep DEF RefreshInvalid, Quiet, table
  <1>7. CASE RefreshCommit(k)
    BY <1>7, RefreshCommitStep
  <1>8. CASE RefreshStale(k)
    <2>1. Held' \subseteq Held \cup {None}
      BY <1>8, StepCalls DEF RefreshStale, browser, Held, Answered
    <2> QED
      BY <1>8, <2>1, StepCalls, QuietStep DEF RefreshStale, Quiet, table
  <1>9. CASE RefreshDone(k)
    <2>1. Held' \subseteq Held \cup {None}
      BY <1>0, <1>9, StepCalls DEF TypeOK, RefreshDone, Held, Answered
    <2> QED
      BY <1>9, <2>1, StepCalls, QuietStep DEF RefreshDone, Quiet, table
  <1>10. CASE RefreshDenied(k)
    BY <1>0, <1>10, FinishCalls, SignOutHeld, QuietStep DEF RefreshDenied, Quiet, table
  <1>11. CASE Retried(k)
    <2>1. Held' \subseteq Held \cup {None}
      <3>1. CASE UNCHANGED browser
        BY <1>11, <3>1, FinishCalls DEF Retried, browser, Held, Answered
      <3>2. CASE SignOut(Caller[k])
        BY <1>0, <1>11, <3>2, FinishCalls, SignOutHeld DEF Retried
      <3> QED
        BY <1>11, <3>1, <3>2 DEF Retried
    <2> QED
      BY <1>11, <2>1, FinishCalls, QuietStep DEF Retried, Quiet, table
  <1>12. CASE ConnectionFails(k)
    <2>1. Held' \subseteq Held \cup {None}
      <3>1. CASE UNCHANGED browser
        BY <1>12, <3>1 DEF ConnectionFails, browser, Held
      <3>2. CASE SignOut(Caller[k])
        BY <1>0, <1>12, <3>2, SignOutHeld DEF ConnectionFails
      <3> QED
        BY <1>12, <3>1, <3>2 DEF ConnectionFails
    <2> QED
      BY <1>12, <2>1, QuietStep DEF ConnectionFails, Quiet, table
  <1>13. CASE AnswerDropped(k)
    <2>1. Held' \subseteq Held \cup {None}
      BY <1>13, FinishCalls DEF AnswerDropped, browser, Held, Answered
    <2> QED
      BY <1>13, <2>1, FinishCalls, QuietStep DEF AnswerDropped, Quiet, table
  <1> QED
    BY <1>1, <1>2, <1>3, <1>4, <1>5, <1>6, <1>7, <1>8, <1>9, <1>10, <1>11, <1>12,
       <1>13 DEF Serve

\* Every step keeps the invariant.
LEMMA TokenNext == TypeOK /\ TokenInv /\ [Next]_vars => TokenInv'
  <1> SUFFICES ASSUME TypeOK, TokenInv, [Next]_vars PROVE TokenInv'
    OBVIOUS
  <1>1. ASSUME NEW k \in Call, Serve(k) PROVE TokenInv'
    BY <1>1, ServeTokens
  <1>2. ASSUME UNCHANGED <<status, hash, fate, call, memory, stored>> PROVE TokenInv'
    <2>1. Held' \subseteq Held \cup {None}
      BY <1>2 DEF Held
    <2> QED
      BY <1>2, <2>1, QuietStep DEF Quiet
  <1>3. ASSUME NEW u \in User, Manage(u) PROVE TokenInv'
    <2>1. CASE LogoutAll(u)
      BY <2>1, DeleteStep DEF LogoutAll, browser
    <2>2. CASE Ban(u)
      BY <2>2, DeleteStep DEF Ban, browser
    <2>3. CASE Unban(u) \/ Suspend(u) \/ Unsuspend(u) \/ SuspensionElapses(u)
      BY <1>2, <2>3 DEF Unban, Suspend, Unsuspend, SuspensionElapses, table, browser
    <2> QED
      BY <1>3, <2>1, <2>2, <2>3 DEF Manage
  <1>4. ASSUME NEW t \in Tab, Reload(t) PROVE TokenInv'
    <2>1. Held' \subseteq Held \cup {None}
      BY <1>4 DEF TypeOK, Reload, Held
    <2> QED
      BY <1>4, <2>1, QuietStep DEF Reload, Quiet, table
  <1>5. ASSUME NEW t \in Tab, Logout(t) PROVE TokenInv'
    BY <1>5, SignOutHeld, QuietStep DEF Logout, Quiet, table
  <1>6. ASSUME NEW x \in Token, SignOutArrives(x) PROVE TokenInv'
    BY <1>6, DeleteStep DEF SignOutArrives
  <1>7. ASSUME NEW s \in Session, RevokeDevice(s) PROVE TokenInv'
    BY <1>7, DeleteStep DEF RevokeDevice, browser
  <1>8. ASSUME NEW s \in Session, SessionExpires(s) PROVE TokenInv'
    BY <1>2, <1>8 DEF SessionExpires, browser
  <1>9. CASE UNCHANGED vars
    BY <1>2, <1>9 DEF vars, table, browser
  <1> QED
    BY <1>1, <1>3, <1>4, <1>5, <1>6, <1>7, <1>8, <1>9 DEF Next

\* The invariant of the tokens holds in every behaviour.
THEOREM TokensInvariant == Spec => []TokenInv
  <1> QED
    BY InitType, NextType, TokenInit, TokenNext, PTL DEF Spec

\* scalar_one_or_none in refresh never meets two rows.
THEOREM TokenAlwaysNamesOneSession == Spec => []TokenNamesOneSession
  <1>1. TokenInv => TokenNamesOneSession
    BY DEF TokenInv
  <1> QED
    BY <1>1, TokensInvariant, PTL

\* A redeemed refresh token never becomes valid again.
THEOREM RedeemedAlwaysStaysDead == Spec => []RedeemedStaysDead
  <1>1. TokenInv => RedeemedStaysDead
    BY DEF TokenInv, RowsHoldIssued, RedeemedStaysDead
  <1> QED
    BY <1>1, TokensInvariant, PTL

\* The server never issues a dead token nor drops a good one.
THEOREM DeadTokenAlwaysHasCause == Spec => []DeadTokenHasCause
  <1>1. TokenInv => DeadTokenHasCause
    BY DEF TokenInv, HeldIsExplained, DeadTokenHasCause, Held
  <1> QED
    BY <1>1, TokensInvariant, PTL

-----------------------------------------------------------------------------
\* No step brings a deleted row back.
LEMMA RevokedStep ==
    TypeOK /\ [Next]_vars =>
        \A s \in Session : status[s] = "deleted" => status'[s] = "deleted"
  <1> SUFFICES ASSUME TypeOK, [Next]_vars,
                      NEW s \in Session, status[s] = "deleted"
               PROVE  status'[s] = "deleted"
    OBVIOUS
  <1>1. ASSUME NEW rows, Delete(rows) PROVE status'[s] = "deleted"
    BY <1>1 DEF Delete, Live
  <1>2. ASSUME NEW k \in Call, Serve(k) PROVE status'[s] = "deleted"
    <2>1. ASSUME NEW r \in Session, LoginCommit(k, r) PROVE status'[s] = "deleted"
      BY <2>1 DEF TypeOK, LoginCommit
    <2>2. ASSUME NEW u \in User, NEW x \in Token, LoginRead(k, u, x)
          PROVE  status'[s] = "deleted"
      BY <2>2 DEF LoginRead, table
    <2>3. ASSUME NEW x \in Token, RefreshRead(k, x) PROVE status'[s] = "deleted"
      BY <2>3 DEF RefreshRead, table
    <2> QED
      BY <1>2, <2>1, <2>2, <2>3
      DEF Serve, LoginDone, RequestDenied, RefreshInvalid, RefreshCommit, RefreshStale,
          RefreshDone, RefreshDenied, Retried, ConnectionFails, AnswerDropped, table
  <1>3. ASSUME NEW u \in User, Manage(u) PROVE status'[s] = "deleted"
    BY <1>1, <1>3 DEF Manage, LogoutAll, Ban, Unban, Suspend, Unsuspend,
                      SuspensionElapses, table
  <1> QED
    BY <1>1, <1>2, <1>3 DEF Next, Reload, Logout, SignOutArrives, RevokeDevice,
                            SessionExpires, vars, table

\* Whatever overlaps, a revoked session stays revoked.
THEOREM RevokedAlwaysStaysRevoked == Spec => RevokedStaysRevoked
  <1>1. TypeOK /\ [Next]_vars =>
            [\A s \in Session : status[s] = "deleted" => status'[s] = "deleted"]_vars
    BY RevokedStep
  <1> QED
    BY <1>1, TypeInvariant, PTL DEF Spec, RevokedStaysRevoked

-----------------------------------------------------------------------------
\* A ban leaves its user no live row; afterwards only a login that passed the
\* check before can add one, which the history records.
LEMMA BannedNext ==
    TypeOK /\ TokenInv /\ BannedSessionHasCause /\ [Next]_vars => BannedSessionHasCause'
  <1> SUFFICES ASSUME TypeOK, TokenInv, BannedSessionHasCause, [Next]_vars
               PROVE  BannedSessionHasCause'
    OBVIOUS
  <1>1. ASSUME Live' \subseteq Live, banned' \subseteq banned,
               owner' = owner, raced' = raced
        PROVE  BannedSessionHasCause'
    BY <1>1 DEF BannedSessionHasCause
  <1>2. ASSUME NEW rows, Delete(rows)
        PROVE  Live' = Live \ rows
    BY <1>2 DEF TypeOK, Delete, Live
  <1>3. status' = status => Live' = Live
    BY DEF Live
  <1>4. ASSUME NEW k \in Call, Serve(k) PROVE BannedSessionHasCause'
    <2>1. ASSUME NEW s \in Session, LoginCommit(k, s) PROVE BannedSessionHasCause'
      <3>1. Live' = Live \cup {s} /\ s \notin Live
        BY <2>1 DEF TypeOK, LoginCommit, Live
      <3>2. owner'[s] = call[k].user /\ \A r \in Session \ {s} : owner'[r] = owner[r]
        BY <2>1 DEF TypeOK, LoginCommit
      <3>3. /\ banned' = banned
            /\ raced' = IF call[k].user \in banned THEN raced \cup {s} ELSE raced
        BY <2>1 DEF LoginCommit
      <3> QED
        BY <3>1, <3>2, <3>3 DEF BannedSessionHasCause, Live
    <2>2. ASSUME NEW u \in User, NEW x \in Token, LoginRead(k, u, x)
          PROVE  BannedSessionHasCause'
      BY <1>1, <1>3, <2>2 DEF LoginRead, table, account
    <2>3. ASSUME NEW x \in Token, RefreshRead(k, x) PROVE BannedSessionHasCause'
      BY <1>1, <1>3, <2>3 DEF RefreshRead, table, account
    <2>4. CASE RefreshCommit(k)
      BY <1>1, <1>3, <2>4 DEF RefreshCommit, account
    <2> QED
      BY <1>1, <1>3, <1>4, <2>1, <2>2, <2>3, <2>4
      DEF Serve, LoginDone, RequestDenied, RefreshInvalid, RefreshStale,
          RefreshDone, RefreshDenied, Retried, ConnectionFails, AnswerDropped, table,
          account
  <1>5. ASSUME NEW u \in User, Manage(u) PROVE BannedSessionHasCause'
    <2>1. CASE LogoutAll(u)
      BY <1>1, <1>2, <2>1 DEF LogoutAll, account
    <2>2. CASE Ban(u)
      <3>1. Live' = Live \ {s \in Session : owner[s] = u}
        BY <1>2, <2>2 DEF Ban
      <3> QED
        BY <2>2, <3>1 DEF Ban, BannedSessionHasCause, Live
    <2>3. CASE Unban(u) \/ Suspend(u) \/ Unsuspend(u) \/ SuspensionElapses(u)
      BY <1>1, <1>3, <2>3 DEF Unban, Suspend, Unsuspend, SuspensionElapses, table
    <2> QED
      BY <1>5, <2>1, <2>2, <2>3 DEF Manage
  <1>6. ASSUME NEW x \in Token, SignOutArrives(x) PROVE BannedSessionHasCause'
    BY <1>1, <1>2, <1>6 DEF SignOutArrives, account
  <1>7. ASSUME NEW s \in Session, RevokeDevice(s) PROVE BannedSessionHasCause'
    BY <1>1, <1>2, <1>7 DEF RevokeDevice, account
  <1> QED
    BY <1>1, <1>3, <1>4, <1>5, <1>6, <1>7
    DEF Next, Reload, Logout, SessionExpires, vars, table, account

\* A live session of a banned user comes from a login that raced with the ban.
THEOREM BannedSessionAlwaysHasCause == Spec => []BannedSessionHasCause
  <1>1. Init => BannedSessionHasCause
    BY DEF Init, BannedSessionHasCause, Live
  <1> QED
    BY <1>1, BannedNext, TypeInvariant, TokensInvariant, PTL DEF Spec
=============================================================================
