----------------------------- MODULE Auth_proofs -----------------------------
(***************************************************************************)
(* What the two halves of auth.service.ts guarantee.  Sessions: for every  *)
(* number of requests, every set of roles and all token lives.             *)
(* Registration: for every number of calls, addresses and attempts, and    *)
(* whichever faults there are.  They share no state; each has its own      *)
(* specification and its own inductive invariant.                          *)
(***************************************************************************)
EXTENDS Sessions, Registration, TLAPS

\* A call that does nothing holds a well-typed placeholder.
LEMMA IdleType == IdleCall \in CallType
  BY ConstantsAssumption DEF IdleCall, AnyToken, CallType, CallPc, Token, Time

\* The initial state has the types of the variables.
LEMMA TypeInit == Init => TypeOK
  BY ConstantsAssumption, IdleType DEF Init, TypeOK, Time, Ways

\* A call that moves on, or ends, keeps its type.
LEMMA GotoType ==
  ASSUME NEW c \in Calls, NEW pc \in CallPc,
         call \in [Calls -> CallType], Goto(c, pc) \/ Finish(c)
  PROVE  call' \in [Calls -> CallType]
  BY IdleType DEF Goto, Finish, CallType

\* Starting to issue a pair for a profile keeps the types.
LEMMA StartType ==
  ASSUME TypeOK, NEW c \in Calls, NEW r \in Profiles, StartIssue(c, r),
         active' \in BOOLEAN, profile' \in Profiles, astray' \subseteq Ways
  PROVE  TypeOK'
<1> DEFINE t == [iat |-> 0, profile |-> r]
<1>1. t \in Token
  BY ConstantsAssumption DEF Token, Time
<1>2. [IdleCall EXCEPT !.pc = "issue", !.token = t] \in CallType
  BY <1>1, IdleType DEF CallType, CallPc
<1> QED
  BY <1>2 DEF StartIssue, TypeOK

\* No step of a request leaves the types.
LEMMA TypeCallStep ==
  ASSUME TypeOK, NEW c \in Calls, CallNext(c)
  PROVE  TypeOK'
<1> USE ConstantsAssumption, IdleType DEF TypeOK
<1>1. CASE Login(c)
  BY <1>1, StartType DEF Login
<1>2. ASSUME NEW r \in Profiles, Reinvite(c, r) PROVE TypeOK'
  BY <1>2, StartType DEF Reinvite
<1>3. CASE Issue(c)
  <2>1. Signed(call[c].token.profile) \in Token
    BY <1>3 DEF Signed, Token, CallType
  <2> QED
    BY <1>3, <2>1, GotoType DEF Issue, CallPc
<1>4. ASSUME NEW t \in Token, RefreshLook(c, t) PROVE TypeOK'
  <2>1. [IdleCall EXCEPT !.pc = "looked", !.token = t] \in CallType
    BY DEF CallType, CallPc
  <2> QED
    BY <1>4, <2>1 DEF RefreshLook
<1>5. CASE RefreshMatch(c)
  BY <1>5, GotoType DEF RefreshMatch, CallPc
<1>6. CASE RefreshDrop(c)
  BY <1>6, GotoType DEF RefreshDrop, CallPc
<1>7. ASSUME NEW t \in Token, Validate(c, t) PROVE TypeOK'
  <2>1. [pc |-> "unlisted", token |-> t, late |-> t \in loggedOut] \in CallType
    BY DEF CallType, CallPc
  <2> QED
    BY <1>7, <2>1 DEF Validate
<1>8. CASE Admit(c)
  BY <1>8, GotoType DEF Admit, CallPc
<1>9. CASE Serve(c)
  BY <1>9, GotoType DEF Serve, CallPc
<1>10. CASE ChangePassword(c)
  BY <1>10, GotoType DEF ChangePassword, CallPc
<1>11. CASE LogoutDrop(c)
  BY <1>11, GotoType DEF LogoutDrop, EndSession, CallPc
<1>12. CASE LogoutList(c)
  <2>1. call[c].token \in Token
    BY DEF CallType
  <2>2. ListedUntil(call[c].token) \in Int
    BY <2>1 DEF ListedUntil, Token, Time
  <2>3. blacklist' \in [Token -> Int]
    BY <1>12, <2>2 DEF LogoutList
  <2> QED
    BY <1>12, <2>1, <2>3, GotoType DEF LogoutList, CallPc
<1>13. CASE RemoveSave(c)
  BY <1>13, GotoType DEF RemoveSave, CallPc
<1>14. CASE RemoveDrop(c)
  BY <1>14, GotoType DEF RemoveDrop, EndSession, CallPc
<1>15. CASE Abandon(c)
  BY <1>15, GotoType DEF Abandon, CallPc
<1>16. ASSUME NEW p \in Profiles, IssueElsewhere(c, p) PROVE TypeOK'
  BY <1>16, StartType DEF IssueElsewhere
<1>17. CASE ConfirmCheck(c)
  <2>1. [iat |-> 0, profile |-> profile] \in Token
    BY DEF Token, Time
  <2>2. [IdleCall EXCEPT !.pc = "confirm",
                         !.token = [iat |-> 0, profile |-> profile]] \in CallType
    BY <2>1 DEF CallType, CallPc
  <2> QED
    BY <1>17, <2>2 DEF ConfirmCheck
<1>18. ASSUME NEW p \in Profiles, ConfirmSave(c, p) PROVE TypeOK'
  <2>1. PICK q \in Profiles : StartIssue(c, q)
    BY <1>18 DEF ConfirmSave
  <2>2. astray' \subseteq Ways /\ active' \in BOOLEAN /\ profile' \in Profiles
    BY <1>18 DEF ConfirmSave
  <2> QED
    BY <2>1, <2>2, StartType
<1> QED
  BY <1>1, <1>2, <1>3, <1>4, <1>5, <1>6, <1>7, <1>8, <1>9, <1>10, <1>11,
     <1>12, <1>13, <1>14, <1>15, <1>16, <1>17, <1>18 DEF CallNext

\* No step leaves the types.
LEMMA TypeStep == TypeOK /\ [Next]_vars => TypeOK'
<1> SUFFICES ASSUME TypeOK, [Next]_vars PROVE TypeOK'
  OBVIOUS
<1>1. ASSUME NEW r \in Profiles, SetProfile(r) PROVE TypeOK'
  BY <1>1 DEF SetProfile, TypeOK
<1>2. ASSUME NEW t \in Token, ListingExpires(t) PROVE TypeOK'
  BY <1>2 DEF ListingExpires, TypeOK
<1>3. CASE KeyExpires
  BY <1>3 DEF KeyExpires, TypeOK
<1>4. CASE Tick
  BY <1>4, ConstantsAssumption DEF Tick, TypeOK, Time
<1>5. CASE UNCHANGED vars
  BY <1>5 DEF vars, TypeOK
<1>6. ASSUME NEW w \in Ways, Forget(w) PROVE TypeOK'
  BY <1>6 DEF Forget, TypeOK
<1> QED
  BY <1>1, <1>2, <1>3, <1>4, <1>5, <1>6, TypeCallStep DEF Next

\* The types of Sessions hold in every reachable state.
THEOREM TypeCorrect == Spec => []TypeOK
  BY TypeInit, TypeStep, PTL DEF Spec

-----------------------------------------------------------------------------
(***************************************************************************)
(* The inductive invariant.  A session that ended cleanly has no key, and  *)
(* nobody can write one without a fresh proof: a refresh can only be let   *)
(* through against a key.                                                  *)
(***************************************************************************)
ClosedClean == ended = "clean" => key = None /\ Pending = {}

\* The entry of a logged-out token ends with the token.
ListedWhileValid ==
  \A t \in loggedOut : AccessValid(t) => blacklist[t] = t.iat + AccessLife

IInv == TypeOK /\ ClosedClean /\ ListedWhileValid /\ LoggedOutRefused

\* Nothing is logged out in the initial state.
LEMMA IInvInit == Init => IInv
  BY TypeInit DEF Init, IInv, ClosedClean, ListedWhileValid, LoggedOutRefused,
                  IdleCall

\* No step opens a session that ended cleanly, but a login.
LEMMA ClosedStep == TypeOK /\ ClosedClean /\ [Next]_vars => ClosedClean'
<1> SUFFICES ASSUME TypeOK, ClosedClean, [Next]_vars PROVE ClosedClean'
  OBVIOUS
<1> USE DEF ClosedClean, Pending, Goto, Finish, IdleCall, TypeOK
<1>1. ASSUME NEW c \in Calls, CallNext(c) PROVE ClosedClean'
  <2>1. CASE Login(c)
    BY <2>1 DEF Login, StartIssue
  <2>2. ASSUME NEW r \in Profiles, Reinvite(c, r) PROVE ClosedClean'
    BY <2>2 DEF Reinvite, StartIssue
  <2>3. CASE Issue(c)
    BY <2>3 DEF Issue
  <2>4. ASSUME NEW t \in Token, RefreshLook(c, t) PROVE ClosedClean'
    BY <2>4 DEF RefreshLook
  <2>5. CASE RefreshMatch(c)
    BY <2>5, ConstantsAssumption DEF RefreshMatch, KeyMatches, CallType
  <2>6. CASE RefreshDrop(c)
    BY <2>6 DEF RefreshDrop
  <2>7. ASSUME NEW t \in Token, Validate(c, t) PROVE ClosedClean'
    BY <2>7 DEF Validate
  <2>8. CASE Admit(c)
    BY <2>8 DEF Admit
  <2>9. CASE Serve(c)
    BY <2>9 DEF Serve
  <2>10. CASE ChangePassword(c)
    BY <2>10 DEF ChangePassword
  <2>11. CASE LogoutDrop(c)
    BY <2>11 DEF LogoutDrop, EndSession
  <2>12. CASE LogoutList(c)
    BY <2>12 DEF LogoutList
  <2>13. CASE RemoveSave(c)
    BY <2>13 DEF RemoveSave
  <2>14. CASE RemoveDrop(c)
    BY <2>14 DEF RemoveDrop, EndSession
  <2>15. CASE Abandon(c)
    BY <2>15 DEF Abandon
  <2>16. ASSUME NEW p \in Profiles, IssueElsewhere(c, p) \/ ConfirmSave(c, p)
         PROVE  ClosedClean'
    BY <2>16 DEF IssueElsewhere, ConfirmSave, StartIssue
  <2>17. CASE ConfirmCheck(c)
    BY <2>17 DEF ConfirmCheck
  <2> QED
    BY <1>1, <2>1, <2>2, <2>3, <2>4, <2>5, <2>6, <2>7, <2>8, <2>9, <2>10,
       <2>11, <2>12, <2>13, <2>14, <2>15, <2>16, <2>17 DEF CallNext
<1>2. ASSUME NEW r \in Profiles, SetProfile(r) PROVE ClosedClean'
  BY <1>2 DEF SetProfile
<1>3. ASSUME NEW t \in Token, ListingExpires(t) PROVE ClosedClean'
  BY <1>3 DEF ListingExpires
<1>4. CASE KeyExpires
  BY <1>4 DEF KeyExpires
<1>5. CASE Tick
  BY <1>5 DEF Tick
<1>6. CASE UNCHANGED vars
  BY <1>6 DEF vars
<1>7. ASSUME NEW w \in Ways, Forget(w) PROVE ClosedClean'
  BY <1>7 DEF Forget
<1> QED
  BY <1>1, <1>2, <1>3, <1>4, <1>5, <1>6, <1>7 DEF Next

\* A listing outlives the token it is about.
LEMMA ListedStep ==
  TypeOK /\ ListedWhileValid /\ [Next]_vars => ListedWhileValid'
<1> SUFFICES ASSUME TypeOK, ListedWhileValid, [Next]_vars
             PROVE  ListedWhileValid'
  OBVIOUS
<1> USE DEF ListedWhileValid, AccessValid, TypeOK
<1>1. ASSUME NEW c \in Calls, LogoutList(c) PROVE ListedWhileValid'
  <2>1. call[c].token \in Token
    BY DEF CallType
  <2>2. ASSUME NEW t \in loggedOut', AccessValid(t)'
        PROVE  blacklist'[t] = t.iat + AccessLife
    <3>1. t \in Token /\ AccessValid(t)
      BY <1>1, <2>1, <2>2 DEF LogoutList
    <3>2. CASE t = call[c].token
      BY <1>1, <3>1, <3>2 DEF LogoutList, ListedUntil
    <3>3. CASE t # call[c].token
      BY <1>1, <3>1, <3>3 DEF LogoutList
    <3> QED
      BY <3>2, <3>3
  <2> QED
    BY <2>2
<1>2. ASSUME NEW t \in Token, ListingExpires(t) PROVE ListedWhileValid'
  BY <1>2, ConstantsAssumption DEF ListingExpires, Token, Time
<1>3. CASE Tick
  <2>1. ASSUME NEW t \in loggedOut, AccessValid(t)' PROVE AccessValid(t)
    BY <1>3, <2>1, ConstantsAssumption DEF Tick, Token, Time
  <2> QED
    BY <1>3, <2>1 DEF Tick
<1>4. CASE UNCHANGED <<now, blacklist, loggedOut>>
  BY <1>4
<1>5. ASSUME NEW c \in Calls, CallNext(c), ~LogoutList(c)
      PROVE  UNCHANGED <<now, blacklist, loggedOut>>
  BY <1>5
  DEF CallNext, Login, IssueElsewhere, ConfirmCheck, ConfirmSave, Reinvite,
      StartIssue, Issue, RefreshLook, RefreshMatch,
      RefreshDrop, Validate, Admit, Serve, ChangePassword, LogoutDrop,
      RemoveSave, RemoveDrop, Abandon
<1>6. ASSUME NEW r \in Profiles, SetProfile(r)
      PROVE  UNCHANGED <<now, blacklist, loggedOut>>
  BY <1>6 DEF SetProfile
<1>7. CASE KeyExpires
  BY <1>7 DEF KeyExpires
<1>8. CASE UNCHANGED vars
  BY <1>8 DEF vars
<1>9. ASSUME NEW w \in Ways, Forget(w)
      PROVE  UNCHANGED <<now, blacklist, loggedOut>>
  BY <1>9 DEF Forget
<1> QED
  BY <1>1, <1>2, <1>3, <1>4, <1>5, <1>6, <1>7, <1>8, <1>9 DEF Next

\* Nobody gets past the blacklist with a token whose logout was answered.
LEMMA RefusedStep ==
  TypeOK /\ ListedWhileValid /\ LoggedOutRefused /\ [Next]_vars
    => LoggedOutRefused'
<1> SUFFICES ASSUME TypeOK, ListedWhileValid, LoggedOutRefused, [Next]_vars
             PROVE  LoggedOutRefused'
  OBVIOUS
<1> USE DEF LoggedOutRefused, TypeOK, Goto, Finish, IdleCall
<1>1. ASSUME NEW c \in Calls, NEW t \in Token, Validate(c, t)
      PROVE  LoggedOutRefused'
  <2>1. t \notin loggedOut
    BY <1>1, ConstantsAssumption DEF Validate, ListedWhileValid, Token, Time
  <2> QED
    BY <1>1, <2>1 DEF Validate
<1>2. ASSUME NEW c \in Calls, NEW pc \in CallPc, Goto(c, pc) \/ Finish(c)
      PROVE  LoggedOutRefused'
  BY <1>2 DEF CallType
<1>3. ASSUME NEW c \in Calls, NEW r \in Profiles, StartIssue(c, r)
      PROVE  LoggedOutRefused'
  <2>1. ~[IdleCall EXCEPT !.pc = "issue", !.token = [iat |-> 0, profile |-> r]].late
    OBVIOUS
  <2> QED
    BY <1>3, <2>1 DEF StartIssue
<1>4. ASSUME NEW c \in Calls, NEW t \in Token, RefreshLook(c, t)
      PROVE  LoggedOutRefused'
  BY <1>4 DEF RefreshLook
<1>5. ASSUME NEW c \in Calls, CallNext(c) PROVE LoggedOutRefused'
  <2>1. CASE \E pc \in CallPc : Goto(c, pc) \/ Finish(c)
    BY <1>2, <2>1
  <2>2. CASE \E r \in Profiles : StartIssue(c, r)
    BY <1>3, <2>2
  <2>5. CASE ConfirmCheck(c)
    <3>1. ~[IdleCall EXCEPT !.pc = "confirm",
                            !.token = [iat |-> 0, profile |-> profile]].late
      OBVIOUS
    <3> QED
      BY <2>5, <3>1 DEF ConfirmCheck
  <2>3. CASE \E t \in Token : Validate(c, t) \/ RefreshLook(c, t)
    BY <1>1, <1>4, <2>3
  <2> HIDE DEF TypeOK, Goto, Finish, IdleCall, LoggedOutRefused
  <2>4. profile \in Profiles
    BY DEF TypeOK
  <2> QED
    BY <1>5, <2>1, <2>2, <2>3, <2>4, <2>5
    DEF CallNext, Login, IssueElsewhere, ConfirmSave, Reinvite, Issue, RefreshMatch, RefreshDrop, Admit,
        Serve, ChangePassword, LogoutDrop, LogoutList, RemoveSave, RemoveDrop,
        Abandon, CallPc
<1>6. ASSUME UNCHANGED call PROVE LoggedOutRefused'
  BY <1>6
<1>7. CASE KeyExpires \/ Tick \/ (\E r \in Profiles : SetProfile(r))
           \/ (\E t \in Token : ListingExpires(t))
           \/ (\E w \in Ways : Forget(w)) \/ UNCHANGED vars
  BY <1>6, <1>7 DEF KeyExpires, Tick, Forget, SetProfile, ListingExpires, vars
<1> QED
  BY <1>5, <1>7 DEF Next

\* IInv is preserved by every step.
LEMMA IInvStep == IInv /\ [Next]_vars => IInv'
  BY TypeStep, ClosedStep, ListedStep, RefusedStep DEF IInv

\* A session that logout or remove ended cleanly cannot be refreshed back into
\* being (auth.service.ts, refresh and logout; user.service.ts, remove).
THEOREM ClosedCorrect == Spec => []ClosedSessionStays
<1>1. IInv => ClosedSessionStays
  BY DEF IInv, ClosedClean, ClosedSessionStays
<1> QED
  BY IInvInit, IInvStep, <1>1, PTL DEF Spec

\* A logged-out access token stays refused (auth.service.ts, logout;
\* jwt.strategy.ts, validate), whatever the lives of the tokens.
THEOREM LoggedOutCorrect == Spec => []LoggedOutRefused
<1>1. IInv => LoggedOutRefused
  BY DEF IInv
<1> QED
  BY IInvInit, IInvStep, <1>1, PTL DEF Spec

-----------------------------------------------------------------------------
(***************************************************************************)
(* A removed account.  Requests that were let through before the removal   *)
(* may still write a session key: refreshes past the look at the account,  *)
(* a changePassword past the guard, a confirmEmailChange past its check,   *)
(* tokens being issued.  Nothing adds to them while the account is removed *)
(* and no address of it has changed hands (astray), and each write takes   *)
(* one away, so the keys written after a removal are finitely many, and    *)
(* the expiry of the last one ends the session (RemovalEndsSessions, under *)
(* fairness, which also ends the reset entries astray).                    *)
(***************************************************************************)
MayWrite ==
  {c \in Calls : call[c].pc \in {"looked", "matched", "issue", "reissue",
                                 "confirm", "authed"}}

Drains ==
  ~active /\ ~active' /\ astray = {} =>
    /\ MayWrite' \subseteq MayWrite
    /\ key' \notin {key, None} => MayWrite' # MayWrite

\* A request that goes on, or ends, leaves the others where they are.
LEMMA GotoFacts ==
  ASSUME TypeOK, NEW c \in Calls, NEW pc \in CallPc, Goto(c, pc) \/ Finish(c)
  PROVE  /\ \A d \in Calls \ {c} : call'[d] = call[d]
         /\ Goto(c, pc) => call'[c].pc = pc
         /\ Finish(c) => call'[c].pc = "idle"
  BY DEF Goto, Finish, TypeOK, CallType, IdleCall

\* No request gets past the check of a removed account; one that writes a key
\* is done.
LEMMA DrainsCall ==
  ASSUME TypeOK, NEW c \in Calls, CallNext(c)
  PROVE  Drains
<1> SUFFICES ASSUME ~active, ~active', astray = {}
             PROVE  /\ MayWrite' \subseteq MayWrite
                    /\ key' \notin {key, None} => MayWrite' # MayWrite
  BY DEF Drains
<1>1. ASSUME \A d \in Calls \ {c} : call'[d] = call[d],
             c \in MayWrite' => c \in MayWrite
      PROVE  MayWrite' \subseteq MayWrite
  BY <1>1 DEF MayWrite
<1>2. ASSUME NEW pc \in CallPc, Goto(c, pc) \/ Finish(c),
             Goto(c, pc) /\ pc \in {"looked", "matched", "issue", "reissue",
                                    "confirm", "authed"} => c \in MayWrite
      PROVE  MayWrite' \subseteq MayWrite
  BY <1>1, <1>2, GotoFacts DEF MayWrite
<1>3. CASE Issue(c)
  <2>1. c \in MayWrite /\ Finish(c)
    BY <1>3 DEF Issue, MayWrite
  <2>2. "idle" \in CallPc
    BY DEF CallPc
  <2>3. MayWrite' \subseteq MayWrite
    BY <1>2, <2>1, <2>2
  <2>4. c \notin MayWrite'
    BY <2>1, <2>2, GotoFacts DEF MayWrite
  <2> QED
    BY <2>1, <2>3, <2>4
<1>4. ASSUME NEW r \in Profiles, Reinvite(c, r) PROVE FALSE
  BY <1>4 DEF Reinvite
<1>5. ~Login(c) /\ ~ConfirmCheck(c) /\ ~Admit(c) /\ ~RemoveSave(c)
      /\ (\A t \in Token : ~RefreshLook(c, t))
      /\ (\A p \in Profiles : ~IssueElsewhere(c, p))
  BY DEF Login, ConfirmCheck, IssueElsewhere, Admit, RemoveSave, RefreshLook, MayRefresh
<1>6. CASE RefreshMatch(c) \/ RefreshDrop(c) \/ ChangePassword(c)
  <2>1. c \in MayWrite /\ key' \in {key, None}
    BY <1>6 DEF RefreshMatch, RefreshDrop, ChangePassword, MayWrite
  <2>2. \E pc \in CallPc : Goto(c, pc)
    BY <1>6 DEF RefreshMatch, RefreshDrop, ChangePassword, CallPc
  <2> QED
    BY <1>2, <2>1, <2>2
<1>7. ASSUME NEW t \in Token, Validate(c, t)
      PROVE  MayWrite' \subseteq MayWrite /\ key' = key
  <2>1. call'[c].pc = "unlisted" /\ \A d \in Calls \ {c} : call'[d] = call[d]
    BY <1>7 DEF Validate, TypeOK
  <2> QED
    BY <1>1, <1>7, <2>1 DEF MayWrite, Validate
<1>8. CASE Serve(c) \/ LogoutList(c) \/ RemoveDrop(c) \/ Abandon(c)
  <2>1. Finish(c) /\ key' \in {key, None} /\ "idle" \in CallPc
    BY <1>8 DEF Serve, LogoutList, RemoveDrop, Abandon, EndSession, CallPc
  <2>2. call'[c].pc = "idle" /\ \A d \in Calls \ {c} : call'[d] = call[d]
    BY <2>1, GotoFacts
  <2> QED
    BY <1>1, <2>1, <2>2 DEF MayWrite
<1>9. CASE LogoutDrop(c)
  <2>1. Goto(c, "dropped") /\ key' = None /\ "dropped" \in CallPc
    BY <1>9 DEF LogoutDrop, EndSession, CallPc
  <2> QED
    BY <1>2, <2>1
<1>10. ASSUME NEW p \in Profiles, ConfirmSave(c, p)
       PROVE  MayWrite' \subseteq MayWrite /\ key' = key
  <2>1. PICK q \in Profiles : StartIssue(c, q)
    BY <1>10 DEF ConfirmSave
  <2>2. c \in MayWrite
    BY <1>10 DEF ConfirmSave, MayWrite
  <2>3. key' = key /\ \A d \in Calls \ {c} : call'[d] = call[d]
    BY <2>1 DEF StartIssue, TypeOK
  <2> QED
    BY <1>1, <2>2, <2>3
<1> QED
  BY <1>3, <1>4, <1>5, <1>6, <1>7, <1>8, <1>9, <1>10 DEF CallNext

\* While an account is removed the requests that may still write its session
\* key (auth.service.ts, refresh and changePassword; user.service.ts,
\* confirmEmailChange) only become fewer, unless another user holds an address
\* that a reset entry of the account or the claim of a token names, and every
\* key that is written uses one of them up.
THEOREM RemovedDrains == Spec => [][Drains]_vars
<1>1. TypeOK /\ [Next]_vars => [Drains]_vars
  <2> SUFFICES ASSUME TypeOK, Next PROVE Drains
    OBVIOUS
  <2>1. ASSUME NEW c \in Calls, CallNext(c) PROVE Drains
    BY <2>1, DrainsCall
  <2>2. ASSUME UNCHANGED call, key' \in {key, None} PROVE Drains
    BY <2>2 DEF Drains, MayWrite
  <2>3. CASE KeyExpires \/ Tick \/ (\E r \in Profiles : SetProfile(r))
             \/ (\E t \in Token : ListingExpires(t))
             \/ (\E w \in Ways : Forget(w))
    BY <2>2, <2>3 DEF KeyExpires, Tick, Forget, SetProfile, ListingExpires
  <2> QED
    BY <2>1, <2>3 DEF Next
<1> QED
  BY <1>1, TypeCorrect, PTL DEF Spec

-----------------------------------------------------------------------------
(***************************************************************************)
(* Registration.  The inductive invariant: the address of an open          *)
(* transaction has no holder and no second transaction, whatever the       *)
(* look-up before it saw; a call's pc tells which of its writes are done;  *)
(* a job in hand has been sent once per attempt and per stall at most.     *)
(***************************************************************************)
Uncommitted == {"idle", "received", "planned", "known", "begun", "organized",
                "owned", "stored"}

Reserved ==
  \A r \in Requests : register[r].pc \in {"owned", "stored"} =>
    /\ \A a \in Accounts : address[a] # register[r].email
    /\ \A s \in Requests : register[s].pc \in {"owned", "stored"} /\ s # r
                             => register[s].email # register[r].email

Ordered ==
  \A r \in Requests :
    /\ register[r].pc \in Running => register[r].email \in Addresses
    /\ register[r].pc \in Uncommitted => r \notin organizations
    /\ register[r].pc = "stored" => r \in tokens
    /\ register[r].pc \in {"committed", "announced"} => r \in organizations
    /\ r \in isActive => r \in organizations

Mailed ==
  \A r \in Requests :
    /\ register[r].pc \in Uncommitted \cup {"committed"} => mail[r] = NoMail
    /\ mail[r].template = "welcome" => r \in organizations
    /\ mail[r].state = "none" => sent[r] = 0

OncePerAttempt ==
  \A r \in Requests : mail[r].state \in {"waiting"} \cup InHand =>
    /\ mail[r].made < Attempts /\ mail[r].stalled <= MaxStalled
    /\ sent[r] <= mail[r].made + mail[r].stalled
                  + (IF mail[r].state \in {"sent", "threw"} THEN 1 ELSE 0)

RegistrationInv ==
  RegistrationTypeOK /\ Reserved /\ Ordered /\ Mailed /\ OncePerAttempt

\* A job that has not been added, or whose attempts are forgotten.
LEMMA NoMailType ==
  /\ NoMail \in MailType
  /\ \A state \in {"waiting", "completed"}, t \in Templates :
       [NoMail EXCEPT !.state = state, !.template = t] \in MailType
<1>1. 0 \in 0..Attempts /\ 0 \in 0..MaxStalled + 1
  BY RegistrationAssumption
<1> QED
  BY <1>1 DEF NoMail, MailType, Templates

\* Nothing is registered in the initial state.
LEMMA RegistrationInvInit == RegistrationInit => RegistrationInv
<1> SUFFICES ASSUME RegistrationInit PROVE RegistrationInv
  OBVIOUS
<1> USE RegistrationAssumption DEF RegistrationInit
<1>1. RegistrationTypeOK
  <2>1. NoMail \in MailType
    BY NoMailType
  <2>2. [pc |-> "idle", email |-> NoAddress] \in RegisterType
    BY DEF RegisterType
  <2>3. 0 \in 0..Attempts + MaxStalled
    OBVIOUS
  <2> QED
    BY <2>1, <2>2, <2>3 DEF RegistrationTypeOK
<1>2. Reserved /\ Ordered /\ Mailed
  BY DEF Reserved, Ordered, Mailed, Running, NoMail
<1>3. OncePerAttempt
  BY DEF OncePerAttempt, NoMail, InHand
<1> QED
  BY <1>1, <1>2, <1>3 DEF RegistrationInv

\* A call that goes on keeps its address, one that ends drops it.
LEMMA ProceedFacts ==
  ASSUME register \in [Requests -> RegisterType], NEW r \in Requests,
         NEW pc \in Running \cup Ended, Proceed(r, pc)
  PROVE  /\ register' \in [Requests -> RegisterType]
         /\ register'[r].pc = pc
         /\ pc \in Running => register'[r].email = register[r].email
         /\ \A s \in Requests \ {r} : register'[s] = register[s]
<1> DEFINE new == [pc |-> pc, email |-> IF pc \in Ended THEN NoAddress
                                        ELSE register[r].email]
<1>1. register' = [register EXCEPT ![r] = new]
  BY DEF Proceed
<1>2. new \in RegisterType
  BY DEF RegisterType
<1>3. pc \in Running => pc \notin Ended
  BY DEF Running, Ended
<1>4. register'[r] = new /\ \A s \in Requests \ {r} : register'[s] = register[s]
  BY <1>1
<1> QED
  BY <1>1, <1>2, <1>3, <1>4

\* What a call does by itself, its failures included.
Steps(r) ==
  CallStep(r) \/ QueryFails(r) \/ CommitUnanswered(r) \/ StoreTokenFails(r)
    \/ EnqueueFails(r) \/ Die(r)

\* Each of these steps moves the call.
LEMMA StepProceeds ==
  ASSUME NEW r \in Requests, Steps(r)
  PROVE  \E pc \in Running \cup Ended : Proceed(r, pc)
<1> USE DEF Running, Ended
<1>1. CASE CallStep(r)
  BY <1>1 DEF CallStep, FindPlan, Look, Tell, SaveOrganization, SaveUser,
     StoreToken, Commit, EnqueueWelcome, EnqueueSubscription
<1>2. CASE ~CallStep(r)
  BY <1>2 DEF Steps, QueryFails, CommitUnanswered, StoreTokenFails,
     EnqueueFails, Die
<1> QED
  BY <1>1, <1>2

\* The mails and the subscription job: only the two enqueues of a call touch
\* them, and only once.
LEMMA StepEnqueues ==
  ASSUME NEW r \in Requests, Steps(r)
  PROVE  \/ UNCHANGED <<mail, sent>>
         \/ /\ At(r, "known") /\ Proceed(r, "answered")
            /\ Enqueue(r, "accountExists") /\ UNCHANGED sent
         \/ /\ At(r, "committed") /\ Proceed(r, "announced")
            /\ Enqueue(r, "welcome") /\ UNCHANGED sent
<1>1. CASE CallStep(r)
  BY <1>1 DEF CallStep, FindPlan, Look, Tell, SaveOrganization, SaveUser,
     StoreToken, Commit, EnqueueWelcome, EnqueueSubscription, jobs, At,
     AnnouncedAt
<1>2. CASE ~CallStep(r)
  BY <1>2 DEF Steps, QueryFails, CommitUnanswered, StoreTokenFails,
     EnqueueFails, Die, jobs
<1> QED
  BY <1>1, <1>2

\* The rows: a call writes them once, from stored.
LEMMA StepPublishes ==
  ASSUME NEW r \in Requests, Steps(r)
  PROVE  \/ UNCHANGED accounts
         \/ /\ At(r, "stored") /\ Publish(r)
            /\ Proceed(r, "committed") \/ Proceed(r, "failed")
            /\ UNCHANGED <<tokens, jobs>>
<1>1. CASE CallStep(r)
  BY <1>1 DEF CallStep, FindPlan, Look, Tell, SaveOrganization, SaveUser,
     StoreToken, Commit, EnqueueWelcome, EnqueueSubscription
<1>2. CASE ~CallStep(r)
  BY <1>2 DEF Steps, QueryFails, CommitUnanswered, StoreTokenFails,
     EnqueueFails, Die
<1> QED
  BY <1>1, <1>2

\* What is written outside the transaction: the entry in Redis, and the
\* subscription job after the mail's.
LEMMA StepWrites ==
  ASSUME NEW r \in Requests, Steps(r)
  PROVE  /\ UNCHANGED seeded
         /\ \/ UNCHANGED tokens
            \/ tokens' = tokens \cup {r} /\ UNCHANGED <<accounts, jobs>>
         /\ \/ UNCHANGED subscription
            \/ /\ At(r, "announced") /\ subscription' = subscription \cup {r}
               /\ UNCHANGED <<accounts, tokens, mail, sent>>
<1>1. CASE CallStep(r)
  <2>1. CASE StoreToken(r)
    BY <2>1 DEF StoreToken, jobs
  <2>2. CASE EnqueueSubscription(r)
    BY <2>2 DEF EnqueueSubscription
  <2>3. CASE ~StoreToken(r) /\ ~EnqueueSubscription(r)
    BY <1>1, <2>3 DEF CallStep, FindPlan, Look, Tell, SaveOrganization,
       SaveUser, Commit, EnqueueWelcome, jobs
  <2> QED
    BY <2>1, <2>2, <2>3
<1>2. CASE ~CallStep(r)
  <2>1. CASE StoreTokenFails(r)
    BY <2>1 DEF StoreTokenFails, jobs
  <2>2. CASE ~StoreTokenFails(r)
    BY <1>2, <2>2 DEF Steps, QueryFails, CommitUnanswered, EnqueueFails, Die,
       jobs
  <2> QED
    BY <2>1, <2>2
<1> QED
  BY <1>1, <1>2

\* A call leads to these states only from the ones before them.
LEMMA StepOrder ==
  ASSUME register \in [Requests -> RegisterType], NEW r \in Requests, Steps(r)
  PROVE  /\ register'[r].pc \in Running \cup Ended
         /\ register[r].pc \in Running
         /\ register'[r].pc = "owned" => At(r, "organized") /\ MayInsert(r)
              /\ OpenWith(register[r].email) = {}
         /\ register'[r].pc = "stored" => At(r, "owned") /\ r \in tokens'
         /\ register'[r].pc = "committed" => At(r, "stored") /\ Publish(r)
         /\ register'[r].pc = "announced" => At(r, "committed")
         /\ register'[r].pc \in Uncommitted => register[r].pc \in Uncommitted
<1> USE ProceedFacts DEF Running, Ended, Uncommitted, At
<1>1. CASE FindPlan(r)
  BY <1>1 DEF FindPlan
<1>2. CASE Look(r)
  BY <1>2 DEF Look
<1>3. CASE Tell(r)
  BY <1>3 DEF Tell
<1>4. CASE SaveOrganization(r)
  BY <1>4 DEF SaveOrganization
<1>5. CASE SaveUser(r)
  BY <1>5 DEF SaveUser
<1>6. CASE StoreToken(r)
  BY <1>6 DEF StoreToken
<1>7. CASE Commit(r)
  BY <1>7 DEF Commit
<1>8. CASE EnqueueWelcome(r)
  BY <1>8 DEF EnqueueWelcome, AnnouncedAt
<1>9. CASE EnqueueSubscription(r)
  BY <1>9 DEF EnqueueSubscription
<1>10. CASE QueryFails(r)
  BY <1>10 DEF QueryFails
<1>11. CASE CommitUnanswered(r)
  BY <1>11 DEF CommitUnanswered
<1>12. CASE StoreTokenFails(r)
  BY <1>12 DEF StoreTokenFails
<1>13. CASE EnqueueFails(r)
  BY <1>13 DEF EnqueueFails
<1>14. CASE Die(r)
  BY <1>14 DEF Die
<1> QED
  BY <1>1, <1>2, <1>3, <1>4, <1>5, <1>6, <1>7, <1>8, <1>9, <1>10, <1>11,
     <1>12, <1>13, <1>14 DEF Steps, CallStep

\* What the queue and the worker do.
Works(r) == MailStep(r) \/ Stall(r)

\* It leaves the rows and the calls alone.
LEMMA WorkFrame ==
  ASSUME NEW r \in Requests, Works(r)
  PROVE  UNCHANGED system
  BY DEF Works, MailStep, Take, Send, SendFails, Complete, Retry, Stall

\* The steps of registration, by who takes them.
LEMMA RegistrationSteps ==
  ASSUME [RegistrationNext]_registrationVars
  PROVE  \/ \E r \in Requests, e \in Addresses : Receive(r, e)
         \/ \E r \in Requests : Steps(r)
         \/ \E r \in Requests : Works(r)
         \/ \E a \in Accounts, e \in Addresses : TakeAddress(a, e)
         \/ \E a \in Accounts : ToggleMember(a)
         \/ Seed
         \/ UNCHANGED registrationVars
  BY DEF RegistrationNext, Steps, Works

\* The copies of a mail: no more than attempts and stalls.
LEMMA WorkTypes ==
  ASSUME RegistrationTypeOK, OncePerAttempt, NEW r \in Requests, Works(r),
         mail[r].state = "none" => sent[r] = 0
  PROVE  /\ mail' \in [Requests -> MailType]
         /\ sent' \in [Requests -> 0..Attempts + MaxStalled]
         /\ OncePerAttempt'
         /\ \A s \in Requests \ {r} : mail'[s] = mail[s] /\ sent'[s] = sent[s]
         /\ mail[r].state # "none" /\ mail'[r].state # "none"
         /\ mail'[r].template = mail[r].template
<1> DEFINE m == mail[r]
           n == sent[r]
           extra(s) == IF s \in {"sent", "threw"} THEN 1 ELSE 0
           fine(j, k) == j.state \in {"waiting"} \cup InHand =>
                           /\ j.made < Attempts /\ j.stalled <= MaxStalled
                           /\ k <= j.made + j.stalled + extra(j.state)
<1> USE RegistrationAssumption DEF RegistrationTypeOK, MailType, InHand
<1>1. m \in MailType /\ n \in 0..Attempts + MaxStalled /\ fine(m, n)
  BY DEF OncePerAttempt
<1>2. ASSUME NEW j \in MailType, NEW k \in 0..Attempts + MaxStalled,
             mail' = [mail EXCEPT ![r] = j], sent' = [sent EXCEPT ![r] = k],
             fine(j, k), m.state # "none", j.state # "none",
             j.template = m.template
      PROVE  /\ mail' \in [Requests -> MailType]
             /\ sent' \in [Requests -> 0..Attempts + MaxStalled]
             /\ OncePerAttempt'
             /\ \A s \in Requests \ {r} :
                  mail'[s] = mail[s] /\ sent'[s] = sent[s]
             /\ mail[r].state # "none" /\ mail'[r].state # "none"
             /\ mail'[r].template = mail[r].template
  BY <1>2 DEF OncePerAttempt
<1> HIDE DEF RegistrationTypeOK
<1>t. /\ mail \in [Requests -> MailType]
      /\ sent \in [Requests -> 0..Attempts + MaxStalled]
  BY DEF RegistrationTypeOK
<1>s. sent = [sent EXCEPT ![r] = n]
  BY <1>t
<1>3. CASE Take(r)
  <2> DEFINE j == [m EXCEPT !.state = "active"]
  <2>1. mail' = [mail EXCEPT ![r] = j]
    BY <1>3, <1>t DEF Take, Becomes
  <2>2. j \in MailType /\ fine(j, n) /\ j.template = m.template
        /\ m.state # "none" /\ j.state # "none"
    BY <1>1, <1>3 DEF Take
  <2> QED
    BY <1>1, <1>2, <1>3, <1>s, <2>1, <2>2 DEF Take
<1>4. CASE Send(r)
  <2> DEFINE j == [m EXCEPT !.state = "sent"]
  <2>1. mail' = [mail EXCEPT ![r] = j] /\ sent' = [sent EXCEPT ![r] = n + 1]
    BY <1>4, <1>t DEF Send, Becomes, Taken
  <2>2. j \in MailType /\ fine(j, n + 1) /\ j.template = m.template
        /\ m.state # "none" /\ j.state # "none"
    BY <1>1, <1>4 DEF Send
  <2>3. n + 1 \in 0..Attempts + MaxStalled
    BY <1>1, <1>4 DEF Send
  <2> QED
    BY <1>2, <2>1, <2>2, <2>3
<1>5. CASE SendFails(r)
  <2> DEFINE j == [m EXCEPT !.state = "threw"]
  <2>1. PICK k \in {n, n + 1} : mail' = [mail EXCEPT ![r] = j]
                                /\ sent' = [sent EXCEPT ![r] = k]
    BY <1>5, <1>t, <1>s DEF SendFails, Becomes, Taken
  <2>2. j \in MailType /\ fine(j, k) /\ j.template = m.template
        /\ m.state # "none" /\ j.state # "none"
    BY <1>1, <1>5 DEF SendFails
  <2>3. k \in 0..Attempts + MaxStalled
    BY <1>1, <1>5 DEF SendFails
  <2> QED
    BY <1>2, <2>1, <2>2, <2>3
<1>6. CASE Complete(r)
  <2> DEFINE j == [NoMail EXCEPT !.state = "completed", !.template = m.template]
  <2>1. mail' = [mail EXCEPT ![r] = j]
    BY <1>6 DEF Complete
  <2>2. j \in MailType
    BY <1>1, NoMailType
  <2>3. j.state = "completed" /\ j.template = m.template
    BY DEF NoMail
  <2>4. fine(j, n) /\ m.state # "none"
    BY <1>6, <2>3 DEF Complete
  <2> QED
    BY <1>1, <1>2, <1>6, <1>s, <2>1, <2>2, <2>3, <2>4 DEF Complete
<1>7. CASE Retry(r)
  <2> DEFINE j == [m EXCEPT !.made = @ + 1, !.state = AfterThrow(r)]
  <2>1. mail' = [mail EXCEPT ![r] = j]
    BY <1>7, <1>t DEF Retry
  <2>2. j \in MailType /\ fine(j, n) /\ j.template = m.template
        /\ m.state # "none" /\ j.state # "none"
    <3>1. /\ m.state = "threw"
          /\ m.made \in 0..Attempts /\ m.stalled \in 0..MaxStalled
          /\ m.made < Attempts /\ n <= m.made + m.stalled + 1
      BY <1>1, <1>7 DEF Retry
    <3>2. /\ j.state = AfterThrow(r) /\ j.made = m.made + 1
          /\ j.template = m.template /\ j.stalled = m.stalled
      BY <1>1
    <3>3. \/ AfterThrow(r) = "failed"
          \/ AfterThrow(r) = "waiting" /\ m.made + 1 < Attempts
      BY <3>1 DEF AfterThrow, Exhausted
    <3>4. j.template = m.template /\ j.state # "none"
      BY <3>2, <3>3
    <3>6. AfterThrow(r) \in {"waiting", "failed"} /\ m.made + 1 \in 0..Attempts
      BY <3>1, <3>3
    <3>7. j \in MailType
      BY <1>1, <3>6
    <3>5. fine(j, n)
      BY <1>1, <3>1, <3>2, <3>3
    <3> QED
      BY <3>1, <3>4, <3>5, <3>7
  <2> QED
    BY <1>1, <1>2, <1>7, <1>s, <2>1, <2>2 DEF Retry
<1>8. CASE Stall(r)
  <2> DEFINE j == [m EXCEPT !.stalled = @ + 1,
                     !.state = IF m.stalled < MaxStalled
                               THEN "waiting" ELSE "failed"]
  <2>1. mail' = [mail EXCEPT ![r] = j]
    BY <1>8, <1>t DEF Stall
  <2>2. j \in MailType /\ fine(j, n) /\ j.template = m.template
        /\ m.state # "none" /\ j.state # "none"
    <3>1. /\ m.state \in InHand
          /\ m.made \in 0..Attempts /\ m.stalled \in 0..MaxStalled
          /\ m.made < Attempts /\ n <= m.made + m.stalled + 1
      BY <1>1, <1>8 DEF Stall
    <3>2. /\ j.state = IF m.stalled < MaxStalled THEN "waiting" ELSE "failed"
          /\ j.made = m.made /\ j.stalled = m.stalled + 1
          /\ j.template = m.template
      BY <1>1
    <3>3. j.template = m.template /\ j.state # "none"
      BY <3>2
    <3>5. m.stalled + 1 \in 0..MaxStalled + 1
      BY <3>1
    <3>6. j \in MailType
      BY <1>1, <3>5
    <3>4. fine(j, n)
      BY <1>1, <3>1, <3>2
    <3> QED
      BY <3>1, <3>3, <3>4, <3>6
  <2> QED
    BY <1>1, <1>2, <1>8, <1>s, <2>1, <2>2 DEF Stall
<1> QED
  BY <1>3, <1>4, <1>5, <1>6, <1>7, <1>8 DEF Works, MailStep

\* A step of a call keeps the types.
LEMMA CallTypes ==
  ASSUME RegistrationTypeOK, NEW r \in Requests, Steps(r)
  PROVE  RegistrationTypeOK'
<1> USE DEF RegistrationTypeOK
<1>1. register' \in [Requests -> RegisterType]
  BY StepProceeds, ProceedFacts
<1>2. /\ mail' \in [Requests -> MailType]
      /\ sent' \in [Requests -> 0..Attempts + MaxStalled]
  BY StepEnqueues, NoMailType DEF Enqueue, Templates
<1>3. /\ organizations' \subseteq Requests /\ isActive' \subseteq Accounts
      /\ address' \in [Accounts -> Addresses \cup {NoAddress}]
  <2>1. CASE UNCHANGED accounts
    BY <2>1 DEF accounts
  <2>2. CASE Publish(r)
    BY <2>2 DEF Publish, RegisterType, Accounts
  <2> QED
    BY <2>1, <2>2, StepPublishes
<1>4. /\ seeded' \in BOOLEAN /\ tokens' \subseteq Requests
      /\ subscription' \subseteq Requests
  BY StepWrites
<1> QED
  BY <1>1, <1>2, <1>3, <1>4

\* A step of a call keeps its address to itself.
LEMMA CallReserved ==
  ASSUME RegistrationInv, NEW r \in Requests, Steps(r)
  PROVE  Reserved'
<1> DEFINE open(c) == c.pc \in {"owned", "stored"}
<1>t. register \in [Requests -> RegisterType]
  BY DEF RegistrationInv, RegistrationTypeOK
<1>1. /\ \A s \in Requests \ {r} : register'[s] = register[s]
      /\ open(register'[r]) => register'[r].email = register[r].email
  BY <1>t, StepProceeds, ProceedFacts DEF Running
<1>2. /\ register'[r].pc = "owned" => At(r, "organized") /\ MayInsert(r)
           /\ OpenWith(register[r].email) = {}
      /\ register'[r].pc = "stored" => At(r, "owned")
  BY <1>t, StepOrder
<1>3. CASE Publish(r) /\ At(r, "stored")
  <2>1. ~open(register'[r])
    BY <1>2, <1>3 DEF At
  <2>2. ASSUME NEW s \in Requests \ {r}, open(register[s])
        PROVE  \A a \in Accounts : address'[a] # register[s].email
    <3>1. \A a \in Accounts : address[a] # register[s].email
      BY <2>2 DEF RegistrationInv, Reserved
    <3>2. register[r].email # register[s].email
      BY <2>2, <1>3 DEF RegistrationInv, Reserved, At
    <3> QED
      BY <3>1, <3>2, <1>3 DEF Publish, RegistrationInv, RegistrationTypeOK
  <2> QED
    BY <1>1, <2>1, <2>2 DEF RegistrationInv, Reserved
<1>4. CASE UNCHANGED accounts
  <2>1. CASE open(register'[r])
    <3>1. \A a \in Accounts : address[a] # register[r].email
      BY <1>2, <2>1 DEF MayInsert, HoldersOf, RegistrationInv, Reserved, At
    <3>2. \A s \in Requests \ {r} :
            open(register[s]) => register[s].email # register[r].email
      BY <1>2, <2>1 DEF OpenWith, RegistrationInv, Reserved, At
    <3> QED
      BY <1>1, <1>4, <3>1, <3>2 DEF RegistrationInv, Reserved, accounts
  <2>2. CASE ~open(register'[r])
    BY <1>1, <1>4, <2>2 DEF RegistrationInv, Reserved, accounts
  <2> QED
    BY <2>1, <2>2
<1> QED
  BY <1>3, <1>4, StepPublishes

\* The writes of a call come in their order.
LEMMA CallOrdered ==
  ASSUME RegistrationInv, NEW r \in Requests, Steps(r)
  PROVE  Ordered' /\ Mailed'
<1>t. RegistrationTypeOK /\ Ordered /\ Mailed
  BY DEF RegistrationInv
<1>1. \A s \in Requests \ {r} : register'[s] = register[s]
  BY <1>t, StepProceeds, ProceedFacts DEF RegistrationTypeOK
<1>2. register'[r].pc \in Running => register'[r].email \in Addresses
  BY <1>t, StepProceeds, ProceedFacts, StepOrder DEF RegistrationTypeOK, Ordered
<1>o. /\ register'[r].pc \in Running \cup Ended
      /\ register'[r].pc = "stored" => r \in tokens'
      /\ register'[r].pc = "committed" => At(r, "stored") /\ Publish(r)
      /\ register'[r].pc = "announced" => At(r, "committed")
      /\ register'[r].pc \in Uncommitted => register[r].pc \in Uncommitted
  BY <1>t, StepOrder DEF RegistrationTypeOK
<1>3. /\ organizations \subseteq organizations'
      /\ organizations' \subseteq organizations \cup {r}
      /\ isActive' \subseteq isActive \cup {r} /\ tokens \subseteq tokens'
      /\ r \in isActive' => r \in isActive \/ r \in organizations'
  BY StepPublishes, StepWrites DEF Publish, accounts
<1>4. register'[r].pc \in Uncommitted => r \notin organizations'
  <2>1. CASE UNCHANGED accounts
    BY <1>o, <1>t, <2>1 DEF accounts, Ordered
  <2>2. CASE Proceed(r, "committed") \/ Proceed(r, "failed")
    BY <1>t, <2>2, ProceedFacts
    DEF RegistrationTypeOK, Running, Ended, Uncommitted
  <2> QED
    BY <2>1, <2>2, StepPublishes
<1>5. register'[r].pc \in {"committed", "announced"} => r \in organizations'
  BY <1>o, <1>t, <1>3 DEF Publish, Ordered, At
<1>6. Ordered'
  BY <1>t, <1>1, <1>2, <1>o, <1>3, <1>4, <1>5 DEF Ordered
<1>7. /\ register'[r].pc \in Uncommitted \cup {"committed"} => mail'[r] = NoMail
      /\ mail'[r].template = "welcome" => r \in organizations'
      /\ mail'[r].state = "none" => sent'[r] = 0
  <2>1. CASE UNCHANGED <<mail, sent>>
    BY <1>o, <1>t, <1>3, <2>1 DEF Mailed, At, Uncommitted
  <2>2. ASSUME NEW t \in {"accountExists", "welcome"}, Enqueue(r, t)
        PROVE  mail'[r].state = "waiting" /\ mail'[r].template = t
    BY <1>t, <2>2 DEF Enqueue, RegistrationTypeOK, NoMail
  <2>3. CASE Proceed(r, "answered") /\ Enqueue(r, "accountExists")
    BY <1>t, <2>2, <2>3, ProceedFacts
    DEF RegistrationTypeOK, Running, Ended, Uncommitted
  <2>4. CASE /\ At(r, "committed") /\ Proceed(r, "announced")
             /\ Enqueue(r, "welcome")
    BY <1>t, <1>3, <2>2, <2>4, ProceedFacts
    DEF RegistrationTypeOK, Ordered, At, Running, Ended, Uncommitted
  <2> QED
    BY <2>1, <2>3, <2>4, StepEnqueues
<1>8. \A s \in Requests \ {r} : mail'[s] = mail[s] /\ sent'[s] = sent[s]
  BY <1>t, StepEnqueues DEF Enqueue, RegistrationTypeOK
<1>9. Mailed'
  BY <1>t, <1>1, <1>3, <1>7, <1>8 DEF Mailed
<1> QED
  BY <1>6, <1>9

\* A call's mail has not been sent when it is queued.
LEMMA CallOncePerAttempt ==
  ASSUME RegistrationInv, NEW r \in Requests, Steps(r)
  PROVE  OncePerAttempt'
<1>t. /\ mail \in [Requests -> MailType] /\ OncePerAttempt /\ Mailed
      /\ register \in [Requests -> RegisterType]
  BY DEF RegistrationInv, RegistrationTypeOK
<1>1. CASE UNCHANGED <<mail, sent>>
  BY <1>t, <1>1 DEF OncePerAttempt
<1>2. ASSUME NEW t \in Templates, Enqueue(r, t), UNCHANGED sent,
             At(r, "known") \/ At(r, "committed")
      PROVE  OncePerAttempt'
  <2>1. sent[r] = 0
    BY <1>t, <1>2 DEF Mailed, Uncommitted, NoMail, At
  <2>2. /\ mail'[r].state = "waiting"
        /\ mail'[r].made = 0 /\ mail'[r].stalled = 0
        /\ \A s \in Requests \ {r} : mail'[s] = mail[s]
    BY <1>t, <1>2 DEF Enqueue, NoMail
  <2> QED
    BY <1>t, <1>2, <2>1, <2>2, RegistrationAssumption DEF OncePerAttempt
<1> QED
  BY <1>1, <1>2, StepEnqueues DEF Templates

\* What the rest of the application does.
LEMMA OthersInv ==
  ASSUME RegistrationInv,
         \/ \E r \in Requests, e \in Addresses : Receive(r, e)
         \/ \E a \in Accounts, e \in Addresses : TakeAddress(a, e)
         \/ \E a \in Accounts : ToggleMember(a)
         \/ Seed
         \/ UNCHANGED registrationVars
  PROVE  RegistrationInv'
<1>t. RegistrationTypeOK /\ Reserved /\ Ordered /\ Mailed /\ OncePerAttempt
  BY DEF RegistrationInv
<1>m. UNCHANGED <<mail, sent>> => OncePerAttempt'
  BY <1>t DEF OncePerAttempt
<1>1. ASSUME NEW r \in Requests, NEW e \in Addresses, Receive(r, e)
      PROVE  RegistrationInv'
  <2> DEFINE new == [pc |-> "received", email |-> e]
  <2>1. /\ new \in RegisterType /\ register[r].pc = "idle"
        /\ register' = [register EXCEPT ![r] = new]
        /\ UNCHANGED <<seeded, organizations, address, isActive, tokens, mail,
                       subscription, sent>>
    BY <1>1 DEF Receive, RegisterType, Running, At, accounts, jobs
  <2>2. /\ register'[r] = new
        /\ \A s \in Requests \ {r} : register'[s] = register[s]
    BY <1>t, <2>1 DEF RegistrationTypeOK
  <2>3. RegistrationTypeOK'
    BY <1>t, <2>1 DEF RegistrationTypeOK
  <2>4. Reserved'
    BY <1>t, <2>1, <2>2 DEF Reserved
  <2>5. Ordered' /\ Mailed'
    BY <1>t, <2>1, <2>2 DEF Ordered, Mailed, Uncommitted
  <2> QED
    BY <1>m, <2>1, <2>3, <2>4, <2>5 DEF RegistrationInv
<1>2. ASSUME NEW a \in Accounts, NEW e \in Addresses, TakeAddress(a, e)
      PROVE  RegistrationInv'
  <2>1. /\ address' = [address EXCEPT ![a] = e] /\ isActive' = isActive \cup {a}
        /\ \A s \in Requests : register[s].pc \in {"owned", "stored"}
                                 => register[s].email # e
        /\ a \in isActive \/ a \in Members
        /\ UNCHANGED <<seeded, organizations, tokens, register, mail,
                       subscription, sent>>
    BY <1>2 DEF TakeAddress, OpenWith, jobs
  <2>2. a \in Requests => a \in organizations
    BY <1>t, <2>1, RegistrationAssumption DEF Ordered
  <2>3. RegistrationTypeOK'
    BY <1>t, <2>1 DEF RegistrationTypeOK
  <2>4. Reserved'
    BY <1>t, <2>1 DEF Reserved, RegistrationTypeOK
  <2>5. Ordered' /\ Mailed'
    BY <1>t, <2>1, <2>2 DEF Ordered, Mailed
  <2> QED
    BY <1>m, <2>1, <2>3, <2>4, <2>5 DEF RegistrationInv
<1>3. ASSUME NEW a \in Accounts, ToggleMember(a) PROVE RegistrationInv'
  <2>1. /\ a \in Members /\ isActive' \in {isActive \ {a}, isActive \cup {a}}
        /\ UNCHANGED <<seeded, organizations, address, tokens, register, mail,
                       subscription, sent>>
    BY <1>3 DEF ToggleMember, jobs
  <2>2. a \notin Requests
    BY <2>1, RegistrationAssumption
  <2>3. RegistrationTypeOK'
    BY <1>t, <2>1 DEF RegistrationTypeOK
  <2>4. Reserved' /\ Ordered' /\ Mailed'
    BY <1>t, <2>1, <2>2 DEF Reserved, Ordered, Mailed
  <2> QED
    BY <1>m, <2>1, <2>3, <2>4 DEF RegistrationInv
<1>4. CASE Seed \/ UNCHANGED registrationVars
  <2>1. /\ seeded' \in BOOLEAN
        /\ UNCHANGED <<organizations, address, isActive, tokens, register, mail,
                       subscription, sent>>
    BY <1>t, <1>4
    DEF Seed, registrationVars, accounts, jobs, RegistrationTypeOK
  <2> QED
    BY <1>t, <1>m, <2>1
    DEF RegistrationInv, RegistrationTypeOK, Reserved, Ordered, Mailed
<1> QED
  BY <1>1, <1>2, <1>3, <1>4

\* RegistrationInv is preserved by every step.
LEMMA RegistrationInvStep ==
  RegistrationInv /\ [RegistrationNext]_registrationVars => RegistrationInv'
<1> SUFFICES ASSUME RegistrationInv, [RegistrationNext]_registrationVars
             PROVE  RegistrationInv'
  OBVIOUS
<1>t. RegistrationTypeOK /\ Reserved /\ Ordered /\ Mailed /\ OncePerAttempt
  BY DEF RegistrationInv
<1>1. ASSUME NEW r \in Requests, Steps(r) PROVE RegistrationInv'
  BY <1>t, <1>1, CallTypes, CallReserved, CallOrdered, CallOncePerAttempt
  DEF RegistrationInv
<1>2. ASSUME NEW r \in Requests, Works(r) PROVE RegistrationInv'
  <2>1. UNCHANGED <<seeded, organizations, address, isActive, tokens, register,
                    subscription>>
    BY <1>2, WorkFrame DEF system, accounts
  <2>2. /\ mail' \in [Requests -> MailType]
        /\ sent' \in [Requests -> 0..Attempts + MaxStalled]
        /\ OncePerAttempt'
        /\ \A s \in Requests \ {r} : mail'[s] = mail[s] /\ sent'[s] = sent[s]
        /\ mail[r].state # "none" /\ mail'[r].state # "none"
        /\ mail'[r].template = mail[r].template
    BY <1>t, <1>2, WorkTypes DEF Mailed
  <2>3. RegistrationTypeOK' /\ Reserved' /\ Ordered'
    BY <1>t, <2>1, <2>2 DEF RegistrationTypeOK, Reserved, Ordered
  <2>4. Mailed'
    BY <1>t, <2>1, <2>2 DEF Mailed, NoMail
  <2> QED
    BY <2>2, <2>3, <2>4 DEF RegistrationInv
<1> QED
  BY <1>1, <1>2, OthersInv, RegistrationSteps

\* The types of Registration hold in every reachable state; the copies of a
\* mail are bounded by the attempts of email.queue.ts and the stall limit.
THEOREM RegistrationTypeCorrect == RegistrationSpec => []RegistrationTypeOK
<1>1. RegistrationInv => RegistrationTypeOK
  BY DEF RegistrationInv
<1> QED
  BY RegistrationInvInit, RegistrationInvStep, <1>1, PTL DEF RegistrationSpec

-----------------------------------------------------------------------------
(* Registration implements AccountBook.                                    *)

\* The owners whose welcome mail a provider has taken.
WelcomeTaken == {r \in Requests : mail[r].template = "welcome" /\ sent[r] > 0}

\* Nothing is in the book at first.
LEMMA BookInit == RegistrationInit => Book!Init
<1> SUFFICES ASSUME RegistrationInit PROVE Book!Init
  OBVIOUS
<1>1. WelcomeTaken = {}
  BY DEF WelcomeTaken, RegistrationInit, NoMail
<1> QED
  BY <1>1 DEF WelcomeTaken, RegistrationInit, Book!Init, Book!Accounts, Accounts

\* A step of a call stores a link, opens the account, asks for the
\* subscription, or is not seen in the book.
LEMMA BookCallStep ==
  ASSUME RegistrationInv, NEW r \in Requests, Steps(r)
  PROVE  [Book!Next]_(Book!vars)
<1>t. RegistrationTypeOK /\ Reserved /\ Ordered /\ Mailed
  BY DEF RegistrationInv
<1>m. WelcomeTaken' = WelcomeTaken
  <2>1. CASE UNCHANGED <<mail, sent>>
    BY <2>1 DEF WelcomeTaken
  <2>2. ASSUME NEW t \in Templates, Enqueue(r, t), UNCHANGED sent,
               At(r, "known") \/ At(r, "committed")
        PROVE  WelcomeTaken' = WelcomeTaken
    <3>1. sent[r] = 0
      BY <1>t, <2>2 DEF Mailed, Uncommitted, NoMail, At
    <3>2. \A s \in Requests \ {r} : mail'[s] = mail[s]
      BY <1>t, <2>2 DEF Enqueue, RegistrationTypeOK
    <3> QED
      BY <2>2, <3>1, <3>2 DEF WelcomeTaken
  <2> QED
    BY <2>1, <2>2, StepEnqueues DEF Templates
<1> USE DEF Book!Next, Book!vars
<1>1. CASE tokens' = tokens \cup {r} /\ UNCHANGED <<accounts, jobs>>
  <2>1. Book!StoreLink(r)
    BY <1>1, <1>m DEF Book!StoreLink, WelcomeTaken, accounts, jobs
  <2> QED
    BY <2>1
<1>2. CASE At(r, "stored") /\ Publish(r) /\ UNCHANGED <<tokens, jobs>>
  <2> DEFINE e == register[r].email
  <2>1. e \in Addresses /\ r \in tokens /\ r \notin organizations
    BY <1>2, <1>t DEF Ordered, At, Running, Uncommitted
  <2>2. Book!Unheld(e)
    BY <1>2, <1>t DEF Book!Unheld, Book!Accounts, Reserved, Accounts, At
  <2>3. Book!Open(r, e)
    BY <1>2, <1>m, <2>1, <2>2 DEF Book!Open, Publish, WelcomeTaken, jobs
  <2> QED
    BY <2>1, <2>3
<1>3. CASE /\ At(r, "announced") /\ subscription' = subscription \cup {r}
           /\ UNCHANGED <<accounts, tokens, mail, sent>>
  <2>1. r \in organizations
    BY <1>3, <1>t DEF Ordered, At
  <2>2. Book!Subscribe(r)
    BY <1>3, <1>m, <2>1 DEF Book!Subscribe, WelcomeTaken, accounts
  <2> QED
    BY <2>2
<1>4. CASE UNCHANGED <<accounts, tokens, subscription>>
  BY <1>4, <1>m DEF WelcomeTaken, accounts
<1> QED
  BY <1>1, <1>2, <1>3, <1>4, StepPublishes, StepWrites

\* The worker sends a mail for an account that is open.
LEMMA BookWorkStep ==
  ASSUME RegistrationInv, NEW r \in Requests, Works(r)
  PROVE  [Book!Next]_(Book!vars)
<1>t. RegistrationTypeOK /\ Mailed /\ OncePerAttempt
  BY DEF RegistrationInv
<1>1. UNCHANGED <<organizations, address, tokens, subscription>>
  BY WorkFrame DEF system, accounts
<1>2. /\ \A s \in Requests \ {r} : mail'[s] = mail[s] /\ sent'[s] = sent[s]
      /\ mail'[r].template = mail[r].template
  BY <1>t, WorkTypes DEF Mailed
<1>3. sent'[r] \in {sent[r], sent[r] + 1} /\ sent[r] \in Nat
  BY <1>t, RegistrationAssumption
  DEF RegistrationTypeOK, Works, MailStep, Take, Send, SendFails, Complete,
      Retry, Stall, Taken
<1>4. CASE WelcomeTaken' = WelcomeTaken
  BY <1>1, <1>4 DEF Book!vars, WelcomeTaken
<1>5. CASE WelcomeTaken' # WelcomeTaken
  <2>1. mail[r].template = "welcome" /\ WelcomeTaken' = WelcomeTaken \cup {r}
    BY <1>2, <1>3, <1>5 DEF WelcomeTaken
  <2>2. r \in organizations
    BY <1>t, <2>1 DEF Mailed
  <2>3. Book!Mail(r)
    BY <1>1, <2>1, <2>2 DEF Book!Mail, WelcomeTaken
  <2> QED
    BY <2>3 DEF Book!Next
<1> QED
  BY <1>4, <1>5

\* Every step of registration is a step of the book, or leaves it alone.
LEMMA BookStep ==
  RegistrationInv /\ [RegistrationNext]_registrationVars
    => [Book!Next]_(Book!vars)
<1> SUFFICES ASSUME RegistrationInv, [RegistrationNext]_registrationVars
             PROVE  [Book!Next]_(Book!vars)
  OBVIOUS
<1>1. ASSUME NEW a \in Accounts, NEW e \in Addresses, TakeAddress(a, e)
      PROVE  [Book!Next]_(Book!vars)
  <2>1. a \in Members \cup organizations
    BY <1>1 DEF TakeAddress, RegistrationInv, Ordered, Accounts
  <2>2. Book!Unheld(e)
    BY <1>1 DEF TakeAddress, HoldersOf, Book!Unheld, Book!Accounts, Accounts
  <2>3. Book!Move(a, e)
    BY <1>1, <2>1, <2>2 DEF TakeAddress, Book!Move, jobs
  <2> QED
    BY <1>1, <2>3 DEF Book!Next, Book!Accounts, Accounts
<1>2. CASE \/ \E r \in Requests, e \in Addresses : Receive(r, e)
           \/ \E a \in Accounts : ToggleMember(a)
           \/ Seed
           \/ UNCHANGED registrationVars
  <2>1. UNCHANGED <<organizations, address, tokens, mail, subscription, sent>>
    BY <1>2 DEF Receive, ToggleMember, Seed, registrationVars, accounts, jobs
  <2> QED
    BY <2>1 DEF Book!vars
<1> QED
  BY <1>1, <1>2, BookCallStep, BookWorkStep, RegistrationSteps

\* Registration implements AccountBook (auth.service.ts, register, with
\* email.queue.ts and email.processor.ts): however many calls run at once, for
\* one address or many, and whatever fails, organization and OWNER appear
\* together, an address has one account, and no mail or subscription job is
\* for rows that are not there.
THEOREM BookCorrect == RegistrationSpec => BookKept
<1>1. RegistrationSpec => []RegistrationInv
  BY RegistrationInvInit, RegistrationInvStep, PTL DEF RegistrationSpec
<1> QED
  BY <1>1, BookInit, BookStep, PTL DEF RegistrationSpec, BookKept, Book!Spec

\* What the book says of any state: the organizations are those with an OWNER
\* and a link, nobody else has an address but members, no two accounts share
\* one, and mails and subscription jobs are about organizations that exist.
BookSound ==
  /\ address \in [Accounts -> Addresses \cup {NoAddress}]
  /\ \A r \in Requests : r \in organizations <=> address[r] # NoAddress
  /\ \A a, b \in Accounts :
       address[a] = address[b] /\ address[a] # NoAddress => a = b
  /\ organizations \subseteq tokens
  /\ WelcomeTaken \subseteq organizations
  /\ subscription \subseteq organizations

\* AccountBook promises it, whoever implements it.
LEMMA BookPromises == Book!Spec => []BookSound
<1> USE RegistrationAssumption
    DEF BookSound, Book!Accounts, Accounts, WelcomeTaken
<1>1. Book!Init => BookSound
  BY DEF Book!Init
<1>2. BookSound /\ [Book!Next]_(Book!vars) => BookSound'
  <2> SUFFICES ASSUME BookSound, [Book!Next]_(Book!vars) PROVE BookSound'
    OBVIOUS
  <2>1. ASSUME NEW a \in Requests, Book!StoreLink(a) PROVE BookSound'
    BY <2>1 DEF Book!StoreLink
  <2>2. ASSUME NEW a \in Requests, Book!Mail(a) PROVE BookSound'
    BY <2>2 DEF Book!Mail
  <2>3. ASSUME NEW a \in Requests, Book!Subscribe(a) PROVE BookSound'
    BY <2>3 DEF Book!Subscribe
  <2>4. ASSUME NEW a \in Requests, NEW e \in Addresses, Book!Open(a, e)
        PROVE  BookSound'
    BY <2>4 DEF Book!Open, Book!Unheld
  <2>5. ASSUME NEW a \in Accounts, NEW e \in Addresses, Book!Move(a, e)
        PROVE  BookSound'
    BY <2>5 DEF Book!Move, Book!Unheld
  <2>6. CASE UNCHANGED Book!vars
    BY <2>6 DEF Book!vars
  <2> QED
    BY <2>1, <2>2, <2>3, <2>4, <2>5, <2>6 DEF Book!Next
<1> QED
  BY <1>1, <1>2, PTL DEF Book!Spec

\* So registration keeps it, through the refinement: whatever calls and faults
\* meet, no address has two accounts and no organization is without its OWNER.
THEOREM OneAccountCorrect == RegistrationSpec => []BookSound
  BY BookCorrect, BookPromises, PTL DEF BookKept

-----------------------------------------------------------------------------
(***************************************************************************)
(* Nobody is forgotten.  The safety half of OwnersMailed: an owner whose   *)
(* mail no provider has taken is one whose call was cut off, whose job     *)
(* could not be added or has failed for good, or whose mail is still under *)
(* way; and what is under way comes nearer to its end with every step.     *)
(***************************************************************************)
UnderWay == {"waiting"} \cup InHand

Told ==
  \A r \in Requests :
    /\ mail[r].state \in {"sent", "completed"} => sent[r] > 0
    /\ (mail[r].state = "none") <=> (mail[r].template = "none")
    /\ mail[r].template = "accountExists"
         => register[r].pc = "answered" /\ r \notin organizations
    /\ r \in organizations
         => register[r].pc \in {"committed", "announced"} \cup Ended

NobodyForgotten ==
  \A r \in organizations :
    /\ mail[r].template # "accountExists"
    /\ \/ sent[r] > 0 \/ Cut(r)
       \/ register[r].pc = "committed"
       \/ mail[r].state \in UnderWay

\* A job falls by four with each attempt and each stall, and within an attempt
\* from waiting to active to sent or threw.
MailRank(r) ==
  IF mail[r].state \notin UnderWay THEN 0
  ELSE 4 * (Attempts - mail[r].made + MaxStalled - mail[r].stalled)
         + CASE mail[r].state = "waiting" -> 3
             [] mail[r].state = "active" -> 2
             [] mail[r].state \in {"sent", "threw"} -> 1

Settles(r) ==
  /\ MailRank(r) \in Nat
  /\ mail[r].state \in UnderWay
       => mail'[r] = mail[r] \/ MailRank(r)' < MailRank(r)
  /\ mail[r].state \in {"completed", "failed"} => mail'[r] = mail[r]

\* No mail has been asked for.
LEMMA ToldInit == RegistrationInit => Told
  BY DEF RegistrationInit, Told, NoMail

\* The step of a call sends one kind of mail, an owner's only after the commit.
LEMMA ToldCall ==
  ASSUME RegistrationInv, Told, NEW r \in Requests, Steps(r)
  PROVE  Told'
<1>t. /\ register \in [Requests -> RegisterType]
      /\ mail \in [Requests -> MailType] /\ Ordered /\ Told
  BY DEF RegistrationInv, RegistrationTypeOK
<1>1. /\ \A s \in Requests \ {r} : register'[s] = register[s]
      /\ \A s \in Requests \ {r} : mail'[s] = mail[s] /\ sent'[s] = sent[s]
      /\ \A s \in Requests \ {r} : s \in organizations' <=> s \in organizations
  <2>1. \A s \in Requests \ {r} : register'[s] = register[s]
    BY <1>t, StepProceeds, ProceedFacts
  <2>2. \A s \in Requests \ {r} : mail'[s] = mail[s] /\ sent'[s] = sent[s]
    BY <1>t, StepEnqueues DEF Enqueue
  <2>3. \A s \in Requests \ {r} : s \in organizations' <=> s \in organizations
    BY StepPublishes DEF Publish, accounts
  <2> QED
    BY <2>1, <2>2, <2>3
<1>2. r \in organizations'
        => register'[r].pc \in {"committed", "announced"} \cup Ended
  <2>1. CASE UNCHANGED accounts
    <3>1. /\ register'[r].pc \in Running \cup Ended
          /\ register'[r].pc \in Uncommitted => register[r].pc \in Uncommitted
      BY <1>t, StepOrder
    <3>2. r \in organizations' => register[r].pc \notin Uncommitted
      BY <1>t, <2>1 DEF accounts, Ordered
    <3> QED
      BY <3>1, <3>2 DEF Running, Uncommitted
  <2>2. CASE Proceed(r, "committed") \/ Proceed(r, "failed")
    BY <1>t, <2>2, ProceedFacts DEF Running, Ended
  <2> QED
    BY <2>1, <2>2, StepPublishes
<1>3. register[r].pc \in Running
  BY <1>t, StepOrder
<1>4. ASSUME NEW t \in {"accountExists", "welcome"}, Enqueue(r, t)
      PROVE  mail'[r].state = "waiting" /\ mail'[r].template = t
  BY <1>t, <1>4 DEF Enqueue, NoMail
<1>5. /\ mail'[r].state \in {"sent", "completed"} => sent'[r] > 0
      /\ (mail'[r].state = "none") <=> (mail'[r].template = "none")
      /\ mail'[r].template = "accountExists"
           => register'[r].pc = "answered" /\ r \notin organizations'
  <2>1. CASE UNCHANGED <<mail, sent>>
    <3>1. mail[r].template # "accountExists"
      BY <1>t, <1>3 DEF Told, Running
    <3> QED
      BY <1>t, <2>1, <3>1 DEF Told
  <2>2. CASE /\ At(r, "known") /\ Proceed(r, "answered")
             /\ Enqueue(r, "accountExists")
    <3>1. register'[r].pc = "answered"
      BY <1>t, <2>2, ProceedFacts DEF Ended
    <3>2. r \notin organizations'
      <4>1. r \notin organizations
        BY <1>t, <2>2 DEF Ordered, Uncommitted, At
      <4> QED
        BY <2>2, <4>1, StepPublishes DEF At, accounts
    <3> QED
      BY <1>4, <2>2, <3>1, <3>2
  <2>3. CASE /\ At(r, "committed") /\ Proceed(r, "announced")
             /\ Enqueue(r, "welcome")
    BY <1>4, <2>3
  <2> QED
    BY <2>1, <2>2, <2>3, StepEnqueues
<1> QED
  BY <1>t, <1>1, <1>2, <1>5 DEF Told

\* A job of which nothing is in hand any more was taken by the provider, or
\* has failed.
LEMMA ToldWork ==
  ASSUME RegistrationInv, Told, NEW r \in Requests, Works(r)
  PROVE  Told'
<1>t. /\ mail \in [Requests -> MailType] /\ Told
      /\ sent \in [Requests -> 0..Attempts + MaxStalled]
  BY DEF RegistrationInv, RegistrationTypeOK
<1>1. /\ sent' \in [Requests -> 0..Attempts + MaxStalled]
      /\ \A s \in Requests \ {r} : mail'[s] = mail[s] /\ sent'[s] = sent[s]
      /\ mail[r].state # "none" /\ mail'[r].state # "none"
      /\ mail'[r].template = mail[r].template
  BY WorkTypes DEF RegistrationInv, Mailed
<1>2. UNCHANGED <<register, organizations>>
  BY WorkFrame DEF system, accounts
<1>3. mail'[r].state \in {"sent", "completed"} => sent'[r] > 0
  <2>1. CASE Send(r)
    BY <1>t, <2>1, RegistrationAssumption DEF Send, Taken
  <2>2. CASE Complete(r)
    BY <1>t, <2>2 DEF Complete, Told
  <2>3. CASE Take(r) \/ SendFails(r)
    BY <1>t, <2>3 DEF Take, SendFails, Becomes, MailType
  <2>4. CASE Retry(r) \/ Stall(r)
    <3>1. mail'[r].state \in {"waiting", "failed"}
      BY <1>t, <2>4 DEF Retry, Stall, AfterThrow, MailType
    <3> QED
      BY <3>1
  <2> QED
    BY <2>1, <2>2, <2>3, <2>4 DEF Works, MailStep
<1> QED
  BY <1>t, <1>1, <1>2, <1>3 DEF Told

\* Told is preserved by every step.
LEMMA ToldStep ==
  RegistrationInv /\ Told /\ [RegistrationNext]_registrationVars => Told'
<1> SUFFICES ASSUME RegistrationInv, Told, [RegistrationNext]_registrationVars
             PROVE  Told'
  OBVIOUS
<1>1. ASSUME NEW r \in Requests, NEW e \in Addresses, Receive(r, e)
      PROVE  Told'
  <2>1. /\ register[r].pc = "idle"
        /\ \A s \in Requests \ {r} : register'[s] = register[s]
        /\ UNCHANGED <<organizations, mail, sent>>
    BY <1>1
    DEF Receive, At, accounts, jobs, RegistrationInv, RegistrationTypeOK
  <2>2. r \notin organizations /\ mail[r].template # "accountExists"
    BY <2>1 DEF Told, RegistrationInv, Ordered, Uncommitted
  <2> QED
    BY <2>1, <2>2 DEF Told
<1>2. CASE \/ \E a \in Accounts, e \in Addresses : TakeAddress(a, e)
           \/ \E a \in Accounts : ToggleMember(a)
           \/ Seed \/ UNCHANGED registrationVars
  <2>1. UNCHANGED <<organizations, register, mail, sent>>
    BY <1>2
    DEF TakeAddress, ToggleMember, Seed, registrationVars, accounts, jobs
  <2> QED
    BY <2>1 DEF Told
<1> QED
  BY <1>1, <1>2, ToldCall, ToldWork, RegistrationSteps

\* An organization whose owner has got no mail is one whose call was cut off,
\* whose job could not be added or has used up its attempts, or one whose mail
\* is under way; and nobody is told that an account exists for having made it
\* (auth.service.ts, register; email.processor.ts).
THEOREM NobodyForgottenCorrect == RegistrationSpec => []NobodyForgotten
<1>1. RegistrationInv /\ Told => NobodyForgotten
  <2> SUFFICES ASSUME RegistrationInv, Told, NEW r \in organizations
               PROVE  /\ mail[r].template # "accountExists"
                      /\ \/ sent[r] > 0 \/ Cut(r)
                         \/ register[r].pc = "committed"
                         \/ mail[r].state \in UnderWay
    BY DEF NobodyForgotten
  <2>1. r \in Requests /\ mail[r] \in MailType
    BY DEF RegistrationInv, RegistrationTypeOK
  <2> QED
    BY <2>1 DEF Told, Cut, Ended, UnderWay, MailType
<1> QED
  BY <1>1, RegistrationInvInit, RegistrationInvStep, ToldInit, ToldStep, PTL
  DEF RegistrationSpec

\* What a job in hand has left.
LEMMA RankNat ==
  ASSUME RegistrationInv, NEW r \in Requests
  PROVE  /\ MailRank(r) \in Nat
         /\ mail[r].made \in Nat /\ mail[r].stalled \in Nat
         /\ mail[r].state \in UnderWay
              => /\ mail[r].made < Attempts /\ mail[r].stalled <= MaxStalled
                 /\ MailRank(r) > 0
<1>1. /\ Attempts \in Nat /\ MaxStalled \in Nat
      /\ mail[r].made \in Nat /\ mail[r].stalled \in Nat
  BY RegistrationAssumption
  DEF RegistrationInv, RegistrationTypeOK, MailType
<1>2. mail[r].state \in UnderWay
        => mail[r].made < Attempts /\ mail[r].stalled <= MaxStalled
  BY DEF RegistrationInv, OncePerAttempt, UnderWay
<1> QED
  BY <1>1, <1>2 DEF MailRank, UnderWay, InHand

\* A step of the worker, and a stall, bring a job nearer to its end.
LEMMA WorkSettles ==
  ASSUME RegistrationInv, RegistrationInv', NEW r \in Requests, Works(r)
  PROVE  /\ mail[r].state \in UnderWay
         /\ MailRank(r)' < MailRank(r)
<1>t. /\ Attempts \in Nat /\ MaxStalled \in Nat
      /\ mail \in [Requests -> MailType]
  BY RegistrationAssumption DEF RegistrationInv, RegistrationTypeOK
<1>1. mail[r].state \in UnderWay
  BY DEF Works, MailStep, Take, Send, SendFails, Complete, Retry, Stall,
         UnderWay, InHand
<1>2. /\ mail[r].made \in Nat /\ mail[r].stalled \in Nat
      /\ mail[r].made < Attempts /\ mail[r].stalled <= MaxStalled
      /\ MailRank(r) \in Nat /\ MailRank(r) > 0
  BY <1>1, RankNat
<1>3. ASSUME mail'[r].state \notin UnderWay PROVE MailRank(r)' < MailRank(r)
  BY <1>2, <1>3 DEF MailRank
<1>4. CASE Take(r)
  <2>1. /\ mail'[r].state = "active" /\ mail[r].state = "waiting"
        /\ mail'[r].made = mail[r].made /\ mail'[r].stalled = mail[r].stalled
    BY <1>t, <1>4 DEF Take, Becomes, MailType
  <2> QED
    BY <1>t, <1>1, <1>2, <2>1 DEF MailRank, UnderWay, InHand
<1>5. CASE Send(r) \/ SendFails(r)
  <2>1. /\ mail'[r].state \in {"sent", "threw"} /\ mail[r].state = "active"
        /\ mail'[r].made = mail[r].made /\ mail'[r].stalled = mail[r].stalled
    BY <1>t, <1>5 DEF Send, SendFails, Becomes, MailType
  <2> QED
    BY <1>t, <1>1, <1>2, <2>1 DEF MailRank, UnderWay, InHand
<1>6. CASE Complete(r)
  <2>1. mail'[r].state = "completed"
    BY <1>t, <1>6 DEF Complete, NoMail
  <2> QED
    BY <1>1, <1>3, <2>1 DEF UnderWay, InHand
<1>7. CASE Retry(r)
  <2>1. /\ mail'[r].state \in {"waiting", "failed"} /\ mail[r].state = "threw"
        /\ mail'[r].made = mail[r].made + 1
        /\ mail'[r].stalled = mail[r].stalled
    BY <1>t, <1>7 DEF Retry, AfterThrow, MailType
  <2> QED
    BY <1>t, <1>1, <1>2, <1>3, <2>1 DEF MailRank, UnderWay, InHand
<1>8. CASE Stall(r)
  <2>1. /\ mail'[r].state \in {"waiting", "failed"} /\ mail[r].state \in InHand
        /\ mail'[r].made = mail[r].made
        /\ mail'[r].stalled = mail[r].stalled + 1
    BY <1>t, <1>8 DEF Stall, MailType
  <2> QED
    BY <1>t, <1>1, <1>2, <1>3, <2>1 DEF MailRank, UnderWay, InHand
<1> QED
  BY <1>1, <1>4, <1>5, <1>6, <1>7, <1>8 DEF Works, MailStep

\* The jobs end.  Each step of a mail's job (email.queue.ts, email.processor.ts),
\* the stalls included, lowers a natural number, so a job takes finitely many of
\* them; and what has completed or failed for good is not touched again.
THEOREM MailsSettle ==
  RegistrationSpec => [][\A r \in Requests : Settles(r)]_registrationVars
<1> DEFINE Inv == RegistrationInv /\ Told
<1>1. RegistrationSpec => []Inv
  BY RegistrationInvInit, RegistrationInvStep, ToldInit, ToldStep, PTL
  DEF RegistrationSpec
<1>2. Inv /\ Inv' /\ [RegistrationNext]_registrationVars
        => [\A r \in Requests : Settles(r)]_registrationVars
  <2> SUFFICES ASSUME Inv, Inv', RegistrationNext, NEW s \in Requests
               PROVE  Settles(s)
    OBVIOUS
  <2>1. MailRank(s) \in Nat
    BY RankNat
  <2>2. ASSUME mail'[s] = mail[s] PROVE Settles(s)
    BY <2>1, <2>2 DEF Settles
  <2>3. ASSUME NEW r \in Requests, Works(r) PROVE Settles(s)
    <3>1. s # r => mail'[s] = mail[s]
      BY <2>3, WorkTypes DEF RegistrationInv, Mailed
    <3>2. s = r => mail[s].state \in UnderWay /\ MailRank(s)' < MailRank(s)
      BY <2>3, WorkSettles
    <3> QED
      BY <2>1, <2>2, <3>1, <3>2 DEF Settles, UnderWay, InHand
  <2>4. ASSUME NEW r \in Requests, Steps(r) PROVE Settles(s)
    <3>1. CASE mail' = mail
      BY <2>2, <3>1
    <3>2. CASE /\ At(r, "known") \/ At(r, "committed")
               /\ \E t \in Templates : Enqueue(r, t)
      <4>1. s # r => mail'[s] = mail[s]
        BY <3>2 DEF Enqueue, RegistrationInv, RegistrationTypeOK
      <4>2. mail[r].state = "none"
        BY <3>2 DEF RegistrationInv, Mailed, Uncommitted, At, NoMail
      <4> QED
        BY <2>1, <2>2, <4>1, <4>2 DEF Settles, UnderWay, InHand
    <3> QED
      BY <2>4, <3>1, <3>2, StepEnqueues DEF Templates
  <2>5. CASE \/ \E r \in Requests, e \in Addresses : Receive(r, e)
             \/ \E a \in Accounts, e \in Addresses : TakeAddress(a, e)
             \/ \E a \in Accounts : ToggleMember(a)
             \/ Seed \/ UNCHANGED registrationVars
    <3>1. mail' = mail
      BY <2>5
      DEF Receive, TakeAddress, ToggleMember, Seed, registrationVars, jobs
    <3> QED
      BY <2>2, <3>1
  <2> QED
    BY <2>3, <2>4, <2>5, RegistrationSteps
<1> QED
  BY <1>1, <1>2, PTL DEF RegistrationSpec

=============================================================================
