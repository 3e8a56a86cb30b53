--------------------------- MODULE Accounts_proofs ---------------------------
(***************************************************************************)
(* What Accounts guarantees for every number of users, addresses,          *)
(* organisations and calls.                                                *)
(***************************************************************************)
EXTENDS Accounts, TLAPS

\* An idle call is typed and shaped.
LEMMA IdleType == IdleCall \in CallType /\ Shape(IdleCall)
  BY DEF IdleCall, CallType, CallPc, Ops, Shape

\* A row is a member's row.
LEMMA MemberRow ==
  ASSUME TypeOK, NEW u \in members
  PROVE  u \in Users /\ row[u] \in RowType
  BY DEF TypeOK, members

\* A call that took a step without writing leaves the types.
LEMMA TypeBecomes ==
  ASSUME TypeOK, NEW c \in Calls, NEW k \in CallType, Shape(k), Becomes(c, k)
  PROVE  TypeOK'
  BY DEF TypeOK, Becomes, Shape, members

\* Loading a row gives a typed call.
LEMMA LoadType ==
  ASSUME TypeOK, NEW c \in Calls, NEW op \in Ops, NEW u, NEW obj,
         u \in members => obj \in RowType,
         op = "changePassword" => call[c].claim # None,
         op = "resetPassword" => call[c].link # None /\ call[c].link.kind = "reset",
         op = "confirmEmail" => call[c].link # None,
         LoadRow(c, op, u, obj)
  PROVE  TypeOK'
<1> DEFINE k == [call[c] EXCEPT
                   !.pc = "loaded", !.op = op, !.user = u, !.obj = obj,
                   !.claim = IF op = "changePassword" THEN @ ELSE None]
<1>1. u \in members /\ Becomes(c, k)
  BY DEF LoadRow
<1>2. call[c] \in CallType /\ u \in Users /\ obj \in RowType
  BY <1>1, MemberRow DEF TypeOK
<1>3. k \in CallType
  BY <1>2 DEF CallType, CallPc
<1>4. /\ k.pc = "loaded" /\ k.op = op /\ k.user = u /\ k.obj = obj
      /\ k.link = call[c].link
      /\ op = "changePassword" => k.claim = call[c].claim
  BY <1>2 DEF CallType
<1>5. Shape(k)
  BY <1>1, <1>2, <1>4, ConstantsAssumption DEF Shape
<1> HIDE DEF k
<1> QED
  BY <1>1, <1>3, <1>5, TypeBecomes

\* Signing gives claims, and what is left to do is typed.
LEMMA AfterType ==
  ASSUME NEW k \in CallType, k.user \in Users, k.obj \in RowType,
         k.op = "changePassword" => k.claim # None,
         k.op \in {"resetPassword", "confirmEmail"} => k.link # None
  PROVE  After(k) \in CallType /\ Shape(After(k))
<1>1. Signed(k) \in Claim \cup {None}
  BY DEF Signed, ClaimOf, CallType, Claim, Link, RowType
<1>2. CASE k.op \in {"remove", "updateRole", "update"}
  BY <1>2, IdleType DEF After
<1>3. CASE k.op \notin {"remove", "updateRole", "update"}
  <2> DEFINE a == [IdleCall EXCEPT !.pc = "saved", !.op = k.op,
                                   !.claim = Signed(k), !.link = k.link]
  <2>1. After(k) = a
    BY <1>3 DEF After
  <2>2. a \in CallType
    BY <1>1, IdleType DEF CallType, CallPc
  <2>3. a.pc = "saved"
    BY DEF IdleCall
  <2>4. Shape(a)
    BY <2>3 DEF Shape
  <2> QED
    BY <2>1, <2>2, <2>4
<1> QED
  BY <1>2, <1>3

\* The UPDATE leaves a row.
LEMMA WrittenType ==
  ASSUME NEW k, k.obj \in RowType, NEW r \in RowType
  PROVE  Written(k, r) \in RowType
  BY DEF Written, RowType

LEMMA TypeInit == Init => TypeOK
  BY IdleType, ConstantsAssumption DEF Init, TypeOK

\* Steps that only read.
LEMMA TypeRead ==
  ASSUME TypeOK, NEW c \in Calls, ReadNext(c)
  PROVE  TypeOK'
<1>0. call[c] \in CallType /\ Shape(call[c])
  BY DEF TypeOK
<1>1. ASSUME NEW cl \in claims, Authenticate(c, cl) PROVE TypeOK'
  <2> DEFINE k == [IdleCall EXCEPT !.pc = "authed", !.claim = cl]
  <2>1. cl \in Claim
    BY DEF TypeOK
  <2>2. k \in CallType /\ k.pc = "authed" /\ k.claim = cl
    BY <2>1, IdleType DEF CallType, CallPc
  <2>3. Shape(k)
    BY <2>1, <2>2, ConstantsAssumption DEF Shape
  <2> QED
    BY <1>1, <2>2, <2>3, TypeBecomes DEF Authenticate
<1>2. ASSUME NEW l \in links, OpenLink(c, l) PROVE TypeOK'
  <2> DEFINE k == [IdleCall EXCEPT !.pc = "opened", !.link = l]
  <2>1. l \in Link
    BY DEF TypeOK
  <2>2. k \in CallType /\ k.pc = "opened" /\ k.link = l
    BY <2>1, IdleType DEF CallType, CallPc
  <2>3. Shape(k)
    BY <2>1, <2>2, ConstantsAssumption DEF Shape
  <2> QED
    BY <1>2, <2>2, <2>3, TypeBecomes DEF OpenLink
<1>3. ASSUME NEW u \in Users, NEW e \in Emails, NEW o \in Orgs, NEW r \in InvitedRoles,
             CheckAcceptTaken(c, u, e, o, r)
      PROVE  TypeOK'
  <2> DEFINE k == [IdleCall EXCEPT !.pc = "checked", !.op = "accept", !.user = u,
                                   !.obj = NewRow(r, TRUE, e, o)]
  <2>1. NewRow(r, TRUE, e, o) \in RowType
    BY ConstantsAssumption DEF NewRow, RowType
  <2>2. /\ k \in CallType /\ k.pc = "checked" /\ k.op = "accept" /\ k.user = u
        /\ k.obj = NewRow(r, TRUE, e, o)
    BY <2>1, IdleType DEF CallType, CallPc, Ops
  <2>3. Shape(k)
    BY <1>3, <2>1, <2>2, ConstantsAssumption DEF Shape, CheckAcceptTaken, Holder
  <2> QED
    BY <1>3, <2>2, <2>3, TypeBecomes DEF CheckAcceptTaken
<1>4. ASSUME NEW e \in Emails, NEW o \in Orgs, NEW r \in InvitedRoles,
             CheckAcceptFree(c, e, o, r)
      PROVE  TypeOK'
  <2> DEFINE k == [IdleCall EXCEPT !.pc = "inserting", !.op = "accept",
                                   !.obj = NewRow(r, TRUE, e, o)]
  <2>1. NewRow(r, TRUE, e, o) \in RowType
    BY ConstantsAssumption DEF NewRow, RowType
  <2>2. /\ k \in CallType /\ k.pc = "inserting" /\ k.op = "accept"
        /\ k.obj = NewRow(r, TRUE, e, o)
    BY <2>1, IdleType DEF CallType, CallPc, Ops
  <2>3. Shape(k)
    BY <2>1, <2>2, ConstantsAssumption DEF Shape
  <2> QED
    BY <1>4, <2>2, <2>3, TypeBecomes DEF CheckAcceptFree
<1>5. ASSUME NEW u \in Users, LoadLogin(c, u) PROVE TypeOK'
  <2> DEFINE cl == ClaimOf(u, row[u].org, row[u].role, row[u].email)
             k == [IdleCall EXCEPT !.pc = "saved", !.op = "login", !.claim = cl]
  <2>1. cl \in Claim
    BY <1>5, MemberRow DEF LoadLogin, ClaimOf, Claim, RowType
  <2>2. k \in CallType /\ k.pc = "saved"
    BY <2>1, IdleType DEF CallType, CallPc, Ops
  <2>3. Shape(k)
    BY <2>2 DEF Shape
  <2> QED
    BY <1>5, <2>2, <2>3, TypeBecomes DEF LoadLogin
<1>6. ASSUME NEW u \in Users, LoadRemove(c, u) PROVE TypeOK'
  <2>1. u \in members => [row[u] EXCEPT !.active = FALSE] \in RowType
    BY MemberRow DEF RowType
  <2> QED
    BY <1>6, <2>1, LoadType DEF LoadRemove, Ops
<1>7. ASSUME NEW u \in Users, NEW r \in Roles, LoadUpdateRole(c, u, r) PROVE TypeOK'
  <2>1. u \in members => [row[u] EXCEPT !.role = r] \in RowType
    BY MemberRow DEF RowType
  <2> QED
    BY <1>7, <2>1, LoadType DEF LoadUpdateRole, Ops
<1>8. CASE LoadUpdate(c)
  BY <1>8, LoadType, MemberRow DEF LoadUpdate, Ops
<1>9. ASSUME NEW u \in Users, LoadChangePassword(c, u) PROVE TypeOK'
  BY <1>9, <1>0, LoadType, MemberRow DEF LoadChangePassword, Ops, Shape
<1>10. CASE LoadVerifyEmail(c)
  <2> DEFINE u == call[c].link.user
  <2>1. u \in members => [row[u] EXCEPT !.verified = TRUE] \in RowType
    BY MemberRow DEF RowType
  <2> QED
    BY <1>10, <2>1, LoadType DEF LoadVerifyEmail, Ops
<1>11. ASSUME NEW u \in Users, LoadResetPassword(c, u) PROVE TypeOK'
  BY <1>11, <1>0, LoadType, MemberRow DEF LoadResetPassword, Ops, Shape
<1>12. CASE LoadConfirmEmail(c)
  <2> DEFINE u == call[c].link.user
  <2>0. call[c].link # None /\ call[c].link \in Link
    BY <1>12, <1>0 DEF LoadConfirmEmail, Shape, CallType
  <2>1. u \in members => [row[u] EXCEPT !.email = call[c].link.email] \in RowType
    BY <2>0, MemberRow DEF RowType, Link
  <2> QED
    BY <1>12, <2>0, <2>1, LoadType DEF LoadConfirmEmail, Ops
<1>13. CASE LoadAccept(c)
  <2> DEFINE k == call[c]
  <2>0. k.obj \in RowType
    BY <1>13, <1>0 DEF LoadAccept, Shape, CallType
  <2>1. k.user \in members => [k.obj EXCEPT !.email = row[k.user].email] \in RowType
    BY <2>0, MemberRow DEF RowType
  <2> QED
    BY <1>13, <2>1, LoadType DEF LoadAccept, Ops
<1>14. CASE Select(c)
  <2> DEFINE k == call[c]
             d == {x \in Carried(k.op) : k.obj[x] # row[k.user][x]}
             s == [k EXCEPT !.pc = "selected", !.diff = d]
  <2>1. d \subseteq Columns
    BY DEF Carried
  <2>2. /\ s \in CallType /\ s.pc = "selected" /\ s.op = k.op /\ s.user = k.user
        /\ s.obj = k.obj /\ s.claim = k.claim /\ s.link = k.link
    <3> HIDE DEF d
    <3> QED
      BY <1>0, <2>1 DEF CallType, CallPc
  <2>3. Shape(s)
    <3> HIDE DEF s
    <3> QED
      BY <1>14, <1>0, <2>2 DEF Shape, Select
  <2> QED
    BY <1>14, <2>2, <2>3, TypeBecomes DEF Select
<1>15. CASE Abandon(c)
  BY <1>15, IdleType, TypeBecomes DEF Abandon
<1> QED
  BY <1>1, <1>2, <1>3, <1>4, <1>5, <1>6, <1>7, <1>8, <1>9, <1>10, <1>11, <1>12,
     <1>13, <1>14, <1>15 DEF ReadNext, LoadNext

\* A new row leaves the shape of the calls.
LEMMA ShapeKept ==
  ASSUME NEW k, Shape(k), members \subseteq members'
  PROVE  Shape(k)'
  BY DEF Shape

LEMMA TypeRegister ==
  ASSUME TypeOK, NEW u \in Users, NEW o \in Orgs, NEW e \in Emails, Register(u, o, e)
  PROVE  TypeOK'
<1>1. NewRow("OWNER", FALSE, e, o) \in RowType
  BY DEF NewRow, RowType, Roles
<1>2. row' \in [Users -> RowType \cup {None}] /\ members \subseteq members'
  BY <1>1, ConstantsAssumption DEF Register, TypeOK, members
<1>3. links' \subseteq Link
  BY DEF Register, SendLink, TypeOK, Link
<1>4. \A c \in Calls : Shape(call[c])'
  BY <1>2 DEF Register, TypeOK, Shape
<1> QED
  BY <1>2, <1>3, <1>4 DEF Register, TypeOK

LEMMA TypeInsert ==
  ASSUME TypeOK, NEW c \in Calls, NEW u \in Users, InsertAccept(c, u)
  PROVE  TypeOK'
<1> DEFINE k == [call[c] EXCEPT !.user = u]
<1>1. call[c] \in CallType /\ Shape(call[c]) /\ call[c].pc = "inserting"
  BY DEF TypeOK, InsertAccept
<1>2. call[c].op = "accept" /\ call[c].obj \in RowType
  BY <1>1 DEF Shape, CallType
<1>3. k \in CallType /\ k.user = u /\ k.obj = call[c].obj /\ k.op = "accept"
  BY <1>1, <1>2 DEF CallType
<1>4. After(k) \in CallType /\ Shape(After(k))
  <2> HIDE DEF k
  <2> QED
    BY <1>2, <1>3, AfterType
<1> HIDE DEF k
<1>5. row' \in [Users -> RowType \cup {None}] /\ members \subseteq members'
  BY <1>2, ConstantsAssumption DEF InsertAccept, TypeOK, members
<1>6. call' = [call EXCEPT ![c] = After(k)]
  BY DEF InsertAccept, k
<1>7. call' \in [Calls -> CallType]
  BY <1>4, <1>6 DEF TypeOK
<1>8. \A d \in Calls : Shape(call[d])'
  BY <1>4, <1>5, <1>6 DEF TypeOK, Shape
<1>9. held' \in [Users -> SUBSET Emails]
  BY <1>2 DEF InsertAccept, TypeOK, RowType
<1> QED
  BY <1>5, <1>7, <1>8, <1>9 DEF InsertAccept, TypeOK

\* What Update finds: a typed call on a member's row.
LEMMA UpdateTypes ==
  ASSUME TypeOK, NEW c \in Calls, call[c].pc \in {"loaded", "selected"}
  PROVE  /\ call[c] \in CallType /\ Shape(call[c])
         /\ call[c].user \in members /\ call[c].user \in Users
         /\ row[call[c].user] \in RowType /\ call[c].obj \in RowType
         /\ Written(call[c], row[call[c].user]) \in RowType
         /\ call[c].op = "changePassword" => call[c].claim \in Claim
         /\ call[c].op \in {"resetPassword", "confirmEmail"} => call[c].link \in Link
         /\ After(call[c]) \in CallType /\ Shape(After(call[c]))
<1>1. call[c] \in CallType /\ Shape(call[c])
  BY DEF TypeOK
<1>2. call[c].user \in members /\ call[c].obj \in RowType
  BY <1>1 DEF Shape, CallType
<1>3. call[c].user \in Users /\ row[call[c].user] \in RowType
  BY <1>2, MemberRow
<1>4. Written(call[c], row[call[c].user]) \in RowType
  BY <1>2, <1>3, WrittenType
<1>5. /\ call[c].op = "changePassword" => call[c].claim # None
      /\ call[c].op \in {"resetPassword", "confirmEmail"} => call[c].link # None
  BY <1>1 DEF Shape
<1>6. After(call[c]) \in CallType /\ Shape(After(call[c]))
  BY <1>1, <1>2, <1>3, <1>5, AfterType
<1> QED
  BY <1>1, <1>2, <1>3, <1>4, <1>5, <1>6 DEF CallType

LEMMA TypeUpdate ==
  ASSUME TypeOK, NEW c \in Calls, Update(c)
  PROVE  TypeOK'
<1> DEFINE k == call[c]
           w == Written(k, row[k.user])
<1>1. /\ k.user \in members /\ k.user \in Users /\ w \in RowType
      /\ After(k) \in CallType /\ Shape(After(k))
  BY UpdateTypes DEF Update
<1>2. /\ row' = [row EXCEPT ![k.user] = w]
      /\ held' = [held EXCEPT ![k.user] = @ \cup {w.email}]
      /\ contested' \subseteq contested \cup {k.user}
      /\ call' = [call EXCEPT ![c] = After(k)]
      /\ UNCHANGED <<founder, links, claims>>
  BY DEF Update
<1> HIDE DEF k, w
<1>3. row' \in [Users -> RowType \cup {None}] /\ members \subseteq members'
  BY <1>1, <1>2, ConstantsAssumption DEF TypeOK, members
<1>4. call' \in [Calls -> CallType]
  BY <1>1, <1>2 DEF TypeOK
<1>5. \A d \in Calls : Shape(call[d])'
  BY <1>1, <1>2, <1>3 DEF TypeOK, Shape
<1>6. held' \in [Users -> SUBSET Emails]
  BY <1>1, <1>2 DEF TypeOK, RowType
<1> QED
  BY <1>1, <1>2, <1>3, <1>4, <1>5, <1>6 DEF TypeOK

\* Sending a link for a member, and going idle, leave the types.
LEMMA TypeStep == TypeOK /\ [Next]_vars => TypeOK'
<1> SUFFICES ASSUME TypeOK, [Next]_vars PROVE TypeOK'
  OBVIOUS
<1>1. ASSUME NEW u \in Users, NEW o \in Orgs, NEW e \in Emails, Register(u, o, e)
      PROVE  TypeOK'
  BY <1>1, TypeRegister
<1>2. ASSUME NEW u \in Users, ResendVerifyEmail(u) \/ ForgotPassword(u) PROVE TypeOK'
  <2>1. u \in members /\ row[u] \in RowType
    BY <1>2, MemberRow DEF ResendVerifyEmail, ForgotPassword
  <2>2. links' \subseteq Link
    BY <1>2, <2>1 DEF ResendVerifyEmail, ForgotPassword, SendLink, TypeOK, Link, RowType
  <2>3. UNCHANGED <<row, founder, claims, call, held, contested>>
    BY <1>2 DEF ResendVerifyEmail, ForgotPassword
  <2> QED
    BY <2>2, <2>3 DEF TypeOK, Shape, members
<1>3. ASSUME NEW l \in links, LinkExpires(l) PROVE TypeOK'
  BY <1>3 DEF LinkExpires, TypeOK, Shape, members
<1>4. ASSUME NEW cl \in claims, TokenExpires(cl) PROVE TypeOK'
  BY <1>4 DEF TokenExpires, TypeOK, Shape, members
<1>5. ASSUME NEW c \in Calls, ReadNext(c) PROVE TypeOK'
  BY <1>5, TypeRead
<1>6. ASSUME NEW c \in Calls, NEW e \in Emails, ChangeEmail(c, e) PROVE TypeOK'
  <2>1. call[c].claim \in Claim
    BY <1>6 DEF ChangeEmail, TypeOK, Shape, CallType
  <2>2. links' \subseteq Link
    BY <1>6, <2>1 DEF ChangeEmail, SendLink, TypeOK, Link, Claim
  <2>3. call' = [call EXCEPT ![c] = IdleCall]
        /\ UNCHANGED <<row, founder, claims, held, contested>>
    BY <1>6 DEF ChangeEmail
  <2> QED
    BY <2>2, <2>3, IdleType DEF TypeOK, Shape, members
<1>7. ASSUME NEW c \in Calls, NEW u \in Users, InsertAccept(c, u) PROVE TypeOK'
  BY <1>7, TypeInsert
<1>8. ASSUME NEW c \in Calls, Update(c) PROVE TypeOK'
  BY <1>8, TypeUpdate
<1>9. ASSUME NEW c \in Calls, Finish(c) PROVE TypeOK'
  <2>1. claims' \subseteq Claim /\ links' \subseteq Link
    BY <1>9 DEF Finish, TypeOK, CallType
  <2>2. call' = [call EXCEPT ![c] = IdleCall]
        /\ UNCHANGED <<row, founder, held, contested>>
    BY <1>9 DEF Finish
  <2> QED
    BY <2>1, <2>2, IdleType DEF TypeOK, Shape, members
<1>10. CASE UNCHANGED vars
  BY <1>10 DEF vars, TypeOK, Shape, members
<1> QED
  BY <1>1, <1>2, <1>3, <1>4, <1>5, <1>6, <1>7, <1>8, <1>9, <1>10 DEF Next, CallNext

\* The types of Accounts hold in every reachable state.
THEOREM TypeCorrect == Spec => []TypeOK
  BY TypeInit, TypeStep, PTL DEF Spec

-----------------------------------------------------------------------------
(***************************************************************************)
(* The inductive invariant.  What a call holds of a row was true of it     *)
(* when it was loaded; of the role and the activity of an OWNER it is still*)
(* true at the UPDATE, because nothing but an acceptance makes an OWNER,   *)
(* and an acceptance that another call overlaps is recorded in contested.  *)
(***************************************************************************)
Mine(k) == k.pc \in {"loaded", "selected"}
Seen(k) == k.pc \in {"checked", "loaded", "selected"}

\* A founder's row is only held by calls that leave them what they are.
FounderCopy(k) ==
  \A o \in Orgs : founder[o] # None /\ Seen(k) /\ k.user = founder[o] =>
    /\ Mine(k) /\ k.op # "accept"
    /\ k.obj.role = "OWNER" /\ k.obj.active /\ k.obj.org = o

\* Outside contested rows, a copy is an OWNER's exactly if the row is.
OwnerCopy(k) ==
  Mine(k) /\ k.op # "accept" /\ k.user \notin contested =>
    /\ k.obj.role = "OWNER" <=> row[k.user].role = "OWNER"
    /\ k.obj.role = "OWNER" => k.obj.active

\* Outside contested rows, an acceptance finds the row inactive to the end.
AcceptCopy(k) ==
  /\ (Seen(k) \/ k.pc = "inserting") /\ k.op = "accept" => k.obj.active
  /\ Seen(k) /\ k.op = "accept" /\ k.user \notin contested =>
       /\ ~row[k.user].active
       /\ k.pc = "selected" =>
            "active" \in k.diff /\ ("role" \in k.diff \/ k.obj.role = row[k.user].role)

\* What a claim of OWNER says of the addresses.
Traced(cl) ==
  cl.role = "OWNER" => cl.email \in held[cl.user] /\ OwnerHeld(cl.email)

\* The addresses a call may sign are the user's.
AddressKnown(k) ==
  /\ k.claim # None => Traced(k.claim)
  /\ k.link # None /\ k.link.kind = "reset" => k.link.email \in held[k.link.user]
  /\ Mine(k) /\ k.op = "resetPassword" => k.link.email \in held[k.user]
  /\ Mine(k) /\ k.op = "changePassword" => k.claim.email \in held[k.user]
  /\ Mine(k) /\ k.op = "accept" => k.obj.email \in held[k.user]
  /\ Mine(k) /\ k.op = "confirmEmail" =>
       k.user = k.link.user /\ k.obj.email = k.link.email
  /\ k.pc = "selected" /\ k.op = "confirmEmail" =>
       "email" \in k.diff \/ k.obj.email \in held[k.user]

CallKnown(k) ==
  FounderCopy(k) /\ OwnerCopy(k) /\ AcceptCopy(k) /\ AddressKnown(k)

RowsKnown ==
  \A u \in members :
    /\ row[u].email \in held[u]
    /\ u \notin contested /\ row[u].role = "OWNER" => row[u].active

LinksKnown == \A l \in links : l.kind = "reset" => l.email \in held[l.user]

IInv ==
  /\ TypeOK /\ FounderStays /\ OwnerClaimsHold
  /\ RowsKnown /\ LinksKnown
  /\ \A c \in Calls : CallKnown(call[c])

\* A claim or a link is not the empty one.
LEMMA NoneIsNone ==
  /\ IdleCall.pc = "idle" /\ IdleCall.claim = None /\ IdleCall.link = None
  /\ CallKnown(IdleCall)
  BY DEF IdleCall, CallKnown, FounderCopy, OwnerCopy, AcceptCopy, AddressKnown,
         Mine, Seen

LEMMA IInvInit == Init => IInv
<1> SUFFICES ASSUME Init PROVE IInv
  OBVIOUS
<1>1. TypeOK
  BY TypeInit
<1>2. FounderStays /\ OwnerClaimsHold /\ RowsKnown /\ LinksKnown
  BY DEF Init, FounderStays, OwnerClaimsHold, RowsKnown, LinksKnown, members
<1>3. \A c \in Calls : CallKnown(call[c])
  BY NoneIsNone DEF Init
<1> QED
  BY <1>1, <1>2, <1>3 DEF IInv

\* A step that writes nothing, by a call that knows what it must.
LEMMA BecomesInv ==
  ASSUME IInv, TypeOK', NEW c \in Calls, NEW k, CallKnown(k), Becomes(c, k)
  PROVE  IInv'
<1>1. UNCHANGED <<row, founder, links, claims, held, contested, members>>
  BY DEF Becomes, members
<1>2. FounderStays' /\ OwnerClaimsHold' /\ RowsKnown' /\ LinksKnown'
  BY <1>1 DEF IInv, FounderStays, OwnerClaimsHold, OwnerHeld, RowsKnown, LinksKnown
<1>3. ASSUME NEW d \in Calls PROVE CallKnown(call[d])'
  <2>1. CallKnown(call'[d])
    BY DEF Becomes, IInv, TypeOK
  <2> QED
    BY <2>1, <1>1 DEF CallKnown, FounderCopy, OwnerCopy, AcceptCopy, AddressKnown,
         Mine, Seen, Traced, OwnerHeld
<1> QED
  BY <1>2, <1>3 DEF IInv

\* A load knows what the row it read tells it.
LEMMA LoadInv ==
  ASSUME IInv, TypeOK', NEW c \in Calls, NEW op \in Ops, NEW u, NEW obj,
         LoadRow(c, op, u, obj),
         op # "accept" =>
           /\ obj.role = "OWNER" <=> row[u].role = "OWNER"
           /\ row[u].role = "OWNER" => obj.active = row[u].active
           /\ obj.org = row[u].org,
         op = "accept" => call[c].pc = "checked" /\ call[c].op = "accept"
                          /\ u = call[c].user /\ obj.active
                          /\ obj.email = row[u].email,
         op = "resetPassword" => row[u].email = call[c].link.email,
         op = "changePassword" => row[u].email = call[c].claim.email,
         op = "confirmEmail" => u = call[c].link.user /\ obj.email = call[c].link.email
  PROVE  IInv'
<1> DEFINE k == [call[c] EXCEPT
                   !.pc = "loaded", !.op = op, !.user = u, !.obj = obj,
                   !.claim = IF op = "changePassword" THEN @ ELSE None]
<1>1. u \in members /\ Becomes(c, k) /\ call[c] \in CallType /\ CallKnown(call[c])
  BY DEF LoadRow, IInv, TypeOK
<1>2. /\ k.pc = "loaded" /\ k.op = op /\ k.user = u /\ k.obj = obj
      /\ k.link = call[c].link
      /\ k.claim = IF op = "changePassword" THEN call[c].claim ELSE None
  BY <1>1 DEF CallType
<1> HIDE DEF k
<1>3. RowsKnown /\ FounderStays
  BY DEF IInv
<1>4. FounderCopy(k)
  BY <1>1, <1>2, <1>3 DEF FounderCopy, FounderStays, CallKnown, Mine, Seen
<1>5. OwnerCopy(k)
  BY <1>1, <1>2, <1>3 DEF OwnerCopy, RowsKnown, Mine
<1>6. AcceptCopy(k)
  BY <1>1, <1>2 DEF AcceptCopy, CallKnown, Mine, Seen
<1>7. AddressKnown(k)
  BY <1>1, <1>2, <1>3 DEF AddressKnown, CallKnown, RowsKnown, Mine
<1> QED
  BY <1>1, <1>4, <1>5, <1>6, <1>7, BecomesInv DEF CallKnown

\* Reading keeps the invariant.
LEMMA ReadInv ==
  ASSUME IInv, TypeOK', NEW c \in Calls, ReadNext(c)
  PROVE  IInv'
<1>0. call[c] \in CallType /\ Shape(call[c]) /\ CallKnown(call[c])
  BY DEF IInv, TypeOK
<1>a. TypeOK /\ RowsKnown /\ FounderStays
  BY DEF IInv
<1>1. ASSUME NEW cl \in claims, Authenticate(c, cl) PROVE IInv'
  <2> DEFINE k == [IdleCall EXCEPT !.pc = "authed", !.claim = cl]
  <2>1. /\ k.pc = "authed" /\ k.claim = cl /\ k.link = None
    BY DEF IdleCall
  <2>2. CallKnown(k)
    BY <2>1 DEF CallKnown, FounderCopy, OwnerCopy, AcceptCopy, AddressKnown, Mine,
         Seen, Traced, IInv, OwnerClaimsHold
  <2> QED
    BY <1>1, <2>2, BecomesInv DEF Authenticate
<1>2. ASSUME NEW l \in links, OpenLink(c, l) PROVE IInv'
  <2> DEFINE k == [IdleCall EXCEPT !.pc = "opened", !.link = l]
  <2>1. /\ k.pc = "opened" /\ k.claim = None /\ k.link = l
    BY DEF IdleCall
  <2>2. CallKnown(k)
    BY <2>1 DEF CallKnown, FounderCopy, OwnerCopy, AcceptCopy, AddressKnown, Mine,
         Seen, IInv, LinksKnown
  <2> QED
    BY <1>2, <2>2, BecomesInv DEF OpenLink
<1>3. ASSUME NEW u \in Users, NEW e \in Emails, NEW o \in Orgs, NEW r \in InvitedRoles,
             CheckAcceptTaken(c, u, e, o, r)
      PROVE  IInv'
  <2> DEFINE k == [IdleCall EXCEPT !.pc = "checked", !.op = "accept", !.user = u,
                                   !.obj = NewRow(r, TRUE, e, o)]
  <2>1. /\ k.pc = "checked" /\ k.op = "accept" /\ k.user = u
        /\ k.claim = None /\ k.link = None /\ k.obj.active
    BY DEF IdleCall, NewRow
  <2>2. ~row[u].active
    BY <1>3 DEF CheckAcceptTaken
  <2>3. FounderCopy(k)
    BY <2>1, <2>2, <1>a DEF FounderCopy, FounderStays
  <2>4. CallKnown(k)
    BY <2>1, <2>2, <2>3 DEF CallKnown, OwnerCopy, AcceptCopy, AddressKnown, Mine, Seen
  <2> QED
    BY <1>3, <2>4, BecomesInv DEF CheckAcceptTaken
<1>4. ASSUME NEW e \in Emails, NEW o \in Orgs, NEW r \in InvitedRoles,
             CheckAcceptFree(c, e, o, r)
      PROVE  IInv'
  <2> DEFINE k == [IdleCall EXCEPT !.pc = "inserting", !.op = "accept",
                                   !.obj = NewRow(r, TRUE, e, o)]
  <2>1. k.pc = "inserting" /\ k.claim = None /\ k.link = None /\ k.obj.active
    BY DEF IdleCall, NewRow
  <2>2. CallKnown(k)
    BY <2>1 DEF CallKnown, FounderCopy, OwnerCopy, AcceptCopy, AddressKnown, Mine, Seen
  <2> QED
    BY <1>4, <2>2, BecomesInv DEF CheckAcceptFree
<1>5. ASSUME NEW u \in Users, LoadLogin(c, u) PROVE IInv'
  <2> DEFINE cl == ClaimOf(u, row[u].org, row[u].role, row[u].email)
             k == [IdleCall EXCEPT !.pc = "saved", !.op = "login", !.claim = cl]
  <2>1. k.pc = "saved" /\ k.claim = cl /\ k.link = None
    BY DEF IdleCall
  <2>2. Traced(cl)
    BY <1>5, <1>a DEF LoadLogin, Traced, ClaimOf, OwnerHeld, RowsKnown
  <2>3. CallKnown(k)
    BY <2>1, <2>2 DEF CallKnown, FounderCopy, OwnerCopy, AcceptCopy, AddressKnown,
         Mine, Seen
  <2> QED
    BY <1>5, <2>3, BecomesInv DEF LoadLogin
<1>6. ASSUME NEW u \in Users, LoadRemove(c, u) PROVE IInv'
  <2> DEFINE obj == [row[u] EXCEPT !.active = FALSE]
  <2>1. u \in members => obj.role = row[u].role /\ obj.org = row[u].org
    BY <1>a, MemberRow DEF RowType
  <2>2. row[u].role # "OWNER" /\ LoadRow(c, "remove", u, obj)
    BY <1>6 DEF LoadRemove, MayRemove
  <2> HIDE DEF obj
  <2> QED
    BY <2>1, <2>2, LoadInv DEF Ops, LoadRow
<1>7. ASSUME NEW u \in Users, NEW r \in Roles, LoadUpdateRole(c, u, r) PROVE IInv'
  <2> DEFINE obj == [row[u] EXCEPT !.role = r]
  <2>1. u \in members => obj.role = r /\ obj.org = row[u].org
    BY <1>a, MemberRow DEF RowType
  <2>2. row[u].role # "OWNER" /\ r # "OWNER" /\ LoadRow(c, "updateRole", u, obj)
    BY <1>7 DEF LoadUpdateRole, MayUpdateRole
  <2> HIDE DEF obj
  <2> QED
    BY <2>1, <2>2, LoadInv DEF Ops, LoadRow
<1>8. CASE LoadUpdate(c)
  BY <1>8, LoadInv DEF LoadUpdate, Ops
<1>9. ASSUME NEW u \in Users, LoadChangePassword(c, u) PROVE IInv'
  BY <1>9, LoadInv DEF LoadChangePassword, Ops, Holder
<1>10. CASE LoadVerifyEmail(c)
  <2> DEFINE u == call[c].link.user
             obj == [row[u] EXCEPT !.verified = TRUE]
  <2>1. u \in members => obj.role = row[u].role /\ obj.org = row[u].org
                         /\ obj.active = row[u].active
    BY <1>a, MemberRow DEF RowType
  <2>2. LoadRow(c, "verifyEmail", u, obj)
    BY <1>10 DEF LoadVerifyEmail
  <2> HIDE DEF obj
  <2> QED
    BY <2>1, <2>2, LoadInv DEF Ops, LoadRow
<1>11. ASSUME NEW u \in Users, LoadResetPassword(c, u) PROVE IInv'
  BY <1>11, LoadInv DEF LoadResetPassword, Ops, Holder
<1>12. CASE LoadConfirmEmail(c)
  <2> DEFINE u == call[c].link.user
             obj == [row[u] EXCEPT !.email = call[c].link.email]
  <2>1. u \in members => obj.role = row[u].role /\ obj.org = row[u].org
                         /\ obj.active = row[u].active
                         /\ obj.email = call[c].link.email
    BY <1>a, MemberRow DEF RowType
  <2>2. LoadRow(c, "confirmEmail", u, obj)
    BY <1>12 DEF LoadConfirmEmail
  <2>3. u = call[c].link.user /\ u \in members
    BY <2>2 DEF LoadRow
  <2> HIDE DEF obj, u
  <2> QED
    BY <2>1, <2>2, <2>3, LoadInv DEF Ops
<1>13. CASE LoadAccept(c)
  <2> DEFINE u == call[c].user
             obj == [call[c].obj EXCEPT !.email = row[u].email]
  <2>1. call[c].pc = "checked" /\ call[c].op = "accept" /\ call[c].obj \in RowType
    BY <1>13, <1>0 DEF LoadAccept, Shape, CallType
  <2>2. obj.email = row[u].email /\ obj.active = call[c].obj.active
    BY <2>1 DEF RowType
  <2>3. LoadRow(c, "accept", u, obj)
    BY <1>13 DEF LoadAccept
  <2>4. call[c].obj.active
    BY <2>1, <1>0 DEF CallKnown, AcceptCopy, Seen
  <2> HIDE DEF obj
  <2> QED
    BY <2>1, <2>2, <2>3, <2>4, LoadInv DEF Ops
<1>14. CASE Select(c)
  <2> DEFINE k == call[c]
             d == {x \in Carried(k.op) : k.obj[x] # row[k.user][x]}
             s == [k EXCEPT !.pc = "selected", !.diff = d]
  <2>1. k.pc = "loaded" /\ Becomes(c, s)
    BY <1>14 DEF Select
  <2>2. /\ s.pc = "selected" /\ s.op = k.op /\ s.user = k.user /\ s.diff = d
        /\ s.obj = k.obj /\ s.claim = k.claim /\ s.link = k.link
    <3> HIDE DEF d
    <3> QED
      BY <1>0 DEF CallType
  <2>3. k.user \in members
    BY <2>1, <1>0 DEF Shape
  <2>4. /\ k.op = "accept" => ("active" \in d \/ k.obj.active = row[k.user].active)
                              /\ ("role" \in d \/ k.obj.role = row[k.user].role)
        /\ k.op = "confirmEmail" => "email" \in d \/ k.obj.email = row[k.user].email
    BY DEF Carried, Columns
  <2> HIDE DEF s, d
  <2>5. FounderCopy(s) /\ OwnerCopy(s)
    BY <2>1, <2>2, <1>0 DEF CallKnown, FounderCopy, OwnerCopy, Mine, Seen
  <2>6. AcceptCopy(s)
    BY <2>1, <2>2, <2>4, <1>0 DEF CallKnown, AcceptCopy, Mine, Seen
  <2>7. AddressKnown(s)
    BY <2>1, <2>2, <2>3, <2>4, <1>0, <1>a DEF CallKnown, AddressKnown, Mine, RowsKnown
  <2> QED
    BY <2>1, <2>5, <2>6, <2>7, BecomesInv DEF CallKnown
<1>15. CASE Abandon(c)
  BY <1>15, NoneIsNone, BecomesInv DEF Abandon
<1> QED
  BY <1>1, <1>2, <1>3, <1>4, <1>5, <1>6, <1>7, <1>8, <1>9, <1>10, <1>11, <1>12,
     <1>13, <1>14, <1>15 DEF ReadNext, LoadNext

-----------------------------------------------------------------------------
\* What a call knows of addresses it knows for ever: the histories only grow, and
\* an OWNER that vouched for an address still does.
LEMMA AddressKept ==
  ASSUME NEW k, AddressKnown(k),
         Mine(k) => k.user \in Users,
         k.claim # None => k.claim.user \in Users,
         k.link # None => k.link.user \in Users,
         \A v \in Users : held[v] \subseteq held'[v],
         \A e : OwnerHeld(e) => OwnerHeld(e)'
  PROVE  AddressKnown(k)'
<1>1. k.claim # None => Traced(k.claim)'
  BY DEF AddressKnown, Traced
<1>2. Mine(k) /\ k.op = "confirmEmail" => k.user = k.link.user /\ k.obj.email = k.link.email
  BY DEF AddressKnown
<1>3. /\ k.link # None /\ k.link.kind = "reset" => k.link.email \in held'[k.link.user]
      /\ Mine(k) /\ k.op = "resetPassword" => k.link.email \in held'[k.user]
      /\ Mine(k) /\ k.op = "changePassword" => k.claim.email \in held'[k.user]
      /\ Mine(k) /\ k.op = "accept" => k.obj.email \in held'[k.user]
      /\ k.pc = "selected" /\ k.op = "confirmEmail" =>
           "email" \in k.diff \/ k.obj.email \in held'[k.user]
  BY DEF AddressKnown, Mine
<1> QED
  BY <1>1, <1>2, <1>3 DEF AddressKnown, Mine

\* A call whose row is not written knows what it knew.
LEMMA KnownKept ==
  ASSUME NEW k, CallKnown(k),
         Seen(k) => row'[k.user] = row[k.user] /\ k.user \in Users,
         Mine(k) => Seen(k),
         k.claim # None => k.claim.user \in Users,
         k.link # None => k.link.user \in Users,
         \A v \in Users : held[v] \subseteq held'[v],
         contested \subseteq contested',
         \A e : OwnerHeld(e) => OwnerHeld(e)',
         \A o \in Orgs : founder'[o] = founder[o] \/ (Seen(k) => k.user # founder'[o])
  PROVE  CallKnown(k)'
<1>1. FounderCopy(k)'
  BY DEF CallKnown, FounderCopy, Seen, Mine
<1>2. OwnerCopy(k)' /\ AcceptCopy(k)'
  BY DEF CallKnown, OwnerCopy, AcceptCopy, Seen, Mine
<1>3. AddressKnown(k)'
  BY AddressKept DEF CallKnown
<1> QED
  BY <1>1, <1>2, <1>3 DEF CallKnown

\* Who a typed call names.
LEMMA CallNames ==
  ASSUME TypeOK, NEW c \in Calls
  PROVE  /\ Seen(call[c]) => call[c].user \in members /\ call[c].user \in Users
         /\ Mine(call[c]) => Seen(call[c])
         /\ call[c].claim # None => call[c].claim \in Claim /\ call[c].claim.user \in Users
         /\ call[c].link # None => call[c].link \in Link /\ call[c].link.user \in Users
  BY MemberRow DEF TypeOK, Shape, CallType, Seen, Mine, Claim, Link

\* A new row: of a user nobody vouches for and nobody holds.
LEMMA NewRowInv ==
  ASSUME IInv, NEW u \in Users, u \notin members, NEW r \in RowType, r.active,
         row' = [row EXCEPT ![u] = r],
         held' = [held EXCEPT ![u] = @ \cup {r.email}],
         UNCHANGED <<claims, contested>>,
         \A o \in Orgs : founder'[o] = founder[o]
                         \/ (founder'[o] = u /\ r.role = "OWNER" /\ r.org = o),
         \A l \in links' : l \in links \/ l.kind # "reset"
  PROVE  /\ FounderStays' /\ OwnerClaimsHold' /\ RowsKnown' /\ LinksKnown'
         /\ \A e : OwnerHeld(e) => OwnerHeld(e)'
         /\ r.role = "OWNER" => OwnerHeld(r.email)'
         /\ r.email \in held'[u]
         /\ \A c \in Calls : CallKnown(call[c]) /\ call'[c] = call[c] => CallKnown(call[c])'
<1>0. TypeOK
  BY DEF IInv
<1>1. /\ row'[u] = r /\ \A v \in Users : v # u => row'[v] = row[v]
      /\ held'[u] = held[u] \cup {r.email} /\ \A v \in Users : v # u => held'[v] = held[v]
      /\ members \subseteq Users /\ claims \subseteq Claim /\ links \subseteq Link
      /\ held \in [Users -> SUBSET Emails]
  BY <1>0 DEF TypeOK, members
<1>2. members' = members \cup {u}
  BY <1>1, ConstantsAssumption DEF members
<1>3. \A e : OwnerHeld(e) => OwnerHeld(e)'
  BY <1>1, <1>2 DEF OwnerHeld
<1>4. FounderStays'
  <2> SUFFICES ASSUME NEW o \in Orgs, founder'[o] # None
               PROVE  LET x == row'[founder'[o]] IN
                      founder'[o] \in members' /\ x.role = "OWNER" /\ x.active /\ x.org = o
    BY DEF FounderStays
  <2>1. CASE founder'[o] = founder[o]
    <3>1. founder[o] \in members /\ founder[o] # u
      BY <2>1 DEF IInv, FounderStays
    <3> QED
      BY <2>1, <3>1, <1>1, <1>2 DEF IInv, FounderStays
  <2>2. CASE founder'[o] = u /\ r.role = "OWNER" /\ r.org = o
    BY <2>2, <1>1, <1>2
  <2> QED
    BY <2>1, <2>2
<1>5. \A v \in Users : held[v] \subseteq held'[v]
  BY <1>1
<1>6. OwnerClaimsHold'
  BY <1>1, <1>3, <1>5 DEF IInv, OwnerClaimsHold, Claim
<1>7. RowsKnown'
  BY <1>1, <1>2 DEF IInv, RowsKnown
<1>8. LinksKnown'
  BY <1>1, <1>5 DEF IInv, LinksKnown, Link
<1>9. r.role = "OWNER" => OwnerHeld(r.email)'
  BY <1>1, <1>2 DEF OwnerHeld
<1>10. ASSUME NEW c \in Calls, CallKnown(call[c]), call'[c] = call[c]
       PROVE  CallKnown(call[c])'
  <2> DEFINE k == call[c]
  <2>1. Seen(k) => k.user # u
    BY <1>0, CallNames
  <2>2. CallKnown(k)
    BY <1>10
  <2> HIDE DEF k
  <2>3. /\ Seen(k) => row'[k.user] = row[k.user] /\ k.user \in Users
        /\ Mine(k) => Seen(k)
        /\ k.claim # None => k.claim.user \in Users
        /\ k.link # None => k.link.user \in Users
    BY <2>1, <1>0, <1>1, CallNames DEF k
  <2>4. \A o \in Orgs : founder'[o] = founder[o] \/ (Seen(k) => k.user # founder'[o])
    BY <2>1
  <2> QED
    BY <2>2, <2>3, <2>4, <1>3, <1>5, <1>10, KnownKept
       DEF k, CallKnown, FounderCopy, OwnerCopy, AcceptCopy, AddressKnown, Seen, Mine,
           Traced, OwnerHeld
<1> QED
  BY <1>1, <1>3, <1>4, <1>6, <1>7, <1>8, <1>9, <1>10

LEMMA RegisterInv ==
  ASSUME IInv, TypeOK', NEW u \in Users, NEW o \in Orgs, NEW e \in Emails, Register(u, o, e)
  PROVE  IInv'
<1> DEFINE r == NewRow("OWNER", FALSE, e, o)
<1>1. r \in RowType /\ r.active /\ r.role = "OWNER" /\ r.org = o /\ r.email = e
  BY DEF NewRow, RowType, Roles
<1>2. /\ u \notin members
      /\ row' = [row EXCEPT ![u] = r]
      /\ held' = [held EXCEPT ![u] = @ \cup {r.email}]
      /\ UNCHANGED <<claims, contested, call>>
  BY <1>1 DEF Register
<1>3. \A p \in Orgs : founder'[p] = founder[p]
                      \/ (founder'[p] = u /\ r.role = "OWNER" /\ r.org = p)
  BY <1>1 DEF Register, IInv, TypeOK
<1>4. \A l \in links' : l \in links \/ l.kind # "reset"
  BY DEF Register, SendLink
<1> HIDE DEF r
<1>5. /\ FounderStays' /\ OwnerClaimsHold' /\ RowsKnown' /\ LinksKnown'
      /\ \A c \in Calls : CallKnown(call[c]) /\ call'[c] = call[c] => CallKnown(call[c])'
  BY <1>1, <1>2, <1>3, <1>4, NewRowInv
<1> QED
  BY <1>2, <1>5 DEF IInv

LEMMA InsertInv ==
  ASSUME IInv, TypeOK', NEW c \in Calls, NEW u \in Users, InsertAccept(c, u)
  PROVE  IInv'
<1>a. PICK r : r = call[c].obj
  OBVIOUS
<1>b. PICK a : a = After([call[c] EXCEPT !.user = u])
  OBVIOUS
<1> DEFINE k == [call[c] EXCEPT !.user = u]
<1>0. call[c] \in CallType /\ Shape(call[c]) /\ call[c].pc = "inserting"
  BY DEF IInv, TypeOK, InsertAccept
<1>1. call[c].op = "accept" /\ r \in RowType
  BY <1>0, <1>a DEF Shape, CallType
<1>2. k.op = "accept" /\ k.user = u /\ k.obj = r /\ k.link = call[c].link
  BY <1>0, <1>1, <1>a DEF CallType
<1> HIDE DEF k
<1>3. a = [IdleCall EXCEPT !.pc = "saved", !.op = "accept",
                    !.claim = ClaimOf(u, r.org, r.role, r.email), !.link = k.link]
  BY <1>2, <1>b DEF After, Signed, k
<1>4. /\ a.pc = "saved" /\ a.link = call[c].link
      /\ a.claim = ClaimOf(u, r.org, r.role, r.email)
  BY <1>2, <1>3 DEF IdleCall
<1>5. call'[c] = a /\ \A d \in Calls \ {c} : call'[d] = call[d]
  BY <1>b DEF InsertAccept, IInv, TypeOK
<1>6. r.active
  BY <1>0, <1>1, <1>a DEF IInv, CallKnown, AcceptCopy
<1>7. /\ u \notin members
      /\ row' = [row EXCEPT ![u] = r]
      /\ held' = [held EXCEPT ![u] = @ \cup {r.email}]
      /\ UNCHANGED <<claims, contested, links, founder>>
  BY <1>a DEF InsertAccept
<1>8. /\ FounderStays' /\ OwnerClaimsHold' /\ RowsKnown' /\ LinksKnown'
      /\ \A e : OwnerHeld(e) => OwnerHeld(e)'
      /\ r.role = "OWNER" => OwnerHeld(r.email)'
      /\ r.email \in held'[u]
      /\ \A d \in Calls : CallKnown(call[d]) /\ call'[d] = call[d] => CallKnown(call[d])'
  BY <1>1, <1>6, <1>7, NewRowInv
<1>9. CallKnown(call[c])'
  <2>1. Traced(a.claim)'
    BY <1>4, <1>8 DEF Traced, ClaimOf
  <2>2. call[c].link # None /\ call[c].link.kind = "reset" =>
          call[c].link.email \in held'[call[c].link.user]
    <3>1. call[c].link # None => call[c].link.user \in Users
      BY CallNames DEF IInv
    <3> QED
      BY <1>7, <3>1 DEF IInv, CallKnown, AddressKnown, TypeOK
  <2>3. /\ call'[c].pc = "saved" /\ call'[c].link = call[c].link
        /\ call'[c].claim = a.claim
    BY <1>4, <1>5
  <2>4. AddressKnown(call[c])'
    BY <2>1, <2>2, <2>3, <1>4 DEF AddressKnown, Mine, Traced, OwnerHeld
  <2> QED
    BY <2>3, <2>4 DEF CallKnown, FounderCopy, OwnerCopy, AcceptCopy, Mine, Seen
<1>10. ASSUME NEW d \in Calls PROVE CallKnown(call[d])'
  BY <1>5, <1>8, <1>9 DEF IInv
<1> QED
  BY <1>8, <1>10 DEF IInv

\* What an UPDATE makes of a row that no acceptance contests.
LEMMA WrittenOwner ==
  ASSUME IInv, NEW c \in Calls, call[c].pc = "selected",
         call[c].user \notin contested
  PROVE  LET k == call[c]
             r == row[k.user]
             w == Written(k, r)
         IN /\ r.role = "OWNER" => k.op # "accept" /\ w.role = "OWNER" /\ w.active
            /\ k.op # "accept" => (w.role = "OWNER" <=> r.role = "OWNER")
            /\ k.op # "accept" => (k.obj.role = "OWNER" => r.role = "OWNER")
            /\ k.op = "accept" => w.role = k.obj.role /\ w.active
            /\ w.role = "OWNER" => w.active
<1> DEFINE k == call[c]
           r == row[k.user]
           w == Written(k, r)
<1>1. /\ k.user \in members /\ r \in RowType /\ k.obj \in RowType /\ CallKnown(k)
      /\ r.role = "OWNER" => r.active
  BY UpdateTypes DEF IInv, RowsKnown
<1>2. /\ w.role = IF "role" \in k.diff THEN k.obj.role ELSE r.role
      /\ w.active = IF "active" \in k.diff THEN k.obj.active ELSE r.active
  BY DEF Written
<1>3. k.op # "accept" => /\ k.obj.role = "OWNER" <=> r.role = "OWNER"
                         /\ k.obj.role = "OWNER" => k.obj.active
  BY <1>1 DEF CallKnown, OwnerCopy, Mine
<1>4. k.op = "accept" => /\ ~r.active /\ k.obj.active /\ "active" \in k.diff
                         /\ "role" \in k.diff \/ k.obj.role = r.role
  BY <1>1 DEF CallKnown, AcceptCopy, Seen
<1> HIDE DEF w, r, k
<1>5. CASE k.op = "accept"
  BY <1>1, <1>2, <1>4, <1>5 DEF w, r, k
<1>6. CASE k.op # "accept"
  BY <1>1, <1>2, <1>3, <1>6 DEF w, r, k
<1> QED
  BY <1>5, <1>6

LEMMA UpdateInv ==
  ASSUME IInv, TypeOK', NEW c \in Calls, Update(c)
  PROVE  IInv'
<1>a. PICK k : k = call[c]
  OBVIOUS
<1>b. PICK v : v = k.user
  OBVIOUS
<1>c. PICK w : w = Written(k, row[v])
  OBVIOUS
<1>0. TypeOK /\ k.pc = "selected"
  BY <1>a DEF IInv, Update
<1>1. /\ k \in CallType /\ v \in members /\ v \in Users /\ row[v] \in RowType
      /\ k.obj \in RowType /\ w \in RowType /\ CallKnown(k)
      /\ k.op = "changePassword" => k.claim \in Claim
      /\ k.op \in {"resetPassword", "confirmEmail"} => k.link \in Link
  BY <1>0, <1>a, <1>b, <1>c, UpdateTypes DEF IInv
<1>2. /\ row'[v] = w /\ \A u \in Users : u # v => row'[u] = row[u]
      /\ held'[v] = held[v] \cup {w.email}
      /\ \A u \in Users : u # v => held'[u] = held[u]
      /\ contested \subseteq contested' /\ contested' \subseteq contested \cup {v}
      /\ call'[c] = After(k) /\ \A d \in Calls \ {c} : call'[d] = call[d]
      /\ UNCHANGED <<founder, links, claims>>
  BY <1>0, <1>1, <1>a, <1>b, <1>c DEF Update, TypeOK
<1>3. v \notin contested' =>
        /\ v \notin contested
        /\ \A d \in Calls \ {c} : Seen(call[d]) /\ call[d].user = v =>
             k.op # "accept" /\ call[d].op # "accept"
  BY <1>a, <1>b DEF Update, Holding, Seen
<1>4. v \notin contested =>
        /\ row[v].role = "OWNER" => k.op # "accept" /\ w.role = "OWNER" /\ w.active
        /\ k.op # "accept" => (w.role = "OWNER" <=> row[v].role = "OWNER")
        /\ k.op # "accept" => (k.obj.role = "OWNER" => row[v].role = "OWNER")
        /\ k.op = "accept" => w.role = k.obj.role /\ w.active
        /\ w.role = "OWNER" => w.active
  BY <1>0, <1>a, <1>b, <1>c, WrittenOwner
<1>5. members' = members
  BY <1>1, <1>2, ConstantsAssumption DEF members
<1>6. /\ w.email = IF "email" \in k.diff THEN k.obj.email ELSE row[v].email
      /\ w.role = IF "role" \in k.diff THEN k.obj.role ELSE row[v].role
      /\ w.active = IF "active" \in k.diff THEN k.obj.active ELSE row[v].active
      /\ w.org = IF "org" \in k.diff THEN k.obj.org ELSE row[v].org
  BY <1>c DEF Written
<1>7. \A u \in Users : held[u] \subseteq held'[u]
  BY <1>1, <1>2
<1>8. \A e : OwnerHeld(e) => OwnerHeld(e)'
  <2> SUFFICES ASSUME NEW e, NEW u \in members, e \in held[u],
                      u \in contested \/ (row[u].role = "OWNER" /\ row[u].active)
               PROVE  e \in held'[u] /\ (u \in contested'
                                         \/ (row'[u].role = "OWNER" /\ row'[u].active))
    BY <1>5 DEF OwnerHeld
  <2>0. u \in Users /\ e \in held'[u]
    BY <1>7 DEF members
  <2>1. CASE u = v
    BY <2>0, <2>1, <1>2, <1>3, <1>4
  <2>2. CASE u # v
    BY <2>0, <2>2, <1>2
  <2> QED
    BY <2>1, <2>2
<1>9. FounderStays'
  <2> SUFFICES ASSUME NEW o \in Orgs, founder[o] # None
               PROVE  LET x == row'[founder[o]] IN
                      founder[o] \in members /\ x.role = "OWNER" /\ x.active /\ x.org = o
    BY <1>2, <1>5 DEF FounderStays
  <2>1. LET x == row[founder[o]] IN
        founder[o] \in members /\ x.role = "OWNER" /\ x.active /\ x.org = o
    BY DEF IInv, FounderStays
  <2>2. CASE founder[o] = v
    <3>1. k.obj.role = "OWNER" /\ k.obj.active /\ k.obj.org = o
      BY <2>2, <1>0, <1>1, <1>b DEF CallKnown, FounderCopy, Seen
    <3> QED
      BY <2>1, <2>2, <3>1, <1>2, <1>6
  <2>3. CASE founder[o] # v
    BY <2>1, <2>3, <1>2 DEF members
  <2> QED
    BY <2>2, <2>3
<1>10. OwnerClaimsHold'
  <2>1. claims \subseteq Claim
    BY <1>0 DEF TypeOK
  <2> QED
    BY <2>1, <1>2, <1>7, <1>8 DEF IInv, OwnerClaimsHold, Claim
<1>11. RowsKnown'
  <2> SUFFICES ASSUME NEW u \in members
               PROVE  /\ row'[u].email \in held'[u]
                      /\ u \notin contested' /\ row'[u].role = "OWNER" => row'[u].active
    BY <1>5 DEF RowsKnown
  <2>1. CASE u = v
    BY <2>1, <1>2, <1>3, <1>4
  <2>2. CASE u # v
    BY <2>2, <1>2 DEF IInv, RowsKnown, members
  <2> QED
    BY <2>1, <2>2
<1>12. LinksKnown'
  BY <1>0, <1>2, <1>7 DEF IInv, LinksKnown, TypeOK, Link
<1>13. ASSUME NEW d \in Calls, d # c PROVE CallKnown(call[d])'
  <2>a. PICK j : j = call[d]
    OBVIOUS
  <2>1. /\ CallKnown(j)
        /\ Seen(j) => j.user \in members /\ j.user \in Users
        /\ Mine(j) => Seen(j)
        /\ j.claim # None => j.claim.user \in Users
        /\ j.link # None => j.link.user \in Users
    BY <1>0, <2>a, CallNames DEF IInv
  <2>2. Seen(j) /\ j.user = v /\ v \notin contested' => k.op # "accept" /\ j.op # "accept"
    BY <1>3, <1>13, <2>a
  <2>3. call'[d] = j
    BY <1>2, <1>13, <2>a
  <2>4. AddressKnown(j)'
    BY <2>1, <1>7, <1>8, AddressKept DEF CallKnown
  <2>5. FounderCopy(j)'
    BY <2>1, <1>2 DEF CallKnown, FounderCopy
  <2>6. OwnerCopy(j)'
    <3>1. CASE j.user = v
      BY <3>1, <2>1, <2>2, <1>2, <1>3, <1>4 DEF CallKnown, OwnerCopy
    <3>2. CASE j.user # v
      BY <3>2, <2>1, <1>2 DEF CallKnown, OwnerCopy
    <3> QED
      BY <3>1, <3>2
  <2>7. AcceptCopy(j)'
    <3>1. CASE j.user = v
      BY <3>1, <2>1, <2>2, <1>2, <1>3 DEF CallKnown, AcceptCopy
    <3>2. CASE j.user # v
      BY <3>2, <2>1, <1>2 DEF CallKnown, AcceptCopy
    <3> QED
      BY <3>1, <3>2
  <2>8. CallKnown(j)'
    BY <2>4, <2>5, <2>6, <2>7 DEF CallKnown
  <2> QED
    BY <2>3, <2>8 DEF CallKnown, FounderCopy, OwnerCopy, AcceptCopy, AddressKnown,
       Seen, Mine, Traced, OwnerHeld
<1>14. k.obj.role = "OWNER" /\ k.op # "updateRole" => \A e \in held'[v] : OwnerHeld(e)'
  <2>1. k.obj.role = "OWNER" => v \in contested' \/ (row'[v].role = "OWNER" /\ row'[v].active)
    BY <1>2, <1>3, <1>4
  <2> QED
    BY <2>1, <1>1, <1>5 DEF OwnerHeld
<1>15. CallKnown(call[c])'
  <2>a. PICK a : a = After(k)
    OBVIOUS
  <2>1. k.op \in {"remove", "updateRole", "update"} \/
        /\ a.pc = "saved" /\ a.claim = Signed(k) /\ a.link = k.link
    BY <2>a DEF After, IdleCall
  <2>2. k.op \in {"remove", "updateRole", "update"} => a = IdleCall
    BY <2>a DEF After
  <2>3. k.link # None /\ k.link.kind = "reset" => k.link.email \in held'[k.link.user]
    <3>1. k.link # None => k.link.user \in Users
      BY <1>0, <1>a, CallNames
    <3> QED
      BY <3>1, <1>1, <1>7 DEF CallKnown, AddressKnown
  <2>4. AddressKnown(k) /\ Mine(k)
    BY <1>0, <1>1 DEF CallKnown, Mine
  <2>5. ASSUME Signed(k) # None, Signed(k).role = "OWNER"
        PROVE  Signed(k).email \in held'[Signed(k).user] /\ OwnerHeld(Signed(k).email)'
    <3>1. CASE k.op = "resetPassword"
      <4>1. Signed(k) = ClaimOf(k.link.user, k.link.org, k.obj.role, k.link.email)
        BY <3>1 DEF Signed
      <4>2. k.link \in Link /\ k.link # None /\ k.link.kind = "reset"
        BY <3>1, <1>0, <1>1, <1>a DEF TypeOK, Shape
      <4>3. k.link.email \in held'[v]
        BY <3>1, <2>4, <1>1, <1>7, <1>b DEF AddressKnown
      <4> QED
        BY <3>1, <4>1, <4>2, <4>3, <2>3, <2>5, <1>14 DEF ClaimOf
    <3>2. CASE k.op = "confirmEmail"
      <4>1. Signed(k) = ClaimOf(k.link.user, k.link.org, k.obj.role, k.link.email)
        BY <3>2 DEF Signed
      <4>2. v = k.link.user /\ k.obj.email = k.link.email
        BY <3>2, <2>4, <1>b DEF AddressKnown
      <4>3. k.link.email \in held'[v]
        BY <3>2, <4>2, <2>4, <1>0, <1>1, <1>2, <1>6, <1>b DEF AddressKnown
      <4> QED
        BY <3>2, <4>1, <4>2, <4>3, <2>5, <1>14 DEF ClaimOf
    <3>3. CASE k.op = "changePassword"
      <4>1. Signed(k) = ClaimOf(v, k.obj.org, k.claim.role, k.claim.email)
        BY <3>3, <1>b DEF Signed
      <4>2. k.claim \in Claim /\ k.claim # None
        BY <3>3, <1>1, ConstantsAssumption
      <4>3. k.claim.email \in held'[v]
        BY <3>3, <2>4, <1>1, <1>7, <1>b DEF AddressKnown
      <4>4. k.claim.role = "OWNER" => OwnerHeld(k.claim.email)'
        BY <4>2, <2>4, <1>8 DEF AddressKnown, Traced
      <4> QED
        BY <4>1, <4>3, <4>4, <2>5 DEF ClaimOf
    <3>4. CASE k.op = "accept"
      <4>1. Signed(k) = ClaimOf(v, k.obj.org, k.obj.role, k.obj.email)
        BY <3>4, <1>b DEF Signed
      <4>2. k.obj.email \in held'[v]
        BY <3>4, <2>4, <1>1, <1>7, <1>b DEF AddressKnown
      <4> QED
        BY <3>4, <4>1, <4>2, <2>5, <1>14 DEF ClaimOf
    <3> QED
      BY <2>5, <3>1, <3>2, <3>3, <3>4 DEF Signed
  <2>6. call'[c] = a
    BY <1>2, <2>a
  <2>7. CASE k.op \in {"remove", "updateRole", "update"}
    BY <2>2, <2>6, <2>7, NoneIsNone DEF CallKnown, FounderCopy, OwnerCopy, AcceptCopy,
       AddressKnown, Seen, Mine
  <2>8. CASE a.pc = "saved" /\ a.claim = Signed(k) /\ a.link = k.link
    <3>1. AddressKnown(call[c])'
      BY <2>3, <2>5, <2>6, <2>8 DEF AddressKnown, Mine, Traced, OwnerHeld
    <3> QED
      BY <3>1, <2>6, <2>8 DEF CallKnown, FounderCopy, OwnerCopy, AcceptCopy, Seen, Mine
  <2> QED
    BY <2>1, <2>7, <2>8
<1> QED
  BY <1>9, <1>10, <1>11, <1>12, <1>13, <1>15 DEF IInv

\* Links come and go; a reset link is sent to an address its user has.
LEMMA LinkInv ==
  ASSUME IInv, TypeOK', UNCHANGED <<row, founder, held, contested>>,
         \A l \in links' : l \in links \/ l.kind # "reset" \/ l.email \in held[l.user],
         \A cl \in claims' : cl \in claims
                             \/ \E c \in Calls : call[c].claim = cl /\ cl # None,
         \A c \in Calls : call'[c] \in {call[c], IdleCall}
  PROVE  IInv'
<1>1. members' = members
  BY DEF members
<1>2. FounderStays' /\ RowsKnown'
  BY <1>1 DEF IInv, FounderStays, RowsKnown
<1>3. LinksKnown'
  BY DEF IInv, LinksKnown
<1>4. OwnerClaimsHold'
  BY <1>1 DEF IInv, OwnerClaimsHold, OwnerHeld, CallKnown, AddressKnown, Traced
<1>5. ASSUME NEW d \in Calls PROVE CallKnown(call[d])'
  <2>1. CallKnown(call'[d])
    BY NoneIsNone DEF IInv
  <2> QED
    BY <2>1, <1>1 DEF CallKnown, FounderCopy, OwnerCopy, AcceptCopy, AddressKnown,
         Mine, Seen, Traced, OwnerHeld
<1> QED
  BY <1>2, <1>3, <1>4, <1>5 DEF IInv

LEMMA IInvStep == IInv /\ [Next]_vars => IInv'
<1> SUFFICES ASSUME IInv, [Next]_vars PROVE IInv'
  OBVIOUS
<1>0. TypeOK /\ TypeOK'
  BY TypeStep DEF IInv
<1>1. ASSUME NEW u \in Users, NEW o \in Orgs, NEW e \in Emails, Register(u, o, e)
      PROVE  IInv'
  BY <1>0, <1>1, RegisterInv
<1>2. ASSUME NEW u \in Users, ResendVerifyEmail(u) \/ ForgotPassword(u) PROVE IInv'
  <2>1. UNCHANGED <<row, founder, held, contested, claims, call>> /\ u \in members
    BY <1>2 DEF ResendVerifyEmail, ForgotPassword
  <2>2. \A l \in links' : l \in links \/ l.kind # "reset" \/ l.email \in held[l.user]
    BY <1>2 DEF ResendVerifyEmail, ForgotPassword, SendLink, IInv, RowsKnown
  <2> QED
    BY <1>0, <2>1, <2>2, LinkInv
<1>3. ASSUME NEW l \in links, LinkExpires(l) PROVE IInv'
  BY <1>0, <1>3, LinkInv DEF LinkExpires
<1>4. ASSUME NEW cl \in claims, TokenExpires(cl) PROVE IInv'
  BY <1>0, <1>4, LinkInv DEF TokenExpires
<1>5. ASSUME NEW c \in Calls, ReadNext(c) PROVE IInv'
  BY <1>0, <1>5, ReadInv
<1>6. ASSUME NEW c \in Calls, NEW e \in Emails, ChangeEmail(c, e) PROVE IInv'
  <2>1. /\ UNCHANGED <<row, founder, held, contested, claims>>
        /\ \A d \in Calls : call'[d] \in {call[d], IdleCall}
        /\ \A l \in links' : l \in links \/ l.kind # "reset"
    BY <1>6, <1>0 DEF ChangeEmail, SendLink, TypeOK
  <2> QED
    BY <1>0, <2>1, LinkInv
<1>7. ASSUME NEW c \in Calls, NEW u \in Users, InsertAccept(c, u) PROVE IInv'
  BY <1>0, <1>7, InsertInv
<1>8. ASSUME NEW c \in Calls, Update(c) PROVE IInv'
  BY <1>0, <1>8, UpdateInv
<1>9. ASSUME NEW c \in Calls, Finish(c) PROVE IInv'
  <2>1. /\ UNCHANGED <<row, founder, held, contested>>
        /\ \A d \in Calls : call'[d] \in {call[d], IdleCall}
        /\ \A l \in links' : l \in links
        /\ \A cl \in claims' : cl \in claims \/ (call[c].claim = cl /\ cl # None)
    BY <1>9, <1>0 DEF Finish, TypeOK
  <2> QED
    BY <1>0, <2>1, LinkInv
<1>10. CASE UNCHANGED vars
  BY <1>10, <1>0, LinkInv DEF vars
<1> QED
  BY <1>1, <1>2, <1>3, <1>4, <1>5, <1>6, <1>7, <1>8, <1>9, <1>10 DEF Next, CallNext

\* No organisation loses its founding OWNER, however the calls interleave.
THEOREM FounderCorrect == Spec => []FounderStays
<1>1. IInv => FounderStays
  BY DEF IInv
<1> QED
  BY <1>1, IInvInit, IInvStep, PTL DEF Spec

\* A claim of OWNER names an address its user and an OWNER have held.
THEOREM OwnerClaimsCorrect == Spec => []OwnerClaimsHold
<1>1. IInv => OwnerClaimsHold
  BY DEF IInv
<1> QED
  BY <1>1, IInvInit, IInvStep, PTL DEF Spec

=============================================================================
