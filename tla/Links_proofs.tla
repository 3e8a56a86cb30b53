----------------------------- MODULE Links_proofs -----------------------------
(***************************************************************************)
(* What Links guarantees for every number of users, addresses, calls and   *)
(* links.                                                                  *)
(***************************************************************************)
EXTENDS Links, TLAPS

-----------------------------------------------------------------------------
(* The inductive invariant.  Until a user opens a first link, everything   *)
(* about the account agrees on one address: the row, the copies calls hold *)
(* of it and the links alive, none of which confirms a change.  From then  *)
(* on every address the row can get is one of those proven.                *)

HasCopy(c) == call[c].pc \in {"loaded", "selected"}
Holds(c) == HasCopy(c) /\ call[c].op \in Kinds

\* A new account is unverified, any other stands under a proven address.
RowsSound ==
  \A u \in Users :
    IF proven[u] = {} THEN ~row[u].verified ELSE row[u].email \in proven[u]

\* A link about a new account was mailed to its address.
LinksSound ==
  \A l \in links :
    /\ l.email = l.to
    /\ proven[l.user] = {} => l.kind # "change" /\ l.to = row[l.user].email

\* A link being redeemed proved an address of the user it names.
OpenedSound ==
  \A c \in Calls :
    call[c].pc = "opened" \/ Holds(c) =>
      /\ call[c].link.email = call[c].link.to
      /\ call[c].link.to \in proven[call[c].link.user]

\* A copy of a row could be written back without harm.
CopiesSound ==
  \A c \in Calls :
    HasCopy(c) =>
      LET k == call[c] IN
      /\ k.base.email \in Addresses
      /\ IF proven[k.user] = {}
         THEN ~k.base.verified /\ k.base.email = row[k.user].email
         ELSE k.base.email \in proven[k.user]
      /\ k.op \in {"verify", "change"} => k.user = k.link.user
      /\ k.op = "reset" /\ ~k.stale => row[k.user].email = k.link.to
      /\ k.op = "accept" => proven[k.user] # {}

\* Who accepts an invitation has proven its address.
CheckedSound ==
  \A c \in Calls : call[c].pc = "checked" => proven[call[c].user] # {}

IInv ==
  /\ TypeOK /\ RowsSound /\ LinksSound
  /\ OpenedSound /\ CopiesSound /\ CheckedSound

-----------------------------------------------------------------------------
LEMMA InitInv == Init => IInv
  BY DEF Init, IInv, TypeOK, RowsSound, LinksSound, OpenedSound, CopiesSound,
         CheckedSound, HasCopy, Holds, NoRow, RowType, IdleCall, CallType

\* What the types say of a call, by its pc.
LEMMA CallFacts ==
  ASSUME TypeOK, NEW c \in Calls
  PROVE  /\ call[c].pc \in {"opened", "saved"} => call[c].link \in LinkType
         /\ call[c].pc = "checked" => call[c].user \in Users
         /\ HasCopy(c) =>
              /\ call[c].user \in Users /\ call[c].base \in RowType
              /\ call[c].stale \in BOOLEAN /\ call[c].diff \subseteq Columns
              /\ call[c].op \in Kinds => call[c].link \in LinkType
  BY DEF TypeOK, CallType, IdleCall, Kinds, HasCopy

\* Storing a link of an account whose address is the one it is mailed to, or
\* that has proved one, keeps the invariant.
LEMMA IssueInv ==
  ASSUME IInv, NEW l \in LinkType, Issue(l), UNCHANGED row, l.email = l.to,
         proven[l.user] = {} => l.kind # "change" /\ l.to = row[l.user].email
  PROVE  IInv'
<1>1. /\ links' \subseteq LinkType /\ UNCHANGED <<row, call, proven>>
      /\ \A k \in links' : k \in links \/ k = l
  BY DEF Issue, IInv, TypeOK
<1>2. TypeOK' /\ RowsSound'
  BY <1>1 DEF IInv, TypeOK, RowsSound
<1>3. LinksSound'
  BY <1>1 DEF IInv, LinksSound
<1>4. OpenedSound' /\ CopiesSound' /\ CheckedSound'
  BY <1>1 DEF IInv, OpenedSound, CopiesSound, CheckedSound, HasCopy, Holds
<1> QED
  BY <1>2, <1>3, <1>4 DEF IInv

LEMMA RegisterInv ==
  ASSUME IInv, NEW u \in Users, NEW e \in Addresses, Register(u, e)
  PROVE  IInv'
<1> DEFINE l == VerifyLink(u, Lower[e])
<1>1. Lower[e] \in Addresses /\ l \in LinkType
  BY ConstantsAssumption DEF LinkType, VerifyLink, Kinds
<1>2. /\ row[u].email = NoAddress
      /\ row' = [row EXCEPT ![u] =
                   [email |-> Lower[e], active |-> TRUE, verified |-> FALSE]]
      /\ links' = links \cup {l} /\ UNCHANGED <<call, proven>>
  BY DEF Register, Issue
<1>3. proven[u] = {}
  BY <1>2, ConstantsAssumption DEF IInv, TypeOK, RowsSound
<1>4. \A k \in links : k.user # u
  BY <1>2, <1>3, ConstantsAssumption DEF IInv, TypeOK, LinksSound, LinkType
<1>5. \A c \in Calls : HasCopy(c) => call[c].user # u
  BY <1>2, <1>3, ConstantsAssumption DEF IInv, CopiesSound
<1>6. TypeOK'
  BY <1>1, <1>2 DEF IInv, TypeOK, RowType
<1>7. RowsSound'
  BY <1>2, <1>3 DEF IInv, TypeOK, RowsSound
<1>8. LinksSound'
  BY <1>1, <1>2, <1>3, <1>4 DEF IInv, TypeOK, LinksSound, LinkType, VerifyLink
<1>9. OpenedSound'
  BY <1>2 DEF IInv, OpenedSound, Holds, HasCopy
<1>10. CopiesSound' /\ CheckedSound'
  BY <1>2, <1>5, CallFacts DEF IInv, TypeOK, CopiesSound, CheckedSound, HasCopy
<1> QED
  BY <1>6, <1>7, <1>8, <1>9, <1>10 DEF IInv

\* Accepting an invitation to an address nobody has keeps the invariant.
LEMMA InsertInv ==
  ASSUME IInv, NEW u \in Users, NEW e \in Addresses, InsertAccept(u, e)
  PROVE  IInv'
<1>1. /\ row[u].email = NoAddress
      /\ row' = [row EXCEPT ![u] =
                   [email |-> e, active |-> TRUE, verified |-> TRUE]]
      /\ proven' = [proven EXCEPT ![u] = @ \cup {e}]
      /\ UNCHANGED <<call, links>>
  BY DEF InsertAccept
<1>2. proven[u] = {}
  BY <1>1, ConstantsAssumption DEF IInv, TypeOK, RowsSound
<1>3. \A k \in links : k.user # u
  BY <1>1, <1>2, ConstantsAssumption DEF IInv, TypeOK, LinksSound, LinkType
<1>4. \A c \in Calls : HasCopy(c) => call[c].user # u
  BY <1>1, <1>2, ConstantsAssumption DEF IInv, CopiesSound
<1>5. /\ \A v \in Users \ {u} : proven'[v] = proven[v] /\ row'[v] = row[v]
      /\ proven'[u] = {e}
      /\ row'[u] = [email |-> e, active |-> TRUE, verified |-> TRUE]
  BY <1>1, <1>2 DEF IInv, TypeOK
<1>6. TypeOK'
  BY <1>1 DEF IInv, TypeOK, RowType
<1>7. RowsSound' /\ LinksSound'
  BY <1>1, <1>3, <1>5 DEF IInv, TypeOK, LinkType, RowsSound, LinksSound
<1>8. OpenedSound'
  <2> SUFFICES ASSUME NEW d \in Calls, call[d].pc = "opened" \/ Holds(d)
               PROVE  /\ call[d].link.email = call[d].link.to
                      /\ call[d].link.to \in proven'[call[d].link.user]
    BY <1>1 DEF OpenedSound, Holds, HasCopy
  <2>1. call[d].link.user \in Users
    BY CallFacts DEF IInv, Holds, LinkType
  <2> QED
    BY <2>1, <1>2, <1>5 DEF IInv, OpenedSound
<1>9. CopiesSound'
  <2> SUFFICES ASSUME NEW d \in Calls, HasCopy(d)
               PROVE  CopiesSound!(d)'
    BY <1>1 DEF CopiesSound, HasCopy
  <2>1. call[d].user \in Users \ {u}
    BY <1>4, CallFacts DEF IInv
  <2> QED
    BY <2>1, <1>1, <1>5 DEF IInv, CopiesSound
<1>10. CheckedSound'
  BY <1>1, <1>5, CallFacts DEF IInv, CheckedSound
<1> QED
  BY <1>6, <1>7, <1>8, <1>9, <1>10 DEF IInv

LEMMA OpenInv ==
  ASSUME IInv, NEW c \in Calls, NEW l \in links, Open(c, l)
  PROVE  IInv'
<1>1. l \in LinkType /\ l.user \in Users /\ l.to \in Addresses /\ l.email = l.to
  BY DEF IInv, TypeOK, LinkType, LinksSound
<1>2. /\ call' = [call EXCEPT ![c] = [pc |-> "opened", link |-> l]]
      /\ proven' = [proven EXCEPT ![l.user] = @ \cup {l.to}]
      /\ UNCHANGED <<row, links>>
  BY DEF Open
<1>3. /\ call'[c] = [pc |-> "opened", link |-> l]
      /\ \A d \in Calls \ {c} : call'[d] = call[d]
  BY <1>2 DEF IInv, TypeOK
<1>4. /\ proven'[l.user] = proven[l.user] \cup {l.to}
      /\ \A u \in Users \ {l.user} : proven'[u] = proven[u]
  BY <1>1, <1>2 DEF IInv, TypeOK
<1>5. TypeOK'
  <2>1. call'[c] \in CallType
    BY <1>1, <1>3 DEF CallType
  <2>2. call' \in [Calls -> CallType]
    BY <1>2, <2>1, <1>3 DEF IInv, TypeOK
  <2>3. proven' \in [Users -> SUBSET Addresses]
    BY <1>1, <1>2 DEF IInv, TypeOK
  <2> QED
    BY <1>2, <2>2, <2>3 DEF IInv, TypeOK
<1>6. proven[l.user] = {} => l.to = row[l.user].email
  BY DEF IInv, LinksSound
<1>7. RowsSound'
  BY <1>1, <1>2, <1>4, <1>6 DEF IInv, RowsSound
<1>8. LinksSound'
  BY <1>1, <1>2, <1>4 DEF IInv, TypeOK, LinkType, LinksSound
<1>9. OpenedSound'
  <2> SUFFICES ASSUME NEW d \in Calls, call'[d].pc = "opened" \/ Holds(d)'
               PROVE  /\ call'[d].link.email = call'[d].link.to
                      /\ call'[d].link.to \in proven'[call'[d].link.user]
    BY DEF OpenedSound
  <2>1. CASE d = c
    BY <2>1, <1>1, <1>3, <1>4
  <2>2. CASE d # c
    <3>1. call'[d] = call[d] /\ (call[d].pc = "opened" \/ Holds(d))
      BY <2>2, <1>3 DEF Holds, HasCopy
    <3>2. call[d].link.user \in Users
      BY <3>1, CallFacts DEF IInv, Holds, LinkType
    <3> QED
      BY <3>1, <3>2, <1>4 DEF IInv, OpenedSound
  <2> QED
    BY <2>1, <2>2
<1>10. CopiesSound' /\ CheckedSound'
  <2>1. ASSUME NEW d \in Calls, HasCopy(d)'
        PROVE  CopiesSound!(d)'
    <3>1. d # c /\ call'[d] = call[d] /\ HasCopy(d)
      BY <2>1, <1>3 DEF HasCopy
    <3>2. call[d].user \in Users
      BY <3>1, CallFacts DEF IInv
    <3> QED
      BY <3>1, <3>2, <1>2, <1>4, <1>6 DEF IInv, CopiesSound
  <2>2. ASSUME NEW d \in Calls, call'[d].pc = "checked"
        PROVE  proven'[call'[d].user] # {}
    <3>1. d # c /\ call'[d] = call[d] /\ call[d].user \in Users
      BY <2>2, <1>3, CallFacts DEF IInv
    <3> QED
      BY <3>1, <2>2, <1>4 DEF IInv, CheckedSound
  <2> QED
    BY <2>1, <2>2 DEF CopiesSound, CheckedSound
<1> QED
  BY <1>5, <1>7, <1>8, <1>9, <1>10 DEF IInv

\* So does looking up the inactive account an invitation is for.
LEMMA CheckInv ==
  ASSUME IInv, NEW c \in Calls, NEW u \in Users, CheckAccept(c, u)
  PROVE  IInv'
<1> DEFINE e == row[u].email
<1>1. e \in Addresses /\ UNCHANGED <<row, links>>
  BY DEF CheckAccept
<1>2. /\ call'[c] = [pc |-> "checked", user |-> u]
      /\ \A d \in Calls \ {c} : call'[d] = call[d]
  BY DEF CheckAccept, IInv, TypeOK
<1>3. /\ proven'[u] = proven[u] \cup {e}
      /\ \A v \in Users \ {u} : proven'[v] = proven[v]
  BY DEF CheckAccept, IInv, TypeOK
<1>4. TypeOK'
  <2>1. call'[c] \in CallType
    BY <1>2 DEF CallType
  <2>2. call' \in [Calls -> CallType]
    BY <2>1, <1>2 DEF CheckAccept, IInv, TypeOK
  <2>3. proven' \in [Users -> SUBSET Addresses]
    BY <1>1 DEF CheckAccept, IInv, TypeOK
  <2> QED
    BY <1>1, <2>2, <2>3 DEF IInv, TypeOK
<1>5. RowsSound' /\ LinksSound'
  BY <1>1, <1>3 DEF IInv, TypeOK, LinkType, RowsSound, LinksSound
<1>6. OpenedSound'
  <2> SUFFICES ASSUME NEW d \in Calls, call'[d].pc = "opened" \/ Holds(d)'
               PROVE  /\ call'[d].link.email = call'[d].link.to
                      /\ call'[d].link.to \in proven'[call'[d].link.user]
    BY DEF OpenedSound
  <2>1. call'[d] = call[d] /\ (call[d].pc = "opened" \/ Holds(d))
    BY <1>2 DEF Holds, HasCopy
  <2>2. call[d].link.user \in Users
    BY <2>1, CallFacts DEF IInv, Holds, LinkType
  <2> QED
    BY <2>1, <2>2, <1>3 DEF IInv, OpenedSound
<1>7. CopiesSound'
  <2> SUFFICES ASSUME NEW d \in Calls, HasCopy(d)'
               PROVE  CopiesSound!(d)'
    BY DEF CopiesSound
  <2>1. call'[d] = call[d] /\ HasCopy(d)
    BY <1>2 DEF HasCopy
  <2>2. call[d].user \in Users
    BY <2>1, CallFacts DEF IInv
  <2> QED
    BY <2>1, <2>2, <1>1, <1>3 DEF IInv, CopiesSound
<1>8. CheckedSound'
  BY <1>2, <1>3, CallFacts DEF IInv, CheckedSound
<1> QED
  BY <1>4, <1>5, <1>6, <1>7, <1>8 DEF IInv

\* Loading a row keeps the invariant, if a redeemed link names its user (for
\* verifyEmail and confirmEmailChange) or was mailed to its address (resetPassword).
LEMMA LoadInv ==
  ASSUME IInv, NEW c \in Calls, NEW op, NEW link, NEW u \in Users,
         Load(c, op, link, u),
         \/ /\ op \in Kinds /\ call[c].pc = "opened" /\ link = call[c].link
            /\ op # "reset" => u = link.user
            /\ op = "reset" => row[u].email = link.email
         \/ op \in {"update", "remove"} /\ link = NoLink
         \/ op = "accept" /\ link = NoLink /\ proven[u] # {}
  PROVE  IInv'
<1>1. /\ row[u].email \in Addresses /\ row[u] \in RowType
      /\ call'[c] = [pc |-> "loaded", op |-> op, link |-> link, user |-> u,
                     base |-> row[u], stale |-> FALSE, diff |-> {}]
      /\ \A d \in Calls \ {c} : call'[d] = call[d]
      /\ UNCHANGED <<row, links, proven>>
  BY DEF Load, IInv, TypeOK
<1>2. op \in Kinds => link \in LinkType /\ link.email = link.to
                      /\ link.to \in proven[link.user]
  BY CallFacts DEF IInv, OpenedSound, Kinds
<1>3. TypeOK'
  <2>1. call'[c] \in CallType
    BY <1>1, <1>2 DEF CallType
  <2>2. call' \in [Calls -> CallType]
    BY <2>1, <1>1 DEF Load, IInv, TypeOK
  <2> QED
    BY <2>2, <1>1 DEF IInv, TypeOK
<1>4. RowsSound' /\ LinksSound'
  BY <1>1 DEF IInv, RowsSound, LinksSound
<1>5. OpenedSound' /\ CheckedSound'
  BY <1>1, <1>2 DEF IInv, OpenedSound, CheckedSound, Holds, HasCopy
<1>6. CopiesSound'
  <2> SUFFICES ASSUME NEW d \in Calls, HasCopy(d)'
               PROVE  CopiesSound!(d)'
    BY DEF CopiesSound
  <2>1. CASE d = c
    BY <2>1, <1>1, <1>2 DEF IInv, RowsSound, Kinds
  <2>2. CASE d # c
    BY <2>2, <1>1 DEF IInv, CopiesSound, HasCopy
  <2> QED
    BY <2>1, <2>2
<1> QED
  BY <1>3, <1>4, <1>5, <1>6 DEF IInv

\* The first query of save keeps the invariant: the copy is what it was.
LEMMA SelectInv ==
  ASSUME IInv, NEW c \in Calls, Select(c)
  PROVE  IInv'
<1> DEFINE k == call[c]
           D == {x \in Columns : Merged(k)[x] # row[k.user][x]}
           s == [k EXCEPT !.pc = "selected", !.diff = D]
<1>1. D \subseteq Columns
  OBVIOUS
<1>2. /\ k.pc = "loaded" /\ UNCHANGED <<row, links, proven>>
      /\ call' = [call EXCEPT ![c] = s]
  BY DEF Select
<1>3. \/ k \in [pc : {"loaded", "selected"}, op : Kinds, link : LinkType,
              user : Users, base : RowType, stale : BOOLEAN,
              diff : SUBSET Columns]
      \/ k \in [pc : {"loaded", "selected"},
              op : {"update", "remove", "accept"}, link : {NoLink},
              user : Users, base : RowType, stale : BOOLEAN,
              diff : SUBSET Columns]
  BY <1>2 DEF IInv, TypeOK, CallType, IdleCall
<1>4. /\ s \in CallType /\ s.pc = "selected" /\ s.op = k.op
      /\ s.link = k.link /\ s.user = k.user /\ s.base = k.base
      /\ s.stale = k.stale
  <2> HIDE DEF D
  <2> QED
    BY <1>1, <1>3 DEF CallType
<1> HIDE DEF s
<1>5. call'[c] = s /\ \A d \in Calls \ {c} : call'[d] = call[d]
  BY <1>2 DEF IInv, TypeOK
<1>6. TypeOK'
  BY <1>2, <1>4 DEF IInv, TypeOK
<1>7. RowsSound' /\ LinksSound'
  BY <1>2 DEF IInv, RowsSound, LinksSound
<1>8. OpenedSound' /\ CheckedSound'
  BY <1>2, <1>4, <1>5 DEF IInv, OpenedSound, CheckedSound, Holds, HasCopy
<1>9. CopiesSound'
  <2> SUFFICES ASSUME NEW d \in Calls, HasCopy(d)'
               PROVE  CopiesSound!(d)'
    BY DEF CopiesSound
  <2>1. CASE d = c
    <3>1. HasCopy(c) /\ call'[d] = s
      BY <2>1, <1>2, <1>5 DEF HasCopy
    <3> QED
      BY <3>1, <2>1, <1>2, <1>4 DEF IInv, CopiesSound
  <2>2. CASE d # c
    BY <2>2, <1>2, <1>5 DEF IInv, CopiesSound, HasCopy
  <2> QED
    BY <2>1, <2>2
<1> QED
  BY <1>6, <1>7, <1>8, <1>9 DEF IInv

\* What a call makes of its copy: a typed row of an address the account may have.
LEMMA MergedSound ==
  ASSUME IInv, NEW c \in Calls, HasCopy(c)
  PROVE  LET k == call[c]  r == Merged(call[c]) IN
         /\ r \in RowType /\ r.email \in Addresses
         /\ IF proven[k.user] = {} THEN ~r.verified /\ r.email = row[k.user].email
            ELSE r.email \in proven[k.user]
<1> DEFINE k == call[c]
           r == Merged(k)
<1>1. /\ k.user \in Users /\ k.base \in RowType /\ k.base.email \in Addresses
      /\ k.op \in Kinds => k.link \in LinkType /\ k.link.email \in proven[k.link.user]
      /\ k.op \in {"verify", "change"} => k.user = k.link.user
      /\ IF proven[k.user] = {} THEN ~k.base.verified /\ k.base.email = row[k.user].email
         ELSE k.base.email \in proven[k.user]
      /\ k.op = "accept" => proven[k.user] # {}
  BY CallFacts DEF IInv, OpenedSound, CopiesSound, Holds
<1>2. k.op \in {"verify", "reset", "change", "update", "remove", "accept"}
  BY DEF IInv, TypeOK, CallType, IdleCall, Kinds, HasCopy
<1>3. CASE k.op = "verify"
  <2>1. r = [k.base EXCEPT !.verified = TRUE]
    BY <1>3 DEF Merged
  <2>2. r \in RowType /\ r.email = k.base.email
    BY <2>1, <1>1 DEF RowType
  <2> QED
    BY <2>2, <1>1, <1>3 DEF Kinds
<1>4. CASE k.op = "change"
  <2>1. r = [k.base EXCEPT !.email = k.link.email]
    BY <1>4 DEF Merged
  <2>2. k.link.email \in Addresses
    BY <1>1, <1>4 DEF LinkType, Kinds
  <2>3. r \in RowType /\ r.email = k.link.email
    BY <2>1, <2>2, <1>1 DEF RowType
  <2> QED
    BY <2>2, <2>3, <1>1, <1>4 DEF Kinds
<1>5. CASE k.op = "remove"
  <2>1. r = [k.base EXCEPT !.active = FALSE]
    BY <1>5 DEF Merged
  <2>2. r \in RowType /\ r.email = k.base.email /\ r.verified = k.base.verified
    BY <2>1, <1>1 DEF RowType
  <2> QED
    BY <2>2, <1>1
<1>6. CASE k.op \in {"reset", "update"}
  BY <1>1, <1>6 DEF Merged
<1>7. CASE k.op = "accept"
  <2>1. r = [k.base EXCEPT !.active = TRUE, !.verified = TRUE]
    BY <1>7 DEF Merged
  <2>2. r \in RowType /\ r.email = k.base.email
    BY <2>1, <1>1 DEF RowType
  <2> QED
    BY <2>2, <1>1, <1>7
<1> QED
  BY <1>2, <1>3, <1>4, <1>5, <1>6, <1>7

\* So is what a save writes: some columns of that row and the rest of the row.
LEMMA WrittenSound ==
  ASSUME IInv, NEW c \in Calls, HasCopy(c)
  PROVE  LET k == call[c]  r == Written(k, row[k.user]) IN
         /\ r \in RowType
         /\ IF proven[k.user] = {} THEN ~r.verified /\ r.email = row[k.user].email
            ELSE r.email \in proven[k.user]
<1> PICK m : m = Merged(call[c])
  OBVIOUS
<1> PICK k : k = call[c]
  OBVIOUS
<1>1. /\ k.user \in Users /\ row[k.user] \in RowType
      /\ m \in RowType
      /\ IF proven[k.user] = {} THEN ~m.verified /\ m.email = row[k.user].email
         ELSE m.email \in proven[k.user]
  BY CallFacts, MergedSound DEF IInv, TypeOK
<1>2. IF proven[k.user] = {} THEN ~row[k.user].verified
      ELSE row[k.user].email \in proven[k.user]
  BY <1>1 DEF IInv, RowsSound
<1>3. Written(k, row[k.user]) =
        [email    |-> IF "email" \in k.diff THEN m.email ELSE row[k.user].email,
         active   |-> IF "active" \in k.diff THEN m.active
                      ELSE row[k.user].active,
         verified |-> IF "verified" \in k.diff THEN m.verified
                      ELSE row[k.user].verified]
  BY DEF Written
<1> QED
  BY <1>1, <1>2, <1>3 DEF RowType

LEMMA SaveInv ==
  ASSUME IInv, NEW c \in Calls, Save(c)
  PROVE  IInv'
<1> DEFINE k == call[c]
           u == k.user
<1>1. /\ k.pc = "selected" /\ HasCopy(c) /\ u \in Users
      /\ k.op \in Kinds => k.link \in LinkType
  BY CallFacts DEF Save, IInv, HasCopy
<1>2. /\ row'[u] = Written(k, row[u])
      /\ \A v \in Users \ {u} : row'[v] = row[v]
      /\ UNCHANGED <<links, proven>>
  BY <1>1 DEF Save, IInv, TypeOK
<1>3. /\ call'[c] = IF k.op \in Kinds THEN [pc |-> "saved", link |-> k.link] ELSE IdleCall
      /\ \A d \in Calls \ {c} : call'[d] = Outdated(call[d], u)
      /\ call' = [d \in Calls |-> call'[d]]
  BY DEF Save
<1>4. /\ row'[u] \in RowType
      /\ IF proven[u] = {} THEN ~row'[u].verified /\ row'[u].email = row[u].email
         ELSE row'[u].email \in proven[u]
  BY <1>1, <1>2, WrittenSound
\* What another call holds is what it held, marked stale if a reset of this row.
<1>5. ASSUME NEW d \in Calls \ {c}
      PROVE  /\ call'[d] \in CallType /\ call'[d].pc = call[d].pc
             /\ call[d].pc \in {"opened", "checked"} => call'[d] = call[d]
             /\ HasCopy(d) =>
                  /\ call'[d].op = call[d].op /\ call'[d].link = call[d].link
                  /\ call'[d].user = call[d].user /\ call'[d].base = call[d].base
                  /\ IF call[d].op = "reset" /\ call[d].user = u
                     THEN call'[d].stale
                     ELSE call'[d].stale = call[d].stale
  <2>1. call[d] \in CallType /\ call'[d] = Outdated(call[d], u)
    BY <1>3 DEF IInv, TypeOK
  <2>2. CASE HasCopy(d)
    <3>1. call[d] \in [pc : {"loaded", "selected"}, op : Kinds,
                       link : LinkType, user : Users, base : RowType,
                       stale : BOOLEAN, diff : SUBSET Columns]
          \/ call[d] \in [pc : {"loaded", "selected"},
                          op : {"update", "remove", "accept"},
                          link : {NoLink}, user : Users, base : RowType,
                          stale : BOOLEAN, diff : SUBSET Columns]
      BY <2>1, <2>2 DEF CallType, IdleCall, HasCopy
    <3>2. CASE call[d].op = "reset" /\ call[d].user = u
      <4>1. call'[d] = [call[d] EXCEPT !.stale = TRUE]
        BY <2>1, <2>2, <3>2 DEF Outdated, HasCopy
      <4> QED
        BY <2>2, <3>1, <3>2, <4>1 DEF CallType, HasCopy
    <3>3. CASE ~(call[d].op = "reset" /\ call[d].user = u)
      BY <2>1, <2>2, <3>3 DEF Outdated, HasCopy
    <3> QED
      BY <3>2, <3>3
  <2>3. CASE ~HasCopy(d)
    BY <2>1, <2>3 DEF Outdated, HasCopy
  <2> QED
    BY <2>2, <2>3
<1>6. TypeOK'
  <2>1. call'[c] \in CallType
    BY <1>1, <1>3 DEF CallType
  <2>2. call' \in [Calls -> CallType]
    BY <2>1, <1>3, <1>5
  <2>3. row' \in [Users -> RowType]
    BY <1>4 DEF Save, IInv, TypeOK
  <2> QED
    BY <2>2, <2>3, <1>2 DEF IInv, TypeOK
<1>7. RowsSound'
  BY <1>2, <1>4 DEF IInv, RowsSound
<1>8. LinksSound'
  BY <1>2, <1>4 DEF IInv, TypeOK, LinkType, LinksSound
<1>9. OpenedSound'
  <2> SUFFICES ASSUME NEW d \in Calls, call'[d].pc = "opened" \/ Holds(d)'
               PROVE  /\ call'[d].link.email = call'[d].link.to
                      /\ call'[d].link.to \in proven'[call'[d].link.user]
    BY DEF OpenedSound
  <2>1. d # c
    BY <1>3 DEF IdleCall, Holds, HasCopy
  <2>2. /\ call[d].pc = "opened" \/ Holds(d)
        /\ call'[d].link = call[d].link
    BY <2>1, <1>5 DEF Holds, HasCopy
  <2> QED
    BY <2>2, <1>2 DEF IInv, OpenedSound
<1>10. CopiesSound'
  <2> SUFFICES ASSUME NEW d \in Calls, HasCopy(d)'
               PROVE  CopiesSound!(d)'
    BY DEF CopiesSound
  <2>1. d # c
    BY <1>3 DEF IdleCall, HasCopy
  <2>2. HasCopy(d) /\ call[d].user \in Users
    BY <2>1, <1>5, CallFacts DEF IInv, HasCopy
  <2>3. CASE call[d].user = u
    BY <2>1, <2>2, <2>3, <1>2, <1>4, <1>5 DEF IInv, CopiesSound
  <2>4. CASE call[d].user # u
    BY <2>1, <2>2, <2>4, <1>2, <1>5 DEF IInv, CopiesSound
  <2> QED
    BY <2>3, <2>4
<1>11. CheckedSound'
  BY <1>2, <1>3, <1>5 DEF IInv, CheckedSound, IdleCall
<1> QED
  BY <1>6, <1>7, <1>8, <1>9, <1>10, <1>11 DEF IInv

\* A call that ends, and links that go, keep the invariant.
LEMMA EndInv ==
  ASSUME IInv, links' \subseteq links, UNCHANGED <<row, proven>>,
         \/ UNCHANGED call
         \/ \E c \in Calls : call' = [call EXCEPT ![c] = IdleCall]
  PROVE  IInv'
<1>1. \A d \in Calls : call'[d] = call[d] \/ call'[d] = IdleCall
  BY DEF IInv, TypeOK
<1>2. IdleCall \in CallType /\ IdleCall.pc = "idle"
  BY DEF CallType, IdleCall
<1>3. TypeOK'
  BY <1>2 DEF IInv, TypeOK
<1>4. RowsSound' /\ LinksSound'
  BY DEF IInv, RowsSound, LinksSound
<1>5. OpenedSound' /\ CopiesSound' /\ CheckedSound'
  BY <1>1, <1>2 DEF IInv, OpenedSound, CopiesSound, CheckedSound, Holds, HasCopy
<1> QED
  BY <1>3, <1>4, <1>5 DEF IInv

LEMMA IssueNextInv ==
  ASSUME IInv, IssueNext
  PROVE  IInv'
<1>1. ASSUME NEW u \in Users, NEW e \in Addresses, Register(u, e)
      PROVE  IInv'
  BY <1>1, RegisterInv
<1>5. ASSUME NEW u \in Users, NEW e \in Addresses, InsertAccept(u, e)
      PROVE  IInv'
  BY <1>5, InsertInv
<1>2. ASSUME NEW u \in Users, NEW e \in Addresses, ChangeEmail(u, e)
      PROVE  IInv'
  <2>1. ChangeLink(u, e) \in LinkType /\ proven[u] # {}
    BY <1>2 DEF ChangeEmail, MayAct, IInv, RowsSound, ChangeLink, LinkType, Kinds
  <2> QED
    BY <1>2, <2>1, IssueInv DEF ChangeEmail, ChangeLink
<1>3. ASSUME NEW u \in Users, ResendVerifyEmail(u)
      PROVE  IInv'
  <2>1. VerifyLink(u, row[u].email) \in LinkType
    BY <1>3 DEF ResendVerifyEmail, VerifyLink, LinkType, Kinds
  <2> QED
    BY <1>3, <2>1, IssueInv DEF ResendVerifyEmail, VerifyLink
<1>4. ASSUME NEW u \in Users, ForgotPassword(u)
      PROVE  IInv'
  <2>1. ResetLink(u, row[u].email) \in LinkType
    BY <1>4 DEF ForgotPassword, ResetLink, LinkType, Kinds
  <2> QED
    BY <1>4, <2>1, IssueInv DEF ForgotPassword, ResetLink
<1> QED
  BY <1>1, <1>2, <1>3, <1>4, <1>5 DEF IssueNext

LEMMA CallNextInv ==
  ASSUME IInv, NEW c \in Calls, CallNext(c)
  PROVE  IInv'
<1>1. ASSUME NEW l \in links, Open(c, l) PROVE IInv'
  BY <1>1, OpenInv
<1>2. CASE LoadVerify(c)
  <2>1. call[c].link.user \in Users
    BY <1>2, CallFacts DEF LoadVerify, IInv, LinkType
  <2> QED
    BY <1>2, <2>1, LoadInv DEF LoadVerify, Kinds
<1>3. CASE LoadReset(c)
  <2>1. PICK u \in Users : row[u].email = call[c].link.email
                           /\ Load(c, "reset", call[c].link, u)
    BY <1>3 DEF LoadReset, ResetUser, HoldersOf
  <2> QED
    BY <1>3, <2>1, LoadInv DEF LoadReset, Kinds
<1>4. CASE LoadConfirm(c)
  <2>1. call[c].link.user \in Users
    BY <1>4, CallFacts DEF LoadConfirm, IInv, LinkType
  <2> QED
    BY <1>4, <2>1, LoadInv DEF LoadConfirm, Kinds
<1>5. ASSUME NEW u \in Users, LoadUpdate(c, u) \/ LoadRemove(c, u) PROVE IInv'
  BY <1>5, LoadInv DEF LoadUpdate, LoadRemove
<1>6. CASE Save(c)
  BY <1>6, SaveInv
<1>8. ASSUME NEW u \in Users, CheckAccept(c, u) PROVE IInv'
  BY <1>8, CheckInv
<1>9. CASE LoadAccept(c)
  <2>1. call[c].user \in Users /\ proven[call[c].user] # {}
    BY <1>9, CallFacts DEF LoadAccept, IInv, CheckedSound
  <2> QED
    BY <1>9, <2>1, LoadInv DEF LoadAccept
<1>10. CASE Select(c)
  BY <1>10, SelectInv
<1>7. CASE Drop(c) \/ Abandon(c)
  BY <1>7, EndInv DEF Drop, Abandon
<1> QED
  BY <1>1, <1>2, <1>3, <1>4, <1>5, <1>6, <1>7, <1>8, <1>9, <1>10 DEF CallNext

LEMMA StepInv == IInv /\ [Next]_vars => IInv'
<1> SUFFICES ASSUME IInv, [Next]_vars PROVE IInv'
  OBVIOUS
<1>1. CASE IssueNext
  BY <1>1, IssueNextInv
<1>2. CASE \E l \in links : Expire(l)
  BY <1>2, EndInv DEF Expire
<1>3. CASE \E c \in Calls : CallNext(c)
  BY <1>3, CallNextInv
<1>4. CASE UNCHANGED vars
  BY <1>4, EndInv DEF vars
<1> QED
  BY <1>1, <1>2, <1>3, <1>4 DEF Next

-----------------------------------------------------------------------------
\* The types of Links hold in every reachable state.
THEOREM TypeCorrect == Spec => []TypeOK
  BY InitInv, StepInv, PTL DEF Spec, IInv

LEMMA ProvenFromInv == IInv => VerifiedMeansProven
  BY DEF IInv, RowsSound, VerifiedMeansProven

\* A verified account stands under an address at which its user opened a link,
\* whatever calls overlap, fail or repeat.
THEOREM ProvenCorrect == Spec => []VerifiedMeansProven
  BY InitInv, StepInv, ProvenFromInv, PTL DEF Spec

\* A reset that no other save overlaps sets the password of the account that has
\* the address its link was mailed to.
THEOREM MailboxCorrect == Spec => MailboxDecides
<1> DEFINE Step == \A c \in Calls :
             call[c].pc = "selected" /\ call[c].op = "reset" /\ ~call[c].stale
               /\ call'[c].pc = "saved"
             => row[call[c].user].email = call[c].link.to
<1>1. IInv /\ [Next]_vars => [Step]_vars
  BY DEF IInv, CopiesSound, HasCopy
<1>2. Spec => [][Step]_vars
  BY <1>1, InitInv, StepInv, PTL DEF Spec
<1> QED
  BY <1>2 DEF MailboxDecides
=============================================================================
