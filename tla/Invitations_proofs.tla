------------------------ MODULE Invitations_proofs ------------------------
(***************************************************************************)
(* What Invitations guarantees for every number of addresses, tokens,      *)
(* batch items and concurrent acceptances.                                 *)
(***************************************************************************)
EXTENDS Invitations, TLAPS

ItemType == [pc : ItemPc, email : Emails, token : Tokens \cup {NoToken}]
AcceptType == [pc : AcceptPc, token : Tokens \cup {NoToken},
               existing : BOOLEAN, late : BOOLEAN]
RowType == [status : Statuses, email : Emails, expiresAt : Time]

\* The idle records and the initial rows are well typed.
LEMMA IdleTypes ==
  /\ NoItem \in ItemType /\ NoItem.pc = "idle"
  /\ NoAccept \in AcceptType /\ NoAccept.pc = "idle" /\ NoAccept.token = NoToken
  BY ConstantsAssumption
  DEF NoItem, NoAccept, ItemType, AcceptType, ItemPc, AcceptPc, Time

\* The initial state has the types of the variables.
LEMMA TypeInit == Init => TypeOK
  BY ConstantsAssumption, IdleTypes
  DEF Init, TypeOK, ItemType, AcceptType, Statuses, Time

\* An item that becomes a well-typed other keeps the types of the items.
LEMMA ItemSet ==
  ASSUME TypeOK, NEW s \in Items, NEW k \in ItemType, SetItem(s, k),
         k.pc \in {"created", "cached"} => k.token \in Tokens
  PROVE  /\ item' \in [Items -> ItemType]
         /\ \A i \in Items : item'[i].pc \in {"created", "cached"}
                               => item'[i].token \in Tokens
  BY DEF SetItem, TypeOK, ItemType

\* The same of the calls of acceptInvitation.
LEMMA AcceptSet ==
  ASSUME TypeOK, NEW a \in Accepts, NEW k \in AcceptType, SetAccept(a, k),
         k.pc # "idle" <=> k.token \in Tokens
  PROVE  /\ accept' \in [Accepts -> AcceptType]
         /\ \A b \in Accepts : accept'[b].pc # "idle" <=> accept'[b].token \in Tokens
  BY DEF SetAccept, TypeOK, AcceptType

\* Sending leaves no type.
LEMMA TypeItemStep ==
  ASSUME TypeOK, NEW s \in Items, ItemNext(s)
  PROVE  TypeOK'
<1> DEFINE k == item[s]
<1>0. k \in ItemType /\ item \in [Items -> ItemType]
  BY DEF TypeOK, ItemType
<1>1. CASE LookMember(s)
  <2>1. [k EXCEPT !.pc = "noMember"] \in ItemType /\ [k EXCEPT !.pc = "noMember"].pc = "noMember"
    BY <1>0 DEF ItemType, ItemPc
  <2> QED
    BY <1>1, <2>1, ItemSet DEF LookMember, TypeOK, ItemType
<1>2. CASE LookPending(s)
  <2>1. [k EXCEPT !.pc = "clear"] \in ItemType /\ [k EXCEPT !.pc = "clear"].pc = "clear"
    BY <1>0 DEF ItemType, ItemPc
  <2> QED
    BY <1>2, <2>1, ItemSet DEF LookPending, TypeOK, ItemType
<1>3. ASSUME NEW t \in Tokens, CreateRow(s, t) PROVE TypeOK'
  <2> DEFINE n == [k EXCEPT !.pc = "created", !.token = t]
  <2>1. n \in ItemType /\ n.token = t
    BY <1>0 DEF ItemType, ItemPc
  <2>2. [status |-> "PENDING", email |-> k.email, expiresAt |-> now + Ttl] \in RowType
    BY <1>0, <1>3, ConstantsAssumption
    DEF CreateRow, RowType, ItemType, Statuses, Time, TypeOK
  <2>3. invitation' \in [Tokens -> RowType]
    BY <1>3, <2>2 DEF CreateRow, TypeOK, RowType
  <2> QED
    BY <1>3, <2>1, <2>3, ItemSet DEF CreateRow, TypeOK, ItemType, RowType
<1>4. CASE CacheToken(s)
  <2>1. /\ [k EXCEPT !.pc = "cached"] \in ItemType
        /\ [k EXCEPT !.pc = "cached"].token = k.token /\ k.token \in Tokens
    BY <1>0, <1>4 DEF CacheToken, ItemType, ItemPc, TypeOK
  <2> QED
    BY <1>4, <2>1, ItemSet DEF CacheToken, TypeOK, ItemType
<1>5. CASE Enqueue(s)
  <2>1. k.token \in Tokens
    BY <1>5 DEF Enqueue, TypeOK
  <2> QED
    BY <1>5, <2>1, IdleTypes, ItemSet DEF Enqueue, TypeOK, ItemType
<1>6. CASE AbandonItem(s)
  BY <1>6, IdleTypes, ItemSet DEF AbandonItem, TypeOK, ItemType
<1> QED
  BY <1>1, <1>2, <1>3, <1>4, <1>5, <1>6 DEF ItemNext

\* The middle steps of an acceptance leave the token and the note that it was
\* answered before as they are.
LEMMA AcceptMoves ==
  ASSUME TypeOK, NEW a \in Accepts, LookInvitee(a) \/ Activate(a) \/ MarkAccepted(a)
  PROVE  /\ accept'[a].token = accept[a].token
         /\ accept'[a].late = accept[a].late
         /\ accept[a].pc \notin {"idle", "missed"}
<1>1. accept \in [Accepts -> AcceptType]
  BY DEF TypeOK, AcceptType
<1>2. \E k : accept' = [accept EXCEPT ![a] = k] /\ k.token = accept[a].token
                 /\ k.late = accept[a].late
  <2>1. CASE LookInvitee(a)
    <3> DEFINE b == member[InviteeOf(a)] = "removed"
               n == [accept[a] EXCEPT !.pc = "found", !.existing = b]
    <3>1. accept' = [accept EXCEPT ![a] = n]
      BY <2>1 DEF LookInvitee, SetAccept
    <3> HIDE DEF b
    <3>2. n.token = accept[a].token /\ n.late = accept[a].late
      BY <1>1 DEF AcceptType
    <3> HIDE DEF n
    <3> QED
      BY <3>1, <3>2
  <2>2. CASE Activate(a)
    <3>1. SetAccept(a, [accept[a] EXCEPT !.pc = "activated"])
      BY <2>2 DEF Activate
    <3> QED
      BY <1>1, <3>1 DEF SetAccept, AcceptType
  <2>3. CASE MarkAccepted(a)
    <3>1. SetAccept(a, [accept[a] EXCEPT !.pc = "marked"])
      BY <2>3 DEF MarkAccepted
    <3> QED
      BY <1>1, <3>1 DEF SetAccept, AcceptType
  <2> QED
    BY <2>1, <2>2, <2>3
<1>3. accept[a].pc \notin {"idle", "missed"}
  BY DEF LookInvitee, Activate, MarkAccepted, MarksAfter
<1> QED
  BY <1>1, <1>2, <1>3

\* Accepting leaves no type.
LEMMA TypeAcceptStep ==
  ASSUME TypeOK, NEW a \in Accepts, AcceptNext(a)
  PROVE  TypeOK'
<1> DEFINE k == accept[a]
<1>0. /\ k \in AcceptType /\ accept \in [Accepts -> AcceptType]
      /\ k.pc # "idle" => k.token \in Tokens
  BY DEF TypeOK, AcceptType
<1>a. ASSUME NEW t \in Tokens, NEW pc \in {"checked", "missed"}
      PROVE  Arrival(t, pc) \in AcceptType /\ Arrival(t, pc).pc = pc
             /\ Arrival(t, pc).token = t
  <2> DEFINE b == t \in answered
  <2>1. [NoAccept EXCEPT !.pc = pc, !.token = t, !.late = b] \in AcceptType
    <3>1. b \in BOOLEAN /\ pc \in AcceptPc
      BY <1>a DEF TypeOK, AcceptPc
    <3> HIDE DEF b
    <3> QED
      BY <3>1, IdleTypes DEF AcceptType
  <2>2. /\ Arrival(t, pc) \in AcceptType
        /\ Arrival(t, pc) = [NoAccept EXCEPT !.pc = pc, !.token = t, !.late = b]
    BY <2>1 DEF Arrival
  <2> QED
    BY <2>2, IdleTypes DEF AcceptType
<1>b. ASSUME NEW pc \in AcceptPc \ {"idle"}
      PROVE  [k EXCEPT !.pc = pc] \in AcceptType /\ [k EXCEPT !.pc = pc].pc = pc
             /\ [k EXCEPT !.pc = pc].token = k.token
  BY <1>0 DEF AcceptType
<1> USE DEF AcceptPc
<1>1. ASSUME NEW t \in Tokens, Hit(a, t) PROVE TypeOK'
  BY <1>1, <1>a, AcceptSet DEF Hit, TypeOK, AcceptType
<1>2. ASSUME NEW t \in Tokens, Miss(a, t) PROVE TypeOK'
  BY <1>2, <1>a, AcceptSet DEF Miss, TypeOK, AcceptType
<1>3. CASE ReadRow(a)
  <2> DEFINE n == [k EXCEPT !.pc = "checked"]
  <2>1. n \in AcceptType /\ n.pc = "checked" /\ n.token = k.token
    BY <1>0 DEF AcceptType, TypeOK
  <2> QED
    BY <1>0, <1>3, <2>1, AcceptSet DEF ReadRow, TypeOK, AcceptType
<1>4. CASE LookInvitee(a)
  <2> DEFINE n == [k EXCEPT !.pc = "found",
                      !.existing = member[InviteeOf(a)] = "removed"]
  <2>1. n \in AcceptType /\ n.pc = "found" /\ n.token = k.token
    BY <1>0 DEF AcceptType
  <2> QED
    BY <1>0, <1>4, <2>1, AcceptSet DEF LookInvitee, TypeOK, AcceptType
<1>5. CASE Activate(a)
  <2>1. /\ k.token \in Tokens /\ invitation[k.token].email \in Emails
        /\ used[k.token] \in 0..2
    BY <1>0, <1>5 DEF Activate, TypeOK
  <2>2. (IF used[k.token] < 2 THEN used[k.token] + 1 ELSE 2) \in 0..2
    BY <2>1
  <2>3. used' \in [Tokens -> 0..2]
    BY <1>5, <2>2 DEF Activate, TypeOK
  <2>4. member' \in [Emails -> {"none", "active", "removed"}]
    BY <1>5, <2>1 DEF Activate, InviteeOf, TypeOK
  <2> QED
    BY <1>0, <1>5, <1>b, <2>1, <2>3, <2>4, AcceptSet DEF Activate, TypeOK, AcceptType
<1>6. CASE MarkAccepted(a)
  <2>1. k.pc = "activated"
    BY <1>6 DEF MarkAccepted, MarksAfter
  <2>2. invitation' \in [Tokens -> RowType]
    <3>1. invitation[k.token] \in RowType /\ invitation \in [Tokens -> RowType]
      BY <1>0, <2>1 DEF TypeOK, RowType
    <3>2. [invitation[k.token] EXCEPT !.status = "ACCEPTED"] \in RowType
      BY <3>1 DEF RowType, Statuses
    <3> QED
      BY <1>6, <3>1, <3>2 DEF MarkAccepted
  <2> QED
    BY <1>0, <1>6, <1>b, <2>1, <2>2, AcceptSet
    DEF MarkAccepted, TypeOK, AcceptType, RowType
<1>7. CASE DropToken(a)
  BY <1>0, <1>7, IdleTypes, ConstantsAssumption, AcceptSet
  DEF DropToken, TypeOK, AcceptType
<1>8. CASE AbandonAccept(a)
  BY <1>8, IdleTypes, ConstantsAssumption, AcceptSet
  DEF AbandonAccept, TypeOK, AcceptType
<1> QED
  BY <1>1, <1>2, <1>3, <1>4, <1>5, <1>6, <1>7, <1>8 DEF AcceptNext

\* No step leaves the types.
LEMMA TypeStep == TypeOK /\ [Next]_vars => TypeOK'
<1> SUFFICES ASSUME TypeOK, [Next]_vars PROVE TypeOK'
  OBVIOUS
<1>1. ASSUME NEW batch \in SUBSET Items, NEW to \in [batch -> Emails],
             StartBatch(to)
      PROVE  TypeOK'
  <2>1. ASSUME NEW s \in batch
        PROVE  [NoItem EXCEPT !.pc = "start", !.email = to[s]] \in ItemType
               /\ [NoItem EXCEPT !.pc = "start", !.email = to[s]].pc = "start"
    BY <2>1, IdleTypes DEF ItemType, ItemPc
  <2>2. item' \in [Items -> ItemType]
    BY <1>1, <2>1 DEF StartBatch, TypeOK, ItemType
  <2>3. \A s \in Items : item'[s].pc \in {"created", "cached"}
                           => item'[s].token \in Tokens
    BY <1>1, <2>1 DEF StartBatch, TypeOK
  <2> QED
    BY <1>1, <2>2, <2>3 DEF StartBatch, TypeOK, ItemType
<1>2. ASSUME NEW e \in Emails, RemoveMember(e) PROVE TypeOK'
  BY <1>2 DEF RemoveMember, TypeOK
<1>3. ASSUME NEW t \in Tokens, Evict(t) PROVE TypeOK'
  BY <1>3 DEF Evict, TypeOK
<1>4. CASE ExpireInvitations
  BY <1>4 DEF ExpireInvitations, TypeOK, Statuses
<1>5. CASE Tick
  BY <1>5, ConstantsAssumption DEF Tick, TypeOK, Time
<1>6. CASE UNCHANGED vars
  BY <1>6 DEF vars, TypeOK
<1> QED
  BY <1>1, <1>2, <1>3, <1>4, <1>5, <1>6, TypeItemStep, TypeAcceptStep DEF Next

\* The types of Invitations hold in every reachable state.
THEOREM TypeCorrect == Spec => []TypeOK
  BY TypeInit, TypeStep, PTL DEF Spec

-----------------------------------------------------------------------------
(* A token that somebody works with has a row, and only one item fills it  *)

Filling(s) == item[s].pc \in {"created", "cached"}

\* An item that has made its row is the only one with that token, which nobody
\* has been told yet; whoever accepts, or was answered, has a token with a row.
RowsMade ==
  /\ \A s \in Items : Filling(s) =>
       /\ invitation[item[s].token].status # "absent"
       /\ item[s].token \notin known
       /\ \A o \in Items : Filling(o) /\ item[o].token = item[s].token => o = s
  /\ \A t \in known : invitation[t].status # "absent"
  /\ \A a \in Accepts : accept[a].pc # "idle" => accept[a].token \in known

\* What was accepted made somebody a member, from Activate on.
Joined ==
  /\ AcceptedMeansJoined
  /\ \A a \in Accepts : accept[a].pc \in {"activated", "marked"} =>
       used[accept[a].token] > 0 /\ member[InviteeOf(a)] # "none"

\* An answered token stays accepted and out of Redis; a call that comes after
\* the answer gets no further than the miss.
Dead ==
  /\ \A a \in Accepts : accept[a].pc = "marked" =>
       invitation[accept[a].token].status = "ACCEPTED"
  /\ \A t \in answered :
       invitation[t].status = "ACCEPTED" /\ t \notin cached /\ t \in known
  /\ \A a \in Accepts : accept[a].late =>
       accept[a].token \in answered /\ accept[a].pc = "missed"

\* The nightly job marks what is past its expiresAt, for good.
Swept ==
  \A t \in Tokens :
    invitation[t].status = "EXPIRED" => invitation[t].expiresAt < now

IInv == TypeOK /\ RowsMade /\ Joined /\ Dead /\ Swept

\* A row that exists keeps its address and its expiresAt, and exists for good.
LEMMA RowsStay ==
  ASSUME TypeOK, [Next]_vars, NEW t \in Tokens, invitation[t].status # "absent"
  PROVE  /\ invitation'[t].status # "absent"
         /\ invitation'[t].email = invitation[t].email
         /\ invitation'[t].expiresAt = invitation[t].expiresAt
         /\ invitation[t].status = "ACCEPTED" => invitation'[t].status = "ACCEPTED"
<1>1. invitation \in [Tokens -> RowType]
  BY DEF TypeOK, RowType
<1>2. ASSUME NEW s \in Items, ItemNext(s), invitation' # invitation
      PROVE  invitation'[t] = invitation[t]
  BY <1>1, <1>2
  DEF ItemNext, LookMember, LookPending, CreateRow, CacheToken, Enqueue, AbandonItem
<1>3. ASSUME NEW a \in Accepts, AcceptNext(a), invitation' # invitation
      PROVE  /\ invitation'[t] = invitation[t]
                \/ invitation'[t] = [invitation[t] EXCEPT !.status = "ACCEPTED"]
  BY <1>1, <1>3
  DEF AcceptNext, Hit, Miss, ReadRow, LookInvitee, Activate, MarkAccepted,
      DropToken, AbandonAccept
<1>4. ASSUME ExpireInvitations
      PROVE  \/ invitation'[t] = invitation[t]
             \/ /\ invitation'[t] = [invitation[t] EXCEPT !.status = "EXPIRED"]
                /\ invitation[t].status = "PENDING"
  BY <1>1, <1>4 DEF ExpireInvitations, AllOverdue, Overdue
<1>5. \/ invitation'[t] = invitation[t]
      \/ invitation'[t] = [invitation[t] EXCEPT !.status = "ACCEPTED"]
      \/ /\ invitation'[t] = [invitation[t] EXCEPT !.status = "EXPIRED"]
         /\ invitation[t].status = "PENDING"
  BY <1>2, <1>3, <1>4 DEF Next, vars, StartBatch, RemoveMember, Evict, Tick
<1>6. invitation[t] \in RowType
  BY <1>1
<1> QED
  BY <1>5, <1>6 DEF RowType

\* The rows made, and who fills them, over every step.
LEMMA RowsMadeStep ==
  ASSUME TypeOK, RowsMade, [Next]_vars
  PROVE  RowsMade'
<1>0. /\ item \in [Items -> ItemType] /\ accept \in [Accepts -> AcceptType]
      /\ invitation \in [Tokens -> RowType] /\ known \subseteq Tokens
      /\ \A s \in Items : Filling(s) => item[s].token \in Tokens
      /\ NoItem.pc = "idle" /\ NoAccept.pc = "idle"
  BY IdleTypes DEF TypeOK, ItemType, AcceptType, RowType, Filling
<1>1. ASSUME NEW batch \in SUBSET Items, NEW to \in [batch -> Emails],
             StartBatch(to)
      PROVE  RowsMade'
  <2>1. ASSUME NEW s \in Items PROVE item'[s] = item[s] \/ item'[s].pc = "start"
    <3>1. [NoItem EXCEPT !.pc = "start", !.email = to[s]].pc = "start"
      BY DEF NoItem
    <3> QED
      BY <1>1, <3>1 DEF StartBatch
  <2>2. ASSUME NEW s \in Items PROVE Filling(s)' => Filling(s) /\ item'[s] = item[s]
    BY <2>1 DEF Filling
  <2>3. UNCHANGED <<invitation, known, accept>>
    BY <1>1 DEF StartBatch
  <2> QED
    BY <2>2, <2>3 DEF RowsMade
<1>2. ASSUME NEW s \in Items, ItemNext(s) PROVE RowsMade'
  <2>1. ASSUME NEW t \in Tokens, CreateRow(s, t) PROVE RowsMade'
    <3>1. /\ item' = [item EXCEPT ![s] = [@ EXCEPT !.pc = "created", !.token = t]]
          /\ invitation' = [invitation EXCEPT ![t] =
               [status |-> "PENDING", email |-> item[s].email, expiresAt |-> now + Ttl]]
          /\ known' = known /\ accept' = accept /\ invitation[t].status = "absent"
      BY <2>1 DEF CreateRow, SetItem
    <3>2. /\ item'[s].pc = "created" /\ item'[s].token = t
          /\ \A o \in Items \ {s} : item'[o] = item[o]
      BY <1>0, <3>1 DEF ItemType
    <3>3. /\ t \notin known /\ invitation'[t].status = "PENDING"
          /\ \A u \in Tokens \ {t} : invitation'[u] = invitation[u]
          /\ \A o \in Items : Filling(o) => item[o].token # t
      BY <1>0, <3>1 DEF RowsMade
    <3>4. \A o \in Items : Filling(o)' /\ o # s => Filling(o)
      BY <3>2 DEF Filling
    <3>5. \A o \in Items : Filling(o)' =>
            /\ invitation'[item'[o].token].status # "absent"
            /\ item'[o].token \notin known'
      BY <1>0, <3>1, <3>2, <3>3, <3>4 DEF RowsMade
    <3>6. \A o, p \in Items : Filling(o)' /\ Filling(p)' /\ item'[o].token = item'[p].token
                               => o = p
      BY <1>0, <3>2, <3>3, <3>4 DEF RowsMade
    <3>7. \A u \in known : invitation'[u].status # "absent"
      BY <1>0, <3>3 DEF RowsMade
    <3> QED
      BY <3>1, <3>5, <3>6, <3>7 DEF RowsMade
  <2>2. CASE CacheToken(s)
    <3>1. \A o \in Items : /\ item'[o].token = item[o].token
                           /\ Filling(o)' => Filling(o)
      BY <1>0, <2>2 DEF CacheToken, SetItem, ItemType, Filling
    <3> QED
      BY <2>2, <3>1 DEF CacheToken, RowsMade
  <2>3. CASE Enqueue(s)
    <3>1. /\ Filling(s) /\ known' = known \cup {item[s].token}
          /\ UNCHANGED <<invitation, accept>>
      BY <2>3 DEF Enqueue, Filling
    <3>2. /\ ~ Filling(s)'
          /\ \A o \in Items \ {s} : item'[o] = item[o]
      BY <1>0, <2>3 DEF Enqueue, SetItem, Filling
    <3>3. \A o \in Items : Filling(o)' => Filling(o) /\ o # s /\ item'[o] = item[o]
      BY <3>2 DEF Filling
    <3> QED
      BY <3>1, <3>3 DEF RowsMade
  <2>4. CASE LookMember(s) \/ LookPending(s) \/ AbandonItem(s)
    <3>1. ~ Filling(s)' /\ \A o \in Items \ {s} : item'[o] = item[o]
      BY <1>0, <2>4
      DEF LookMember, LookPending, AbandonItem, SetItem, Filling, ItemType
    <3>2. \A o \in Items : Filling(o)' => Filling(o) /\ o # s /\ item'[o] = item[o]
      BY <3>1 DEF Filling
    <3>3. UNCHANGED <<invitation, known, accept>>
      BY <2>4 DEF LookMember, LookPending, AbandonItem
    <3> QED
      BY <3>2, <3>3 DEF RowsMade
  <2> QED
    BY <1>2, <2>1, <2>2, <2>3, <2>4 DEF ItemNext
<1>3. ASSUME NEW a \in Accepts, AcceptNext(a) PROVE RowsMade'
  <2>1. UNCHANGED <<item, known>>
    BY <1>3 DEF AcceptNext, Hit, Miss, ReadRow, LookInvitee, Activate,
                MarkAccepted, DropToken, AbandonAccept
  <2>2. \A b \in Accepts : accept'[b].pc # "idle" => accept'[b].token \in known
    <3>1. \A b \in Accepts \ {a} : accept'[b] = accept[b]
      BY <1>0, <1>3 DEF AcceptNext, Hit, Miss, ReadRow, LookInvitee, Activate,
                MarkAccepted, DropToken, AbandonAccept, SetAccept
    <3>2. CASE \E t \in Tokens : Hit(a, t) \/ Miss(a, t)
      <4>1. \A t \in Tokens, pc \in {"checked", "missed"} : Arrival(t, pc).token = t
        BY DEF Arrival, NoAccept
      <4> QED
        BY <1>0, <3>1, <3>2, <4>1 DEF Hit, Miss, SetAccept, RowsMade
    <3>3. CASE DropToken(a) \/ AbandonAccept(a)
      BY <1>0, <3>1, <3>3 DEF DropToken, AbandonAccept, SetAccept, RowsMade
    <3>4. CASE ReadRow(a)
      <4>1. accept'[a].token = accept[a].token /\ accept[a].pc # "idle"
        BY <1>0, <3>4 DEF ReadRow, SetAccept, AcceptType
      <4> QED
        BY <3>1, <4>1 DEF RowsMade
    <3>5. CASE LookInvitee(a) \/ Activate(a) \/ MarkAccepted(a)
      <4>1. accept'[a].token = accept[a].token /\ accept[a].pc # "idle"
        BY <3>5, AcceptMoves
      <4> QED
        BY <3>1, <4>1 DEF RowsMade
    <3> QED
      BY <1>3, <3>2, <3>3, <3>4, <3>5 DEF AcceptNext
  <2>3. \A t \in Tokens : invitation[t].status # "absent"
                            => invitation'[t].status # "absent"
    BY RowsStay
  <2> QED
    BY <1>0, <2>1, <2>2, <2>3 DEF RowsMade, Filling
<1>4. CASE ExpireInvitations
  <2>1. \A t \in Tokens : invitation[t].status # "absent"
                            => invitation'[t].status # "absent"
    BY RowsStay
  <2>2. UNCHANGED <<item, known, accept>>
    BY <1>4 DEF ExpireInvitations
  <2> QED
    BY <1>0, <2>1, <2>2 DEF RowsMade, Filling
<1>5. CASE UNCHANGED <<item, known, accept, invitation>>
  BY <1>5 DEF RowsMade, Filling
<1> QED
  BY <1>1, <1>2, <1>3, <1>4, <1>5 DEF Next, vars, RemoveMember, Evict, Tick

\* A step of acceptInvitation disturbs no other call.
LEMMA OthersStay ==
  ASSUME TypeOK, NEW a \in Accepts, AcceptNext(a), NEW b \in Accepts, b # a
  PROVE  accept'[b] = accept[b]
  BY DEF AcceptNext, Hit, Miss, ReadRow, LookInvitee, Activate, MarkAccepted,
         DropToken, AbandonAccept, SetAccept, TypeOK

\* Nothing but acceptInvitation moves its calls.
LEMMA CallsStay ==
  ASSUME [Next]_vars
  PROVE  accept' = accept \/ \E a \in Accepts : AcceptNext(a)
<1>1. ASSUME NEW s \in Items, ItemNext(s) PROVE accept' = accept
  BY <1>1
  DEF ItemNext, LookMember, LookPending, CreateRow, CacheToken, Enqueue, AbandonItem
<1> QED
  BY <1>1 DEF Next, vars, StartBatch, RemoveMember, Evict, ExpireInvitations, Tick

\* The mark of the nightly job keeps what it says.
LEMMA SweptStep ==
  ASSUME TypeOK, Swept, [Next]_vars
  PROVE  Swept'
<1> SUFFICES ASSUME NEW t \in Tokens, invitation'[t].status = "EXPIRED"
             PROVE  invitation'[t].expiresAt < now'
  BY DEF Swept
<1>0. /\ invitation \in [Tokens -> RowType] /\ now \in Nat
      /\ invitation[t].expiresAt \in Nat
  BY DEF TypeOK, RowType, Time
<1>1. now' \in Nat /\ now <= now'
  <2>1. ASSUME NEW s \in Items, ItemNext(s) PROVE now' = now
    BY <2>1
    DEF ItemNext, LookMember, LookPending, CreateRow, CacheToken, Enqueue, AbandonItem
  <2>2. ASSUME NEW a \in Accepts, AcceptNext(a) PROVE now' = now
    BY <2>2
    DEF AcceptNext, Hit, Miss, ReadRow, LookInvitee, Activate, MarkAccepted,
        DropToken, AbandonAccept
  <2>3. now' = now \/ now' = now + 1
    BY <2>1, <2>2
    DEF Next, vars, StartBatch, RemoveMember, Evict, ExpireInvitations, Tick
  <2> QED
    BY <1>0, <2>3
<1>2. CASE invitation'[t] = invitation[t]
  BY <1>0, <1>1, <1>2 DEF Swept
<1>3. CASE invitation'[t] # invitation[t]
  <2>1. \/ ExpireInvitations
        \/ \E s \in Items, u \in Tokens : CreateRow(s, u)
        \/ \E a \in Accepts : MarkAccepted(a)
    BY <1>3
    DEF Next, vars, ItemNext, AcceptNext, StartBatch, LookMember, LookPending,
        CacheToken, Enqueue, AbandonItem, Hit, Miss, ReadRow, LookInvitee, Activate,
        DropToken, AbandonAccept, RemoveMember, Evict, Tick
  <2>2. CASE ExpireInvitations
    <3>1. invitation'[t] = [invitation[t] EXCEPT !.status = "EXPIRED"]
          /\ invitation[t].expiresAt < now
      BY <1>0, <1>3, <2>2 DEF ExpireInvitations, AllOverdue, Overdue
    <3> QED
      BY <1>0, <1>1, <3>1 DEF RowType
  <2>3. ASSUME NEW s \in Items, NEW u \in Tokens, CreateRow(s, u)
        PROVE  FALSE
    <3>1. invitation' = [invitation EXCEPT ![u] =
            [status |-> "PENDING", email |-> item[s].email, expiresAt |-> now + Ttl]]
      BY <2>3 DEF CreateRow
    <3> QED
      BY <1>0, <1>3, <3>1
  <2>4. ASSUME NEW a \in Accepts, MarkAccepted(a)
        PROVE  FALSE
    <3>1. invitation' = [invitation EXCEPT ![accept[a].token].status = "ACCEPTED"]
      BY <2>4 DEF MarkAccepted
    <3> QED
      BY <1>0, <1>3, <3>1 DEF RowType
  <2> QED
    BY <2>1, <2>2, <2>3, <2>4
<1> QED
  BY <1>2, <1>3

\* A call that passes its checks has compared the clock with expiresAt.
LEMMA CheckedAlive ==
  ASSUME TypeOK, [Next]_vars, NEW a \in Accepts,
         accept[a].pc # "checked", accept'[a].pc = "checked"
  PROVE  accept'[a].token \in Tokens /\ Lives(accept'[a].token)
<1>0. /\ accept \in [Accepts -> AcceptType] /\ NoAccept.pc = "idle"
      /\ accept[a].pc # "idle" => accept[a].token \in Tokens
  BY IdleTypes DEF TypeOK, AcceptType
<1>1. AcceptNext(a)
  BY <1>0, OthersStay, CallsStay
<1>2. \A t \in Tokens, pc \in {"checked", "missed"} :
        Arrival(t, pc).token = t /\ Arrival(t, pc).pc = pc
  BY DEF Arrival, NoAccept
<1>3. ASSUME NEW t \in Tokens, Hit(a, t) \/ Miss(a, t)
      PROVE  accept'[a].token = t /\ Lives(t)
  BY <1>0, <1>2, <1>3 DEF Hit, Miss, SetAccept
<1>4. CASE ReadRow(a)
  BY <1>0, <1>4 DEF ReadRow, SetAccept, AcceptType
<1>5. ASSUME LookInvitee(a) \/ Activate(a) \/ MarkAccepted(a)
      PROVE  FALSE
  <2>1. CASE LookInvitee(a)
    BY <1>0, <2>1 DEF LookInvitee, SetAccept, AcceptType
  <2>2. CASE Activate(a)
    BY <1>0, <2>2 DEF Activate, SetAccept, AcceptType
  <2>3. CASE MarkAccepted(a)
    BY <1>0, <2>3 DEF MarkAccepted, SetAccept, AcceptType
  <2> QED
    BY <1>5, <2>1, <2>2, <2>3
<1>6. CASE DropToken(a) \/ AbandonAccept(a)
  BY <1>0, <1>6 DEF DropToken, AbandonAccept, SetAccept
<1> QED
  BY <1>1, <1>3, <1>4, <1>5, <1>6 DEF AcceptNext

\* A member row, once there, is there for good; uses are never taken back.
LEMMA MembersStay ==
  ASSUME TypeOK, [Next]_vars
  PROVE  /\ \A e \in Emails : member[e] # "none" => member'[e] # "none"
         /\ \A t \in Tokens : used[t] > 0 => used'[t] > 0
<1>0. member \in [Emails -> {"none", "active", "removed"}] /\ used \in [Tokens -> 0..2]
  BY DEF TypeOK
<1>1. ASSUME NEW a \in Accepts, Activate(a)
      PROVE  /\ \A e \in Emails : member[e] # "none" => member'[e] # "none"
             /\ \A t \in Tokens : used[t] > 0 => used'[t] > 0
  <2>1. \A e \in Emails : member[e] # "none" => member'[e] # "none"
    BY <1>0, <1>1 DEF Activate
  <2>2. \A t \in Tokens : (IF used[t] < 2 THEN used[t] + 1 ELSE 2) > 0
    BY <1>0
  <2> QED
    BY <1>0, <1>1, <2>1, <2>2 DEF Activate
<1>2. ASSUME NEW a \in Accepts, AcceptNext(a), ~ Activate(a)
      PROVE  UNCHANGED <<member, used>>
  BY <1>2
  DEF AcceptNext, Hit, Miss, ReadRow, LookInvitee, MarkAccepted, DropToken, AbandonAccept
<1>3. ASSUME NEW s \in Items, ItemNext(s) PROVE UNCHANGED <<member, used>>
  BY <1>3
  DEF ItemNext, LookMember, LookPending, CreateRow, CacheToken, Enqueue, AbandonItem
<1>4. ASSUME NEW e \in Emails, RemoveMember(e)
      PROVE  used' = used /\ \A d \in Emails : member[d] # "none" => member'[d] # "none"
  BY <1>0, <1>4 DEF RemoveMember
<1> QED
  BY <1>1, <1>2, <1>3, <1>4 DEF Next, vars, StartBatch, Evict, ExpireInvitations, Tick

\* Only MarkAccepted accepts a row.
LEMMA AcceptedBy ==
  ASSUME TypeOK, [Next]_vars, NEW t \in Tokens,
         invitation'[t].status = "ACCEPTED", invitation[t].status # "ACCEPTED"
  PROVE  \E a \in Accepts : MarkAccepted(a) /\ accept[a].token = t
<1>0. invitation \in [Tokens -> RowType]
  BY DEF TypeOK, RowType
<1>1. ASSUME NEW s \in Items, ItemNext(s) PROVE FALSE
  <2>1. CASE \E u \in Tokens : CreateRow(s, u)
    <3>1. PICK u \in Tokens : CreateRow(s, u)
      BY <2>1
    <3>2. invitation' = [invitation EXCEPT ![u] =
            [status |-> "PENDING", email |-> item[s].email, expiresAt |-> now + Ttl]]
      BY <3>1 DEF CreateRow
    <3>3. invitation'[t] = invitation[t] \/ invitation'[t].status = "PENDING"
      BY <1>0, <3>2
    <3> QED
      BY <3>3
  <2>2. CASE ~ \E u \in Tokens : CreateRow(s, u)
    BY <1>1, <2>2
    DEF ItemNext, LookMember, LookPending, CacheToken, Enqueue, AbandonItem
  <2> QED
    BY <2>1, <2>2
<1>2. ASSUME NEW a \in Accepts, AcceptNext(a)
      PROVE  MarkAccepted(a) /\ accept[a].token = t
  BY <1>0, <1>2
  DEF AcceptNext, Hit, Miss, ReadRow, LookInvitee, Activate, MarkAccepted, DropToken,
      AbandonAccept
<1>3. ASSUME ExpireInvitations PROVE FALSE
  <2>1. \/ invitation'[t] = invitation[t]
        \/ invitation'[t] = [invitation[t] EXCEPT !.status = "EXPIRED"]
    BY <1>0, <1>3 DEF ExpireInvitations
  <2> QED
    BY <1>0, <2>1 DEF RowType
<1> QED
  BY <1>1, <1>2, <1>3 DEF Next, vars, StartBatch, RemoveMember, Evict, Tick

\* Whoever is accepted has become a member.
LEMMA JoinedStep ==
  ASSUME TypeOK, RowsMade, Joined, [Next]_vars
  PROVE  Joined'
<1>0. /\ accept \in [Accepts -> AcceptType] /\ NoAccept.pc = "idle"
      /\ invitation \in [Tokens -> RowType]
      /\ \A a \in Accepts : accept[a].pc # "idle" =>
           accept[a].token \in Tokens /\ invitation[accept[a].token].status # "absent"
  BY IdleTypes DEF TypeOK, AcceptType, RowsMade, RowType
<1>1. AcceptedMeansJoined'
  <2>1. ASSUME NEW t \in Tokens, invitation'[t].status = "ACCEPTED"
        PROVE  used'[t] > 0 /\ member'[invitation'[t].email] # "none"
    <3>1. invitation[t].status # "absent" /\ used[t] > 0
          /\ member[invitation[t].email] # "none"
      <4>1. CASE invitation[t].status = "ACCEPTED"
        BY <4>1 DEF Joined, AcceptedMeansJoined
      <4>2. CASE invitation[t].status # "ACCEPTED"
        <5>1. PICK a \in Accepts : MarkAccepted(a) /\ accept[a].token = t
          BY <2>1, <4>2, AcceptedBy
        <5>2. accept[a].pc = "activated"
          BY <5>1 DEF MarkAccepted, MarksAfter
        <5> QED
          BY <1>0, <5>1, <5>2 DEF Joined, InviteeOf
      <4> QED
        BY <4>1, <4>2
    <3>2. invitation[t].email \in Emails
      BY <1>0 DEF RowType
    <3> QED
      BY <3>1, <3>2, RowsStay, MembersStay
  <2> QED
    BY <2>1 DEF AcceptedMeansJoined
<1>2. ASSUME NEW a \in Accepts, accept'[a].pc \in {"activated", "marked"},
             accept'[a].token = accept[a].token,
             accept[a].pc \in {"activated", "marked"}
      PROVE  used'[accept'[a].token] > 0 /\ member'[InviteeOf(a)'] # "none"
  <2>1. /\ accept[a].token \in Tokens /\ used[accept[a].token] > 0
        /\ invitation[accept[a].token].status # "absent"
        /\ invitation[accept[a].token].email \in Emails
        /\ member[invitation[accept[a].token].email] # "none"
    BY <1>0, <1>2 DEF Joined, InviteeOf, RowType
  <2> QED
    BY <1>2, <2>1, RowsStay, MembersStay DEF InviteeOf
<1>3. ASSUME NEW a \in Accepts, AcceptNext(a),
             accept'[a].pc \in {"activated", "marked"}
      PROVE  used'[accept'[a].token] > 0 /\ member'[InviteeOf(a)'] # "none"
  <2>1. CASE Activate(a)
    <3>1. /\ accept'[a].token = accept[a].token /\ accept[a].token \in Tokens
          /\ invitation' = invitation
      BY <1>0, <2>1 DEF Activate, SetAccept, AcceptType
    <3>2. used[accept[a].token] \in 0..2 /\ InviteeOf(a) \in Emails
      BY <1>0, <3>1 DEF TypeOK, InviteeOf, RowType
    <3>3. (IF used[accept[a].token] < 2 THEN used[accept[a].token] + 1 ELSE 2) > 0
      BY <3>2
    <3>4. used'[accept[a].token] > 0
      BY <2>1, <3>1, <3>3 DEF Activate, TypeOK
    <3>5. member'[InviteeOf(a)] = "active"
      BY <2>1, <3>2 DEF Activate, TypeOK
    <3> QED
      BY <3>1, <3>4, <3>5 DEF InviteeOf
  <2>2. CASE MarkAccepted(a)
    <3>1. accept'[a].token = accept[a].token /\ accept[a].pc = "activated"
      BY <1>0, <2>2 DEF MarkAccepted, MarksAfter, SetAccept, AcceptType
    <3> QED
      BY <1>2, <1>3, <3>1
  <2>3. CASE ~ Activate(a) /\ ~ MarkAccepted(a)
    <3>1. \A t \in Tokens, pc \in {"checked", "missed"} : Arrival(t, pc).pc = pc
      BY DEF Arrival, NoAccept
    <3>2. accept'[a].pc \in {"idle", "checked", "missed", "found"}
      <4>1. CASE \E t \in Tokens : Hit(a, t) \/ Miss(a, t)
        BY <1>0, <3>1, <4>1 DEF Hit, Miss, SetAccept
      <4>2. CASE ReadRow(a)
        BY <1>0, <4>2 DEF ReadRow, SetAccept, AcceptType
      <4>3. CASE LookInvitee(a)
        BY <1>0, <4>3 DEF LookInvitee, SetAccept, AcceptType
      <4>4. CASE DropToken(a) \/ AbandonAccept(a)
        BY <1>0, <4>4 DEF DropToken, AbandonAccept, SetAccept
      <4> QED
        BY <1>3, <2>3, <4>1, <4>2, <4>3, <4>4 DEF AcceptNext
    <3> QED
      BY <1>3, <3>2
  <2> QED
    BY <2>1, <2>2, <2>3
<1>4. \A a \in Accepts : accept'[a].pc \in {"activated", "marked"} =>
        used'[accept'[a].token] > 0 /\ member'[InviteeOf(a)'] # "none"
  BY <1>2, <1>3, OthersStay, CallsStay
<1> QED
  BY <1>1, <1>4 DEF Joined

\* An answered token stays dead.
LEMMA DeadStep ==
  ASSUME TypeOK, RowsMade, Dead, [Next]_vars
  PROVE  Dead'
<1>0. /\ accept \in [Accepts -> AcceptType] /\ NoAccept.pc = "idle" /\ ~ NoAccept.late
      /\ invitation \in [Tokens -> RowType] /\ answered \subseteq Tokens
      /\ \A a \in Accepts : accept[a].pc # "idle" =>
           /\ accept[a].token \in Tokens /\ accept[a].token \in known
           /\ invitation[accept[a].token].status # "absent"
  BY IdleTypes DEF TypeOK, AcceptType, RowsMade, RowType, NoAccept
<1>1. \A t \in Tokens : invitation[t].status = "ACCEPTED"
                          => invitation'[t].status = "ACCEPTED"
  BY RowsStay
<1>2. answered \subseteq answered' /\ known \subseteq known'
  BY DEF Next, vars, ItemNext, AcceptNext, StartBatch, LookMember, LookPending,
         CreateRow, CacheToken, Enqueue, AbandonItem, Hit, Miss, ReadRow, LookInvitee,
         Activate, MarkAccepted, DropToken, AbandonAccept, RemoveMember, Evict,
         ExpireInvitations, Tick
<1>3. \A t \in answered : t \notin cached'
  <2>1. ASSUME NEW s \in Items, CacheToken(s) PROVE \A t \in answered : t \notin cached'
    <3>1. item[s].token \notin known
      BY <2>1 DEF CacheToken, RowsMade, Filling
    <3> QED
      BY <2>1, <3>1 DEF CacheToken, Dead
  <2>2. (\E s \in Items : CacheToken(s)) \/ cached' \subseteq cached
    BY DEF Next, vars, ItemNext, AcceptNext, StartBatch, LookMember, LookPending,
           CreateRow, CacheToken, Enqueue, AbandonItem, Hit, Miss, ReadRow,
           LookInvitee, Activate, MarkAccepted, DropToken, AbandonAccept,
           RemoveMember, Evict, ExpireInvitations, Tick
  <2> QED
    BY <2>1, <2>2 DEF Dead
<1>4. \A t \in answered' \ answered :
        invitation'[t].status = "ACCEPTED" /\ t \notin cached' /\ t \in known'
  <2>1. ASSUME NEW t \in answered' \ answered
        PROVE  \E a \in Accepts : DropToken(a) /\ accept[a].token = t
    BY <2>1 DEF Next, vars, ItemNext, AcceptNext, StartBatch, LookMember, LookPending,
           CreateRow, CacheToken, Enqueue, AbandonItem, Hit, Miss, ReadRow,
           LookInvitee, Activate, MarkAccepted, DropToken, AbandonAccept,
           RemoveMember, Evict, ExpireInvitations, Tick
  <2>2. ASSUME NEW a \in Accepts, DropToken(a)
        PROVE  /\ invitation'[accept[a].token].status = "ACCEPTED"
               /\ accept[a].token \notin cached' /\ accept[a].token \in known'
    BY <1>0, <2>2 DEF DropToken, Dead
  <2> QED
    BY <2>1, <2>2
<1>5. ASSUME NEW a \in Accepts, AcceptNext(a), accept'[a].pc = "marked"
      PROVE  invitation'[accept'[a].token].status = "ACCEPTED"
  <2>1. \A t \in Tokens, pc \in {"checked", "missed"} : Arrival(t, pc).pc = pc
    BY DEF Arrival, NoAccept
  <2>2. MarkAccepted(a)
    <3>1. CASE \E t \in Tokens : Hit(a, t) \/ Miss(a, t)
      BY <1>0, <1>5, <2>1, <3>1 DEF Hit, Miss, SetAccept
    <3>2. CASE ReadRow(a) \/ LookInvitee(a) \/ Activate(a)
      <4>1. accept'[a].pc \in {"checked", "found", "activated"}
        <5>1. CASE ReadRow(a)
          BY <1>0, <5>1 DEF ReadRow, SetAccept, AcceptType
        <5>2. CASE LookInvitee(a)
          BY <1>0, <5>2 DEF LookInvitee, SetAccept, AcceptType
        <5>3. CASE Activate(a)
          BY <1>0, <5>3 DEF Activate, SetAccept, AcceptType
        <5> QED
          BY <3>2, <5>1, <5>2, <5>3
      <4> QED
        BY <1>5, <4>1
    <3>3. CASE DropToken(a) \/ AbandonAccept(a)
      BY <1>0, <1>5, <3>3 DEF DropToken, AbandonAccept, SetAccept
    <3> QED
      BY <1>5, <3>1, <3>2, <3>3 DEF AcceptNext
  <2>3. accept'[a].token = accept[a].token /\ accept[a].token \in Tokens
    BY <1>0, <2>2 DEF MarkAccepted, MarksAfter, SetAccept, AcceptType
  <2>4. invitation[accept[a].token] \in RowType
    BY <1>0, <2>3
  <2> QED
    BY <1>0, <2>2, <2>3, <2>4 DEF MarkAccepted, RowType
<1>6. ASSUME NEW a \in Accepts, AcceptNext(a), accept'[a].late
      PROVE  accept'[a].token \in answered /\ accept'[a].pc = "missed"
  <2>1. ASSUME NEW t \in Tokens, Hit(a, t) \/ Miss(a, t)
        PROVE  accept'[a].token \in answered /\ accept'[a].pc = "missed"
    <3>1. \A pc \in {"checked", "missed"} :
            /\ Arrival(t, pc).pc = pc /\ Arrival(t, pc).token = t
            /\ Arrival(t, pc).late <=> t \in answered
      BY DEF Arrival, NoAccept
    <3>2. CASE Hit(a, t)
      BY <1>0, <1>6, <3>1, <3>2 DEF Hit, SetAccept, Dead
    <3>3. CASE Miss(a, t)
      BY <1>0, <1>6, <3>1, <3>3 DEF Miss, SetAccept
    <3> QED
      BY <2>1, <3>2, <3>3
  <2>2. CASE ReadRow(a)
    <3>1. accept'[a].late = accept[a].late
      BY <1>0, <2>2 DEF ReadRow, SetAccept, AcceptType
    <3>2. accept[a].token \in answered
      BY <1>6, <3>1 DEF Dead
    <3> QED
      BY <2>2, <3>2 DEF ReadRow, StatusPending, Dead
  <2>3. CASE LookInvitee(a) \/ Activate(a) \/ MarkAccepted(a)
    <3>1. accept'[a].late = accept[a].late /\ accept[a].pc # "missed"
      BY <2>3, AcceptMoves
    <3> QED
      BY <1>6, <3>1 DEF Dead
  <2>4. CASE DropToken(a) \/ AbandonAccept(a)
    BY <1>0, <1>6, <2>4 DEF DropToken, AbandonAccept, SetAccept
  <2> QED
    BY <1>6, <2>1, <2>2, <2>3, <2>4 DEF AcceptNext
<1>7. \A a \in Accepts : accept'[a].pc = "marked" =>
        invitation'[accept'[a].token].status = "ACCEPTED"
  BY <1>0, <1>1, <1>5, OthersStay, CallsStay DEF Dead
<1>8. \A a \in Accepts : accept'[a].late =>
        accept'[a].token \in answered' /\ accept'[a].pc = "missed"
  BY <1>2, <1>6, OthersStay, CallsStay DEF Dead
<1>9. \A t \in answered' :
        invitation'[t].status = "ACCEPTED" /\ t \notin cached' /\ t \in known'
  BY <1>0, <1>1, <1>2, <1>3, <1>4 DEF Dead
<1> QED
  BY <1>7, <1>8, <1>9 DEF Dead

\* The strengthened invariant holds at the start and over every step.
LEMMA IInvInit == Init => IInv
<1> SUFFICES ASSUME Init PROVE IInv
  OBVIOUS
<1>1. /\ \A a \in Accepts : accept[a].pc = "idle" /\ ~ accept[a].late
      /\ \A s \in Items : item[s].pc = "idle"
      /\ \A t \in Tokens : invitation[t].status = "absent"
      /\ known = {} /\ answered = {}
  BY DEF Init, NoItem, NoAccept
<1> QED
  BY <1>1, TypeInit
  DEF IInv, RowsMade, Filling, Joined, AcceptedMeansJoined, Dead, Swept

\* No step breaks it.
LEMMA IInvStep == IInv /\ [Next]_vars => IInv'
  BY TypeStep, RowsMadeStep, JoinedStep, DeadStep, SweptStep DEF IInv

\* It holds in every reachable state.
LEMMA IInvAlways == Spec => []IInv
  BY IInvInit, IInvStep, PTL DEF Spec

\* What the nightly job has marked EXPIRED passes no check of acceptInvitation.
THEOREM SweptCorrect == Spec => SweptIsRefused
<1> DEFINE Step == \A a \in Accepts :
             accept[a].pc # "checked" /\ accept'[a].pc = "checked"
             => invitation[accept'[a].token].status # "EXPIRED"
<1>1. IInv /\ [Next]_vars => [Step]_vars
  <2> SUFFICES ASSUME IInv, [Next]_vars, NEW a \in Accepts,
                      accept[a].pc # "checked", accept'[a].pc = "checked"
               PROVE  invitation[accept'[a].token].status # "EXPIRED"
    OBVIOUS
  <2>1. accept'[a].token \in Tokens /\ Lives(accept'[a].token)
    BY CheckedAlive DEF IInv
  <2>2. now \in Nat /\ invitation[accept'[a].token].expiresAt \in Nat
    BY <2>1 DEF IInv, TypeOK, Time
  <2> QED
    BY <2>1, <2>2 DEF IInv, Swept, Lives
<1>2. Spec => [][Step]_vars
  BY <1>1, IInvAlways, PTL DEF Spec
<1> QED
  BY <1>2 DEF SweptIsRefused

\* An invitation marked ACCEPTED did make its invitee a member.
THEOREM AcceptedCorrect == Spec => []AcceptedMeansJoined
<1>1. IInv => AcceptedMeansJoined
  BY DEF IInv, Joined
<1> QED
  BY <1>1, IInvAlways, PTL

\* A token that acceptInvitation has answered for serves no later call.
THEOREM AnsweredCorrect == Spec => []AnsweredTokenIsDead
<1>1. IInv => AnsweredTokenIsDead
  BY DEF IInv, Dead, AnsweredTokenIsDead
<1> QED
  BY <1>1, IInvAlways, PTL
=============================================================================
