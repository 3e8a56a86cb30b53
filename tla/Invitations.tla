---------------------------- MODULE Invitations ----------------------------
(***************************************************************************)
(* The invitations of one organisation (modules/invitations): the batch    *)
(* sent by an admin, its acceptance by whoever holds the token, the nightly *)
(* expiry, and the removals that let a person be invited again.            *)
(*                                                                         *)
(* An invitation is a row with a unique token hash and, for its lifetime,  *)
(* an entry invite:<hash> in Redis that acceptInvitation prefers to the    *)
(* row.  The entry has no status.  One action is one awaited step; the     *)
(* tokens that accepting issues are in Sessions, the profile columns it    *)
(* overwrites in Accounts.                                                 *)
(***************************************************************************)
EXTENDS Naturals, FiniteSets

CONSTANTS
  Emails,      \* the addresses that are ever invited, or belong to members
  Founder,     \* the address of the OWNER, who cannot be removed
  Tokens,      \* the tokens that can ever be generated
  Items,       \* batch items being sent at the same time
  Accepts,     \* concurrent calls of acceptInvitation
  MaxMembers,  \* plan.limits.maxMembers
  Ttl,         \* INVITE_TOKEN_TTL
  MaxNow,      \* bound on the clock
  NoToken

Time == 0..MaxNow

ASSUME ConstantsAssumption ==
  /\ IsFiniteSet(Emails) /\ Founder \in Emails
  /\ NoToken \notin Tokens
  /\ MaxMembers \in Nat \ {0} /\ MaxNow \in Nat /\ Ttl \in Nat \ {0}

VARIABLES
  now,
  member,      \* users.is_active of each address, "none" without a row
  invitation,  \* [status, email, expiresAt], status "absent" before the INSERT
  cached,      \* tokens with an entry in Redis
  known,       \* tokens the invitation email has been queued for
  item,        \* [pc, email, token]: one sendOne
  accept,      \* [pc, token, existing, late]: one acceptInvitation
  used,        \* history: how often a token made its invitee active, 2 at most
  answered     \* history: tokens an acceptInvitation has answered 200 for

vars == <<now, member, invitation, cached, known, item, accept, used, answered>>

ItemPc   == {"idle", "start", "noMember", "clear", "created", "cached"}
AcceptPc == {"idle", "missed", "checked", "found", "activated", "marked"}
Statuses == {"absent", "PENDING", "ACCEPTED", "EXPIRED"}

NoItem   == [pc |-> "idle", email |-> Founder, token |-> NoToken]
NoAccept == [pc |-> "idle", token |-> NoToken, existing |-> FALSE, late |-> FALSE]

ActiveMembers == {e \in Emails : member[e] = "active"}
Pending(e) ==
  {t \in Tokens : invitation[t].status = "PENDING" /\ invitation[t].email = e}

Init ==
  /\ now = 0
  /\ member = [e \in Emails |-> IF e = Founder THEN "active" ELSE "none"]
  /\ invitation = [t \in Tokens |->
       [status |-> "absent", email |-> Founder, expiresAt |-> 0]]
  /\ cached = {} /\ known = {}
  /\ item = [s \in Items |-> NoItem]
  /\ accept = [a \in Accepts |-> NoAccept]
  /\ used = [t \in Tokens |-> 0]
  /\ answered = {}

-----------------------------------------------------------------------------
(* MemberInviteTrackerInterceptor, and InvitationService.send              *)

SetItem(s, k) == item' = [item EXCEPT ![s] = k]

\* The interceptor counts the active members once for the whole batch, whose
\* items then run concurrently.
StartBatch(to) ==
  /\ DOMAIN to # {} /\ \A s \in DOMAIN to : item[s].pc = "idle"
  /\ Cardinality(ActiveMembers) + Cardinality(DOMAIN to) <= MaxMembers
  /\ item' = [s \in Items |->
       IF s \in DOMAIN to THEN [NoItem EXCEPT !.pc = "start", !.email = to[s]]
       ELSE item[s]]
  /\ UNCHANGED <<now, member, invitation, cached, known, accept, used, answered>>

LookMember(s) ==
  /\ item[s].pc = "start" /\ member[item[s].email] # "active"
  /\ SetItem(s, [item[s] EXCEPT !.pc = "noMember"])
  /\ UNCHANGED <<now, member, invitation, cached, known, accept, used, answered>>

LookPending(s) ==
  /\ item[s].pc = "noMember" /\ Pending(item[s].email) = {}
  /\ SetItem(s, [item[s] EXCEPT !.pc = "clear"])
  /\ UNCHANGED <<now, member, invitation, cached, known, accept, used, answered>>

\* MaxNow bounds the clock: every invitation can still expire.
CreateRow(s, t) ==
  /\ item[s].pc = "clear" /\ invitation[t].status = "absent"
  /\ now + Ttl < MaxNow
  /\ invitation' = [invitation EXCEPT ![t] =
       [status |-> "PENDING", email |-> item[s].email, expiresAt |-> now + Ttl]]
  /\ SetItem(s, [item[s] EXCEPT !.pc = "created", !.token = t])
  /\ UNCHANGED <<now, member, cached, known, accept, used, answered>>

CacheToken(s) ==
  /\ item[s].pc = "created"
  /\ cached' = cached \cup {item[s].token}
  /\ SetItem(s, [item[s] EXCEPT !.pc = "cached"])
  /\ UNCHANGED <<now, member, invitation, known, accept, used, answered>>

Enqueue(s) ==
  /\ item[s].pc = "cached"
  /\ known' = known \cup {item[s].token}
  /\ SetItem(s, NoItem)
  /\ UNCHANGED <<now, member, invitation, cached, accept, used, answered>>

\* The item answers success: false, or the process dies; nothing is undone.
AbandonItem(s) ==
  /\ item[s].pc # "idle"
  /\ SetItem(s, NoItem)
  /\ UNCHANGED <<now, member, invitation, cached, known, accept, used, answered>>

-----------------------------------------------------------------------------
(* InvitationService.acceptInvitation                                      *)

SetAccept(a, k) == accept' = [accept EXCEPT ![a] = k]

\* The test of expiresAt, on the entry as on the row.
Lives(t) == now <= invitation[t].expiresAt

ArrivalUnnamed(t, pc) == [NoAccept EXCEPT !.pc = pc]
Arrival(t, pc) ==
  [NoAccept EXCEPT !.pc = pc, !.token = t, !.late = t \in answered]

\* The entry has no status, which then defaults to PENDING.
Hit(a, t) ==
  /\ accept[a].pc = "idle"
  /\ t \in known /\ t \in cached /\ Lives(t)
  /\ SetAccept(a, Arrival(t, "checked"))
  /\ UNCHANGED <<now, member, invitation, cached, known, item, used, answered>>

Miss(a, t) ==
  /\ accept[a].pc = "idle"
  /\ t \in known /\ t \notin cached
  /\ SetAccept(a, Arrival(t, "missed"))
  /\ UNCHANGED <<now, member, invitation, cached, known, item, used, answered>>

\* The row must be PENDING.
StatusIgnored(t) == TRUE
StatusPending(t) == invitation[t].status = "PENDING"

ReadRow(a) ==
  /\ accept[a].pc = "missed"
  /\ StatusPending(accept[a].token) /\ Lives(accept[a].token)
  /\ SetAccept(a, [accept[a] EXCEPT !.pc = "checked"])
  /\ UNCHANGED <<now, member, invitation, cached, known, item, used, answered>>

InviteeOf(a) == invitation[accept[a].token].email

\* The invitee must not be active; the password is hashed after this.
LookInvitee(a) ==
  /\ accept[a].pc = "checked" /\ member[InviteeOf(a)] # "active"
  /\ SetAccept(a, [accept[a] EXCEPT !.pc = "found",
                     !.existing = member[InviteeOf(a)] = "removed"])
  /\ UNCHANGED <<now, member, invitation, cached, known, item, used, answered>>

\* A row that was there is overwritten, whatever has become of it; a new one is
\* inserted, which the unique index on email lets through once.
Activate(a) ==
  /\ accept[a].pc = "found"
  /\ accept[a].existing \/ member[InviteeOf(a)] = "none"
  /\ member' = [member EXCEPT ![InviteeOf(a)] = "active"]
  /\ used' = [used EXCEPT ![accept[a].token] = IF @ < 2 THEN @ + 1 ELSE 2]
  /\ SetAccept(a, [accept[a] EXCEPT !.pc = "activated"])
  /\ UNCHANGED <<now, invitation, cached, known, item, answered>>

\* The token pair is issued, then the row is marked, whatever its status.
MarksFrom == {"found", "activated"}
MarksAfter == {"activated"}

MarkAccepted(a) ==
  /\ accept[a].pc \in MarksAfter
  /\ invitation' = [invitation EXCEPT ![accept[a].token].status = "ACCEPTED"]
  /\ SetAccept(a, [accept[a] EXCEPT !.pc = "marked"])
  /\ UNCHANGED <<now, member, cached, known, item, used, answered>>

DropToken(a) ==
  /\ accept[a].pc = "marked"
  /\ LET t == accept[a].token
     IN  /\ cached' = cached \ {t}
         /\ answered' = answered \cup {t}
  /\ SetAccept(a, NoAccept)
  /\ UNCHANGED <<now, member, invitation, known, item, used>>

\* The call is refused, an awaited call throws, or the process dies.
AbandonAccept(a) ==
  /\ accept[a].pc # "idle"
  /\ SetAccept(a, NoAccept)
  /\ UNCHANGED <<now, member, invitation, cached, known, item, used, answered>>

-----------------------------------------------------------------------------
(* What else happens to rows and entries                                   *)

RemoveMember(e) ==
  /\ member[e] = "active" /\ e # Founder
  /\ member' = [member EXCEPT ![e] = "removed"]
  /\ UNCHANGED <<now, invitation, cached, known, item, accept, used, answered>>

\* The nightly UPDATE, on the rows it selects and no others.
OverdueAtOnce(t) ==
  invitation[t].status = "PENDING" /\ invitation[t].expiresAt <= now
Overdue(t) == invitation[t].status = "PENDING" /\ invitation[t].expiresAt < now
OverdueUnread == {t \in Tokens : Overdue(t) /\ t \in known}
AllOverdue == {t \in Tokens : Overdue(t)}

ExpireInvitations ==
  /\ AllOverdue # {}
  /\ invitation' = [t \in Tokens |->
       IF t \in AllOverdue THEN [invitation[t] EXCEPT !.status = "EXPIRED"]
       ELSE invitation[t]]
  /\ UNCHANGED <<now, member, cached, known, item, accept, used, answered>>

\* The TTL of the entry runs out, or Redis loses it.
Evict(t) ==
  /\ t \in cached
  /\ cached' = cached \ {t}
  /\ UNCHANGED <<now, member, invitation, known, item, accept, used, answered>>

Tick ==
  /\ now < MaxNow
  /\ now' = now + 1
  /\ UNCHANGED <<member, invitation, cached, known, item, accept, used, answered>>

-----------------------------------------------------------------------------
ItemNext(s) ==
  \/ LookMember(s) \/ LookPending(s) \/ (\E t \in Tokens : CreateRow(s, t))
  \/ CacheToken(s) \/ Enqueue(s) \/ AbandonItem(s)

AcceptNext(a) ==
  \/ (\E t \in Tokens : Hit(a, t) \/ Miss(a, t)) \/ ReadRow(a)
  \/ LookInvitee(a) \/ Activate(a) \/ MarkAccepted(a) \/ DropToken(a)
  \/ AbandonAccept(a)

Next ==
  \/ \E batch \in SUBSET Items : \E to \in [batch -> Emails] : StartBatch(to)
  \/ \E s \in Items : ItemNext(s)
  \/ \E a \in Accepts : AcceptNext(a)
  \/ \E e \in Emails : RemoveMember(e)
  \/ \E t \in Tokens : Evict(t)
  \/ ExpireInvitations \/ Tick

Spec == Init /\ [][Next]_vars

\* Time passes and the nightly job runs.
FairSpec == Spec /\ WF_vars(Tick) /\ WF_vars(ExpireInvitations)

-----------------------------------------------------------------------------
(* Properties                                                              *)

\* Every variable has its type, and a call past its lookup has a token.
TypeOK ==
  /\ now \in Time
  /\ member \in [Emails -> {"none", "active", "removed"}]
  /\ invitation \in [Tokens -> [status : Statuses, email : Emails, expiresAt : Time]]
  /\ cached \subseteq Tokens /\ known \subseteq Tokens
  /\ item \in [Items -> [pc : ItemPc, email : Emails, token : Tokens \cup {NoToken}]]
  /\ \A s \in Items : item[s].pc \in {"created", "cached"} => item[s].token \in Tokens
  /\ accept \in [Accepts -> [pc : AcceptPc, token : Tokens \cup {NoToken},
                             existing : BOOLEAN, late : BOOLEAN]]
  /\ \A a \in Accepts : accept[a].pc # "idle" <=> accept[a].token \in Tokens
  /\ used \in [Tokens -> 0..2]
  /\ answered \subseteq Tokens

\* A row says ACCEPTED only of an invitation that did make its invitee a member,
\* wherever a crash cut acceptInvitation off.
AcceptedMeansJoined ==
  \A t \in Tokens : invitation[t].status = "ACCEPTED" =>
    used[t] > 0 /\ member[invitation[t].email] # "none"

\* Once an acceptance is answered the token is dead to every call that arrives
\* after it: it does not bring back a removed member.
AnsweredTokenIsDead ==
  \A a \in Accepts : accept[a].late => accept[a].pc \in {"idle", "missed"}

\* No call passes its checks with an invitation that the nightly job has already
\* marked EXPIRED, though the entry in Redis, where that mark never arrives, goes
\* on counting as PENDING: the job is never ahead of acceptInvitation.
SweptIsRefused ==
  [][\A a \in Accepts :
       accept[a].pc # "checked" /\ accept'[a].pc = "checked"
       => invitation[accept'[a].token].status # "EXPIRED"]_vars

\* No address stays blocked by an invitation: a PENDING row, also one whose
\* email was never queued, is accepted or expires.
PendingEnds ==
  \A t \in Tokens :
    invitation[t].status = "PENDING" ~> invitation[t].status # "PENDING"

=============================================================================
