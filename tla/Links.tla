-------------------------------- MODULE Links --------------------------------
(***************************************************************************)
(* The links the application mails: to verify an address, to reset a       *)
(* password and to confirm a new address (modules/auth/auth.service.ts,    *)
(* modules/users/user.service.ts), and the invitations, which vouch for an *)
(* address as well (acceptInvitation in invitation.service.ts).            *)
(*                                                                         *)
(* A link is a random token, stored hashed in Redis with what it is about. *)
(* The call that redeems it reads the entry, loads a user, hands the whole *)
(* row to save, which reads the row again and updates the columns that     *)
(* differ, and deletes the entry last, each with an await: two calls may   *)
(* redeem one link, a call may write back a row that has changed, and one  *)
(* that dies before the delete leaves the link usable.                     *)
(* An entry whose mail is lost is one that expires at once.  Requests that *)
(* only issue a link are one step: nothing they read can make the entry    *)
(* different from one stored when they read it.                            *)
(***************************************************************************)
EXTENDS Naturals, FiniteSets

CONSTANTS
  Users,
  Addresses,  \* e-mail addresses as spelled
  NoAddress,  \* the address of a user without a row
  Lower,      \* String.toLowerCase
  Calls,      \* concurrent requests that save a row
  NoLink,     \* what a call that redeems no link holds
  MaxLinks    \* bound: links alive or in a call at a time

ASSUME ConstantsAssumption ==
  /\ NoAddress \notin Addresses /\ NoAddress \notin Users
  /\ Lower \in [Addresses -> Addresses]

VARIABLES
  row,     \* the columns of each user's row
  links,   \* the entries in Redis
  call,    \* the request each call is serving
  proven   \* history: addresses at which a user has opened a link

vars == <<row, links, call, proven>>

Columns == {"email", "active", "verified"}
RowType == [email : Addresses \cup {NoAddress}, active : BOOLEAN,
            verified : BOOLEAN]
NoRow == [email |-> NoAddress, active |-> FALSE, verified |-> FALSE]

\* What Redis keeps with a token (user, email), and where the mail went (to).
Kinds == {"verify", "reset", "change"}
LinkType == [kind : Kinds, user : Users, email : Addresses, to : Addresses]
VerifyLink(u, e) == [kind |-> "verify", user |-> u, email |-> e, to |-> e]
ResetLink(u, e) == [kind |-> "reset", user |-> u, email |-> e, to |-> e]
ChangeLinkToOld(u, e) ==
  [kind |-> "change", user |-> u, email |-> e, to |-> row[u].email]
ChangeLink(u, e) == [kind |-> "change", user |-> u, email |-> e, to |-> e]

\* A call: link is the one it redeems, base its copy of the row of user, stale
\* whether, for a reset, somebody saved that row since it was loaded, diff what
\* save found to write.  A call that accepts an invitation has checked the user
\* it reactivates.
IdleCall == [pc |-> "idle"]
CallType ==
  {IdleCall}
  \cup [pc : {"opened"}, link : LinkType]
  \cup [pc : {"checked"}, user : Users]
  \cup [pc : {"loaded", "selected"}, op : Kinds, link : LinkType, user : Users,
        base : RowType, stale : BOOLEAN, diff : SUBSET Columns]
  \cup [pc : {"loaded", "selected"}, op : {"update", "remove", "accept"},
        link : {NoLink}, user : Users, base : RowType, stale : BOOLEAN,
        diff : SUBSET Columns]
  \cup [pc : {"saved"}, link : LinkType]

Init ==
  /\ row = [u \in Users |-> NoRow]
  /\ links = {}
  /\ call = [c \in Calls |-> IdleCall]
  /\ proven = [u \in Users |-> {}]

-----------------------------------------------------------------------------
(* Issuing a link                                                          *)

\* findOneBy({ email }) and getByEmail.
HoldersOf(e) == {u \in Users : row[u].email = e}

Redeems(k) ==
  \/ k.pc \in {"opened", "saved"}
  \/ k.pc \in {"loaded", "selected"} /\ k.op \in Kinds
LinksOfCalls == {call[c].link : c \in {d \in Calls : Redeems(call[d])}}
Issue(l) ==
  /\ Cardinality(links \cup LinksOfCalls \cup {l}) <= MaxLinks
  /\ links' = links \cup {l}
  /\ UNCHANGED <<call, proven>>

\* register: the row, under the lower-cased address, and a link to verify it.
Register(u, e) ==
  /\ row[u].email = NoAddress /\ HoldersOf(Lower[e]) = {}
  /\ row' = [row EXCEPT ![u] =
               [email |-> Lower[e], active |-> TRUE, verified |-> FALSE]]
  /\ Issue(VerifyLink(u, Lower[e]))

ResendVerifyEmail(u) ==
  /\ row[u].email \in Addresses
  /\ row[u].active /\ ~row[u].verified
  /\ Issue(VerifyLink(u, row[u].email))
  /\ UNCHANGED row

ForgotPassword(u) ==
  /\ row[u].email \in Addresses
  /\ Issue(ResetLink(u, row[u].email))
  /\ UNCHANGED row

\* JwtStrategy.validate: who may use the routes that take an access token.
MayAct(u) == row[u].active /\ row[u].verified

\* changeEmail: the new address is not lower-cased, and not one of another user.
\* It must differ from the address the access token claims, which may be one the
\* user had before: that excludes nothing here.
ChangeEmail(u, e) ==
  /\ MayAct(u)
  /\ HoldersOf(e) \subseteq {u}
  /\ Issue(ChangeLink(u, e))
  /\ UNCHANGED row

\* TTL_EXPIRATION, or the mail never arrives.
Expire(l) ==
  /\ links' = links \ {l}
  /\ UNCHANGED <<row, call, proven>>

-----------------------------------------------------------------------------
(* Redeeming a link, and the other calls that save a row                   *)

\* The call reads the entry of the link somebody opened in the mailbox.
Open(c, l) ==
  /\ call[c].pc = "idle" /\ l \in links
  /\ call' = [call EXCEPT ![c] = [pc |-> "opened", link |-> l]]
  /\ proven' = [proven EXCEPT ![l.user] = @ \cup {l.to}]
  /\ UNCHANGED <<row, links>>

Load(c, op, link, u) ==
  /\ row[u].email \in Addresses
  /\ call' = [call EXCEPT ![c] =
       [pc |-> "loaded", op |-> op, link |-> link, user |-> u,
        base |-> row[u], stale |-> FALSE, diff |-> {}]]
  /\ UNCHANGED <<row, links, proven>>

\* verifyEmail takes the user the entry names, in whatever state.
LoadVerify(c) ==
  /\ call[c].pc = "opened" /\ call[c].link.kind = "verify"
  /\ Load(c, "verify", call[c].link, call[c].link.user)

\* resetPassword takes the user who has the address now.
ResetById(l) == {l.user}
ResetUser(l) == HoldersOf(l.email)
LoadReset(c) ==
  /\ call[c].pc = "opened" /\ call[c].link.kind = "reset"
  /\ \E u \in ResetUser(call[c].link) :
       row[u].active /\ Load(c, "reset", call[c].link, u)

\* confirmEmailChange takes the user the entry names, if still active.
LoadConfirm(c) ==
  LET u == call[c].link.user IN
  /\ call[c].pc = "opened" /\ call[c].link.kind = "change"
  /\ row[u].active
  /\ Load(c, "change", call[c].link, u)

\* PATCH /users/me by the user, and a removal by an administrator.
LoadUpdate(c, u) ==
  call[c].pc = "idle" /\ MayAct(u) /\ Load(c, "update", NoLink, u)
LoadRemove(c, u) ==
  call[c].pc = "idle" /\ row[u].active /\ Load(c, "remove", NoLink, u)

\* acceptInvitation: whoever opens an invitation answers from its address, whose
\* account must be inactive, or missing.
CheckAccept(c, u) ==
  /\ call[c].pc = "idle"
  /\ row[u].email \in Addresses /\ ~row[u].active
  /\ call' = [call EXCEPT ![c] = [pc |-> "checked", user |-> u]]
  /\ proven' = [proven EXCEPT ![u] = @ \cup {row[u].email}]
  /\ UNCHANGED <<row, links>>

\* preload reads the row again by its id, whatever has become of it.
LoadAccept(c) ==
  call[c].pc = "checked" /\ Load(c, "accept", NoLink, call[c].user)

\* A missing account is inserted, under the address as it was typed.  The look-up
\* before it decides nothing that the unique index does not decide again.
InsertAccept(u, e) ==
  /\ row[u].email = NoAddress /\ HoldersOf(e) = {}
  /\ row' = [row EXCEPT ![u] = [email |-> e, active |-> TRUE, verified |-> TRUE]]
  /\ proven' = [proven EXCEPT ![u] = @ \cup {e}]
  /\ UNCHANGED <<links, call>>

\* The columns a call sets on its copy; passwords and names are not modelled.
MergedSwapped(k) ==
  IF k.op = "change" THEN [k.base EXCEPT !.email = k.link.user]
  ELSE [k.base EXCEPT !.verified = @ \/ k.op = "verify"]
Merged(k) ==
  CASE k.op = "verify" -> [k.base EXCEPT !.verified = TRUE]
    [] k.op = "change" -> [k.base EXCEPT !.email = k.link.email]
    [] k.op = "remove" -> [k.base EXCEPT !.active = FALSE]
    [] k.op = "accept" -> [k.base EXCEPT !.active = TRUE, !.verified = TRUE]
    [] OTHER           -> k.base

\* save, first query: which columns differ from the row as it is now.
Select(c) ==
  LET k == call[c] IN
  /\ k.pc = "loaded"
  /\ call' = [call EXCEPT ![c] =
       [k EXCEPT !.pc = "selected",
                 !.diff = {x \in Columns : Merged(k)[x] # row[k.user][x]}]]
  /\ UNCHANGED <<row, links, proven>>

\* What the UPDATE makes of a row.
Written(k, r) ==
  [email    |-> IF "email" \in k.diff THEN Merged(k).email ELSE r.email,
   active   |-> IF "active" \in k.diff THEN Merged(k).active ELSE r.active,
   verified |-> IF "verified" \in k.diff THEN Merged(k).verified ELSE r.verified]

\* The copies that others hold of a row being saved are out of date; for a reset
\* we keep track of it.
Outdated(k, u) ==
  IF k.pc \in {"loaded", "selected"} /\ k.op = "reset" /\ k.user = u
  THEN [k EXCEPT !.stale = TRUE] ELSE k

\* save, second query, which the unique index on email refuses to an address
\* taken meanwhile.
Save(c) ==
  LET k == call[c]
      r == Written(k, row[k.user])
  IN
  /\ k.pc = "selected"
  /\ HoldersOf(r.email) \subseteq {k.user}
  /\ row' = [row EXCEPT ![k.user] = r]
  /\ call' = [d \in Calls |->
       IF d # c THEN Outdated(call[d], k.user)
       ELSE IF k.op \in Kinds THEN [pc |-> "saved", link |-> k.link]
       ELSE IdleCall]
  /\ UNCHANGED <<links, proven>>

\* The entry is deleted, and the call answered.
Drop(c) ==
  /\ call[c].pc = "saved"
  /\ links' = links \ {call[c].link}
  /\ call' = [call EXCEPT ![c] = IdleCall]
  /\ UNCHANGED <<row, proven>>

\* A guard refuses, an awaited call throws, or the process dies.
Abandon(c) ==
  /\ call[c].pc # "idle"
  /\ call' = [call EXCEPT ![c] = IdleCall]
  /\ UNCHANGED <<row, links, proven>>

-----------------------------------------------------------------------------
IssueNext ==
  \E u \in Users :
    \/ \E e \in Addresses :
         Register(u, e) \/ InsertAccept(u, e) \/ ChangeEmail(u, e)
    \/ ResendVerifyEmail(u)
    \/ ForgotPassword(u)

CallNext(c) ==
  \/ \E l \in links : Open(c, l)
  \/ LoadVerify(c) \/ LoadReset(c) \/ LoadConfirm(c)
  \/ \E u \in Users : LoadUpdate(c, u) \/ LoadRemove(c, u)
  \/ \E u \in Users : CheckAccept(c, u)
  \/ LoadAccept(c)
  \/ Select(c) \/ Save(c) \/ Drop(c) \/ Abandon(c)

Next ==
  \/ IssueNext
  \/ \E l \in links : Expire(l)
  \/ \E c \in Calls : CallNext(c)

Spec == Init /\ [][Next]_vars

-----------------------------------------------------------------------------
(* Properties                                                              *)

\* Every variable has its type.
TypeOK ==
  /\ row \in [Users -> RowType]
  /\ links \subseteq LinkType
  /\ call \in [Calls -> CallType]
  /\ proven \in [Users -> SUBSET Addresses]

\* A verified account stands under an address at which its user has opened a
\* link: however verifications, changes of address and stale saves overlap,
\* isVerified never vouches for an address nobody answered from.
VerifiedMeansProven ==
  \A u \in Users : row[u].verified => row[u].email \in proven[u]

\* A password is reset only by a link mailed to the address its account has at
\* that moment, links issued before a change of address included, unless the
\* row was saved by another call since this one loaded it.
MailboxDecides ==
  [][\A c \in Calls :
       call[c].pc = "selected" /\ call[c].op = "reset" /\ ~call[c].stale
         /\ call'[c].pc = "saved"
       => row[call[c].user].email = call[c].link.to]_vars

=============================================================================
